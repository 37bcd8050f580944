------------------------------- MODULE MC_Codec -------------------------------
(***************************************************************************)
(* Checks the codec against a reference written from the byte layout of  *)
(* spec sections 4.1 and 4.2 with the bit operators of Bitwise, on the    *)
(* records of CodecCheck.                                                 *)
(***************************************************************************)
EXTENDS CodecCheck, Bitwise, TLC

RefKey(b) ==
    [i \in 0 .. KEY_LEN - 1 |->
        IF i = 0 THEN ((b[35] * 64) & 192) | (b[5] & 63)
        ELSE IF i <= 5 THEN b[5 - i]
        ELSE b[i + 7]]
RefAddr(k) ==
    [i \in 0 .. ADDR_LEN - 1 |-> IF i = 0 THEN k[0] | 192 ELSE k[i]]
RefPayload(k) ==
    [i \in 0 .. PAYLOAD_LEN - 1 |->
        IF i <= 6 THEN <<30, 255, 76, 0, 18, 25, 16>>[i + 1]
        ELSE IF i <= 28 THEN k[i - 1]
        ELSE IF i = 29 THEN shiftR(k[0], 6) & 3
        ELSE 0]

(* airtag_to_key, key_to_addr and key_to_payload compute exactly the      *)
(* bytes of the spec's layout, including the static-random marker on      *)
(* address byte 0 and the top bits of key[0] in payload byte 29.          *)
CodecMatchesReference ==
    LET key == AirtagToKey(bin)
    IN  /\ key = RefKey(bin)
        /\ Advertisement(bin) = [addr |-> RefAddr(key),
                                 payload |-> RefPayload(key)]

=============================================================================
