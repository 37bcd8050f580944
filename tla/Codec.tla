-------------------------------- MODULE Codec --------------------------------
(***************************************************************************)
(* The tag codec of src/relay-fw/src/components/airtag/airtag.c: the      *)
(* re-layout of the 38 decoded bytes of a tag record into a 28-byte       *)
(* P-224 public key (airtag_to_key), and of the key into the 6-byte BLE   *)
(* static random address (key_to_addr) and the 31-byte offline-finding    *)
(* advertisement payload (key_to_payload).                                *)
(*                                                                         *)
(* Byte arrays are functions from 0 .. n-1 to 0 .. 255, as in C.  The     *)
(* masks and shifts are written arithmetically: x << 6 & 0xC0 is          *)
(* (x * 64) % 256, x & 0x3F is x % 64, x | 0xC0 is 192 + x % 64, and      *)
(* (x >> 6) & 0b11 is x \div 64; an OR of disjoint bit ranges is a sum.   *)
(* MC_Codec checks these forms against the bitwise ones.                  *)
(***************************************************************************)
EXTENDS Integers

BIN_DATA_LEN == 38
KEY_LEN == 28
ADDR_LEN == 6
PAYLOAD_LEN == 31

Byte == 0 .. 255
Bytes(n) == [0 .. n - 1 -> Byte]

(* Mutant: raw bytes 0..4 read one position too high.                     *)
AirtagToKeyOffByOne(bin) ==
    [i \in 0 .. KEY_LEN - 1 |->
        IF i = 0 THEN ((bin[35] * 64) % 256) + (bin[5] % 64)
        ELSE IF i <= 5 THEN bin[6 - i]
        ELSE bin[i + 7]]

(* airtag_to_key after a successful decode: key[0] takes its top two bits *)
(* from bin[35] and its low six from bin[5]; key[1..5] are bin[4..0];     *)
(* key[6..27] are bin[13..34].                                            *)
AirtagToKey(bin) ==
    [i \in 0 .. KEY_LEN - 1 |->
        IF i = 0 THEN ((bin[35] * 64) % 256) + (bin[5] % 64)
        ELSE IF i <= 5 THEN bin[5 - i]
        ELSE bin[i + 7]]

(* key_to_addr: the first six key bytes, top two bits of byte 0 set to    *)
(* mark a static random address.                                          *)
KeyToAddr(key) ==
    [i \in 0 .. ADDR_LEN - 1 |->
        IF i = 0 THEN 192 + (key[0] % 64) ELSE key[i]]

(* The fixed header of key_to_payload: length 30, manufacturer-specific   *)
(* data, company 0x004C, offline-finding type 0x12, length 25, status.    *)
Header == <<30, 255, 76, 0, 18, 25, 16>>

(* Mutant: the low two bits of key[0] sent instead of the top two.         *)
KeyToPayloadLowBits(key) ==
    [i \in 0 .. PAYLOAD_LEN - 1 |->
        IF i < 7 THEN Header[i + 1]
        ELSE IF i < 29 THEN key[i - 1]
        ELSE IF i = 29 THEN key[0] % 4
        ELSE 0]

(* key_to_payload: header, key[6..27] at offsets 7..28, the two bits of   *)
(* key[0] the address overwrote at offset 29, hint byte 0 at offset 30.   *)
KeyToPayload(key) ==
    [i \in 0 .. PAYLOAD_LEN - 1 |->
        IF i < 7 THEN Header[i + 1]
        ELSE IF i < 29 THEN key[i - 1]
        ELSE IF i = 29 THEN key[0] \div 64
        ELSE 0]

(* airtag_to_ble_advertisement once decoding succeeded.                    *)
Advertisement(bin) ==
    LET key == AirtagToKey(bin)
    IN  [addr |-> KeyToAddr(key), payload |-> KeyToPayload(key)]

-----------------------------------------------------------------------------
(* What a receiver of the advertisement does (the offline-finding network, *)
(* not this firmware): rebuild the key from the address and the payload.  *)
KeyFromAdvertisement(addr, payload) ==
    [i \in 0 .. KEY_LEN - 1 |->
        IF i = 0 THEN (payload[29] * 64) + (addr[0] % 64)
        ELSE IF i <= 5 THEN addr[i]
        ELSE payload[i + 1]]

(* The advertisement carries the whole key: the receiver gets back        *)
(* exactly the 28 bytes airtag_to_key produced, none lost to the address  *)
(* marker bits and none taken twice (airtag.c:73-101).                    *)
AdvertisementCarriesKey(key) ==
    KeyFromAdvertisement(KeyToAddr(key), KeyToPayload(key)) = key

=============================================================================
