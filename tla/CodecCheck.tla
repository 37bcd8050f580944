------------------------------ MODULE CodecCheck ------------------------------
(***************************************************************************)
(* The codec applied to a decoded tag record.  The state is the 38-byte   *)
(* record bin the advertiser rebuilds its advertisement from; Inputs are  *)
(* the records the runs enumerate: every value of the two bytes that feed *)
(* key[0] (bin[5] and bin[35]) over a background of pairwise distinct     *)
(* bytes, so a misplaced copy shows, plus the all-zero and all-0xFF       *)
(* records.                                                                *)
(***************************************************************************)
EXTENDS Codec

VARIABLE bin

Background == [i \in 0 .. BIN_DATA_LEN - 1 |-> (7 * i + 11) % 256]
Inputs ==
    {[Background EXCEPT ![5] = a, ![35] = b] : a, b \in Byte}
    \cup {[i \in 0 .. BIN_DATA_LEN - 1 |-> 0],
          [i \in 0 .. BIN_DATA_LEN - 1 |-> 255]}

Init == bin \in Inputs
(* The advertiser rebuilds the advertisement from the same record.        *)
Next == UNCHANGED bin
Spec == Init /\ [][Next]_bin

(* The advertisement built from a record carries its whole key.          *)
CarriesKey == AdvertisementCarriesKey(AirtagToKey(bin))

=============================================================================
