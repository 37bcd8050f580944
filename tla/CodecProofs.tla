----------------------------- MODULE CodecProofs -----------------------------
(***************************************************************************)
(* Proofs about the tag codec for every byte value: the advertisement     *)
(* built by key_to_addr and key_to_payload loses no bit of the key.       *)
(***************************************************************************)
EXTENDS CodecCheck, TLAPS

(* Byte 0 of the key is split across the address (low six bits, the top  *)
(* two overwritten by the static-random marker) and payload[29] (the top *)
(* two bits); both halves together give the byte back.                   *)
LEMMA SplitByte ==
    ASSUME NEW b \in Byte
    PROVE  ((b \div 64) * 64) + ((192 + (b % 64)) % 64) = b
BY DEF Byte

(* Whatever 28 bytes airtag_to_key produces, a receiver that reads the   *)
(* address and the payload of key_to_addr and key_to_payload rebuilds    *)
(* exactly those 28 bytes (airtag.c:73-101).                             *)
THEOREM AdvertisementCarriesEveryKey ==
    \A key \in Bytes(KEY_LEN) : AdvertisementCarriesKey(key)
<1> SUFFICES ASSUME NEW key \in Bytes(KEY_LEN)
             PROVE  AdvertisementCarriesKey(key)
  OBVIOUS
<1> DEFINE addr == KeyToAddr(key)
           payload == KeyToPayload(key)
<1>1. \A i \in 0 .. KEY_LEN - 1 :
        KeyFromAdvertisement(addr, payload)[i] = key[i]
  <2> SUFFICES ASSUME NEW i \in 0 .. KEY_LEN - 1
               PROVE  KeyFromAdvertisement(addr, payload)[i] = key[i]
    OBVIOUS
  <2>1. CASE i = 0
    <3>1. payload[29] = key[0] \div 64
      BY DEF KeyToPayload, PAYLOAD_LEN
    <3>4. addr[0] = 192 + (key[0] % 64)
      BY DEF KeyToAddr, ADDR_LEN
    <3>2. key[0] \in Byte
      BY DEF Bytes, KEY_LEN
    <3>3. QED
      BY <2>1, <3>1, <3>2, <3>4, SplitByte DEF KeyFromAdvertisement, KEY_LEN
  <2>2. CASE i \in 1 .. 5
    BY <2>2 DEF KeyFromAdvertisement, KeyToAddr, KEY_LEN, ADDR_LEN
  <2>3. CASE i \in 6 .. 27
    BY <2>3 DEF KeyFromAdvertisement, KeyToPayload, KEY_LEN, PAYLOAD_LEN
  <2>4. QED
    BY <2>1, <2>2, <2>3 DEF KEY_LEN
<1>2. QED
  BY <1>1 DEF AdvertisementCarriesKey, KeyFromAdvertisement, Bytes

(* airtag_to_key turns every 38-byte record into 28 bytes: key[0] is the *)
(* sum of two disjoint bit ranges, so it stays a byte.                    *)
LEMMA KeyIsBytes ==
    ASSUME NEW b \in Bytes(BIN_DATA_LEN)
    PROVE  AirtagToKey(b) \in Bytes(KEY_LEN)
<1>1. ASSUME NEW x \in Byte, NEW y \in Byte
      PROVE  ((x * 64) % 256) + (y % 64) \in Byte
  <2>1. (x * 64) % 256 \in 0 .. 192 /\ ((x * 64) % 256) % 64 = 0
    BY DEF Byte
  <2>2. QED
    BY <2>1 DEF Byte
<1>2. QED
  BY <1>1 DEF AirtagToKey, Bytes, BIN_DATA_LEN, KEY_LEN

(* The records the runs enumerate are 38-byte records.                    *)
LEMMA InputsAreRecords == Inputs \subseteq Bytes(BIN_DATA_LEN)
<1>1. Background \in Bytes(BIN_DATA_LEN)
  BY DEF Background, Bytes, Byte, BIN_DATA_LEN
<1>2. \A a, b \in Byte :
        [Background EXCEPT ![5] = a, ![35] = b] \in Bytes(BIN_DATA_LEN)
  BY <1>1 DEF Bytes, BIN_DATA_LEN
<1>3. /\ [i \in 0 .. BIN_DATA_LEN - 1 |-> 0] \in Bytes(BIN_DATA_LEN)
      /\ [i \in 0 .. BIN_DATA_LEN - 1 |-> 255] \in Bytes(BIN_DATA_LEN)
  BY DEF Bytes, Byte
<1>4. ASSUME NEW x \in Inputs PROVE x \in Bytes(BIN_DATA_LEN)
  <2>1. CASE \E a, b \in Byte : x = [Background EXCEPT ![5] = a, ![35] = b]
    BY <1>2, <2>1
  <2>2. CASE x \in {[i \in 0 .. BIN_DATA_LEN - 1 |-> 0],
                    [i \in 0 .. BIN_DATA_LEN - 1 |-> 255]}
    BY <1>3, <2>2
  <2>3. \/ \E a, b \in Byte : x = [Background EXCEPT ![5] = a, ![35] = b]
        \/ x \in {[i \in 0 .. BIN_DATA_LEN - 1 |-> 0],
                  [i \in 0 .. BIN_DATA_LEN - 1 |-> 255]}
    <3>1. x \in {[Background EXCEPT ![5] = a, ![35] = b] : a, b \in Byte}
          \/ x \in {[i \in 0 .. BIN_DATA_LEN - 1 |-> 0],
                    [i \in 0 .. BIN_DATA_LEN - 1 |-> 255]}
      BY DEF Inputs
    <3>2. QED
      BY <3>1
  <2>4. QED
    BY <2>1, <2>2, <2>3
<1>5. QED
  BY <1>4

(* For every record that decodes, the advertisement airtag_to_ble_       *)
(* advertisement builds carries the key airtag_to_key extracted from it  *)
(* (airtag.c:53-101): what the run codec checks on 65538 records holds    *)
(* for all of them.                                                       *)
THEOREM CarriesKeyHolds == Spec => []CarriesKey
<1> DEFINE RecordOK == bin \in Bytes(BIN_DATA_LEN)
<1>1. Init => RecordOK
  BY InputsAreRecords DEF Init
<1>2. RecordOK /\ [Next]_bin => RecordOK'
  BY DEF Next
<1>3. RecordOK => CarriesKey
  BY KeyIsBytes, AdvertisementCarriesEveryKey DEF CarriesKey
<1>4. QED
  BY <1>1, <1>2, <1>3, PTL DEF Spec

====
