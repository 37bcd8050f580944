----------------------------- MODULE RadioProofs -----------------------------
(***************************************************************************)
(* Proof that, when the BLE stack reports no failed command, the beacon   *)
(* on the air always carries the address and the payload of the record    *)
(* ble_adv_task selected last, for every NUM_TAGS and every record set.   *)
(***************************************************************************)
EXTENDS RelayProofs

(* Where in its cycle ble_adv_task has the address, resp. the data, of    *)
(* the selected record already in the controller, and where the          *)
(* controller may be advertising.                                         *)
AddrSetPc == {"set_data", "wait_data", "start_adv", "wait_start", "dwell",
              "stop_adv", "wait_stop"}
DataSetPc == {"start_adv", "wait_start", "dwell", "stop_adv", "wait_stop"}
OnAirPc   == {"wait_start", "dwell", "stop_adv", "wait_stop"}

(* The controller follows ble_adv_task's cycle: the command in flight is *)
(* about the selected record, the address and data are the selected     *)
(* record's from their completion on, and advertising runs from the     *)
(* completion of the start to the completion of the stop.                *)
RadioInv ==
    /\ gap_q # <<>> => Head(gap_q).rec = selected
    /\ ble_pc \in AddrSetPc => radio.addr = selected
    /\ ble_pc \in DataSetPc => radio.data = selected
    /\ ble_pc = "wait_addr" /\ gap_q = <<>> => radio.addr = selected
    /\ ble_pc = "wait_data" /\ gap_q = <<>> => radio.data = selected
    /\ radio.advertising => ble_pc \in OnAirPc
    /\ ble_pc = "wait_start" /\ gap_q # <<>> => ~radio.advertising
    /\ ble_pc = "wait_stop" /\ gap_q = <<>> => ~radio.advertising

RInv == IInv /\ RadioInv

(* Without reported failures neither failure action is ever enabled.      *)
LEMMA NoFailure ==
    ASSUME MaxRadioFailures = 0, TypeOK
    PROVE  ~GapCallFails /\ ~GapCompleteFailed
BY DEF TypeOK, GapCallFails, GapCompleteFailed

LEMMA RadioInit == Init => RadioInv
BY DEF Init, RadioInv, AddrSetPc, DataSetPc, OnAirPc

(* A step that leaves radio, gap_q and selected alone and moves the task *)
(* between two places outside the radio's cycle keeps RadioInv.           *)
LEMMA QuietStep ==
    ASSUME IInv, RadioInv,
           ble_pc \notin WaitPc \cup OnAirPc \cup AddrSetPc,
           ble_pc' \notin WaitPc \cup OnAirPc \cup AddrSetPc,
           gap_q' = gap_q, radio' = radio
    PROVE  RadioInv'
<1>1. gap_q = <<>> /\ ~radio.advertising
  BY Quiet DEF RadioInv
<1>2. QED
  BY <1>1 DEF RadioInv, AddrSetPc, DataSetPc, OnAirPc, WaitPc

(* Issuing a command: it carries the selected record and the task moves  *)
(* to the matching wait.                                                  *)
LEMMA IssueRadio ==
    ASSUME IInv, RadioInv, NEW from \in IssuePc, NEW op, NEW to \in WaitPc,
           Issue(from, op, to),
           from \in AddrSetPc <=> to \in AddrSetPc,
           from \in DataSetPc => to \in DataSetPc,
           to \in DataSetPc => from \in DataSetPc,
           to = "wait_start" => from \notin OnAirPc,
           from \in OnAirPc => to \in OnAirPc
    PROVE  RadioInv'
<1>1. gap_q = <<>>
  BY Quiet DEF Issue, IssuePc, WaitPc
<1>2. gap_q' = <<[op |-> op, rec |-> selected]>>
  BY <1>1 DEF Issue
<1>3. from \notin OnAirPc => ~radio.advertising
  BY DEF Issue, RadioInv
<1>4. QED
  BY <1>2, <1>3 DEF Issue, RadioInv, AddrSetPc, DataSetPc, OnAirPc, IssuePc,
                    WaitPc

(* Taking the semaphore: the command has completed, so the queue is empty.*)
LEMMA AwaitEmpty ==
    ASSUME IInv, NEW from \in WaitPc, NEW to, Await(from, to)
    PROVE  gap_q = <<>>
<1>1. Len(gap_q) = 0
  BY DEF Await, IInv, Handshake, TypeOK
<1>2. QED
  BY <1>1 DEF IInv, TypeOK

LEMMA RadioStep ==
    ASSUME MaxRadioFailures = 0, IInv, RadioInv, [Next]_vars
    PROVE  RadioInv'
<1> USE DEF IInv
<1>1. CASE HttpTask
  BY <1>1 DEF HttpTask, HttpPerform, HttpTake, HttpParse, RadioInv
<1>2. CASE BleCheck \/ BleTake \/ BleSkip \/ BleSelect
  BY <1>2, QuietStep
     DEF BleCheck, BleTake, BleSkip, BleSelect, WaitPc, OnAirPc, AddrSetPc
<1>3. CASE BleAssertFail
  BY <1>3 DEF BleAssertFail, Reboot, RadioInv, AddrSetPc, DataSetPc, OnAirPc
<1>4. CASE SetRandAddr
  BY <1>4, IssueRadio
     DEF SetRandAddr, IssuePc, WaitPc, AddrSetPc, DataSetPc, OnAirPc
<1>5. CASE ConfigAdvData
  BY <1>5, IssueRadio
     DEF ConfigAdvData, IssuePc, WaitPc, AddrSetPc, DataSetPc, OnAirPc
<1>6. CASE StartAdvertising
  BY <1>6, IssueRadio
     DEF StartAdvertising, IssuePc, WaitPc, AddrSetPc, DataSetPc, OnAirPc
<1>7. CASE StopAdvertising
  BY <1>7, IssueRadio
     DEF StopAdvertising, IssuePc, WaitPc, AddrSetPc, DataSetPc, OnAirPc
<1>8. CASE WaitRandAddr \/ WaitAdvData \/ WaitStart \/ WaitStop
  <2>1. gap_q = <<>>
    BY <1>8, AwaitEmpty DEF WaitRandAddr, WaitAdvData, WaitStart, WaitStop,
                             WaitPc
  <2>2. QED
    BY <1>8, <2>1 DEF WaitRandAddr, WaitAdvData, WaitStart, WaitStop, Await,
                      RadioInv, AddrSetPc, DataSetPc, OnAirPc
<1>9. CASE Dwell
  BY <1>9 DEF Dwell, RadioInv, AddrSetPc, DataSetPc, OnAirPc
<1>10. CASE GapComplete
  <2>1. Len(gap_q) = 1 /\ gap_q \in Seq(Commands)
    <3>1. gap_q # <<>> /\ gap_q \in Seq(Commands)
      BY <1>10 DEF GapComplete, TypeOK
    <3>2. Len(gap_q) \in Nat \ {0}
      BY <3>1, EmptySeq
    <3>3. ble_sem \in {0, 1} /\ Len(gap_q) + ble_sem <= 1
      BY DEF Handshake, TypeOK
    <3>4. QED
      BY <3>1, <3>2, <3>3, OneInFlight
  <2>2. gap_q' = <<>>
    <3>1. Tail(gap_q) \in Seq(Commands) /\ Len(Tail(gap_q)) = 0
      BY <1>10, <2>1, HeadTailProperties DEF GapComplete
    <3>2. QED
      BY <1>10, <3>1, EmptySeq DEF GapComplete
  <2> DEFINE c == Head(gap_q)
  <2>3. ble_pc \in WaitPc /\ c.op = Awaits[ble_pc] /\ c.rec = selected
    BY <1>10 DEF GapComplete, Handshake, RadioInv
  <2>4. radio' = Apply(c) /\ ble_pc' = ble_pc /\ selected' = selected
    BY <1>10 DEF GapComplete
  <2>5. radio \in [addr : Stored \cup {None}, data : Stored \cup {None},
                   advertising : BOOLEAN]
    BY DEF TypeOK
  <2>6. CASE ble_pc = "wait_addr"
    <3>1. radio' = [radio EXCEPT !.addr = selected]
      BY <2>3, <2>4, <2>6 DEF Awaits, WaitPc, Apply
    <3>2. QED
      BY <2>2, <2>4, <2>5, <2>6, <3>1
         DEF RadioInv, AddrSetPc, DataSetPc, OnAirPc
  <2>7. CASE ble_pc = "wait_data"
    <3>1. radio' = [radio EXCEPT !.data = selected]
      BY <2>3, <2>4, <2>7 DEF Awaits, WaitPc, Apply
    <3>2. QED
      BY <2>2, <2>4, <2>5, <2>7, <3>1
         DEF RadioInv, AddrSetPc, DataSetPc, OnAirPc
  <2>8. CASE ble_pc = "wait_start"
    <3>1. radio' = [radio EXCEPT !.advertising = TRUE]
      BY <2>3, <2>4, <2>8 DEF Awaits, WaitPc, Apply
    <3>2. QED
      BY <2>2, <2>4, <2>5, <2>8, <3>1
         DEF RadioInv, AddrSetPc, DataSetPc, OnAirPc
  <2>9. CASE ble_pc = "wait_stop"
    <3>1. radio' = [radio EXCEPT !.advertising = FALSE]
      BY <2>3, <2>4, <2>9 DEF Awaits, WaitPc, Apply
    <3>2. QED
      BY <2>2, <2>4, <2>5, <2>9, <3>1
         DEF RadioInv, AddrSetPc, DataSetPc, OnAirPc
  <2>10. QED
    BY <2>3, <2>6, <2>7, <2>8, <2>9 DEF WaitPc
<1>11. CASE GapCallFails \/ GapCompleteFailed
  BY <1>11, NoFailure DEF TypeOK
<1>12. CASE UNCHANGED vars
  BY <1>12 DEF vars, RadioInv
<1>13. QED
  BY <1>1, <1>2, <1>3, <1>4, <1>5, <1>6, <1>7, <1>8, <1>9, <1>10, <1>11,
     <1>12 DEF Next, BleTask, GapDriver

(* When the BLE stack reports no failed GAP command, the controller only *)
(* ever advertises the address and the payload that ble_adv_task derived *)
(* from one and the same record, the one it selected last                *)
(* (main.c:312-342, 193-216), for every NUM_TAGS and record set; the     *)
(* run status_ignored shows that a single failure breaks this.           *)
THEOREM AdvertisedIsSelectedHolds ==
    ASSUME MaxRadioFailures = 0
    PROVE  Spec => []AdvertisedIsSelected
<1>1. Init => RInv
  BY HandshakeInit, RadioInit DEF RInv
<1>2. RInv /\ [Next]_vars => RInv'
  BY HandshakeStep, RadioStep DEF RInv
<1>3. RInv => AdvertisedIsSelected
  BY DEF RInv, RadioInv, AdvertisedIsSelected, OnAirPc, AddrSetPc, DataSetPc
<1>4. QED
  BY <1>1, <1>2, <1>3, PTL DEF Spec


-----------------------------------------------------------------------------
(* Refinement of Beacon.  Besides RInv it needs what the selected record *)
(* is: the slots below airtag_count hold records, since json_read_array   *)
(* fills exactly the first count slots and a reboot zeroes the count, so  *)
(* from its selection on the record ble_adv_task drives the radio with    *)
(* decoded without error.                                                  *)
CyclePc == IssuePc \cup WaitPc \cup {"dwell"}
SelInv ==
    /\ \A i \in 0 .. airtag_count - 1 : airtag_list[i] \in Records
    /\ ble_pc \in CyclePc => selected \in Records \ Malformed

BInv == RInv /\ SelInv


LEMMA SelInit == Init => SelInv
BY DEF Init, SelInv, CyclePc, IssuePc, WaitPc

(* A step that leaves the store and the selected record alone and keeps  *)
(* ble_adv_task inside the cycle, or takes it out of it, keeps SelInv.    *)
LEMMA SelQuiet ==
    ASSUME SelInv,
           UNCHANGED <<airtag_list, airtag_count, selected>>,
           ble_pc' \in CyclePc => ble_pc \in CyclePc
    PROVE  SelInv'
BY DEF SelInv

LEMMA SelStep ==
    ASSUME IInv, SelInv, [Next]_vars
    PROVE  SelInv'
<1> USE DEF IInv
<1>1. CASE HttpPerform \/ HttpTake
  BY <1>1, SelQuiet DEF HttpPerform, HttpTake
<1>2. CASE HttpParse
  <2>1. ble_pc' = ble_pc /\ selected' = selected
    BY <1>2 DEF HttpParse
  <2>2. \A i \in 0 .. airtag_count' - 1 : airtag_list'[i] \in Records
    <3>1. CASE http_buffer \in TagArrays
      <4>1. /\ Len(http_buffer) \in 0 .. NUM_TAGS
            /\ \A i \in 1 .. Len(http_buffer) : http_buffer[i] \in Records
        BY <3>1, TagArrayLen
      <4>2. /\ airtag_count' = Len(http_buffer)
            /\ airtag_list' = [i \in Slots |->
                                 IF i < Len(http_buffer)
                                   THEN http_buffer[i + 1]
                                   ELSE airtag_list[i]]
        BY <1>2, <3>1 DEF HttpParse
      <4>3. ASSUME NEW i \in 0 .. airtag_count' - 1
            PROVE  airtag_list'[i] \in Records
        <5>1. i \in Slots /\ i < Len(http_buffer) /\ i + 1 \in 1 .. Len(http_buffer)
          BY <4>1, <4>2, NumTagsAssumption DEF Slots
        <5>2. QED
          BY <4>1, <4>2, <5>1
      <4>4. QED
        BY <4>3
    <3>2. CASE http_buffer \notin TagArrays
      BY <1>2, <3>2 DEF HttpParse, SelInv
    <3>3. QED
      BY <3>1, <3>2
  <2>3. QED
    BY <2>1, <2>2 DEF SelInv
<1>3. CASE BleCheck \/ BleTake \/ BleSkip
  BY <1>3, SelQuiet DEF BleCheck, BleTake, BleSkip, CyclePc, IssuePc, WaitPc
<1>4. CASE BleSelect
  <2>1. index \in Nat /\ index < airtag_count /\ DecodeOk(airtag_list[index])
    BY <1>4 DEF BleSelect, TypeOK, Slots
  <2>2. index \in 0 .. airtag_count - 1
    BY <2>1 DEF TypeOK
  <2>3. airtag_list[index] \in Records
    BY <2>2 DEF SelInv
  <2>4. selected' \in Records \ Malformed
    BY <1>4, <2>1, <2>3 DEF BleSelect, DecodeOk
  <2>5. QED
    BY <1>4, <2>4 DEF BleSelect, SelInv
<1>5. CASE BleAssertFail \/ GapCallFails
  BY <1>5 DEF BleAssertFail, GapCallFails, Reboot, SelInv, CyclePc, IssuePc,
              WaitPc
<1>6. CASE SetRandAddr \/ ConfigAdvData \/ StartAdvertising \/ StopAdvertising
  BY <1>6, SelQuiet
     DEF SetRandAddr, ConfigAdvData, StartAdvertising, StopAdvertising, Issue,
         CyclePc, IssuePc, WaitPc
<1>7. CASE WaitRandAddr \/ WaitAdvData \/ WaitStart \/ WaitStop \/ Dwell
  BY <1>7, SelQuiet
     DEF WaitRandAddr, WaitAdvData, WaitStart, WaitStop, Await, Dwell,
         CyclePc, IssuePc, WaitPc
<1>8. CASE GapComplete \/ GapCompleteFailed
  BY <1>8, SelQuiet DEF GapComplete, GapCompleteFailed
<1>9. CASE UNCHANGED vars
  BY <1>9, SelQuiet DEF vars
<1>10. QED
  BY <1>1, <1>2, <1>3, <1>4, <1>5, <1>6, <1>7, <1>8, <1>9
     DEF Next, HttpTask, BleTask, GapDriver


(* A step that leaves the controller alone is a stutter of Beacon.       *)
LEMMA RadioQuiet ==
    ASSUME radio' = radio
    PROVE  UNCHANGED Air!vars
BY DEF Air!vars

LEMMA BeaconStep ==
    ASSUME MaxRadioFailures = 0, IInv, RadioInv, SelInv, [Next]_vars
    PROVE  [Air!Next]_Air!vars
<1> USE DEF IInv
<1>1. CASE GapComplete
  <2>1. Len(gap_q) = 1 /\ gap_q \in Seq(Commands)
    <3>1. gap_q # <<>> /\ gap_q \in Seq(Commands)
      BY <1>1 DEF GapComplete, TypeOK
    <3>2. Len(gap_q) \in Nat \ {0}
      BY <3>1, EmptySeq
    <3>3. ble_sem \in {0, 1} /\ Len(gap_q) + ble_sem <= 1
      BY DEF Handshake, TypeOK
    <3>4. QED
      BY <3>1, <3>2, <3>3, OneInFlight
  <2> DEFINE c == Head(gap_q)
  <2>2. /\ gap_q # <<>>
        /\ ble_pc \in WaitPc /\ c.op = Awaits[ble_pc] /\ c.rec = selected
    BY <1>1 DEF GapComplete, Handshake, RadioInv
  <2>3. radio' = Apply(c)
    BY <1>1 DEF GapComplete
  <2>4. radio \in [addr : Stored \cup {None}, data : Stored \cup {None},
                   advertising : BOOLEAN]
    BY DEF TypeOK
  <2>5. CASE ble_pc \in {"wait_addr", "wait_data"}
    <3>1. ~radio.advertising
      BY <2>5 DEF RadioInv, OnAirPc
    <3>2. radio'.advertising = radio.advertising
      BY <2>2, <2>3, <2>4, <2>5 DEF Awaits, WaitPc, Apply
    <3>3. QED
      BY <3>1, <3>2 DEF Air!vars
  <2>6. CASE ble_pc = "wait_start"
    <3>1. ~radio.advertising
      BY <2>2, <2>6 DEF RadioInv
    <3>2. radio.addr = selected /\ radio.data = selected
      BY <2>6 DEF RadioInv, AddrSetPc, DataSetPc
    <3>3. radio' = [radio EXCEPT !.advertising = TRUE]
      BY <2>2, <2>3, <2>6 DEF Awaits, WaitPc, Apply
    <3>4. selected \in Records \ Malformed
      BY <2>6 DEF SelInv, CyclePc, WaitPc
    <3>5. Air!GoOnAir
      BY <2>4, <3>1, <3>2, <3>3, <3>4 DEF Air!GoOnAir
    <3>6. QED
      BY <3>5 DEF Air!Next
  <2>7. CASE ble_pc = "wait_stop"
    <3>1. radio' = [radio EXCEPT !.advertising = FALSE]
      BY <2>2, <2>3, <2>7 DEF Awaits, WaitPc, Apply
    <3>2. CASE radio.advertising
      <4>1. radio.addr = selected /\ selected \in Records
        BY <2>7 DEF RadioInv, AddrSetPc, SelInv, CyclePc, WaitPc
      <4>2. radio.addr # None
        BY <4>1, RecordsAssumption
      <4>3. Air!GoOff
        BY <2>4, <3>1, <3>2, <4>2 DEF Air!GoOff
      <4>4. QED
        BY <4>3 DEF Air!Next
    <3>3. CASE ~radio.advertising
      BY <2>4, <3>1, <3>3 DEF Air!vars
    <3>4. QED
      BY <3>2, <3>3
  <2>8. QED
    BY <2>2, <2>5, <2>6, <2>7 DEF WaitPc
<1>2. CASE BleAssertFail
  <2>1. ~radio.advertising
    BY <1>2 DEF BleAssertFail, RadioInv, OnAirPc
  <2>2. ~radio'.advertising
    BY <1>2 DEF BleAssertFail, Reboot
  <2>3. QED
    BY <2>1, <2>2 DEF Air!vars
<1>3. CASE GapCallFails \/ GapCompleteFailed
  BY <1>3, NoFailure DEF TypeOK
<1>4. CASE HttpTask
  BY <1>4, RadioQuiet DEF HttpTask, HttpPerform, HttpTake, HttpParse
<1>5. CASE BleCheck \/ BleTake \/ BleSkip \/ BleSelect \/ Dwell
  BY <1>5, RadioQuiet DEF BleCheck, BleTake, BleSkip, BleSelect, Dwell
<1>6. CASE SetRandAddr \/ ConfigAdvData \/ StartAdvertising \/ StopAdvertising
  BY <1>6, RadioQuiet
     DEF SetRandAddr, ConfigAdvData, StartAdvertising, StopAdvertising, Issue
<1>7. CASE WaitRandAddr \/ WaitAdvData \/ WaitStart \/ WaitStop
  BY <1>7, RadioQuiet
     DEF WaitRandAddr, WaitAdvData, WaitStart, WaitStop, Await
<1>8. CASE UNCHANGED vars
  BY <1>8, RadioQuiet DEF vars
<1>9. QED
  BY <1>1, <1>2, <1>3, <1>4, <1>5, <1>6, <1>7, <1>8
     DEF Next, BleTask, GapDriver

(* When the BLE stack reports no failed GAP command, ble_adv_task drives  *)
(* the controller as Beacon promises, for every NUM_TAGS and record set:  *)
(* only a record that decoded goes on the air, with its own address and  *)
(* payload, and each beacon is stopped before the next tag's is started  *)
(* (main.c:299-342, 193-216; spec sections 4.4 and 7).                   *)
THEOREM BeaconRefinement ==
    ASSUME MaxRadioFailures = 0
    PROVE  Spec => BeaconRefined
<1>1. Init => BInv
  BY HandshakeInit, RadioInit, SelInit DEF BInv, RInv
<1>2. BInv /\ [Next]_vars => BInv'
  BY HandshakeStep, RadioStep, SelStep DEF BInv, RInv
<1>3. Init => Air!Init
  BY DEF Init, Air!Init
<1>4. BInv /\ [Next]_vars => [Air!Next]_Air!vars
  BY BeaconStep DEF BInv, RInv
<1>5. QED
  BY <1>1, <1>2, <1>3, <1>4, PTL DEF Spec, BeaconRefined, Air!Spec

=============================================================================
