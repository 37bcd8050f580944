----------------------------- MODULE RelayProofs -----------------------------
(***************************************************************************)
(* Proofs about Relay for every NUM_TAGS, every set of records and every  *)
(* failure bound: the type invariant, and the ble_sem handshake.          *)
(***************************************************************************)
EXTENDS Relay, SequenceTheorems, TLAPS

USE NumTagsAssumption, RecordsAssumption, FailuresAssumption

(* The two generic steps of ble_adv_task keep the types.                   *)
LEMMA IssueType ==
    ASSUME TypeOK, NEW from, NEW op \in Ops, NEW to \in BlePcs,
           Issue(from, op, to)
    PROVE  TypeOK'
BY DEF Issue, TypeOK, Commands, Stored

LEMMA AwaitType ==
    ASSUME TypeOK, NEW from, NEW to \in BlePcs, Await(from, to)
    PROVE  TypeOK'
BY DEF Await, TypeOK

LEMMA RebootType ==
    ASSUME TypeOK, Reboot, UNCHANGED radio_failures
    PROVE  TypeOK'
BY DEF Reboot, TypeOK, Stored, Slots, Responses, BlePcs

(* A JSON array in the HTTP buffer has at most NUM_TAGS records.          *)
LEMMA TagArrayLen ==
    ASSUME NEW b \in TagArrays
    PROVE  /\ Len(b) \in 0 .. NUM_TAGS
           /\ \A i \in 1 .. Len(b) : b[i] \in Records
<1>1. PICK n \in 0 .. NUM_TAGS : b \in [1 .. n -> Records]
  BY DEF TagArrays
<1>2. Len(b) = n
  BY <1>1
<1>3. QED
  BY <1>1, <1>2

LEMMA TypeInit == Init => TypeOK
BY DEF Init, TypeOK, Stored, Slots, Responses, BlePcs

LEMMA TypeStep == TypeOK /\ [Next]_vars => TypeOK'
<1> SUFFICES ASSUME TypeOK, [Next]_vars PROVE TypeOK'
  OBVIOUS
<1>1. CASE HttpPerform
  BY <1>1 DEF HttpPerform, TypeOK
<1>2. CASE HttpTake
  BY <1>2 DEF HttpTake, TypeOK
<1>3. CASE HttpParse
  <2>1. CASE http_buffer \in TagArrays
    <3>1. /\ Len(http_buffer) \in 0 .. NUM_TAGS
          /\ \A i \in 1 .. Len(http_buffer) : http_buffer[i] \in Records
      BY <2>1, TagArrayLen
    <3>2. airtag_list' \in [Slots -> Stored]
      <4> DEFINE new == [i \in Slots |->
                           IF i < Len(http_buffer) THEN http_buffer[i + 1]
                                                   ELSE airtag_list[i]]
      <4>1. airtag_list' = new
        BY <1>3, <2>1 DEF HttpParse
      <4>2. ASSUME NEW i \in Slots PROVE new[i] \in Stored
        <5>1. CASE i < Len(http_buffer)
          <6>1. i + 1 \in 1 .. Len(http_buffer)
            BY <5>1 DEF Slots
          <6>2. QED
            BY <5>1, <6>1, <3>1 DEF Stored
        <5>2. CASE ~(i < Len(http_buffer))
          BY <5>2 DEF TypeOK
        <5>3. QED
          BY <5>1, <5>2
      <4>3. QED
        BY <4>1, <4>2
    <3>3. airtag_count' \in 0 .. NUM_TAGS
      BY <1>3, <2>1, <3>1 DEF HttpParse
    <3>4. QED
      BY <1>3, <2>1, <3>2, <3>3 DEF HttpParse, TypeOK
  <2>2. CASE http_buffer \notin TagArrays
    BY <1>3, <2>2 DEF HttpParse, TypeOK
  <2>3. QED
    BY <2>1, <2>2
<1>4. CASE BleCheck
  BY <1>4 DEF BleCheck, TypeOK, BlePcs
<1>5. CASE BleTake
  BY <1>5 DEF BleTake, TypeOK, BlePcs
<1>6. CASE BleAssertFail
  BY <1>6, RebootType DEF BleAssertFail
<1>7. CASE BleSkip
  BY <1>7 DEF BleSkip, TypeOK, BlePcs
<1>8. CASE BleSelect
  BY <1>8 DEF BleSelect, TypeOK, Slots, Stored, BlePcs, IssuePc
<1>9. CASE SetRandAddr \/ ConfigAdvData \/ StartAdvertising \/ StopAdvertising
  BY <1>9, IssueType
     DEF SetRandAddr, ConfigAdvData, StartAdvertising, StopAdvertising,
         Ops, BlePcs, WaitPc
<1>10. CASE WaitRandAddr \/ WaitAdvData \/ WaitStart \/ WaitStop
  BY <1>10, AwaitType
     DEF WaitRandAddr, WaitAdvData, WaitStart, WaitStop, BlePcs, IssuePc
<1>11. CASE Dwell
  BY <1>11 DEF Dwell, TypeOK, BlePcs, IssuePc
<1>12. CASE GapCallFails
  BY <1>12 DEF GapCallFails, Reboot, TypeOK, Stored, Slots, Responses, BlePcs
<1>13. CASE GapComplete
  <2>1. Head(gap_q) \in Commands /\ Tail(gap_q) \in Seq(Commands)
    BY <1>13 DEF GapComplete, TypeOK
  <2>2. radio' \in [addr : Stored \cup {None}, data : Stored \cup {None},
                   advertising : BOOLEAN]
    <3> DEFINE c == Head(gap_q)
    <3>1. CASE c.op = "addr"
      BY <1>13, <2>1, <3>1 DEF GapComplete, Apply, TypeOK, Commands
    <3>2. CASE c.op = "data"
      BY <1>13, <2>1, <3>2 DEF GapComplete, Apply, TypeOK, Commands
    <3>3. CASE c.op = "start"
      BY <1>13, <2>1, <3>3 DEF GapComplete, Apply, TypeOK, Commands
    <3>4. CASE c.op = "stop"
      BY <1>13, <2>1, <3>4 DEF GapComplete, Apply, TypeOK, Commands
    <3>5. QED
      BY <2>1, <3>1, <3>2, <3>3, <3>4 DEF Commands, Ops
  <2>3. QED
    BY <1>13, <2>1, <2>2 DEF GapComplete, TypeOK
<1>14. CASE GapCompleteFailed
  BY <1>14 DEF GapCompleteFailed, TypeOK
<1>15. CASE UNCHANGED vars
  BY <1>15 DEF vars, TypeOK
<1>16. QED
  BY <1>1, <1>2, <1>3, <1>4, <1>5, <1>6, <1>7, <1>8, <1>9, <1>10, <1>11,
     <1>12, <1>13, <1>14, <1>15
  DEF Next, HttpTask, BleTask, GapDriver

(* Relay is well typed in every reachable state.                           *)
THEOREM TypeCorrect == Spec => []TypeOK
BY TypeInit, TypeStep, PTL DEF Spec

-----------------------------------------------------------------------------
(* The handshake is inductive together with the types: a command is only *)
(* issued from a non-waiting pc, where the handshake forces an empty      *)
(* queue and a taken semaphore; a completion turns the single queued      *)
(* command into a given semaphore without moving the task; the task's     *)
(* take empties the semaphore; a reboot resets all three.                 *)
IInv == TypeOK /\ Handshake

(* Outside its waits, ble_adv_task has nothing in flight or signalled.   *)
LEMMA Quiet ==
    ASSUME IInv, ble_pc \notin WaitPc
    PROVE  gap_q = <<>> /\ ble_sem = 0
BY DEF IInv, Handshake, TypeOK

LEMMA IssueHandshake ==
    ASSUME IInv, NEW from \in IssuePc, NEW op \in Ops, NEW to \in WaitPc,
           Awaits[to] = op, Issue(from, op, to)
    PROVE  Handshake'
<1>1. gap_q = <<>> /\ ble_sem = 0
  BY Quiet DEF Issue, IssuePc, WaitPc
<1>2. gap_q' = <<[op |-> op, rec |-> selected]>>
  BY <1>1 DEF Issue
<1>3. QED
  BY <1>1, <1>2 DEF Issue, Handshake

LEMMA AwaitHandshake ==
    ASSUME IInv, NEW from \in WaitPc, NEW to, to \notin WaitPc,
           Await(from, to)
    PROVE  Handshake'
<1>1. gap_q = <<>>
  <2>1. Len(gap_q) = 0
    BY DEF Await, IInv, Handshake, TypeOK
  <2>2. QED
    BY <2>1 DEF IInv, TypeOK
<1>2. QED
  BY <1>1 DEF Await, Handshake

(* A non-empty queue under Len(gap_q) + ble_sem <= 1 holds one command.  *)
LEMMA OneInFlight ==
    ASSUME NEW n \in Nat \ {0}, NEW k \in {0, 1}, n + k <= 1
    PROVE  n = 1 /\ k = 0
OBVIOUS

LEMMA HandshakeInit == Init => IInv
BY TypeInit DEF Init, IInv, Handshake

LEMMA HandshakeStep == IInv /\ [Next]_vars => IInv'
<1> SUFFICES ASSUME IInv, [Next]_vars PROVE IInv'
  OBVIOUS
<1>1. TypeOK'
  BY TypeStep DEF IInv
<1>2. Handshake'
  <2> USE DEF IInv
  <2>2. CASE HttpTask
    <3>1. ble_pc' = ble_pc /\ gap_q' = gap_q /\ ble_sem' = ble_sem
      BY <2>2 DEF HttpTask, HttpPerform, HttpTake, HttpParse
    <3>2. QED
      BY <3>1 DEF Handshake
  <2>3. CASE BleCheck \/ BleTake \/ BleSkip \/ BleSelect \/ Dwell
    <3>1. ble_pc \notin WaitPc /\ ble_pc' \notin WaitPc
      BY <2>3 DEF BleCheck, BleTake, BleSkip, BleSelect, Dwell, WaitPc
    <3>2. gap_q = <<>> /\ ble_sem = 0
      BY <3>1, Quiet
    <3>3. QED
      BY <1>1, <2>3, <3>1, <3>2
         DEF BleCheck, BleTake, BleSkip, BleSelect, Dwell, Handshake
  <2>4. CASE BleAssertFail \/ GapCallFails
    BY <1>1, <2>4 DEF BleAssertFail, GapCallFails, Reboot, Handshake, WaitPc
  <2>5. CASE SetRandAddr \/ ConfigAdvData \/ StartAdvertising \/ StopAdvertising
    BY <1>1, <2>5, IssueHandshake
       DEF SetRandAddr, ConfigAdvData, StartAdvertising, StopAdvertising,
           IssuePc, WaitPc, Ops, Awaits
  <2>6. CASE WaitRandAddr \/ WaitAdvData \/ WaitStart \/ WaitStop
    BY <1>1, <2>6, AwaitHandshake
       DEF WaitRandAddr, WaitAdvData, WaitStart, WaitStop, WaitPc
  <2>7. CASE GapComplete \/ GapCompleteFailed
    <3>1. Len(gap_q) = 1 /\ ble_sem = 0
      <4>1. gap_q # <<>> /\ gap_q \in Seq(Commands)
        BY <2>7 DEF GapComplete, GapCompleteFailed, TypeOK
      <4>2. Len(gap_q) \in Nat \ {0}
        BY <4>1, EmptySeq
      <4>3. ble_sem \in {0, 1} /\ Len(gap_q) + ble_sem <= 1
        BY DEF Handshake, TypeOK
      <4>4. QED
        BY <4>2, <4>3, OneInFlight
    <3>2. Tail(gap_q) = <<>>
      <4>1. gap_q \in Seq(Commands)
        BY DEF TypeOK
      <4>2. gap_q # <<>>
        BY <3>1, EmptySeq
      <4>3. Tail(gap_q) \in Seq(Commands) /\ Len(Tail(gap_q)) = 0
        BY <3>1, <4>1, <4>2, HeadTailProperties
      <4>4. QED
        BY <4>3, EmptySeq
    <3>3. ble_pc \in WaitPc
      BY <2>7 DEF GapComplete, GapCompleteFailed, Handshake
    <3>4. gap_q' = <<>> /\ ble_sem' = 1 /\ ble_pc' = ble_pc
      BY <2>7, <3>2 DEF GapComplete, GapCompleteFailed
    <3>5. Len(gap_q') + ble_sem' <= 1
      BY <3>4, EmptySeq
    <3>6. QED
      BY <3>3, <3>4, <3>5 DEF Handshake
  <2>8. CASE UNCHANGED vars
    BY <1>1, <2>8 DEF vars, Handshake
  <2>9. QED
    BY <2>2, <2>3, <2>4, <2>5, <2>6, <2>7, <2>8 DEF Next, BleTask, GapDriver
<1>3. QED
  BY <1>1, <1>2 DEF IInv

(* Every xSemaphoreTake(ble_sem) of ble_adv_task consumes the completion *)
(* of the command it issued just before, and no two GAP commands are     *)
(* ever in flight (main.c:193-216, 327-342).                              *)
THEOREM HandshakeHolds == Spec => []Handshake
<1>1. Init => IInv
  BY HandshakeInit
<1>2. IInv /\ [Next]_vars => IInv'
  BY HandshakeStep
<1>3. IInv => Handshake
  BY DEF IInv
<1>4. QED
  BY <1>1, <1>2, <1>3, PTL DEF Spec

=============================================================================
