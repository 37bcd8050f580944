------------------------------ MODULE WifiProofs ------------------------------
(***************************************************************************)
(* Proofs about Wifi, for every WIFI_CONNECTION_RETRIES.                  *)
(***************************************************************************)
EXTENDS Wifi, SequenceTheorems, TLAPS

USE RetriesAssumption

LEMMA InitType == Init => TypeOK
BY DEF Init, TypeOK

(* Every handler and driver step keeps the state well typed; the retry   *)
(* count only grows under the guard retry_num < WIFI_CONNECTION_RETRIES.  *)
LEMMA TypeStep == TypeOK /\ [Next]_vars => TypeOK'
<1> SUFFICES ASSUME TypeOK, [Next]_vars PROVE TypeOK'
  OBVIOUS
<1> USE DEF TypeOK
<1>1. CASE StartWifi
  BY <1>1, AppendProperties DEF StartWifi, Events
<1>2. CASE AttemptSucceeds
  BY <1>2, AppendProperties DEF AttemptSucceeds, Events
<1>3. CASE AttemptFails
  BY <1>3, AppendProperties DEF AttemptFails, Events
<1>4. CASE LinkLost
  BY <1>4, AppendProperties DEF LinkLost, Events
<1>5. CASE OnStaStart
  BY <1>5, HeadTailProperties DEF OnStaStart
<1>6. CASE OnGotIp
  BY <1>6, HeadTailProperties DEF OnGotIp
<1>7. CASE OnDisconnected
  <2>1. events' \in Seq(Events)
    BY <1>7, HeadTailProperties DEF OnDisconnected
  <2>2. CASE retry_num < WIFI_CONNECTION_RETRIES
    <3>1. /\ link' = "connecting" /\ retry_num' = retry_num + 1
          /\ UNCHANGED <<bits, main_pc, ap_up>>
      BY <1>7, <2>2, Zenon DEF OnDisconnected
    <3>2. retry_num' \in 0 .. WIFI_CONNECTION_RETRIES
      BY <2>2, <3>1
    <3>3. QED
      BY <2>1, <3>1, <3>2
  <2>3. CASE ~(retry_num < WIFI_CONNECTION_RETRIES)
    BY <1>7, <2>1, <2>3 DEF OnDisconnected
  <2>4. QED
    BY <2>2, <2>3
<1>8. CASE MainConnected
  BY <1>8 DEF MainConnected
<1>9. CASE MainRestart
  BY <1>9 DEF MainRestart
<1>10. CASE ApToggle
  BY <1>10, Zenon DEF ApToggle
<1>11. CASE UNCHANGED vars
  BY <1>11 DEF vars
<1>12. QED
  BY <1>1, <1>2, <1>3, <1>4, <1>5, <1>6, <1>7, <1>8, <1>9, <1>10, <1>11
     DEF Next, Driver, Handler

(* However often the access point goes away and the retries run out and  *)
(* app_main restarts, wifi_event_handler's retry_num stays within         *)
(* 0 .. WIFI_CONNECTION_RETRIES (main.c:127-134), the event group holds  *)
(* only the two bits and the event queue only the three events.          *)
THEOREM TypeCorrect == FairSpec => []TypeOK
<1>1. Init => TypeOK
  BY InitType
<1>2. TypeOK /\ [Next]_vars => TypeOK'
  BY TypeStep
<1>3. QED
  BY <1>1, <1>2, PTL DEF FairSpec
=============================================================================
