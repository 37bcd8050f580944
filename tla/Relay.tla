-------------------------------- MODULE Relay --------------------------------
(***************************************************************************)
(* The relay firmware's two FreeRTOS tasks and what they share             *)
(* (src/relay-fw/src/main/main.c):                                         *)
(*                                                                         *)
(*  - http_client_task downloads the tag list into the HTTP buffer and,    *)
(*    holding airtag_mutex, parses it into airtag_list / airtag_count;     *)
(*  - ble_adv_task picks airtag_list[index] under airtag_mutex, derives    *)
(*    the advertisement address and payload from it, and drives the BLE    *)
(*    controller through set address, set data, start, dwell, stop,        *)
(*    blocking on the binary semaphore ble_sem after every command;        *)
(*  - ble_gap_event_handler, run by the Bluetooth stack when the           *)
(*    controller completes a command, gives ble_sem.                       *)
(*                                                                         *)
(* Data is abstracted: a tag record is a model value, and what the codec   *)
(* does with it is reduced to the classes the control flow tells apart    *)
(* (base64 rejected, decoded short, decoded to the full 38 bytes).  The    *)
(* byte layout itself is the subject of module Codec.                      *)
(***************************************************************************)
EXTENDS Integers, Sequences

CONSTANTS
    NUM_TAGS,          \* CONFIG_NUM_TAGS: capacity of airtag_list
    Records,           \* tag records the signalling server may send
    Malformed,         \* records whose data mbedtls_base64_decode rejects
    Short,             \* records whose data decodes to fewer than 38 bytes
    Zeroed,            \* the zero-initialised struct airtag_t (data = "")
    Garbage,           \* an HTTP buffer that does not hold a JSON array
    None,              \* no record: the controller's state before any command
    MaxRadioFailures   \* bound on the command failures the BLE stack reports

ASSUME NumTagsAssumption == NUM_TAGS \in Nat \ {0}
ASSUME RecordsAssumption ==
    /\ Malformed \subseteq Records
    /\ Short \subseteq Records
    /\ Zeroed \notin Records
    /\ None \notin Records \cup {Zeroed}
ASSUME FailuresAssumption == MaxRadioFailures \in Nat

VARIABLES
    airtag_list,      \* static struct airtag_t airtag_list[NUM_TAGS]
    airtag_count,     \* static int airtag_count
    airtag_mutex,     \* holder of airtag_mutex: "free", "http" or "ble"
    http_buffer,      \* last response body in http_buffer
    http_pc,          \* where http_client_task is in its loop
    ble_pc,           \* where ble_adv_task is in its loop
    index,            \* ble_adv_task's local rotation index
    selected,         \* record the locals addr/payload were derived from
    ble_sem,          \* binary semaphore ble_sem: 0 (taken) or 1 (given)
    gap_q,            \* GAP commands issued and not yet completed
    radio,            \* the controller: address, data, advertising on/off
    radio_failures    \* command failures reported so far (model bound)

vars == <<airtag_list, airtag_count, airtag_mutex, http_buffer, http_pc,
          ble_pc, index, selected, ble_sem, gap_q, radio, radio_failures>>

Slots == 0 .. NUM_TAGS - 1
Stored == Records \cup {Zeroed}

(* JSON arrays the server may answer with: it is asked for num=NUM_TAGS.  *)
TagArrays == UNION {[1 .. n -> Records] : n \in 0 .. NUM_TAGS}
Responses == TagArrays \cup {Garbage}

(* airtag_to_key returns SUCCESS exactly when base64 decoding returned 0;  *)
(* the number of bytes written is not looked at.  An empty string decodes *)
(* to zero bytes without error.                                            *)
DecodeOk(r) == r \notin Malformed
FullKey(r) == r \notin Malformed \cup Short \cup {Zeroed}

Ops == {"addr", "data", "start", "stop"}
Commands == [op : Ops, rec : Stored \cup {None}]
IssuePc == {"set_addr", "set_data", "start_adv", "stop_adv"}
WaitPc == {"wait_addr", "wait_data", "wait_start", "wait_stop"}
BlePcs == {"check", "take", "select", "dwell"} \cup IssuePc \cup WaitPc
(* the command whose completion ble_adv_task waits for at each wait      *)
Awaits == [p \in WaitPc |->
             CASE p = "wait_addr"  -> "addr"
               [] p = "wait_data"  -> "data"
               [] p = "wait_start" -> "start"
               [] p = "wait_stop"  -> "stop"]

TypeOK ==
    /\ airtag_list \in [Slots -> Stored]
    /\ airtag_count \in 0 .. NUM_TAGS
    /\ airtag_mutex \in {"free", "http", "ble"}
    /\ http_buffer \in Responses
    /\ http_pc \in {"perform", "take", "parse"}
    /\ ble_pc \in BlePcs
    /\ index \in Slots
    /\ selected \in Stored \cup {None}
    /\ ble_sem \in {0, 1}
    /\ gap_q \in Seq(Commands)
    /\ radio \in [addr : Stored \cup {None}, data : Stored \cup {None},
                  advertising : BOOLEAN]
    /\ radio_failures \in 0 .. MaxRadioFailures

-----------------------------------------------------------------------------
(* Boot: static storage is zeroed, ble_sem is created empty, both tasks   *)
(* start at the top of their loops, the controller has no address set.    *)
Init ==
    /\ airtag_list = [i \in Slots |-> Zeroed]
    /\ airtag_count = 0
    /\ airtag_mutex = "free"
    /\ http_buffer = Garbage
    /\ http_pc = "perform"
    /\ ble_pc = "check"
    /\ index = 0
    /\ selected = None
    /\ ble_sem = 0
    /\ gap_q = <<>>
    /\ radio = [addr |-> None, data |-> None, advertising |-> FALSE]
    /\ radio_failures = 0

(* abort() or esp_restart(): the chip reboots and every RAM variable and  *)
(* the controller start over; only the model's failure bound is kept.     *)
Reboot ==
    /\ airtag_list' = [i \in Slots |-> Zeroed]
    /\ airtag_count' = 0
    /\ airtag_mutex' = "free"
    /\ http_buffer' = Garbage
    /\ http_pc' = "perform"
    /\ ble_pc' = "check"
    /\ index' = 0
    /\ selected' = None
    /\ ble_sem' = 0
    /\ gap_q' = <<>>
    /\ radio' = [addr |-> None, data |-> None, advertising |-> FALSE]

-----------------------------------------------------------------------------
(* http_client_task                                                        *)

(* esp_http_client_perform: on success the body lands in http_buffer; on *)
(* failure it is only logged and the buffer keeps its previous content.   *)
HttpPerform ==
    /\ http_pc = "perform"
    /\ \E body \in Responses \cup {http_buffer} : http_buffer' = body
    /\ http_pc' = "take"
    /\ UNCHANGED <<airtag_list, airtag_count, airtag_mutex, ble_pc, index,
                   selected, ble_sem, gap_q, radio, radio_failures>>

(* xSemaphoreTake(airtag_mutex, portMAX_DELAY)                             *)
HttpTake ==
    /\ http_pc = "take"
    /\ airtag_mutex = "free"
    /\ airtag_mutex' = "http"
    /\ http_pc' = "parse"
    /\ UNCHANGED <<airtag_list, airtag_count, http_buffer, ble_pc, index,
                   selected, ble_sem, gap_q, radio, radio_failures>>

(* Mutant: the copy loop stops one element short.                        *)
HttpParseDropsLast ==
    /\ http_pc = "parse"
    /\ IF http_buffer \in TagArrays
         THEN /\ airtag_list' = [i \in Slots |->
                                   IF i < Len(http_buffer) - 1
                                     THEN http_buffer[i + 1]
                                     ELSE airtag_list[i]]
              /\ airtag_count' = Len(http_buffer)
         ELSE UNCHANGED <<airtag_list, airtag_count>>
    /\ airtag_mutex' = "free"
    /\ http_pc' = "perform"
    /\ UNCHANGED <<http_buffer, ble_pc, index, selected, ble_sem, gap_q,
                   radio, radio_failures>>

(* json_read_array writes the array's elements into airtag_list from slot *)
(* 0 on and sets airtag_count; a buffer that is not an array leaves both  *)
(* alone.  Then the tags are logged, the mutex given, and the task sleeps *)
(* RELAY_DOWNLOAD_INTERVAL before the next request.                        *)
HttpParse ==
    /\ http_pc = "parse"
    /\ IF http_buffer \in TagArrays
         THEN /\ airtag_list' = [i \in Slots |->
                                   IF i < Len(http_buffer)
                                     THEN http_buffer[i + 1]
                                     ELSE airtag_list[i]]
              /\ airtag_count' = Len(http_buffer)
         ELSE UNCHANGED <<airtag_list, airtag_count>>
    /\ airtag_mutex' = "free"
    /\ http_pc' = "perform"
    /\ UNCHANGED <<http_buffer, ble_pc, index, selected, ble_sem, gap_q,
                   radio, radio_failures>>

HttpTask == HttpPerform \/ HttpTake \/ HttpParse

-----------------------------------------------------------------------------
(* ble_adv_task                                                            *)

(* airtag_count is read without the mutex; while it is <= 0 the task     *)
(* sleeps a second and looks again, which changes nothing (a stutter).    *)
BleCheck ==
    /\ ble_pc = "check"
    /\ airtag_count > 0
    /\ ble_pc' = "take"
    /\ UNCHANGED <<airtag_list, airtag_count, airtag_mutex, http_buffer,
                   http_pc, index, selected, ble_sem, gap_q, radio,
                   radio_failures>>

BleTake ==
    /\ ble_pc = "take"
    /\ airtag_mutex = "free"
    /\ airtag_mutex' = "ble"
    /\ ble_pc' = "select"
    /\ UNCHANGED <<airtag_list, airtag_count, http_buffer, http_pc, index,
                   selected, ble_sem, gap_q, radio, radio_failures>>

(* assert(index < airtag_count) fails: abort() reboots the chip.          *)
BleAssertFail ==
    /\ ble_pc = "select"
    /\ ~(index < airtag_count)
    /\ Reboot
    /\ UNCHANGED radio_failures

(* airtag_to_ble_advertisement fails: log, give the mutex, continue; the  *)
(* index is not advanced.                                                  *)
BleSkip ==
    /\ ble_pc = "select"
    /\ index < airtag_count
    /\ ~DecodeOk(airtag_list[index])
    /\ airtag_mutex' = "free"
    /\ ble_pc' = "check"
    /\ UNCHANGED <<airtag_list, airtag_count, http_buffer, http_pc, index,
                   selected, ble_sem, gap_q, radio, radio_failures>>

(* Mutant: index incremented without the modulo.                          *)
BleSelectNoModulo ==
    /\ ble_pc = "select"
    /\ index < airtag_count
    /\ DecodeOk(airtag_list[index])
    /\ selected' = airtag_list[index]
    /\ index' = index + 1
    /\ airtag_mutex' = "free"
    /\ ble_pc' = "set_addr"
    /\ UNCHANGED <<airtag_list, airtag_count, http_buffer, http_pc, ble_sem,
                   gap_q, radio, radio_failures>>

(* Mutant: the index update dropped.                                       *)
BleSelectNoAdvance ==
    /\ ble_pc = "select"
    /\ index < airtag_count
    /\ DecodeOk(airtag_list[index])
    /\ selected' = airtag_list[index]
    /\ airtag_mutex' = "free"
    /\ ble_pc' = "set_addr"
    /\ UNCHANGED <<airtag_list, airtag_count, http_buffer, http_pc, index,
                   ble_sem, gap_q, radio, radio_failures>>

(* address and payload derived, index advanced modulo the count, mutex    *)
(* given.                                                                  *)
BleSelect ==
    /\ ble_pc = "select"
    /\ index < airtag_count
    /\ DecodeOk(airtag_list[index])
    /\ selected' = airtag_list[index]
    /\ index' = (index + 1) % airtag_count
    /\ airtag_mutex' = "free"
    /\ ble_pc' = "set_addr"
    /\ UNCHANGED <<airtag_list, airtag_count, http_buffer, http_pc, ble_sem,
                   gap_q, radio, radio_failures>>

(* ESP_ERROR_CHECK(esp_ble_gap_...(...)): the call queues the command for *)
(* the controller; the task then blocks on ble_sem.                       *)
Issue(from, op, to) ==
    /\ ble_pc = from
    /\ gap_q' = Append(gap_q, [op |-> op, rec |-> selected])
    /\ ble_pc' = to
    /\ UNCHANGED <<airtag_list, airtag_count, airtag_mutex, http_buffer,
                   http_pc, index, selected, ble_sem, radio, radio_failures>>

(* xSemaphoreTake(ble_sem, portMAX_DELAY)                                  *)
Await(from, to) ==
    /\ ble_pc = from
    /\ ble_sem = 1
    /\ ble_sem' = 0
    /\ ble_pc' = to
    /\ UNCHANGED <<airtag_list, airtag_count, airtag_mutex, http_buffer,
                   http_pc, index, selected, gap_q, radio, radio_failures>>

(* Mutant: the xSemaphoreTake after config_adv_data_raw dropped.         *)
WaitAdvDataNoTake ==
    /\ ble_pc = "wait_data"
    /\ ble_pc' = "start_adv"
    /\ UNCHANGED <<airtag_list, airtag_count, airtag_mutex, http_buffer,
                   http_pc, index, selected, ble_sem, gap_q, radio,
                   radio_failures>>

(* Mutant: the xSemaphoreTake after stop_advertising dropped.             *)
WaitStopNoTake ==
    /\ ble_pc = "wait_stop"
    /\ ble_pc' = "check"
    /\ UNCHANGED <<airtag_list, airtag_count, airtag_mutex, http_buffer,
                   http_pc, index, selected, ble_sem, gap_q, radio,
                   radio_failures>>

SetRandAddr      == Issue("set_addr", "addr", "wait_addr")
WaitRandAddr     == Await("wait_addr", "set_data")
ConfigAdvData    == Issue("set_data", "data", "wait_data")
WaitAdvData      == Await("wait_data", "start_adv")
StartAdvertising == Issue("start_adv", "start", "wait_start")
WaitStart        == Await("wait_start", "dwell")
StopAdvertising  == Issue("stop_adv", "stop", "wait_stop")
WaitStop         == Await("wait_stop", "check")

(* vTaskDelay(BLE_ADVERTISEMENT_DURATION): the tag is on the air.          *)
Dwell ==
    /\ ble_pc = "dwell"
    /\ ble_pc' = "stop_adv"
    /\ UNCHANGED <<airtag_list, airtag_count, airtag_mutex, http_buffer,
                   http_pc, index, selected, ble_sem, gap_q, radio,
                   radio_failures>>

(* A GAP call returns an error: ESP_ERROR_CHECK aborts and the chip       *)
(* reboots.                                                                *)
GapCallFails ==
    /\ ble_pc \in IssuePc
    /\ radio_failures < MaxRadioFailures
    /\ Reboot
    /\ radio_failures' = radio_failures + 1

BleTask ==
    \/ BleCheck \/ BleTake \/ BleAssertFail \/ BleSkip \/ BleSelect
    \/ SetRandAddr \/ WaitRandAddr \/ ConfigAdvData \/ WaitAdvData
    \/ StartAdvertising \/ WaitStart \/ Dwell \/ StopAdvertising \/ WaitStop

-----------------------------------------------------------------------------
(* The controller completes the oldest command and the stack calls        *)
(* ble_gap_event_handler with its completion event, which gives ble_sem   *)
(* whatever status the event carries.  A binary semaphore that is         *)
(* already given stays given.                                              *)

Apply(c) ==
    IF c.op = "addr" THEN [radio EXCEPT !.addr = c.rec]
    ELSE IF c.op = "data" THEN [radio EXCEPT !.data = c.rec]
    ELSE IF c.op = "start" THEN [radio EXCEPT !.advertising = TRUE]
    ELSE [radio EXCEPT !.advertising = FALSE]

GapComplete ==
    /\ gap_q # <<>>
    /\ radio' = Apply(Head(gap_q))
    /\ gap_q' = Tail(gap_q)
    /\ ble_sem' = 1
    /\ UNCHANGED <<airtag_list, airtag_count, airtag_mutex, http_buffer,
                   http_pc, ble_pc, index, selected, radio_failures>>

(* The command completes with an error status: the controller's state is *)
(* unchanged, and the handler gives ble_sem all the same.                  *)
GapCompleteFailed ==
    /\ gap_q # <<>>
    /\ radio_failures < MaxRadioFailures
    /\ gap_q' = Tail(gap_q)
    /\ ble_sem' = 1
    /\ radio_failures' = radio_failures + 1
    /\ UNCHANGED <<airtag_list, airtag_count, airtag_mutex, http_buffer,
                   http_pc, ble_pc, index, selected, radio>>

GapDriver == GapComplete \/ GapCompleteFailed

Next == HttpTask \/ BleTask \/ GapCallFails \/ GapDriver

Spec == Init /\ [][Next]_vars

(* Both tasks have priority 2 and are time-sliced, so each gets the CPU   *)
(* whenever it can run (weak fairness).  A task blocked on airtag_mutex   *)
(* is woken when it is given, and the giver then sleeps for its delay, so *)
(* an acquire that is enabled again and again happens (strong fairness).  *)
(* The controller is assumed to answer every command (spec section 5).    *)
FairSpec ==
    /\ Spec
    /\ WF_vars(HttpTask) /\ SF_vars(HttpTake)
    /\ WF_vars(BleTask) /\ SF_vars(BleTake)
    /\ WF_vars(GapDriver)

-----------------------------------------------------------------------------
(* Properties                                                              *)

(* The completion handshake over ble_sem (main.c:193-216, 327-342): at   *)
(* most one GAP command is in flight or signalled, and while one is,     *)
(* ble_adv_task is blocked waiting for exactly that command, so every     *)
(* xSemaphoreTake consumes the completion of the command issued just     *)
(* before it and the controller never sees two commands pipelined.       *)
Handshake ==
    /\ Len(gap_q) + ble_sem <= 1
    /\ gap_q # <<>> => ble_pc \in WaitPc /\ Head(gap_q).op = Awaits[ble_pc]
    /\ ble_sem = 1 => ble_pc \in WaitPc

(* While the controller advertises, its address and its payload both    *)
(* come from the record ble_adv_task last selected: the beacon on the    *)
(* air never mixes two tags' identities and never outlives the tag's     *)
(* turn (spec section 7: a radio error must not leave stale or incorrect *)
(* data on the air).                                                     *)
AdvertisedIsSelected ==
    radio.advertising => radio.addr = selected /\ radio.data = selected

(* Spec section 3: CycleIndex stays below count whenever count > 0.      *)
(* main.c:312 asserts it each time the task takes the mutex.             *)
CycleIndexInRange ==
    airtag_count > 0 => index < airtag_count

(* Spec section 8: a record whose data does not decode to exactly 38     *)
(* bytes yields a DecodeError, so only full keys reach the air           *)
(* (airtag.c:45-51).                                                     *)
FullKeyOnAir ==
    radio.advertising => FullKey(radio.addr)

(* Rotation over a store that stops changing: once airtag_list and       *)
(* airtag_count stay fixed, every record below the count that decodes is *)
(* put on the air again and again, a broken record does not stall the   *)
(* rotation (spec sections 4.4 and 8; main.c:299-342).                  *)
OnAir(r) == radio.advertising /\ radio.addr = r
StableStoreRotates ==
    \A c \in 1 .. NUM_TAGS, l \in [Slots -> Stored] :
        <>[](airtag_count = c /\ airtag_list = l) =>
            \A i \in 0 .. c - 1 : DecodeOk(l[i]) => []<>OnAir(l[i])


(* The refinement mapping to Beacon: what the controller broadcasts while *)
(* it advertises, and silence otherwise.                                  *)
Air == INSTANCE Beacon WITH
           air_addr <- IF radio.advertising THEN radio.addr ELSE None,
           air_data <- IF radio.advertising THEN radio.data ELSE None

(* ble_adv_task drives the controller as Beacon promises (spec sections  *)
(* 4.4 and 7; main.c:299-342, 193-216): only a record that decoded goes   *)
(* on the air, with its own address and payload, and the beacon is       *)
(* silenced before the next tag's address is set.                         *)
BeaconRefined == Air!Spec

=============================================================================
