------------------------------ MODULE HttpClient ------------------------------
(***************************************************************************)
(* The download path of http_client_task (src/relay-fw/src/main/main.c):  *)
(* esp_http_client_perform delivers the server's answer in chunks to      *)
(* http_event_handler, which copies them into http_buffer at the static   *)
(* offset buffer_len; then, whatever perform returned, the task parses    *)
(* the buffer as a C string with json_read_array into airtag_list and     *)
(* airtag_count.                                                           *)
(*                                                                         *)
(* Data is abstracted to tokens: Open and Close are the brackets of the   *)
(* JSON array, a record stands for the text of one tag object with its    *)
(* separator, Junk for text that is not JSON (an error page), NUL for the *)
(* zero byte.  Records are taken to have equal length, the case in which *)
(* two answers line up record by record.  The BLE task and the mutex are *)
(* the subject of Relay; here the task holds the mutex while it parses.   *)
(***************************************************************************)
EXTENDS Integers, Sequences

CONSTANTS
    NUM_TAGS,            \* CONFIG_NUM_TAGS: maxlen of airtag_array
    Records,             \* tag objects the server may send
    Zeroed,              \* the zero-initialised struct airtag_t
    Open, Close, Junk,   \* "[", "]", and text that is not JSON
    NUL,                 \* the zero byte
    NoAnswer,            \* no complete answer at hand (refinement only)
    HTTP_BUFFER_SIZE,    \* CONFIG_HTTP_BUFFER_SIZE, in tokens
    MaxTransferFaults    \* bound on transfers broken off mid-answer

ASSUME HttpAssumption ==
    /\ NUM_TAGS \in Nat \ {0}
    /\ HTTP_BUFFER_SIZE \in Nat \ {0}
    /\ MaxTransferFaults \in Nat
    /\ {Open, Close, Junk, NUL, Zeroed} \cap Records = {}
    /\ Open # Close /\ Open # Junk /\ Close # Junk
    /\ NUL \notin {Open, Close, Junk}
    /\ NoAnswer \notin UNION {[1 .. n -> Records] : n \in 0 .. NUM_TAGS}

VARIABLES
    http_buffer,   \* char http_buffer[HTTP_BUFFER_SIZE + 1]
    buffer_len,    \* static size_t buffer_len of http_event_handler
    body,          \* the answer the server sends to the current request
    sent,          \* how much of it has been handed to the event handler
    http_pc,       \* "perform", "transfer" (inside perform) or "parse"
    airtag_list,
    airtag_count,
    faults         \* transfers broken off so far (model bound)

vars == <<http_buffer, buffer_len, body, sent, http_pc, airtag_list,
          airtag_count, faults>>

Slots == 0 .. NUM_TAGS - 1
Tokens == Records \cup {Open, Close, Junk}
TagArrays == UNION {[1 .. n -> Records] : n \in 0 .. NUM_TAGS}
ArrayBodies == {<<Open>> \o a \o <<Close>> : a \in TagArrays}
(* The server is asked for num=NUM_TAGS tags; it may also answer with an  *)
(* error page.                                                             *)
Bodies == ArrayBodies \cup {<<Junk>>}

MinOf(a, b) == IF a < b THEN a ELSE b

TypeOK ==
    /\ http_buffer \in [0 .. HTTP_BUFFER_SIZE -> Tokens \cup {NUL}]
    /\ buffer_len \in Nat
    /\ body \in Bodies \cup {<<>>}
    /\ sent \in 0 .. Len(body)
    /\ http_pc \in {"perform", "transfer", "parse"}
    /\ airtag_list \in [Slots -> Records \cup {Zeroed}]
    /\ airtag_count \in 0 .. NUM_TAGS
    /\ faults \in 0 .. MaxTransferFaults

-----------------------------------------------------------------------------
(* The C string json_read_array reads: the tokens before the first NUL.    *)
StrLen ==
    CHOOSE n \in 0 .. HTTP_BUFFER_SIZE + 1 :
        /\ \A i \in 0 .. n - 1 : http_buffer[i] # NUL
        /\ n <= HTTP_BUFFER_SIZE => http_buffer[n] = NUL
CString == [i \in 1 .. StrLen |-> http_buffer[i - 1]]

(* Mutant: any value is taken for a tag object.                          *)
LeadingAnyValue(s) ==
    LET m == MinOf(Len(s) - 1, NUM_TAGS)
    IN  CHOOSE k \in 0 .. m :
            /\ \A j \in 2 .. k + 1 : s[j] # Close
            /\ k = m \/ s[k + 2] = Close

(* How many tag objects follow the "[" of s, at most maxlen = NUM_TAGS.   *)
Leading(s) ==
    LET m == MinOf(Len(s) - 1, NUM_TAGS)
    IN  CHOOSE k \in 0 .. m :
            /\ \A j \in 2 .. k + 1 : s[j] \in Records
            /\ k = m \/ s[k + 2] \notin Records

(* json_read_array(http_buffer, &airtag_array, NULL): no "[" is an error  *)
(* that writes nothing; otherwise each object is written to its slot as   *)
(* it is parsed, and airtag_count is set only when "]" follows, so an     *)
(* error after some objects (a cut-off array, more than maxlen objects,  *)
(* text that is not an object) leaves those slots overwritten and the    *)
(* count as it was.  Text after the "]" is not looked at.                 *)
JsonReadArray(s) ==
    IF Len(s) = 0 \/ s[1] # Open
      THEN [list |-> airtag_list, count |-> airtag_count]
      ELSE LET k == Leading(s)
           IN  [list  |-> [i \in Slots |->
                             IF i < k THEN s[i + 2] ELSE airtag_list[i]],
                count |-> IF k + 2 <= Len(s) /\ s[k + 2] = Close
                            THEN k ELSE airtag_count]

-----------------------------------------------------------------------------
Init ==
    /\ http_buffer = [i \in 0 .. HTTP_BUFFER_SIZE |-> NUL]
    /\ buffer_len = 0
    /\ body = <<>>
    /\ sent = 0
    /\ http_pc = "perform"
    /\ airtag_list = [i \in Slots |-> Zeroed]
    /\ airtag_count = 0
    /\ faults = 0

(* esp_http_client_perform connects and the server picks its answer.      *)
Perform ==
    /\ http_pc = "perform"
    /\ \E b \in Bodies : body' = b
    /\ sent' = 0
    /\ http_pc' = "transfer"
    /\ UNCHANGED <<http_buffer, buffer_len, airtag_list, airtag_count, faults>>

(* The connection fails: HTTP_EVENT_ERROR, whose handler returns ESP_FAIL *)
(* and changes nothing; perform returns an error, which is only logged.  *)
ConnectFails ==
    /\ http_pc = "perform"
    /\ body' = <<>>
    /\ sent' = 0
    /\ http_pc' = "parse"
    /\ UNCHANGED <<http_buffer, buffer_len, airtag_list, airtag_count, faults>>

(* Mutant: the copy bounded by sizeof(http_buffer) instead of its size.   *)
OnDataPastEnd ==
    /\ http_pc = "transfer"
    /\ sent < Len(body)
    /\ \E data_len \in 1 .. Len(body) - sent :
         LET copy_len == MinOf(data_len, HTTP_BUFFER_SIZE + 1 - buffer_len)
         IN  /\ http_buffer' =
                  [i \in DOMAIN http_buffer |->
                     IF buffer_len <= i /\ i < buffer_len + copy_len
                       THEN body[sent + i - buffer_len + 1]
                       ELSE http_buffer[i]]
             /\ buffer_len' = buffer_len + copy_len
             /\ sent' = sent + data_len
    /\ UNCHANGED <<body, http_pc, airtag_list, airtag_count, faults>>

(* HTTP_EVENT_ON_DATA: copy what still fits at buffer_len, drop the rest. *)
OnData ==
    /\ http_pc = "transfer"
    /\ sent < Len(body)
    /\ \E data_len \in 1 .. Len(body) - sent :
         LET copy_len == MinOf(data_len, HTTP_BUFFER_SIZE - buffer_len)
         IN  /\ http_buffer' =
                  [i \in DOMAIN http_buffer |->
                     IF buffer_len <= i /\ i < buffer_len + copy_len
                       THEN body[sent + i - buffer_len + 1]
                       ELSE http_buffer[i]]
             /\ buffer_len' = buffer_len + copy_len
             /\ sent' = sent + data_len
    /\ UNCHANGED <<body, http_pc, airtag_list, airtag_count, faults>>

(* Mutant: ON_FINISH forgets to reset the offset.                         *)
OnFinishNoReset ==
    /\ http_pc = "transfer"
    /\ sent = Len(body)
    /\ http_pc' = "parse"
    /\ UNCHANGED <<http_buffer, buffer_len, body, sent, airtag_list,
                   airtag_count, faults>>

(* The whole answer arrived: HTTP_EVENT_ON_FINISH (and DISCONNECTED)      *)
(* reset buffer_len; perform returns ESP_OK.                               *)
OnFinish ==
    /\ http_pc = "transfer"
    /\ sent = Len(body)
    /\ buffer_len' = 0
    /\ http_pc' = "parse"
    /\ UNCHANGED <<http_buffer, body, sent, airtag_list, airtag_count, faults>>

(* The transfer breaks off: HTTP_EVENT_ERROR returns without resetting    *)
(* buffer_len, and perform returns an error.                               *)
TransferError ==
    /\ http_pc = "transfer"
    /\ sent < Len(body)
    /\ faults < MaxTransferFaults
    /\ faults' = faults + 1
    /\ http_pc' = "parse"
    /\ UNCHANGED <<http_buffer, buffer_len, body, sent, airtag_list,
                   airtag_count>>

(* The transfer breaks off and the connection is closed: DISCONNECTED     *)
(* resets buffer_len; perform returns an error.                            *)
TransferDropped ==
    /\ http_pc = "transfer"
    /\ sent < Len(body)
    /\ faults < MaxTransferFaults
    /\ faults' = faults + 1
    /\ buffer_len' = 0
    /\ http_pc' = "parse"
    /\ UNCHANGED <<http_buffer, body, sent, airtag_list, airtag_count>>

(* Take airtag_mutex, json_read_array on the buffer whatever perform      *)
(* returned, log, give the mutex, sleep RELAY_DOWNLOAD_INTERVAL.          *)
Parse ==
    /\ http_pc = "parse"
    /\ LET r == JsonReadArray(CString)
       IN  /\ airtag_list' = r.list
           /\ airtag_count' = r.count
    /\ http_pc' = "perform"
    /\ UNCHANGED <<http_buffer, buffer_len, body, sent, faults>>

Next ==
    \/ Perform \/ ConnectFails \/ OnData \/ OnFinish
    \/ TransferError \/ TransferDropped \/ Parse

Spec == Init /\ [][Next]_vars

-----------------------------------------------------------------------------
(* Properties                                                              *)

(* Every copy of http_event_handler stays inside http_buffer and the      *)
(* terminating byte http_buffer[HTTP_BUFFER_SIZE] is never overwritten,   *)
(* however answers are chunked, cut off or too long (main.c:161-165), so  *)
(* json_read_array always reads a terminated string.                      *)
Terminated ==
    /\ buffer_len <= HTTP_BUFFER_SIZE
    /\ http_buffer[HTTP_BUFFER_SIZE] = NUL

(* The refinement mapping: the store is the first airtag_count slots; an  *)
(* answer is at hand when the server's array arrived in full and has not *)
(* been parsed yet.                                                        *)
Answered == http_pc = "parse" /\ body \in ArrayBodies /\ sent = Len(body)
Abs == INSTANCE Downloader WITH
           store  <- [i \in 1 .. airtag_count |-> airtag_list[i - 1]],
           answer <- IF Answered
                       THEN [i \in 1 .. Len(body) - 2 |-> body[i + 1]]
                       ELSE NoAnswer

(* The download path implements Downloader: the tag store is only ever    *)
(* replaced by a whole answer that arrived in full, and a failed request *)
(* leaves it as it was (spec sections 3 and 7; main.c:153-179, 249-276).  *)
DownloaderRefined == Abs!Spec

=============================================================================
