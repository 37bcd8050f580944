--------------------------- MODULE DownloaderProofs ---------------------------
(***************************************************************************)
(* Proof that the download path implements Downloader when no transfer   *)
(* breaks off and the buffer holds the longest answer: the tag store is  *)
(* only ever replaced as a whole by an answer that arrived in full.       *)
(***************************************************************************)
EXTENDS HttpClientProofs

(* The buffer starts with the tokens of b.                                 *)
Prefix(b) ==
    /\ Len(b) <= HTTP_BUFFER_SIZE
    /\ \A i \in 1 .. Len(b) : http_buffer[i - 1] = b[i]

(* The records of a JSON array answer, and the store the mapping sees.    *)
Inner(b) == [i \in 1 .. Len(b) - 2 |-> b[i + 1]]
StoreOf == [i \in 1 .. airtag_count |-> airtag_list[i - 1]]

(* Between requests the buffer either does not start with "[" or holds   *)
(* the array the store was parsed from.                                   *)
Settled ==
    \/ http_buffer[0] # Open
    \/ \E b \in ArrayBodies : Prefix(b) /\ StoreOf = Inner(b)

(* Without broken transfers: the offset is what has been handed over, the *)
(* buffer holds the answer received so far, and a parse that is not of a *)
(* fresh answer reads the array the store came from.                      *)
RefInv ==
    /\ http_pc # "transfer" => buffer_len = 0
    /\ http_pc = "transfer" =>
          /\ body # <<>>
          /\ buffer_len = sent
          /\ \A i \in 1 .. sent : http_buffer[i - 1] = body[i]
    /\ http_pc = "parse" /\ body # <<>> => sent = Len(body) /\ Prefix(body)
    /\ http_pc = "perform" \/ (http_pc = "parse" /\ body = <<>>) => Settled

DInv == TInv /\ RefInv

USE HttpAssumption

(* An array answer: "[", up to NUM_TAGS records, "]".                      *)
LEMMA ArrayShape ==
    ASSUME NEW b \in ArrayBodies
    PROVE  /\ b \in Seq(Tokens)
           /\ Len(b) \in 2 .. NUM_TAGS + 2
           /\ b[1] = Open
           /\ b[Len(b)] = Close
           /\ \A j \in 2 .. Len(b) - 1 : b[j] \in Records
           /\ Inner(b) \in TagArrays
<1>1. PICK a \in TagArrays : b = <<Open>> \o a \o <<Close>>
  BY DEF ArrayBodies
<1>2. PICK n \in 0 .. NUM_TAGS : a \in [1 .. n -> Records]
  BY DEF TagArrays
<1>3. a \in Seq(Records) /\ Len(a) = n
  BY <1>2
<1>4. /\ Len(b) = n + 2
      /\ b[1] = Open
      /\ b[n + 2] = Close
      /\ \A j \in 2 .. n + 1 : b[j] = a[j - 1]
  BY <1>1, <1>3
<1>5. Inner(b) = a
  BY <1>3, <1>4 DEF Inner
<1>6. b \in Seq(Tokens)
  BY <1>1, <1>3, BodiesAreSeqs DEF Bodies, ArrayBodies
<1>7. QED
  BY <1>2, <1>3, <1>4, <1>5, <1>6

(* The C string starts with every token of a prefix b of the buffer.      *)
LEMMA CStringPrefix ==
    ASSUME TypeOK, BufInv, NEW b \in Seq(Tokens), Prefix(b)
    PROVE  /\ CString \in Seq(Tokens)
           /\ Len(CString) >= Len(b)
           /\ \A j \in 1 .. Len(b) : CString[j] = b[j]
<1>1. /\ StrLen \in 0 .. HTTP_BUFFER_SIZE
      /\ http_buffer[StrLen] = NUL
  BY StrLenSpec DEF BufInv
<1>2. StrLen >= Len(b)
  <2>1. SUFFICES ASSUME StrLen < Len(b) PROVE FALSE
    BY <1>1
  <2>2. http_buffer[StrLen] = b[StrLen + 1] /\ b[StrLen + 1] \in Tokens
    BY <1>1, <2>1 DEF Prefix
  <2>3. QED
    BY <1>1, <2>2 DEF Tokens
<1>3. QED
  BY <1>1, <1>2, CStringType DEF CString, Prefix

(* json_read_array on a buffer that starts with an array answer b sets   *)
(* the count to its number of records and writes them to their slots.    *)
LEMMA ParseArray ==
    ASSUME TypeOK, BufInv, NEW b \in ArrayBodies, Prefix(b)
    PROVE  /\ JsonReadArray(CString).count = Len(b) - 2
           /\ JsonReadArray(CString).list =
                [i \in Slots |-> IF i < Len(b) - 2 THEN b[i + 2]
                                                   ELSE airtag_list[i]]
<1> DEFINE s == CString
           n == Len(b) - 2
           k == Leading(s)
<1>1. /\ b \in Seq(Tokens)
      /\ Len(b) \in 2 .. NUM_TAGS + 2
      /\ b[1] = Open
      /\ b[Len(b)] = Close
      /\ \A j \in 2 .. Len(b) - 1 : b[j] \in Records
  BY ArrayShape
<1>2. /\ s \in Seq(Tokens)
      /\ Len(s) >= Len(b)
      /\ \A j \in 1 .. Len(b) : s[j] = b[j]
  BY <1>1, CStringPrefix
<1>3. n \in 0 .. MinOf(Len(s) - 1, NUM_TAGS)
  BY <1>1, <1>2 DEF MinOf
<1>4. /\ k \in 0 .. MinOf(Len(s) - 1, NUM_TAGS)
      /\ \A j \in 2 .. k + 1 : s[j] \in Records
      /\ k = MinOf(Len(s) - 1, NUM_TAGS) \/ s[k + 2] \notin Records
  BY <1>1, <1>2, LeadingSpec
<1>5. k = n
  <2>1. ~(k < n)
    <3>1. SUFFICES ASSUME k < n PROVE FALSE
      OBVIOUS
    <3>2. s[k + 2] \in Records
      BY <1>1, <1>2, <1>4, <3>1
    <3>3. k # MinOf(Len(s) - 1, NUM_TAGS)
      BY <1>3, <1>4, <3>1
    <3>4. QED
      BY <1>4, <3>2, <3>3
  <2>2. ~(k > n)
    <3>1. SUFFICES ASSUME k > n PROVE FALSE
      OBVIOUS
    <3>2. s[n + 2] = Close /\ n + 2 \in 2 .. k + 1
      BY <1>1, <1>2, <1>4, <3>1
    <3>3. QED
      BY <1>4, <3>2
  <2>3. QED
    BY <1>3, <1>4, <2>1, <2>2
<1>6. s # <<>> /\ s[1] = Open
  BY <1>1, <1>2
<1>7. k + 2 <= Len(s) /\ s[k + 2] = Close
  BY <1>1, <1>2, <1>5
<1>8. \A i \in Slots : i < n => s[i + 2] = b[i + 2]
  BY <1>1, <1>2 DEF Slots
<1>9. QED
  <2>1. Len(s) # 0 /\ s[1] = Open
    BY <1>2, <1>6
  <2>2. JsonReadArray(s) =
          [list  |-> [i \in Slots |-> IF i < k THEN s[i + 2]
                                               ELSE airtag_list[i]],
           count |-> IF k + 2 <= Len(s) /\ s[k + 2] = Close
                       THEN k ELSE airtag_count]
    BY <2>1 DEF JsonReadArray
  <2>3. QED
    BY <2>2, <1>5, <1>7, <1>8

(* json_read_array on a buffer holding a whole array answer b: the first  *)
(* airtag_count slots become exactly the records of b.                    *)
LEMMA ParseStore ==
    ASSUME TypeOK, BufInv, NEW b \in ArrayBodies, Prefix(b), Parse
    PROVE  StoreOf' = Inner(b)
<1> DEFINE r == JsonReadArray(CString)
           n == Len(b) - 2
<1>1. airtag_list' = r.list /\ airtag_count' = r.count
  BY Zenon DEF Parse
<1>2. /\ r.count = n
      /\ r.list = [i \in Slots |-> IF i < n THEN b[i + 2] ELSE airtag_list[i]]
  BY ParseArray
<1>3. n \in 0 .. NUM_TAGS /\ b \in Seq(Tokens)
  BY ArrayShape
<1>4. \A i \in 1 .. n : i - 1 \in Slots /\ i - 1 < n
  BY <1>3 DEF Slots
<1>5. StoreOf' = [i \in 1 .. n |-> b[i + 1]]
  BY <1>1, <1>2, <1>4 DEF StoreOf
<1>6. QED
  BY <1>5 DEF Inner

(* A buffer that does not start with "[" leaves the store as it was.     *)
LEMMA ParseNoArray ==
    ASSUME TypeOK, BufInv, http_buffer[0] # Open
    PROVE  JsonReadArray(CString) =
             [list |-> airtag_list, count |-> airtag_count]
<1>1. StrLen \in 0 .. HTTP_BUFFER_SIZE
  BY StrLenSpec DEF BufInv
<1>2. Len(CString) = 0 \/ CString[1] # Open
  BY <1>1 DEF CString
<1>3. QED
  BY <1>2 DEF JsonReadArray


(* Parse keeps the store unless a whole array answer is at hand, in which *)
(* case it installs it, and it leaves the store matching the buffer.     *)
LEMMA ParseFacts ==
    ASSUME DInv, Parse
    PROVE  /\ Answered => StoreOf' = Inner(body)
           /\ ~Answered => StoreOf' = StoreOf
           /\ Settled'
<1>1. TypeOK /\ BufInv /\ RefInv
  BY DEF DInv, TInv
<1>2. http_pc = "parse" /\ http_buffer' = http_buffer
  BY DEF Parse
<1>3. \A b \in ArrayBodies : Prefix(b) => StoreOf' = Inner(b)
  BY <1>1, ParseStore
<1>4. (\E b \in ArrayBodies : Prefix(b) /\ StoreOf' = Inner(b)) => Settled'
  BY <1>2 DEF Settled, Prefix
<1>5. http_buffer[0] # Open => StoreOf' = StoreOf /\ Settled'
  <2>1. SUFFICES ASSUME http_buffer[0] # Open
                 PROVE  StoreOf' = StoreOf /\ Settled'
    OBVIOUS
  <2>2. JsonReadArray(CString) = [list |-> airtag_list, count |-> airtag_count]
    BY <1>1, <2>1, ParseNoArray
  <2>3. /\ airtag_list' = JsonReadArray(CString).list
        /\ airtag_count' = JsonReadArray(CString).count
    BY Zenon DEF Parse
  <2>4. airtag_list' = airtag_list /\ airtag_count' = airtag_count
    BY <2>2, <2>3
  <2>5. QED
    BY <1>2, <2>1, <2>4 DEF StoreOf, Settled
<1>6. <<>> \notin ArrayBodies
  BY ArrayShape
<1>7. CASE body = <<>>
  <2>1. Settled
    BY <1>1, <1>2, <1>7 DEF RefInv
  <2>2. ~Answered
    BY <1>6, <1>7 DEF Answered
  <2>3. CASE http_buffer[0] # Open
    BY <1>5, <2>2, <2>3
  <2>4. CASE \E b \in ArrayBodies : Prefix(b) /\ StoreOf = Inner(b)
    <3>1. PICK b \in ArrayBodies : Prefix(b) /\ StoreOf = Inner(b)
      BY <2>4
    <3>2. StoreOf' = Inner(b)
      BY <1>3, <3>1
    <3>3. QED
      BY <1>4, <2>2, <3>1, <3>2
  <2>5. QED
    BY <2>1, <2>3, <2>4 DEF Settled
<1>8. CASE body # <<>>
  <2>1. sent = Len(body) /\ Prefix(body)
    BY <1>1, <1>2, <1>8 DEF RefInv
  <2>2. CASE body \in ArrayBodies
    <3>1. Answered
      BY <1>2, <2>1, <2>2 DEF Answered
    <3>2. StoreOf' = Inner(body)
      BY <1>3, <2>1, <2>2
    <3>3. QED
      BY <1>4, <2>1, <2>2, <3>1, <3>2
  <2>3. CASE body \notin ArrayBodies
    <3>1. body = <<Junk>>
      BY <1>1, <1>8, <2>3 DEF TypeOK, Bodies
    <3>2. http_buffer[0] = Junk
      BY <2>1, <3>1 DEF Prefix
    <3>3. QED
      BY <1>5, <2>3, <3>2 DEF Answered
  <2>4. QED
    BY <2>2, <2>3
<1>9. QED
  BY <1>7, <1>8


-----------------------------------------------------------------------------
(* The refinement holds when no transfer breaks off and http_buffer can   *)
(* hold the longest answer; http_dropped and a buffer of NUM_TAGS + 1    *)
(* tokens show that it fails otherwise.                                   *)
RefHyp ==
    /\ MaxTransferFaults = 0
    /\ HTTP_BUFFER_SIZE >= NUM_TAGS + 2

(* Every answer the server sends fits in the buffer.                      *)
LEMMA BodyFits ==
    ASSUME RefHyp, NEW b \in Bodies
    PROVE  Len(b) \in 1 .. HTTP_BUFFER_SIZE
<1>1. CASE b \in ArrayBodies
  BY <1>1, ArrayShape DEF RefHyp
<1>2. CASE b = <<Junk>>
  BY <1>2 DEF RefHyp
<1>3. QED
  BY <1>1, <1>2 DEF Bodies

LEMMA RefInit == Init => RefInv
<1> SUFFICES ASSUME Init PROVE RefInv
  OBVIOUS
<1>1. http_buffer[0] = NUL
  BY DEF Init
<1>2. Settled
  BY <1>1 DEF Settled
<1>3. QED
  BY <1>2 DEF Init, RefInv

(* An ON_DATA chunk is copied in full to the end of what came before.    *)
LEMMA OnDataRef ==
    ASSUME RefHyp, DInv, OnData
    PROVE  RefInv'
<1>1. TypeOK /\ BufInv /\ RefInv
  BY DEF DInv, TInv
<1>2. PICK data_len \in 1 .. Len(body) - sent :
          /\ http_buffer' =
               [i \in DOMAIN http_buffer |->
                  IF buffer_len <= i
                     /\ i < buffer_len
                            + MinOf(data_len, HTTP_BUFFER_SIZE - buffer_len)
                    THEN body[sent + i - buffer_len + 1]
                    ELSE http_buffer[i]]
          /\ buffer_len' =
               buffer_len + MinOf(data_len, HTTP_BUFFER_SIZE - buffer_len)
          /\ sent' = sent + data_len
  BY Zenon DEF OnData
<1>3. /\ http_pc = "transfer" /\ http_pc' = "transfer"
      /\ body' = body /\ body # <<>>
      /\ buffer_len = sent
      /\ \A i \in 1 .. sent : http_buffer[i - 1] = body[i]
  BY <1>1 DEF OnData, RefInv
<1>4. Len(body) \in 1 .. HTTP_BUFFER_SIZE /\ sent \in 0 .. Len(body)
  BY <1>1, <1>3, BodyFits DEF TypeOK
<1>5. MinOf(data_len, HTTP_BUFFER_SIZE - buffer_len) = data_len
  BY <1>3, <1>4 DEF MinOf
<1>6. buffer_len' = sent'
  BY <1>2, <1>3, <1>5
<1>7. DOMAIN http_buffer = 0 .. HTTP_BUFFER_SIZE
  BY <1>1 DEF BufInv
<1>8. sent' \in 0 .. Len(body) /\ data_len \in Nat
  BY <1>2, <1>4
<1>9. ASSUME NEW i \in 1 .. sent' PROVE http_buffer'[i - 1] = body'[i]
  <2>1. i - 1 \in DOMAIN http_buffer
    BY <1>4, <1>7, <1>8
  <2>2. http_buffer'[i - 1] =
          IF sent <= i - 1 /\ i - 1 < sent + data_len
            THEN body[sent + (i - 1) - sent + 1]
            ELSE http_buffer[i - 1]
    BY <1>2, <1>3, <1>5, <2>1
  <2>3. CASE i <= sent
    BY <1>3, <1>4, <2>2, <2>3
  <2>4. CASE i > sent
    BY <1>2, <1>3, <1>4, <1>8, <2>2, <2>4
  <2>5. QED
    BY <1>4, <1>8, <2>3, <2>4
<1>10. QED
  BY <1>3, <1>6, <1>9 DEF RefInv


LEMMA RefStep ==
    ASSUME RefHyp, DInv, [Next]_vars
    PROVE  RefInv'
<1>1. TypeOK /\ BufInv /\ RefInv
  BY DEF DInv, TInv
<1>2. CASE Perform
  <2>1. body' \in Bodies /\ <<>> \notin Bodies
    BY <1>2, BodiesAreSeqs, ArrayShape DEF Perform, Bodies
  <2>2. QED
    BY <1>1, <1>2, <2>1 DEF Perform, RefInv
<1>3. CASE ConnectFails
  <2>1. Settled' = Settled
    BY <1>3 DEF ConnectFails, Settled, StoreOf, Prefix
  <2>2. QED
    BY <1>1, <1>3, <2>1 DEF ConnectFails, RefInv
<1>4. CASE OnData
  BY <1>4, OnDataRef
<1>5. CASE OnFinish
  <2>1. body # <<>> /\ sent = Len(body) /\ Prefix(body)
    <3>1. body # <<>> /\ sent = Len(body) /\ buffer_len = sent
          /\ \A i \in 1 .. sent : http_buffer[i - 1] = body[i]
      BY <1>1, <1>5 DEF OnFinish, RefInv
    <3>2. Len(body) <= HTTP_BUFFER_SIZE
      BY <1>1, <3>1, BodyFits DEF TypeOK
    <3>3. QED
      BY <3>1, <3>2 DEF Prefix
  <2>2. QED
    BY <1>5, <2>1 DEF OnFinish, Prefix, RefInv
<1>6. CASE TransferError \/ TransferDropped
  BY <1>1, <1>6 DEF TransferError, TransferDropped, RefHyp, TypeOK
<1>7. CASE Parse
  <2>1. Settled'
    BY <1>7, ParseFacts
  <2>2. QED
    BY <1>1, <1>7, <2>1 DEF Parse, RefInv
<1>8. CASE UNCHANGED vars
  BY <1>1, <1>8 DEF vars, RefInv, Settled, StoreOf, Prefix
<1>9. QED
  BY <1>2, <1>3, <1>4, <1>5, <1>6, <1>7, <1>8 DEF Next


(* A step that keeps the store and has no answer at hand before or after *)
(* is a stuttering step of Downloader.                                    *)
LEMMA MapStutter ==
    ASSUME ~Answered, ~Answered', StoreOf' = StoreOf
    PROVE  UNCHANGED Abs!vars
BY DEF Abs!vars, StoreOf

LEMMA MapStep ==
    ASSUME RefHyp, DInv, [Next]_vars
    PROVE  [Abs!Next]_Abs!vars
<1>1. TypeOK /\ BufInv /\ RefInv
  BY DEF DInv, TInv
<1>2. <<>> \notin ArrayBodies
  BY ArrayShape
<1>3. CASE Perform \/ ConnectFails \/ OnData
  <2>1. ~Answered /\ ~Answered' /\ StoreOf' = StoreOf
    BY <1>2, <1>3 DEF Perform, ConnectFails, OnData, Answered, StoreOf
  <2>2. QED
    BY <2>1, MapStutter
<1>4. CASE OnFinish
  <2>1. ~Answered /\ StoreOf' = StoreOf
    BY <1>4 DEF OnFinish, Answered, StoreOf
  <2>2. CASE body \in ArrayBodies
    <3>1. Answered' /\ Inner(body) \in TagArrays
      BY <1>4, <2>2, ArrayShape DEF OnFinish, Answered
    <3>2. Abs!Receive
      BY <1>4, <2>1, <3>1 DEF Abs!Receive, Abs!Answers, TagArrays, Inner,
                              StoreOf, OnFinish
    <3>3. QED
      BY <3>2 DEF Abs!Next
  <2>3. CASE body \notin ArrayBodies
    <3>1. ~Answered'
      BY <1>4, <2>3 DEF OnFinish, Answered
    <3>2. QED
      BY <2>1, <3>1, MapStutter
  <2>4. QED
    BY <2>2, <2>3
<1>5. CASE TransferError \/ TransferDropped
  BY <1>1, <1>5 DEF TransferError, TransferDropped, RefHyp, TypeOK
<1>6. CASE Parse
  <2>1. ~Answered'
    BY <1>6 DEF Parse, Answered
  <2>2. CASE Answered
    <3>1. StoreOf' = Inner(body) /\ Inner(body) \in TagArrays
      BY <1>6, <2>2, ParseFacts, ArrayShape DEF Answered
    <3>2. Inner(body) # NoAnswer
      BY <3>1 DEF TagArrays
    <3>3. Abs!Install
      BY <2>1, <2>2, <3>1, <3>2 DEF Abs!Install, Inner, StoreOf
    <3>4. QED
      BY <3>3 DEF Abs!Next
  <2>3. CASE ~Answered
    BY <1>6, <2>1, <2>3, ParseFacts, MapStutter
  <2>4. QED
    BY <2>2, <2>3
<1>7. CASE UNCHANGED vars
  BY <1>7, MapStutter DEF vars, Abs!vars, Answered, StoreOf
<1>8. QED
  BY <1>3, <1>4, <1>5, <1>6, <1>7 DEF Next


(* When no transfer breaks off and http_buffer holds the longest answer, *)
(* the download path of http_client_task implements Downloader, for every *)
(* NUM_TAGS and buffer size: airtag_list/airtag_count only ever change to *)
(* the whole of an answer that arrived in full, and connection errors and *)
(* error pages leave them as they were (main.c:153-179, 249-276).          *)
THEOREM DownloaderRefinement ==
    ASSUME RefHyp
    PROVE  Spec => DownloaderRefined
<1>1. Init => DInv
  BY InitInv, RefInit DEF Init, DInv, TInv, IInv, TypeOK, Slots
<1>2. DInv /\ [Next]_vars => DInv'
  BY TypeStep, RefStep DEF DInv
<1>3. Init => Abs!Init
  BY DEF Init, Abs!Init, Answered
<1>4. DInv /\ [Next]_vars => [Abs!Next]_Abs!vars
  BY MapStep
<1>5. QED
  BY <1>1, <1>2, <1>3, <1>4, PTL DEF Spec, DownloaderRefined, Abs!Spec

=============================================================================
