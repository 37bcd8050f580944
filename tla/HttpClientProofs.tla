--------------------------- MODULE HttpClientProofs ---------------------------
(***************************************************************************)
(* Proofs about the download path, for every buffer size, every NUM_TAGS *)
(* and every set of records: http_event_handler's copies never reach the *)
(* terminating byte of http_buffer, and the store json_read_array leaves *)
(* is well typed.  Also the lemmas on what StrLen and Leading compute     *)
(* that the refinement proof (DownloaderProofs) uses.                     *)
(***************************************************************************)
EXTENDS HttpClient, SequenceTheorems, WellFoundedInduction, TLAPS

USE HttpAssumption

(* What the copies rely on: the buffer keeps its HTTP_BUFFER_SIZE + 1     *)
(* bytes, the offset stays within it, and the answer is a sequence of     *)
(* tokens of which "sent" have been handed over.                          *)
BufInv ==
    /\ DOMAIN http_buffer = 0 .. HTTP_BUFFER_SIZE
    /\ buffer_len \in 0 .. HTTP_BUFFER_SIZE
    /\ http_buffer[HTTP_BUFFER_SIZE] = NUL
    /\ body \in Seq(Tokens)
    /\ sent \in 0 .. Len(body)

IInv == BufInv

(* Every answer the server may send is a sequence of tokens.              *)
LEMMA BodiesAreSeqs == Bodies \subseteq Seq(Tokens)
<1> SUFFICES ASSUME NEW b \in Bodies PROVE b \in Seq(Tokens)
  OBVIOUS
<1>1. CASE b = <<Junk>>
  BY <1>1 DEF Tokens
<1>2. CASE b \in ArrayBodies
  <2>1. PICK a \in TagArrays : b = <<Open>> \o a \o <<Close>>
    BY <1>2 DEF ArrayBodies
  <2>2. PICK n \in 0 .. NUM_TAGS : a \in [1 .. n -> Records]
    BY DEF TagArrays
  <2>3. a \in Seq(Tokens)
    BY <2>2 DEF Tokens
  <2>4. <<Open>> \in Seq(Tokens) /\ <<Close>> \in Seq(Tokens)
    BY DEF Tokens
  <2>5. QED
    BY <2>1, <2>3, <2>4, ConcatProperties
<1>3. QED
  BY <1>1, <1>2 DEF Bodies

-----------------------------------------------------------------------------
(* Every non-empty set of naturals has a least element (from the          *)
(* well-foundedness of < on Nat).                                          *)
LEMMA NatMin ==
    ASSUME NEW T \in SUBSET Nat, T # {}
    PROVE  \E m \in T : \A k \in T : m <= k
<1>1. OpToRel(<, Nat) = {ss \in Nat \X Nat : ss[1] < ss[2]}
  BY Zenon DEF OpToRel
<1>2. PICK m \in T : \A y \in T : ~(<<y, m>> \in OpToRel(<, Nat))
  BY NatLessThanWellFounded, WFMin
<1>3. \A y \in T : ~(<<y, m>> \in {ss \in Nat \X Nat : ss[1] < ss[2]})
  BY <1>1, <1>2, Zenon
<1>4. ASSUME NEW y \in T PROVE m <= y
  <2>1. <<y, m>> \in Nat \X Nat /\ <<y, m>>[1] = y /\ <<y, m>>[2] = m
    OBVIOUS
  <2>2. ~(y < m)
    BY <1>3, <2>1, Zenon
  <2>3. QED
    BY <2>2
<1>5. QED
  BY <1>4

(* The C string json_read_array reads ends at the first NUL of the        *)
(* buffer, which exists as long as the terminating byte is NUL.            *)
LEMMA StrLenSpec ==
    ASSUME DOMAIN http_buffer = 0 .. HTTP_BUFFER_SIZE,
           http_buffer[HTTP_BUFFER_SIZE] = NUL
    PROVE  /\ StrLen \in 0 .. HTTP_BUFFER_SIZE
           /\ \A i \in 0 .. StrLen - 1 : http_buffer[i] # NUL
           /\ http_buffer[StrLen] = NUL
<1> DEFINE Ok(n) == /\ \A i \in 0 .. n - 1 : http_buffer[i] # NUL
                    /\ n <= HTTP_BUFFER_SIZE => http_buffer[n] = NUL
<1>1. \E n \in 0 .. HTTP_BUFFER_SIZE + 1 : Ok(n)
  <2> DEFINE T == {i \in 0 .. HTTP_BUFFER_SIZE : http_buffer[i] = NUL}
  <2>1. T \in SUBSET Nat /\ T # {}
    OBVIOUS
  <2>2. PICK m \in T : \A k \in T : m <= k
    BY <2>1, NatMin
  <2>3. Ok(m)
    BY <2>2
  <2>4. QED
    BY <2>3
<1>2. Ok(StrLen) /\ StrLen \in 0 .. HTTP_BUFFER_SIZE + 1
  BY <1>1 DEF StrLen
<1>3. StrLen # HTTP_BUFFER_SIZE + 1
  BY <1>2
<1>4. QED
  BY <1>2, <1>3

(* Leading(s) is the number of records after the "[", cut at maxlen:      *)
(* the records run up to it, and what follows is not a record unless     *)
(* maxlen was reached.                                                     *)
LEMMA LeadingSpec ==
    ASSUME NEW s \in Seq(Tokens), Len(s) >= 1
    PROVE  /\ Leading(s) \in 0 .. MinOf(Len(s) - 1, NUM_TAGS)
           /\ \A j \in 2 .. Leading(s) + 1 : s[j] \in Records
           /\ Leading(s) = MinOf(Len(s) - 1, NUM_TAGS)
              \/ s[Leading(s) + 2] \notin Records
<1> DEFINE m == MinOf(Len(s) - 1, NUM_TAGS)
           Ok(k) == /\ \A j \in 2 .. k + 1 : s[j] \in Records
                    /\ k = m \/ s[k + 2] \notin Records
<1>1. m \in Nat
  BY DEF MinOf
<1>2. \E k \in 0 .. m : Ok(k)
  <2> DEFINE T == {j \in 0 .. m - 1 : s[j + 2] \notin Records} \cup {m}
  <2>1. T \in SUBSET Nat /\ T # {}
    BY <1>1
  <2>2. PICK k \in T : \A i \in T : k <= i
    BY <2>1, NatMin
  <2>3. k \in 0 .. m
    BY <1>1, <2>2
  <2>4. ASSUME NEW j \in 2 .. k + 1 PROVE s[j] \in Records
    <3>1. j - 2 \in 0 .. m - 1 /\ ~(k <= j - 2)
      BY <1>1, <2>3
    <3>2. QED
      BY <2>2, <3>1
  <2>5. k = m \/ s[k + 2] \notin Records
    BY <2>2
  <2>6. QED
    BY <2>3, <2>4, <2>5
<1>3. Ok(Leading(s)) /\ Leading(s) \in 0 .. m
  BY <1>2 DEF Leading
<1>4. QED
  BY <1>3

LEMMA InitInv == Init => IInv
BY DEF Init, IInv, BufInv

(* One ON_DATA copy: it ends at or before HTTP_BUFFER_SIZE.               *)
LEMMA CopyInBounds ==
    ASSUME NEW len \in 0 .. HTTP_BUFFER_SIZE, NEW d \in Nat \ {0},
           NEW c, c = MinOf(d, HTTP_BUFFER_SIZE - len)
    PROVE  /\ c \in 0 .. HTTP_BUFFER_SIZE - len
           /\ len + c \in 0 .. HTTP_BUFFER_SIZE
           /\ ~(len <= HTTP_BUFFER_SIZE /\ HTTP_BUFFER_SIZE < len + c)
BY DEF MinOf

LEMMA StepInv == IInv /\ [Next]_vars => IInv'
<1> SUFFICES ASSUME IInv, [Next]_vars PROVE IInv'
  OBVIOUS
<1> USE DEF IInv, BufInv
<1>1. CASE Perform
  BY <1>1, BodiesAreSeqs DEF Perform
<1>2. CASE ConnectFails
  BY <1>2, EmptySeq DEF ConnectFails
<1>3. CASE OnData
  <2>1. PICK data_len \in 1 .. Len(body) - sent :
          /\ http_buffer' =
               [i \in DOMAIN http_buffer |->
                  IF buffer_len <= i
                     /\ i < buffer_len
                            + MinOf(data_len, HTTP_BUFFER_SIZE - buffer_len)
                    THEN body[sent + i - buffer_len + 1]
                    ELSE http_buffer[i]]
          /\ buffer_len' =
               buffer_len + MinOf(data_len, HTTP_BUFFER_SIZE - buffer_len)
          /\ sent' = sent + data_len
    BY <1>3, Zenon DEF OnData
  <2> DEFINE c == MinOf(data_len, HTTP_BUFFER_SIZE - buffer_len)
  <2>2. /\ c \in 0 .. HTTP_BUFFER_SIZE - buffer_len
        /\ buffer_len + c \in 0 .. HTTP_BUFFER_SIZE
        /\ ~(buffer_len <= HTTP_BUFFER_SIZE /\ HTTP_BUFFER_SIZE < buffer_len + c)
    <3>1. data_len \in Nat \ {0}
      OBVIOUS
    <3>2. QED
      BY <3>1, CopyInBounds
  <2>3. DOMAIN http_buffer' = 0 .. HTTP_BUFFER_SIZE
    BY <2>1
  <2>4. http_buffer'[HTTP_BUFFER_SIZE] = NUL
    BY <2>1, <2>2
  <2>5. buffer_len' \in 0 .. HTTP_BUFFER_SIZE
    BY <2>1, <2>2
  <2>6. sent' \in 0 .. Len(body') /\ body' \in Seq(Tokens)
    BY <1>3, <2>1 DEF OnData
  <2>7. QED
    BY <2>3, <2>4, <2>5, <2>6
<1>4. CASE OnFinish
  BY <1>4 DEF OnFinish
<1>5. CASE TransferError
  BY <1>5 DEF TransferError
<1>6. CASE TransferDropped
  BY <1>6 DEF TransferDropped
<1>7. CASE Parse
  BY <1>7 DEF Parse
<1>8. CASE UNCHANGED vars
  BY <1>8 DEF vars
<1>9. QED
  BY <1>1, <1>2, <1>3, <1>4, <1>5, <1>6, <1>7, <1>8 DEF Next

(* However the server's answers are chunked, cut off or too long, the     *)
(* copies of http_event_handler (main.c:161-165) stay inside http_buffer *)
(* and its terminating byte stays NUL, for every HTTP_BUFFER_SIZE.        *)
THEOREM TerminatedHolds == Spec => []Terminated
<1>1. Init => IInv
  BY InitInv
<1>2. IInv /\ [Next]_vars => IInv'
  BY StepInv
<1>3. IInv => Terminated
  BY DEF IInv, BufInv, Terminated
<1>4. QED
  BY <1>1, <1>2, <1>3, PTL DEF Spec

-----------------------------------------------------------------------------
(* The type invariant needs the buffer facts: the parse reads the buffer *)
(* up to its first NUL, which BufInv guarantees.                          *)
TInv == TypeOK /\ BufInv

(* The C string is a sequence of tokens.                                   *)
LEMMA CStringType ==
    ASSUME TypeOK, BufInv
    PROVE  CString \in Seq(Tokens)
<1>1. /\ StrLen \in 0 .. HTTP_BUFFER_SIZE
      /\ \A i \in 0 .. StrLen - 1 : http_buffer[i] # NUL
  BY StrLenSpec DEF BufInv
<1>2. \A i \in 1 .. StrLen : http_buffer[i - 1] \in Tokens
  BY <1>1 DEF TypeOK
<1>3. QED
  BY <1>1, <1>2 DEF CString

(* What json_read_array leaves in airtag_list and airtag_count is well  *)
(* typed, whatever the buffer holds.                                       *)
LEMMA ParseType ==
    ASSUME TypeOK, BufInv, NEW r, r = JsonReadArray(CString)
    PROVE  /\ r.list \in [Slots -> Records \cup {Zeroed}]
           /\ r.count \in 0 .. NUM_TAGS
<1> DEFINE s == CString
<1>1. s \in Seq(Tokens)
  BY CStringType
<1>2. CASE Len(s) = 0 \/ s[1] # Open
  BY <1>2 DEF JsonReadArray, TypeOK
<1>3. CASE ~(Len(s) = 0 \/ s[1] # Open)
  <2> DEFINE k == Leading(s)
  <2>1. /\ k \in 0 .. MinOf(Len(s) - 1, NUM_TAGS)
        /\ \A j \in 2 .. k + 1 : s[j] \in Records
    BY <1>1, <1>3, LeadingSpec
  <2>2. k \in 0 .. NUM_TAGS
    BY <2>1 DEF MinOf
  <2>3. r = [list  |-> [i \in Slots |->
                         IF i < k THEN s[i + 2] ELSE airtag_list[i]],
             count |-> IF k + 2 <= Len(s) /\ s[k + 2] = Close
                         THEN k ELSE airtag_count]
    BY <1>3 DEF JsonReadArray
  <2>4. ASSUME NEW i \in Slots
        PROVE  (IF i < k THEN s[i + 2] ELSE airtag_list[i])
                 \in Records \cup {Zeroed}
    <3>1. CASE i < k
      <4>1. i + 2 \in 2 .. k + 1
        BY <3>1, <2>2 DEF Slots
      <4>2. QED
        BY <3>1, <4>1, <2>1
    <3>2. CASE ~(i < k)
      BY <3>2 DEF TypeOK
    <3>3. QED
      BY <3>1, <3>2
  <2>5. QED
    BY <2>2, <2>3, <2>4 DEF TypeOK
<1>4. QED
  BY <1>2, <1>3

LEMMA OnDataType ==
    ASSUME TypeOK, BufInv, OnData
    PROVE  TypeOK'
<1>1. PICK data_len \in 1 .. Len(body) - sent :
          /\ http_buffer' =
               [i \in DOMAIN http_buffer |->
                  IF buffer_len <= i
                     /\ i < buffer_len
                            + MinOf(data_len, HTTP_BUFFER_SIZE - buffer_len)
                    THEN body[sent + i - buffer_len + 1]
                    ELSE http_buffer[i]]
          /\ buffer_len' =
               buffer_len + MinOf(data_len, HTTP_BUFFER_SIZE - buffer_len)
          /\ sent' = sent + data_len
  BY Zenon DEF OnData
<1> DEFINE c == MinOf(data_len, HTTP_BUFFER_SIZE - buffer_len)
<1>2. data_len \in Nat \ {0} /\ body \in Seq(Tokens) /\ sent \in 0 .. Len(body)
  BY DEF BufInv
<1>3. c \in 0 .. data_len
  BY <1>2 DEF MinOf, BufInv
<1>4. ASSUME NEW i \in 0 .. HTTP_BUFFER_SIZE
      PROVE  http_buffer'[i] \in Tokens \cup {NUL}
  <2>1. CASE buffer_len <= i /\ i < buffer_len + c
    <3>1. sent + i - buffer_len + 1 \in 1 .. Len(body)
      BY <1>2, <1>3, <2>1 DEF BufInv
    <3>2. QED
      BY <1>1, <1>2, <2>1, <3>1 DEF BufInv
  <2>2. CASE ~(buffer_len <= i /\ i < buffer_len + c)
    BY <1>1, <2>2 DEF BufInv, TypeOK
  <2>3. QED
    BY <2>1, <2>2
<1>5. DOMAIN http_buffer' = 0 .. HTTP_BUFFER_SIZE
  BY <1>1 DEF BufInv
<1>6. buffer_len' \in Nat /\ sent' \in 0 .. Len(body)
  BY <1>1, <1>2, <1>3 DEF BufInv
<1>7. QED
  BY <1>4, <1>5, <1>6, <1>1 DEF OnData, TypeOK

LEMMA TypeStep == TInv /\ [Next]_vars => TInv'
<1> SUFFICES ASSUME TypeOK, BufInv, [Next]_vars PROVE TypeOK' /\ BufInv'
  BY DEF TInv
<1>1. BufInv'
  BY StepInv DEF IInv
<1>2. TypeOK'
  <2>1. CASE Perform
    BY <2>1 DEF Perform, TypeOK
  <2>2. CASE ConnectFails
    BY <2>2 DEF ConnectFails, TypeOK
  <2>3. CASE OnData
    BY <2>3, OnDataType
  <2>4. CASE OnFinish
    BY <2>4 DEF OnFinish, TypeOK
  <2>5. CASE TransferError \/ TransferDropped
    BY <2>5 DEF TransferError, TransferDropped, TypeOK
  <2>6. CASE Parse
    <3> DEFINE r == JsonReadArray(CString)
    <3>1. r.list \in [Slots -> Records \cup {Zeroed}] /\ r.count \in 0 .. NUM_TAGS
      BY ParseType
    <3>2. QED
      BY <2>6, <3>1 DEF Parse, TypeOK
  <2>7. CASE UNCHANGED vars
    BY <2>7 DEF vars, TypeOK
  <2>8. QED
    BY <2>1, <2>2, <2>3, <2>4, <2>5, <2>6, <2>7 DEF Next
<1>3. QED
  BY <1>1, <1>2

(* Whatever the server answers, however it is chunked or broken off,     *)
(* http_buffer holds tokens and the zero byte, buffer_len is a size, and *)
(* json_read_array (main.c:262) only ever leaves records or the zeroed   *)
(* struct in airtag_list and a count within 0 .. NUM_TAGS.                *)
THEOREM TypeCorrect == Spec => []TypeOK
<1>1. Init => TInv
  BY InitInv DEF Init, TInv, IInv, TypeOK, Slots
<1>2. TInv /\ [Next]_vars => TInv'
  BY TypeStep
<1>3. TInv => TypeOK
  BY DEF TInv
<1>4. QED
  BY <1>1, <1>2, <1>3, PTL DEF Spec

=============================================================================
