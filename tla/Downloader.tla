------------------------------ MODULE Downloader ------------------------------
(***************************************************************************)
(* What the tag store is promised by the downloader (spec sections 3 and  *)
(* 7): it is overwritten wholesale by an answer of the signalling server  *)
(* that arrived in full, and a network or parse error leaves it as it     *)
(* was.  "answer" is an answer received in full and not yet stored.       *)
(***************************************************************************)
EXTENDS Naturals, Sequences

CONSTANTS NUM_TAGS, Records, NoAnswer

VARIABLES store, answer

Answers == UNION {[1 .. n -> Records] : n \in 0 .. NUM_TAGS}

Init ==
    /\ store = <<>>
    /\ answer = NoAnswer

(* A poll brings a complete JSON array of at most NUM_TAGS records.       *)
Receive ==
    /\ answer = NoAnswer
    /\ answer' \in Answers
    /\ UNCHANGED store

(* The store is replaced by the answer as a whole.                         *)
Install ==
    /\ answer # NoAnswer
    /\ store' = answer
    /\ answer' = NoAnswer

vars == <<store, answer>>

Next == Receive \/ Install

(* Failed polls change nothing: they are stuttering steps.                *)
Spec == Init /\ [][Next]_vars

=============================================================================
