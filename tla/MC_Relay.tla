------------------------------- MODULE MC_Relay -------------------------------
(***************************************************************************)
(* Model-checking harness for Relay.  The .cfg files name the instance:   *)
(* NUM_TAGS, the records (model values) and which of them the codec       *)
(* rejects or decodes short, and the bound on radio failures.             *)
(***************************************************************************)
EXTENDS Relay, TLC

=============================================================================
