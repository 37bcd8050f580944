-------------------------------- MODULE MC_Wifi --------------------------------
(***************************************************************************)
(* Model checking of Wifi: a few retries are enough for a retried attempt *)
(* that succeeds, and for the retries to run out.                         *)
(***************************************************************************)
EXTENDS Wifi, TLC

=============================================================================
