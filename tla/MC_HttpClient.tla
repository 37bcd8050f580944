---------------------------- MODULE MC_HttpClient ----------------------------
(***************************************************************************)
(* Model checking of HttpClient: two tag slots, two records, a buffer     *)
(* that holds the longest answer ("[", two records, "]") or one token     *)
(* less, and one broken-off transfer.                                      *)
(***************************************************************************)
EXTENDS HttpClient, TLC

=============================================================================
