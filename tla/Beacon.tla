-------------------------------- MODULE Beacon --------------------------------
(***************************************************************************)
(* What the advertisement cycler promises the air (spec sections 4.4 and  *)
(* 7): the radio is either silent or broadcasts the address and the       *)
(* payload of one and the same tag whose record decodes; a tag's beacon   *)
(* is stopped before the next one is started, so two tags never share or *)
(* hand over a beacon.  None stands for a silent radio.                   *)
(***************************************************************************)
CONSTANTS Records, Malformed, None

VARIABLES air_addr, air_data

vars == <<air_addr, air_data>>

Init == air_addr = None /\ air_data = None

(* Start advertising one decodable tag from silence.                      *)
GoOnAir ==
    /\ air_addr = None /\ air_data = None
    /\ \E r \in Records \ Malformed : air_addr' = r /\ air_data' = r

(* Stop advertising.                                                       *)
GoOff ==
    /\ air_addr # None
    /\ air_addr' = None /\ air_data' = None

Next == GoOnAir \/ GoOff

Spec == Init /\ [][Next]_vars

=============================================================================
