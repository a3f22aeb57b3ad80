------------------------- MODULE MC_DeviceManager --------------------------
(***************************************************************************)
(* Three connections: c1 and c2 are two sessions of switch 1 (it           *)
(* reconnects), c3 is switch 0, whose DPID is also r.DPID's zero value.    *)
(* Two ports, so that a FEATURES_REPLY can fail part way through its       *)
(* PORT_MODs; HELLO versions 0 (refused), 1 and 4; one caller goroutine.   *)
(***************************************************************************)
EXTENDS DeviceManager

CONSTANTS c1, c2, c3, k1

MC_SwitchOf == [c \in {c1, c2, c3} |-> IF c = c3 THEN 0 ELSE 1]

\* Every connection is switch 1: it reconnects twice, no switch has DPID 0.
MC_SwitchOfOne == [c \in {c1, c2, c3} |-> 1]
=============================================================================
