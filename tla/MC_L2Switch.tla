---------------------------- MODULE MC_L2Switch ----------------------------
(***************************************************************************)
(* Three switches in a line, A - B - C, with host h1 on A.1 and h2 on C.2: *)
(* A.2 is linked to B.1 and B.2 to C.1, so a flow from h1 to h2 takes two  *)
(* hops and B is a transit switch.                                         *)
(***************************************************************************)
EXTENDS L2Switch

CONSTANTS A, B, C, h1, h2

MC_HostAt == [m \in {h1, h2} |-> IF m = h1 THEN <<A, 1>> ELSE <<C, 2>>]
MC_Trunks == {{<<A, 2>>, <<B, 1>>}, {<<B, 2>>, <<C, 1>>}}

\* h2 announces itself by a broadcast; h1 talks to h2 and h2 answers.
MC_Traffic == {<<h2, Broadcast>>, <<h1, h2>>, <<h2, h1>>}
MC_Traffic1 == {<<h2, Broadcast>>, <<h1, h2>>}

\* Two switches, A.2 linked to B.1, h1 on A.1 and h2 on B.2.
MC_HostAt2 == [m \in {h1, h2} |-> IF m = h1 THEN <<A, 1>> ELSE <<B, 2>>]
MC_Trunks2 == {{<<A, 2>>, <<B, 1>>}}
=============================================================================
