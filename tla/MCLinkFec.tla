----------------------------- MODULE MCLinkFec -----------------------------
(* Generations of K frames, plans within and beyond what the codec can carry. *)
EXTENDS LinkFec

CONSTANTS tx1, tx2

MCOne     == {tx1}
MCTwo     == {tx1, tx2}
MCPlans   == {0, 1, 3}
MCParity  == {1}
MCEqual   == [q \in 1 .. MaxFrames |-> 1]
MCUnequal == [q \in 1 .. MaxFrames |-> q % 2]
===========================================================================
