----------------------------- MODULE RecentOnce -----------------------------
(* What receivers that remember the last Window things they have delivered    *)
(* promise: each delivers only what was sent, and a thing again only after    *)
(* Window others.  Loss, duplication, reordering and the several paths a      *)
(* thing may take are behind `sent`.                                          *)
EXTENDS Naturals, Sequences

CONSTANTS Node, Thing, Window

VARIABLES sent, got

Recent(n) == {got[n][i] : i \in {j \in DOMAIN got[n] : j + Window > Len(got[n])}}

Init          == sent = {} /\ got = [n \in Node |-> <<>>]
Send          == \E S \in SUBSET Thing : sent' = sent \cup S /\ UNCHANGED got
Deliver(n, x) == x \in sent \ Recent(n) /\ got' = [got EXCEPT ![n] = Append(@, x)] /\ UNCHANGED sent
Next          == Send \/ \E n \in Node, x \in sent : Deliver(n, x)
Spec          == Init /\ [][Next]_<<sent, got>>
============================================================================
