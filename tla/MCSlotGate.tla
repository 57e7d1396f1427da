----------------------------- MODULE MCSlotGate -----------------------------
(***************************************************************************)
(* One or two gate calls on one scheduler, over superframes of three or    *)
(* four slots of four or five ticks.  Name-groups: a and b are bulk groups *)
(* that share a slot, c is a bulk group of another slot, l a latency group.*)
(***************************************************************************)
EXTENDS SlotGate, TLC

CONSTANTS n1, s1, s2, ga, gb, gc, gl

MCOneNode   == {n1}
MCOneCall   == {s1}
MCTwoCalls  == {s1, s2}
MCNodeOf    == [s \in Sender |-> n1]
MCName      == {ga, gb, gc, gl}

MCClass     == ga :> Bulk @@ gb :> Bulk @@ gc :> Bulk @@ gl :> Latency
MCAirtime   == [m \in Name |-> IF m = gl THEN 1 ELSE 2]
MCLonger    == [m \in Name |-> IF m = gl THEN 1 ELSE 3]
MCRawHash   == ga :> 1 @@ gb :> 4 @@ gc :> 2 @@ gl :> 3

(* Three slots, no lane: a and b own slot 1, c slot 2, l slot 0. *)
MCPlain     == New(4, 3)
(* Four slots of five ticks, lanes 0 and 2: open slots 1 and 3. *)
MCLanes     == WithReservedStride(New(4, 4), 2)
(* Five slots, lanes 0 and 3: a lease may span slots 1 and 2. *)
MCWideLanes == WithReservedStride(New(5, 5), 3)
(* With lanes: a and b own the first open slot, c the last, l a lane. *)
MCLaneHash  == ga :> 2 @@ gb :> 6 @@ gc :> 3 @@ gl :> 4

OnEveryChannel(hash) == [m \in Name |-> [ch \in Channels |-> hash[m] + ch]]
MCKeyed     == OnEveryChannel(MCRawHash)
MCKeyedLane == OnEveryChannel(MCLaneHash)

MCSends     == [s \in Sender |-> IF s = s1 THEN {ga, gl} ELSE {gc}]
MCSendsL    == [s \in Sender |-> {gl}]
MCSendsA    == [s \in Sender |-> {ga}]
MCHears     == {gb, gl}
MCHearsB    == {gb}
MCNoHop     == << >>
MCHop       == <<0, 1>>
MCNoSkew    == [n \in Node |-> 0]
=============================================================================
