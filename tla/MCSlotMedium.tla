---------------------------- MODULE MCSlotMedium ----------------------------
(***************************************************************************)
(* The gate and the medium behind it, over superframes of four slots of    *)
(* four ticks, lanes 0 and 2.  The bulk groups a and b share the first     *)
(* open slot, c owns the other, and l, a latency group, owns lane 0.       *)
(*                                                                         *)
(* A behaviour is of one of three parts:                                   *)
(*   calls    the two calls of n1 share its scheduler, anything is heard   *)
(*   owners   n1 and n2, with a call each, on one channel                  *)
(*   control  one call of n1, and control frames behind the hold it takes  *)
(***************************************************************************)
EXTENDS SlotMedium, TLC

CONSTANTS n1, n2, s1, s2, s3, ga, gb, gc, gl

MCNodes     == {n1, n2}
MCCalls     == {s1, s2, s3}
MCNodeOf    == s1 :> n1 @@ s2 :> n1 @@ s3 :> n2
MCName      == {ga, gb, gc, gl}
MCClass     == ga :> Bulk @@ gb :> Bulk @@ gc :> Bulk @@ gl :> Latency
MCAirtime   == [m \in Name |-> IF m = gl THEN 1 ELSE 2]
MCRawHash   == ga :> 2 @@ gb :> 6 @@ gc :> 3 @@ gl :> 4
MCKeyed     == [m \in Name |-> [ch \in Channels |-> MCRawHash[m] + ch]]
MCLanes     == WithReservedStride(New(4, 4), 2)
MCSends     == s1 :> {ga, gl} @@ s2 :> {gc} @@ s3 :> {gb, gc}
MCNonceOf   == n1 :> 1 @@ n2 :> 2
MCNoHop     == << >>
MCNoSkew    == [n \in Node |-> 0]

VARIABLE part
mcVars == <<allVars, part>>

MCInit == MediumInit /\ part \in {"calls", "owners", "control"}

(* The gate alone: the rest of the channel is what n1 overhears. *)
CallsNext ==
  /\ part = "calls"
  /\ \/ CallStep(s1) \/ CallStep(s2)
     \/ \E m \in {gb, gl} : ObserveRx(n1, m, 0)
     \/ \E k \in SlotsOf(Sched) : Forget(n1, k)
     \/ Tick
     \/ Horizon
  /\ UNCHANGED mediumVars

OnTheAir ==
  \/ \E n \in Node : Radiate(n) \/ Land(n)
  \/ \E p, n \in Node, m \in Audible : Hear(p, n, m)
  \/ MediumTick
  \/ MediumEnds

OwnersNext ==
  /\ part = "owners"
  /\ OnTheAir \/ \E s \in {s1, s3} : GateStep(s) \/ Enqueue(s)

ControlNext ==
  /\ part = "control"
  /\ OnTheAir \/ GateStep(s1) \/ Enqueue(s1) \/ \E m \in Control : SendRobust(n1, m)

MCNext == (CallsNext \/ OwnersNext \/ ControlNext) /\ UNCHANGED part

MCSpec == MCInit /\ [][MCNext]_mcVars
=============================================================================
