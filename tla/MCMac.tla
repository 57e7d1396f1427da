------------------------------- MODULE MCMac -------------------------------
(* What the radio's MAC computes, one part to a behaviour, for they share no   *)
(* state: sender IDs, relaying, admission, rendezvous; the slot map, the names *)
(* it is cut for and the clock it is read by.                                  *)
EXTENDS EphemeralIds, CoopRelay, DosGate, Rendezvous, SlotScheduleWalk, SchedMap

CONSTANTS Parts, na, nb, nc, np

VARIABLE part

(* na and nb do not hear each other; nc hears both, na louder than nb. *)
MCIdNode == {na, nb, nc}
MCHears  == [n \in MCIdNode |-> IF n = nc THEN {na, nb} ELSE {nc}]
MCRssi   == [n \in MCIdNode |-> [m \in MCIdNode |-> IF n = na THEN 1 ELSE IF n = nb THEN 2 ELSE 3]]
Plain    == [s \in 1 .. Slices |-> 0]
Other    == [s \in 1 .. Slices |-> s]
MCMaps   == {Plain, Other}
MCIds    == {[n \in MCIdNode |-> IF n = nc THEN 1 ELSE 0]}
MCFolds  == {[n \in MCIdNode |-> IF n = nb THEN Other ELSE Plain]}

(* Consumer nc, producer np, relays na and nb: in a line, or side by side. *)
MCMesh   == {na, nb, nc, np}
InLine   == [n \in MCMesh |-> CASE n = nc -> {na} [] n = na -> {nc, nb} [] n = nb -> {na, np} [] n = np -> {nb}]
Abreast  == [n \in MCMesh |-> CASE n = na -> {nc, nb, np} [] n = nb -> {nc, na, np} [] OTHER -> {na, nb}]
MCTopologies == {InLine, Abreast}
MCJitter == [n \in MCMesh |-> CASE n = na -> 1 [] n = nb -> 2 [] OTHER -> 3]
MCScope  == [n \in MCMesh |-> IF n \in {na, nb} THEN {"x"} ELSE {}]

(* Senders 1 and 2 share a bucket; group 3 is not served. *)
MCSrcSlot == <<1, 1, 2>>
MCGrpSlot == <<1, 2, 2>>

MCChannels == <<1, 6>>

(* Small slot maps: every stride against every superframe of up to six slots. *)
MCSlotSizes  == {0, 1, 3}
MCSlotCounts == 0 .. 6
MCStrides    == 0 .. 4
MCHashes     == 0 .. 7
MCLeaseMaxes == {0, 1, 2, 4}
MCManySlots  == 2 .. 6

MCRegistrable == {<<1>>, <<1, 1>>, <<1, 2>>, <<1, 1, 1>>, <<>>}
MCGranted     == {<<1>>, <<1, 1>>}

\* Node 1 is the master; the others are in reach of both peers.
MCReads   == [n \in ClkNode |-> IF n = ClkMaster THEN {} ELSE {5, 7}]
MCStart   == [n \in ClkNode |-> -n]
MCCounter == [k \in ClkNode \cup ClkPeer |-> 3 * k]

Init ==
  /\ part \in Parts
  /\ IdsInit /\ DosInit
  /\ RelayInit /\ (part # "relay" => hears = InLine)
  /\ RendezvousInit /\ (part # "rendezvous" => draw = [e \in 0 .. Epochs + 1 |-> 0])
  /\ SchedMapInit /\ SchedClockInit
  /\ WalkInit /\ (part # "walk" => sched = New(1, 1) /\ hash = 0 /\ class = Bulk /\ leaseMax = 1)

macVars == <<idsVars, relayVars, dosVars, rendezvousVars>>
mapVars == <<walkVars, schedMapVars, clockVars>>

Next ==
  /\ UNCHANGED part
  /\ \/ part = "ids" /\ IdsNext /\ UNCHANGED <<relayVars, dosVars, rendezvousVars, mapVars>>
     \/ part = "relay" /\ RelayNext /\ UNCHANGED <<idsVars, dosVars, rendezvousVars, mapVars>>
     \/ part = "dos" /\ DosNext /\ UNCHANGED <<idsVars, relayVars, rendezvousVars, mapVars>>
     \/ part = "rendezvous" /\ RendezvousNext /\ UNCHANGED <<idsVars, relayVars, dosVars, mapVars>>
     \/ part = "walk" /\ WalkTick /\ UNCHANGED <<schedMapVars, clockVars, macVars>>
     \/ part = "map" /\ SchedMapNext /\ UNCHANGED <<walkVars, clockVars, macVars>>
     \/ part = "clock" /\ SchedClockNext /\ UNCHANGED <<walkVars, schedMapVars, macVars>>

vars == <<part, macVars, mapVars>>
Spec == Init /\ [][Next]_vars

\* RelayFairness, in the behaviours that relay.
FairSpec ==
  /\ Spec
  /\ WF_relayVars(part = "relay" /\ RelayTick)
  /\ \A n \in Mesh :
       /\ WF_relayVars(part = "relay" /\ purge(n))
       /\ \A x \in Names : WF_relayVars(part = "relay" /\ Fire(n, x))
  /\ \A x \in Names : WF_relayVars(part = "relay" /\ Express(x)) /\ WF_relayVars(part = "relay" /\ Answer(x))

\* CoopRelay's liveness, in the behaviours that run it: a consumer that keeps
\* asking is served, frames lost and breadcrumbs forgotten notwithstanding.
AskedIsServed == part = "relay" => DemandIsServed

\* What a mesh of relays promises, whatever is lost or forgotten: a packet is
\* relayed once each way, and a consumer that keeps asking is served.
RelayServes == [](RelayTypeOK /\ OnceEachWay) /\ AskedIsServed

============================================================================
