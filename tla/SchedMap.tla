------------------------------ MODULE SchedMap ------------------------------
(* Which slot group and class a name has at a node (sched.rs: GroupTable,     *)
(* SchedParams), and the digest by which nodes notice that their maps differ. *)
(* A name is a sequence of components; the hash of a prefix is the prefix,    *)
(* and a digest is what it digests.                                           *)
EXTENDS Integers, Sequences, FiniteSets, Arith

CONSTANTS
  SmNode, SmComponent,
  SmDepth,        \* DEFAULT_SLOT_DEPTH
  SmRegistrable,  \* prefixes applications may register
  SmGranted,      \* prefixes whose ceiling the authority puts at Urgent
  SmClocks,       \* ClockSource
  SmWidths,       \* slot widths, 0 for no slot schedule
  SmMaxReg,       \* bound on the registrations of a node
  SmMaxStarts     \* and on the starts explored

ASSUME SchedMapAssumption ==
  SmDepth \in Nat \ {0} /\ SmRegistrable \subseteq Seq(SmComponent) /\ SmGranted \subseteq SmRegistrable

VARIABLES
  smTable,    \* smTable[n]: entries [prefix, class] of the table in use
  smParams,   \* smParams[n]: SchedParams
  smStarts    \* starts so far

schedMapVars == <<smTable, smParams, smStarts>>

SmNames == UNION {[1 .. k -> SmComponent] : k \in 1 .. SmDepth + 1}

slot_trunc(x) == SubSeq(x, 1, IF Len(x) < SmDepth THEN Len(x) ELSE SmDepth)
depth_exact(e) == Len(e.prefix) >= SmDepth
SmCovers(e, x) == Len(e.prefix) <= Len(x) /\ SubSeq(x, 1, Len(e.prefix)) = e.prefix

\* new_with_depth: truncated, empty prefixes and duplicates left out, all Bulk;
\* then the latency marks, whose prefixes are truncated likewise.
new_with_depth(P) == {[prefix |-> slot_trunc(x), class |-> "bulk"] : x \in {y \in P : slot_trunc(y) # <<>>}}
with_latency_unauthorised(T, M) ==
  {[e EXCEPT !.class = IF \E y \in M : slot_trunc(y) = e.prefix THEN "latency" ELSE @] : e \in T}
with_latency_authorised(T, M) == with_latency_unauthorised(T, {y \in M : slot_trunc(y) \in SmGranted})

\* The digest of a table: nothing, every entry, or the latency entries when there are lanes.
class_digest(T, lanes) == IF lanes THEN {e.prefix : e \in {f \in T : f.class = "latency"}} ELSE {}

(* ------------------------------ the slot key ----------------------------- *)
\* The longest entry that covers x, as a set of at most one.
SmFound(T, x) == {e \in T : SmCovers(e, x) /\ \A f \in T : SmCovers(f, x) => Len(f.prefix) <= Len(e.prefix)}
hash_for_name(T, x) == {<<IF depth_exact(e) THEN e.prefix ELSE slot_trunc(x), e.class>> : e \in SmFound(T, x)}
\* No table, or no entry: the same key, Bulk.
name_group(T, x) ==
  IF hash_for_name(T, x) = {} THEN <<slot_trunc(x), "bulk">> ELSE CHOOSE h \in hash_for_name(T, x) : TRUE

(* ---------------------------- SchedParams -------------------------------- *)
capture(clock, width, lanes) ==
  [depth |-> SmDepth, clock |-> clock, width |-> width, lanes |-> IF width = 0 THEN FALSE ELSE lanes, class |-> {}]
with_groups(p, T) == [p EXCEPT !.class = class_digest(T, p.lanes)]
map_digest(n) == smParams[n]
\* Beacons of earlier builds end before the digest.
map_beacon(n, legacy) == IF legacy THEN [ref |-> n] ELSE [ref |-> n, digest |-> map_digest(n)]
beacon_indicates_partition(m, b) == "digest" \in DOMAIN b /\ b.digest # map_digest(m)

SchedMapInit ==
  /\ smTable = [n \in SmNode |-> {}]
  /\ smParams = [n \in SmNode |-> capture("wall", 0, FALSE)]
  /\ smStarts = 0

\* Node n starts again, with another configuration: from_env, then with_groups.
Configure(n) ==
  /\ smStarts < SmMaxStarts /\ smStarts' = smStarts + 1
  /\ \E clock \in SmClocks, width \in SmWidths, lanes \in BOOLEAN, auth \in BOOLEAN :
    \E P \in SUBSET SmRegistrable : \E M \in SUBSET P :
      LET T0 == new_with_depth(P)
          T  == IF auth THEN with_latency_authorised(T0, M) ELSE with_latency_unauthorised(T0, M)
      IN /\ Cardinality(P) <= SmMaxReg
         /\ smTable' = [smTable EXCEPT ![n] = T]
         /\ smParams' = [smParams EXCEPT ![n] = with_groups(capture(clock, width, lanes), T)]

SchedMapNext == \E n \in SmNode : Configure(n)
SchedMapSpec == SchedMapInit /\ [][SchedMapNext]_schedMapVars

(* ------------------------------ properties ------------------------------- *)
\* Types of the state: entries are as deep as the map at most, one to a prefix.
SchedMapTypeOK ==
  \A n \in SmNode :
    /\ \A e \in smTable[n] : Len(e.prefix) \in 1 .. SmDepth /\ e.class \in {"bulk", "latency"}
    /\ \A e, f \in smTable[n] : e.prefix = f.prefix => e = f
    /\ smParams[n].class \subseteq {e.prefix : e \in smTable[n]}

\* Where a name is placed: the class counts for nothing without lanes.
SmPlaced(n, x) ==
  LET g == name_group(smTable[n], x) IN <<g[1], IF smParams[n].lanes THEN g[2] ELSE "bulk">>
SmRest(n) == [smParams[n] EXCEPT !.class = {}]
SmShadowed(n, inner) ==
  \E e, f \in smTable[n] : SmCovers(e, f.prefix) /\ e # f /\ e.class = "latency" /\ f.class = inner

\* Until a node starts with a configuration of its own there is nothing to compare.
\* A name has one key at all nodes, registered there or not, deep or shallow.
KeysIgnoreRegistrations ==
  smStarts > 0 => \A n, m \in SmNode, x \in SmNames : name_group(smTable[n], x)[1] = name_group(smTable[m], x)[1]

\* Two nodes whose beacons agree place every name alike.  A bulk registration
\* under a latency one is left out: it changes the map and not the digest.
DifferentMapsAreSeen ==
  smStarts > 0 => \A n, m \in SmNode :
    ~beacon_indicates_partition(m, map_beacon(n, FALSE)) /\ ~SmShadowed(n, "bulk") /\ ~SmShadowed(m, "bulk") =>
      SmRest(n) = SmRest(m) /\ \A x \in SmNames : SmPlaced(n, x) = SmPlaced(m, x)

\* Nodes that agree on the parameters and place every name alike do not accuse
\* each other, whatever each has registered and however old their builds.  A
\* latency registration under another changes the digest and not the map: left out.
NoFalsePartition ==
  smStarts > 0 => \A n, m \in SmNode, legacy \in BOOLEAN :
    /\ SmRest(n) = SmRest(m)
    /\ \A x \in SmNames : SmPlaced(n, x) = SmPlaced(m, x)
    /\ \A k \in {n, m} : ~SmShadowed(k, "latency") /\ ~SmShadowed(k, "bulk")
    => ~beacon_indicates_partition(m, map_beacon(n, legacy))

----------------------------------------------------------------------------
(* The common-view clock of the slot schedule (sched.rs): the master's beacons*)
(* set the software offset, a neighbour's hardware-stamped beacon the hardware*)
(* one, which is preferred once it is there; evidence of presence is dated by *)
(* whatever the clock reads.  The reference election is ndn_time's: the       *)
(* lowest reference heard.                                                    *)

CONSTANTS
  ClkNode, ClkMaster,
  ClkPeer,        \* neighbours that beacon with a hardware TSF; their ids are their numbers
  ClkReads,       \* ClkReads[n]: the peers n hears
  ClkWatcher,     \* the nodes whose evidence is followed
  ClkRestarting,  \* the nodes that may start again
  ClkStart,       \* ClkStart[n]: when n's process starts, before time 0
  ClkCounter,     \* ClkCounter[k]: the TSF counter of node or peer k at time 0
  ClkDelay,       \* a software beacon is read this much later at most
  ClkWindow,      \* PRESENCE_WINDOW_US
  ClkMaxTime, ClkMaxFaults, ClkMaxSends

ASSUME SchedClockAssumption ==
  /\ ClkMaster \in ClkNode /\ ClkNode \cap ClkPeer = {} /\ ClkPeer \subseteq Int
  /\ ClkWatcher \subseteq ClkNode /\ ClkRestarting \subseteq ClkNode
  /\ ClkReads \in [ClkNode -> SUBSET ClkPeer]
  /\ ClkStart \in [ClkNode -> Int] /\ \A n \in ClkNode : ClkStart[n] <= 0
  /\ ClkCounter \in [ClkNode \cup ClkPeer -> Int]
  /\ {ClkDelay, ClkWindow, ClkMaxTime, ClkMaxFaults, ClkMaxSends} \subseteq Nat

VARIABLES
  clkT,           \* true time
  born,           \* born[n]: when the process started
  counter,        \* TSF counters, relative to true time
  cv,             \* cv[n]: software offset [set, off]
  cvHw,           \* cvHw[n]: [set, off, peer]
  air,            \* software beacons under way: [ref, at, life, for]
  clkFaults, clkSends,
  evidence,       \* evidence[n]: what the clock read when the owner was heard, 0 never
  heardAt, stepped, \* history: when that was, and how far the clock was set back since
  read            \* history: read[n]: the master's life, if any, and the peers' read of last

clockVars == <<clkT, born, counter, cv, cvHw, air, clkFaults, clkSends, evidence, heardAt, stepped, read>>
Synced   == <<born, cv, cvHw>>
NoneRead == [soft |-> {}, peers |-> {}]
NoOffset == [set |-> FALSE, off |-> 0, peer |-> 0]

host(n, T) == T - born[n]
\* The own hardware clock: a beacon that sets cvHw disciplines it first.
local(n, T) == T + counter[n]
\* now_us under CommonView.
now(n) ==
  IF cvHw[n].set THEN local(n, clkT) + cvHw[n].off
  ELSE IF cv[n].set THEN host(n, clkT) + cv[n].off
  ELSE host(n, clkT)

SchedClockInit ==
  /\ clkT = 0 /\ born = ClkStart /\ counter = ClkCounter
  /\ cv = [n \in ClkNode |-> NoOffset] /\ cvHw = [n \in ClkNode |-> NoOffset]
  /\ air = {} /\ clkFaults = 0 /\ clkSends = 0
  /\ evidence = [n \in ClkNode |-> 0] /\ heardAt = evidence /\ stepped = evidence
  /\ read = [n \in ClkNode |-> NoneRead]

\* History: how far the clock of n is set back.
Steps(n) ==
  /\ UNCHANGED <<clkT, evidence, heardAt>>
  /\ stepped' = [stepped EXCEPT ![n] = IF n \in ClkWatcher THEN @ + Minus(now(n), now(n)') ELSE 0]

\* on_raw: the latest reading replaces the offset.  The earlier one stays, in the variant.
TakenFirst(o, ref, h) == IF o.set THEN o ELSE [o EXCEPT !.set = TRUE, !.off = ref - h]
TakenIn(o, ref, h) == [o EXCEPT !.set = TRUE, !.off = ref - h]

\* The master reads its own reference as the others do.
build_beacon ==
  /\ clkSends < ClkMaxSends /\ clkSends' = clkSends + 1
  /\ cv' = [cv EXCEPT ![ClkMaster] = TakenIn(@, host(ClkMaster, clkT), host(ClkMaster, clkT))]
  /\ read' = [read EXCEPT ![ClkMaster].soft = {born[ClkMaster]}]
  /\ air' = air \cup {[ref |-> host(ClkMaster, clkT), at |-> clkT, life |-> born[ClkMaster], for |-> ClkNode \ {ClkMaster}]}
  /\ UNCHANGED <<born, counter, cvHw, clkFaults>> /\ Steps(ClkMaster)

ingest_time_ref(n) == \E b \in air :
  /\ n \in b.for /\ air' = (air \ {b}) \cup {[b EXCEPT !.for = @ \ {n}]}
  /\ cv' = [cv EXCEPT ![n] = TakenIn(@, b.ref, host(n, clkT))]
  /\ read' = [read EXCEPT ![n].soft = {b.life}]
  /\ UNCHANGED <<born, counter, cvHw, clkFaults, clkSends>> /\ Steps(n)

\* observe: the lowest reference heard, renewed by its own beacons.
Chosen(o, k) == ~o.set \/ k <= o.peer
\* ingest_mesh_beacon: the pair of the peer's counter and the own stamp of one frame.
ingest_common_view(n, k) ==
  /\ k \in ClkReads[n] /\ clkSends < ClkMaxSends /\ clkSends' = clkSends + 1
  /\ cvHw' = [cvHw EXCEPT ![n] = IF Chosen(@, k)
                THEN [set |-> TRUE, off |-> counter[k] - counter[n], peer |-> k] ELSE @]
  /\ read' = [read EXCEPT ![n].peers = {r \in @ : r[1] # k} \cup {<<k, counter[k]>>}]
  /\ UNCHANGED <<born, counter, cv, air, clkFaults>> /\ Steps(n)

\* The slot's owner is heard.
Observe(n) ==
  /\ n \in ClkWatcher /\ now(n) > 0 /\ evidence' = [evidence EXCEPT ![n] = now(n)]
  /\ heardAt' = [heardAt EXCEPT ![n] = clkT] /\ stepped' = [stepped EXCEPT ![n] = 0]
  /\ UNCHANGED <<clkT, Synced, counter, air, clkFaults, clkSends, read>>

\* A node starts again, or a peer's radio, whose counter does.
Restart(n) ==
  /\ n \in ClkRestarting /\ clkFaults < ClkMaxFaults /\ clkFaults' = clkFaults + 1
  /\ born' = [born EXCEPT ![n] = clkT]
  /\ cv' = [cv EXCEPT ![n] = NoOffset] /\ cvHw' = [cvHw EXCEPT ![n] = NoOffset]
  /\ evidence' = [evidence EXCEPT ![n] = 0] /\ stepped' = [stepped EXCEPT ![n] = 0]
  /\ read' = [read EXCEPT ![n] = NoneRead]
  /\ UNCHANGED <<clkT, counter, air, clkSends, heardAt>>
PeerRestarts(k) ==
  /\ clkFaults < ClkMaxFaults /\ clkFaults' = clkFaults + 1
  /\ counter' = [counter EXCEPT ![k] = -clkT]
  /\ UNCHANGED <<clkT, Synced, air, clkSends, evidence, heardAt, stepped, read>>

\* Beacons that nobody has read by then are lost.
ClkTick ==
  /\ clkT < ClkMaxTime /\ clkT' = clkT + 1
  /\ air' = {b \in air : clkT' - b.at <= ClkDelay}
  /\ UNCHANGED <<Synced, counter, clkFaults, clkSends, evidence, heardAt, stepped, read>>

SchedClockNext ==
  \/ build_beacon \/ ClkTick
  \/ \E n \in ClkNode : ingest_time_ref(n) \/ Observe(n) \/ Restart(n)
                        \/ \E k \in ClkPeer : ingest_common_view(n, k)
  \/ \E k \in ClkPeer : PeerRestarts(k)
SchedClockSpec == SchedClockInit /\ [][SchedClockNext]_clockVars

(* ---------------------------- owner_in_range ----------------------------- *)
\* saturating_sub: evidence from the future is fresh.
in_range(e, t) == e # 0 /\ Minus(t, e) <= ClkWindow

(* ------------------------------ properties ------------------------------- *)
\* Types of the state.
SchedClockTypeOK ==
  /\ \A n \in ClkNode : born[n] <= clkT /\ stepped[n] >= 0 /\ heardAt[n] <= clkT
  /\ \A r \in air : r.ref >= 0 /\ r.at <= clkT
  /\ clkSends \in 0 .. ClkMaxSends /\ clkFaults \in 0 .. ClkMaxFaults

\* Nodes that last read a beacon of the same life of the master agree up to the
\* delay with which beacons are read, whatever they missed and read before.
SoftwareTimelinesAgree ==
  \A n, m \in ClkNode :
    ~cvHw[n].set /\ ~cvHw[m].set /\ read[n].soft # {} /\ read[n].soft = read[m].soft
      => now(n) - now(m) \in -ClkDelay .. ClkDelay

\* Two nodes whose lowest neighbour is the same, and who last read the same life of
\* it, read exactly the same time, whatever other neighbours and beacons they hear.
HardwareTimelinesAgree ==
  \A n, m \in ClkNode : \A r \in read[n].peers \cap read[m].peers :
    (\A q \in read[n].peers \cup read[m].peers : r[1] <= q[1]) => now(n) = now(m)

\* A slot owner counts as in range for no longer than the window after it was
\* heard, and as much longer as the clock was set back since.
PresenceOutlivesOnlyAStep ==
  \A n \in ClkNode : in_range(evidence[n], now(n)) => clkT - heardAt[n] <= ClkWindow + stepped[n]

(***************************************************************************)
(* Nodes that share a schedule share it: the digest of the map tells       *)
(* neither too little nor too much, keys are common, there is one timeline *)
(* for all who heard the same, and evidence of a slot owner ends.          *)
(***************************************************************************)
SchedInv ==
  /\ SchedMapTypeOK /\ KeysIgnoreRegistrations /\ DifferentMapsAreSeen /\ NoFalsePartition
  /\ SchedClockTypeOK /\ SoftwareTimelinesAgree /\ HardwareTimelinesAgree /\ PresenceOutlivesOnlyAStep
=============================================================================
