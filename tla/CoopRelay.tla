----------------------------- MODULE CoopRelay ------------------------------
(* Reactive relaying on a broadcast mesh (mac/coop.rs): a relay that hears an *)
(* Interest in its scope schedules a rebroadcast, drops it when a neighbour   *)
(* is heard doing the same, and carries Data back along the breadcrumb.  The  *)
(* mesh is the one of the tests, with frames lost and relays that forget.     *)
EXTENDS Arith, FiniteSets

CONSTANTS
  Mesh, Consumer, Producer,   \* the nodes; the consumer runs a relay too
  Topologies,                 \* who hears whom: a set of functions
  Jitter,                     \* Jitter[n]: ticks n waits before it repeats
  Ttl,                        \* ticks a breadcrumb outlives its time to fire
  Rto,                        \* ticks between two expressions of an Interest
  Names, InScope,             \* InScope[n]: the names under prefixes n relays for
  MaxMeshFaults               \* bound on frames lost and breadcrumbs forgotten

ASSUME RelayAssumption ==
  /\ IsFiniteSet(Mesh) /\ Consumer \in Mesh /\ Producer \in Mesh /\ Topologies \subseteq [Mesh -> SUBSET Mesh]
  /\ Jitter \in [Mesh -> Nat] /\ Ttl \in Nat /\ Rto \in Nat /\ MaxMeshFaults \in Nat

VARIABLES
  hears,      \* hears[n]: the nodes that hear n
  crumb,      \* crumb[n][x]: the breadcrumb of name x, or none
  owes,       \* owes[x]: the producer is to answer x
  wait,       \* wait[x]: ticks until the consumer may ask again
  has,        \* names the consumer has the Data of
  meshFaults,
  emitted     \* history: emitted[n][x][dir], emissions since the breadcrumb was laid

relayVars == <<hears, crumb, owes, wait, has, meshFaults, emitted>>

Dirs    == {"interest", "data"}
NoCrumb == [dir |-> "none", left |-> 0, suppressed |-> FALSE, done |-> FALSE]
\* `left` counts down to the time to fire, and on to the end of the entry's life.
Crumb(n, dir) == [dir |-> dir, left |-> Jitter[n], suppressed |-> FALSE, done |-> FALSE]
Quiet   == [d \in Dirs |-> 0]

RelayInit ==
  /\ hears \in Topologies
  /\ crumb = [n \in Mesh |-> [x \in Names |-> NoCrumb]]
  /\ owes = {} /\ wait = [x \in Names |-> 0] /\ has = {} /\ meshFaults = 0
  /\ emitted = [n \in Mesh |-> [x \in Names |-> Quiet]]

rx_interest(n, x, p) == IF x \notin InScope[n] \/ p.dir # "none" THEN p ELSE Crumb(n, "interest")
\* Any breadcrumb turns into a return, one that has carried its Data too.
rx_data_again(n, p) == IF p.dir # "none" THEN Crumb(n, "data") ELSE p
rx_data(n, p) == IF p.dir = "interest" THEN Crumb(n, "data") ELSE p
overhear(p, dir) ==
  IF p.dir # "none" /\ ~p.done /\ (p.dir = dir \/ dir = "data") THEN [p EXCEPT !.suppressed = TRUE] ELSE p

\* What node n makes of a frame it hears: every node overhears, then plays its part.
Hear(n, x, dir) ==
  LET p == overhear(crumb[n][x], dir)
  IN IF dir = "interest" THEN (IF n = Producer THEN p ELSE rx_interest(n, x, p))
     ELSE IF n = Consumer /\ x \notin has THEN p
     ELSE rx_data(n, p)

\* Frame (x, dir) of node n reaches R; own is n's breadcrumb afterwards.
Broadcast(n, x, dir, own, R) ==
  /\ crumb' = [m \in Mesh |-> [y \in Names |->
                 IF y # x THEN crumb[m][y] ELSE IF m = n THEN own ELSE IF m \in R THEN Hear(m, x, dir) ELSE crumb[m][y]]]
  /\ has' = IF dir = "data" /\ Consumer \in R THEN has \cup {x} ELSE has
  /\ meshFaults' = meshFaults + Cardinality(hears[n] \ R)
  /\ meshFaults' <= MaxMeshFaults

\* The consumer asks, again and again until it has the Data.
Express(x) ==
  /\ x \notin has /\ wait[x] = 0
  /\ wait' = [wait EXCEPT ![x] = Rto]
  /\ \E R \in SUBSET hears[Consumer] :
       /\ Broadcast(Consumer, x, "interest", crumb[Consumer][x], R)
       /\ owes' = IF Producer \in R THEN owes \cup {x} ELSE owes
  /\ UNCHANGED <<hears, emitted>>

Answer(x) ==
  /\ x \in owes /\ owes' = owes \ {x}
  /\ \E R \in SUBSET hears[Producer] : Broadcast(Producer, x, "data", crumb[Producer][x], R)
  /\ UNCHANGED <<hears, wait, emitted>>

Due(p) == p.dir # "none" /\ ~p.done /\ ~p.suppressed /\ p.left <= 0
\* tick: a forward whose time has come goes on the air.
Fire(n, x) ==
  /\ Due(crumb[n][x])
  /\ LET dir == crumb[n][x].dir
     IN /\ \E R \in SUBSET hears[n] :
             /\ Broadcast(n, x, dir, [crumb[n][x] EXCEPT !.done = TRUE], R)
             /\ owes' = IF dir = "interest" /\ Producer \in R THEN owes \cup {x} ELSE owes
        /\ emitted' = [emitted EXCEPT ![n][x][dir] = @ + 1]
  /\ UNCHANGED <<hears, wait>>

Expired(p) == p.dir # "none" /\ p.left <= -Ttl
purge(n) ==
  /\ \E x \in Names : Expired(crumb[n][x])
  /\ crumb' = [crumb EXCEPT ![n] = [x \in Names |-> IF Expired(@[x]) THEN NoCrumb ELSE @[x]]]
  /\ emitted' = [emitted EXCEPT ![n] = [x \in Names |-> IF Expired(crumb[n][x]) THEN Quiet ELSE @[x]]]
  /\ UNCHANGED <<hears, owes, wait, has, meshFaults>>

\* A crash, an eviction or a recompile drops every breadcrumb.
clear_projection(n) ==
  /\ meshFaults < MaxMeshFaults /\ meshFaults' = meshFaults + 1
  /\ crumb' = [crumb EXCEPT ![n] = [x \in Names |-> NoCrumb]]
  /\ emitted' = [emitted EXCEPT ![n] = [x \in Names |-> Quiet]]
  /\ UNCHANGED <<hears, owes, wait, has>>

\* Entries age, and are not looked at again once they are expired.
Aged(p) == IF p.dir # "none" /\ p.left > -Ttl THEN [p EXCEPT !.left = @ - 1] ELSE p

\* Time passes once every forward that is due has gone out, and the producer's answer.
RelayTick ==
  /\ owes = {} /\ \A n \in Mesh, x \in Names : ~Due(crumb[n][x])
  /\ crumb' = [n \in Mesh |-> [x \in Names |-> Aged(crumb[n][x])]]
  /\ wait' = [x \in Names |-> Minus(wait[x], 1)]
  /\ <<crumb, wait>>' # <<crumb, wait>>
  /\ UNCHANGED <<hears, owes, has, meshFaults, emitted>>

RelayNext ==
  \/ \E x \in Names : Express(x) \/ Answer(x)
  \/ \E n \in Mesh : purge(n) \/ clear_projection(n) \/ \E x \in Names : Fire(n, x)
  \/ RelayTick
RelaySpec == RelayInit /\ [][RelayNext]_relayVars

\* Relays are ticked and purged by their host; the consumer repeats an Interest
\* that is not answered.
RelayFairness ==
  /\ WF_relayVars(RelayTick)
  /\ \A n \in Mesh : WF_relayVars(purge(n)) /\ \A x \in Names : WF_relayVars(Fire(n, x))
  /\ \A x \in Names : WF_relayVars(Express(x)) /\ WF_relayVars(Answer(x))

(* ------------------------------ properties ------------------------------- *)
\* Types of the state.
RelayTypeOK ==
  /\ \A n \in Mesh, x \in Names :
       /\ crumb[n][x].dir \in Dirs \cup {"none"}
       /\ crumb[n][x].left \in -Ttl .. Jitter[n]
  /\ \A x \in Names : wait[x] \in 0 .. Rto
  /\ has \subseteq Names /\ owes \subseteq Names /\ meshFaults \in 0 .. MaxMeshFaults

\* No storm: a relay puts a name on the air once in each direction for a
\* breadcrumb, whatever copies its neighbours send it, and nothing out of scope.
OnceEachWay ==
  \A n \in Mesh, x \in Names : \A d \in Dirs :
    emitted[n][x][d] <= 1 /\ (emitted[n][x][d] > 0 => x \in InScope[n])

\* Frames may be lost and relays may forget, a bounded number of times: a
\* consumer that keeps asking gets its Data, over one relay or several, when it
\* waits for longer than a relay's jitter: a repetition heard earlier cancels
\* the relay it is meant for.
DemandIsServed == \A x \in Names : <>(x \in has)


=============================================================================
