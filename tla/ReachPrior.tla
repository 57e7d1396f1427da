----------------------------- MODULE ReachPrior -----------------------------
(* The soft prefix-reach strategy of a node (ndn-strategy-reach): what it has  *)
(* learned of a prefix from the Data that came back decides whether, or how    *)
(* soon, it sends an Interest on over the face it came in by.  Weights are in  *)
(* halves of a reinforcement and halve with every unit of the clock, which is  *)
(* the host's wall clock and may be set back.                                  *)
EXTENDS Naturals, Sequences, FiniteSets

CONSTANTS
  RpKey,          \* prefixes (prefix_key)
  RpName,         \* Interests and Data
  RpKeyOf,        \* Name -> Key
  RpCells,        \* Key -> sequence of cells (idxs)
  RpMode,         \* the modes looked at
  Reinforce, WMax,  \* NDR_REINFORCE, NDR_WMAX
  FloorShare,     \* NDR_PFLOOR, out of DrawMax
  DrawMax,        \* draws are 1 .. DrawMax: the generator never gives 0
  RpNexthops,     \* what the FIB may hold for a name, NoEntry for none
  NoEntry, In,    \* In: the face the Interest came in by
  RpMaxClock, RpMaxSteps   \* bounds

ASSUME RpAssumption ==
  /\ Reinforce \in Nat /\ WMax \in Nat \ {0} /\ DrawMax \in Nat \ {0} /\ FloorShare \in 1 .. DrawMax
  /\ \A n \in RpName : RpKeyOf[n] \in RpKey
  /\ \A k \in RpKey : Len(RpCells[k]) \in Nat \ {0} /\ DOMAIN RpCells[k] = 1 .. Len(RpCells[k])
  /\ RpMaxClock \in Nat

VARIABLES
  rpMode, rpClock, rpSteps,
  prior,      \* Key -> weight and the time it was last touched
  bloom,      \* cells, and the time of all of them
  bandit,     \* Key -> alpha, beta, time
  decided,    \* what became of the last Interest
  exact,      \* history: Key -> what the scalar prior would hold
  heardOf,    \* history: names Data has come back for
  unanswered, \* history: Key -> attempts no Data has yet come back for
  furthest    \* history: the latest time the clock has shown
rpVars == <<rpMode, rpClock, rpSteps, prior, bloom, bandit, decided, exact, heardOf, unanswered, furthest>>
rpShown == <<rpClock, furthest>>
memory == <<prior, bloom, bandit>>

RpCell == UNION {{RpCells[k][i] : i \in DOMAIN RpCells[k]} : k \in RpKey}
\* What is left when half is lost with every unit.
Halved(w, dt) == LET left[i \in 0 .. dt] == IF i = 0 THEN w ELSE left[i - 1] \div 2 IN left[dt]
Since(then) == IF rpClock > then THEN rpClock - then ELSE 0
Capped(w) == IF w > WMax THEN WMax ELSE w

\* A clock behind the cells leaves them as they are, their time included.
decay_to(b) == IF Since(b.at) = 0 THEN b
               ELSE [cell |-> [c \in RpCell |-> Halved(b.cell[c], Since(b.at))], at |-> rpClock]
\* Each of the key's positions raises its cell, up to the cap.
insert_first(b, k) == [b EXCEPT !.cell[RpCells[k][1]] = Capped(@ + Reinforce)]
insert(b, k) ==
  LET times(c) == Cardinality({i \in DOMAIN RpCells[k] : RpCells[k][i] = c}) IN
  [b EXCEPT !.cell = [c \in RpCell |-> IF times(c) = 0 THEN b.cell[c] ELSE Capped(b.cell[c] + times(c) * Reinforce)]]
query(b, k) == CHOOSE w \in {b.cell[RpCells[k][i]] : i \in DOMAIN RpCells[k]} :
                 \A i \in DOMAIN RpCells[k] : w <= b.cell[RpCells[k][i]]

\* after_receive_data of the scalar prior: decay, reinforce, cap, and the time.
Reinforced(r) == [w |-> Capped(Halved(r.w, Since(r.at)) + Reinforce), at |-> rpClock]

\* The posterior: an attempt is a failure until the Data of it comes back.
note_attempt(b) == [a |-> Halved(b.a, Since(b.at)), b |-> Halved(b.b, Since(b.at)) + 2, at |-> rpClock]
Removed(x) == IF x > 2 THEN x - 2 ELSE 0
note_success(b) == [a |-> Halved(b.a, Since(b.at)) + 2, b |-> Removed(Halved(b.b, Since(b.at))), at |-> rpClock]

RpInit ==
  /\ rpMode \in RpMode /\ rpClock = 1 /\ rpSteps = 0
  /\ prior = [k \in RpKey |-> [w |-> 0, at |-> 1]]
  /\ bloom = [cell |-> [c \in RpCell |-> 0], at |-> 0]
  /\ bandit = [k \in RpKey |-> [a |-> 0, b |-> 0, at |-> 1]]
  /\ decided = "nothing"
  /\ exact = [k \in RpKey |-> [w |-> 0, at |-> 1]]
  /\ furthest = 1 /\ heardOf = {} /\ unanswered = [k \in RpKey |-> 0]

Counts == rpSteps < RpMaxSteps /\ rpSteps' = rpSteps + 1 /\ UNCHANGED rpMode

\* reach_norm of the scalar prior, and the gate: cold widens, warm narrows to the
\* floor.  p is in parts of DrawMax * WMax.
Weight(k) == Halved(prior[k].w, Since(prior[k].at))
GateShare(w) == FloorShare * WMax + (DrawMax - FloorShare) * (WMax - w)
Passes(x, w) == x * WMax < GateShare(w)

\* after_receive_interest: no route, a genuine next hop, or the way it came.
Refused(n) ==
  /\ Counts /\ \E hops \in RpNexthops : hops = NoEntry \/ hops = {}
  /\ decided' = "nack"
  /\ UNCHANGED <<rpShown, memory, exact, heardOf, unanswered>>
ForwardOn(n) ==
  /\ Counts /\ \E hops \in RpNexthops \ {NoEntry} : hops \ {In} # {}
  /\ decided' = "forward"
  /\ UNCHANGED <<rpShown, memory, exact, heardOf, unanswered>>
Gate(n) ==
  LET k == RpKeyOf[n] IN
  /\ Counts /\ {In} \in RpNexthops /\ rpMode = "probabilistic"
  /\ \E x \in 1 .. DrawMax :
       decided' = IF Passes(x, Weight(k)) THEN "forward" ELSE IF x = DrawMax THEN "unlucky" ELSE "suppress"
  /\ UNCHANGED <<rpShown, memory, exact, heardOf, unanswered>>
DeferOn(n) ==
  LET k == RpKeyOf[n] IN
  /\ Counts /\ {In} \in RpNexthops /\ rpMode # "probabilistic"
  /\ decided' = "defer"
  /\ bloom' = IF rpMode = "bloom" THEN decay_to(bloom) ELSE bloom
  /\ bandit' = IF rpMode = "bandit" THEN [bandit EXCEPT ![k] = note_attempt(@)] ELSE bandit
  /\ unanswered' = [unanswered EXCEPT ![k] = @ + 1]
  /\ UNCHANGED <<rpShown, prior, exact, heardOf>>

\* after_receive_data: Data for the prefix came back through this node.
after_receive_data(n) ==
  LET k == RpKeyOf[n] IN
  /\ Counts
  /\ prior' = IF rpMode \in {"probabilistic", "defer"} THEN [prior EXCEPT ![k] = Reinforced(@)] ELSE prior
  /\ bloom' = IF rpMode = "bloom" THEN insert(decay_to(bloom), k) ELSE bloom
  /\ bandit' = IF rpMode = "bandit" THEN [bandit EXCEPT ![k] = note_success(@)] ELSE bandit
  /\ exact' = [exact EXCEPT ![k] = Reinforced(@)]
  /\ heardOf' = heardOf \cup {n}
  /\ unanswered' = [unanswered EXCEPT ![k] = IF @ > 0 THEN @ - 1 ELSE 0]
  /\ decided' = "nothing"
  /\ UNCHANGED rpShown

\* The wall clock goes on, or is set back.
WallClock == \E t \in 1 .. RpMaxClock :
  /\ t # rpClock /\ t <= rpClock + 1
  /\ rpClock' = t /\ furthest' = (IF t > furthest THEN t ELSE furthest) /\ Counts /\ decided' = "nothing"
  /\ UNCHANGED <<memory, exact, heardOf, unanswered>>

RpNext == WallClock \/ \E n \in RpName : Refused(n) \/ ForwardOn(n) \/ Gate(n) \/ DeferOn(n) \/ after_receive_data(n)
RpSpec == RpInit /\ [][RpNext]_rpVars

(* ------------------------------- properties ------------------------------- *)
\* Types; and no weight passes the cap, through any run of arrivals (lib.rs:160).
RpTypeOK ==
  /\ \A k \in RpKey : prior[k].w \in 0 .. WMax /\ bandit[k].a \in Nat /\ bandit[k].b \in Nat
  /\ \A c \in RpCell : bloom.cell[c] \in 0 .. WMax
  /\ decided \in {"nothing", "nack", "forward", "suppress", "unlucky", "defer"}

\* The Bloom memory never forgets a prefix the scalar memory would still know:
\* shared cells only make a prefix look better reached, through any sequence of
\* insertions and readings.  A clock that is set back makes the scalar younger and
\* not the cells, so the scalar is taken at the latest time shown (lib.rs:176).
BloomIsNoLess == rpMode = "bloom" =>
  \A k \in RpKey : query(decay_to(bloom), k) >= Halved(exact[k].w, furthest - exact[k].at)

\* A cold prefix is never held back: an Interest is suppressed only if Data has
\* come back for a name under the same prefix and has not decayed away, or at the
\* one draw that equals 1 (lib.rs:396: "cold prior: forward, can't blackhole").
ColdIsNeverHeldBack == decided = "suppress" =>
  \E n \in heardOf : Halved(exact[RpKeyOf[n]].w, Since(exact[RpKeyOf[n]].at)) > 0

\* The failures of the posterior are attempts still without an answer, however
\* attempts, answers, overheard Data and the clock interleave: a path that has
\* answered every attempt has none (lib.rs:348).
FailuresAreUnanswered == \A k \in RpKey : bandit[k].b <= 2 * unanswered[k]

\* What is remembered of a prefix errs on the side of forwarding.
ReachInv == RpTypeOK /\ BloomIsNoLess /\ ColdIsNeverHeldBack /\ FailuresAreUnanswered
=============================================================================
