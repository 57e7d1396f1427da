---------------------------- MODULE ControlLoop ----------------------------
(* The control loop of a node (control.rs: RadioControl) between the Interests *)
(* and Data that pass and the radios it sets: demand as the PIT shows it       *)
(* (demand.rs), a plan for each name wanted, the learners' refinement of it    *)
(* (contextual.rs; the probes of calibrate.rs), and the outcome they are told. *)
(* The plan itself is the policy's (RadioPlan): any radios, any rate.  Times   *)
(* are ages in ticks.                                                          *)
EXTENDS Arith, FiniteSets, Sequences, SequencesExt

CONSTANTS
  ClPrefix, ClFace, ClRadio,
  ClNone,
  Learners,      \* "bandit", "probe", "none"
  Lifetime,      \* pit_lifetime_ms
  StaleIdle,     \* stale_ms: idle for longer, a prefix is forgotten
  MaxRate,       \* the highest rate of a radio
  Spreads,       \* sequences of radios the policy allocates
  Rates,         \* rates the policy plans
  Probing,       \* probe_interval
  Fallbacks,     \* sequences of contexts set by hand
  DutyMax,       \* airtime a radio may use in the window, in plans
  DutyWindow     \* ticks of the window

ASSUME ClAssumption ==
  /\ IsFiniteSet(ClPrefix) /\ IsFiniteSet(ClFace) /\ ClNone \notin Int /\ ClNone \notin [by : Nat, rate : Int]
  /\ Lifetime \in Nat /\ StaleIdle \in Nat /\ Lifetime <= StaleIdle
  /\ MaxRate \in Nat /\ 0 \in Rates /\ Rates \subseteq 0 .. MaxRate /\ Probing \in Nat \ {0}
  /\ Spreads \subseteq Seq(ClRadio) /\ DutyMax \in Nat /\ DutyWindow \in Nat \ {0}
  /\ Fallbacks \subseteq Seq([of : ClPrefix, class : Nat, rank : Nat, tracked : {FALSE}])

VARIABLES
  learner,    \* "bandit", "probe" or "none"
  pit,        \* DemandTracker: age of each in-record, of the last activity, last sample
  byHand,     \* active: contexts set by hand
  plans,      \* last_plans, with the rate before refinement
  radio,      \* the slice applied to each radio, and by which plan of the last tick
  arms,       \* last_arm
  lastTx,     \* last_tx: the rate booked for each radio
  probes,     \* probe_count, modulo the interval
  air,        \* plans that charged each radio, in each tick of the window
  wanted,     \* history: age of the last Interest not answered by Data
  live        \* history: prefixes wanted as the plans were made

clVars == <<learner, pit, byHand, plans, radio, arms, lastTx, probes, air, wanted, live>>

Untracked == [face |-> [f \in ClFace |-> ClNone], idle |-> ClNone, miss |-> FALSE]

ClInit ==
  /\ learner \in Learners
  /\ pit = [p \in ClPrefix |-> Untracked] /\ byHand = <<>> /\ plans = <<>>
  /\ radio = [r \in ClRadio |-> ClNone] /\ arms = [r \in ClRadio |-> ClNone]
  /\ lastTx = [r \in ClRadio |-> ClNone] /\ probes = 0
  /\ air = [r \in ClRadio |-> [t \in 1 .. DutyWindow |-> 0]]
  /\ wanted = [p \in ClPrefix |-> ClNone] /\ live = {}

(* --------------------------------- demand --------------------------------- *)
Within(age, limit) == age # ClNone /\ age <= limit
Fanout(p) == {f \in ClFace : Within(pit[p].face[f], Lifetime)}

\* on_egress of an Interest: one of the same face that is still unanswered is a
\* re-expression, which the learners are told is a miss.
on_interest(p, f) ==
  /\ pit' = [pit EXCEPT ![p] = [face |-> [@.face EXCEPT ![f] = 0], idle |-> 0, miss |-> f \in Fanout(p)]]
  /\ wanted' = [wanted EXCEPT ![p] = 0]
  /\ UNCHANGED <<learner, byHand, plans, radio, arms, lastTx, probes, air, live>>

\* on_ingress of Data: the in-records are satisfied.
Satisfied(e) == [e EXCEPT !.face = [f \in ClFace |-> ClNone], !.idle = 0]
on_data(p) ==
  /\ pit' = [pit EXCEPT ![p] = IF @.idle = ClNone THEN @ ELSE Satisfied(@)]
  /\ wanted' = [wanted EXCEPT ![p] = ClNone]
  /\ UNCHANGED <<learner, byHand, plans, radio, arms, lastTx, probes, air, live>>

set_active == byHand' \in Fallbacks /\ UNCHANGED <<learner, pit, plans, radio, arms, lastTx, probes, air, wanted, live>>
\* prune, as time goes by.
Pruned(q) == [p \in ClPrefix |-> IF Within(q[p].idle, StaleIdle) THEN q[p] ELSE Untracked]
Aged1(age) == IF age = ClNone \/ age > StaleIdle THEN age ELSE age + 1
AgedPit == [p \in ClPrefix |-> [pit[p] EXCEPT !.face = [f \in ClFace |-> Aged1(@[f])], !.idle = Aged1(@)]]

\* active_contexts: class Normal, ranked by fan-out and by the misses.
Tracked(q) ==
  LET fan(p) == Cardinality({f \in ClFace : Within(q[p].face[f], Lifetime)})
  IN {[of |-> p, class |-> 1, rank |-> fan(p) + (IF q[p].miss THEN 1 ELSE 0), tracked |-> TRUE] :
        p \in {x \in ClPrefix : fan(x) > 0}}

(* ------------------------------ decide, refine ---------------------------- *)
\* decide_all: a stable sort by class, then by rank; the last one that sets a
\* radio wins it.
Below(a, b) == a.class < b.class \/ (a.class = b.class /\ a.rank < b.rank)
Before(active, i, j) == Below(active[i], active[j]) \/ (~Below(active[j], active[i]) /\ i < j)
Ordered_none(active) == active
Ordered(active) ==
  LET D == DOMAIN active
      place == CHOOSE place \in [D -> D] : \A i, j \in D : i < j => Before(active, place[i], place[j])
  IN [i \in D |-> active[place[i]]]

DutyUsed(r) ==
  LET sum[t \in 0 .. DutyWindow] == IF t = 0 THEN 0 ELSE sum[t - 1] + air[r][t] IN sum[DutyWindow]
Usable(r) == DutyUsed(r) < DutyMax
Allocations == {on \in Spreads : \A i \in DOMAIN on : Usable(on[i])}

\* What the policy plans for a name, and the arm picked for it.
Options == {o \in [on : Allocations, base : Rates, arm : IF learner = "bandit" THEN -1 .. 1 ELSE {0}] :
              o.on = <<>> => o.base = 0 /\ o.arm = 0}

\* The bandit's arm, on the first radio of each plan; arms[r] is for the name it
\* was picked for.
Refined(base, arm) == Clamp(base + arm, 0, MaxRate)
Paired(order, active) == order

LastOn(ps, r) == {i \in DOMAIN ps : r \in ToSet(ps[i].on)}
LastFirst(ps, r) == {i \in DOMAIN ps : ps[i].on # <<>> /\ ps[i].on[1] = r}
Latest(is) == CHOOSE i \in is : \A j \in is : j <= i
RateOn(p, r) == IF p.on[1] = r THEN p.rate ELSE p.base

(* ---------------------------------- tick ---------------------------------- *)
\* tick_now: sense, decide, refine, act.
tick_now ==
  LET q == Pruned(AgedPit)
      probe == learner = "probe" /\ probes + 1 = Probing
  IN \E active \in (IF Tracked(q) # {} THEN SetToSeqs(Tracked(q)) ELSE {byHand}) :
     LET order == Ordered(active) IN \E picked \in [DOMAIN order -> Options] :
     LET arm(i) == IF probe /\ i = 1 THEN 1 ELSE picked[i].arm IN
       /\ pit' = q
       /\ plans' = [i \in DOMAIN order |->
                      [of |-> order[i], on |-> picked[i].on, base |-> picked[i].base,
                       rate |-> IF picked[i].on = <<>> THEN 0 ELSE Refined(picked[i].base, arm(i))]]
       /\ probes' = IF learner = "probe" THEN (probes + 1) % Probing ELSE probes
       /\ arms' = [r \in ClRadio |-> IF learner # "bandit" \/ LastFirst(plans', r) = {} THEN ClNone
                     ELSE LET i == Latest(LastFirst(plans', r))
                          IN [class |-> Paired(order, active)[i].class, arm |-> arm(i)]]
       /\ radio' = [r \in ClRadio |-> IF LastOn(plans', r) = {}
                     THEN IF radio[r] = ClNone THEN ClNone ELSE [radio[r] EXCEPT !.by = 0]
                     ELSE LET i == Latest(LastOn(plans', r)) IN [by |-> i, rate |-> RateOn(plans'[i], r)]]
       /\ lastTx' = [r \in ClRadio |-> IF learner = "none" \/ LastOn(plans', r) = {} THEN lastTx[r]
                      ELSE RateOn(plans'[Latest(LastOn(plans', r))], r)]
       /\ air' = [r \in ClRadio |-> [t \in 1 .. DutyWindow |->
                    IF t = 1 THEN Cardinality(LastOn(plans', r)) ELSE air[r][t - 1]]]
       /\ wanted' = [p \in ClPrefix |-> Aged1(wanted[p])]
       /\ live' = {p \in ClPrefix : Within(wanted'[p], Lifetime)}
       /\ UNCHANGED <<learner, byHand>>

ClNext ==
  \/ tick_now \/ set_active
  \/ \E p \in ClPrefix : on_data(p) \/ \E f \in ClFace : on_interest(p, f)
ClSpec == ClInit /\ [][ClNext]_clVars

(* ------------------------------- properties ------------------------------- *)
\* Types of the state; a learner keeps nothing of a radio it was not asked about.
ClTypeOK ==
  /\ \A p \in ClPrefix : pit[p].idle = ClNone => pit[p] = Untracked
  /\ probes \in 0 .. Probing - 1
  /\ \A r \in ClRadio : /\ lastTx[r] \in {ClNone} \cup 0 .. MaxRate
                        /\ arms[r] # ClNone => radio[r] # ClNone

\* A radio that several names ask for is left as the one of the highest class
\* and, in it, the most wanted asked.
MostWantedOwnsTheRadio ==
  \A r \in ClRadio : \A i \in LastOn(plans, r) : ~Below(plans[radio[r].by].of, plans[i].of)

\* The node plans for the names that are wanted, all of them and no others: an
\* Interest that Data has answered, or that ran out, moves no radio.
PlansAreForLiveInterests ==
  IF live = {} THEN \A i \in DOMAIN plans : ~plans[i].of.tracked
  ELSE {plans[i].of.of : i \in DOMAIN plans} = live /\ \A i \in DOMAIN plans : plans[i].of.tracked

\* The bandit's choice is remembered for the class of the name it was picked
\* for, however the names were reordered.
ArmsAreOfTheirOwnPlan ==
  \A r \in ClRadio : arms[r] # ClNone =>
    \E i \in DOMAIN plans : /\ plans[i].on # <<>> /\ plans[i].on[1] = r /\ plans[i].of.class = arms[r].class
                            /\ plans[i].rate = Refined(plans[i].base, arms[r].arm)

\* A radio whose airtime is spent is planned for again when it has recovered:
\* the window never holds more than the limit and the most plans of one tick.
DutyOverrunIsOneTick ==
  \A r \in ClRadio : \E most \in {Cardinality(ClPrefix)} \cup {Len(s) : s \in Fallbacks} :
    DutyUsed(r) <= Minus(DutyMax, 1) + most

\* A tick leaves each radio where the names that are wanted, in their order, put it.
LoopInv == ClTypeOK /\ MostWantedOwnsTheRadio /\ PlansAreForLiveInterests /\ ArmsAreOfTheirOwnPlan /\ DutyOverrunIsOneTick

=============================================================================
