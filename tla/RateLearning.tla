---------------------------- MODULE RateLearning ----------------------------
(* What a radio learns about rates: the thresholds, and the bandit above them.  *)
EXTENDS Arith, Sequences, Functions, Integers, FiniteSets

(* The thresholds that decide a rate, learned from what was delivered          *)
(* (calibrate.rs: RateCalibrator over MCS, SfCalibrator over SF), and the      *)
(* hysteretic dial over them.  Levels are in dBm; steps are whole dB.          *)
CONSTANTS
  LrLevels,          \* levels that are sampled
  LrMcs, LrSf,       \* rungs that are sampled
  Rise, Fall,        \* a failure raises a threshold, a delivery lowers it
  Window,            \* samples farther from the threshold say nothing
  LrMargin,          \* margin_db of the dial
  LrSamples          \* bound

ASSUME LrAssumption ==
  /\ Rise \in Nat \ {0} /\ Fall \in Nat \ {0} /\ Window \in Nat /\ LrMargin \in Nat
  /\ LrMcs \subseteq 0 .. 9 /\ LrSf \subseteq 7 .. 12 /\ LrLevels \subseteq Int

VARIABLES
  mcsT,        \* thresholds of MCS 0 to 9
  sfT,         \* thresholds of SF 7 to 12
  sfNow,       \* the current SF
  turned,     \* history: the level at the last change of the dial, its direction, and if sfT is as then
  lrSamples

lrVars == <<mcsT, sfT, sfNow, turned, lrSamples>>

LrInit ==
  /\ mcsT = Needs /\ sfT = NeedsSf /\ sfNow \in 7 .. 12 /\ lrSamples = 0
  /\ turned = [at |-> 0, up |-> TRUE, same |-> FALSE]

\* A threshold never passes its neighbours: MCS thresholds rise with the rung.
Between(t, i, x, low, high) ==
  LET y == Clamp(x, low, high)
      z == IF i > 1 THEN Larger(y, t[i - 1]) ELSE y
  IN IF i < Len(t) THEN Smaller(z, t[i + 1]) ELSE z

\* SF thresholds fall with the factor.
BetweenSf(t, i, x, low, high) ==
  LET y == Clamp(x, low, high)
      z == IF i > 1 THEN Smaller(y, t[i - 1]) ELSE y
  IN IF i < Len(t) THEN Larger(z, t[i + 1]) ELSE z

Near(t, level) == level - t \in -Window .. Window
Moved(t, delivered) == IF delivered THEN t - Fall ELSE t + Rise

LrCounted == lrSamples < LrSamples /\ lrSamples' = lrSamples + 1
observe_mcs(m, level, delivered) ==
  /\ LrCounted /\ Near(mcsT[m + 1], level)
  /\ mcsT' = [mcsT EXCEPT ![m + 1] = Between(mcsT, m + 1, Moved(@, delivered), -110, 0)]
  /\ UNCHANGED <<sfT, sfNow, turned>>
observe_sf(s, level, delivered) ==
  /\ LrCounted /\ Near(sfT[s - 6], level)
  /\ sfT' = [sfT EXCEPT ![s - 6] = BetweenSf(sfT, s - 6, Moved(@, delivered), -130, 0)]
  /\ turned' = [turned EXCEPT !.same = FALSE]
  /\ UNCHANGED <<mcsT, sfNow>>

Redialled_plain(level) == pick_sf(level, sfT)
Redialled(level) == pick_sf_hysteretic(level, sfNow, sfT, LrMargin)
Dials(level) ==
  /\ sfNow' = Redialled(level) /\ sfNow' # sfNow
  /\ turned' = [at |-> level, up |-> sfNow' > sfNow, same |-> TRUE]
  /\ UNCHANGED <<mcsT, sfT, lrSamples>>

LrNext ==
  \E level \in LrLevels :
    \/ Dials(level)
    \/ \E delivered \in BOOLEAN :
         (\E m \in LrMcs : observe_mcs(m, level, delivered)) \/ (\E s \in LrSf : observe_sf(s, level, delivered))
LrSpec == LrInit /\ [][LrNext]_lrVars

(* ------------------------------- properties ------------------------------- *)
\* However often rungs are sampled, and in whatever order, a faster rate never
\* comes to need less than a slower one.
RungsStayOrdered ==
  /\ \A i, j \in DOMAIN mcsT : i < j => mcsT[i] <= mcsT[j]
  /\ \A i, j \in DOMAIN sfT : i < j => sfT[i] >= sfT[j]

\* A delivery never slows a link down, nor a failure speeds it up, at any level.
OutcomesTurnTheRightWay ==
  [][\A m \in LrMcs, level \in LrLevels, delivered \in BOOLEAN : observe_mcs(m, level, delivered) =>
       \A heard \in LrLevels :
         LET was == BestBelow(mcsT, heard, 9)   now == BestBelow(mcsT', heard, 9)
         IN IF delivered THEN now >= was ELSE now <= was]_lrVars

\* The dial turns back only when the level has swung by more than the margin:
\* a level that wiggles on a threshold does not part two nodes.
TurnsNeedASwing ==
  [][sfNow' # sfNow /\ turned.same /\ (sfNow' > sfNow) # turned.up =>
       IF turned.up THEN turned'.at > turned.at + LrMargin ELSE turned'.at < turned.at - LrMargin]_lrVars

----------------------------------------------------------------------------
(* The bandit above a radio's plan (contextual.rs, and control.rs where it is  *)
(* asked and told): each tick an arm is picked for the situation and applied to *)
(* the plan's rate, power and parity, and each outcome is credited to the arm   *)
(* remembered for the radio.  Rewards are in thousandths.                       *)

CONSTANTS
  AcPart,       \* the radio: maxMcs, maxPower, floor, step (quarters of a dB to an index, AcNone unmeasured)
  AcSituation,  \* what the bandit may be asked in: rssi, busy, receivers, class
  AcAsked,      \* those it is asked in
  AcBase,       \* what the policy plans: mcs, power (AcNone for none), fec, bw4 (quarters), nss
  MissPenalty,  \* MISS_PENALTY
  Footprint,    \* FOOTPRINT_LAMBDA
  AcNone,
  AcMaxPulls    \* bound: outcomes in all

ASSUME AcAssumption ==
  /\ AcPart.floor \in Int /\ AcPart.maxPower \in Int /\ AcPart.floor <= AcPart.maxPower /\ AcPart.maxMcs \in Nat
  /\ AcPart.step = AcNone \/ AcPart.step \in Nat \ {0}
  /\ AcAsked \subseteq AcSituation /\ AcMaxPulls \in Nat
  /\ \A s \in AcSituation : s.rssi \in Int /\ s.busy \in Nat /\ s.recv \in Nat /\ s.class \in Nat
  /\ \A p \in AcBase : /\ {"mcs", "power", "fec"} \subseteq DOMAIN p
                       /\ p.mcs \in 0 .. AcPart.maxMcs /\ p.power \in AcPart.floor .. AcPart.maxPower \cup {AcNone}

VARIABLES
  acStats,      \* key -> arm -> outcomes credited, their sum
  acArm,        \* last_arm: situation and arm
  acTx,         \* last_tx: what was applied
  acTick,       \* where the tick is: "idle", "cleared", "picked"
  acNow,        \* the situation and the plan of this tick
  acRecord,     \* an outcome being told: the record read, AcNone when none is
  acPulls       \* bound
acVars == <<acStats, acArm, acTx, acTick, acNow, acRecord, acPulls>>

ARMS == 0 .. 4
McsDelta == [a \in ARMS |-> IF a = 2 THEN 1 ELSE IF a \in {1, 4} THEN -1 ELSE 0]
Backoff  == [a \in ARMS |-> IF a = 3 THEN 6 ELSE 0]
FecDelta == [a \in ARMS |-> IF a = 4 THEN 1 ELSE 0]
Clamped(x, lo, hi) == IF x < lo THEN lo ELSE IF x > hi THEN hi ELSE x

\* The power arm in steps of the part: the backoff by the step, to the nearest.
Steps(db, step) == (8 * db + step) \div (2 * step)
apply_arm(a, p) ==
  [p EXCEPT
     !.mcs = Clamped(@ + McsDelta[a], 0, AcPart.maxMcs),
     !.power = IF Backoff[a] = 0 \/ AcPart.step = AcNone THEN @
               ELSE Clamped((IF @ = AcNone THEN AcPart.maxPower ELSE @) - Steps(Backoff[a], AcPart.step),
                            AcPart.floor, AcPart.maxPower),
     !.fec = @ + FecDelta[a]]

\* relative_airtime and reward, in thousandths.
Rate4(p) == LET r == (p.mcs + 1) * p.bw4 * p.nss IN IF r < 2 THEN 2 ELSE r
relative_airtime(p) == ((1 + p.fec) * 4000) \div Rate4(p)
AcPowerOf(p) == IF p.power = AcNone THEN AcPart.maxPower ELSE p.power
reward(delivered, p) ==
  IF delivered THEN -(relative_airtime(p) + (Footprint * AcPowerOf(p)) \div AcPart.maxPower)
  ELSE -(relative_airtime(p) + MissPenalty)

\* Context::new and its key: bins of 5 dB, of a quarter of occupancy, one
\* receiver, few or many, and the class.
Bins(s) == [rssi |-> Clamped(s.rssi + 95, 0, 75) \div 5,
            busy |-> IF s.busy \div 25 > 3 THEN 3 ELSE s.busy \div 25,
            recv |-> IF s.recv <= 1 THEN 0 ELSE IF s.recv <= 3 THEN 1 ELSE 2,
            class |-> IF s.class > 2 THEN 2 ELSE s.class]
key(s) == LET b == Bins(s) IN b.rssi + 16 * b.busy + 64 * b.recv + 256 * b.class
AcKeys == {key(s) : s \in AcAsked}

\* select_traced: the first arm not tried; else the best score, which grows with
\* the mean and falls with the number of outcomes.
Outscored(st, a) == \E b \in ARMS : st[b].sum * st[a].n > st[a].sum * st[b].n /\ st[b].n <= st[a].n
Untried(st) == {a \in ARMS : st[a].n = 0}
select(st) ==
  IF Untried(st) # {} THEN {CHOOSE a \in Untried(st) : \A b \in Untried(st) : a <= b}
  ELSE {a \in ARMS : ~Outscored(st, a)}

AcInit ==
  /\ acStats = [k \in AcKeys |-> [a \in ARMS |-> [n |-> 0, sum |-> 0]]]
  /\ acArm = AcNone /\ acTx = AcNone /\ acTick = "idle" /\ acNow = AcNone
  /\ acRecord = AcNone /\ acPulls = 0

\* tick_now: what was remembered is cleared, an arm is picked and remembered, the
\* plan it shaped is applied; of two names on one radio the later one's plan is
\* applied over it, shaped by no arm when the radio is not the first of that plan.
ClearArms ==
  /\ acTick = "idle"
  /\ \E s \in AcAsked, p \in AcBase : acNow' = [at |-> s, base |-> p]
  /\ acArm' = AcNone /\ acTick' = "cleared"
  /\ UNCHANGED <<acStats, acTx, acRecord, acPulls>>
Refine ==
  /\ acTick = "cleared"
  /\ \E a \in select(acStats[key(acNow.at)]) : acArm' = [at |-> acNow.at, arm |-> a]
  /\ acTick' = "picked"
  /\ UNCHANGED <<acStats, acTx, acNow, acRecord, acPulls>>
Actuate ==
  /\ acTick = "picked"
  /\ acTx' = apply_arm(acArm.arm, acNow.base)
  /\ acTick' = "idle" /\ acNow' = AcNone
  /\ UNCHANGED <<acStats, acArm, acRecord, acPulls>>
ActuateOver ==
  /\ acTick = "picked"
  /\ \E p \in AcBase : acTx' = p
  /\ acTick' = "idle" /\ acNow' = AcNone
  /\ UNCHANGED <<acStats, acArm, acRecord, acPulls>>

\* observe_delivery: what the radio last sent, and then the arm remembered for it.
Snapshot ==
  /\ acRecord = AcNone /\ acTx # AcNone /\ acPulls < AcMaxPulls
  /\ \E ok \in BOOLEAN : acRecord' = [tx |-> acTx, ok |-> ok]
  /\ acPulls' = acPulls + 1
  /\ UNCHANGED <<acStats, acArm, acTx, acTick, acNow>>
Credit ==
  /\ acRecord # AcNone
  /\ acRecord' = AcNone
  /\ acStats' = IF acArm = AcNone THEN acStats
                ELSE [acStats EXCEPT ![key(acArm.at)][acArm.arm] =
                        [n |-> @.n + 1, sum |-> @.sum + reward(acRecord.ok, acRecord.tx)]]
  /\ UNCHANGED <<acArm, acTx, acTick, acNow, acPulls>>

AcNext == ClearArms \/ Refine \/ Actuate \/ ActuateOver \/ Snapshot \/ Credit
AcSpec == AcInit /\ [][AcNext]_acVars

(* ------------------------------- properties ------------------------------- *)
\* What is applied is within the radio's own rates and powers, whatever arm is
\* added to whatever plan, and a radio whose power has no measured scale is left
\* at the power planned (contextual.rs:83).
AcTypeOK ==
  /\ acTick \in {"idle", "cleared", "picked"} /\ acPulls \in 0 .. AcMaxPulls
  /\ acTx # AcNone =>
       /\ acTx.mcs \in 0 .. AcPart.maxMcs
       /\ acTx.power \in AcPart.floor .. AcPart.maxPower \cup {AcNone}
       /\ AcPart.step = AcNone => \E p \in AcBase : acTx.power = p.power

\* In a situation every arm is tried before one is tried again, outcomes being told
\* late, of another radio's frame or not at all (contextual.rs:243).
TriedBeforeRepeated ==
  [][acTick = "cleared" /\ acTick' = "picked" =>
       LET n == [a \in ARMS |-> acStats[key(acNow.at)][a].n]
       IN n[acArm'.arm] > 0 => \A a \in ARMS : n[a] > 0]_acVars

\* Situations that differ in a bin are learned apart, at every end of every bin: there
\* are as many keys as there are bins (contextual.rs:185).
KeyCount == Cardinality({key(s) : s \in AcSituation})
BinCount == Cardinality({Bins(s) : s \in AcSituation})
KeysAreApart == acTick = "cleared" => KeyCount = BinCount

\* What is learned moves with the outcomes, keeps its order and its situations apart.
LearningIsSound ==
  /\ [](RungsStayOrdered /\ AcTypeOK /\ KeysAreApart)
  /\ OutcomesTurnTheRightWay /\ TurnsNeedASwing /\ TriedBeforeRepeated
=============================================================================
