----------------------------- MODULE RadioPlan -----------------------------
(* The plan for one name (policy.rs: RadioPolicy::decide_traced; plan.rs),     *)
(* decided again and again as what is sensed and what is asked change, and the *)
(* level at which the weakest neighbour then hears the node.  Levels are in    *)
(* dBm and dB, losses in percent.                                              *)
EXTENDS Arith, FiniteSets, Sequences, SequencesExt

CONSTANTS
  RpRadio,       \* radios, in order of their id
  RpNone,
  RpCap,         \* RadioCapability of each
  Levels,        \* full power as heard by the weakest neighbour, in dBm
  Snrs, Losses, BusyPct, Counts, Deficits, Ceilings,    \* what is sensed
  GenerationK, BroadReceivers, BusyHigh,                \* PolicyConfig
  RpChanges      \* bound: changes of what is sensed and asked

ASSUME RpAssumption == GenerationK \in Nat \ {0} /\ BroadReceivers \in Nat \ {0} /\ BusyHigh \in 1 .. 100

VARIABLES
  view,       \* what MediumView answers
  full,       \* the weakest neighbour's level of each radio at full power
  backoff,    \* power each radio has been set below its maximum, in dB
  ctx,        \* NameContext
  plan,       \* the last RadioPlan
  rpChanges

rpVars == <<view, full, backoff, ctx, plan, rpChanges>>

Classes == <<"bulk", "normal", "urgent">>

RpOr(x, default) == IF x = RpNone THEN default ELSE x

(* ------------------------------ whom it serves ---------------------------- *)
\* In the operators v is a view and c a context.
Receivers(v) == Larger(RpOr(v.fanout, 0), v.peers)
Deficit(v) == IF v.fanout = RpNone THEN Receivers(v) ELSE RpOr(v.deficit, Receivers(v))
Broad(v) == Receivers(v) >= BroadReceivers

\* A relay sends when someone lacks rank and not all of them hold the name.
AddsRank(v) == Deficit(v) > 0 /\ v.holders < Larger(Receivers(v), 1)

\* Heard level: the weakest neighbour's, or a guess from the residual loss.
DemandSet(v, r) == RpOr(v.rssi[r], Clamp(-55 - (v.residual * 2) \div 5, -95, -40))
Margin(broad, few) == IF broad THEN -6 ELSE IF few THEN 4 ELSE 0
Effective(v, r) == DemandSet(v, r) + Margin(Broad(v), Receivers(v) <= 1)

(* -------------------------------- the radio ------------------------------- *)
Weights(v, c) == CASE c.class = "bulk" -> <<2, 10>> [] c.class = "urgent" -> <<10, 2>>
                   [] OTHER -> IF Broad(v) THEN <<7, 5>> ELSE <<5, 7>>
Fit(v) == {r \in ToSet(RpRadio) : ~RpCap[r].rxOnly /\ RpCap[r].channels # <<>> /\ r \notin v.spent}

\* The best by score, the lower id of equals.
Best(s, w) ==
  LET Score(r) == w[1] * RpCap[r].range * 25 + w[2] * RpCap[r].speed
      top == {r \in s : \A q \in s : Score(q) <= Score(r)}
  IN CHOOSE r \in top : \A i \in DOMAIN RpRadio : RpRadio[i] \in top \ {r} => \E j \in 1 .. i : RpRadio[j] = r

\* A second radio replicates when a rank deficit has been measured.
Replicates(v) == v.fanout # RpNone /\ v.deficit # RpNone /\ v.deficit >= 1
Chosen(v, c) ==
  LET w     == Weights(v, c)
      first == Best(Fit(v), w)
      rest  == Fit(v) \ {first}
  IN IF Replicates(v) /\ rest # {} THEN <<first, Best(rest, w)>> ELSE <<first>>

\* The least busy channel, one that nobody sensed counting as half busy.
Quietest(v, r) ==
  LET by == [i \in DOMAIN RpCap[r].channels |-> RpOr(v.busy[r][i], 50)]
  IN CHOOSE i \in DOMAIN by : \A j \in DOMAIN by : by[i] < by[j] \/ (by[i] = by[j] /\ i <= j)
Busy(v, r) == RpOr(v.busy[r][Quietest(v, r)], 0)

(* ------------------------------ its parameters ---------------------------- *)
\* Parity for the loss, less when any of several receivers will do and their
\* losses are their own.  Fractions in units of 1/10000.
Pool(n, busy) == 1 + ((Larger(n, 1) - 1) * (100 - busy)) \div 100
PowerOf(p, n) == LET f[i \in 1 .. n] == IF i = 1 THEN p * 100 ELSE (f[i - 1] * p) \div 100 IN f[n]
Parity(v, c, r) ==
  LET any  == IF c.class = "urgent" THEN 1 ELSE Pool(Receivers(v), Busy(v, r))
      lost == Smaller(PowerOf(Smaller(Larger(v.residual, v.lost), 95), any)
                        * (1 + (IF v.fanout = RpNone THEN 0 ELSE v.misses)), 9500)
  IN IF lost < 10 \/ (v.lost = 0 /\ Deficit(v) = 0) THEN 0
     ELSE Smaller((GenerationK * lost + (9999 - lost)) \div (10000 - lost), GenerationK)

\* Power the weakest neighbour can spare, and the scales it is asked on: index
\* steps and whole dB, both in dB below the maximum.
Spare(level, need) == Clamp(level - need - 6, 0, 18)
OnIndex(r, spare) ==
  IF RpCap[r].index = RpNone THEN RpNone
  ELSE LET i == RpCap[r].index IN Smaller((2 * spare + i.step) \div (2 * i.step), i.steps) * i.step
OnDbm(r, spare) == IF RpCap[r].dbm = RpNone THEN RpNone ELSE Smaller(spare, RpCap[r].dbm)

Sf(v, r) == Clamp(pick_sf(Clamp(Effective(v, r), -128, 0), NeedsSf), RpCap[r].sf[1], RpCap[r].sf[2])

LoraParams(v, c, r) ==
  LET sf == Sf(v, r) IN
  [kind |-> "lora", rate |-> -sf, coding |-> IF c.class = "urgent" \/ Broad(v) THEN 2 ELSE 1,
   wide |-> c.class = "bulk" /\ ~Broad(v) /\ v.rssi[r] # RpNone /\ RpOr(v.rssi[r], 0) >= -85,
   fec |-> Parity(v, c, r), need |-> NeedsSf[sf - 6],
   power |-> IF v.rssi[r] = RpNone THEN RpNone ELSE OnDbm(r, Spare(v.rssi[r], NeedsSf[sf - 6]))]

\* The MCS that the level, the SNR and every listener allow.
Ceiling(v, r) == IF RpOr(v.ceiling, 0) >= 1 THEN Smaller(RpCap[r].mcs, v.ceiling) ELSE RpCap[r].mcs
Mcs(v, r) ==
  LET by == BestBelow(Needs, Clamp(Effective(v, r), -110, 0), Ceiling(v, r))
  IN IF v.snr = RpNone THEN by ELSE Smaller(by, BestBelow(NeedsSnr, v.snr, 9))
Narrower(w) == CASE w = 80 -> 40 [] w = 40 -> 20 [] w = 20 -> 10 [] w = 10 -> 5 [] OTHER -> w

\* A plan for zero spare power is a plan for full power.
Asked_none(spare, on) == IF spare = 0 THEN RpNone ELSE on
Asked(spare, on) == on
WifiParams(v, c, r) ==
  LET mcs    == Mcs(v, r)
      level  == DemandSet(v, r)
      busy   == Busy(v, r) >= BusyHigh
      robust == Broad(v) \/ c.class = "urgent" \/ Deficit(v) >= 1
      nss    == IF RpOr(v.ceiling, 9) \in 1 .. 7 THEN 1
                ELSE IF c.class = "bulk" /\ level >= -60 THEN RpCap[r].nss ELSE 1
      he     == RpCap[r].he /\ robust /\ level < -70
      spare  == Spare(level, Needs[mcs + 1])
      index  == OnIndex(r, spare)
  IN [kind |-> "wifi", rate |-> mcs, nss |-> nss, ldpc |-> robust, he |-> he, shortGi |-> level >= -60,
      width |-> IF RpCap[r].widthActuated /\ busy THEN Narrower(RpCap[r].width) ELSE RpCap[r].width,
      vht |-> ~he /\ RpCap[r].width >= 80, aggregate |-> c.class = "bulk" /\ ~robust,
      ignoreEdcca |-> busy /\ c.class = "urgent",
      reducedGain |-> spare > 0, deferAt |-> IF spare = 0 THEN RpNone ELSE -75 + spare,
      fec |-> Parity(v, c, r), need |-> Needs[mcs + 1],
      power |-> Asked(spare, IF index = RpNone THEN OnDbm(r, spare) ELSE index)]

(* -------------------------------- deciding -------------------------------- *)
Suppressed == [suppress |-> TRUE, on |-> <<>>]
Allocation(v, c, r, first) ==
  [radio |-> r, channel |-> RpCap[r].channels[Quietest(v, r)],
   split |-> r # first /\ c.generation /\ RpCap[r].band # RpCap[first].band,
   params |-> IF RpCap[r].kind = "lora" THEN LoraParams(v, c, r) ELSE WifiParams(v, c, r)]
Decision(v, c) ==
  IF (~c.origin /\ ~AddsRank(v)) \/ Fit(v) = {} THEN Suppressed
  ELSE LET chosen == Chosen(v, c)
       IN [suppress |-> FALSE, on |-> [i \in DOMAIN chosen |-> Allocation(v, c, chosen[i], chosen[1])]]

\* What the radio is left at: power is kept when the plan has no opinion.
Applied(p) ==
  [r \in ToSet(RpRadio) |->
     LET for == {i \in DOMAIN p.on : p.on[i].radio = r /\ p.on[i].params.power # RpNone}
     IN IF for = {} THEN backoff[r] ELSE p.on[CHOOSE i \in for : TRUE].params.power]

RpInit ==
  /\ view = [fanout |-> RpNone, deficit |-> RpNone, misses |-> 0, peers |-> 0, holders |-> 0,
             rssi |-> [r \in ToSet(RpRadio) |-> RpNone], snr |-> RpNone, ceiling |-> RpNone,
             busy |-> [r \in ToSet(RpRadio) |-> [i \in DOMAIN RpCap[r].channels |-> RpNone]],
             residual |-> 0, lost |-> 0, spent |-> {}]
  /\ full = [r \in ToSet(RpRadio) |-> RpNone] /\ backoff = [r \in ToSet(RpRadio) |-> 0]
  /\ ctx \in [class : ToSet(Classes), origin : BOOLEAN, generation : BOOLEAN]
  /\ plan = Suppressed /\ rpChanges = 0

Counted == rpChanges < RpChanges /\ rpChanges' = rpChanges + 1

\* decide and act, on a view and a context one of which is new.
decide(v, c) ==
  /\ <<v, c>> # <<view, ctx>> /\ view' = v /\ ctx' = c
  /\ plan' = Decision(v, c)
  /\ backoff' = Applied(plan')
  /\ UNCHANGED full

\* The neighbours move, or come and go; the level is measured as it is heard.
Moves(r) ==
  /\ Counted /\ \E l \in Levels \cup {RpNone} : l # full[r] /\ full' = [full EXCEPT ![r] = l]
  /\ UNCHANGED <<view, ctx, plan, backoff>>
Hears(r) ==
  /\ decide([view EXCEPT !.rssi[r] = IF full[r] = RpNone THEN RpNone ELSE Larger(full[r] - backoff[r], -128)], ctx)
  /\ UNCHANGED rpChanges

SensesDemand ==
  \/ \E x \in Counts \cup {RpNone}, d \in Deficits \cup {RpNone} :
       (x = RpNone => d = RpNone) /\ decide([view EXCEPT !.fanout = x, !.deficit = d], ctx)
  \/ \E x \in 0 .. 1 : view.fanout # RpNone /\ decide([view EXCEPT !.misses = x], ctx)
SensesPeers ==
  \/ \E x \in Counts : decide([view EXCEPT !.peers = x, !.holders = Smaller(@, x)], ctx)
  \/ \E x \in Counts : x <= view.peers /\ decide([view EXCEPT !.holders = x], ctx)
  \/ \E x \in Ceilings \cup {RpNone} : decide([view EXCEPT !.ceiling = x], ctx)
  \/ \E x \in Snrs \cup {RpNone} : decide([view EXCEPT !.snr = x], ctx)
SensesAir ==
  \/ \E x \in Losses : decide([view EXCEPT !.residual = x], ctx)
  \/ \E x \in Losses : decide([view EXCEPT !.lost = x], ctx)
  \/ \E r \in ToSet(RpRadio), x \in BusyPct : \E i \in DOMAIN view.busy[r] : decide([view EXCEPT !.busy[r][i] = x], ctx)
  \/ \E r \in ToSet(RpRadio) :
       RpCap[r].duty < 100 /\ decide([view EXCEPT !.spent = IF r \in @ THEN @ \ {r} ELSE @ \cup {r}], ctx)
Asks == \E class \in ToSet(Classes) : decide(view, [ctx EXCEPT !.class = class])

RpNext ==
  \/ \E r \in ToSet(RpRadio) : Hears(r) \/ Moves(r)
  \/ Counted /\ (SensesDemand \/ SensesPeers \/ SensesAir \/ Asks)

RpSpec == RpInit /\ [][RpNext]_rpVars

(* ------------------------------- properties ------------------------------- *)
Params(p, r) == {p.on[i].params : i \in {j \in DOMAIN p.on : p.on[j].radio = r}}

\* Types of the plan: parity never above the generation, power never off the
\* part's scale, never above the rate of the radio.
RpTypeOK ==
  \A i \in DOMAIN plan.on : LET a == plan.on[i] IN
    /\ a.params.fec \in 0 .. GenerationK /\ a.params.power \in {RpNone} \cup 0 .. 18
    /\ IF a.params.kind = "lora" THEN -a.params.rate \in 7 .. 12
       ELSE a.params.rate \in 0 .. RpCap[a.radio].mcs /\ a.params.nss \in 1 .. RpCap[a.radio].nss

\* Power is trimmed for good reason only, and never like a ratchet: once the
\* node has heard how its weakest neighbour hears it, whatever power that was
\* sent at, the neighbour hears the planned rate with the safety margin, or at
\* the maximum.
PowerServesTheWeakest ==
  \A r \in ToSet(RpRadio) : \A p \in Params(plan, r) :
    view.rssi[r] # RpNone /\ full[r] # RpNone /\ RpOr(view.rssi[r], 0) <= RpOr(full[r], 0) =>
      full[r] - backoff[r] >= Smaller(full[r], p.need + 5)

\* A harder task never gets a faster rate on a radio: more receivers, a weaker
\* level, a more modest listener.
HarderNeverFaster ==
  [][rpVars' # rpVars => \A r \in ToSet(RpRadio) : \A p \in Params(plan, r), q \in Params(plan', r) :
       /\ ctx' = ctx /\ view'.snr = view.snr
       /\ view'.residual >= view.residual
       /\ Receivers(view') >= Receivers(view)
       /\ DemandSet(view', r) <= DemandSet(view, r) /\ RpOr(view'.ceiling, 9) <= RpOr(view.ceiling, 9) /\ RpOr(view'.ceiling, 9) > 0
       => q.rate <= p.rate]_rpVars

\* More loss, of its own or with its neighbours', and a name that everyone must
\* get, never get less parity.
WorseNeverLessParity ==
  [][rpVars' # rpVars => \A r \in ToSet(RpRadio) : \A p \in Params(plan, r), q \in Params(plan', r) :
       /\ Receivers(view') = Receivers(view) /\ Deficit(view') = Deficit(view) /\ view'.misses >= view.misses
       /\ (view'.fanout = RpNone <=> view.fanout = RpNone)
       /\ view'.residual >= view.residual /\ view'.lost >= view.lost
       /\ Busy(view', r) >= Busy(view, r) /\ (ctx'.class = "urgent" \/ ctx.class # "urgent")
       => q.fec >= p.fec]_rpVars

\* A second radio's airtime is spent only on a deficit that was measured.
ReplicatesWhatWasMeasured ==
  Len(plan.on) = 2 => view.deficit # RpNone /\ view.deficit # 0

\* Every listener that said what it decodes decodes the rate.
EveryListenerDecodes ==
  \A i \in DOMAIN plan.on : LET p == plan.on[i].params IN
    p.kind = "wifi" /\ view.ceiling # RpNone /\ view.ceiling # 0 =>
      p.rate <= view.ceiling /\ (view.ceiling <= 7 => p.nss = 1)

\* A plan serves those it is for, and moves the right way with what is sensed.
PlanIsSound ==
  /\ [](RpTypeOK /\ PowerServesTheWeakest /\ ReplicatesWhatWasMeasured /\ EveryListenerDecodes)
  /\ HarderNeverFaster /\ WorseNeverLessParity

=============================================================================
