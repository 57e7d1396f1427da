------------------------------ MODULE Carriers ------------------------------
(* The carriers of a radio: the hops over them, and the activity heard on one.  *)
EXTENDS Arith, FiniteSets, Sequences, SequencesExt

(* The hop plan that two nodes derive from a name (hop.rs: name_hop_plan),     *)
(* each from its own list of carriers, and the carrier each is on.  A keyed    *)
(* draw is any number; what matters is that both nodes get the same.           *)
CONSTANTS
  HpNode,
  HpLists,       \* lists of carriers a node may be configured with, of the same carriers
  HpLen,         \* the length asked for
  MaxCouples,    \* MAX_HOP_COUPLES
  HpDraws,       \* values of a draw
  HpEpochs       \* bound: epochs

ASSUME HpAssumption ==
  /\ MaxCouples \in Nat \ {0} /\ HpLen \in Nat /\ HpDraws \subseteq Nat
  /\ \A s \in HpLists : DOMAIN s = 1 .. Len(s) /\ Len(s) \in Nat /\ ToSet(s) \subseteq Nat
  /\ \A s, t \in HpLists : ToSet(s) = ToSet(t)

VARIABLES
  draw,      \* the keyed hash of the name and an index
  list,      \* the carriers of each node, as configured
  hops,      \* the plan of each node, written so far
  step,      \* index of the next swap of each node
  epoch

hpVars == <<draw, list, hops, step, epoch>>

Sorted_not(s) == s
Sorted(s) == CHOOSE f \in [1 .. Cardinality(ToSet(s)) -> ToSet(s)] : \A i, j \in DOMAIN f : i < j => f[i] < f[j]
Take(s) == Smaller(Smaller(HpLen, Len(s)), MaxCouples)

HpInit ==
  /\ list \in [HpNode -> HpLists] /\ draw \in [0 .. MaxCouples - 1 -> HpDraws]
  /\ hops = [n \in HpNode |-> Sorted(list[n])] /\ step = [n \in HpNode |-> 0] /\ epoch = 0

\* One swap of the shuffle: the carrier at step is drawn from those after it.
Drawn(n, i) == i + (draw[i] % (Len(hops[n]) - i))
Swapped(s, i, j) == [s EXCEPT ![i + 1] = s[j + 1], ![j + 1] = s[i + 1]]
Shuffles(n) == step[n] < Smaller(Take(hops[n]), Minus(Len(hops[n]), 1))
Shuffle(n) ==
  /\ Shuffles(n)
  /\ hops' = [hops EXCEPT ![n] = Swapped(@, step[n], Drawn(n, step[n]))]
  /\ step' = [step EXCEPT ![n] = @ + 1] /\ UNCHANGED <<draw, list, epoch>>

Plan(n) == SubSeq(hops[n], 1, Take(hops[n]))
Ready(n) == ~Shuffles(n)
carrier_at(n) == IF Plan(n) = <<>> THEN 0 ELSE Plan(n)[(epoch % Len(Plan(n))) + 1]
Hop == epoch < HpEpochs /\ epoch' = epoch + 1 /\ UNCHANGED <<draw, list, hops, step>>

HpNext == Hop \/ \E n \in HpNode : Shuffle(n)
HpSpec == HpInit /\ [][HpNext]_hpVars

(* ------------------------------- properties ------------------------------- *)
\* Two nodes are on the same carrier in every epoch, whatever the order in which
\* each lists the carriers, and however often one.
OnTheSameCarrier ==
  \A m, n \in HpNode : Ready(m) /\ Ready(n) /\ Take(hops[m]) > 0 => carrier_at(m) = carrier_at(n)

\* A plan goes through as many carriers as it is long.
HopsAreDistinct ==
  \A n \in HpNode : Ready(n) => /\ Cardinality(ToSet(Plan(n))) = Smaller(Smaller(HpLen, Cardinality(ToSet(list[n]))), MaxCouples)
                                /\ Len(Plan(n)) = Cardinality(ToSet(Plan(n))) /\ ToSet(Plan(n)) \subseteq ToSet(list[n])

----------------------------------------------------------------------------
(* The occupancy sampler (occupancy.rs): a counter of the radio that wraps,    *)
(* read again and again, some reads failing, and the activity made of it.      *)

CONSTANTS
  OcWidth,       \* 2^16: the counter is modulo this
  OcBurst,       \* frames between two ticks
  OcNone,
  OcTicks        \* bound

ASSUME OcAssumption == OcWidth \in Nat \ {0} /\ OcBurst \subseteq Nat /\ OcTicks \in Nat

VARIABLES
  counter,    \* frames counted by the radio, modulo the width
  prev,       \* last reading and ticks since, or OcNone
  activity,   \* last <<frames, ticks>> told to the sink, or OcNone
  passed,     \* history: frames since the reading prev
  ocTicks, running

ocVars == <<counter, prev, activity, passed, ocTicks, running>>

OcInit == /\ counter \in {0, OcWidth - 1} /\ prev = OcNone /\ activity = OcNone /\ passed = 0 /\ ocTicks = 0 /\ running = TRUE

\* activity_rate: the difference of the two readings, as the counter wraps.
activity_rate(was, now) == (now - was + OcWidth) % OcWidth

\* A tick of the sampler after some frames.  A failed read leaves the last one,
\* so that the next is over a longer time.
Sample(frames, outcome) ==
  LET now  == (counter + frames) % OcWidth
      over == IF prev = OcNone THEN 0 ELSE prev.ago + 1
  IN /\ running /\ ocTicks < OcTicks /\ ocTicks' = ocTicks + 1 /\ counter' = now
     /\ running' = (outcome # "unsupported")
     /\ IF outcome = "read"
        THEN /\ activity' = IF prev = OcNone THEN activity ELSE <<activity_rate(prev.at, now), over, passed + frames>>
             /\ prev' = [at |-> now, ago |-> 0] /\ passed' = 0
        ELSE /\ prev' = (IF prev = OcNone THEN OcNone ELSE [prev EXCEPT !.ago = over])
             /\ passed' = passed + frames /\ UNCHANGED activity

OcNext == \E frames \in OcBurst, outcome \in {"read", "failed", "unsupported"} : Sample(frames, outcome)
OcSpec == OcInit /\ [][OcNext]_ocVars

(* ------------------------------- properties ------------------------------- *)
\* The activity is that of the frames there were, over a wrap of the counter and
\* over reads that failed, while fewer than the width passed.
ActivityIsTheFrames == activity # OcNone /\ activity[3] < OcWidth => activity[1] = activity[3] /\ activity[2] > 0

\* Nodes hop alike without a word, and read the air from a counter that wraps.
CarriersInv == OnTheSameCarrier /\ HopsAreDistinct /\ ActivityIsTheFrames
=============================================================================
