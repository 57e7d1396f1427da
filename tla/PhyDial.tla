------------------------------ MODULE PhyDial ------------------------------
(* The modulation dial (phy.rs: PhyDial::evaluate) of each of a group of nodes.*)
(* Nobody negotiates a move: nodes in different modes do not hear each other,  *)
(* and silence is what takes a node back.  But the silence is not this radio's *)
(* own: the peers of every radio of the node count.  Times are ages in ticks   *)
(* of the control loop, margins are in steps over the anchor.                  *)
EXTENDS Arith, FiniteSets, Sequences

CONSTANTS
  PdNode,
  PdElsewhere,              \* the nodes that may hear peers over another radio
  PdNone,
  UpMargin, DownMargin,     \* up_margin_db, down_margin_db
  Confirm, Dwell, Silence,  \* min_confirmations, min_dwell_ms, peer_silence_ms
  PenaltyStep, MaxPenalty,  \* silence_penalty_db, max_penalty_db
  Margins,                  \* margins that are measured
  ActiveNames               \* sequences of the classes decided in a tick that use this radio

ASSUME PdAssumption ==
  /\ PdElsewhere \subseteq PdNode
  /\ DownMargin < UpMargin /\ Confirm \in Nat \ {0} /\ Silence \in Nat /\ Dwell \in Nat
  /\ MaxPenalty \in Nat /\ PenaltyStep \in Nat

VARIABLES
  dial,     \* DialState of each node
  apart     \* history: the ticks in a row at whose ends the modes differed, in which the dial of
            \*   every node was run and none was deceived

pdVars == <<dial, apart>>

AgeCap == Larger(Dwell, Silence)
Parked(mode) == [mode |-> mode, wants |-> PdNone, confirmations |-> 0, since |-> 0, ever |-> FALSE,
                 peer |-> PdNone, penalty |-> 0, forgive |-> 0]

\* The dial believes what the radio declares at first.
PdInit ==
  /\ \E m \in [PdNode -> {"reach", "rate"}] : dial = [n \in PdNode |-> Parked(m[n])]
  /\ apart = 0

\* Heard nobody for long enough.
Quiet_never(d) == FALSE
Quiet(d) == (IF d.peer # PdNone THEN d.peer ELSE d.since) >= Silence
Retreated(d) ==
  [d EXCEPT !.mode = "reach", !.wants = PdNone, !.confirmations = 0, !.since = 0, !.ever = TRUE, !.peer = PdNone,
            !.penalty = Smaller(@ + PenaltyStep, MaxPenalty), !.forgive = Dwell]

\* A node that hears somebody: at the rendezvous it forgives a step at a time.
Heard(d) ==
  IF d.mode = "reach" /\ d.penalty > 0 /\ d.forgive = 0
    THEN [d EXCEPT !.penalty = Larger(@ - PenaltyStep, 0), !.forgive = Dwell, !.peer = 0]
    ELSE [d EXCEPT !.peer = 0]

\* Where this evaluation wants to be; PdNone for no opinion.
Target(d, bulk, m) ==
  IF m = PdNone THEN PdNone
  ELSE IF bulk /\ m >= UpMargin + d.penalty THEN "rate"
  ELSE IF m < DownMargin \/ (~bulk /\ d.mode # "rate") THEN "reach" ELSE PdNone

\* A move is confirmed several times, and not soon after the last one.
Cooled(d) == ~d.ever \/ d.since >= Dwell
Confirmed(d, target, have) ==
  LET c == IF d.wants = target THEN d.confirmations + 1 ELSE 1 IN
  IF target = PdNone THEN d
  ELSE IF target = d.mode THEN [d EXCEPT !.wants = PdNone, !.confirmations = 0]
  ELSE IF c < Confirm \/ ~Cooled(d) THEN [d EXCEPT !.wants = target, !.confirmations = Smaller(c, Confirm)]
  ELSE [d EXCEPT !.mode = target, !.wants = PdNone, !.confirmations = 0, !.since = 0, !.ever = TRUE,
                 !.peer = IF have THEN 0 ELSE PdNone]

evaluate(d, bulk, m, have) ==
  IF d.mode = "rate" /\ ~have /\ Quiet(d) THEN Retreated(d)
  ELSE LET e == IF have THEN Heard(d) ELSE d IN Confirmed(e, Target(e, bulk, m), have)

\* The names decided in one tick all move the one dial, on the same measure.
Decided(n, names, m, have) ==
  LET d[i \in 0 .. Len(names)] == IF i = 0 THEN dial[n] ELSE evaluate(d[i - 1], names[i] = "bulk", m, have)
  IN d

Older(age) == IF age = PdNone \/ age >= AgeCap THEN age ELSE age + 1
Aged(d) == [d EXCEPT !.since = Older(@), !.peer = Older(@), !.forgive = Minus(@, 1)]

Together == \A m, n \in PdNode : dial[m].mode = dial[n].mode
Reachable(n) == \E m \in PdNode \ {n} : dial[m].mode = dial[n].mode

\* What a tick may make of node n, by what it hears, measures and decides: the
\* count of receivers is of all its radios, and no name may use this one.
Outcomes(n) ==
  {[dial |-> Aged(Decided(n, names, m, have)[Len(names)]), deceived |-> have /\ ~Reachable(n), idle |-> names = <<>>] :
     have \in (IF Reachable(n) \/ n \in PdElsewhere THEN BOOLEAN ELSE {FALSE}),
     m \in Margins \cup {PdNone}, names \in ActiveNames}

\* A tick of every node.
PdTick ==
  \E all \in {[n \in PdNode |-> Outcomes(n)]} :
    \E next \in {f \in [PdNode -> UNION {all[n] : n \in PdNode}] : \A n \in PdNode : f[n] \in all[n]} :
      /\ dial' = [n \in PdNode |-> next[n].dial]
      /\ apart' = IF Together' \/ \E n \in PdNode : next[n].deceived \/ next[n].idle THEN 0
                  ELSE Smaller(apart + 1, 2 * AgeCap + 2)

PdSpec == PdInit /\ [][PdTick]_pdVars

(* ------------------------------ properties ------------------------------- *)
\* Types of the state.
PdTypeOK ==
  \A n \in PdNode : LET d == dial[n] IN
    /\ d.penalty \in 0 .. MaxPenalty /\ d.confirmations \in 0 .. Confirm
    /\ d.wants # PdNone <=> d.confirmations > 0 /\ d.wants # d.mode

\* Two nodes that lose each other both end up at the rendezvous, however their
\* measures differ: in ticks that give the dial of each something to decide, and
\* in which no node counts a peer it hears over another radio only, they are in
\* different modes for at most two silences, the second for a node that left as
\* the other came back.  Outside such ticks nothing brings them together: with a
\* peer elsewhere a node in the rate mode, deaf on this radio, never retreats
\* (policy.rs:491), nor does one that decides nothing on it (phy.rs:264-267).
LostPeersMeet == apart <= 2 * Silence + 2

\* The rate mode is left and entered at will once per cool-down; only silence
\* goes faster, and never up.
NoFasterThanTheCoolDown ==
  [][\A n \in PdNode : dial[n].mode = "reach" /\ dial'[n].mode = "rate" /\ dial[n].ever => dial[n].since >= Dwell]_pdVars

\* A failed excursion raises the bar for the next one, until the node has been
\* back among its peers for a cool-down.
FailuresRaiseTheBar ==
  [][\A n \in PdNode :
       dial[n].mode = "rate" /\ dial'[n].mode = "reach" /\ dial'[n].forgive = Dwell - 1 =>
         dial'[n].penalty = Smaller(dial[n].penalty + PenaltyStep, MaxPenalty)]_pdVars

\* Nodes may try the fast mode and never lose each other over it for long.
DialIsSound == [](PdTypeOK /\ LostPeersMeet) /\ NoFasterThanTheCoolDown /\ FailuresRaiseTheBar

=============================================================================
