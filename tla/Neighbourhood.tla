--------------------------- MODULE Neighbourhood ---------------------------
(* What a node knows of its neighbours (sense.rs: MediumState), and the        *)
(* reception reports by which they tell each other how they are heard          *)
(* (report.rs; control.rs: outgoing_report, ingest_report).                    *)
(*                                                                             *)
(* A measured level is the triple <<sender, its radio, receiver>>: an EWMA is  *)
(* the set of the levels mixed in it, RSSI and SNR alike.  Radio k of a node   *)
(* hears radio k of another.  Times are ages in reporting intervals.           *)
EXTENDS Integers, FiniteSets

CONSTANTS
  CgNode, CgRadio,
  CgNone,
  StaleAge,      \* stale_ms: an age above it is stale
  MaxGap,        \* 64: the largest jump of a sequence number that is a loss
  Back,          \* how far back a restart takes the number (bound)
  MaxEntries,    \* MAX_ENTRIES of a list of a report
  CgFaults       \* bound: reports lost or heard without a level, and crashes

ASSUME CgAssumption ==
  StaleAge \in Nat /\ MaxGap \in Nat \ {0} /\ MaxEntries \in Nat \ {0} /\ Back \in Nat /\ CgNone \notin Int

VARIABLES
  up,        \* the nodes that run
  sent,      \* nodes whose report of this interval is out
  nbr,       \* nbr[m][n]: NeighborState of n at m
  ahead,     \* ahead[m][n]: sequence number of n less the last one m heard
  unheard,   \* history: n has reported since m heard it
  cgFaults

cgVars == <<up, sent, nbr, ahead, unheard, cgFaults>>

Nothing == [r \in CgRadio |-> {}]
Unknown == [seen |-> CgNone, in |-> Nothing, out |-> Nothing, loss |-> {}]

CgInit ==
  /\ up = CgNode /\ sent = {} /\ cgFaults = 0
  /\ nbr = [m \in CgNode |-> [n \in CgNode |-> Unknown]]
  /\ ahead = [m \in CgNode |-> [n \in CgNode |-> CgNone]]
  /\ unheard = [m \in CgNode |-> [n \in CgNode |-> FALSE]]

Known(m) == {n \in CgNode : nbr[m][n].seen # CgNone}
Fresh(m) == {n \in Known(m) : nbr[m][n].seen <= StaleAge}

\* snapshot_report: the fresh neighbours that have been measured, with the level
\* of the best (or worst) radio, as many as the list holds.
Exported(e) == e.in
Measured(n) == {p \in Fresh(n) : Exported(nbr[n][p]) # Nothing}
HeardAt(n) == {Exported(nbr[n][p])[r] : p \in CgNode, r \in CgRadio} \ {{}}
Reports(n) ==
  {heard \in UNION {[E -> HeardAt(n)] : E \in SUBSET Measured(n)} :
     /\ Cardinality(DOMAIN heard) = IF Cardinality(Measured(n)) > MaxEntries THEN MaxEntries
                                    ELSE Cardinality(Measured(n))
     /\ \A p \in DOMAIN heard : \E r \in CgRadio : heard[p] = Exported(nbr[n][p])[r]}

\* observe_heard and observe_rx: own measures to the one map, what the neighbour
\* says to the other, each at the radio that received the report.
Folded(e, r, own, said) == [e EXCEPT !.in[r] = @ \cup own, !.out[r] = @ \cup said]

\* observe_report_seq: a small step forward tells how many reports were lost;
\* any other starts anew.
Lost(gap) == IF gap \in 1 .. MaxGap THEN {gap > 1} ELSE {}

\* Whose report is not for this node.
Refused(m, n) == m = n

\* ingest_report, for a report of n received by m on radio r.
Ingested(m, n, r, known, heard) ==
  LET own  == IF known THEN {<<n, r, m>>} ELSE {}
      said == IF m \in DOMAIN heard THEN heard[m] ELSE {}
  IN [Folded(nbr[m][n], r, own, said) EXCEPT
        !.seen = 0,
        !.loss = @ \cup Lost(IF ahead[m][n] = CgNone THEN CgNone ELSE ahead[m][n] + 1)]

Capped(gap) == IF gap > MaxGap THEN MaxGap + 1 ELSE gap

\* outgoing_report of n, once an interval, as the others receive it: on one
\* radio (copies on the rest are dropped before), with its level or without, or
\* not at all.  The sender's own radios may hear it too.
Broadcast(n) ==
  /\ n \in up \ sent /\ sent' = sent \cup {n}
  /\ \E heard \in Reports(n), at \in SUBSET (up \ {n}), known \in SUBSET CgNode,
        echo \in BOOLEAN, r \in [CgNode -> CgRadio] :
       LET all   == at = up \ {n} /\ known = CgNode
           takes == {m \in at \cup (IF echo THEN {n} ELSE {}) : ~Refused(m, n)}
       IN /\ known \in (SUBSET at) \cup {CgNode} /\ (~all => cgFaults < CgFaults)
          /\ \A m \in CgNode \ takes : r[m] = CHOOSE x \in CgRadio : TRUE
          /\ cgFaults' = cgFaults + (IF all THEN 0 ELSE 1)
          /\ nbr' = [m \in CgNode |-> IF m \in takes
                       THEN [nbr[m] EXCEPT ![n] = Ingested(m, n, r[m], m \in known, heard)] ELSE nbr[m]]
          /\ ahead' = [m \in CgNode |-> [ahead[m] EXCEPT ![n] =
                         IF m \in takes THEN 0 ELSE IF @ = CgNone THEN @ ELSE Capped(@ + 1)]]
          /\ unheard' = [m \in CgNode |-> [unheard[m] EXCEPT ![n] = m \notin takes]]
  /\ UNCHANGED up

\* An interval goes by when every node that runs has made its report.
Interval ==
  /\ up \subseteq sent /\ sent' = {}
  /\ nbr' = [m \in CgNode |-> [n \in CgNode |->
       [nbr[m][n] EXCEPT !.seen = IF @ = CgNone \/ @ > StaleAge THEN @ ELSE @ + 1]]]
  /\ UNCHANGED <<up, ahead, unheard, cgFaults>>

\* A node that stops keeps nothing; its number starts again at zero.
Crash(n) ==
  /\ n \in up /\ cgFaults < CgFaults /\ cgFaults' = cgFaults + 1 /\ up' = up \ {n}
  /\ UNCHANGED <<sent, nbr, ahead, unheard>>

CgRestart(n) ==
  /\ n \notin up /\ up' = up \cup {n} /\ sent' = sent \ {n}
  /\ nbr' = [nbr EXCEPT ![n] = [p \in CgNode |-> Unknown]]
  /\ \E back \in [CgNode -> -Back .. -1] :
       ahead' = [m \in CgNode |-> [p \in CgNode |->
         IF m = n THEN CgNone ELSE IF p = n /\ ahead[m][p] # CgNone THEN back[m] ELSE ahead[m][p]]]
  /\ UNCHANGED <<unheard, cgFaults>>

CgNext == Interval \/ \E n \in CgNode : Broadcast(n) \/ Crash(n) \/ CgRestart(n)

\* The control loop reports each interval, and a node that crashed is started.
CgFair == WF_cgVars(Interval) /\ \A n \in CgNode : WF_cgVars(Broadcast(n)) /\ WF_cgVars(CgRestart(n))
CgSpec == CgInit /\ [][CgNext]_cgVars /\ CgFair

(* ------------------------------ properties ------------------------------- *)
\* Types of the state; only a neighbour that was heard has figures.
CgTypeOK ==
  /\ up \subseteq CgNode /\ sent \subseteq CgNode
  /\ \A m, n \in CgNode :
       /\ nbr[m][n].seen \in {CgNone} \cup 0 .. StaleAge + 1 /\ nbr[m][n].loss \subseteq BOOLEAN
       /\ ahead[m][n] \in {CgNone} \cup -Back .. MaxGap + 1
       /\ nbr[m][n].seen = CgNone <=> ahead[m][n] = CgNone

\* The two directions of a link never mix, however reports chase one another:
\* inbound figures are this node's measures of the neighbour, outbound ones the
\* neighbour's measures of this node.
DirectionsNeverMix ==
  \A m, n \in CgNode, r \in CgRadio :
    /\ \A t \in nbr[m][n].in[r]  : t[1] = n /\ t[3] = m
    /\ \A t \in nbr[m][n].out[r] : t[1] = m /\ t[3] = n

\* A node never counts itself as its neighbour, though its radios hear it.
NeverItsOwnNeighbour == \A m \in CgNode : m \notin Known(m)

NeighbourInv == CgTypeOK /\ DirectionsNeverMix /\ NeverItsOwnNeighbour

\* A report loss is measured only where one was missed: not for a neighbour that
\* restarted and whose numbers went back.
LossOnlyWhenMissed ==
  [][\A m, n \in CgNode : TRUE \in nbr'[m][n].loss \ nbr[m][n].loss => unheard[m][n]]_cgVars

\* Reports bootstrap themselves: once reports arrive, every pair of nodes knows
\* how each is heard by the other, from nothing and after any crash.
CooperationBootstraps == <>[](\A m \in CgNode : \A n \in CgNode \ {m} : nbr[m][n].out # Nothing)

=============================================================================
