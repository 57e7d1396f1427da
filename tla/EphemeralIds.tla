---------------------------- MODULE EphemeralIds ----------------------------
(* Short sender IDs kept apart without beacons (mac/ephemeral_id.rs): a node  *)
(* picks an ID it has not heard lately, a neighbour that hears one ID at two  *)
(* signal strengths says so in a frame of its own, and the holders draw       *)
(* again.  Ordinary frames carry a slice of the sender's map commitment,      *)
(* which receivers compare with theirs.                                       *)
EXTENDS Arith, FiniteSets

CONSTANTS
  IdNode, Id, NoId,
  IdHears,        \* IdHears[n]: the nodes that hear n
  Rssi,         \* Rssi[n][m]: the signal bucket in which m receives n
  IdStale,      \* an overheard ID is taken this long
  IdWindow,     \* two fingerprints this close are an alias
  Slices,       \* COMMITMENT_SLICES
  Debounce,     \* DIVERGENCE_DEBOUNCE
  Maps,         \* folded commitments: functions from 1 .. Slices
  StartIds, StartMaps,  \* the boots explored: sets of functions from IdNode
  IdMaxClock, IdMaxMoves, IdMaxFrames

\* IDs are numbers, and a verdict needs a mismatch.
ASSUME IdsAssumption ==
  /\ Id \subseteq Nat /\ NoId \notin Id
  /\ Slices \in Nat \ {0} /\ Debounce \in Nat \ {0}
  /\ StartIds \subseteq [IdNode -> Id] /\ StartMaps \subseteq [IdNode -> Maps]
  /\ IdWindow \in Nat /\ IdStale \in Nat

VARIABLES
  idClock,        \* ms, from 1: 0 means never
  id, idSeen,     \* EphemeralId
  idLast,         \* AliasDetector: idLast[n][i] = [fp, at]
  hint,         \* pending_hint
  slice,        \* next_slice
  fold,         \* the commitment of the node's own map
  watch,        \* ClassCommitmentWatch: [ours, per]
  idMoves,        \* changes of a map and rotations so far
  idFrames,       \* frames sent so far
  aired,        \* history: <<node, id, time>> of ordinary frames
  under         \* history: under[n][i] = maps of the frames n compared since it last forgot i

idsVars == <<idClock, id, idSeen, idLast, hint, slice, fold, watch, idMoves, idFrames, aired, under>>

(* ------------------------------ EphemeralId ------------------------------ *)
Taken(h, i) == h[i] # 0 /\ Minus(idClock, h[i]) <= IdStale
\* Any free ID, or the one heard longest ago when none is free.
pick_free(h) ==
  LET free == {i \in Id : ~Taken(h, i)}
  IN IF free # {} THEN free
     ELSE {i \in Id : \A j \in Id : h[i] < h[j] \/ (h[i] = h[j] /\ i <= j)}

(* ------------------------------- watch ----------------------------------- *)
NoSlices == [ok |-> {}, bad |-> 0, at |-> 0]
Forgotten == [i \in Id |-> NoSlices]
Divergent(st) == st.bad >= Debounce
Counted(k) == IF k < Debounce THEN k + 1 ELSE k   \* the verdict tells no more apart

\* ClassCommitmentWatch::observe of slice s with bits b, s = 0 for none.
\* A map of one's own that changed keeps the old comparisons.
CompareKeeping(w, i, s, b, mine) ==
  LET st == IF w.per[i].at # 0 /\ Minus(idClock, w.per[i].at) > IdStale THEN NoSlices ELSE w.per[i]
      nx == IF s = 0 THEN st
            ELSE IF mine[s] = b THEN [st EXCEPT !.ok = @ \cup {s}, !.at = idClock]
            ELSE [st EXCEPT !.bad = Counted(@), !.at = idClock]
  IN [ours |-> mine, per |-> [w.per EXCEPT ![i] = nx]]

Compare(w, i, s, b, mine) ==
  LET per == IF mine # w.ours THEN Forgotten ELSE w.per
      st  == IF per[i].at # 0 /\ Minus(idClock, per[i].at) > IdStale THEN NoSlices ELSE per[i]
      nx  == IF s = 0 THEN st
             ELSE IF mine[s] = b THEN [st EXCEPT !.ok = @ \cup {s}, !.at = idClock]
             ELSE [st EXCEPT !.bad = Counted(@), !.at = idClock]
  IN [ours |-> mine, per |-> [per EXCEPT ![i] = nx]]

IdsInit ==
  /\ idClock = 1
  /\ id \in StartIds
  /\ idSeen = [n \in IdNode |-> [i \in Id |-> 0]]
  /\ idLast = [n \in IdNode |-> [i \in Id |-> [fp |-> 0, at |-> 0]]]
  /\ hint = [n \in IdNode |-> NoId] /\ slice = [n \in IdNode |-> 1]
  /\ fold \in StartMaps
  /\ watch = [n \in IdNode |-> [ours |-> NoId, per |-> Forgotten]]
  /\ idMoves = 0 /\ idFrames = 0 /\ aired = {}
  /\ under = [n \in IdNode |-> [i \in Id |-> {}]]

(* ----------------------------- idFrames ------------------------------------ *)
\* tx_id: a pending hint takes the frame, else the own ID and the next slice.
Frame(n) ==
  IF hint[n] # NoId THEN [id |-> hint[n], alias |-> TRUE, slice |-> 0, bits |-> 0]
  ELSE [id |-> id[n], alias |-> FALSE, slice |-> slice[n], bits |-> fold[n][slice[n]]]

\* Slices are sent in turn.
NextSlice(k) == IF k >= Slices THEN 1 ELSE k + 1

\* IdDeconfliction::rx of an ordinary frame: is this ID two transmitters?
Aliased(m, f, fp) ==
  LET l == idLast[m][f.id] IN l.at # 0 /\ Minus(idClock, l.at) <= IdWindow /\ l.fp # fp

Detects(n, f, m) == ~f.alias /\ Aliased(m, f, Rssi[n][m])

\* A node that hears its own ID named draws again.
Redraws(f, m) == f.alias /\ f.id = id[m]

\* n transmits one frame, and the nodes R of those in range receive it.
Transmit(n) == \E R \in SUBSET IdHears[n] :
  LET f == Frame(n)
      heard(m) == [idSeen[m] EXCEPT ![f.id] = idClock]
      forgets(m) == fold[m] # watch[m].ours
      quiet(m) == watch[m].per[f.id].at # 0 /\ Minus(idClock, watch[m].per[f.id].at) > IdStale
  IN /\ hint' = [m \in IdNode |-> IF m = n THEN NoId ELSE IF m \in R /\ Detects(n, f, m) THEN f.id ELSE hint[m]]
     /\ slice' = [slice EXCEPT ![n] = IF f.alias THEN @ ELSE NextSlice(@)]
     /\ idSeen' = [m \in IdNode |-> IF m \in R /\ (~f.alias \/ Redraws(f, m)) THEN heard(m) ELSE idSeen[m]]
     /\ idLast' = [m \in IdNode |-> IF m \in R /\ ~f.alias
                                THEN [idLast[m] EXCEPT ![f.id] = [fp |-> Rssi[n][m], at |-> idClock]] ELSE idLast[m]]
     /\ id' \in [IdNode -> Id]
     /\ \A m \in IdNode : IF m \in R /\ Redraws(f, m) THEN id'[m] \in pick_free(heard(m)) ELSE id'[m] = id[m]
     /\ watch' = [m \in IdNode |-> IF m \in R /\ ~f.alias THEN Compare(watch[m], f.id, f.slice, f.bits, fold[m]) ELSE watch[m]]
     /\ under' = [m \in IdNode |-> IF m \notin R \/ f.alias THEN under[m]
                   ELSE [i \in Id |-> (IF forgets(m) \/ (i = f.id /\ quiet(m)) THEN {} ELSE under[m][i])
                                       \cup (IF i = f.id THEN {fold[n]} ELSE {})]]
     /\ aired' = IF f.alias THEN aired ELSE aired \cup {<<n, f.id, idClock>>}
     /\ idFrames < IdMaxFrames /\ idFrames' = idFrames + 1
     /\ UNCHANGED <<idClock, fold, idMoves>>

\* The rotation period ends.
Rotate(n) ==
  /\ idMoves < IdMaxMoves /\ idMoves' = idMoves + 1
  /\ \E i \in pick_free(idSeen[n]) : id' = [id EXCEPT ![n] = i]
  /\ UNCHANGED <<idClock, idSeen, idLast, hint, slice, fold, watch, idFrames, aired, under>>

\* A node's slot map changes.
MapMoves(n) ==
  /\ idMoves < IdMaxMoves /\ idMoves' = idMoves + 1
  /\ \E f \in Maps \ {fold[n]} : fold' = [fold EXCEPT ![n] = f]
  /\ UNCHANGED <<idClock, id, idSeen, idLast, hint, slice, watch, idFrames, aired, under>>

IdsPass == idClock < IdMaxClock /\ idClock' = idClock + 1 /\ UNCHANGED <<id, idSeen, idLast, hint, slice, fold, watch, idMoves, idFrames, aired, under>>

IdsNext == IdsPass \/ \E n \in IdNode : Transmit(n) \/ Rotate(n) \/ MapMoves(n)
IdsSpec == IdsInit /\ [][IdsNext]_idsVars

(* ------------------------------ properties ------------------------------- *)
\* Types of the state.
IdsTypeOK ==
  /\ id \in [IdNode -> Id] /\ hint \in [IdNode -> Id \cup {NoId}]
  /\ slice \in [IdNode -> 1 .. Slices] /\ fold \in [IdNode -> Maps]
  /\ \A n \in IdNode, i \in Id : idSeen[n][i] <= idClock /\ idLast[n][i].at <= idClock /\ watch[n].per[i].at <= idClock

\* With steady signal strengths an ID is called an alias only when two nodes
\* have sent ordinary frames under it within a window: no hint, rotation or
\* hand-over of an ID brings a node to accuse a lone holder.
HintsNameSharedIds ==
  \A n \in IdNode : hint[n] # NoId =>
    \E x, y \in aired : x[1] # y[1] /\ x[2] = hint[n] /\ y[2] = hint[n] /\ x[3] <= y[3] /\ y[3] - x[3] <= IdWindow

\* An ID is called divergent only when a frame with another map was heard under
\* it: aliases, hints, losses and changes of one's own map fabricate nothing.
NoneAccusedFalsely ==
  \A n \in IdNode, i \in Id : Divergent(watch[n].per[i]) => \E f \in under[n][i] : f # watch[n].ours

\* Nobody takes an ID over from a node it can still hear, while one is free; and
\* when none is, it takes over the one it has not heard for longest.
TakenOverLast(h, i) == \A j \in Id : Taken(h, j) /\ h[i] <= h[j]
NoIdTakenOver ==
  [][\A n \in IdNode : id'[n] # id[n] =>
       ~Taken(idSeen'[n], id'[n]) \/ TakenOverLast(idSeen'[n], id'[n])]_idsVars

\* What the IDs promise their holders: none is accused, none is robbed.
AliasesAreSettled == [](IdsTypeOK /\ HintsNameSharedIds /\ NoneAccusedFalsely) /\ NoIdTakenOver
=============================================================================
