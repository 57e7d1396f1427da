----------------------------- MODULE Mac_proofs -----------------------------
(***************************************************************************)
(* Sender IDs, rendezvous and admission: for any number of nodes and IDs,  *)
(* whoever hears whom, whatever is lost, any slot map; for any epoch, slot *)
(* count, guard and hash; for any buckets, keys that share them and load.  *)
(* And the slot map and what nodes share of it: for any slots, stride and  *)
(* instant, any registrations and changes of the parameters, any clocks.   *)
(* And the cooperative relays: for any mesh, topology and jitter, whatever *)
(* is lost or forgotten.                                                   *)
(***************************************************************************)
EXTENDS EphemeralIds, Rendezvous, DosGate, CoopRelay, SlotScheduleWalk, SchedMap, FiniteSetTheorems, SequenceTheorems, WellFoundedInduction, SlotSchedule_proofs

(* A non-empty set of naturals has a least element. *)
LEMMA LeastNat ==
  ASSUME NEW T \in SUBSET Nat, T # {}
  PROVE  \E x \in T : \A y \in T : x <= y
<1> DEFINE R == {p \in Nat \X Nat : p[1] < p[2]}
<1>1. IsWellFoundedOn(OpToRel(<, Nat), Nat)
  BY NatLessThanWellFounded
<1>2. OpToRel(<, Nat) = R
  BY DEF OpToRel
<1>3. IsWellFoundedOn(R, Nat)
  BY <1>1, <1>2
<1> HIDE DEF R
<1>4. \E x \in T : \A y \in T : <<y, x>> \notin R
  BY <1>3, WFMin
<1>5. ASSUME NEW x \in T, NEW y \in T, <<y, x>> \notin R
      PROVE  x <= y
  BY <1>5 DEF R
<1> QED BY <1>4, <1>5

(* ------------------------------ sender IDs ------------------------------ *)
(* The signal buckets a receiver can have noted. *)
Levels == {Rssi[n][m] : n \in IdNode, m \in IdNode} \cup {0}

IdsShape ==
  /\ idClock \in Nat \ {0}
  /\ id \in [IdNode -> Id] /\ hint \in [IdNode -> Id \cup {NoId}]
  /\ slice \in [IdNode -> 1 .. Slices] /\ fold \in [IdNode -> Maps]
  /\ idSeen \in [IdNode -> [Id -> 0 .. idClock]]
  /\ idLast \in [IdNode -> [Id -> [fp : Levels, at : 0 .. idClock]]]
  /\ DOMAIN watch = IdNode
  /\ \A n \in IdNode : watch[n].per \in [Id -> [ok : SUBSET (1 .. Slices), bad : Nat, at : 0 .. idClock]]
  /\ DOMAIN under = IdNode /\ \A n \in IdNode : DOMAIN under[n] = Id
  /\ aired \subseteq IdNode \X Id \X (0 .. idClock)

(* What a detector remembers of an ID was on the air: a frame under that ID,   *)
(* then, by a node received at that strength.                                  *)
NotedWasAired ==
  \A m \in IdNode, i \in Id : idLast[m][i].at # 0 =>
    \E x \in aired : x[2] = i /\ x[3] = idLast[m][i].at /\ Rssi[x[1]][m] = idLast[m][i].fp

(* The first mismatch already takes a frame with another map. *)
MismatchesHaveACause ==
  \A n \in IdNode, i \in Id : watch[n].per[i].bad # 0 => \E f \in under[n][i] : f # watch[n].ours

IdsInv == IdsShape /\ HintsNameSharedIds /\ NotedWasAired /\ MismatchesHaveACause

LEMMA IdsInitInv == IdsInit => IdsInv
<1> SUFFICES ASSUME IdsInit PROVE IdsInv
  OBVIOUS
<1>1. /\ idClock = 1 /\ id \in [IdNode -> Id] /\ fold \in [IdNode -> Maps]
      /\ idSeen = [n \in IdNode |-> [i \in Id |-> 0]]
      /\ idLast = [n \in IdNode |-> [i \in Id |-> [fp |-> 0, at |-> 0]]]
      /\ hint = [n \in IdNode |-> NoId] /\ slice = [n \in IdNode |-> 1]
      /\ watch = [n \in IdNode |-> [ours |-> NoId, per |-> [i \in Id |-> [ok |-> {}, bad |-> 0, at |-> 0]]]]
      /\ aired = {} /\ under = [n \in IdNode |-> [i \in Id |-> {}]]
  BY IdsAssumption DEF IdsInit, Forgotten, NoSlices
<1>2. IdsShape
  BY <1>1, IdsAssumption DEF IdsShape, Levels
<1>3. HintsNameSharedIds /\ NotedWasAired /\ MismatchesHaveACause
  BY <1>1 DEF HintsNameSharedIds, NotedWasAired, MismatchesHaveACause
<1> QED BY <1>2, <1>3 DEF IdsInv

(* A node draws an ID of the space, a free one unless none is. *)
LEMMA Picked ==
  ASSUME NEW h \in [Id -> Nat], NEW i \in pick_free(h)
  PROVE  i \in Id /\ (~Taken(h, i) \/ TakenOverLast(h, i))
<1> DEFINE free == {j \in Id : ~Taken(h, j)}
<1>1. CASE free # {}
  BY <1>1 DEF pick_free
<1>2. CASE free = {}
  <2>1. i \in Id /\ \A j \in Id : h[i] < h[j] \/ (h[i] = h[j] /\ i <= j)
    BY <1>2 DEF pick_free
  <2>2. \A j \in Id : h[i] \in Nat /\ h[j] \in Nat
    BY <2>1
  <2>3. \A j \in Id : Taken(h, j)
    BY <1>2
  <2> HIDE DEF free
  <2>4. \A j \in Id : h[i] <= h[j]
    BY <2>1, <2>2
  <2> QED BY <2>1, <2>3, <2>4 DEF TakenOverLast
<1> QED BY <1>1, <1>2

(* A frame carries an ID of the space; an ordinary one a slice of the map. *)
LEMMA FrameFacts ==
  ASSUME IdsShape, NEW n \in IdNode
  PROVE  /\ Frame(n).id \in Id /\ Frame(n).alias \in BOOLEAN
         /\ ~Frame(n).alias => Frame(n).slice \in 1 .. Slices /\ Frame(n).bits = fold[n][Frame(n).slice]
<1>1. CASE hint[n] # NoId
  BY <1>1 DEF Frame, IdsShape
<1>2. CASE hint[n] = NoId
  BY <1>2 DEF Frame, IdsShape
<1> QED BY <1>1, <1>2

(* The comparisons with an ID have aged away when it is heard again. *)
LongQuiet(w, i) == w.per[i].at # 0 /\ Minus(idClock, w.per[i].at) > IdStale

(* One comparison: a mismatch counted afresh is with the map of the frame. *)
LEMMA Compared ==
  ASSUME NEW w, w.per \in [Id -> [ok : SUBSET (1 .. Slices), bad : Nat, at : 0 .. idClock]],
         NEW i \in Id, NEW s \in 1 .. Slices, NEW b, NEW mine, idClock \in Nat
  PROVE  /\ Compare(w, i, s, b, mine).ours = mine
         /\ Compare(w, i, s, b, mine).per \in [Id -> [ok : SUBSET (1 .. Slices), bad : Nat, at : 0 .. idClock]]
         /\ \A j \in Id : Compare(w, i, s, b, mine).per[j].bad # 0 =>
              \/ j = i /\ mine[s] # b
              \/ mine = w.ours /\ w.per[j].bad # 0 /\ ~(j = i /\ LongQuiet(w, i))
<1> DEFINE T == [ok : SUBSET (1 .. Slices), bad : Nat, at : 0 .. idClock]
           per == IF mine # w.ours THEN Forgotten ELSE w.per
           st  == IF per[i].at # 0 /\ Minus(idClock, per[i].at) > IdStale THEN NoSlices ELSE per[i]
           nx  == IF s = 0 THEN st
                  ELSE IF mine[s] = b THEN [st EXCEPT !.ok = @ \cup {s}, !.at = idClock]
                  ELSE [st EXCEPT !.bad = Counted(@), !.at = idClock]
<1>1. NoSlices \in T /\ NoSlices.bad = 0 /\ NoSlices.at = 0
  BY DEF NoSlices
<1>2. per \in [Id -> T]
  BY <1>1 DEF Forgotten
<1>3. \A j \in Id : per[j].bad # 0 => mine = w.ours /\ per[j] = w.per[j]
  BY <1>1 DEF Forgotten
<1>4. st \in T /\ (st.bad # 0 => mine = w.ours /\ w.per[i].bad # 0 /\ ~LongQuiet(w, i))
  BY <1>1, <1>2, <1>3 DEF LongQuiet
<1>5. Compare(w, i, s, b, mine) = [ours |-> mine, per |-> [per EXCEPT ![i] = nx]]
  BY DEF Compare
<1> HIDE DEF st, per
<1>6. Counted(st.bad) \in Nat /\ s # 0
  BY <1>4, IdsAssumption DEF Counted
<1>7. nx \in T /\ (nx.bad # 0 => mine[s] # b \/ st.bad # 0)
  <2>1. CASE mine[s] = b
    <3>1. nx = [st EXCEPT !.ok = st.ok \cup {s}, !.at = idClock]
      BY <1>6, <2>1
    <3>2. nx.bad = st.bad
      BY <1>4, <3>1
    <3>3. st.ok \cup {s} \in SUBSET (1 .. Slices) /\ idClock \in 0 .. idClock
      BY <1>4
    <3>4. nx \in T
      BY <1>4, <3>1, <3>3
    <3> QED BY <3>2, <3>4
  <2>2. CASE mine[s] # b
    <3>1. nx = [st EXCEPT !.bad = Counted(st.bad), !.at = idClock]
      BY <1>6, <2>2
    <3>2. idClock \in 0 .. idClock
      OBVIOUS
    <3>3. nx \in T
      BY <1>4, <1>6, <3>1, <3>2
    <3> QED BY <2>2, <3>3
  <2> QED BY <2>1, <2>2
<1> HIDE DEF nx
<1>8. [per EXCEPT ![i] = nx] \in [Id -> T]
  BY <1>2, <1>7
<1>9. ASSUME NEW j \in Id, [per EXCEPT ![i] = nx][j].bad # 0
      PROVE  \/ j = i /\ mine[s] # b
             \/ mine = w.ours /\ w.per[j].bad # 0 /\ ~(j = i /\ LongQuiet(w, i))
  <2>1. CASE j = i
    BY <1>2, <1>4, <1>7, <1>9, <2>1
  <2>2. CASE j # i
    BY <1>2, <1>3, <1>9, <2>2
  <2> QED BY <2>1, <2>2
<1> QED BY <1>5, <1>8, <1>9

(* Time passes, a node rotates, or a slot map moves: nothing is noted. *)
LEMMA IdsQuiet ==
  ASSUME IdsInv, IdsPass \/ UNCHANGED idsVars \/ \E n \in IdNode : Rotate(n) \/ MapMoves(n)
  PROVE  IdsInv'
<1>1. /\ UNCHANGED <<idSeen, idLast, hint, slice, watch, aired, under>>
      /\ idClock \in Nat \ {0} /\ idClock' \in Nat \ {0} /\ idClock <= idClock'
  BY DEF IdsInv, IdsShape, IdsPass, Rotate, MapMoves, idsVars
<1>2. id' \in [IdNode -> Id]
  <2>1. CASE \E n \in IdNode : Rotate(n)
    <3>1. PICK n \in IdNode : \E i \in pick_free(idSeen[n]) : id' = [id EXCEPT ![n] = i]
      BY <2>1 DEF Rotate
    <3>2. PICK i \in pick_free(idSeen[n]) : id' = [id EXCEPT ![n] = i]
      BY <3>1
    <3>3. i \in Id
      BY DEF pick_free
    <3> QED BY <3>2, <3>3 DEF IdsInv, IdsShape
  <2>2. CASE id' = id
    BY <2>2 DEF IdsInv, IdsShape
  <2> QED BY <2>1, <2>2 DEF IdsPass, MapMoves, idsVars
<1>3. fold' \in [IdNode -> Maps]
  BY DEF IdsInv, IdsShape, IdsPass, Rotate, MapMoves, idsVars
<1>4. 0 .. idClock \subseteq 0 .. idClock'
  BY <1>1
<1>5. IdsShape'
  <2>1. /\ idSeen \in [IdNode -> [Id -> 0 .. idClock']]
        /\ idLast \in [IdNode -> [Id -> [fp : Levels, at : 0 .. idClock']]]
        /\ aired \subseteq IdNode \X Id \X (0 .. idClock')
    BY <1>4 DEF IdsInv, IdsShape
  <2>2. \A n \in IdNode : watch[n].per \in [Id -> [ok : SUBSET (1 .. Slices), bad : Nat, at : 0 .. idClock']]
    BY <1>4 DEF IdsInv, IdsShape
  <2> QED BY <1>1, <1>2, <1>3, <2>1, <2>2 DEF IdsInv, IdsShape
<1>6. HintsNameSharedIds' /\ NotedWasAired' /\ MismatchesHaveACause'
  BY <1>1 DEF IdsInv, HintsNameSharedIds, NotedWasAired, MismatchesHaveACause
<1> QED BY <1>5, <1>6 DEF IdsInv

(* A frame is heard by some of those in range. *)
LEMMA IdsHeard ==
  ASSUME IdsInv, NEW n \in IdNode, Transmit(n)
  PROVE  IdsInv'
<1> DEFINE f == Frame(n)
           quiet(m) == watch[m].per[f.id].at # 0 /\ Minus(idClock, watch[m].per[f.id].at) > IdStale
           forgets(m) == fold[m] # watch[m].ours
<1>1. PICK R \in SUBSET IdHears[n] :
        /\ hint' = [m \in IdNode |-> IF m = n THEN NoId ELSE IF m \in R /\ Detects(n, f, m) THEN f.id ELSE hint[m]]
        /\ slice' = [slice EXCEPT ![n] = IF f.alias THEN @ ELSE NextSlice(@)]
        /\ idSeen' = [m \in IdNode |-> IF m \in R /\ (~f.alias \/ Redraws(f, m)) THEN [idSeen[m] EXCEPT ![f.id] = idClock] ELSE idSeen[m]]
        /\ idLast' = [m \in IdNode |-> IF m \in R /\ ~f.alias
                                THEN [idLast[m] EXCEPT ![f.id] = [fp |-> Rssi[n][m], at |-> idClock]] ELSE idLast[m]]
        /\ watch' = [m \in IdNode |-> IF m \in R /\ ~f.alias THEN Compare(watch[m], f.id, f.slice, f.bits, fold[m]) ELSE watch[m]]
        /\ under' = [m \in IdNode |-> IF m \notin R \/ f.alias THEN under[m]
                   ELSE [i \in Id |-> (IF forgets(m) \/ (i = f.id /\ quiet(m)) THEN {} ELSE under[m][i])
                                       \cup (IF i = f.id THEN {fold[n]} ELSE {})]]
  BY DEF Transmit
<1>2. /\ id' \in [IdNode -> Id] /\ UNCHANGED <<idClock, fold>>
      /\ aired' = IF f.alias THEN aired ELSE aired \cup {<<n, f.id, idClock>>}
  BY DEF Transmit
<1>3. /\ f.id \in Id /\ f.alias \in BOOLEAN
      /\ ~f.alias => f.slice \in 1 .. Slices /\ f.bits = fold[n][f.slice]
  BY FrameFacts DEF IdsInv
<1>4. idClock \in Nat \ {0} /\ IdsShape
  BY DEF IdsInv, IdsShape
<1> HIDE DEF f
<1>5. IdsShape'
  <2>1. hint' \in [IdNode -> Id \cup {NoId}]
    BY <1>1, <1>3, <1>4 DEF IdsShape
  <2>2. slice' \in [IdNode -> 1 .. Slices]
    <3>1. \A k \in 1 .. Slices : NextSlice(k) \in 1 .. Slices
      BY IdsAssumption DEF NextSlice
    <3> QED BY <1>1, <1>4, <3>1 DEF IdsShape
  <2>3. idSeen' \in [IdNode -> [Id -> 0 .. idClock]]
    <3>1. \A m \in IdNode : idSeen[m] \in [Id -> 0 .. idClock] /\ idClock \in 0 .. idClock
      BY <1>4 DEF IdsShape
    <3>2. \A m \in IdNode : [idSeen[m] EXCEPT ![f.id] = idClock] \in [Id -> 0 .. idClock]
      BY <3>1
    <3> QED BY <1>1, <3>1, <3>2
  <2>4. idLast' \in [IdNode -> [Id -> [fp : Levels, at : 0 .. idClock]]]
    <3>1. \A m \in IdNode : [fp |-> Rssi[n][m], at |-> idClock] \in [fp : Levels, at : 0 .. idClock]
      BY <1>4 DEF Levels
    <3> QED BY <1>1, <1>4, <3>1 DEF IdsShape
  <2>5. DOMAIN watch' = IdNode
    BY <1>1
  <2>6. ASSUME NEW m \in IdNode
        PROVE  watch'[m].per \in [Id -> [ok : SUBSET (1 .. Slices), bad : Nat, at : 0 .. idClock]]
    <3>1. CASE m \in R /\ ~f.alias
      <4>1. watch'[m] = Compare(watch[m], f.id, f.slice, f.bits, fold[m])
        BY <1>1, <3>1
      <4>2. watch[m].per \in [Id -> [ok : SUBSET (1 .. Slices), bad : Nat, at : 0 .. idClock]]
        BY <1>4 DEF IdsShape
      <4>3. Compare(watch[m], f.id, f.slice, f.bits, fold[m]).per
              \in [Id -> [ok : SUBSET (1 .. Slices), bad : Nat, at : 0 .. idClock]]
        BY <1>3, <1>4, <3>1, <4>2, Compared
      <4> QED BY <4>1, <4>3
    <3>2. CASE ~(m \in R /\ ~f.alias)
      BY <1>1, <1>4, <3>2 DEF IdsShape
    <3> QED BY <3>1, <3>2
  <2>7. DOMAIN under' = IdNode /\ \A m \in IdNode : DOMAIN under'[m] = Id
    BY <1>1, <1>4 DEF IdsShape
  <2>8. aired' \subseteq IdNode \X Id \X (0 .. idClock)
    <3>1. <<n, f.id, idClock>> \in IdNode \X Id \X (0 .. idClock)
      BY <1>3, <1>4
    <3> QED BY <1>2, <1>4, <3>1 DEF IdsShape
  <2> QED BY <1>2, <1>4, <2>1, <2>2, <2>3, <2>4, <2>5, <2>6, <2>7, <2>8 DEF IdsShape
(* What is noted of this frame is what it was on the air. *)
<1>6. NotedWasAired'
  <2> SUFFICES ASSUME NEW m \in IdNode, NEW i \in Id, idLast'[m][i].at # 0
               PROVE  \E x \in aired' : x[2] = i /\ x[3] = idLast'[m][i].at /\ Rssi[x[1]][m] = idLast'[m][i].fp
    BY DEF NotedWasAired
  <2>1. CASE m \in R /\ ~f.alias /\ i = f.id
    <3>1. DOMAIN idLast[m] = Id
      BY <1>4 DEF IdsShape
    <3>2. idLast'[m][i] = [fp |-> Rssi[n][m], at |-> idClock]
      BY <1>1, <2>1, <3>1
    <3>3. <<n, i, idClock>> \in aired'
      BY <1>2, <2>1
    <3> QED BY <3>2, <3>3
  <2>2. CASE ~(m \in R /\ ~f.alias /\ i = f.id)
    <3>1. idLast'[m][i] = idLast[m][i]
      BY <1>1, <1>4, <2>2 DEF IdsShape
    <3>2. aired \subseteq aired'
      BY <1>2
    <3> QED BY <3>1, <3>2 DEF IdsInv, NotedWasAired
  <2> QED BY <2>1, <2>2
(* A detector that speaks up has two transmitters: this one and the one noted. *)
<1>7. HintsNameSharedIds'
  <2> SUFFICES ASSUME NEW m \in IdNode, hint'[m] # NoId
               PROVE  \E x, y \in aired' : x[1] # y[1] /\ x[2] = hint'[m] /\ y[2] = hint'[m] /\ x[3] <= y[3] /\ y[3] - x[3] <= IdWindow
    BY DEF HintsNameSharedIds
  <2>1. CASE m \in R /\ Detects(n, f, m)
    <3>1. /\ hint'[m] = f.id /\ ~f.alias /\ idLast[m][f.id].at # 0
          /\ Minus(idClock, idLast[m][f.id].at) <= IdWindow /\ idLast[m][f.id].fp # Rssi[n][m]
      BY <1>1, <2>1 DEF Detects, Aliased
    <3>2. PICK x \in aired : x[2] = f.id /\ x[3] = idLast[m][f.id].at /\ Rssi[x[1]][m] = idLast[m][f.id].fp
      BY <1>3, <3>1 DEF IdsInv, NotedWasAired
    <3>3. x[3] \in 0 .. idClock
      BY <1>4 DEF IdsShape
    <3>4. idClock - x[3] <= IdWindow
      BY <1>4, <3>1, <3>2, <3>3, IdsAssumption DEF Minus
    <3>5. <<n, f.id, idClock>> \in aired' /\ x \in aired'
      BY <1>2, <3>1
    <3>6. x[1] # n
      BY <3>1, <3>2
    <3> DEFINE y == <<n, f.id, idClock>>
    <3>7. y[1] = n /\ y[2] = f.id /\ y[3] = idClock
      OBVIOUS
    <3> HIDE DEF y
    <3>8. y \in aired'
      BY <3>5 DEF y
    <3> QED BY <1>4, <3>1, <3>2, <3>3, <3>4, <3>5, <3>6, <3>7, <3>8
  <2>2. CASE ~(m \in R /\ Detects(n, f, m))
    <3>1. hint'[m] = hint[m] /\ aired \subseteq aired'
      BY <1>1, <1>2, <2>2
    <3> QED BY <3>1 DEF IdsInv, HintsNameSharedIds
  <2> QED BY <2>1, <2>2
(* A mismatch is with a map just heard, or the one it was with before. *)
<1>8. MismatchesHaveACause'
  <2> SUFFICES ASSUME NEW m \in IdNode, NEW i \in Id, watch'[m].per[i].bad # 0
               PROVE  \E g \in under'[m][i] : g # watch'[m].ours
    BY DEF MismatchesHaveACause
  <2>1. CASE m \in R /\ ~f.alias
    <3>1. watch'[m] = Compare(watch[m], f.id, f.slice, f.bits, fold[m])
      BY <1>1, <2>1
    <3>2. /\ watch'[m].ours = fold[m]
          /\ \/ i = f.id /\ fold[m][f.slice] # f.bits
             \/ fold[m] = watch[m].ours /\ watch[m].per[i].bad # 0 /\ ~(i = f.id /\ quiet(m))
      <4>1. watch[m].per \in [Id -> [ok : SUBSET (1 .. Slices), bad : Nat, at : 0 .. idClock]]
        BY <1>4 DEF IdsShape
      <4>2. f.id \in Id /\ f.slice \in 1 .. Slices /\ idClock \in Nat
        BY <1>3, <1>4, <2>1
      <4> DEFINE w == watch[m]
                 mine == fold[m]
                 c == Compare(w, f.id, f.slice, f.bits, mine)
      <4> HIDE DEF quiet, forgets
      <4>3. /\ c.ours = mine
            /\ \A j \in Id : c.per[j].bad # 0 =>
                 \/ j = f.id /\ mine[f.slice] # f.bits
                 \/ mine = w.ours /\ w.per[j].bad # 0 /\ ~(j = f.id /\ LongQuiet(w, f.id))
        <5> DEFINE a == f.id
                   s == f.slice
                   b == f.bits
        <5>1. w.per \in [Id -> [ok : SUBSET (1 .. Slices), bad : Nat, at : 0 .. idClock]] /\ a \in Id /\ s \in 1 .. Slices /\ idClock \in Nat
          BY <4>1, <4>2
        <5> HIDE DEF w, mine, a, s, b
        <5>2. /\ Compare(w, a, s, b, mine).ours = mine
              /\ \A j \in Id : Compare(w, a, s, b, mine).per[j].bad # 0 =>
                   \/ j = a /\ mine[s] # b
                   \/ mine = w.ours /\ w.per[j].bad # 0 /\ ~(j = a /\ LongQuiet(w, a))
          BY ONLY <5>1, Compared
        <5> QED BY <5>2 DEF a, s, b
      <4>4. watch'[m] = c
        BY <3>1
      <4>5. (i = f.id /\ LongQuiet(w, f.id)) <=> (i = f.id /\ quiet(m))
        BY DEF LongQuiet, quiet
      <4> HIDE DEF c, w, mine
      <4>6. c.per[i].bad # 0
        BY <4>4
      <4>7. \/ i = f.id /\ mine[f.slice] # f.bits
            \/ mine = w.ours /\ w.per[i].bad # 0 /\ ~(i = f.id /\ LongQuiet(w, f.id))
        BY <4>3, <4>6
      <4> QED BY <4>3, <4>4, <4>5, <4>7 DEF w, mine
    <3>3. under'[m][i] = (IF forgets(m) \/ (i = f.id /\ quiet(m)) THEN {} ELSE under[m][i])
                           \cup (IF i = f.id THEN {fold[n]} ELSE {})
      BY <1>1, <2>1
    <3> HIDE DEF quiet
    <3>4. CASE i = f.id /\ fold[m][f.slice] # f.bits
      BY <1>3, <2>1, <3>2, <3>3, <3>4
    <3>5. CASE fold[m] = watch[m].ours /\ watch[m].per[i].bad # 0 /\ ~(i = f.id /\ quiet(m))
      BY <3>2, <3>3, <3>5 DEF IdsInv, MismatchesHaveACause
    <3> QED BY <3>2, <3>4, <3>5
  <2>2. CASE ~(m \in R /\ ~f.alias)
    <3>1. watch'[m] = watch[m] /\ under'[m] = under[m]
      BY <1>1, <2>2
    <3> QED BY <3>1 DEF IdsInv, MismatchesHaveACause
  <2> QED BY <2>1, <2>2
<1> QED BY <1>5, <1>6, <1>7, <1>8 DEF IdsInv

(* Whoever takes an ID takes a free one, or there is none. *)
LEMMA IdsTaken ==
  ASSUME IdsInv, IdsInv', [IdsNext]_idsVars, NEW n \in IdNode, id'[n] # id[n]
  PROVE  ~Taken(idSeen'[n], id'[n]) \/ TakenOverLast(idSeen'[n], id'[n])
<1>1. PICK x \in IdNode : Transmit(x) \/ Rotate(x)
  BY DEF IdsNext, IdsPass, MapMoves, idsVars
<1>2. id'[n] \in pick_free(idSeen'[n])
  <2>1. CASE Transmit(x)
    <3> DEFINE f == Frame(x)
    <3>1. PICK R \in SUBSET IdHears[x] :
            /\ idSeen' = [m \in IdNode |-> IF m \in R /\ (~f.alias \/ Redraws(f, m)) THEN [idSeen[m] EXCEPT ![f.id] = idClock] ELSE idSeen[m]]
            /\ \A m \in IdNode : IF m \in R /\ Redraws(f, m) THEN id'[m] \in pick_free([idSeen[m] EXCEPT ![f.id] = idClock]) ELSE id'[m] = id[m]
      BY <2>1 DEF Transmit
    <3> HIDE DEF f
    <3>2. n \in R /\ Redraws(f, n)
      BY <3>1
    <3> QED BY <3>1, <3>2
  <2>2. CASE Rotate(x)
    <3>1. PICK i \in pick_free(idSeen[x]) : id' = [id EXCEPT ![x] = i]
      BY <2>2 DEF Rotate
    <3>2. n = x /\ idSeen' = idSeen
      BY <2>2, <3>1 DEF Rotate, IdsInv, IdsShape
    <3> QED BY <3>1, <3>2 DEF IdsInv, IdsShape
  <2> QED BY <1>1, <2>1, <2>2
<1>3. idSeen'[n] \in [Id -> Nat]
  BY DEF IdsInv, IdsShape
<1>4. \A i \in pick_free(idSeen'[n]) : ~Taken(idSeen'[n], i) \/ TakenOverLast(idSeen'[n], i)
  <2> DEFINE h == idSeen'[n]
  <2>1. h \in [Id -> Nat]
    BY <1>3
  <2> HIDE DEF h
  <2> QED BY <2>1, Picked DEF h
<1> QED BY <1>2, <1>4

(* The parts of the type invariant that the run checks, and the verdicts. *)
LEMMA IdsPromise == IdsInv => IdsTypeOK /\ HintsNameSharedIds /\ NoneAccusedFalsely
<1> SUFFICES ASSUME IdsInv PROVE IdsTypeOK /\ NoneAccusedFalsely
  BY DEF IdsInv
<1>1. IdsTypeOK
  BY DEF IdsInv, IdsShape, IdsTypeOK
<1>2. NoneAccusedFalsely
  <2> SUFFICES ASSUME NEW n \in IdNode, NEW i \in Id, Divergent(watch[n].per[i])
               PROVE  \E f \in under[n][i] : f # watch[n].ours
    BY DEF NoneAccusedFalsely
  <2>1. watch[n].per[i].bad # 0
    BY IdsAssumption DEF Divergent, IdsInv, IdsShape
  <2> QED BY <2>1 DEF IdsInv, MismatchesHaveACause
<1> QED BY <1>1, <1>2

(***************************************************************************)
(* An ID is called an alias only when two nodes sent under it within a     *)
(* window, a map divergent only when another map was heard, and no ID is   *)
(* taken from a node still heard while one is free, nor while another has  *)
(* been silent longer, for any topology, losses, rotations and changes of  *)
(* the maps (IdDeconfliction, watch).                                      *)
(***************************************************************************)
THEOREM AliasesSettle == IdsSpec => AliasesAreSettled
<1>1. IdsInv /\ [IdsNext]_idsVars => IdsInv'
  BY IdsQuiet, IdsHeard DEF IdsNext
<1>2. IdsInv /\ [IdsNext]_idsVars =>
        [\A n \in IdNode : id'[n] # id[n] =>
           ~Taken(idSeen'[n], id'[n]) \/ TakenOverLast(idSeen'[n], id'[n])]_idsVars
  BY <1>1, IdsTaken
<1>3. IdsInv => IdsTypeOK /\ HintsNameSharedIds /\ NoneAccusedFalsely
  BY IdsPromise
<1> QED BY <1>1, <1>2, <1>3, IdsInitInv, PTL DEF IdsSpec, AliasesAreSettled, NoIdTakenOver

(* ------------------------------ rendezvous ------------------------------ *)
(* A slot is not empty. *)
SlotsFit == PhaseSlots <= EpochUs

LEMMA SlotWidth ==
  ASSUME SlotsFit
  PROVE  SlotUs \in Nat \ {0} /\ PhaseSlots * SlotUs <= EpochUs
<1> DEFINE r == EpochUs % PhaseSlots
<1>1. SlotUs \in Nat /\ r \in 0 .. PhaseSlots - 1 /\ EpochUs = PhaseSlots * SlotUs + r
  BY RendezvousAssumption, DivMod DEF SlotUs
<1> HIDE DEF r
<1>2. SlotUs = 0 => PhaseSlots * SlotUs = 0
  BY RendezvousAssumption
<1>3. PhaseSlots * SlotUs \in Nat
  BY <1>1, RendezvousAssumption
<1> QED BY <1>1, <1>2, <1>3, RendezvousAssumption DEF SlotsFit

(* Where an instant lies in its epoch. *)
LEMMA EpochParts ==
  ASSUME NEW t \in Nat
  PROVE  /\ epoch(t) \in Nat /\ t % EpochUs \in 0 .. EpochUs - 1
         /\ t = EpochUs * epoch(t) + (t % EpochUs) /\ EpochUs * epoch(t) \in Nat
<1>1. epoch(t) \in Nat /\ t % EpochUs \in 0 .. EpochUs - 1 /\ t = EpochUs * epoch(t) + (t % EpochUs)
  BY RendezvousAssumption, DivMod DEF epoch
<1> QED BY <1>1, RendezvousAssumption

LEMMA EpochIs ==
  ASSUME NEW e \in Nat, NEW r \in 0 .. EpochUs - 1
  PROVE  epoch(EpochUs * e + r) = e
BY RendezvousAssumption, QuotientUnique DEF epoch

(* The instant's own epoch draws one slot for all of its instants. *)
LEMMA PhaseFacts ==
  ASSUME SlotsFit, draw \in [0 .. Epochs + 1 -> 0 .. MaxDraw], NEW t \in Nat, epoch(t) <= Epochs + 1
  PROVE  /\ phase_slot(t) \in 0 .. PhaseSlots - 1
         /\ phase_slot(t) * SlotUs \in Nat
         /\ phase_slot(t) * SlotUs + SlotUs <= EpochUs
<1> DEFINE d == draw[epoch(t)]
           q == d \div PhaseShift
           p == q % PhaseSlots
<1>1. d \in Nat
  <2>1. epoch(t) \in Nat
    BY EpochParts
  <2>2. epoch(t) \in 0 .. Epochs + 1
    BY <2>1, RendezvousAssumption
  <2>3. draw[epoch(t)] \in 0 .. MaxDraw
    BY <2>2
  <2> QED BY <2>3, RendezvousAssumption
<1> HIDE DEF d
<1>2. q \in Nat
  BY <1>1, RendezvousAssumption, DivMod
<1> HIDE DEF q
<1>3. p \in 0 .. PhaseSlots - 1
  BY <1>2, RendezvousAssumption, DivMod
<1>4. phase_slot(t) = p
  BY DEF phase_slot, p, q, d
<1> HIDE DEF p
<1> DEFINE S == SlotUs
<1>5. S \in Nat \ {0} /\ PhaseSlots * S <= EpochUs
  BY SlotWidth
<1> HIDE DEF S
<1>6. PICK k \in Nat : PhaseSlots = p + 1 + k
  BY <1>3, RendezvousAssumption
<1>7. p * S \in Nat /\ k * S \in Nat /\ p \in Nat
  BY <1>3, <1>5, <1>6
<1>8. PhaseSlots * S = p * S + S + k * S
  BY <1>5, <1>6, <1>7
<1>9. p * S + S <= EpochUs
  BY <1>5, <1>7, <1>8, RendezvousAssumption
<1> QED BY <1>3, <1>4, <1>7, <1>9 DEF S

(* The window of an instant, from the beginning of its epoch. *)
LEMMA WindowFacts ==
  ASSUME SlotsFit, draw \in [0 .. Epochs + 1 -> 0 .. MaxDraw], NEW t \in Nat, epoch(t) <= Epochs + 1
  PROVE  /\ in_listen_window(t) <=>
               /\ t >= EpochUs * epoch(t) + phase_slot(t) * SlotUs - GuardUs
               /\ t < EpochUs * epoch(t) + phase_slot(t) * SlotUs + SlotUs + GuardUs
<1> DEFINE a == epoch(t) * EpochUs
           b == phase_slot(t) * SlotUs
<1>1. a \in Nat /\ a = EpochUs * epoch(t)
  <2> DEFINE e == epoch(t)
  <2>1. e \in Nat
    BY EpochParts
  <2> HIDE DEF e
  <2>2. e * EpochUs \in Nat /\ e * EpochUs = EpochUs * e
    BY <2>1, RendezvousAssumption
  <2> QED BY <2>2 DEF e
<1>2. b \in Nat /\ SlotUs \in Nat
  BY PhaseFacts, SlotWidth
<1>3. phase_window_us(t) = [from |-> Minus(a + b, GuardUs), to |-> a + b + SlotUs + GuardUs]
  BY DEF phase_window_us
<1> HIDE DEF a, b
<1>4. t >= Minus(a + b, GuardUs) <=> t >= a + b - GuardUs
  BY <1>1, <1>2, RendezvousAssumption DEF Minus
<1>5. in_listen_window(t) <=> t >= a + b - GuardUs /\ t < a + b + SlotUs + GuardUs
  BY <1>3, <1>4 DEF in_listen_window
<1> QED BY <1>1, <1>5 DEF b

(* Within an epoch, one draw. *)
LEMMA OneDraw ==
  ASSUME NEW t, NEW u, epoch(t) = epoch(u)
  PROVE  phase_slot(t) = phase_slot(u) /\ channel(t) = channel(u)
BY DEF phase_slot, channel

(* The clock of the run stays in the epochs drawn for. *)
RvShape ==
  /\ draw \in [0 .. Epochs + 1 -> 0 .. MaxDraw]
  /\ rvNow \in Nat /\ epoch(rvNow) <= Epochs

LEMMA EpochDrawn ==
  ASSUME RvShape
  PROVE  rvNow \in Nat /\ epoch(rvNow) \in Nat /\ epoch(rvNow) <= Epochs + 1 /\ epoch(rvNow) <= Epochs
<1> DEFINE e == epoch(rvNow)
<1>1. rvNow \in Nat /\ e <= Epochs
  BY DEF RvShape
<1>2. e \in Nat
  BY <1>1, EpochParts
<1> HIDE DEF e
<1>3. e <= Epochs + 1
  BY <1>1, <1>2, RendezvousAssumption
<1> QED BY <1>1, <1>2, <1>3 DEF e

LEMMA RvNowInRange ==
  ASSUME NEW t \in Nat, t < (Epochs + 1) * EpochUs
  PROVE  epoch(t) <= Epochs
<1> DEFINE e == epoch(t)
           r == t % EpochUs
<1>1. e \in Nat /\ r \in 0 .. EpochUs - 1 /\ t = EpochUs * e + r /\ EpochUs * e \in Nat
  BY EpochParts
<1> HIDE DEF e, r
<1> SUFFICES ASSUME Epochs + 1 <= e PROVE FALSE
  BY <1>1, RendezvousAssumption DEF e
<1>2. PICK k \in Nat : e = Epochs + 1 + k
  BY <1>1, RendezvousAssumption
<1>3. EpochUs * e = (Epochs + 1) * EpochUs + EpochUs * k
  BY <1>1, <1>2, RendezvousAssumption
<1>4. EpochUs * k \in Nat /\ (Epochs + 1) * EpochUs \in Nat
  BY <1>2, RendezvousAssumption
<1> QED BY <1>1, <1>3, <1>4

(* A sender in the slot finds the sleeper awake, on its channel. *)
LEMMA PairMeets ==
  ASSUME SlotsFit, RvShape
  PROVE  SkewedPairMeets
<1> SUFFICES ASSUME InSlot(rvNow), NEW d \in -Smaller(Skew, GuardUs) .. Smaller(Skew, GuardUs),
                    rvNow + d >= 0, epoch(rvNow + d) = epoch(rvNow)
             PROVE  in_listen_window(rvNow + d) /\ channel(rvNow + d) = channel(rvNow)
  BY DEF SkewedPairMeets
<1> DEFINE e == epoch(rvNow)
           r == rvNow % EpochUs
           S == SlotUs
           p == phase_slot(rvNow)
           u == rvNow + d
           a == EpochUs * e
           x == r % S
           b == p * S
<1>1. d \in Int /\ d <= GuardUs /\ d >= -GuardUs
  BY RendezvousAssumption DEF Smaller
<1>2. u \in Nat /\ rvNow \in Nat
  BY <1>1 DEF RvShape
<1>3. a \in Nat /\ r \in 0 .. EpochUs - 1 /\ rvNow = a + r
  BY <1>2, EpochParts
<1>4. S \in Nat \ {0} /\ p \in 0 .. PhaseSlots - 1 /\ b \in Nat
  <2>1. epoch(rvNow) <= Epochs + 1
    BY EpochDrawn
  <2> QED BY <1>2, <2>1, SlotWidth, PhaseFacts DEF RvShape
<1>5. r \in Nat /\ r \div S = p
  BY <1>3, RendezvousAssumption DEF InSlot
<1>6. x \in 0 .. S - 1 /\ r = S * (r \div S) + x
  <2> HIDE DEF S, r
  <2> QED BY <1>4, <1>5, DivMod
<1>7. phase_slot(u) = p /\ channel(u) = channel(rvNow)
  BY OneDraw
<1>8. in_listen_window(u) <=> u >= a + b - GuardUs /\ u < a + b + S + GuardUs
  <2>1. epoch(u) = e /\ epoch(u) <= Epochs + 1
    BY EpochDrawn
  <2>2. in_listen_window(u) <=>
          /\ u >= EpochUs * epoch(u) + phase_slot(u) * SlotUs - GuardUs
          /\ u < EpochUs * epoch(u) + phase_slot(u) * SlotUs + SlotUs + GuardUs
    BY <1>2, <2>1, WindowFacts DEF RvShape
  <2> QED BY <1>7, <2>1, <2>2
<1> HIDE DEF S, r, x, p, a
<1>9. r = b + x
  <2>1. S * p = p * S
    BY <1>4
  <2> QED BY <1>5, <1>6, <2>1
<1> HIDE DEF b
<1>10. in_listen_window(u)
  BY <1>1, <1>3, <1>4, <1>6, <1>8, <1>9, RendezvousAssumption
<1> QED BY <1>7, <1>10

(* The window of an epoch: where it begins, and that it holds its beginning    *)
(* when it does not begin before the epoch.                                    *)
LEMMA WindowOpens ==
  ASSUME SlotsFit, draw \in [0 .. Epochs + 1 -> 0 .. MaxDraw], NEW e \in Nat, e <= Epochs + 1
  PROVE  LET b == phase_slot(e * EpochUs) * SlotUs
         IN /\ b \in Nat /\ epoch(e * EpochUs) = e
            /\ WindowStart(e) = Minus(EpochUs * e + b, GuardUs)
            /\ WindowStart(e) \in Nat /\ WindowStart(e) < EpochUs * e + EpochUs
            /\ WindowStart(e) >= EpochUs * e => epoch(WindowStart(e)) = e /\ in_listen_window(WindowStart(e))
<1> DEFINE b == phase_slot(e * EpochUs) * SlotUs
           a == EpochUs * e
           w == Minus(a + b, GuardUs)
<1>1. a \in Nat /\ e * EpochUs = a
  BY RendezvousAssumption
<1>2. epoch(e * EpochUs) = e
  <2>1. 0 \in 0 .. EpochUs - 1
    BY RendezvousAssumption
  <2>2. epoch(EpochUs * e + 0) = e
    BY <2>1, EpochIs
  <2>3. a + 0 = a
    BY <1>1
  <2> QED BY <1>1, <2>2, <2>3
<1>3. b \in Nat /\ b + SlotUs <= EpochUs /\ SlotUs \in Nat \ {0}
  BY <1>1, <1>2, PhaseFacts, SlotWidth
<1>4. WindowStart(e) = w
  BY <1>1 DEF WindowStart
<1> HIDE DEF a, b
<1>5. w \in Nat /\ w < a + EpochUs
  BY <1>1, <1>3, RendezvousAssumption DEF Minus
<1>6. ASSUME w >= a PROVE epoch(w) = e /\ in_listen_window(w)
  <2>1. PICK r \in 0 .. EpochUs - 1 : w = a + r
    <3>1. w - a \in 0 .. EpochUs - 1 /\ w = a + (w - a)
      BY <1>1, <1>5, <1>6, RendezvousAssumption
    <3> QED BY <3>1
  <2> HIDE DEF w
  <2>2. epoch(w) = e
    BY <2>1, EpochIs DEF a
  <2>3. phase_slot(w) * SlotUs = b
    BY <1>2, <2>2, OneDraw DEF b
  <2>4. in_listen_window(w) <=> w >= a + b - GuardUs /\ w < a + b + SlotUs + GuardUs
    <3>1. w \in Nat /\ epoch(w) <= Epochs + 1
      BY <1>5, <2>2
    <3>2. in_listen_window(w) <=>
            /\ w >= EpochUs * epoch(w) + phase_slot(w) * SlotUs - GuardUs
            /\ w < EpochUs * epoch(w) + phase_slot(w) * SlotUs + SlotUs + GuardUs
      BY <3>1, WindowFacts
    <3> QED BY <2>2, <2>3, <3>2 DEF a
  <2> QED BY <1>1, <1>3, <2>2, <2>4, RendezvousAssumption DEF Minus, w
<1> QED BY <1>2, <1>3, <1>4, <1>5, <1>6 DEF a, b

(* The wait that is computed leads into the next window, or there is none. *)
LEMMA WaitIsRight ==
  ASSUME SlotsFit, RvShape
  PROVE  WaitEndsAtTheNextWindow
<1> DEFINE n == rvNow
           e == epoch(n)
           a == EpochUs * e
           b == phase_slot(n) * SlotUs
           S == SlotUs
           c == phase_slot((e + 1) * EpochUs) * SlotUs
           lead == next_window_us(n)
           v == WindowStart(e)
           w == WindowStart(e + 1)
<1> SUFFICES ASSUME c >= GuardUs
             PROVE  in_listen_window(n + lead) /\ \A t \in n .. n + lead - 1 : ~in_listen_window(t)
  BY DEF WaitEndsAtTheNextWindow
<1>1. /\ n \in Nat /\ e \in Nat /\ e <= Epochs /\ e <= Epochs + 1 /\ e + 1 <= Epochs + 1 /\ e + 1 \in Nat
      /\ draw \in [0 .. Epochs + 1 -> 0 .. MaxDraw]
  <2>1. n \in Nat /\ e \in Nat /\ e <= Epochs
    BY EpochDrawn
  <2> HIDE DEF e
  <2> QED BY <2>1, RendezvousAssumption DEF RvShape
<1>2. S \in Nat \ {0} /\ b \in Nat /\ b + S <= EpochUs
  BY <1>1, SlotWidth, PhaseFacts
<1>3. a \in Nat /\ a <= n /\ n < a + EpochUs
  <2> DEFINE r == n % EpochUs
  <2>1. a \in Nat /\ r \in 0 .. EpochUs - 1 /\ n = a + r
    BY <1>1, EpochParts
  <2> HIDE DEF a, r
  <2> QED BY <2>1, RendezvousAssumption
(* The window of this epoch and that of the next. *)
<1>4. /\ v = Minus(a + b, GuardUs) /\ v \in Nat
      /\ v >= a => in_listen_window(v)
  <2>1. epoch(e * EpochUs) = e
    BY <1>1, WindowOpens
  <2>2. phase_slot(e * EpochUs) = phase_slot(n)
    BY <2>1, OneDraw
  <2> QED BY <1>1, <2>2, WindowOpens
<1>5. /\ w = a + EpochUs + c - GuardUs /\ w \in Nat /\ w >= a + EpochUs /\ in_listen_window(w)
      /\ epoch(w) = e + 1 /\ c \in Nat /\ w < a + EpochUs + EpochUs
  <2>1. EpochUs * (e + 1) = a + EpochUs
    BY <1>1, RendezvousAssumption
  <2>2. /\ c \in Nat /\ w = Minus(EpochUs * (e + 1) + c, GuardUs)
        /\ w \in Nat /\ w < EpochUs * (e + 1) + EpochUs
        /\ w >= EpochUs * (e + 1) => epoch(w) = e + 1 /\ in_listen_window(w)
    BY <1>1, WindowOpens
  <2> HIDE DEF w, c, a
  <2>3. w = a + EpochUs + c - GuardUs /\ w >= a + EpochUs
    BY <1>3, <2>1, <2>2, RendezvousAssumption DEF Minus
  <2> QED BY <2>1, <2>2, <2>3
(* When an instant of this epoch, or of the next before w, is in a window. *)
<1>6. ASSUME NEW t \in Nat, a <= t, t < a + EpochUs
      PROVE  in_listen_window(t) <=> t >= a + b - GuardUs /\ t < a + b + S + GuardUs
  <2>1. PICK r \in 0 .. EpochUs - 1 : t = a + r
    <3>1. t - a \in 0 .. EpochUs - 1 /\ t = a + (t - a)
      <4> HIDE DEF a
      <4> QED BY <1>3, <1>6, RendezvousAssumption
    <3> QED BY <3>1
  <2>2. epoch(t) = e
    BY <1>1, <2>1, EpochIs
  <2>3. phase_slot(t) = phase_slot(n)
    BY <2>2, OneDraw
  <2> QED BY <1>1, <2>2, <2>3, WindowFacts
<1>7. ASSUME NEW t \in Nat, a + EpochUs <= t, t < w
      PROVE  ~in_listen_window(t)
  <2>1. PICK r \in 0 .. EpochUs - 1 : t = a + EpochUs + r
    <3>1. t - (a + EpochUs) \in 0 .. EpochUs - 1 /\ t = a + EpochUs + (t - (a + EpochUs))
      <4> HIDE DEF a, w
      <4> QED BY <1>3, <1>5, <1>7, RendezvousAssumption
    <3> QED BY <3>1
  <2>2. EpochUs * (e + 1) = a + EpochUs
    BY <1>1, RendezvousAssumption
  <2>3. epoch(t) = e + 1
    BY <1>1, <2>1, <2>2, EpochIs
  <2>4. phase_slot(t) * SlotUs = c
    <3>1. epoch((e + 1) * EpochUs) = e + 1
      BY <1>1, WindowOpens
    <3> QED BY <2>3, <3>1, OneDraw
  <2>5. in_listen_window(t) => t >= EpochUs * (e + 1) + phase_slot(t) * SlotUs - GuardUs
    BY <1>1, <2>3, WindowFacts
  <2> HIDE DEF w, a, c
  <2> QED BY <1>3, <1>5, <1>7, <2>2, <2>4, <2>5, RendezvousAssumption
<1>8. CASE in_listen_window(n)
  <2>1. lead = 0
    BY <1>8 DEF next_window_us
  <2> HIDE DEF lead
  <2> QED BY <1>1, <1>8, <2>1
<1>9. CASE ~in_listen_window(n) /\ v >= n
  <2>1. lead = v - n
    BY <1>9 DEF next_window_us
  <2> HIDE DEF lead, v, a, b, S
  <2>2. n + lead = v /\ v >= a
    BY <1>1, <1>3, <1>4, <1>9, <2>1
  <2>3. ASSUME NEW t \in n .. n + lead - 1 PROVE ~in_listen_window(t)
    <3>1. t \in Nat /\ a <= t /\ t < v
      <4>1. t \in n .. v - 1
        <5>1. n + lead - 1 = v - 1
          <6> HIDE DEF n
          <6> QED BY <1>1, <1>4, <2>1
        <5> QED BY <5>1
      <4>2. n \in Nat /\ v \in Nat /\ a \in Nat /\ a <= n
        BY <1>1, <1>3, <1>4
      <4> HIDE DEF n
      <4> QED BY <4>1, <4>2
    <3>2. v = a + b - GuardUs
      BY <1>2, <1>3, <1>4, <1>9, <3>1, RendezvousAssumption DEF Minus
    <3>3. t < a + EpochUs
      BY <1>2, <1>3, <3>1, <3>2, RendezvousAssumption
    <3> QED BY <1>2, <1>3, <1>6, <3>1, <3>2, <3>3, RendezvousAssumption
  <2> QED BY <1>4, <2>2, <2>3
<1>10. CASE ~in_listen_window(n) /\ ~(v >= n)
  <2> HIDE DEF v, w
  <2>1. w >= n
    <3> HIDE DEF a, n
    <3> QED BY <1>1, <1>3, <1>5, RendezvousAssumption
  <2>2. lead = w - n
    BY <1>10, <2>1 DEF next_window_us, v, w
  <2>3. in_listen_window(n) <=> n >= a + b - GuardUs /\ n < a + b + S + GuardUs
    BY <1>1, <1>3, <1>6
  <2> HIDE DEF lead, a, b, S
  <2>4. n + lead = w
    BY <1>1, <1>5, <2>2
  <2>5. n >= a + b + S + GuardUs
    BY <1>1, <1>2, <1>3, <1>4, <1>10, <2>3, RendezvousAssumption DEF Minus
  <2>6. ASSUME NEW t \in n .. n + lead - 1 PROVE ~in_listen_window(t)
    <3>1. t \in Nat /\ n <= t /\ t < w
      BY <1>1, <1>5, <2>2, <2>4
    <3>2. CASE t < a + EpochUs
      BY <1>1, <1>2, <1>3, <1>6, <2>5, <3>1, <3>2, RendezvousAssumption
    <3>3. CASE t >= a + EpochUs
      BY <1>7, <3>1, <3>3
    <3> QED BY <1>3, <3>1, <3>2, <3>3, RendezvousAssumption
  <2> QED BY <1>5, <2>4, <2>6
<1> QED BY <1>8, <1>9, <1>10

(***************************************************************************)
(* A sender and a sleeper a guard apart meet in the slot and on one        *)
(* channel while they are in one epoch, and a sender that waits finds the  *)
(* next window and skips none if the window of the next epoch opens within *)
(* that epoch, for any epoch length, number of slots, guard and hash.  One *)
(* that opens before its epoch is left out: the wait for it ends when      *)
(* nobody listens (rendezvous.rs:120-122).                                 *)
(***************************************************************************)
THEOREM RendezvousMeets ==
  ASSUME SlotsFit
  PROVE  RendezvousSpec => []RendezvousInv
<1> DEFINE Inv == RvShape /\ rvNow <= (Epochs + 1) * EpochUs - 1
<1>1. RendezvousInit => Inv
  <2> SUFFICES ASSUME RendezvousInit PROVE Inv
    OBVIOUS
  <2> DEFINE T == (Epochs + 1) * EpochUs
  <2>1. T \in Nat \ {0}
    <3>1. T = Epochs * EpochUs + EpochUs /\ Epochs * EpochUs \in Nat
      BY RendezvousAssumption
    <3> HIDE DEF T
    <3> QED BY <3>1, RendezvousAssumption
  <2>2. rvNow \in Nat /\ rvNow < T
    <3> HIDE DEF T
    <3> QED BY <2>1 DEF RendezvousInit
  <2> QED BY <2>1, <2>2, RvNowInRange DEF RendezvousInit, RvShape
<1>2. Inv /\ [RendezvousNext]_rendezvousVars => Inv'
  <2> SUFFICES ASSUME Inv, RendezvousNext PROVE Inv'
    BY DEF rendezvousVars, RvShape, epoch
  <2> DEFINE T == (Epochs + 1) * EpochUs
  <2>1. T \in Int /\ rvNow \in Nat /\ rvNow < T - 1 /\ rvNow' = rvNow + 1 /\ draw' = draw
    BY RendezvousAssumption DEF RendezvousNext, RvShape
  <2>2. rvNow' \in Nat /\ rvNow' < T /\ rvNow' <= T - 1
    <3> HIDE DEF T
    <3> QED BY <2>1
  <2>3. epoch(rvNow') <= Epochs
    BY <2>2, RvNowInRange
  <2> QED BY <2>1, <2>2, <2>3 DEF RvShape, epoch
<1>3. Inv => RendezvousInv
  <2> SUFFICES ASSUME Inv PROVE RendezvousInv
    OBVIOUS
  <2> DEFINE T == (Epochs + 1) * EpochUs
  <2>1. T \in Int /\ rvNow \in Nat /\ rvNow <= T - 1
    BY RendezvousAssumption DEF RvShape
  <2>2. rvNow \in 0 .. T - 1
    <3> HIDE DEF T
    <3> QED BY <2>1
  <2>3. phase_slot(rvNow) \in 0 .. PhaseSlots - 1
    BY EpochDrawn, PhaseFacts DEF RvShape
  <2> QED BY <2>2, <2>3, PairMeets, WaitIsRight DEF RendezvousInv, RendezvousTypeOK
<1> QED BY <1>1, <1>2, <1>3, PTL DEF RendezvousSpec

(* ------------------------------ admission ------------------------------- *)
(* The bucket that an admitted Interest was charged to, of its sender (1) or   *)
(* of its group (2), and those of i .. j charged to bucket k.                  *)
Key(r, f) == IF f = 1 THEN SrcSlot[r[1]] ELSE GrpSlot[r[2]]
Charged(h, f, k, i, j) == {m \in i .. j : Key(h[m], f) = k}
Since(at, t) == IF at > t THEN at - t ELSE 0

(* What was spent since Interest i and what is left is no more than a full     *)
(* bucket and its refill since; whatever was charged was charged before `at`.  *)
Budget(h, f, k, b, cap, refill) ==
  /\ \A i \in 1 .. Len(h) :
       Cardinality(Charged(h, f, k, i, Len(h))) + b.tokens <= cap + Since(b.at, h[i][3]) * refill
  /\ \A m \in 1 .. Len(h) : Key(h[m], f) = k => h[m][3] <= b.at

Bucket(cap, top) == [tokens : 0 .. cap, at : -1 .. top]

(* Interests are on record in the order admitted. *)
HistoryShape ==
  /\ \E S : admitted \in Seq(S)
  /\ \A i \in 1 .. Len(admitted) : admitted[i][3] \in 0 .. dosNow /\ admitted[i][2] \in Served
  /\ \A i, j \in 1 .. Len(admitted) : i <= j => admitted[i][3] <= admitted[j][3]

BudgetInv ==
  /\ dosNow \in Nat /\ HistoryShape
  /\ bySrc \in [SrcSlots -> Bucket(SrcCap, dosNow)] /\ byGrp \in [GrpSlots -> Bucket(GrpCap, dosNow)]
  /\ \A k \in SrcSlots : Budget(admitted, 1, k, bySrc[k], SrcCap, SrcRefill)
  /\ \A k \in GrpSlots : Budget(admitted, 2, k, byGrp[k], GrpCap, GrpRefill)
  /\ WorkIsBounded

(* Stretches of a history are finite. *)
LEMMA ChargedFinite ==
  ASSUME NEW h, NEW f, NEW k, NEW i \in Int, NEW j \in Int
  PROVE  /\ IsFiniteSet(i .. j) /\ IsFiniteSet(Charged(h, f, k, i, j))
         /\ Cardinality(Charged(h, f, k, i, j)) \in Nat
<1>1. IsFiniteSet(i .. j)
  BY FS_Interval
<1>2. Charged(h, f, k, i, j) \subseteq i .. j
  BY DEF Charged
<1>3. IsFiniteSet(Charged(h, f, k, i, j))
  BY <1>1, <1>2, FS_Subset
<1> QED BY <1>1, <1>3, FS_CardinalityType

(* A bucket that is brought up to date. *)
LEMMA FilledFacts ==
  ASSUME dosNow \in Nat, NEW cap \in Nat, NEW refill \in Nat, NEW b \in Bucket(cap, dosNow)
  PROVE  LET c == Filled(b, cap, refill)
         IN /\ c \in Bucket(cap, dosNow) /\ c.at = dosNow
            /\ c.tokens <= cap
            /\ b.at >= 0 => c.tokens <= b.tokens + (dosNow - b.at) * refill
<1>1. b.tokens \in 0 .. cap /\ b.at \in -1 .. dosNow /\ b.tokens \in Nat
  BY DEF Bucket
<1>2. CASE b = NoBucket
  <2>1. Filled(b, cap, refill) = [tokens |-> cap, at |-> dosNow] /\ b.at = -1
    BY <1>2 DEF Filled, NoBucket
  <2> QED BY <2>1 DEF Bucket
<1>3. CASE b # NoBucket
  <2> DEFINE g == (dosNow - b.at) * refill
  <2>1. g \in Nat
    <3>1. dosNow - b.at \in Nat
      BY <1>1
    <3> QED BY <3>1
  <2>2. Filled(b, cap, refill) = [tokens |-> Smaller(b.tokens + g, cap), at |-> dosNow]
    BY <1>3 DEF Filled
  <2> HIDE DEF g
  <2>3. /\ Smaller(b.tokens + g, cap) \in 0 .. cap
        /\ Smaller(b.tokens + g, cap) <= b.tokens + g
    BY <1>1, <2>1 DEF Smaller
  <2>4. [tokens |-> Smaller(b.tokens + g, cap), at |-> dosNow] \in Bucket(cap, dosNow)
    BY <2>3 DEF Bucket
  <2>5. Smaller(b.tokens + g, cap) <= cap
    BY <2>3
  <2> QED BY <2>2, <2>3, <2>4, <2>5 DEF g
<1> QED BY <1>2, <1>3

(* Bringing it up to date keeps the budget. *)
LEMMA BudgetFilled ==
  ASSUME dosNow \in Nat, HistoryShape, NEW cap \in Nat, NEW refill \in Nat,
         NEW b \in Bucket(cap, dosNow), NEW f, NEW k, Budget(admitted, f, k, b, cap, refill)
  PROVE  Budget(admitted, f, k, Filled(b, cap, refill), cap, refill)
<1> DEFINE c == Filled(b, cap, refill)
           n == Len(admitted)
<1>1. /\ c.at = dosNow /\ c.tokens \in 0 .. cap
      /\ b.at >= 0 => c.tokens <= b.tokens + (dosNow - b.at) * refill
  BY FilledFacts DEF Bucket
<1>2. b.tokens \in 0 .. cap /\ b.at \in -1 .. dosNow
  BY DEF Bucket
<1> HIDE DEF c
<1>3. n \in Nat
  BY LenProperties DEF HistoryShape
<1>4. ASSUME NEW i \in 1 .. n
      PROVE  Cardinality(Charged(admitted, f, k, i, n)) + c.tokens <= cap + Since(c.at, admitted[i][3]) * refill
  <2> DEFINE s == Cardinality(Charged(admitted, f, k, i, n))
             t == admitted[i][3]
  <2>1. s \in Nat /\ t \in 0 .. dosNow
    BY <1>3, ChargedFinite DEF HistoryShape
  <2>2. s + b.tokens <= cap + Since(b.at, t) * refill
    BY DEF Budget
  <2>3. CASE b.at >= t
    <3> HIDE DEF s, t
    <3> DEFINE p == b.at - t
               q == dosNow - b.at
    <3>1. p \in Nat /\ q \in Nat /\ Since(b.at, t) = p /\ Since(c.at, t) = p + q /\ b.at >= 0
      <4>1. c.at \in Nat /\ b.at \in Nat /\ t \in Nat /\ b.at >= t /\ c.at >= b.at /\ c.at = dosNow
        BY <1>1, <1>2, <2>1, <2>3
      <4>2. p \in Nat /\ q \in Nat
        BY <4>1
      <4>3. Since(b.at, t) = p
        BY <4>1 DEF Since
      <4>4. Since(c.at, t) = p + q
        BY <4>1 DEF Since
      <4> QED BY <4>1, <4>2, <4>3, <4>4
    <3>2. c.tokens <= b.tokens + q * refill /\ s + b.tokens <= cap + p * refill
      BY <1>1, <2>2, <3>1
    <3> HIDE DEF p, q
    <3>3. (p + q) * refill = p * refill + q * refill /\ p * refill \in Nat /\ q * refill \in Nat
      BY <3>1
    <3> DEFINE x == p * refill
               y == q * refill
    <3>4. s + c.tokens <= cap + (x + y)
      <4> HIDE DEF x, y
      <4>1. x \in Nat /\ y \in Nat
        BY <3>3 DEF x, y
      <4>2. c.tokens <= b.tokens + y /\ s + b.tokens <= cap + x
        BY <3>2 DEF x, y
      <4>3. s \in Nat /\ c.tokens \in Nat /\ b.tokens \in Nat /\ cap \in Nat
        BY <1>1, <1>2, <2>1
      <4> QED BY ONLY <4>1, <4>2, <4>3
    <3> QED BY <3>1, <3>3, <3>4 DEF s, t
  <2>4. CASE b.at < t
    <3>1. Charged(admitted, f, k, i, n) = {}
      <4> SUFFICES ASSUME NEW m \in i .. n, Key(admitted[m], f) = k PROVE FALSE
        BY DEF Charged
      <4>1. m \in 1 .. n
        BY <1>3
      <4>2. i <= m /\ admitted[i][3] <= admitted[m][3] /\ admitted[m][3] <= b.at
        BY <4>1 DEF HistoryShape, Budget
      <4>3. admitted[m][3] \in 0 .. dosNow
        BY <4>1 DEF HistoryShape
      <4> QED BY <1>2, <2>1, <2>4, <4>2, <4>3
    <3>2. s = 0
      BY <3>1, FS_EmptySet
    <3> HIDE DEF s, t
    <3>3. Since(c.at, t) \in Nat
      BY <1>1, <2>1 DEF Since
    <3>4. Since(c.at, t) * refill \in Nat
      BY <3>3
    <3> QED BY <1>1, <3>2, <3>4 DEF s, t
  <2> QED BY <1>2, <2>1, <2>3, <2>4
<1>5. ASSUME NEW m \in 1 .. n PROVE admitted[m][3] <= c.at
  BY <1>1 DEF HistoryShape
<1> QED BY <1>4, <1>5 DEF Budget, c

(* The history grows by one Interest, admitted now. *)
LEMMA Grown ==
  ASSUME dosNow \in Nat, HistoryShape, NEW r
  PROVE  LET n == Len(admitted)
             h == Append(admitted, r)
         IN /\ n \in Nat /\ Len(h) = n + 1 /\ h[n + 1] = r
            /\ \A i \in 1 .. n : h[i] = admitted[i]
            /\ \E S : h \in Seq(S)
<1>1. PICK S : admitted \in Seq(S)
  BY DEF HistoryShape
<1> DEFINE T == S \cup {r}
<1>2. admitted \in Seq(T) /\ r \in T
  BY <1>1, SeqMonotonic
<1> HIDE DEF T
<1>3. Len(admitted) \in Nat
  BY <1>1, LenProperties
<1>4. /\ Append(admitted, r) \in Seq(T)
      /\ Len(Append(admitted, r)) = Len(admitted) + 1
      /\ \A i \in 1 .. Len(admitted) : Append(admitted, r)[i] = admitted[i]
      /\ Append(admitted, r)[Len(admitted) + 1] = r
  BY <1>2, AppendProperties
<1> QED BY <1>3, <1>4

LEMMA ChargedGrown ==
  ASSUME dosNow \in Nat, HistoryShape, NEW r, NEW f, NEW k, NEW i \in 1 .. Len(admitted) + 1
  PROVE  LET n == Len(admitted)
             new == Charged(Append(admitted, r), f, k, i, n + 1)
             old == Charged(admitted, f, k, i, n)
         IN /\ Key(r, f) # k => new = old
            /\ Key(r, f) = k => Cardinality(new) = Cardinality(old) + 1
<1> DEFINE n == Len(admitted)
           h == Append(admitted, r)
           old == Charged(admitted, f, k, i, n)
           new == Charged(h, f, k, i, n + 1)
<1>1. n \in Nat /\ h[n + 1] = r /\ \A j \in 1 .. n : h[j] = admitted[j]
  BY Grown
<1>2. i \in 1 .. n + 1
  OBVIOUS
<1> HIDE DEF n, h
<1>3. i .. n + 1 = (i .. n) \cup {n + 1} /\ n + 1 \notin i .. n /\ \A m \in i .. n : h[m] = admitted[m]
  BY <1>1, <1>2
<1>4. Key(r, f) # k => new = old
  BY <1>1, <1>3 DEF Charged
<1>5. Key(r, f) = k => new = old \cup {n + 1}
  BY <1>1, <1>3 DEF Charged
<1>6. n + 1 \notin old
  BY <1>3 DEF Charged
<1>7. IsFiniteSet(old) /\ Cardinality(old) \in Nat
  BY <1>1, <1>2, ChargedFinite
<1> HIDE DEF old, new
<1>8. Cardinality(old \cup {n + 1}) = Cardinality(old) + 1
  BY <1>6, <1>7, FS_AddElement
<1> QED BY <1>4, <1>5, <1>8 DEF old, new, n, h

(* An Interest charged to another bucket leaves this one's budget alone. *)
LEMMA BudgetOther ==
  ASSUME dosNow \in Nat, HistoryShape, NEW cap \in Nat, NEW refill \in Nat, NEW b \in Bucket(cap, dosNow),
         NEW f, NEW k, Budget(admitted, f, k, b, cap, refill),
         NEW r, r[3] = dosNow, Key(r, f) # k
  PROVE  Budget(Append(admitted, r), f, k, b, cap, refill)
<1> DEFINE n == Len(admitted)
           h == Append(admitted, r)
<1>1. /\ n \in Nat /\ Len(h) = n + 1 /\ h[n + 1] = r /\ \A i \in 1 .. n : h[i] = admitted[i]
  BY Grown
<1>2. b.tokens \in 0 .. cap /\ b.at \in -1 .. dosNow
  BY DEF Bucket
<1>3. \A i \in 1 .. n + 1 : Charged(h, f, k, i, n + 1) = Charged(admitted, f, k, i, n)
  BY ChargedGrown
<1>4. \A i \in 1 .. n : Cardinality(Charged(admitted, f, k, i, n)) + b.tokens <= cap + Since(b.at, admitted[i][3]) * refill
  BY DEF Budget
<1>5. \A m \in 1 .. n : Key(admitted[m], f) = k => admitted[m][3] <= b.at
  BY DEF Budget
<1> HIDE DEF n, h
<1>6. Cardinality(Charged(admitted, f, k, n + 1, n)) = 0
  <2>1. Charged(admitted, f, k, n + 1, n) = {}
    <3>1. (n + 1) .. n = {}
      BY <1>1
    <3> QED BY <3>1 DEF Charged
  <2> QED BY <2>1, FS_EmptySet
<1>7. ASSUME NEW i \in 1 .. n + 1
      PROVE  Cardinality(Charged(h, f, k, i, n + 1)) + b.tokens <= cap + Since(b.at, h[i][3]) * refill
  <2>1. CASE i \in 1 .. n
    BY <1>1, <1>3, <1>4, <2>1
  <2>2. CASE i = n + 1
    <3>1. Since(b.at, r[3]) = 0
      BY <1>2 DEF Since
    <3>2. Since(b.at, r[3]) * refill = 0
      BY <3>1
    <3>3. Cardinality(Charged(h, f, k, i, n + 1)) = 0
      BY <1>3, <1>6, <2>2
    <3> QED BY <1>1, <1>2, <2>2, <3>2, <3>3
  <2> QED BY <1>1, <2>1, <2>2
<1>8. ASSUME NEW m \in 1 .. n + 1, Key(h[m], f) = k PROVE h[m][3] <= b.at
  <2>1. m \in 1 .. n
    BY <1>1, <1>8
  <2> QED BY <1>1, <1>5, <1>8, <2>1
<1> QED BY <1>1, <1>7, <1>8 DEF Budget, h

(* An Interest charged to this bucket takes one of its tokens. *)
LEMMA BudgetCharged ==
  ASSUME dosNow \in Nat, HistoryShape, NEW cap \in Nat, NEW refill \in Nat, NEW b \in Bucket(cap, dosNow),
         NEW f, NEW k, Budget(admitted, f, k, b, cap, refill),
         NEW r, r[3] = dosNow, Key(r, f) = k, HasToken(b), b.at = dosNow
  PROVE  /\ Consume(b) \in Bucket(cap, dosNow)
         /\ Budget(Append(admitted, r), f, k, Consume(b), cap, refill)
<1> DEFINE n == Len(admitted)
           h == Append(admitted, r)
           c == Consume(b)
<1>1. /\ n \in Nat /\ Len(h) = n + 1 /\ h[n + 1] = r /\ \A i \in 1 .. n : h[i] = admitted[i]
  BY Grown
<1>2. b.tokens \in 1 .. cap /\ b.at \in -1 .. dosNow /\ b = [tokens |-> b.tokens, at |-> b.at]
  BY DEF Bucket, HasToken
<1>3. c = [tokens |-> b.tokens - 1, at |-> b.at]
  <2>1. [b EXCEPT !.tokens = b.tokens - 1] = [tokens |-> b.tokens - 1, at |-> b.at]
    BY <1>2
  <2> QED BY <2>1 DEF Consume
<1>4. c.tokens = b.tokens - 1 /\ c.at = b.at /\ c \in Bucket(cap, dosNow)
  BY <1>2, <1>3 DEF Bucket
<1>5. \A i \in 1 .. n + 1 : Cardinality(Charged(h, f, k, i, n + 1)) = Cardinality(Charged(admitted, f, k, i, n)) + 1
  BY ChargedGrown
<1>6. \A i \in 1 .. n : Cardinality(Charged(admitted, f, k, i, n)) + b.tokens <= cap + Since(b.at, admitted[i][3]) * refill
  BY DEF Budget
<1>7. \A m \in 1 .. n : Key(admitted[m], f) = k => admitted[m][3] <= b.at
  BY DEF Budget
<1>8. \A i \in 1 .. n : Cardinality(Charged(admitted, f, k, i, n)) \in Nat
  BY <1>1, ChargedFinite
<1> HIDE DEF n, h, c
<1>9. Cardinality(Charged(admitted, f, k, n + 1, n)) = 0
  <2>1. (n + 1) .. n = {}
    BY <1>1
  <2>2. Charged(admitted, f, k, n + 1, n) = {}
    BY <2>1 DEF Charged
  <2> QED BY <2>2, FS_EmptySet
<1>10. ASSUME NEW i \in 1 .. n + 1
       PROVE  Cardinality(Charged(h, f, k, i, n + 1)) + c.tokens <= cap + Since(c.at, h[i][3]) * refill
  <2>1. CASE i \in 1 .. n
    <3> DEFINE x == Cardinality(Charged(admitted, f, k, i, n))
               y == cap + Since(b.at, admitted[i][3]) * refill
    <3>1. x \in Nat /\ x + b.tokens <= y
      BY <1>6, <1>8, <2>1
    <3>2. /\ Cardinality(Charged(h, f, k, i, n + 1)) = x + 1
          /\ cap + Since(c.at, h[i][3]) * refill = y
      BY <1>1, <1>4, <1>5, <2>1
    <3> HIDE DEF x, y
    <3>3. x + 1 + (b.tokens - 1) = x + b.tokens
      BY <1>2, <3>1
    <3> QED BY <1>4, <3>1, <3>2, <3>3
  <2>2. CASE i = n + 1
    <3>1. Since(c.at, r[3]) = 0
      BY <1>4 DEF Since
    <3>2. Since(c.at, r[3]) * refill = 0
      BY <3>1
    <3>3. Cardinality(Charged(h, f, k, i, n + 1)) = 1
      BY <1>5, <1>9, <2>2
    <3> QED BY <1>1, <1>2, <1>4, <2>2, <3>2, <3>3
  <2> QED BY <1>1, <2>1, <2>2
<1>11. ASSUME NEW m \in 1 .. n + 1, Key(h[m], f) = k PROVE h[m][3] <= c.at
  <2>1. CASE m \in 1 .. n
    BY <1>1, <1>4, <1>7, <1>11, <2>1
  <2>2. CASE m = n + 1
    BY <1>1, <1>4, <2>2
  <2> QED BY <1>1, <2>1, <2>2
<1> QED BY <1>1, <1>4, <1>10, <1>11 DEF Budget, h, c

(* The Interests of i .. j with x in field f: those of one sender or group. *)
Alike(h, f, x, i, j) == {m \in i .. j : h[m][f] = x}

(* What a budget says of the Interests of one key until now. *)
LEMMA BudgetBounds ==
  ASSUME dosNow \in Nat, NEW cap \in Nat, NEW refill \in Nat, NEW b \in Bucket(cap, dosNow),
         NEW h, Len(h) \in Nat, NEW f, NEW k, Budget(h, f, k, b, cap, refill),
         NEW i \in 1 .. Len(h), h[i][3] \in 0 .. dosNow,
         NEW x, \A m \in 1 .. Len(h) : h[m][f] = x => Key(h[m], f) = k
  PROVE  Cardinality(Alike(h, f, x, i, Len(h))) <= cap + (dosNow - h[i][3]) * refill
<1> DEFINE n == Len(h)
           t == h[i][3]
           c == Cardinality(Charged(h, f, k, i, n))
           a == Cardinality(Alike(h, f, x, i, n))
<1>1. /\ IsFiniteSet(Charged(h, f, k, i, n)) /\ c \in Nat
  BY ChargedFinite
<1>2. Alike(h, f, x, i, n) \subseteq Charged(h, f, k, i, n)
  BY DEF Alike, Charged
<1>3. a \in Nat /\ a <= c
  BY <1>1, <1>2, FS_Subset, FS_CardinalityType
<1>4. c + b.tokens <= cap + Since(b.at, t) * refill
  BY DEF Budget
<1>5. b.tokens \in 0 .. cap /\ b.at \in -1 .. dosNow /\ t \in 0 .. dosNow
  BY DEF Bucket
<1> HIDE DEF c, a, t
<1>6. PICK d \in Nat : dosNow - t = Since(b.at, t) + d /\ Since(b.at, t) \in Nat
  <2>1. Since(b.at, t) \in Nat /\ (dosNow - t) - Since(b.at, t) \in Nat
    BY <1>5 DEF Since
  <2> DEFINE e == (dosNow - t) - Since(b.at, t)
  <2>2. dosNow - t = Since(b.at, t) + e
    BY <1>5, <2>1
  <2> QED BY <2>1, <2>2
<1> DEFINE p == Since(b.at, t)
<1> HIDE DEF p
<1>7. p \in Nat /\ dosNow - t = p + d /\ c + b.tokens <= cap + p * refill
  BY <1>4, <1>6 DEF p
<1>8. (p + d) * refill = p * refill + d * refill /\ p * refill \in Nat /\ d * refill \in Nat
  BY <1>6, <1>7
<1>9. a <= cap + (p + d) * refill
  <2> DEFINE y == p * refill
             z == d * refill
  <2>1. y \in Nat /\ z \in Nat /\ c + b.tokens <= cap + y
    BY <1>7, <1>8
  <2> HIDE DEF y, z
  <2>2. a <= cap + (y + z)
    BY <1>1, <1>3, <1>5, <2>1
  <2> QED BY <1>8, <2>2 DEF y, z
<1> QED BY <1>7, <1>9 DEF a, t

(* One more Interest is within the bound, whatever stretch it ends. *)
LEMMA WorkGrown ==
  ASSUME BudgetInv, NEW s \in Source, NEW g \in Group, g \in Served, dosNow' = dosNow,
         admitted' = Append(admitted, <<s, g, dosNow>>), HistoryShape',
         bySrc' \in [SrcSlots -> Bucket(SrcCap, dosNow)], byGrp' \in [GrpSlots -> Bucket(GrpCap, dosNow)],
         \A k \in SrcSlots : Budget(admitted', 1, k, bySrc'[k], SrcCap, SrcRefill),
         \A k \in GrpSlots : Budget(admitted', 2, k, byGrp'[k], GrpCap, GrpRefill)
  PROVE  WorkIsBounded'
<1> DEFINE n == Len(admitted)
           h == admitted'
<1>1. dosNow \in Nat /\ HistoryShape /\ WorkIsBounded
  BY DEF BudgetInv
<1>2. /\ n \in Nat /\ Len(h) = n + 1 /\ h[n + 1] = <<s, g, dosNow>>
      /\ \A i \in 1 .. n : h[i] = admitted[i]
      /\ \E S : h \in Seq(S)
  BY <1>1, Grown
<1>3. DOMAIN h = 1 .. n + 1 /\ DOMAIN admitted = 1 .. n
  BY <1>1, <1>2, LenProperties DEF HistoryShape
<1>4. \A i \in 1 .. n + 1 : h[i][3] \in 0 .. dosNow /\ h[i][2] \in Served
  BY <1>2 DEF HistoryShape
<1> HIDE DEF n
<1>5. ASSUME NEW i \in 1 .. n + 1, NEW j \in 1 .. n + 1, i <= j
      PROVE  /\ \A x \in Source : Cardinality({m \in i .. j : h[m][1] = x}) <= SrcCap + (h[j][3] - h[i][3]) * SrcRefill
             /\ \A x \in Group : Cardinality({m \in i .. j : h[m][2] = x}) <= GrpCap + (h[j][3] - h[i][3]) * GrpRefill
             /\ \A m \in i .. j : h[m][2] \in Served
  <2>1. CASE j = n + 1
    <3>1. h[j][3] = dosNow
      BY <1>2, <2>1
    <3>2. ASSUME NEW x \in Source
          PROVE  Cardinality({m \in i .. j : h[m][1] = x}) <= SrcCap + (dosNow - h[i][3]) * SrcRefill
      <4> DEFINE k == SrcSlot[x]
      <4>1. k \in SrcSlots
        BY DEF SrcSlots
      <4>2. bySrc'[k] \in Bucket(SrcCap, dosNow) /\ Budget(h, 1, k, bySrc'[k], SrcCap, SrcRefill)
        BY <4>1
      <4>3. \A m \in 1 .. Len(h) : h[m][1] = x => Key(h[m], 1) = k
        BY DEF Key
      <4> HIDE DEF h, k
      <4>4. Len(h) \in Nat /\ i \in 1 .. Len(h) /\ h[i][3] \in 0 .. dosNow
        BY <1>2, <1>4
      <4>5. Cardinality(Alike(h, 1, x, i, Len(h))) <= SrcCap + (dosNow - h[i][3]) * SrcRefill
        BY <1>1, <4>2, <4>3, <4>4, BudgetBounds, DosAssumption
      <4> QED BY <1>2, <2>1, <4>5 DEF Alike
    <3>3. ASSUME NEW x \in Group
          PROVE  Cardinality({m \in i .. j : h[m][2] = x}) <= GrpCap + (dosNow - h[i][3]) * GrpRefill
      <4> DEFINE k == GrpSlot[x]
      <4>1. k \in GrpSlots
        BY DEF GrpSlots
      <4>2. byGrp'[k] \in Bucket(GrpCap, dosNow) /\ Budget(h, 2, k, byGrp'[k], GrpCap, GrpRefill)
        BY <4>1
      <4>3. \A m \in 1 .. Len(h) : h[m][2] = x => Key(h[m], 2) = k
        BY DEF Key
      <4> HIDE DEF h, k
      <4>4. Len(h) \in Nat /\ i \in 1 .. Len(h) /\ h[i][3] \in 0 .. dosNow
        BY <1>2, <1>4
      <4>5. Cardinality(Alike(h, 2, x, i, Len(h))) <= GrpCap + (dosNow - h[i][3]) * GrpRefill
        BY <1>1, <4>2, <4>3, <4>4, BudgetBounds, DosAssumption
      <4> QED BY <1>2, <2>1, <4>5 DEF Alike
    <3>4. \A m \in i .. j : m \in 1 .. n + 1
      BY <1>2
    <3> QED BY <1>4, <3>1, <3>2, <3>3, <3>4
  <2>2. CASE j \in 1 .. n
    <3>1. i \in 1 .. n /\ \A m \in i .. j : m \in 1 .. n
      BY <1>2, <1>5, <2>2
    <3>2. \A m \in i .. j : h[m] = admitted[m]
      BY <1>2, <3>1
    <3>3. /\ \A x \in Source : Cardinality({m \in i .. j : admitted[m][1] = x}) <= SrcCap + (admitted[j][3] - admitted[i][3]) * SrcRefill
          /\ \A x \in Group : Cardinality({m \in i .. j : admitted[m][2] = x}) <= GrpCap + (admitted[j][3] - admitted[i][3]) * GrpRefill
      BY <1>1, <1>3, <1>5, <2>2, <3>1 DEF WorkIsBounded
    <3>4. h[j] = admitted[j] /\ h[i] = admitted[i]
      BY <1>2, <2>2, <3>1
    <3>5. \A m \in i .. j : h[m][2] \in Served
      BY <1>2, <1>4, <3>1
    <3>6. ASSUME NEW x \in Source
          PROVE  Cardinality({m \in i .. j : h[m][1] = x}) <= SrcCap + (h[j][3] - h[i][3]) * SrcRefill
      <4>1. {m \in i .. j : h[m][1] = x} = {m \in i .. j : admitted[m][1] = x}
        BY <3>2
      <4>2. Cardinality({m \in i .. j : admitted[m][1] = x}) <= SrcCap + (admitted[j][3] - admitted[i][3]) * SrcRefill
        BY <3>3
      <4> QED BY <3>4, <4>1, <4>2
    <3>7. ASSUME NEW x \in Group
          PROVE  Cardinality({m \in i .. j : h[m][2] = x}) <= GrpCap + (h[j][3] - h[i][3]) * GrpRefill
      <4>1. {m \in i .. j : h[m][2] = x} = {m \in i .. j : admitted[m][2] = x}
        BY <3>2
      <4>2. Cardinality({m \in i .. j : admitted[m][2] = x}) <= GrpCap + (admitted[j][3] - admitted[i][3]) * GrpRefill
        BY <3>3
      <4> QED BY <3>4, <4>1, <4>2
    <3> QED BY <3>5, <3>6, <3>7
  <2>3. j = n + 1 \/ j \in 1 .. n
    BY <1>2
  <2> QED BY <2>1, <2>2, <2>3
<1> QED BY <1>3, <1>5 DEF WorkIsBounded

(* No time, no Interest: every bucket is full and nothing was admitted. *)
LEMMA BudgetInit == DosInit => BudgetInv
<1> SUFFICES ASSUME DosInit PROVE BudgetInv
  OBVIOUS
<1>1. /\ dosNow = 0 /\ admitted = << >> /\ << >> \in Seq({}) /\ Len(<< >>) = 0 /\ DOMAIN << >> = {}
      /\ bySrc = [k \in SrcSlots |-> NoBucket] /\ byGrp = [k \in GrpSlots |-> NoBucket]
  BY DEF DosInit
<1>2. HistoryShape
  BY <1>1 DEF HistoryShape
<1>3. WorkIsBounded
  BY <1>1 DEF WorkIsBounded
<1>4. NoBucket \in Bucket(SrcCap, 0) /\ NoBucket \in Bucket(GrpCap, 0)
  BY DosAssumption DEF NoBucket, Bucket
<1>5. \A f, k, b, cap, refill : Budget(<< >>, f, k, b, cap, refill)
  BY <1>1 DEF Budget
<1> QED BY <1>1, <1>2, <1>3, <1>4, <1>5 DEF BudgetInv

(* The clock moves, or nothing does. *)
LEMMA BudgetWaits ==
  ASSUME BudgetInv, DosTick \/ UNCHANGED dosVars
  PROVE  BudgetInv'
<1>1. UNCHANGED <<bySrc, byGrp, admitted>> /\ dosNow \in Nat /\ dosNow' \in Nat /\ dosNow <= dosNow'
  BY DEF BudgetInv, DosTick, dosVars
<1>2. 0 .. dosNow \subseteq 0 .. dosNow' /\ -1 .. dosNow \subseteq -1 .. dosNow'
  BY <1>1
<1>3. HistoryShape'
  BY <1>1, <1>2 DEF BudgetInv, HistoryShape
<1>4. \A cap : Bucket(cap, dosNow) \subseteq Bucket(cap, dosNow')
  BY <1>2 DEF Bucket
<1>5. WorkIsBounded'
  BY <1>1 DEF BudgetInv, WorkIsBounded
<1>6. bySrc' \in [SrcSlots -> Bucket(SrcCap, dosNow')] /\ byGrp' \in [GrpSlots -> Bucket(GrpCap, dosNow')]
  BY <1>1, <1>4 DEF BudgetInv
<1> QED BY <1>1, <1>3, <1>5, <1>6 DEF BudgetInv

(* An Interest is offered. *)
LEMMA BudgetOffered ==
  ASSUME BudgetInv, NEW s \in Source, NEW g \in Group, admit(s, g)
  PROVE  BudgetInv'
<1>1. dosNow' = dosNow /\ dosNow \in Nat /\ HistoryShape
  BY DEF admit, BudgetInv
<1>2. CASE g \notin Served
  <2>1. UNCHANGED <<bySrc, byGrp, admitted, dosNow>>
    BY <1>1, <1>2 DEF admit
  <2> QED BY <2>1 DEF BudgetInv, HistoryShape, WorkIsBounded
<1>3. CASE g \in Served
  <2> DEFINE k == SrcSlot[s]
             l == GrpSlot[g]
             b == Filled(bySrc[k], SrcCap, SrcRefill)
             c == Filled(byGrp[l], GrpCap, GrpRefill)
             ok == HasToken(b) /\ HasToken(c)
             r == <<s, g, dosNow>>
  <2>1. /\ bySrc' = [bySrc EXCEPT ![k] = IF ok THEN Consume(b) ELSE b]
        /\ byGrp' = [byGrp EXCEPT ![l] = IF ~HasToken(b) THEN byGrp[l] ELSE IF ok THEN Consume(c) ELSE c]
        /\ admitted' = IF ok THEN Append(admitted, r) ELSE admitted
    BY <1>3 DEF admit, AdmitInterest
  <2>2. k \in SrcSlots /\ l \in GrpSlots
    BY DEF SrcSlots, GrpSlots
  <2>3. /\ bySrc \in [SrcSlots -> Bucket(SrcCap, dosNow)] /\ byGrp \in [GrpSlots -> Bucket(GrpCap, dosNow)]
        /\ \A x \in SrcSlots : Budget(admitted, 1, x, bySrc[x], SrcCap, SrcRefill)
        /\ \A x \in GrpSlots : Budget(admitted, 2, x, byGrp[x], GrpCap, GrpRefill)
    BY DEF BudgetInv
  <2>4. /\ b \in Bucket(SrcCap, dosNow) /\ b.at = dosNow /\ Budget(admitted, 1, k, b, SrcCap, SrcRefill)
    <3>1. bySrc[k] \in Bucket(SrcCap, dosNow) /\ Budget(admitted, 1, k, bySrc[k], SrcCap, SrcRefill)
      BY <2>2, <2>3
    <3>2. b \in Bucket(SrcCap, dosNow) /\ b.at = dosNow
      BY <1>1, <3>1, FilledFacts, DosAssumption
    <3>3. Budget(admitted, 1, k, b, SrcCap, SrcRefill)
      BY <1>1, <3>1, BudgetFilled, DosAssumption
    <3> QED BY <3>2, <3>3
  <2>5. /\ c \in Bucket(GrpCap, dosNow) /\ c.at = dosNow /\ Budget(admitted, 2, l, c, GrpCap, GrpRefill)
    <3>1. byGrp[l] \in Bucket(GrpCap, dosNow) /\ Budget(admitted, 2, l, byGrp[l], GrpCap, GrpRefill)
      BY <2>2, <2>3
    <3>2. c \in Bucket(GrpCap, dosNow) /\ c.at = dosNow
      BY <1>1, <3>1, FilledFacts, DosAssumption
    <3>3. Budget(admitted, 2, l, c, GrpCap, GrpRefill)
      BY <1>1, <3>1, BudgetFilled, DosAssumption
    <3> QED BY <3>2, <3>3
  <2>6. Key(r, 1) = k /\ Key(r, 2) = l /\ r[3] = dosNow /\ r[2] = g
    BY DEF Key
  <2> HIDE DEF b, c, r
  <2>7. CASE ~ok
    <3>1. admitted' = admitted
      BY <2>1, <2>7
    <3>2. bySrc' \in [SrcSlots -> Bucket(SrcCap, dosNow)]
      BY <2>1, <2>3, <2>4, <2>7
    <3>3. byGrp' \in [GrpSlots -> Bucket(GrpCap, dosNow)]
      BY <2>1, <2>2, <2>3, <2>5, <2>7
    <3>4. \A x \in SrcSlots : Budget(admitted, 1, x, bySrc'[x], SrcCap, SrcRefill)
      BY <2>1, <2>3, <2>4, <2>7
    <3>5. \A x \in GrpSlots : Budget(admitted, 2, x, byGrp'[x], GrpCap, GrpRefill)
      BY <2>1, <2>3, <2>5, <2>7
    <3>6. HistoryShape' /\ WorkIsBounded'
      BY <1>1, <3>1 DEF BudgetInv, HistoryShape, WorkIsBounded
    <3> QED BY <1>1, <3>1, <3>2, <3>3, <3>4, <3>5, <3>6 DEF BudgetInv
  <2>8. CASE ok
    <3>1. /\ admitted' = Append(admitted, r)
          /\ bySrc' = [bySrc EXCEPT ![k] = Consume(b)] /\ byGrp' = [byGrp EXCEPT ![l] = Consume(c)]
      BY <2>1, <2>8
    <3>2. Consume(b) \in Bucket(SrcCap, dosNow) /\ Budget(admitted', 1, k, Consume(b), SrcCap, SrcRefill)
      BY <1>1, <2>4, <2>6, <2>8, <3>1, BudgetCharged, DosAssumption
    <3>3. Consume(c) \in Bucket(GrpCap, dosNow) /\ Budget(admitted', 2, l, Consume(c), GrpCap, GrpRefill)
      BY <1>1, <2>5, <2>6, <2>8, <3>1, BudgetCharged, DosAssumption
    <3>4. /\ bySrc' \in [SrcSlots -> Bucket(SrcCap, dosNow)] /\ byGrp' \in [GrpSlots -> Bucket(GrpCap, dosNow)]
      BY <2>3, <3>1, <3>2, <3>3
    <3>5. ASSUME NEW x \in SrcSlots PROVE Budget(admitted', 1, x, bySrc'[x], SrcCap, SrcRefill)
      <4>1. CASE x = k
        BY <2>2, <2>3, <3>1, <3>2, <4>1
      <4>2. CASE x # k
        <5>1. bySrc'[x] = bySrc[x] /\ bySrc[x] \in Bucket(SrcCap, dosNow)
              /\ Budget(admitted, 1, x, bySrc[x], SrcCap, SrcRefill)
          BY <2>3, <3>1, <4>2
        <5> QED BY <1>1, <2>6, <3>1, <4>2, <5>1, BudgetOther, DosAssumption
      <4> QED BY <4>1, <4>2
    <3>6. ASSUME NEW x \in GrpSlots PROVE Budget(admitted', 2, x, byGrp'[x], GrpCap, GrpRefill)
      <4>1. CASE x = l
        BY <2>2, <2>3, <3>1, <3>3, <4>1
      <4>2. CASE x # l
        <5>1. byGrp'[x] = byGrp[x] /\ byGrp[x] \in Bucket(GrpCap, dosNow)
              /\ Budget(admitted, 2, x, byGrp[x], GrpCap, GrpRefill)
          BY <2>3, <3>1, <4>2
        <5> QED BY <1>1, <2>6, <3>1, <4>2, <5>1, BudgetOther, DosAssumption
      <4> QED BY <4>1, <4>2
    <3>7. HistoryShape'
      <4> DEFINE n == Len(admitted)
      <4>1. /\ n \in Nat /\ Len(admitted') = n + 1 /\ admitted'[n + 1] = r
            /\ \A i \in 1 .. n : admitted'[i] = admitted[i]
            /\ \E S : admitted' \in Seq(S)
        BY <1>1, <3>1, Grown
      <4>2. \A i \in 1 .. n : admitted[i][3] \in 0 .. dosNow /\ admitted[i][2] \in Served
        BY <1>1 DEF HistoryShape
      <4>3. \A i, j \in 1 .. n : i <= j => admitted[i][3] <= admitted[j][3]
        BY <1>1 DEF HistoryShape
      <4> HIDE DEF n
      <4>4. ASSUME NEW i \in 1 .. n + 1
            PROVE  admitted'[i][3] \in 0 .. dosNow /\ admitted'[i][2] \in Served
        BY <1>1, <1>3, <2>6, <4>1, <4>2
      <4>5. ASSUME NEW i \in 1 .. n + 1, NEW j \in 1 .. n + 1, i <= j
            PROVE  admitted'[i][3] <= admitted'[j][3]
        <5>1. CASE j = n + 1
          BY <1>1, <2>6, <4>1, <4>4, <5>1
        <5>2. CASE j # n + 1
          BY <4>1, <4>3, <4>5, <5>2
        <5> QED BY <5>1, <5>2
      <4> QED BY <1>1, <4>1, <4>4, <4>5 DEF HistoryShape
    <3>8. WorkIsBounded'
      BY <1>1, <1>3, <3>1, <3>4, <3>5, <3>6, <3>7, WorkGrown DEF r
    <3> QED BY <1>1, <3>4, <3>5, <3>6, <3>7, <3>8 DEF BudgetInv
  <2> QED BY <2>7, <2>8
<1> QED BY <1>2, <1>3

(* The ledger of a bucket exists, and grows entry by entry. *)
Entry(e, r, cap, refill) == [tokens |-> Smaller(e.tokens + (r[3] - e.at) * refill, cap) - 1, at |-> r[3]]
Posted(L, h, mine, cap, refill, i) ==
  IF i = 0 THEN [tokens |-> cap, at |-> 0]
  ELSE IF i \notin mine THEN L[i - 1]
  ELSE [tokens |-> Smaller(L[i - 1].tokens + (h[i][3] - L[i - 1].at) * refill, cap) - 1, at |-> h[i][3]]
IsLedger(L, h, mine, cap, refill, n) == L = [i \in 0 .. n |-> Posted(L, h, mine, cap, refill, i)]

LEMMA LedgersAgree ==
  ASSUME NEW L, NEW M, NEW h, NEW g, NEW mine, NEW used, NEW cap, NEW refill, NEW n \in Nat, NEW m \in Nat, n <= m,
         IsLedger(L, h, mine, cap, refill, n), IsLedger(M, g, used, cap, refill, m),
         \A i \in 1 .. n : h[i] = g[i] /\ (i \in mine <=> i \in used)
  PROVE  \A i \in 0 .. n : L[i] = M[i]
<1> DEFINE Bad == {i \in 0 .. n : L[i] # M[i]}
<1> SUFFICES ASSUME Bad # {} PROVE FALSE
  OBVIOUS
<1>1. PICK i \in Bad : \A j \in Bad : i <= j
  <2>1. Bad \in SUBSET Nat
    OBVIOUS
  <2> HIDE DEF Bad
  <2> QED BY <2>1, LeastNat
<1>2. i \in 0 .. n /\ i \in 0 .. m /\ L[i] # M[i]
  OBVIOUS
<1>3. L[i] = Posted(L, h, mine, cap, refill, i) /\ M[i] = Posted(M, g, used, cap, refill, i)
  BY <1>2 DEF IsLedger
<1>4. CASE i = 0
  BY <1>2, <1>3, <1>4 DEF Posted
<1>5. CASE i # 0
  <2>1. i - 1 \in 0 .. n /\ i - 1 < i /\ i \in 1 .. n
    BY <1>2, <1>5
  <2>2. L[i - 1] = M[i - 1]
    BY <1>1, <2>1
  <2>3. Posted(L, h, mine, cap, refill, i) = Posted(M, g, used, cap, refill, i)
    BY <1>5, <2>1, <2>2 DEF Posted
  <2> QED BY <1>2, <1>3, <2>3
<1> QED BY <1>4, <1>5

LEMMA LedgersExist ==
  ASSUME NEW h, NEW mine, NEW cap, NEW refill
  PROVE  \A n \in Nat : \E L : IsLedger(L, h, mine, cap, refill, n)
<1> DEFINE T == {n \in Nat : ~\E L : IsLedger(L, h, mine, cap, refill, n)}
<1> SUFFICES ASSUME T # {} PROVE FALSE
  OBVIOUS
<1>1. PICK n \in T : \A m \in T : n <= m
  BY LeastNat
<1>2. n \in Nat /\ ~\E L : IsLedger(L, h, mine, cap, refill, n)
  OBVIOUS
<1>3. PICK M : n > 0 => IsLedger(M, h, mine, cap, refill, n - 1)
  <2>1. CASE n = 0
    BY <2>1
  <2>2. CASE n > 0
    <3>1. n - 1 \in Nat /\ n - 1 \notin T
      BY <1>1, <1>2, <2>2
    <3> QED BY <3>1
  <2> QED BY <1>2, <2>1, <2>2
<1> DEFINE L == [i \in 0 .. n |-> Posted(M, h, mine, cap, refill, i)]
<1>4. ASSUME NEW i \in 0 .. n PROVE Posted(M, h, mine, cap, refill, i) = Posted(L, h, mine, cap, refill, i)
  <2>1. CASE i = 0
    BY <2>1 DEF Posted
  <2>2. CASE i # 0
    <3>1. n > 0 /\ i - 1 \in 0 .. n - 1 /\ i - 1 \in 0 .. n
      BY <1>2, <2>2
    <3>2. M[i - 1] = Posted(M, h, mine, cap, refill, i - 1)
      BY <1>3, <3>1 DEF IsLedger
    <3>3. L[i - 1] = M[i - 1]
      BY <3>1, <3>2
    <3> HIDE DEF L
    <3> QED BY <2>2, <3>3 DEF Posted
  <2> QED BY <2>1, <2>2
<1>5. L = [i \in 0 .. n |-> Posted(L, h, mine, cap, refill, i)]
  BY <1>4
<1> HIDE DEF L
<1>6. IsLedger(L, h, mine, cap, refill, n)
  BY <1>5 DEF IsLedger
<1> QED BY <1>2, <1>6

LEMMA LedgerIs ==
  ASSUME NEW h, NEW mine, NEW cap, NEW refill, Len(h) \in Nat
  PROVE  \E L : IsLedger(L, h, mine, cap, refill, Len(h)) /\ Ledger(h, mine, cap, refill) = L[Len(h)]
<1> DEFINE L == CHOOSE L : L = [i \in 0 .. Len(h) |-> Posted(L, h, mine, cap, refill, i)]
<1>1. \E M : M = [i \in 0 .. Len(h) |-> Posted(M, h, mine, cap, refill, i)]
  BY LedgersExist DEF IsLedger
<1>2. L = [i \in 0 .. Len(h) |-> Posted(L, h, mine, cap, refill, i)]
  BY <1>1
<1>3. Ledger(h, mine, cap, refill) = L[Len(h)]
  BY DEF Ledger, Posted
<1> HIDE DEF L
<1> QED BY <1>2, <1>3 DEF IsLedger

LEMMA LedgerOfNone ==
  ASSUME NEW mine, NEW cap, NEW refill
  PROVE  Ledger(<< >>, mine, cap, refill) = [tokens |-> cap, at |-> 0]
<1>1. Len(<< >>) = 0
  OBVIOUS
<1>2. PICK L : IsLedger(L, << >>, mine, cap, refill, 0) /\ Ledger(<< >>, mine, cap, refill) = L[0]
  BY <1>1, LedgerIs
<1>3. 0 \in 0 .. 0
  OBVIOUS
<1>4. L[0] = Posted(L, << >>, mine, cap, refill, 0)
  BY <1>2, <1>3 DEF IsLedger
<1> QED BY <1>2, <1>4 DEF Posted

LEMMA LedgerGrows ==
  ASSUME NEW h, NEW g, NEW mine, NEW used, NEW cap, NEW refill, NEW n \in Nat, Len(h) = n, Len(g) = n + 1,
         \A i \in 1 .. n : h[i] = g[i] /\ (i \in mine <=> i \in used)
  PROVE  Ledger(g, used, cap, refill) =
           IF n + 1 \in used THEN Entry(Ledger(h, mine, cap, refill), g[n + 1], cap, refill) ELSE Ledger(h, mine, cap, refill)
<1>1. PICK L : IsLedger(L, h, mine, cap, refill, n) /\ Ledger(h, mine, cap, refill) = L[n]
  BY LedgerIs
<1>2. PICK M : IsLedger(M, g, used, cap, refill, n + 1) /\ Ledger(g, used, cap, refill) = M[n + 1]
  BY LedgerIs
<1>3. L[n] = M[n]
  <2>1. n <= n + 1 /\ n + 1 \in Nat /\ n \in 0 .. n
    OBVIOUS
  <2> QED BY <1>1, <1>2, <2>1, LedgersAgree
<1>4. M[n + 1] = Posted(M, g, used, cap, refill, n + 1)
  <2>1. n + 1 \in 0 .. n + 1
    OBVIOUS
  <2> QED BY <1>2, <2>1 DEF IsLedger
<1>5. n + 1 # 0 /\ (n + 1) - 1 = n
  OBVIOUS
<1>6. M[n + 1] = IF n + 1 \in used THEN Entry(M[n], g[n + 1], cap, refill) ELSE M[n]
  BY <1>4, <1>5 DEF Posted, Entry
<1> QED BY <1>1, <1>2, <1>3, <1>6

(* A budget stands where the Interests on its ledger left it. *)
Exact(b, e, cap, refill) ==
  /\ e.tokens \in 0 .. cap /\ e.at \in Nat
  /\ IF b = NoBucket THEN e.tokens = cap
     ELSE b.at \in Nat /\ e.at <= b.at /\ b.tokens = Smaller(e.tokens + (b.at - e.at) * refill, cap)

LEMMA ExactFilled ==
  ASSUME dosNow \in Nat, NEW cap \in Nat, NEW refill \in Nat, NEW b \in Bucket(cap, dosNow), NEW e,
         Exact(b, e, cap, refill), e.at <= dosNow
  PROVE  Exact(Filled(b, cap, refill), e, cap, refill)
<1> DEFINE c == Filled(b, cap, refill)
<1>1. e.tokens \in 0 .. cap /\ e.at \in Nat /\ e.tokens \in Nat
  BY DEF Exact
<1>2. c.at = dosNow
  BY FilledFacts
<1>3. c # NoBucket
  BY <1>2 DEF NoBucket
<1>4. CASE b = NoBucket
  <2>1. c.tokens = cap /\ e.tokens = cap
    BY <1>4 DEF Exact, Filled
  <2> DEFINE g == (dosNow - e.at) * refill
  <2>2. g \in Nat
    <3>1. dosNow - e.at \in Nat
      BY <1>1
    <3> QED BY <3>1
  <2> HIDE DEF c, g
  <2>3. Smaller(e.tokens + g, cap) = cap
    BY <2>1, <2>2 DEF Smaller
  <2> QED BY <1>1, <1>2, <1>3, <2>1, <2>3 DEF Exact, c, g
<1>5. CASE b # NoBucket
  <2> DEFINE p == b.at - e.at
             q == dosNow - b.at
  <2>1. /\ b.at \in Nat /\ e.at <= b.at /\ b.tokens = Smaller(e.tokens + p * refill, cap) /\ b.at <= dosNow
        /\ c.tokens = Smaller(b.tokens + q * refill, cap)
    BY <1>5 DEF Exact, Filled, Bucket
  <2>2. p \in Nat /\ q \in Nat /\ dosNow - e.at = p + q
    BY <1>1, <2>1
  <2> HIDE DEF p, q, c
  <2> DEFINE x == p * refill
             y == q * refill
  <2>3. x \in Nat /\ y \in Nat /\ (p + q) * refill = x + y
    BY <2>2
  <2>4. b.tokens = Smaller(e.tokens + x, cap) /\ c.tokens = Smaller(b.tokens + y, cap)
    BY <2>1
  <2> HIDE DEF x, y
  <2>5. c.tokens = Smaller(e.tokens + (x + y), cap)
    BY <1>1, <2>3, <2>4 DEF Smaller
  <2>6. c.tokens = Smaller(e.tokens + (c.at - e.at) * refill, cap)
    BY <1>2, <2>2, <2>3, <2>5
  <2> QED BY <1>1, <1>2, <1>3, <2>6 DEF Exact, c
<1> QED BY <1>4, <1>5

(* A token is spent, and an entry made of it. *)
LEMMA ExactSpent ==
  ASSUME dosNow \in Nat, NEW cap \in Nat, NEW refill \in Nat, NEW b \in Bucket(cap, dosNow), NEW e, NEW r,
         Exact(b, e, cap, refill), HasToken(b), b.at = dosNow, r[3] = dosNow
  PROVE  Exact(Consume(b), Entry(e, r, cap, refill), cap, refill) /\ Entry(e, r, cap, refill).at = dosNow
<1> DEFINE c == Consume(b)
           n == Entry(e, r, cap, refill)
<1>1. b.tokens \in 0 .. cap /\ b.tokens >= 1 /\ c.tokens = b.tokens - 1 /\ c.at = dosNow
  BY DEF Bucket, HasToken, Consume
<1>2. b # NoBucket /\ c # NoBucket
  BY <1>1 DEF NoBucket
<1>3. b.tokens = Smaller(e.tokens + (b.at - e.at) * refill, cap)
  BY <1>2 DEF Exact
<1>4. n.tokens = b.tokens - 1 /\ n.at = dosNow
  BY <1>3 DEF Entry
<1> HIDE DEF c, n
<1>5. (c.at - n.at) * refill = 0
  <2>1. c.at - n.at = 0
    BY <1>1, <1>4
  <2> QED BY <2>1
<1>6. c.tokens = Smaller(n.tokens + (c.at - n.at) * refill, cap)
  BY <1>1, <1>4, <1>5 DEF Smaller
<1>7. n.tokens \in 0 .. cap /\ n.at \in Nat /\ n.at <= c.at /\ c.at \in Nat
  BY <1>1, <1>4
<1> QED BY <1>2, <1>4, <1>6, <1>7 DEF Exact, c, n

SrcLedger(k) == Ledger(admitted, SrcUses(k), SrcCap, SrcRefill)
GrpLedger(k) == Ledger(admitted, GrpUses(k), GrpCap, GrpRefill)
LedgerInv ==
  /\ \A k \in SrcSlots : Exact(bySrc[k], SrcLedger(k), SrcCap, SrcRefill) /\ SrcLedger(k).at <= dosNow
  /\ \A k \in GrpSlots : Exact(byGrp[k], GrpLedger(k), GrpCap, GrpRefill) /\ GrpLedger(k).at <= dosNow

LEMMA LedgerInit == DosInit => LedgerInv
<1> SUFFICES ASSUME DosInit PROVE LedgerInv
  OBVIOUS
<1>1. /\ admitted = << >> /\ dosNow = 0
      /\ \A k \in SrcSlots : bySrc[k] = NoBucket
      /\ \A k \in GrpSlots : byGrp[k] = NoBucket
  BY DEF DosInit
<1>2. ASSUME NEW k PROVE SrcLedger(k) = [tokens |-> SrcCap, at |-> 0] /\ GrpLedger(k) = [tokens |-> GrpCap, at |-> 0]
  BY <1>1, LedgerOfNone DEF SrcLedger, GrpLedger
<1> QED BY <1>1, <1>2, DosAssumption DEF LedgerInv, Exact

LEMMA LedgerWaits ==
  ASSUME BudgetInv, LedgerInv, DosTick \/ UNCHANGED dosVars
  PROVE  LedgerInv'
<1>1. UNCHANGED <<bySrc, byGrp, admitted>> /\ dosNow \in Nat /\ dosNow' \in Nat /\ dosNow <= dosNow'
  BY DEF BudgetInv, DosTick, dosVars
<1>2. \A k : SrcLedger(k)' = SrcLedger(k) /\ GrpLedger(k)' = GrpLedger(k)
  BY <1>1 DEF SrcLedger, GrpLedger, SrcUses, GrpUses
<1>3. \A k \in SrcSlots : SrcLedger(k).at \in Nat
  BY DEF LedgerInv, Exact
<1>4. \A k \in GrpSlots : GrpLedger(k).at \in Nat
  BY DEF LedgerInv, Exact
<1>5. ASSUME NEW k \in SrcSlots PROVE Exact(bySrc[k], SrcLedger(k), SrcCap, SrcRefill)' /\ SrcLedger(k)'.at <= dosNow'
  BY <1>1, <1>2, <1>3 DEF LedgerInv, Exact
<1>6. ASSUME NEW k \in GrpSlots PROVE Exact(byGrp[k], GrpLedger(k), GrpCap, GrpRefill)' /\ GrpLedger(k)'.at <= dosNow'
  BY <1>1, <1>2, <1>4 DEF LedgerInv, Exact
<1> QED BY <1>5, <1>6 DEF LedgerInv

LEMMA LedgerOffered ==
  ASSUME BudgetInv, LedgerInv, NEW s \in Source, NEW g \in Group, admit(s, g)
  PROVE  LedgerInv'
<1>1. dosNow' = dosNow /\ dosNow \in Nat
  BY DEF admit, BudgetInv
<1>2. CASE UNCHANGED <<bySrc, byGrp, admitted>>
  <2>1. \A k : SrcLedger(k)' = SrcLedger(k) /\ GrpLedger(k)' = GrpLedger(k)
    BY <1>2 DEF SrcLedger, GrpLedger, SrcUses, GrpUses
  <2> QED BY <1>1, <1>2, <2>1 DEF LedgerInv
<1>3. CASE g \in Served
  <2> DEFINE k == SrcSlot[s]
             l == GrpSlot[g]
             b == Filled(bySrc[k], SrcCap, SrcRefill)
             c == Filled(byGrp[l], GrpCap, GrpRefill)
             ok == HasToken(b) /\ HasToken(c)
             r == <<s, g, dosNow>>
             n == Len(admitted)
  <2>1. /\ bySrc' = [bySrc EXCEPT ![k] = IF ok THEN Consume(b) ELSE b]
        /\ byGrp' = [byGrp EXCEPT ![l] = IF ~HasToken(b) THEN byGrp[l] ELSE IF ok THEN Consume(c) ELSE c]
        /\ admitted' = IF ok THEN Append(admitted, r) ELSE admitted
    BY <1>3 DEF admit, AdmitInterest
  <2>2. k \in SrcSlots /\ l \in GrpSlots
    BY DEF SrcSlots, GrpSlots
  <2>3. /\ bySrc \in [SrcSlots -> Bucket(SrcCap, dosNow)] /\ byGrp \in [GrpSlots -> Bucket(GrpCap, dosNow)]
        /\ \A x \in SrcSlots : Exact(bySrc[x], SrcLedger(x), SrcCap, SrcRefill) /\ SrcLedger(x).at <= dosNow
        /\ \A x \in GrpSlots : Exact(byGrp[x], GrpLedger(x), GrpCap, GrpRefill) /\ GrpLedger(x).at <= dosNow
    BY DEF BudgetInv, LedgerInv
  <2>4. b \in Bucket(SrcCap, dosNow) /\ b.at = dosNow /\ Exact(b, SrcLedger(k), SrcCap, SrcRefill)
    <3>1. bySrc[k] \in Bucket(SrcCap, dosNow) /\ Exact(bySrc[k], SrcLedger(k), SrcCap, SrcRefill) /\ SrcLedger(k).at <= dosNow
      BY <2>2, <2>3
    <3>2. b \in Bucket(SrcCap, dosNow) /\ b.at = dosNow
      BY <1>1, <3>1, FilledFacts, DosAssumption
    <3>3. Exact(b, SrcLedger(k), SrcCap, SrcRefill)
      BY <1>1, <3>1, ExactFilled, DosAssumption
    <3> QED BY <3>2, <3>3
  <2>5. c \in Bucket(GrpCap, dosNow) /\ c.at = dosNow /\ Exact(c, GrpLedger(l), GrpCap, GrpRefill)
    <3>1. byGrp[l] \in Bucket(GrpCap, dosNow) /\ Exact(byGrp[l], GrpLedger(l), GrpCap, GrpRefill) /\ GrpLedger(l).at <= dosNow
      BY <2>2, <2>3
    <3>2. c \in Bucket(GrpCap, dosNow) /\ c.at = dosNow
      BY <1>1, <3>1, FilledFacts, DosAssumption
    <3>3. Exact(c, GrpLedger(l), GrpCap, GrpRefill)
      BY <1>1, <3>1, ExactFilled, DosAssumption
    <3> QED BY <3>2, <3>3
  <2>6. r[1] = s /\ r[2] = g /\ r[3] = dosNow
    OBVIOUS
  <2> HIDE DEF b, c, r
  <2>7. CASE ~ok
    <3>1. admitted' = admitted
      BY <2>1, <2>7
    <3>2. \A x : SrcLedger(x)' = SrcLedger(x) /\ GrpLedger(x)' = GrpLedger(x)
      BY <3>1 DEF SrcLedger, GrpLedger, SrcUses, GrpUses
    <3>3. \A x \in SrcSlots : bySrc'[x] = IF x = k THEN b ELSE bySrc[x]
      BY <2>1, <2>3, <2>7
    <3>4. \A x \in GrpSlots : byGrp'[x] = byGrp[x] \/ (x = l /\ byGrp'[x] = c)
      BY <2>1, <2>3, <2>7
    <3> QED BY <1>1, <2>3, <2>4, <2>5, <3>2, <3>3, <3>4 DEF LedgerInv
  <2>8. CASE ok
    <3>1. /\ admitted' = Append(admitted, r)
          /\ bySrc' = [bySrc EXCEPT ![k] = Consume(b)] /\ byGrp' = [byGrp EXCEPT ![l] = Consume(c)]
      BY <2>1, <2>8
    <3>2. PICK S : admitted \in Seq(S)
      BY DEF BudgetInv, HistoryShape
    <3>3. /\ n \in Nat /\ Len(admitted') = n + 1 /\ admitted'[n + 1] = r /\ DOMAIN admitted = 1 .. n /\ DOMAIN admitted' = 1 .. n + 1
          /\ \A i \in 1 .. n : admitted'[i] = admitted[i]
      <4> DEFINE R == S \cup {r}
      <4>1. admitted \in Seq(R) /\ r \in R
        BY <3>2
      <4> HIDE DEF R
      <4>2. admitted' \in Seq(R) /\ Len(admitted') = n + 1 /\ admitted'[n + 1] = r /\ \A i \in 1 .. n : admitted'[i] = admitted[i]
        BY <3>1, <4>1, AppendProperties
      <4> QED BY <4>1, <4>2, LenProperties
    <3> HIDE DEF n, k, l
    <3>4. ASSUME NEW x PROVE SrcLedger(x)' = IF x = k THEN Entry(SrcLedger(x), r, SrcCap, SrcRefill) ELSE SrcLedger(x)
      <4>1. \A i \in 1 .. n : admitted[i] = admitted'[i] /\ (i \in SrcUses(x) <=> i \in SrcUses(x)')
        BY <3>3 DEF SrcUses
      <4>2. n + 1 \in SrcUses(x)' <=> x = k
        BY <2>6, <3>3 DEF SrcUses, k
      <4>3. Ledger(admitted', SrcUses(x)', SrcCap, SrcRefill) =
              IF n + 1 \in SrcUses(x)' THEN Entry(SrcLedger(x), r, SrcCap, SrcRefill) ELSE SrcLedger(x)
        BY <3>3, <4>1, LedgerGrows DEF SrcLedger, n
      <4> QED BY <4>2, <4>3 DEF SrcLedger
    <3>5. ASSUME NEW x PROVE GrpLedger(x)' = IF x = l THEN Entry(GrpLedger(x), r, GrpCap, GrpRefill) ELSE GrpLedger(x)
      <4>1. \A i \in 1 .. n : admitted[i] = admitted'[i] /\ (i \in GrpUses(x) <=> i \in GrpUses(x)')
        BY <3>3 DEF GrpUses
      <4>2. n + 1 \in GrpUses(x)' <=> x = l
        BY <2>6, <3>3 DEF GrpUses, l
      <4>3. Ledger(admitted', GrpUses(x)', GrpCap, GrpRefill) =
              IF n + 1 \in GrpUses(x)' THEN Entry(GrpLedger(x), r, GrpCap, GrpRefill) ELSE GrpLedger(x)
        BY <3>3, <4>1, LedgerGrows DEF GrpLedger, n
      <4> QED BY <4>2, <4>3 DEF GrpLedger
    <3>6. ASSUME NEW x \in SrcSlots PROVE Exact(bySrc'[x], SrcLedger(x)', SrcCap, SrcRefill) /\ SrcLedger(x)'.at <= dosNow'
      <4>1. CASE x = k
        <5>1. Exact(Consume(b), Entry(SrcLedger(k), r, SrcCap, SrcRefill), SrcCap, SrcRefill) /\ Entry(SrcLedger(k), r, SrcCap, SrcRefill).at = dosNow
          BY <1>1, <2>4, <2>6, <2>8, ExactSpent, DosAssumption
        <5>2. bySrc'[x] = Consume(b)
          BY <2>3, <3>1, <4>1
        <5> QED BY <1>1, <3>4, <4>1, <5>1, <5>2
      <4>2. CASE x # k
        BY <1>1, <2>3, <3>1, <3>4, <4>2
      <4> QED BY <4>1, <4>2
    <3>7. ASSUME NEW x \in GrpSlots PROVE Exact(byGrp'[x], GrpLedger(x)', GrpCap, GrpRefill) /\ GrpLedger(x)'.at <= dosNow'
      <4>1. CASE x = l
        <5>1. Exact(Consume(c), Entry(GrpLedger(l), r, GrpCap, GrpRefill), GrpCap, GrpRefill) /\ Entry(GrpLedger(l), r, GrpCap, GrpRefill).at = dosNow
          BY <1>1, <2>5, <2>6, <2>8, ExactSpent, DosAssumption
        <5>2. byGrp'[x] = Consume(c)
          BY <2>3, <3>1, <4>1
        <5> QED BY <1>1, <3>5, <4>1, <5>1, <5>2
      <4>2. CASE x # l
        BY <1>1, <2>3, <3>1, <3>5, <4>2
      <4> QED BY <4>1, <4>2
    <3> QED BY <3>6, <3>7 DEF LedgerInv
  <2> QED BY <2>7, <2>8
<1> QED BY <1>2, <1>3 DEF admit

LEMMA LedgerHolds == LedgerInv => RefusalsCostNothing
<1>1. ASSUME NEW b, NEW e, NEW cap, NEW refill, Exact(b, e, cap, refill) PROVE StandsAt(b, e, cap, refill)
  BY <1>1 DEF Exact, StandsAt
<1> QED BY <1>1 DEF LedgerInv, RefusalsCostNothing, SrcLedger, GrpLedger

(***************************************************************************)
(* Over any stretch of time a sender, and all senders of a group together, *)
(* get no more Interests to verification than a full bucket and its refill *)
(* and a refused frame costs no budget anything: each stands where the     *)
(* admitted Interests alone left it (mac/dos.rs).  For any keys, buckets   *)
(* they share, refills and offered load.                                   *)
(***************************************************************************)
THEOREM AdmissionIsExact == DosSpec => []DosInv
<1>1. BudgetInv /\ [DosNext]_dosVars => BudgetInv'
  BY BudgetWaits, BudgetOffered DEF DosNext
<1>2. BudgetInv /\ LedgerInv /\ [DosNext]_dosVars => LedgerInv'
  BY LedgerWaits, LedgerOffered DEF DosNext
<1>3. BudgetInv /\ LedgerInv => DosInv
  BY LedgerHolds DEF BudgetInv, DosTypeOK, Bucket, DosInv
<1> QED BY <1>1, <1>2, <1>3, BudgetInit, LedgerInit, PTL DEF DosSpec


---------------------------------------------------------------------------
(* The slot map, walked (SlotScheduleWalk). *)

(* The walk is over legal schedules, classes, names and instants. *)
LEMMA WalkTypes == WalkSpec => []WalkTypeOK
<1> USE WalkAssumption
<1>1. WalkInit => WalkTypeOK
  BY DEF WalkInit, WalkTypeOK, WithReservedStride, New, AtLeastOne, Schedules
<1>2. ASSUME WalkTypeOK, WalkTick \/ UNCHANGED walkVars PROVE WalkTypeOK'
  <2>1. CASE UNCHANGED walkVars
    BY <1>2, <2>1 DEF WalkTypeOK, walkVars
  <2>2. CASE WalkTick
    <3> DEFINE P == SuperframeUs(sched)
    <3>1. sched \in Schedules /\ instant \in Nat
      BY <1>2 DEF WalkTypeOK
    <3>2. P \in Nat \ {0}
      <4>1. 0 \in SlotsOf(sched)
        BY <3>1 DEF SlotsOf, Schedules
      <4> QED BY <3>1, <4>1, PlaceInSuperframe
    <3> HIDE DEF P
    <3>3. (instant + 1) % (2 * P) \in 0 .. 2 * P - 1
      <4>1. 2 * P \in Nat \ {0} /\ instant + 1 \in Nat
        BY <3>1, <3>2
      <4> QED BY <4>1, DivMod
    <3>4. instant' \in Nat
      BY <2>2, <3>2, <3>3 DEF WalkTick, P
    <3> QED BY <1>2, <2>2, <3>4 DEF WalkTypeOK, WalkTick
  <2> QED BY <1>2, <2>1, <2>2
<1> QED BY <1>1, <1>2, PTL DEF WalkSpec

(* What holds of every schedule holds of the one walked. *)
LEMMA WalkHolds == WalkTypeOK => WalkInv
<1> SUFFICES ASSUME WalkTypeOK PROVE WalkInv
  OBVIOUS
<1>1. /\ sched \in Schedules /\ hash \in Nat /\ class \in LeaseClass /\ leaseMax \in Nat
      /\ instant \in Nat /\ Hashes \subseteq Nat
  BY WalkAssumption DEF WalkTypeOK
<1>2. WaitEndsAtTheNextTurn
  <2> DEFINE w == WaitUsIn(sched, hash, class, instant)
  <2>1. /\ w \in Nat /\ OwnsNowIn(sched, hash, class, instant + w)
        /\ \A u \in instant .. instant + w - 1 : ~OwnsNowIn(sched, hash, class, u)
    BY <1>1, WaitIsTheNextTurn
  <2> HIDE DEF w
  <2>2. w >= 0
    BY <2>1
  <2> QED BY <2>1, <2>2 DEF WaitEndsAtTheNextTurn, Owns, w
<1>3. OneTurnPerSuperframe
  BY <1>1, TurnOfSuperframe DEF OneTurnPerSuperframe, Owns
<1>4. ClassesNeverShareASlot
  BY <1>1, ClassesKeptApart, OpenSlotRemains DEF ClassesNeverShareASlot
<1>7. StrideBoundsShortMapsOnly
  BY <1>1, StrideBound DEF StrideBoundsShortMapsOnly
<1>5. ResiduesGetTheirOwnSlot
  BY <1>1, ResiduesKeptApart DEF ResiduesGetTheirOwnSlot
<1>6. LeaseStopsAtTheLane
  <2> DEFINE d == LeaseDeadline(sched, instant, Bulk, leaseMax)
             b == SlotStart(sched, instant)
             full == b + AtLeastOne(leaseMax) * sched.slot_us
  <2>1. /\ d \in Nat /\ d <= full
        /\ ~IsReserved(sched, CurrentSlot(sched, instant)) =>
             \A u \in b .. d - 1 : ~IsReserved(sched, CurrentSlot(sched, u))
    BY <1>1, LeaseCoversNoLane
  <2>2. instant < d /\ (d < full => IsReserved(sched, CurrentSlot(sched, d)))
    BY <1>1, LeaseReachesTheLane
  <2>3. b \in Nat /\ b <= instant
    BY <1>1, SlotFacts
  <2> HIDE DEF d, b
  <2>4. \A u \in instant .. d - 1 : u \in b .. d - 1
    BY <1>1, <2>1, <2>3
  <2> QED BY <2>1, <2>2, <2>4 DEF LeaseStopsAtTheLane, d, b
<1> QED BY <1>2, <1>3, <1>4, <1>5, <1>6, <1>7 DEF WalkInv

(***************************************************************************)
(* What the slot map promises of every instant holds of every schedule the *)
(* constructors of mac/schedule.rs can build, every name-group, class,     *)
(* configured lease and instant: a wait ends at the first turn and no      *)
(* later, a group has one turn in any superframe's worth of time, waits    *)
(* for a lane keep to the stride exactly in maps of at most one slot more  *)
(* than it, classes are kept apart exactly if there is more than one slot, *)
(* residues are, and a lease ends at the lane.                             *)
(***************************************************************************)
THEOREM SlotMapKeepsItsPromises == WalkSpec => []WalkInv
BY WalkTypes, WalkHolds, PTL

---------------------------------------------------------------------------
(* Which slot a name has at which node, and when it is (SchedMap). *)

(* ------------------------------ names ------------------------------------ *)
(* One name is a prefix of another where it is defined and equal to it. *)
LEMMA CoversIs ==
  ASSUME NEW X, NEW x \in Seq(X), NEW e, e.prefix \in Seq(X)
  PROVE  SmCovers(e, x) <=> /\ Len(e.prefix) <= Len(x)
                            /\ \A i \in 1 .. Len(e.prefix) : x[i] = e.prefix[i]
<1> DEFINE p == e.prefix
           s == SubSeq(x, 1, Len(p))
<1>1. p \in Seq(X) /\ Len(p) \in Nat /\ Len(x) \in Nat
  BY LenProperties
<1> HIDE DEF p
<1>2. ASSUME Len(p) <= Len(x) PROVE s = p <=> \A i \in 1 .. Len(p) : x[i] = p[i]
  <2>1. s \in Seq(X) /\ Len(s) = Len(p) /\ \A i \in 1 .. Len(p) : s[i] = x[i]
    <3>1. \A i \in 1 .. Len(p) : x[i] \in X
      BY <1>1, <1>2, ElementOfSeq
    <3>2. 1 \in Int /\ Len(p) \in Int /\ \A i \in 1 .. Len(p) : x[i] \in X
      BY <1>1, <3>1
    <3>3. /\ s \in Seq(X)
          /\ Len(s) = IF 1 <= Len(p) THEN Len(p) - 1 + 1 ELSE 0
          /\ \A i \in 1 .. Len(p) - 1 + 1 : s[i] = x[1 + i - 1]
      BY <3>2, SubSeqProperties, <1>1, <1>2
    <3>4. \A i \in 1 .. Len(p) : i \in 1 .. Len(p) - 1 + 1 /\ 1 + i - 1 = i
      BY <1>1
    <3> HIDE DEF s
    <3> QED BY <1>1, <3>3, <3>4
  <2>2. s = p => \A i \in 1 .. Len(p) : x[i] = p[i]
    BY <2>1
  <2>3. (\A i \in 1 .. Len(p) : x[i] = p[i]) => s = p
    <3> HIDE DEF s
    <3> QED BY <1>1, <2>1, SeqEqual
  <2> QED BY <2>2, <2>3
<1> QED BY <1>2 DEF SmCovers, p

(* Of two prefixes of a name the shorter is a prefix of the longer. *)
LEMMA CoversInLine ==
  ASSUME NEW X, NEW x \in Seq(X), NEW e, NEW f, e.prefix \in Seq(X), f.prefix \in Seq(X),
         SmCovers(e, x), SmCovers(f, x), Len(e.prefix) <= Len(f.prefix)
  PROVE  SmCovers(e, f.prefix)
<1>1. Len(e.prefix) \in Nat /\ Len(f.prefix) \in Nat
  BY LenProperties
<1>2. /\ \A i \in 1 .. Len(e.prefix) : x[i] = e.prefix[i]
      /\ \A i \in 1 .. Len(f.prefix) : x[i] = f.prefix[i]
  BY CoversIs
<1>3. \A i \in 1 .. Len(e.prefix) : f.prefix[i] = e.prefix[i]
  BY <1>1, <1>2
<1> QED BY <1>3, CoversIs

LEMMA CoversChain ==
  ASSUME NEW X, NEW x \in Seq(X), NEW e, NEW f, e.prefix \in Seq(X), f.prefix \in Seq(X),
         SmCovers(e, f.prefix), SmCovers(f, x)
  PROVE  SmCovers(e, x)
<1>1. Len(e.prefix) \in Nat /\ Len(f.prefix) \in Nat /\ Len(x) \in Nat
  BY LenProperties
<1>2. /\ Len(e.prefix) <= Len(f.prefix) /\ Len(f.prefix) <= Len(x)
      /\ \A i \in 1 .. Len(e.prefix) : f.prefix[i] = e.prefix[i]
      /\ \A i \in 1 .. Len(f.prefix) : x[i] = f.prefix[i]
  BY CoversIs
<1>3. \A i \in 1 .. Len(e.prefix) : x[i] = e.prefix[i]
  BY <1>1, <1>2
<1>4. Len(e.prefix) <= Len(x)
  BY <1>1, <1>2
<1> QED BY <1>3, <1>4, CoversIs

LEMMA CoversBoth ==
  ASSUME NEW X, NEW e, NEW f, e.prefix \in Seq(X), f.prefix \in Seq(X),
         SmCovers(e, f.prefix), Len(f.prefix) <= Len(e.prefix)
  PROVE  e.prefix = f.prefix
<1>1. Len(e.prefix) \in Nat /\ Len(f.prefix) \in Nat
  BY LenProperties
<1>2. /\ Len(e.prefix) <= Len(f.prefix)
      /\ \A i \in 1 .. Len(e.prefix) : f.prefix[i] = e.prefix[i]
  BY CoversIs
<1>3. Len(e.prefix) = Len(f.prefix)
  BY <1>1, <1>2
<1>4. \A i \in 1 .. Len(e.prefix) : e.prefix[i] = f.prefix[i]
  BY <1>2
<1> QED BY <1>3, <1>4, SeqEqual

LEMMA CoversItself ==
  ASSUME NEW X, NEW e, e.prefix \in Seq(X)
  PROVE  SmCovers(e, e.prefix)
<1>1. Len(e.prefix) \in Nat
  BY LenProperties
<1> QED BY <1>1, CoversIs

(* What is cut off a name for its slot. *)
LEMMA SlotTrunc ==
  ASSUME NEW X, NEW x \in Seq(X), SmDepth \in Nat \ {0}
  PROVE  /\ slot_trunc(x) \in Seq(X)
         /\ Len(slot_trunc(x)) = IF Len(x) < SmDepth THEN Len(x) ELSE SmDepth
         /\ \A i \in 1 .. Len(slot_trunc(x)) : slot_trunc(x)[i] = x[i]
<1> DEFINE k == IF Len(x) < SmDepth THEN Len(x) ELSE SmDepth
           s == SubSeq(x, 1, k)
<1>1. Len(x) \in Nat
  BY LenProperties
<1>2. k \in Nat /\ k <= Len(x)
  BY <1>1
<1> HIDE DEF k
<1>3. \A i \in 1 .. k : x[i] \in X
  BY <1>1, <1>2, ElementOfSeq
<1>4. /\ s \in Seq(X)
      /\ Len(s) = IF 1 <= k THEN k - 1 + 1 ELSE 0
      /\ \A i \in 1 .. k - 1 + 1 : s[i] = x[1 + i - 1]
  <2>1. 1 \in Int /\ k \in Int
    BY <1>2
  <2> QED BY <1>3, <2>1, <1>2, SubSeqProperties
<1>5. slot_trunc(x) = s
  BY DEF slot_trunc, k
<1>6. \A i \in 1 .. k : i \in 1 .. k - 1 + 1 /\ 1 + i - 1 = i
  BY <1>2
<1> HIDE DEF s
<1>7. Len(s) = k
  BY <1>2, <1>4
<1> QED BY <1>4, <1>5, <1>6, <1>7 DEF k
---------------------------------------------------------------------------
(* A table as new_with_depth leaves it: names no deeper than the map, one entry each. *)
TableOK(T) ==
  /\ \A e \in T : /\ e \in [prefix : Seq(SmComponent), class : {"bulk", "latency"}]
                  /\ Len(e.prefix) \in 1 .. SmDepth
  /\ \A e, f \in T : e.prefix = f.prefix => e = f

(* A latency entry covers another, of class cl. *)
Shadow(T, cl) ==
  \E e, f \in T : SmCovers(e, f.prefix) /\ e # f /\ e.class = "latency" /\ f.class = cl

(* A name that some entry covers has a longest entry. *)
LEMMA LongestEntry ==
  ASSUME NEW T, TableOK(T), NEW x, NEW e \in T, SmCovers(e, x)
  PROVE  \E f \in T : f \in SmFound(T, x) /\ Len(e.prefix) <= Len(f.prefix)
<1> USE SchedMapAssumption
<1> DEFINE left == {k \in Nat : \E f \in T : SmCovers(f, x) /\ k = SmDepth - Len(f.prefix)}
<1>0. \A f \in T : Len(f.prefix) \in 1 .. SmDepth
  BY DEF TableOK
<1> HIDE DEF TableOK
<1>1. \A f \in T : SmDepth - Len(f.prefix) \in Nat
  BY <1>0
<1>2. left \in SUBSET Nat /\ SmDepth - Len(e.prefix) \in left
  BY <1>1
<1>3. PICK k \in left : \A y \in left : k <= y
  BY <1>2, NatMin
<1>4. PICK f \in T : SmCovers(f, x) /\ k = SmDepth - Len(f.prefix)
  BY <1>3
<1>5. \A g \in T : SmCovers(g, x) => Len(g.prefix) <= Len(f.prefix)
  <2> SUFFICES ASSUME NEW g \in T, SmCovers(g, x) PROVE Len(g.prefix) <= Len(f.prefix)
    OBVIOUS
  <2>1. SmDepth - Len(g.prefix) \in left
    BY <1>1
  <2>2. SmDepth - Len(f.prefix) <= SmDepth - Len(g.prefix)
    BY <1>3, <1>4, <2>1
  <2>3. Len(g.prefix) \in Nat /\ Len(f.prefix) \in Nat
    BY <1>0
  <2> QED BY <2>2, <2>3
<1>6. f \in SmFound(T, x)
  BY <1>4, <1>5 DEF SmFound
<1> QED BY <1>5, <1>6

(* The slot key: the name cut to the map's depth, and the class of the longest entry. *)
LEMMA GroupIs ==
  ASSUME NEW T, TableOK(T), NEW x \in Seq(SmComponent)
  PROVE  \/ SmFound(T, x) = {} /\ name_group(T, x) = <<slot_trunc(x), "bulk">>
         \/ \E e \in SmFound(T, x) : name_group(T, x) = <<slot_trunc(x), e.class>>
<1> USE SchedMapAssumption
<1> DEFINE F == SmFound(T, x)
           key(e) == IF depth_exact(e) THEN e.prefix ELSE slot_trunc(x)
           H == {<<key(e), e.class>> : e \in F}
<1>1. hash_for_name(T, x) = H
  BY DEF hash_for_name
<1>2. \A e \in F : e \in T /\ SmCovers(e, x)
  BY DEF SmFound
<1>3. \A e \in F : key(e) = slot_trunc(x)
  <2> SUFFICES ASSUME NEW e \in F, Len(e.prefix) >= SmDepth PROVE e.prefix = slot_trunc(x)
    BY DEF depth_exact
  <2> DEFINE p == e.prefix
             s == slot_trunc(x)
  <2>1. p \in Seq(SmComponent) /\ Len(p) \in 1 .. SmDepth
    BY <1>2 DEF TableOK
  <2>2. Len(p) <= Len(x) /\ \A i \in 1 .. Len(p) : x[i] = p[i]
    BY <1>2, <2>1, CoversIs
  <2>3. /\ s \in Seq(SmComponent)
        /\ Len(s) = IF Len(x) < SmDepth THEN Len(x) ELSE SmDepth
        /\ \A i \in 1 .. Len(s) : s[i] = x[i]
    BY SlotTrunc
  <2>4. Len(x) \in Nat /\ Len(p) = SmDepth
    BY <2>1, LenProperties
  <2> HIDE DEF p, s
  <2>5. Len(s) = Len(p) /\ \A i \in 1 .. Len(s) : s[i] = p[i]
    BY <2>2, <2>3, <2>4
  <2>6. s = p
    BY <2>1, <2>3, <2>5, SeqEqual
  <2> QED BY <2>6 DEF s, p
<1>4. H = {<<slot_trunc(x), e.class>> : e \in F}
  <2> HIDE DEF F
  <2> QED BY <1>3
<1>5. name_group(T, x) = IF H = {} THEN <<slot_trunc(x), "bulk">> ELSE CHOOSE h \in H : TRUE
  BY <1>1 DEF name_group
<1> HIDE DEF H, F
<1>6. CASE F = {}
  <2>1. H = {}
    BY <1>4, <1>6
  <2> QED BY <1>5, <1>6, <2>1 DEF F
<1>7. CASE F # {}
  <2>1. H # {}
    BY <1>4, <1>7
  <2>2. name_group(T, x) \in H
    BY <1>5, <2>1
  <2> QED BY <1>4, <2>2 DEF F
<1> QED BY <1>6, <1>7

LEMMA GroupClass ==
  ASSUME NEW T, TableOK(T), NEW x \in Seq(SmComponent)
  PROVE  /\ name_group(T, x)[1] = slot_trunc(x)
         /\ name_group(T, x)[2] \in {"bulk", "latency"}
         /\ name_group(T, x)[2] = "latency" => \E e \in T : SmCovers(e, x) /\ e.class = "latency"
         /\ ~Shadow(T, "bulk") /\ (\E e \in T : SmCovers(e, x) /\ e.class = "latency")
              => name_group(T, x)[2] = "latency"
<1>1. \A e \in T : e.prefix \in Seq(SmComponent) /\ e.class \in {"bulk", "latency"}
  BY DEF TableOK
<1>2. \A e \in SmFound(T, x) : /\ e \in T /\ SmCovers(e, x)
                               /\ \A f \in T : SmCovers(f, x) => Len(f.prefix) <= Len(e.prefix)
  BY DEF SmFound
<1>3. /\ name_group(T, x)[1] = slot_trunc(x)
      /\ name_group(T, x)[2] \in {"bulk", "latency"}
      /\ name_group(T, x)[2] = "latency" => \E e \in T : SmCovers(e, x) /\ e.class = "latency"
  <2>1. CASE SmFound(T, x) = {} /\ name_group(T, x) = <<slot_trunc(x), "bulk">>
    BY <2>1
  <2>2. CASE \E e \in SmFound(T, x) : name_group(T, x) = <<slot_trunc(x), e.class>>
    <3>1. PICK e \in SmFound(T, x) : name_group(T, x) = <<slot_trunc(x), e.class>>
      BY <2>2
    <3> QED BY <1>1, <1>2, <3>1
  <2> QED BY <2>1, <2>2, GroupIs
<1>4. ASSUME ~Shadow(T, "bulk"), NEW e \in T, SmCovers(e, x), e.class = "latency"
      PROVE  name_group(T, x)[2] = "latency"
  <2>1. SmFound(T, x) # {}
    BY <1>4, LongestEntry
  <2>2. PICK f \in SmFound(T, x) : name_group(T, x) = <<slot_trunc(x), f.class>>
    BY <2>1, GroupIs
  <2>3. f \in T /\ SmCovers(f, x) /\ Len(e.prefix) <= Len(f.prefix)
    BY <1>2, <1>4, <2>2
  <2>4. SmCovers(e, f.prefix)
    BY <1>1, <1>4, <2>3, CoversInLine
  <2>5. f.class = "latency"
    BY <1>1, <1>4, <2>3, <2>4 DEF Shadow
  <2> QED BY <2>2, <2>5
<1> QED BY <1>3, <1>4

(* Without a bulk entry under a latency one the digest decides the class of a name. *)
LEMMA DigestDecides ==
  ASSUME NEW T, NEW U, TableOK(T), TableOK(U), ~Shadow(T, "bulk"), ~Shadow(U, "bulk"),
         class_digest(T, TRUE) \subseteq class_digest(U, TRUE),
         NEW x \in Seq(SmComponent), name_group(T, x)[2] = "latency"
  PROVE  name_group(U, x)[2] = "latency"
<1>1. PICK e \in T : SmCovers(e, x) /\ e.class = "latency"
  BY GroupClass
<1>2. e.prefix \in class_digest(T, TRUE)
  BY <1>1 DEF class_digest
<1>3. PICK f \in U : f.class = "latency" /\ f.prefix = e.prefix
  BY <1>2 DEF class_digest
<1>4. SmCovers(f, x)
  BY <1>1, <1>3 DEF SmCovers
<1> QED BY <1>3, <1>4, GroupClass

(* And without a latency entry under another, the classes of names decide the digest. *)
LEMMA ClassesDecide ==
  ASSUME NEW T, NEW U, TableOK(T), TableOK(U),
         ~Shadow(T, "bulk"), ~Shadow(U, "bulk"), ~Shadow(T, "latency"),
         \A x \in SmNames : name_group(T, x)[2] = "latency" <=> name_group(U, x)[2] = "latency"
  PROVE  class_digest(T, TRUE) \subseteq class_digest(U, TRUE)
<1> USE SchedMapAssumption
<1>0. SmNames \subseteq Seq(SmComponent)
  BY DEF SmNames
<1>1. ASSUME NEW V, TableOK(V), NEW e \in V
      PROVE  e.prefix \in SmNames /\ e.prefix \in Seq(SmComponent) /\ Len(e.prefix) \in Nat
  <2>1. e.prefix \in Seq(SmComponent) /\ Len(e.prefix) \in 1 .. SmDepth
    BY <1>1 DEF TableOK
  <2>2. e.prefix \in [1 .. Len(e.prefix) -> SmComponent] /\ Len(e.prefix) \in 1 .. SmDepth + 1
    BY <2>1, LenProperties
  <2> QED BY <2>1, <2>2 DEF SmNames
<1> SUFFICES ASSUME NEW e \in T, e.class = "latency"
             PROVE  \E f \in U : f.class = "latency" /\ f.prefix = e.prefix
  BY DEF class_digest
<1>2. e.prefix \in SmNames /\ e.prefix \in Seq(SmComponent)
  BY <1>1
<1>3. name_group(T, e.prefix)[2] = "latency"
  BY <1>2, CoversItself, GroupClass
<1>4. PICK f \in U : SmCovers(f, e.prefix) /\ f.class = "latency"
  BY <1>2, <1>3, GroupClass
<1>5. f.prefix \in SmNames /\ f.prefix \in Seq(SmComponent)
  BY <1>1
<1>6. name_group(U, f.prefix)[2] = "latency"
  BY <1>4, <1>5, CoversItself, GroupClass
<1>7. PICK g \in T : SmCovers(g, f.prefix) /\ g.class = "latency"
  BY <1>5, <1>6, GroupClass
<1>8. g.prefix \in Seq(SmComponent) /\ SmCovers(g, e.prefix)
  BY <1>1, <1>2, <1>4, <1>5, <1>7, CoversChain
<1>9. g = e
  BY <1>7, <1>8 DEF Shadow
<1>10. Len(e.prefix) <= Len(f.prefix)
  BY <1>7, <1>9 DEF SmCovers
<1>11. f.prefix = e.prefix
  BY <1>2, <1>4, <1>5, <1>10, CoversBoth
<1> QED BY <1>4, <1>11
---------------------------------------------------------------------------
(* The inductive invariant of the map: what new_with_depth and with_groups leave. *)
MapInv ==
  /\ smTable = [n \in SmNode |-> smTable[n]] /\ smParams = [n \in SmNode |-> smParams[n]]
  /\ \A n \in SmNode :
       /\ TableOK(smTable[n])
       /\ \E clock, width, lanes : smParams[n] = with_groups(capture(clock, width, lanes), smTable[n])

LEMMA NewTable ==
  ASSUME NEW P \in SUBSET SmRegistrable
  PROVE  TableOK(new_with_depth(P))
<1> USE SchedMapAssumption
<1> DEFINE X == Seq(SmComponent)
<1>1. \A x \in P : x \in Seq(SmComponent)
  OBVIOUS
<1>2. ASSUME NEW x \in P, slot_trunc(x) # <<>>
      PROVE  slot_trunc(x) \in X /\ Len(slot_trunc(x)) \in 1 .. SmDepth
  <2> DEFINE s == slot_trunc(x)
  <2>1. s \in X /\ Len(s) = IF Len(x) < SmDepth THEN Len(x) ELSE SmDepth
    BY <1>1, SlotTrunc
  <2>2. Len(x) \in Nat
    BY <1>1, LenProperties
  <2>3. s # <<>>
    BY <1>2
  <2> HIDE DEF s
  <2>4. Len(s) \in Nat \ {0}
    BY <2>1, <2>3, EmptySeq
  <2>5. Len(s) \in 1 .. SmDepth
    BY <2>1, <2>2, <2>4
  <2> QED BY <2>1, <2>5 DEF s
<1> HIDE DEF X
<1>3. \A e \in new_with_depth(P) : \E x \in P :
        slot_trunc(x) # <<>> /\ e = [prefix |-> slot_trunc(x), class |-> "bulk"]
  BY DEF new_with_depth
<1>4. ASSUME NEW e \in new_with_depth(P)
      PROVE  /\ e \in [prefix : X, class : {"bulk", "latency"}] /\ Len(e.prefix) \in 1 .. SmDepth
             /\ e.class = "bulk" /\ e = [prefix |-> e.prefix, class |-> e.class]
  <2>1. PICK x \in P : slot_trunc(x) # <<>> /\ e = [prefix |-> slot_trunc(x), class |-> "bulk"]
    BY <1>3
  <2>2. slot_trunc(x) \in X /\ Len(slot_trunc(x)) \in 1 .. SmDepth
    BY <1>2, <2>1
  <2> QED BY <2>1, <2>2
<1>5. \A e, f \in new_with_depth(P) : e.prefix = f.prefix => e = f
  BY <1>4
<1> QED BY <1>4, <1>5 DEF TableOK, X

LEMMA MarkedTable ==
  ASSUME NEW T, TableOK(T), NEW M
  PROVE  TableOK(with_latency_unauthorised(T, M)) /\ TableOK(with_latency_authorised(T, M))
<1>1. ASSUME NEW K PROVE TableOK(with_latency_unauthorised(T, K))
  <2> DEFINE mark(e) == IF \E y \in K : slot_trunc(y) = e.prefix THEN "latency" ELSE e.class
             m(e) == [e EXCEPT !.class = mark(e)]
             V == with_latency_unauthorised(T, K)
  <2>1. V = {m(e) : e \in T}
    BY DEF with_latency_unauthorised
  <2> HIDE DEF V
  <2>2. ASSUME NEW e \in T
        PROVE  /\ m(e) \in [prefix : Seq(SmComponent), class : {"bulk", "latency"}]
               /\ m(e).prefix = e.prefix
    <3>1. e \in [prefix : Seq(SmComponent), class : {"bulk", "latency"}]
      BY DEF TableOK
    <3>2. mark(e) \in {"bulk", "latency"}
      BY <3>1
    <3> HIDE DEF mark
    <3> QED BY <3>1, <3>2
  <2> HIDE DEF m
  <2>3. ASSUME NEW g \in V, NEW h \in V, g.prefix = h.prefix PROVE g = h
    <3>1. PICK e \in T : g = m(e)
      BY <2>1
    <3>2. PICK f \in T : h = m(f)
      BY <2>1
    <3>3. e = f
      BY <2>2, <2>3, <3>1, <3>2 DEF TableOK
    <3> QED BY <3>1, <3>2, <3>3
  <2>4. ASSUME NEW g \in V
        PROVE  /\ g \in [prefix : Seq(SmComponent), class : {"bulk", "latency"}]
               /\ Len(g.prefix) \in 1 .. SmDepth
    <3>1. PICK e \in T : g = m(e)
      BY <2>1
    <3>2. Len(e.prefix) \in 1 .. SmDepth
      BY DEF TableOK
    <3> QED BY <2>2, <3>1, <3>2
  <2>5. TableOK(V)
    BY <2>3, <2>4 DEF TableOK
  <2> QED BY <2>5 DEF V
<1> QED BY <1>1 DEF with_latency_authorised

LEMMA MapInit == SchedMapInit => MapInv
<1> SUFFICES ASSUME SchedMapInit PROVE MapInv
  OBVIOUS
<1>1. \A n \in SmNode : smTable[n] = {} /\ smParams[n] = capture("wall", 0, FALSE)
  BY DEF SchedMapInit
<1>2. smTable = [n \in SmNode |-> smTable[n]] /\ smParams = [n \in SmNode |-> smParams[n]]
  BY DEF SchedMapInit
<1>3. TableOK({})
  BY DEF TableOK
<1>4. capture("wall", 0, FALSE) = with_groups(capture("wall", 0, FALSE), {})
  <2> DEFINE l == IF 0 = 0 THEN FALSE ELSE FALSE
             D == class_digest({}, l)
             c == capture("wall", 0, FALSE)
             E == {}
  <2>1. c = [depth |-> SmDepth, clock |-> "wall", width |-> 0, lanes |-> l, class |-> E]
    BY DEF capture
  <2>2. D = E
    BY DEF class_digest
  <2> HIDE DEF D, l, c, E
  <2>3. c.lanes = l
    BY <2>1
  <2>4. with_groups(c, {}) = [c EXCEPT !.class = D]
    BY <2>3 DEF with_groups, D
  <2>5. [c EXCEPT !.class = D] = [depth |-> SmDepth, clock |-> "wall", width |-> 0, lanes |-> l, class |-> D]
    BY <2>1
  <2>6. c = with_groups(c, {})
    BY <2>1, <2>2, <2>4, <2>5
  <2> QED BY <2>6 DEF c
<1> QED BY <1>1, <1>2, <1>3, <1>4 DEF MapInv

LEMMA MapStep == MapInv /\ [SchedMapNext]_schedMapVars => MapInv'
<1> SUFFICES ASSUME MapInv, [SchedMapNext]_schedMapVars PROVE MapInv'
  OBVIOUS
<1>1. CASE UNCHANGED schedMapVars
  BY <1>1 DEF MapInv, schedMapVars
<1>2. CASE SchedMapNext
  <2>1. PICK n \in SmNode : Configure(n)
    BY <1>2 DEF SchedMapNext
  <2> DEFINE Marked(a, P, M) ==
               IF a THEN with_latency_authorised(new_with_depth(P), M)
               ELSE with_latency_unauthorised(new_with_depth(P), M)
  <2>0. \E clock \in SmClocks, width \in SmWidths, lanes \in BOOLEAN, auth \in BOOLEAN :
        \E P \in SUBSET SmRegistrable : \E M \in SUBSET P :
          /\ smTable' = [smTable EXCEPT ![n] = Marked(auth, P, M)]
          /\ smParams' = [smParams EXCEPT ![n] = with_groups(capture(clock, width, lanes), Marked(auth, P, M))]
    <3>1. \E clock \in SmClocks, width \in SmWidths, lanes \in BOOLEAN, auth \in BOOLEAN :
          \E P \in SUBSET SmRegistrable : \E M \in SUBSET P :
            LET T0 == new_with_depth(P)
                T  == IF auth THEN with_latency_authorised(T0, M) ELSE with_latency_unauthorised(T0, M)
            IN /\ Cardinality(P) <= SmMaxReg
               /\ smTable' = [smTable EXCEPT ![n] = T]
               /\ smParams' = [smParams EXCEPT ![n] = with_groups(capture(clock, width, lanes), T)]
      BY <2>1, Zenon DEF Configure
    <3>2. PICK clock \in SmClocks, width \in SmWidths, lanes \in BOOLEAN, auth \in BOOLEAN,
               P \in SUBSET SmRegistrable :
          \E M \in SUBSET P :
            LET T0 == new_with_depth(P)
                T  == IF auth THEN with_latency_authorised(T0, M) ELSE with_latency_unauthorised(T0, M)
            IN /\ Cardinality(P) <= SmMaxReg
               /\ smTable' = [smTable EXCEPT ![n] = T]
               /\ smParams' = [smParams EXCEPT ![n] = with_groups(capture(clock, width, lanes), T)]
      BY <3>1, Zenon
    <3>3. PICK M \in SUBSET P :
            LET T0 == new_with_depth(P)
                T  == IF auth THEN with_latency_authorised(T0, M) ELSE with_latency_unauthorised(T0, M)
            IN /\ Cardinality(P) <= SmMaxReg
               /\ smTable' = [smTable EXCEPT ![n] = T]
               /\ smParams' = [smParams EXCEPT ![n] = with_groups(capture(clock, width, lanes), T)]
      BY <3>2, Zenon
    <3>4. /\ smTable' = [smTable EXCEPT ![n] = Marked(auth, P, M)]
          /\ smParams' = [smParams EXCEPT ![n] = with_groups(capture(clock, width, lanes), Marked(auth, P, M))]
      BY <3>3
    <3> HIDE DEF Marked
    <3> QED BY <3>4, Zenon
  <2> HIDE DEF Marked
  <2>2. PICK clock \in SmClocks, width \in SmWidths, lanes \in BOOLEAN, auth \in BOOLEAN,
             P \in SUBSET SmRegistrable, M \in SUBSET SmRegistrable :
          /\ smTable' = [smTable EXCEPT ![n] = Marked(auth, P, M)]
          /\ smParams' = [smParams EXCEPT ![n] = with_groups(capture(clock, width, lanes), Marked(auth, P, M))]
    <3>1. PICK clock \in SmClocks, width \in SmWidths, lanes \in BOOLEAN, auth \in BOOLEAN,
               P \in SUBSET SmRegistrable :
            \E M \in SUBSET P :
              /\ smTable' = [smTable EXCEPT ![n] = Marked(auth, P, M)]
              /\ smParams' = [smParams EXCEPT ![n] = with_groups(capture(clock, width, lanes), Marked(auth, P, M))]
      BY <2>0, Zenon
    <3>2. PICK M \in SUBSET P :
              /\ smTable' = [smTable EXCEPT ![n] = Marked(auth, P, M)]
              /\ smParams' = [smParams EXCEPT ![n] = with_groups(capture(clock, width, lanes), Marked(auth, P, M))]
      BY <3>1, Zenon
    <3>3. M \in SUBSET SmRegistrable
      BY <3>2
    <3> QED BY <3>2, <3>3, Zenon
  <2> DEFINE T == Marked(auth, P, M)
             p == with_groups(capture(clock, width, lanes), T)
  <2>3. TableOK(T)
    BY NewTable, MarkedTable DEF Marked
  <2>4. smTable' = [smTable EXCEPT ![n] = T] /\ smParams' = [smParams EXCEPT ![n] = p]
    BY <2>2
  <2>5. \E c, w, l : p = with_groups(capture(c, w, l), T)
    OBVIOUS
  <2> HIDE DEF T, p
  <2>6. /\ smTable = [k \in SmNode |-> smTable[k]] /\ smParams = [k \in SmNode |-> smParams[k]]
        /\ \A k \in SmNode :
             /\ TableOK(smTable[k])
             /\ \E c, w, l : smParams[k] = with_groups(capture(c, w, l), smTable[k])
    BY DEF MapInv
  <2>7. /\ smTable' = [k \in SmNode |-> IF k = n THEN T ELSE smTable[k]]
        /\ smParams' = [k \in SmNode |-> IF k = n THEN p ELSE smParams[k]]
    BY <2>4, <2>6
  <2>8. \A k \in SmNode : /\ smTable'[k] = IF k = n THEN T ELSE smTable[k]
                          /\ smParams'[k] = IF k = n THEN p ELSE smParams[k]
    BY <2>7
  <2>9. \A k \in SmNode : TableOK(smTable'[k])
    BY <2>3, <2>6, <2>8
  <2>10. \A k \in SmNode : \E c, w, l : smParams'[k] = with_groups(capture(c, w, l), smTable'[k])
    BY <2>5, <2>6, <2>8
  <2>11. smTable' = [k \in SmNode |-> smTable'[k]] /\ smParams' = [k \in SmNode |-> smParams'[k]]
    BY <2>7
  <2> QED BY <2>9, <2>10, <2>11 DEF MapInv
<1> QED BY <1>1, <1>2

(* The digest a node keeps is that of its table. *)
LEMMA ParamsAre ==
  ASSUME MapInv, NEW n \in SmNode
  PROVE  /\ TableOK(smTable[n])
         /\ smParams[n].class = class_digest(smTable[n], smParams[n].lanes)
         /\ smParams[n] = [SmRest(n) EXCEPT !.class = smParams[n].class]
         /\ SmRest(n).lanes = smParams[n].lanes
<1>1. PICK clock, width, lanes : smParams[n] = with_groups(capture(clock, width, lanes), smTable[n])
  BY DEF MapInv
<1> DEFINE l == IF width = 0 THEN FALSE ELSE lanes
           D == class_digest(smTable[n], l)
           p == smParams[n]
<1>2. p = [depth |-> SmDepth, clock |-> clock, width |-> width, lanes |-> l, class |-> D]
  BY <1>1 DEF with_groups, capture
<1> HIDE DEF l, D, p
<1>3. p.lanes = l /\ p.class = D
  BY <1>2
<1>4. SmRest(n) = [depth |-> SmDepth, clock |-> clock, width |-> width, lanes |-> l, class |-> {}]
  BY <1>2 DEF SmRest, p
<1>5. p = [SmRest(n) EXCEPT !.class = p.class]
  BY <1>2, <1>3, <1>4
<1>6. SmRest(n).lanes = p.lanes
  BY <1>3, <1>4
<1> QED BY <1>3, <1>5, <1>6 DEF MapInv, D, p

LEMMA MapKeepsPromises ==
  MapInv => SchedMapTypeOK /\ KeysIgnoreRegistrations /\ DifferentMapsAreSeen /\ NoFalsePartition
<1> SUFFICES ASSUME MapInv
             PROVE  SchedMapTypeOK /\ KeysIgnoreRegistrations /\ DifferentMapsAreSeen /\ NoFalsePartition
  OBVIOUS
<1>1. \A n \in SmNode :
        /\ TableOK(smTable[n])
        /\ smParams[n].class = class_digest(smTable[n], smParams[n].lanes)
        /\ smParams[n] = [SmRest(n) EXCEPT !.class = smParams[n].class]
        /\ SmRest(n).lanes = smParams[n].lanes
  BY ParamsAre
<1>2. SmNames \subseteq Seq(SmComponent)
  BY SchedMapAssumption DEF SmNames
<1>3. \A n \in SmNode, x \in SmNames :
        /\ name_group(smTable[n], x)[1] = slot_trunc(x)
        /\ name_group(smTable[n], x)[2] \in {"bulk", "latency"}
  BY <1>1, <1>2, GroupClass
<1>4. \A n \in SmNode, cl \in {"bulk", "latency"} : SmShadowed(n, cl) <=> Shadow(smTable[n], cl)
  BY DEF SmShadowed, Shadow
<1>5. \A n, m \in SmNode, legacy \in BOOLEAN :
        beacon_indicates_partition(m, map_beacon(n, legacy)) <=> ~legacy /\ smParams[n] # smParams[m]
  BY DEF beacon_indicates_partition, map_beacon, map_digest
<1>6. \A n \in SmNode, x \in SmNames :
        SmPlaced(n, x) = <<slot_trunc(x), IF smParams[n].lanes THEN name_group(smTable[n], x)[2] ELSE "bulk">>
  BY <1>3 DEF SmPlaced
<1>7. SchedMapTypeOK
  <2> SUFFICES ASSUME NEW n \in SmNode
               PROVE  /\ \A e \in smTable[n] : Len(e.prefix) \in 1 .. SmDepth /\ e.class \in {"bulk", "latency"}
                      /\ \A e, f \in smTable[n] : e.prefix = f.prefix => e = f
                      /\ smParams[n].class \subseteq {e.prefix : e \in smTable[n]}
    BY DEF SchedMapTypeOK
  <2>1. smParams[n].class \subseteq {e.prefix : e \in smTable[n]}
    <3>1. \A l : class_digest(smTable[n], l) \subseteq {e.prefix : e \in smTable[n]}
      BY DEF class_digest
    <3> QED BY <1>1, <3>1
  <2> QED BY <1>1, <2>1 DEF TableOK
<1>8. KeysIgnoreRegistrations
  BY <1>3 DEF KeysIgnoreRegistrations
<1>9. DifferentMapsAreSeen
  <2> SUFFICES ASSUME NEW n \in SmNode, NEW m \in SmNode,
                      ~beacon_indicates_partition(m, map_beacon(n, FALSE)),
                      ~SmShadowed(n, "bulk"), ~SmShadowed(m, "bulk")
               PROVE  SmRest(n) = SmRest(m) /\ \A x \in SmNames : SmPlaced(n, x) = SmPlaced(m, x)
    BY DEF DifferentMapsAreSeen
  <2>1. smParams[n] = smParams[m]
    BY <1>5
  <2>2. SmRest(n) = SmRest(m)
    BY <2>1 DEF SmRest
  <2>3. ASSUME NEW x \in SmNames, smParams[n].lanes
        PROVE  name_group(smTable[n], x)[2] = name_group(smTable[m], x)[2]
    <3>1. class_digest(smTable[n], smParams[n].lanes) = class_digest(smTable[m], smParams[n].lanes)
      BY <1>1, <2>1
    <3>2. class_digest(smTable[n], TRUE) = class_digest(smTable[m], TRUE)
      BY <2>3, <3>1 DEF class_digest
    <3>3. ~Shadow(smTable[n], "bulk") /\ ~Shadow(smTable[m], "bulk")
      BY <1>4
    <3>4. name_group(smTable[n], x)[2] = "latency" <=> name_group(smTable[m], x)[2] = "latency"
      <4> DEFINE T == smTable[n]
                 U == smTable[m]
      <4>1. /\ TableOK(T) /\ TableOK(U) /\ ~Shadow(T, "bulk") /\ ~Shadow(U, "bulk")
            /\ class_digest(T, TRUE) \subseteq class_digest(U, TRUE)
            /\ class_digest(U, TRUE) \subseteq class_digest(T, TRUE)
            /\ x \in Seq(SmComponent)
        BY <1>1, <1>2, <2>3, <3>2, <3>3
      <4> HIDE DEF T, U
      <4>2. name_group(T, x)[2] = "latency" <=> name_group(U, x)[2] = "latency"
        BY <4>1, DigestDecides
      <4> QED BY <4>2 DEF T, U
    <3> QED BY <1>3, <3>4
  <2>4. ASSUME NEW x \in SmNames PROVE SmPlaced(n, x) = SmPlaced(m, x)
    BY <1>6, <2>1, <2>3
  <2> QED BY <2>2, <2>4
<1>10. NoFalsePartition
  <2> SUFFICES ASSUME NEW n \in SmNode, NEW m \in SmNode, NEW legacy \in BOOLEAN,
                      SmRest(n) = SmRest(m), \A x \in SmNames : SmPlaced(n, x) = SmPlaced(m, x),
                      \A k \in {n, m} : ~SmShadowed(k, "latency") /\ ~SmShadowed(k, "bulk")
               PROVE  ~beacon_indicates_partition(m, map_beacon(n, legacy))
    BY DEF NoFalsePartition
  <2>1. smParams[n].lanes = smParams[m].lanes
    BY <1>1
  <2>2. smParams[n].class = smParams[m].class
    <3>1. CASE ~smParams[n].lanes
      BY <1>1, <2>1, <3>1 DEF class_digest
    <3>2. CASE smParams[n].lanes
      <4>1. \A x \in SmNames : name_group(smTable[n], x)[2] = name_group(smTable[m], x)[2]
        <5> SUFFICES ASSUME NEW x \in SmNames
                     PROVE  name_group(smTable[n], x)[2] = name_group(smTable[m], x)[2]
          OBVIOUS
        <5>1. SmPlaced(n, x) = <<slot_trunc(x), name_group(smTable[n], x)[2]>>
              /\ SmPlaced(m, x) = <<slot_trunc(x), name_group(smTable[m], x)[2]>>
          BY <1>6, <2>1, <3>2
        <5> QED BY <5>1
      <4>2. \A k \in {n, m} : /\ TableOK(smTable[k]) /\ ~Shadow(smTable[k], "bulk") /\ ~Shadow(smTable[k], "latency")
                              /\ class_digest(smTable[k], smParams[k].lanes) = class_digest(smTable[k], TRUE)
        BY <1>1, <1>4, <2>1, <3>2 DEF class_digest
      <4>3. /\ class_digest(smTable[n], TRUE) \subseteq class_digest(smTable[m], TRUE)
            /\ class_digest(smTable[m], TRUE) \subseteq class_digest(smTable[n], TRUE)
        BY <4>1, <4>2, ClassesDecide
      <4>4. class_digest(smTable[n], TRUE) = class_digest(smTable[m], TRUE)
        BY <4>3
      <4>5. \A k \in {n, m} : smParams[k].class = class_digest(smTable[k], TRUE)
        <5>1. \A k \in {n, m} : smParams[k].class = class_digest(smTable[k], smParams[k].lanes)
          BY <1>1
        <5> QED BY <4>2, <5>1
      <4> QED BY <4>4, <4>5
    <3> QED BY <3>1, <3>2
  <2>3. smParams[n] = smParams[m]
    BY <1>1, <2>2
  <2> QED BY <1>5, <2>3
<1> QED BY <1>7, <1>8, <1>9, <1>10

(* ------------------------------ the clock -------------------------------- *)
ClockTypes ==
  /\ clkT \in Nat /\ clkFaults \in 0 .. ClkMaxFaults /\ clkSends \in 0 .. ClkMaxSends
  /\ born \in [ClkNode -> Int] /\ counter \in [ClkNode \cup ClkPeer -> Int]
  /\ cv \in [ClkNode -> [set : BOOLEAN, off : Int, peer : Int]]
  /\ cvHw \in [ClkNode -> [set : BOOLEAN, off : Int, peer : Int]]
  /\ air \subseteq [ref : Int, at : Int, life : Int, for : SUBSET ClkNode]
  /\ evidence \in [ClkNode -> Int] /\ heardAt \in [ClkNode -> Int] /\ stepped \in [ClkNode -> Int]
  /\ read \in [ClkNode -> [soft : SUBSET Int, peers : SUBSET (ClkPeer \X Int)]]

(* Time passes, and no time is reached before it. *)
ClockOrder == \A n \in ClkNode : born[n] <= clkT /\ stepped[n] >= 0 /\ heardAt[n] <= clkT

(* A beacon under way carries the master's own time of its sending. *)
BeaconsInTime ==
  \A b \in air : b.ref = b.at - b.life /\ b.ref >= 0 /\ b.at <= clkT /\ clkT - b.at <= ClkDelay

(* The software offset is the master's last reference read, late by the delay at most. *)
OffsetsInTime ==
  \A n \in ClkNode : \A l \in read[n].soft :
    cv[n].set /\ cv[n].off - born[n] + l <= 0 /\ cv[n].off - born[n] + l >= -ClkDelay

(* The hardware offset is that of the last beacon of the lowest peer read. *)
OffsetsOfLowest ==
  \A n \in ClkNode :
    /\ read[n].peers # {} => cvHw[n].set
    /\ cvHw[n].set => /\ <<cvHw[n].peer, cvHw[n].off + counter[n]>> \in read[n].peers
                      /\ \A q \in read[n].peers : cvHw[n].peer <= q[1]
    /\ \A p, q \in read[n].peers : p[1] = q[1] => p = q

(* Since the owner was heard the clock has advanced with the time but for its steps. *)
EvidenceAges ==
  \A n \in ClkNode : evidence[n] # 0 =>
    n \in ClkWatcher /\ now(n) - evidence[n] >= clkT - heardAt[n] - stepped[n]

ClockInv ==
  ClockTypes /\ ClockOrder /\ BeaconsInTime /\ OffsetsInTime /\ OffsetsOfLowest /\ EvidenceAges

LEMMA NowIsInt ==
  ASSUME ClockTypes, NEW n \in ClkNode
  PROVE  now(n) \in Int
BY DEF ClockTypes, now, local, host

LEMMA ClockHolds ==
  ClockInv => /\ SchedClockTypeOK /\ SoftwareTimelinesAgree /\ HardwareTimelinesAgree
              /\ PresenceOutlivesOnlyAStep
<1> USE SchedClockAssumption
<1> SUFFICES ASSUME ClockInv
             PROVE  /\ SchedClockTypeOK /\ SoftwareTimelinesAgree /\ HardwareTimelinesAgree
                    /\ PresenceOutlivesOnlyAStep
  OBVIOUS
<1>1. SchedClockTypeOK
  BY DEF ClockInv, ClockTypes, ClockOrder, BeaconsInTime, SchedClockTypeOK
<1>2. SoftwareTimelinesAgree
  <2> SUFFICES ASSUME NEW n \in ClkNode, NEW m \in ClkNode, ~cvHw[n].set, ~cvHw[m].set,
                      read[n].soft # {}, read[n].soft = read[m].soft
               PROVE  now(n) - now(m) \in -ClkDelay .. ClkDelay
    BY DEF SoftwareTimelinesAgree
  <2>1. PICK l \in read[n].soft : l \in read[m].soft
    OBVIOUS
  <2>2. /\ cv[n].set /\ cv[n].off - born[n] + l <= 0 /\ cv[n].off - born[n] + l >= -ClkDelay
        /\ cv[m].set /\ cv[m].off - born[m] + l <= 0 /\ cv[m].off - born[m] + l >= -ClkDelay
    BY <2>1 DEF ClockInv, OffsetsInTime
  <2>3. now(n) = clkT - born[n] + cv[n].off /\ now(m) = clkT - born[m] + cv[m].off
    BY <2>2 DEF now, host
  <2>4. /\ clkT \in Int /\ born[n] \in Int /\ born[m] \in Int /\ cv[n].off \in Int /\ cv[m].off \in Int
        /\ l \in Int /\ ClkDelay \in Nat
    BY <2>1 DEF ClockInv, ClockTypes
  <2> QED BY <2>2, <2>3, <2>4
<1>3. HardwareTimelinesAgree
  <2> SUFFICES ASSUME NEW n \in ClkNode, NEW m \in ClkNode, NEW r \in read[n].peers \cap read[m].peers,
                      \A q \in read[n].peers \cup read[m].peers : r[1] <= q[1]
               PROVE  now(n) = now(m)
    BY DEF HardwareTimelinesAgree
  <2>1. ASSUME NEW k \in ClkNode, r \in read[k].peers, \A q \in read[k].peers : r[1] <= q[1]
        PROVE  now(k) = clkT + r[2]
    <3> DEFINE o == cvHw[k]
               p == <<o.peer, o.off + counter[k]>>
    <3>1. /\ o.set /\ p \in read[k].peers /\ o.peer <= r[1]
          /\ \A x, y \in read[k].peers : x[1] = y[1] => x = y
      BY <2>1 DEF ClockInv, OffsetsOfLowest
    <3>2. o.peer \in Int /\ o.off \in Int /\ counter[k] \in Int /\ r \in ClkPeer \X Int /\ clkT \in Int
      BY <2>1 DEF ClockInv, ClockTypes
    <3>3. p[1] = o.peer /\ p[2] = o.off + counter[k] /\ r[1] <= p[1]
      BY <2>1, <3>1
    <3>4. r[1] \in Int
      BY <3>2
    <3>5. p = r
      BY <2>1, <3>1, <3>2, <3>3, <3>4
    <3>6. now(k) = clkT + counter[k] + o.off
      BY <3>1 DEF now, local
    <3> QED BY <3>2, <3>3, <3>5, <3>6
  <2> QED BY <2>1
<1>4. PresenceOutlivesOnlyAStep
  <2> SUFFICES ASSUME NEW n \in ClkNode, in_range(evidence[n], now(n))
               PROVE  clkT - heardAt[n] <= ClkWindow + stepped[n]
    BY DEF PresenceOutlivesOnlyAStep
  <2>1. now(n) \in Int /\ evidence[n] \in Int /\ clkT \in Int /\ heardAt[n] \in Int /\ stepped[n] \in Int
    BY NowIsInt DEF ClockInv, ClockTypes
  <2>2. evidence[n] # 0 /\ now(n) - evidence[n] >= clkT - heardAt[n] - stepped[n]
    BY DEF ClockInv, EvidenceAges, in_range
  <2>3. Minus(now(n), evidence[n]) <= ClkWindow
    BY DEF in_range
  <2>4. now(n) - evidence[n] <= ClkWindow
    BY <2>1, <2>3 DEF Minus
  <2> QED BY <2>1, <2>2, <2>4
<1> QED BY <1>1, <1>2, <1>3, <1>4

LEMMA ClockInit == SchedClockInit => ClockInv
<1> USE SchedClockAssumption
<1> SUFFICES ASSUME SchedClockInit PROVE ClockInv
  OBVIOUS
<1> USE DEF SchedClockInit
<1>0. NoOffset \in [set : BOOLEAN, off : Int, peer : Int] /\ ~NoOffset.set
  BY DEF NoOffset
<1>1. NoneRead \in [soft : SUBSET Int, peers : SUBSET (ClkPeer \X Int)] /\ NoneRead.soft = {} /\ NoneRead.peers = {}
  BY DEF NoneRead
<1>2. ClockTypes
  BY <1>0, <1>1 DEF ClockTypes
<1>3. \A n \in ClkNode : /\ read[n].soft = {} /\ read[n].peers = {} /\ ~cvHw[n].set
                         /\ evidence[n] = 0 /\ heardAt[n] = 0 /\ stepped[n] = 0
  BY <1>0, <1>1
<1>4. ClockOrder /\ BeaconsInTime
  BY <1>3 DEF ClockOrder, BeaconsInTime
<1>5. OffsetsInTime /\ OffsetsOfLowest /\ EvidenceAges
  BY <1>3 DEF OffsetsInTime, OffsetsOfLowest, EvidenceAges
<1> QED BY <1>2, <1>4, <1>5 DEF ClockInv

(* A reading of node n that leaves the time alone: what it does to the evidence. *)
LEMMA StepsAges ==
  ASSUME ClockInv, ClockTypes', NEW n \in ClkNode, Steps(n),
         \A k \in ClkNode \ {n} : now(k)' = now(k)
  PROVE  EvidenceAges' /\ \A k \in ClkNode : stepped'[k] >= 0
<1> USE SchedClockAssumption
<1>1. /\ clkT' = clkT /\ evidence' = evidence /\ heardAt' = heardAt
      /\ \A k \in ClkNode : stepped'[k] =
           IF k # n THEN stepped[k]
           ELSE IF n \in ClkWatcher THEN stepped[n] + Minus(now(n), now(n)') ELSE 0
  BY DEF Steps, ClockInv, ClockTypes
<1>2. now(n) \in Int /\ now(n)' \in Int
  <2>1. now(n) \in Int
    BY NowIsInt DEF ClockInv
  <2>2. now(n)' \in Int
    BY DEF ClockTypes, now, local, host
  <2> QED BY <2>1, <2>2
<1>3. \A k \in ClkNode : stepped[k] \in Int /\ evidence[k] \in Int /\ heardAt[k] \in Int /\ stepped[k] >= 0
  BY DEF ClockInv, ClockTypes, ClockOrder
<1>4. \A k \in ClkNode : evidence[k] # 0 =>
        k \in ClkWatcher /\ now(k) - evidence[k] >= clkT - heardAt[k] - stepped[k]
  BY DEF ClockInv, EvidenceAges
<1>5. clkT \in Int
  BY DEF ClockInv, ClockTypes
<1> DEFINE d == Minus(now(n), now(n)')
<1>6. d \in Nat /\ now(n)' >= now(n) - d
  BY <1>2 DEF Minus
<1> HIDE DEF d
<1>7. \A k \in ClkNode : evidence'[k] # 0 =>
        k \in ClkWatcher /\ now(k)' - evidence'[k] >= clkT' - heardAt'[k] - stepped'[k]
  <2> SUFFICES ASSUME NEW k \in ClkNode, evidence[k] # 0
               PROVE  k \in ClkWatcher /\ now(k)' - evidence[k] >= clkT - heardAt[k] - stepped'[k]
    BY <1>1
  <2>1. CASE k # n
    <3>1. stepped'[k] = stepped[k] /\ now(k)' = now(k)
      BY <1>1, <2>1
    <3> QED BY <1>4, <3>1
  <2>2. CASE k = n
    <3>1. n \in ClkWatcher /\ now(n) - evidence[n] >= clkT - heardAt[n] - stepped[n]
      BY <1>4, <2>2
    <3>2. stepped'[n] = stepped[n] + d
      BY <1>1, <3>1 DEF d
    <3>3. stepped[n] \in Int /\ evidence[n] \in Int /\ heardAt[n] \in Int
      BY <1>3
    <3>4. now(n)' - evidence[n] >= clkT - heardAt[n] - (stepped[n] + d)
      BY <1>2, <1>5, <1>6, <3>1, <3>3
    <3> QED BY <2>2, <3>1, <3>2, <3>4
  <2> QED BY <2>1, <2>2
<1>8. \A k \in ClkNode : stepped'[k] >= 0
  <2> SUFFICES ASSUME NEW k \in ClkNode PROVE stepped'[k] >= 0
    OBVIOUS
  <2>1. stepped[k] >= 0 /\ stepped[k] \in Int /\ stepped[n] >= 0 /\ stepped[n] \in Int
    BY <1>3
  <2>2. stepped'[k] = IF k # n THEN stepped[k] ELSE IF n \in ClkWatcher THEN stepped[n] + d ELSE 0
    BY <1>1 DEF d
  <2> QED BY <1>6, <2>1, <2>2
<1> QED BY <1>7, <1>8 DEF EvidenceAges
(* What a node reads of the clock rests on its own offsets, start and counter only. *)
LEMMA NowOfOthers ==
  ASSUME NEW n \in ClkNode, clkT' = clkT,
         \A k \in ClkNode \ {n} : cv'[k] = cv[k] /\ cvHw'[k] = cvHw[k] /\ born'[k] = born[k] /\ counter'[k] = counter[k]
  PROVE  \A k \in ClkNode \ {n} : now(k)' = now(k)
BY DEF now, local, host

(* A software reading: the offset of n and what it last read change with it. *)
LEMMA SoftRead ==
  ASSUME ClockInv, NEW n \in ClkNode, NEW r \in Int, NEW l \in Int, NEW t \in Int,
         r = t - l, t <= clkT, clkT - t <= ClkDelay,
         cv' = [cv EXCEPT ![n] = TakenIn(@, r, host(n, clkT))],
         read' = [read EXCEPT ![n].soft = {l}],
         UNCHANGED <<born, counter, cvHw, clkFaults>>, Steps(n), BeaconsInTime',
         air' \subseteq [ref : Int, at : Int, life : Int, for : SUBSET ClkNode],
         clkSends' \in 0 .. ClkMaxSends
  PROVE  ClockInv'
<1> USE SchedClockAssumption
<1> DEFINE o == TakenIn(cv[n], r, host(n, clkT))
<1>0. ClockTypes /\ ClockOrder /\ OffsetsInTime /\ OffsetsOfLowest
  BY DEF ClockInv
<1>1. host(n, clkT) = clkT - born[n] /\ clkT \in Int /\ born[n] \in Int
  BY <1>0 DEF host, ClockTypes
<1>2. o \in [set : BOOLEAN, off : Int, peer : Int] /\ o.set /\ o.off = r - (clkT - born[n])
  <2>1. cv[n] \in [set : BOOLEAN, off : Int, peer : Int]
    BY <1>0 DEF ClockTypes
  <2> DEFINE h == host(n, clkT)
             p == cv[n]
             f == r - h
  <2>2. h \in Int /\ f \in Int /\ f = r - (clkT - born[n])
    BY <1>1
  <2>3. o = [p EXCEPT !.set = TRUE, !.off = f]
    BY DEF TakenIn, o
  <2> HIDE DEF p, h, f, o
  <2>4. o = [set |-> TRUE, off |-> f, peer |-> p.peer] /\ p.peer \in Int
    BY <2>1, <2>3 DEF p
  <2>5. o.off = f
    BY <2>4
  <2>6. o.set
    BY <2>4
  <2>7. o \in [set : BOOLEAN, off : Int, peer : Int]
    BY <2>2, <2>4
  <2>8. o.off = r - (clkT - born[n])
    BY <2>2, <2>5
  <2> QED BY <2>6, <2>7, <2>8
<1> HIDE DEF o
<1>3. cv' = [cv EXCEPT ![n] = o]
  BY DEF o
<1>4. \A k \in ClkNode : cv'[k] = IF k = n THEN o ELSE cv[k]
  BY <1>0, <1>3 DEF ClockTypes
<1>5. \A k \in ClkNode : /\ read'[k].peers = read[k].peers
                         /\ read'[k].soft = IF k = n THEN {l} ELSE read[k].soft
                         /\ read'[k] \in [soft : SUBSET Int, peers : SUBSET (ClkPeer \X Int)]
  <2>1. \A k \in ClkNode : read[k] \in [soft : SUBSET Int, peers : SUBSET (ClkPeer \X Int)]
    BY <1>0 DEF ClockTypes
  <2>2. read' = [k \in ClkNode |-> IF k = n THEN [read[n] EXCEPT !.soft = {l}] ELSE read[k]]
    BY <1>0 DEF ClockTypes
  <2> QED BY <2>1, <2>2
<1>6. clkT' = clkT /\ evidence' = evidence /\ heardAt' = heardAt
  BY DEF Steps
<1>7. ClockTypes'
  <2>1. clkT' \in Nat /\ clkFaults' \in 0 .. ClkMaxFaults
        /\ born' \in [ClkNode -> Int] /\ counter' \in [ClkNode \cup ClkPeer -> Int]
        /\ cvHw' \in [ClkNode -> [set : BOOLEAN, off : Int, peer : Int]]
        /\ evidence' \in [ClkNode -> Int] /\ heardAt' \in [ClkNode -> Int]
    BY <1>0, <1>6 DEF ClockTypes
  <2>2. cv' \in [ClkNode -> [set : BOOLEAN, off : Int, peer : Int]]
    BY <1>0, <1>2, <1>3 DEF ClockTypes
  <2>3. read' \in [ClkNode -> [soft : SUBSET Int, peers : SUBSET (ClkPeer \X Int)]]
    <3>1. read' = [k \in ClkNode |-> read'[k]]
      BY <1>0 DEF ClockTypes
    <3> QED BY <1>5, <3>1
  <2>4. stepped' \in [ClkNode -> Int]
    <3>1. now(n) \in Int
      BY <1>0, NowIsInt
    <3>2. now(n)' \in Int
      BY <2>1, <2>2 DEF now, local, host
    <3>3. Minus(now(n), now(n)') \in Int
      BY <3>1, <3>2 DEF Minus
    <3> QED BY <1>0, <3>3 DEF Steps, ClockTypes
  <2> QED BY <2>1, <2>2, <2>3, <2>4 DEF ClockTypes
<1>8. EvidenceAges' /\ \A k \in ClkNode : stepped'[k] >= 0
  <2>1. \A k \in ClkNode \ {n} : now(k)' = now(k)
    BY <1>4, <1>6, NowOfOthers
  <2> QED BY <1>7, <2>1, StepsAges
<1>9. ClockOrder'
  BY <1>0, <1>6, <1>8 DEF ClockOrder
<1>10. OffsetsInTime'
  <2> SUFFICES ASSUME NEW k \in ClkNode, NEW x \in read'[k].soft
               PROVE  cv'[k].set /\ cv'[k].off - born[k] + x <= 0 /\ cv'[k].off - born[k] + x >= -ClkDelay
    BY DEF OffsetsInTime
  <2>1. CASE k = n
    <3>1. x = l /\ cv'[k] = o
      BY <1>4, <1>5, <2>1
    <3> QED BY <1>1, <1>2, <2>1, <3>1
  <2>2. CASE k # n
    BY <1>0, <1>4, <1>5, <2>2 DEF OffsetsInTime
  <2> QED BY <2>1, <2>2
<1>11. OffsetsOfLowest'
  BY <1>0, <1>5 DEF OffsetsOfLowest
<1> QED BY <1>7, <1>8, <1>9, <1>10, <1>11 DEF ClockInv

LEMMA ClockBuilds == ClockInv /\ build_beacon => ClockInv'
<1> USE SchedClockAssumption
<1> SUFFICES ASSUME ClockInv, build_beacon PROVE ClockInv'
  OBVIOUS
<1> DEFINE m == ClkMaster
           h == host(m, clkT)
           b == [ref |-> h, at |-> clkT, life |-> born[m], for |-> ClkNode \ {m}]
<1>1. ClockTypes /\ ClockOrder /\ BeaconsInTime
  BY DEF ClockInv
<1>2. h = clkT - born[m] /\ clkT \in Int /\ born[m] \in Int /\ h \in Int /\ born[m] <= clkT /\ m \in ClkNode
  BY <1>1 DEF host, ClockTypes, ClockOrder
<1>3. /\ cv' = [cv EXCEPT ![m] = TakenIn(@, h, h)] /\ read' = [read EXCEPT ![m].soft = {born[m]}]
      /\ air' = air \cup {b} /\ UNCHANGED <<born, counter, cvHw, clkFaults>> /\ Steps(m)
      /\ clkSends < ClkMaxSends /\ clkSends' = clkSends + 1
  BY DEF build_beacon
<1>4. clkT' = clkT
  BY <1>3 DEF Steps
<1>5. b \in [ref : Int, at : Int, life : Int, for : SUBSET ClkNode]
      /\ b.ref = h /\ b.at = clkT /\ b.life = born[m]
  BY <1>2
<1> HIDE DEF h, b, m
<1>6. BeaconsInTime'
  <2>1. \A x \in air' : x \in air \/ x = b
    BY <1>3
  <2>2. h >= 0 /\ clkT - clkT <= ClkDelay
    BY <1>2
  <2> QED BY <1>1, <1>2, <1>4, <1>5, <2>1, <2>2 DEF BeaconsInTime
<1>7. air' \subseteq [ref : Int, at : Int, life : Int, for : SUBSET ClkNode]
  BY <1>1, <1>3, <1>5 DEF ClockTypes
<1>8. clkSends' \in 0 .. ClkMaxSends
  BY <1>1, <1>3 DEF ClockTypes
<1>9. clkT - clkT <= ClkDelay /\ clkT <= clkT
  BY <1>2
<1> QED BY <1>2, <1>3, <1>6, <1>7, <1>8, <1>9, SoftRead DEF h

LEMMA ClockReads == ASSUME ClockInv, NEW n \in ClkNode, ingest_time_ref(n) PROVE ClockInv'
<1> USE SchedClockAssumption
<1> DEFINE Beacon == [ref : Int, at : Int, life : Int, for : SUBSET ClkNode]
<1>1. ClockTypes /\ BeaconsInTime /\ air \subseteq Beacon
  BY DEF ClockInv, ClockTypes
<1>2. PICK b \in air :
        /\ air' = (air \ {b}) \cup {[b EXCEPT !.for = @ \ {n}]}
        /\ cv' = [cv EXCEPT ![n] = TakenIn(@, b.ref, host(n, clkT))]
        /\ read' = [read EXCEPT ![n].soft = {b.life}]
        /\ UNCHANGED <<born, counter, cvHw, clkFaults, clkSends>> /\ Steps(n)
  BY DEF ingest_time_ref
<1> DEFINE c == [b EXCEPT !.for = @ \ {n}]
<1>3. c \in Beacon /\ c.ref = b.ref /\ c.at = b.at /\ c.life = b.life
  BY <1>1, <1>2
<1>4. b.ref \in Int /\ b.life \in Int /\ b.at \in Int
  BY <1>1, <1>2
<1>5. b.ref = b.at - b.life /\ b.at <= clkT /\ clkT - b.at <= ClkDelay
  BY <1>1, <1>2 DEF BeaconsInTime
<1>6. clkT' = clkT
  BY <1>2 DEF Steps
<1> HIDE DEF c
<1>7. air' = (air \ {b}) \cup {c}
  BY <1>2 DEF c
<1>8. BeaconsInTime'
  <2>1. \A x \in air' : x \in air \/ x = c
    BY <1>7
  <2> QED BY <1>1, <1>2, <1>3, <1>6, <2>1 DEF BeaconsInTime
<1>9. air' \subseteq Beacon
  BY <1>1, <1>3, <1>7
<1>10. clkSends' \in 0 .. ClkMaxSends
  BY <1>1, <1>2 DEF ClockTypes
<1> QED BY <1>2, <1>4, <1>5, <1>8, <1>9, <1>10, SoftRead
LEMMA ClockPaired ==
  ASSUME ClockInv, NEW n \in ClkNode, NEW k \in ClkPeer, ingest_common_view(n, k) PROVE ClockInv'
<1> USE SchedClockAssumption
<1> DEFINE Off == [set : BOOLEAN, off : Int, peer : Int]
           Read == [soft : SUBSET Int, peers : SUBSET (ClkPeer \X Int)]
           p == cvHw[n]
           f == counter[k] - counter[n]
           w == [set |-> TRUE, off |-> f, peer |-> k]
           o == IF Chosen(p, k) THEN w ELSE p
           x == <<k, counter[k]>>
           R == read[n].peers
           Q == {r \in R : r[1] # k} \cup {x}
<1>0. ClockTypes /\ ClockOrder /\ BeaconsInTime /\ OffsetsInTime /\ OffsetsOfLowest
  BY DEF ClockInv
<1>1. /\ counter[k] \in Int /\ counter[n] \in Int /\ k \in Int /\ clkT \in Int
      /\ R \in SUBSET (ClkPeer \X Int) /\ p \in Off
  BY <1>0 DEF ClockTypes
<1>2. f \in Int /\ w \in Off /\ o \in Off
  BY <1>1
<1>3. x \in ClkPeer \X Int /\ Q \in SUBSET (ClkPeer \X Int)
  BY <1>1
<1>4. /\ cvHw' = [cvHw EXCEPT ![n] = o] /\ read' = [read EXCEPT ![n].peers = Q]
      /\ UNCHANGED <<born, counter, cv, air, clkFaults>> /\ Steps(n)
      /\ clkSends < ClkMaxSends /\ clkSends' = clkSends + 1
  BY DEF ingest_common_view
<1>5. clkT' = clkT /\ evidence' = evidence /\ heardAt' = heardAt
  BY <1>4 DEF Steps
<1>6. x[1] = k /\ x[2] = counter[k] /\ w.set /\ w.off = f /\ w.peer = k
  OBVIOUS
<1>7. \A q \in Q : q = x \/ (q \in R /\ q[1] # k)
  OBVIOUS
<1>8. x \in Q /\ \A q \in R : q[1] # k => q \in Q
  OBVIOUS
<1>9. o = IF ~p.set \/ k <= p.peer THEN w ELSE p
  BY DEF Chosen
<1> HIDE DEF p, f, w, o, x, R, Q, Off, Read
<1>10. \A j \in ClkNode : cvHw'[j] = IF j = n THEN o ELSE cvHw[j]
  BY <1>0, <1>4 DEF ClockTypes
<1>11. \A j \in ClkNode : /\ read'[j].soft = read[j].soft
                          /\ read'[j].peers = IF j = n THEN Q ELSE read[j].peers
                          /\ read'[j] \in Read
  <2>1. \A j \in ClkNode : read[j] \in Read
    BY <1>0 DEF ClockTypes, Read
  <2>2. \A j \in ClkNode : read'[j] = IF j = n THEN [read[n] EXCEPT !.peers = Q] ELSE read[j]
    BY <1>0, <1>4 DEF ClockTypes
  <2> DEFINE g == read[n]
             h == [g EXCEPT !.peers = Q]
  <2>3. h \in Read /\ h.soft = g.soft /\ h.peers = Q
    <3>1. g \in Read
      BY <2>1
    <3> HIDE DEF g
    <3> QED BY <1>3, <3>1 DEF Read
  <2>4. \A j \in ClkNode : read'[j] = IF j = n THEN h ELSE read[j]
    BY <2>2
  <2> HIDE DEF h
  <2> QED BY <2>1, <2>3, <2>4
<1>12. ClockTypes'
  <2>1. clkT' \in Nat /\ clkFaults' \in 0 .. ClkMaxFaults /\ clkSends' \in 0 .. ClkMaxSends
        /\ born' \in [ClkNode -> Int] /\ counter' \in [ClkNode \cup ClkPeer -> Int]
        /\ cv' \in [ClkNode -> Off] /\ air' \subseteq [ref : Int, at : Int, life : Int, for : SUBSET ClkNode]
        /\ evidence' \in [ClkNode -> Int] /\ heardAt' \in [ClkNode -> Int]
    BY <1>0, <1>4, <1>5 DEF ClockTypes, Off
  <2>2. cvHw' \in [ClkNode -> Off]
    <3>1. cvHw \in [ClkNode -> Off]
      BY <1>0 DEF ClockTypes, Off
    <3> QED BY <1>2, <1>4, <3>1
  <2>3. read' \in [ClkNode -> Read]
    <3>1. read' = [j \in ClkNode |-> read'[j]]
      BY <1>0, <1>4 DEF ClockTypes
    <3> QED BY <1>11, <3>1
  <2>4. stepped' \in [ClkNode -> Int]
    <3>1. now(n) \in Int
      BY <1>0, NowIsInt
    <3>2. now(n)' \in Int
      BY <2>1, <2>2 DEF now, local, host, Off
    <3>3. Minus(now(n), now(n)') \in Int
      BY <3>1, <3>2 DEF Minus
    <3> QED BY <1>0, <1>4, <3>3 DEF Steps, ClockTypes
  <2> QED BY <2>1, <2>2, <2>3, <2>4 DEF ClockTypes, Off, Read
<1>13. EvidenceAges' /\ \A j \in ClkNode : stepped'[j] >= 0
  <2>1. \A j \in ClkNode \ {n} : now(j)' = now(j)
    BY <1>4, <1>5, <1>10, NowOfOthers
  <2> QED BY <1>4, <1>12, <2>1, StepsAges
<1>14. ClockOrder'
  BY <1>0, <1>4, <1>5, <1>13 DEF ClockOrder
<1>15. BeaconsInTime'
  BY <1>0, <1>4, <1>5 DEF BeaconsInTime
<1>16. OffsetsInTime'
  BY <1>0, <1>4, <1>11 DEF OffsetsInTime
<1>17. OffsetsOfLowest'
  <2>1. /\ o.set /\ <<o.peer, o.off + counter[n]>> \in Q
        /\ \A q \in Q : o.peer <= q[1]
        /\ \A a, b \in Q : a[1] = b[1] => a = b
    <3>1. /\ p.set => <<p.peer, p.off + counter[n]>> \in R /\ \A q \in R : p.peer <= q[1]
          /\ R # {} => p.set
          /\ \A a, b \in R : a[1] = b[1] => a = b
      BY <1>0 DEF OffsetsOfLowest, p, R
    <3>2. \A a, b \in Q : a[1] = b[1] => a = b
      BY <1>6, <1>7, <3>1
    <3>3. \A q \in R : q[1] \in Int
      BY <1>1
    <3>4. p.peer \in Int /\ p.off \in Int
      BY <1>1 DEF Off
    <3>5. CASE ~p.set \/ k <= p.peer
      <4>1. o = w /\ o.set /\ o.peer = k /\ o.off + counter[n] = counter[k]
        <5>1. f + counter[n] = counter[k]
          BY <1>1 DEF f
        <5> QED BY <1>6, <1>9, <3>5, <5>1
      <4>2. <<o.peer, o.off + counter[n]>> = x
        BY <4>1 DEF x
      <4>3. \A q \in Q : k <= q[1]
        BY <1>1, <1>6, <1>7, <3>1, <3>3, <3>4, <3>5
      <4> QED BY <1>8, <3>2, <4>1, <4>2, <4>3
    <3>6. CASE p.set /\ ~(k <= p.peer)
      <4>1. o = p
        BY <1>9, <3>6
      <4> DEFINE y == <<p.peer, p.off + counter[n]>>
      <4>2. y \in R /\ y[1] = p.peer
        BY <3>1, <3>6
      <4> HIDE DEF y
      <4>3. y \in Q
        BY <1>1, <1>8, <3>4, <3>6, <4>2
      <4>4. \A q \in Q : p.peer <= q[1]
        BY <1>1, <1>6, <1>7, <3>1, <3>3, <3>4, <3>6
      <4> QED BY <3>2, <3>6, <4>1, <4>3, <4>4 DEF y
    <3> QED BY <3>5, <3>6
  <2>2. counter' = counter
    BY <1>4
  <2> SUFFICES ASSUME NEW j \in ClkNode
               PROVE  /\ read'[j].peers # {} => cvHw'[j].set
                      /\ cvHw'[j].set => /\ <<cvHw'[j].peer, cvHw'[j].off + counter[j]>> \in read'[j].peers
                                         /\ \A q \in read'[j].peers : cvHw'[j].peer <= q[1]
                      /\ \A a, b \in read'[j].peers : a[1] = b[1] => a = b
    BY <2>2 DEF OffsetsOfLowest
  <2>3. CASE j = n
    <3>1. cvHw'[j] = o /\ read'[j].peers = Q
      BY <1>10, <1>11, <2>3
    <3> QED BY <2>1, <2>3, <3>1
  <2>4. CASE j # n
    <3>1. cvHw'[j] = cvHw[j] /\ read'[j].peers = read[j].peers
      BY <1>10, <1>11, <2>4
    <3> QED BY <1>0, <3>1 DEF OffsetsOfLowest
  <2> QED BY <2>3, <2>4
<1> QED BY <1>12, <1>13, <1>14, <1>15, <1>16, <1>17 DEF ClockInv

LEMMA ClockObserves == ASSUME ClockInv, NEW n \in ClkNode, Observe(n) PROVE ClockInv'
<1> USE SchedClockAssumption
<1>0. ClockTypes /\ ClockOrder /\ BeaconsInTime /\ OffsetsInTime /\ OffsetsOfLowest /\ EvidenceAges
  BY DEF ClockInv
<1>1. /\ n \in ClkWatcher /\ UNCHANGED <<clkT, born, cv, cvHw, counter, air, clkFaults, clkSends, read>>
      /\ evidence' = [evidence EXCEPT ![n] = now(n)]
      /\ heardAt' = [heardAt EXCEPT ![n] = clkT] /\ stepped' = [stepped EXCEPT ![n] = 0]
  BY DEF Observe, Synced
<1>2. now(n) \in Int /\ clkT \in Int
  BY <1>0, NowIsInt DEF ClockTypes
<1>3. \A k \in ClkNode : now(k)' = now(k)
  BY <1>1 DEF now, local, host
<1>4. \A k \in ClkNode : /\ evidence'[k] = IF k = n THEN now(n) ELSE evidence[k]
                         /\ heardAt'[k] = IF k = n THEN clkT ELSE heardAt[k]
                         /\ stepped'[k] = IF k = n THEN 0 ELSE stepped[k]
  BY <1>0, <1>1 DEF ClockTypes
<1>5. ClockTypes'
  BY <1>0, <1>1, <1>2 DEF ClockTypes
<1>6. ClockOrder'
  BY <1>0, <1>1, <1>2, <1>4 DEF ClockOrder
<1>7. BeaconsInTime' /\ OffsetsInTime' /\ OffsetsOfLowest'
  BY <1>0, <1>1 DEF BeaconsInTime, OffsetsInTime, OffsetsOfLowest
<1>8. EvidenceAges'
  <2> SUFFICES ASSUME NEW k \in ClkNode, evidence'[k] # 0
               PROVE  k \in ClkWatcher /\ now(k)' - evidence'[k] >= clkT' - heardAt'[k] - stepped'[k]
    BY DEF EvidenceAges
  <2>1. CASE k = n
    BY <1>1, <1>2, <1>3, <1>4, <2>1
  <2>2. CASE k # n
    BY <1>0, <1>1, <1>3, <1>4, <2>2 DEF EvidenceAges
  <2> QED BY <2>1, <2>2
<1> QED BY <1>5, <1>6, <1>7, <1>8 DEF ClockInv

LEMMA ClockStartsAgain == ASSUME ClockInv, NEW n \in ClkNode, Restart(n) PROVE ClockInv'
<1> USE SchedClockAssumption
<1>0. ClockTypes /\ ClockOrder /\ BeaconsInTime /\ OffsetsInTime /\ OffsetsOfLowest /\ EvidenceAges
  BY DEF ClockInv
<1>1. /\ UNCHANGED <<clkT, counter, air, clkSends, heardAt>>
      /\ clkFaults < ClkMaxFaults /\ clkFaults' = clkFaults + 1
      /\ born' = [born EXCEPT ![n] = clkT]
      /\ cv' = [cv EXCEPT ![n] = NoOffset] /\ cvHw' = [cvHw EXCEPT ![n] = NoOffset]
      /\ evidence' = [evidence EXCEPT ![n] = 0] /\ stepped' = [stepped EXCEPT ![n] = 0]
      /\ read' = [read EXCEPT ![n] = NoneRead]
  BY DEF Restart
<1>2. NoOffset \in [set : BOOLEAN, off : Int, peer : Int] /\ ~NoOffset.set
  BY DEF NoOffset
<1>3. NoneRead \in [soft : SUBSET Int, peers : SUBSET (ClkPeer \X Int)] /\ NoneRead.soft = {} /\ NoneRead.peers = {}
  BY DEF NoneRead
<1>4. \A k \in ClkNode : /\ evidence'[k] = IF k = n THEN 0 ELSE evidence[k]
                         /\ stepped'[k] = IF k = n THEN 0 ELSE stepped[k]
                         /\ born'[k] = IF k = n THEN clkT ELSE born[k]
                         /\ cv'[k] = IF k = n THEN NoOffset ELSE cv[k]
                         /\ cvHw'[k] = IF k = n THEN NoOffset ELSE cvHw[k]
                         /\ read'[k] = IF k = n THEN NoneRead ELSE read[k]
  BY <1>0, <1>1 DEF ClockTypes
<1>5. ClockTypes'
  <2>1. clkT' \in Nat /\ clkFaults' \in 0 .. ClkMaxFaults /\ clkSends' \in 0 .. ClkMaxSends
    BY <1>0, <1>1 DEF ClockTypes
  <2>2. born' \in [ClkNode -> Int] /\ counter' \in [ClkNode \cup ClkPeer -> Int]
    BY <1>0, <1>1 DEF ClockTypes
  <2>3. /\ cv' \in [ClkNode -> [set : BOOLEAN, off : Int, peer : Int]]
        /\ cvHw' \in [ClkNode -> [set : BOOLEAN, off : Int, peer : Int]]
    BY <1>0, <1>1, <1>2 DEF ClockTypes
  <2>4. /\ air' \subseteq [ref : Int, at : Int, life : Int, for : SUBSET ClkNode]
        /\ evidence' \in [ClkNode -> Int] /\ heardAt' \in [ClkNode -> Int] /\ stepped' \in [ClkNode -> Int]
    BY <1>0, <1>1 DEF ClockTypes
  <2>5. read' \in [ClkNode -> [soft : SUBSET Int, peers : SUBSET (ClkPeer \X Int)]]
    BY <1>0, <1>1, <1>3 DEF ClockTypes
  <2> QED BY <2>1, <2>2, <2>3, <2>4, <2>5 DEF ClockTypes
<1>6. ClockOrder'
  <2>1. clkT \in Int
    BY <1>0 DEF ClockTypes
  <2> QED BY <1>0, <1>1, <1>4, <2>1 DEF ClockOrder
<1>7. BeaconsInTime'
  BY <1>0, <1>1 DEF BeaconsInTime
<1>8. OffsetsInTime'
  BY <1>0, <1>3, <1>4 DEF OffsetsInTime
<1>9. OffsetsOfLowest'
  <2> SUFFICES ASSUME NEW k \in ClkNode
               PROVE  /\ read'[k].peers # {} => cvHw'[k].set
                      /\ cvHw'[k].set => /\ <<cvHw'[k].peer, cvHw'[k].off + counter[k]>> \in read'[k].peers
                                         /\ \A q \in read'[k].peers : cvHw'[k].peer <= q[1]
                      /\ \A p, q \in read'[k].peers : p[1] = q[1] => p = q
    BY <1>1 DEF OffsetsOfLowest
  <2>1. CASE k = n
    <3>1. cvHw'[k] = NoOffset /\ read'[k] = NoneRead
      BY <1>4, <2>1
    <3> QED BY <1>2, <1>3, <3>1
  <2>2. CASE k # n
    <3>1. cvHw'[k] = cvHw[k] /\ read'[k] = read[k]
      BY <1>4, <2>2
    <3> QED BY <1>0, <3>1 DEF OffsetsOfLowest
  <2> QED BY <2>1, <2>2
<1>10. \A k \in ClkNode \ {n} : now(k)' = now(k)
  BY <1>1, <1>4, NowOfOthers
<1>11. EvidenceAges'
  <2> SUFFICES ASSUME NEW k \in ClkNode, evidence'[k] # 0
               PROVE  k \in ClkWatcher /\ now(k)' - evidence'[k] >= clkT' - heardAt'[k] - stepped'[k]
    BY DEF EvidenceAges
  <2>1. k # n
    BY <1>4
  <2> QED BY <1>0, <1>1, <1>4, <1>10, <2>1 DEF EvidenceAges
<1> QED BY <1>5, <1>6, <1>7, <1>8, <1>9, <1>11 DEF ClockInv

LEMMA ClockPeerRestarts == ASSUME ClockInv, NEW j \in ClkPeer, PeerRestarts(j) PROVE ClockInv'
<1> USE SchedClockAssumption
<1>0. ClockTypes /\ ClockOrder /\ BeaconsInTime /\ OffsetsInTime /\ OffsetsOfLowest /\ EvidenceAges
  BY DEF ClockInv
<1>1. /\ UNCHANGED <<clkT, born, cv, cvHw, air, clkSends, evidence, heardAt, stepped, read>>
      /\ clkFaults < ClkMaxFaults /\ clkFaults' = clkFaults + 1
      /\ counter' = [counter EXCEPT ![j] = -clkT]
  BY DEF PeerRestarts, Synced
<1>2. \A k \in ClkNode : counter'[k] = counter[k]
  <2>1. \A k \in ClkNode : k # j
    OBVIOUS
  <2> QED BY <1>0, <1>1, <2>1 DEF ClockTypes
<1>3. \A k \in ClkNode : now(k)' = now(k)
  BY <1>1, <1>2 DEF now, local, host
<1>4. ClockTypes'
  <2>1. counter' \in [ClkNode \cup ClkPeer -> Int] /\ clkFaults' \in 0 .. ClkMaxFaults
    BY <1>0, <1>1 DEF ClockTypes
  <2> QED BY <1>0, <1>1, <2>1 DEF ClockTypes
<1>5. ClockOrder' /\ BeaconsInTime' /\ OffsetsInTime'
  BY <1>0, <1>1 DEF ClockOrder, BeaconsInTime, OffsetsInTime
<1>6. OffsetsOfLowest'
  BY <1>0, <1>1, <1>2 DEF OffsetsOfLowest
<1>7. EvidenceAges'
  BY <1>0, <1>1, <1>3 DEF EvidenceAges
<1> QED BY <1>4, <1>5, <1>6, <1>7 DEF ClockInv

LEMMA ClockTicks == ClockInv /\ ClkTick => ClockInv'
<1> USE SchedClockAssumption
<1> SUFFICES ASSUME ClockInv, ClkTick PROVE ClockInv'
  OBVIOUS
<1>0. ClockTypes /\ ClockOrder /\ BeaconsInTime /\ OffsetsInTime /\ OffsetsOfLowest /\ EvidenceAges
  BY DEF ClockInv
<1>1. /\ UNCHANGED <<born, cv, cvHw, counter, clkFaults, clkSends, evidence, heardAt, stepped, read>>
      /\ clkT' = clkT + 1 /\ air' = {b \in air : clkT' - b.at <= ClkDelay}
  BY DEF ClkTick, Synced
<1>2. /\ clkT \in Nat /\ \A k \in ClkNode : /\ born[k] \in Int /\ heardAt[k] \in Int /\ counter[k] \in Int
                                            /\ cv[k].off \in Int /\ cvHw[k].off \in Int
                                            /\ evidence[k] \in Int /\ stepped[k] \in Int
  BY <1>0 DEF ClockTypes
<1>3. \A k \in ClkNode : now(k)' = now(k) + 1 /\ now(k) \in Int
  <2> SUFFICES ASSUME NEW k \in ClkNode PROVE now(k)' = now(k) + 1 /\ now(k) \in Int
    OBVIOUS
  <2>1. now(k)' = IF cvHw[k].set THEN clkT + 1 + counter[k] + cvHw[k].off
                  ELSE IF cv[k].set THEN clkT + 1 - born[k] + cv[k].off ELSE clkT + 1 - born[k]
    BY <1>1, <1>2 DEF now, local, host
  <2>2. now(k) = IF cvHw[k].set THEN clkT + counter[k] + cvHw[k].off
                 ELSE IF cv[k].set THEN clkT - born[k] + cv[k].off ELSE clkT - born[k]
    BY <1>2 DEF now, local, host
  <2> QED BY <1>2, <2>1, <2>2
<1>4. ClockTypes'
  BY <1>0, <1>1 DEF ClockTypes
<1>5. ClockOrder'
  BY <1>0, <1>1, <1>2 DEF ClockOrder
<1>6. BeaconsInTime'
  <2> SUFFICES ASSUME NEW b \in air'
               PROVE  b.ref = b.at - b.life /\ b.ref >= 0 /\ b.at <= clkT' /\ clkT' - b.at <= ClkDelay
    BY DEF BeaconsInTime
  <2>1. b \in air /\ clkT' - b.at <= ClkDelay
    BY <1>1
  <2>2. b.at \in Int /\ b.ref = b.at - b.life /\ b.ref >= 0 /\ b.at <= clkT
    BY <1>0, <2>1 DEF ClockTypes, BeaconsInTime
  <2> QED BY <1>1, <1>2, <2>1, <2>2
<1>7. OffsetsInTime' /\ OffsetsOfLowest'
  BY <1>0, <1>1 DEF OffsetsInTime, OffsetsOfLowest
<1>8. EvidenceAges'
  <2> SUFFICES ASSUME NEW k \in ClkNode, evidence[k] # 0
               PROVE  k \in ClkWatcher /\ now(k)' - evidence[k] >= clkT' - heardAt[k] - stepped[k]
    BY <1>1 DEF EvidenceAges
  <2>1. k \in ClkWatcher /\ now(k) - evidence[k] >= clkT - heardAt[k] - stepped[k]
    BY <1>0 DEF EvidenceAges
  <2>2. now(k)' = now(k) + 1 /\ now(k) \in Int /\ clkT' = clkT + 1
    BY <1>1, <1>3
  <2>3. evidence[k] \in Int /\ heardAt[k] \in Int /\ stepped[k] \in Int
    BY <1>2
  <2> QED BY <1>2, <2>1, <2>2, <2>3
<1> QED BY <1>4, <1>5, <1>6, <1>7, <1>8 DEF ClockInv

LEMMA ClockStep == ClockInv /\ [SchedClockNext]_clockVars => ClockInv'
<1> SUFFICES ASSUME ClockInv, [SchedClockNext]_clockVars PROVE ClockInv'
  OBVIOUS
<1>1. CASE UNCHANGED clockVars
  <2>1. UNCHANGED <<clkT, born, counter, cv, cvHw, air, clkFaults, clkSends, evidence, heardAt, stepped, read>>
    BY <1>1 DEF clockVars
  <2>2. \A k : now(k)' = now(k)
    BY <2>1 DEF now, local, host
  <2>3. ClockTypes' /\ ClockOrder' /\ BeaconsInTime' /\ OffsetsInTime' /\ OffsetsOfLowest'
    BY <2>1 DEF ClockInv, ClockTypes, ClockOrder, BeaconsInTime, OffsetsInTime, OffsetsOfLowest
  <2>4. EvidenceAges'
    BY <2>1, <2>2 DEF ClockInv, EvidenceAges
  <2> QED BY <2>3, <2>4 DEF ClockInv
<1>2. CASE SchedClockNext
  BY <1>2, ClockBuilds, ClockReads, ClockPaired, ClockObserves, ClockStartsAgain, ClockPeerRestarts, ClockTicks
     DEF SchedClockNext
<1> QED BY <1>1, <1>2

(***************************************************************************)
(* Nodes that share a schedule share it, whatever they register, however   *)
(* deep, whoever starts again: beacons that carry the digest of the map    *)
(* show a difference when there is one, if no bulk name is registered      *)
(* under a latency one, and accuse nobody otherwise, if nothing is; a name *)
(* has one key everywhere, those who read the same reference read one      *)
(* time, and evidence of a slot owner ends with its window but for the     *)
(* steps the clock was set back.                                           *)
(***************************************************************************)
THEOREM ScheduleIsShared == SchedMapSpec /\ SchedClockSpec => []SchedInv
<1>1. SchedMapSpec => []MapInv
  BY MapInit, MapStep, PTL DEF SchedMapSpec
<1>2. SchedClockSpec => []ClockInv
  BY ClockInit, ClockStep, PTL DEF SchedClockSpec
<1>3. MapInv /\ ClockInv => SchedInv
  BY MapKeepsPromises, ClockHolds DEF SchedInv
<1> QED BY <1>1, <1>2, <1>3, PTL

(* --------------------------- the relays: CoopRelay --------------------------- *)

CrumbOf(n) == [dir : Dirs \cup {"none"}, left : -Ttl .. Jitter[n], suppressed : BOOLEAN, done : BOOLEAN]

(* A breadcrumb of a relay and what it has emitted for it: a relay is past the  *)
(* direction it has repeated, or has done it.                                   *)
Carries(n, x, p, e) ==
  /\ p \in CrumbOf(n) /\ e \in [Dirs -> 0 .. 1]
  /\ p.dir # "none" => x \in InScope[n]
  /\ e["interest"] = 1 => p.dir = "data" \/ (p.dir = "interest" /\ p.done)
  /\ e["data"] = 1 => p.dir = "data" /\ p.done

RelayIndInv ==
  /\ hears \in [Mesh -> SUBSET Mesh] /\ wait \in [Names -> 0 .. Rto]
  /\ has \subseteq Names /\ owes \subseteq Names /\ meshFaults \in 0 .. MaxMeshFaults
  /\ DOMAIN crumb = Mesh /\ DOMAIN emitted = Mesh
  /\ \A n \in Mesh : /\ DOMAIN crumb[n] = Names /\ crumb[n] = [x \in Names |-> crumb[n][x]]
                     /\ DOMAIN emitted[n] = Names /\ emitted[n] = [x \in Names |-> emitted[n][x]]
  /\ crumb = [n \in Mesh |-> crumb[n]] /\ emitted = [n \in Mesh |-> emitted[n]]
  /\ \A n \in Mesh, x \in Names : Carries(n, x, crumb[n][x], emitted[n][x])

(* Nothing laid, nothing emitted.                                                *)
LEMMA NothingCarried ==
  ASSUME NEW n \in Mesh, NEW x
  PROVE  Carries(n, x, NoCrumb, Quiet)
<1>1. NoCrumb \in CrumbOf(n) /\ NoCrumb.dir = "none"
  BY RelayAssumption DEF NoCrumb, CrumbOf, Dirs
<1>2. Quiet \in [Dirs -> 0 .. 1] /\ Quiet["interest"] = 0 /\ Quiet["data"] = 0
  BY DEF Quiet, Dirs
<1> QED BY <1>1, <1>2 DEF Carries

(* A breadcrumb as it is laid, of a direction.                                   *)
LEMMA CrumbIs ==
  ASSUME NEW n \in Mesh, NEW dir \in Dirs
  PROVE  Crumb(n, dir) \in CrumbOf(n) /\ Crumb(n, dir).dir = dir /\ ~Crumb(n, dir).done
BY RelayAssumption DEF Crumb, CrumbOf

(* What a node makes of a frame it hears keeps to what it has emitted.           *)
LEMMA HearCarries ==
  ASSUME NEW n \in Mesh, NEW x \in Names, NEW dir \in Dirs, NEW e, Carries(n, x, crumb[n][x], e)
  PROVE  Carries(n, x, Hear(n, x, dir), e)
<1> DEFINE p == crumb[n][x]
           q == overhear(p, dir)
<1>1. p \in CrumbOf(n) /\ e \in [Dirs -> 0 .. 1] /\ (p.dir # "none" => x \in InScope[n])
      /\ (e["interest"] = 1 => p.dir = "data" \/ (p.dir = "interest" /\ p.done))
      /\ (e["data"] = 1 => p.dir = "data" /\ p.done)
  BY DEF Carries
<1> HIDE DEF p
<1>2. q \in CrumbOf(n) /\ q.dir = p.dir /\ q.done = p.done /\ q.left = p.left
  BY <1>1 DEF overhear, CrumbOf
<1> HIDE DEF q
<1>3. Carries(n, x, q, e)
  BY <1>1, <1>2 DEF Carries
<1>4. "interest" \in Dirs /\ "data" \in Dirs
  BY DEF Dirs
<1>5. Carries(n, x, rx_interest(n, x, q), e)
  <2>1. CASE x \notin InScope[n] \/ q.dir # "none"
    BY <2>1, <1>3 DEF rx_interest
  <2>2. CASE ~(x \notin InScope[n] \/ q.dir # "none")
    <3>1. rx_interest(n, x, q) = Crumb(n, "interest")
      BY <2>2 DEF rx_interest
    <3>2. e["interest"] # 1 /\ e["data"] # 1 /\ x \in InScope[n]
      BY <2>2, <1>1, <1>2
    <3> QED BY <3>1, <3>2, <1>1, <1>4, CrumbIs DEF Carries
  <2> QED BY <2>1, <2>2
<1>6. Carries(n, x, rx_data(n, q), e)
  <2>1. CASE q.dir # "interest"
    BY <2>1, <1>3 DEF rx_data
  <2>2. CASE q.dir = "interest"
    <3>1. rx_data(n, q) = Crumb(n, "data")
      BY <2>2 DEF rx_data
    <3>2. e["data"] # 1 /\ x \in InScope[n]
      BY <2>2, <1>1, <1>2
    <3> QED BY <3>1, <3>2, <1>1, <1>4, CrumbIs DEF Carries
  <2> QED BY <2>1, <2>2
<1>7. Hear(n, x, dir) \in {q, rx_interest(n, x, q), rx_data(n, q)}
  BY DEF Hear, p, q
<1> QED BY <1>3, <1>5, <1>6, <1>7

(* A frame on the air, of a name and a direction: every node keeps to what it    *)
(* has emitted, if the sender does.                                              *)
LEMMA BroadcastCarries ==
  ASSUME RelayIndInv, NEW n \in Mesh, NEW x \in Names, NEW dir \in Dirs, NEW own, NEW R \in SUBSET hears[n],
         NEW out, Broadcast(n, x, dir, own, R), Carries(n, x, own, out)
  PROVE  /\ has' \subseteq Names /\ meshFaults' \in 0 .. MaxMeshFaults
         /\ crumb' = [m \in Mesh |-> crumb'[m]] /\ \A m \in Mesh : crumb'[m] = [y \in Names |-> crumb'[m][y]]
         /\ \A m \in Mesh, y \in Names :
              Carries(m, y, crumb'[m][y], IF m = n /\ y = x THEN out ELSE emitted[m][y])
<1>1. /\ crumb' = [m \in Mesh |-> [y \in Names |->
                    IF y # x THEN crumb[m][y] ELSE IF m = n THEN own ELSE IF m \in R THEN Hear(m, x, dir) ELSE crumb[m][y]]]
      /\ has' = (IF dir = "data" /\ Consumer \in R THEN has \cup {x} ELSE has)
      /\ meshFaults' = meshFaults + Cardinality(hears[n] \ R) /\ meshFaults' <= MaxMeshFaults
  BY DEF Broadcast
<1>2. has \subseteq Names /\ meshFaults \in 0 .. MaxMeshFaults /\ hears[n] \subseteq Mesh
      /\ \A m \in Mesh, y \in Names : Carries(m, y, crumb[m][y], emitted[m][y])
  BY DEF RelayIndInv
<1>3. Cardinality(hears[n] \ R) \in Nat
  <2>1. hears[n] \ R \subseteq Mesh
    BY <1>2
  <2>2. IsFiniteSet(hears[n] \ R)
    BY <2>1, RelayAssumption, FS_Subset
  <2> QED BY <2>2, FS_CardinalityType
<1>4. meshFaults' \in 0 .. MaxMeshFaults
  BY <1>1, <1>2, <1>3, RelayAssumption
<1>5. has' \subseteq Names
  BY <1>1, <1>2
<1>6. \A m \in Mesh : Carries(m, x, Hear(m, x, dir), emitted[m][x])
  BY <1>2, HearCarries
<1>7. ASSUME NEW m \in Mesh, NEW y \in Names
      PROVE  Carries(m, y, crumb'[m][y], IF m = n /\ y = x THEN out ELSE emitted[m][y])
  <2>1. crumb'[m][y] = IF y # x THEN crumb[m][y] ELSE IF m = n THEN own ELSE IF m \in R THEN Hear(m, x, dir) ELSE crumb[m][y]
    BY <1>1
  <2> QED BY <2>1, <1>2, <1>6
<1>8. crumb' = [m \in Mesh |-> crumb'[m]] /\ \A m \in Mesh : crumb'[m] = [y \in Names |-> crumb'[m][y]]
  BY <1>1
<1> QED BY <1>4, <1>5, <1>7, <1>8

(* At first no relay has laid or emitted anything.                               *)
LEMMA RelayStart == RelayInit => RelayIndInv
<1> SUFFICES ASSUME RelayInit PROVE RelayIndInv
  OBVIOUS
<1>1. /\ hears \in Topologies /\ crumb = [n \in Mesh |-> [x \in Names |-> NoCrumb]]
      /\ owes = {} /\ wait = [x \in Names |-> 0] /\ has = {} /\ meshFaults = 0
      /\ emitted = [n \in Mesh |-> [x \in Names |-> Quiet]]
  BY DEF RelayInit
<1>2. \A n \in Mesh, x \in Names : Carries(n, x, NoCrumb, Quiet)
  BY NothingCarried
<1>3. hears \in [Mesh -> SUBSET Mesh] /\ wait \in [Names -> 0 .. Rto] /\ meshFaults \in 0 .. MaxMeshFaults
  BY <1>1, RelayAssumption
<1> QED BY <1>1, <1>2, <1>3 DEF RelayIndInv

(* Every step keeps a breadcrumb ahead of what was emitted for it.               *)
LEMMA RelayStep == RelayIndInv /\ [RelayNext]_relayVars => RelayIndInv'
<1> SUFFICES ASSUME RelayIndInv, [RelayNext]_relayVars PROVE RelayIndInv'
  OBVIOUS
<1>1. /\ hears \in [Mesh -> SUBSET Mesh] /\ wait \in [Names -> 0 .. Rto]
      /\ has \subseteq Names /\ owes \subseteq Names /\ meshFaults \in 0 .. MaxMeshFaults
  BY DEF RelayIndInv
<1>2. /\ DOMAIN crumb = Mesh /\ DOMAIN emitted = Mesh
      /\ \A n \in Mesh : /\ DOMAIN crumb[n] = Names /\ crumb[n] = [x \in Names |-> crumb[n][x]]
                         /\ DOMAIN emitted[n] = Names /\ emitted[n] = [x \in Names |-> emitted[n][x]]
      /\ crumb = [n \in Mesh |-> crumb[n]] /\ emitted = [n \in Mesh |-> emitted[n]]
  BY DEF RelayIndInv
<1>3. \A n \in Mesh, x \in Names : Carries(n, x, crumb[n][x], emitted[n][x])
  BY DEF RelayIndInv
<1>4. "interest" \in Dirs /\ "data" \in Dirs
  BY DEF Dirs
<1>5. ASSUME NEW x \in Names, Express(x) PROVE RelayIndInv'
  <2>1. PICK R \in SUBSET hears[Consumer] :
          /\ Broadcast(Consumer, x, "interest", crumb[Consumer][x], R)
          /\ owes' = IF Producer \in R THEN owes \cup {x} ELSE owes
    BY <1>5 DEF Express
  <2>2. wait' = [wait EXCEPT ![x] = Rto] /\ hears' = hears /\ emitted' = emitted
    BY <1>5 DEF Express
  <2>3. Consumer \in Mesh /\ Carries(Consumer, x, crumb[Consumer][x], emitted[Consumer][x])
    BY <1>3, RelayAssumption
  <2>4. /\ has' \subseteq Names /\ meshFaults' \in 0 .. MaxMeshFaults
        /\ crumb' = [m \in Mesh |-> crumb'[m]] /\ (\A m \in Mesh : crumb'[m] = [y \in Names |-> crumb'[m][y]])
        /\ \A m \in Mesh, y \in Names :
             Carries(m, y, crumb'[m][y], IF m = Consumer /\ y = x THEN emitted[Consumer][x] ELSE emitted[m][y])
    BY <1>4, <2>1, <2>3, BroadcastCarries
  <2>5. wait' \in [Names -> 0 .. Rto] /\ owes' \subseteq Names
    BY <1>1, <2>1, <2>2, RelayAssumption
  <2>6. \A m \in Mesh, y \in Names : Carries(m, y, crumb'[m][y], emitted'[m][y])
    BY <2>2, <2>4
  <2> QED BY <1>1, <1>2, <2>2, <2>4, <2>5, <2>6 DEF RelayIndInv
<1>6. ASSUME NEW x \in Names, Answer(x) PROVE RelayIndInv'
  <2>1. PICK R \in SUBSET hears[Producer] : Broadcast(Producer, x, "data", crumb[Producer][x], R)
    BY <1>6 DEF Answer
  <2>2. owes' = owes \ {x} /\ wait' = wait /\ hears' = hears /\ emitted' = emitted
    BY <1>6 DEF Answer
  <2>3. Producer \in Mesh /\ Carries(Producer, x, crumb[Producer][x], emitted[Producer][x])
    BY <1>3, RelayAssumption
  <2>4. /\ has' \subseteq Names /\ meshFaults' \in 0 .. MaxMeshFaults
        /\ crumb' = [m \in Mesh |-> crumb'[m]] /\ (\A m \in Mesh : crumb'[m] = [y \in Names |-> crumb'[m][y]])
        /\ \A m \in Mesh, y \in Names :
             Carries(m, y, crumb'[m][y], IF m = Producer /\ y = x THEN emitted[Producer][x] ELSE emitted[m][y])
    BY <1>4, <2>1, <2>3, BroadcastCarries
  <2>5. \A m \in Mesh, y \in Names : Carries(m, y, crumb'[m][y], emitted'[m][y])
    BY <2>2, <2>4
  <2> QED BY <1>1, <1>2, <2>2, <2>4, <2>5 DEF RelayIndInv
<1>7. ASSUME NEW n \in Mesh, NEW x \in Names, Fire(n, x) PROVE RelayIndInv'
  <2> DEFINE p == crumb[n][x]
             own == [p EXCEPT !.done = TRUE]
             e == emitted[n][x]
             out == [e EXCEPT ![p.dir] = @ + 1]
  <2>1. PICK R \in SUBSET hears[n] :
          /\ Broadcast(n, x, p.dir, own, R)
          /\ owes' = IF p.dir = "interest" /\ Producer \in R THEN owes \cup {x} ELSE owes
    BY <1>7 DEF Fire
  <2>2. Due(p) /\ wait' = wait /\ hears' = hears /\ emitted' = [emitted EXCEPT ![n] = [emitted[n] EXCEPT ![x] = out]]
    BY <1>7 DEF Fire
  <2>3. /\ p \in CrumbOf(n) /\ e \in [Dirs -> 0 .. 1] /\ (p.dir # "none" => x \in InScope[n])
        /\ (e["interest"] = 1 => p.dir = "data" \/ (p.dir = "interest" /\ p.done))
        /\ (e["data"] = 1 => p.dir = "data" /\ p.done)
    BY <1>3 DEF Carries
  <2> HIDE DEF p, e
  <2>4. p.dir \in Dirs /\ ~p.done
    BY <2>2, <2>3 DEF Due, CrumbOf
  <2>5. own \in CrumbOf(n) /\ own.dir = p.dir /\ own.done
    BY <2>3 DEF CrumbOf
  <2>6. e[p.dir] = 0
    <3>1. p.dir = "interest" \/ p.dir = "data"
      BY <2>4 DEF Dirs
    <3>2. e[p.dir] \in 0 .. 1 /\ e[p.dir] # 1
      BY <2>3, <2>4, <3>1
    <3> QED BY <3>2
  <2>7. out \in [Dirs -> 0 .. 1] /\ \A d \in Dirs : out[d] = IF d = p.dir THEN 1 ELSE e[d]
    BY <2>3, <2>4, <2>6
  <2> HIDE DEF own, out
  <2>8. Carries(n, x, own, out)
    <3>1. p.dir = "interest" \/ p.dir = "data"
      BY <2>4 DEF Dirs
    <3>2. x \in InScope[n]
      BY <2>3, <3>1
    <3>3. out["data"] = 1 => p.dir = "data"
      BY <1>4, <2>3, <2>7
    <3> QED BY <2>5, <2>7, <3>1, <3>2, <3>3 DEF Carries
  <2>9. /\ has' \subseteq Names /\ meshFaults' \in 0 .. MaxMeshFaults
        /\ crumb' = [m \in Mesh |-> crumb'[m]] /\ (\A m \in Mesh : crumb'[m] = [y \in Names |-> crumb'[m][y]])
        /\ \A m \in Mesh, y \in Names :
             Carries(m, y, crumb'[m][y], IF m = n /\ y = x THEN out ELSE emitted[m][y])
    BY <2>1, <2>4, <2>8, BroadcastCarries
  <2>10. /\ emitted' = [m \in Mesh |-> emitted'[m]] /\ \A m \in Mesh : emitted'[m] = [y \in Names |-> emitted'[m][y]]
         /\ \A m \in Mesh, y \in Names : emitted'[m][y] = IF m = n /\ y = x THEN out ELSE emitted[m][y]
    BY <1>2, <2>2
  <2>11. owes' \subseteq Names
    BY <1>1, <2>1
  <2>12. \A m \in Mesh, y \in Names : Carries(m, y, crumb'[m][y], emitted'[m][y])
    BY <2>9, <2>10
  <2> QED BY <1>1, <2>2, <2>9, <2>10, <2>11, <2>12 DEF RelayIndInv
<1>8. ASSUME NEW n \in Mesh, purge(n) PROVE RelayIndInv'
  <2>1. /\ crumb' = [crumb EXCEPT ![n] = [x \in Names |-> IF Expired(crumb[n][x]) THEN NoCrumb ELSE crumb[n][x]]]
        /\ emitted' = [emitted EXCEPT ![n] = [x \in Names |-> IF Expired(crumb[n][x]) THEN Quiet ELSE emitted[n][x]]]
        /\ hears' = hears /\ owes' = owes /\ wait' = wait /\ has' = has /\ meshFaults' = meshFaults
    BY <1>8 DEF purge
  <2>2. ASSUME NEW m \in Mesh, NEW y \in Names PROVE Carries(m, y, crumb'[m][y], emitted'[m][y])
    <3>1. \/ crumb'[m][y] = crumb[m][y] /\ emitted'[m][y] = emitted[m][y]
          \/ crumb'[m][y] = NoCrumb /\ emitted'[m][y] = Quiet
      BY <1>2, <2>1
    <3> QED BY <3>1, <1>3, NothingCarried
  <2>3. /\ crumb' = [m \in Mesh |-> crumb'[m]] /\ emitted' = [m \in Mesh |-> emitted'[m]]
        /\ \A m \in Mesh : crumb'[m] = [y \in Names |-> crumb'[m][y]] /\ emitted'[m] = [y \in Names |-> emitted'[m][y]]
    BY <1>2, <2>1
  <2> QED BY <1>1, <2>1, <2>2, <2>3 DEF RelayIndInv
<1>9. ASSUME NEW n \in Mesh, clear_projection(n) PROVE RelayIndInv'
  <2>1. /\ crumb' = [crumb EXCEPT ![n] = [x \in Names |-> NoCrumb]]
        /\ emitted' = [emitted EXCEPT ![n] = [x \in Names |-> Quiet]]
        /\ hears' = hears /\ owes' = owes /\ wait' = wait /\ has' = has /\ meshFaults' = meshFaults + 1 /\ meshFaults < MaxMeshFaults
    BY <1>9 DEF clear_projection
  <2>2. ASSUME NEW m \in Mesh, NEW y \in Names PROVE Carries(m, y, crumb'[m][y], emitted'[m][y])
    <3>1. \/ crumb'[m][y] = crumb[m][y] /\ emitted'[m][y] = emitted[m][y]
          \/ crumb'[m][y] = NoCrumb /\ emitted'[m][y] = Quiet
      BY <1>2, <2>1
    <3> QED BY <3>1, <1>3, NothingCarried
  <2>3. /\ crumb' = [m \in Mesh |-> crumb'[m]] /\ emitted' = [m \in Mesh |-> emitted'[m]]
        /\ \A m \in Mesh : crumb'[m] = [y \in Names |-> crumb'[m][y]] /\ emitted'[m] = [y \in Names |-> emitted'[m][y]]
    BY <1>2, <2>1
  <2>4. meshFaults' \in 0 .. MaxMeshFaults
    BY <1>1, <2>1, RelayAssumption
  <2> QED BY <1>1, <2>1, <2>2, <2>3, <2>4 DEF RelayIndInv
<1>10. CASE RelayTick
  <2>1. /\ crumb' = [n \in Mesh |-> [x \in Names |-> Aged(crumb[n][x])]] /\ wait' = [x \in Names |-> Minus(wait[x], 1)]
        /\ hears' = hears /\ owes' = owes /\ has' = has /\ meshFaults' = meshFaults /\ emitted' = emitted
    BY <1>10 DEF RelayTick
  <2>2. ASSUME NEW m \in Mesh, NEW y \in Names PROVE Carries(m, y, Aged(crumb[m][y]), emitted[m][y])
    <3> DEFINE p == crumb[m][y]
    <3>1. Carries(m, y, p, emitted[m][y]) /\ p \in CrumbOf(m)
      BY <1>3 DEF Carries
    <3> HIDE DEF p
    <3>2. Aged(p) \in CrumbOf(m) /\ Aged(p).dir = p.dir /\ Aged(p).done = p.done
      BY <3>1, RelayAssumption DEF Aged, CrumbOf
    <3>3. Carries(m, y, Aged(p), emitted[m][y])
      BY <3>1, <3>2 DEF Carries
    <3> QED BY <3>3 DEF p
  <2>3. /\ crumb' = [m \in Mesh |-> crumb'[m]] /\ \A m \in Mesh : crumb'[m] = [y \in Names |-> crumb'[m][y]]
    BY <2>1
  <2>4. \A m \in Mesh, y \in Names : Carries(m, y, crumb'[m][y], emitted'[m][y])
    BY <2>1, <2>2
  <2>5. wait' \in [Names -> 0 .. Rto]
    BY <1>1, <2>1, RelayAssumption DEF Minus
  <2> QED BY <1>1, <1>2, <2>1, <2>3, <2>4, <2>5 DEF RelayIndInv
<1>11. CASE UNCHANGED relayVars
  BY <1>11 DEF relayVars, RelayIndInv
<1> QED BY <1>5, <1>6, <1>7, <1>8, <1>9, <1>10, <1>11 DEF RelayNext

(* So nothing goes twice in one direction, and only names in scope are repeated. *)
LEMMA RelayMeans == RelayIndInv => RelayTypeOK /\ OnceEachWay
<1> SUFFICES ASSUME RelayIndInv PROVE RelayTypeOK /\ OnceEachWay
  OBVIOUS
<1>1. /\ wait \in [Names -> 0 .. Rto] /\ has \subseteq Names /\ owes \subseteq Names /\ meshFaults \in 0 .. MaxMeshFaults
      /\ \A n \in Mesh, x \in Names : Carries(n, x, crumb[n][x], emitted[n][x])
  BY DEF RelayIndInv
<1>2. RelayTypeOK
  <2>1. \A n \in Mesh, x \in Names : crumb[n][x] \in CrumbOf(n)
    BY <1>1 DEF Carries
  <2>2. \A n \in Mesh : \A p \in CrumbOf(n) : p.dir \in Dirs \cup {"none"} /\ p.left \in -Ttl .. Jitter[n]
    BY DEF CrumbOf
  <2> QED BY <1>1, <2>1, <2>2 DEF RelayTypeOK
<1>3. ASSUME NEW n \in Mesh, NEW x \in Names, NEW d \in Dirs
      PROVE  emitted[n][x][d] <= 1 /\ (emitted[n][x][d] > 0 => x \in InScope[n])
  <2> DEFINE e == emitted[n][x]
             p == crumb[n][x]
  <2>1. /\ e \in [Dirs -> 0 .. 1] /\ (p.dir # "none" => x \in InScope[n])
        /\ (e["interest"] = 1 => p.dir = "data" \/ p.dir = "interest") /\ (e["data"] = 1 => p.dir = "data")
    BY <1>1 DEF Carries
  <2> HIDE DEF e, p
  <2>2. (d = "interest" \/ d = "data") /\ e[d] \in 0 .. 1
    BY <2>1 DEF Dirs
  <2>3. e[d] > 0 => e[d] = 1
    BY <2>2
  <2>4. e[d] <= 1 /\ (e[d] > 0 => x \in InScope[n])
    BY <2>1, <2>2, <2>3
  <2> QED BY <2>4 DEF e
<1> QED BY <1>2, <1>3 DEF OnceEachWay

(* Relays (mac/coop.rs): a relay puts a name on the air once in each direction  *)
(* for a breadcrumb, and only a name in its scope, whatever it overhears and    *)
(* whatever is lost or forgotten: for any mesh, topology, jitter and names.     *)
THEOREM RelaysDoNotStorm == RelaySpec => [](RelayTypeOK /\ OnceEachWay)
<1>1. RelayInit => RelayIndInv
  BY RelayStart
<1>2. RelayIndInv /\ [RelayNext]_relayVars => RelayIndInv'
  BY RelayStep
<1>3. RelayIndInv => RelayTypeOK /\ OnceEachWay
  BY RelayMeans
<1> QED BY <1>1, <1>2, <1>3, PTL DEF RelaySpec
=============================================================================
