--------------------------- MODULE Cognition_proofs ---------------------------
(* The learning parts of the radio cognition, for any nodes, carriers, rates,   *)
(* thresholds and arms.  Every node of a network gets from the same name and    *)
(* carriers the same hop plan, and no two of its hops are one carrier: the      *)
(* plans are stages of one shuffle (HopsIInv); and the activity of the sampler  *)
(* is what was counted over the time it was counted in (SamplerIInv).  And the  *)
(* thresholds of the rates stay in the order of the rates, the dial turns the   *)
(* way the margin says and does not turn back before a frame has moved them     *)
(* (ThresholdIInv); the arms above a plan are tried in turn, stay within what   *)
(* the radio can do, and the keys of two situations never meet (ArmsIInv).      *)
(* The table that says which names are coded and how: each role's list is what  *)
(* management and configuration files last set of each name (TableIInv).  And   *)
(* what nodes hold of their neighbours from reports (CgIndInv); and the control *)
(* loop, that sets the radios for what is wanted (ClIndInv).                    *)
EXTENDS Carriers, RateLearning, PolicyTable, Neighbourhood, ControlLoop, FiniteSetTheorems, WellFoundedInduction, TLAPS

(* A non-empty set of naturals has a least element. *)
LEMMA LeastExists ==
  ASSUME NEW T \in SUBSET Nat, T # {}
  PROVE  \E x \in T : \A y \in T : x <= y
<1> DEFINE R == {p \in Nat \X Nat : p[1] < p[2]}
<1>1. IsWellFoundedOn(OpToRel(<, Nat), Nat)
  BY NatLessThanWellFounded
<1>2. OpToRel(<, Nat) = R
  BY DEF OpToRel
<1>3. IsWellFoundedOn(R, Nat)
  BY <1>1, <1>2
<1> HIDE DEF R
<1>4. \E x \in T : \A y \in T : <<y, x>> \notin R
  BY <1>3, WFMin
<1>5. ASSUME NEW x \in T, NEW y \in T, <<y, x>> \notin R
      PROVE  x <= y
  BY <1>5 DEF R
<1> QED BY <1>4, <1>5

(* Induction over a set of numbers. *)
LEMMA FromNought ==
  ASSUME NEW G, 0 \in G, \A i \in Nat : i \in G => i + 1 \in G
  PROVE  \A n \in Nat : n \in G
<1> SUFFICES ASSUME NEW n \in Nat, n \notin G PROVE FALSE
  OBVIOUS
<1> DEFINE T == {i \in Nat : i \notin G}
<1>1. T \in SUBSET Nat /\ T # {}
  OBVIOUS
<1>2. PICK x \in T : \A y \in T : x <= y
  BY <1>1, LeastExists
<1>3. x \in Nat /\ x # 0
  BY <1>2
<1>4. x - 1 \in Nat /\ ~(x <= x - 1) /\ (x - 1) + 1 = x
  BY <1>3
<1>5. x - 1 \in G
  BY <1>2, <1>4
<1> QED BY <1>2, <1>4, <1>5

(* A finite set, each part of which has a least element, can be put in order.   *)
LEMMA ListedInOrder ==
  ASSUME NEW D, NEW R, \A S \in SUBSET D : S # {} => \E x \in S : \A y \in S \ {x} : <<x, y>> \in R
  PROVE  \A n \in Nat : \A S \in SUBSET D : IsFiniteSet(S) /\ Cardinality(S) = n =>
           \E f \in [1 .. n -> S] : \A i, j \in 1 .. n : i < j => <<f[i], f[j]>> \in R
<1> DEFINE Listed(n, S, f) == f \in [1 .. n -> S] /\ \A i, j \in 1 .. n : i < j => <<f[i], f[j]>> \in R
           G == {n \in Nat : \A S \in SUBSET D : IsFiniteSet(S) /\ Cardinality(S) = n => \E f : Listed(n, S, f)}
<1>1. 0 \in G
  <2> SUFFICES ASSUME NEW S \in SUBSET D PROVE \E f : Listed(0, S, f)
    OBVIOUS
  <2> DEFINE f == [i \in 1 .. 0 |-> 0]
  <2>1. f \in [1 .. 0 -> S] /\ 1 .. 0 = {}
    OBVIOUS
  <2>2. Listed(0, S, f)
    BY <2>1
  <2> QED BY <2>2
<1>2. ASSUME NEW n \in Nat, n \in G PROVE n + 1 \in G
  <2> SUFFICES ASSUME NEW S \in SUBSET D, IsFiniteSet(S), Cardinality(S) = n + 1
               PROVE  \E f : Listed(n + 1, S, f)
    OBVIOUS
  <2>1. S # {}
    BY FS_EmptySet
  <2>2. PICK x \in S : \A y \in S \ {x} : <<x, y>> \in R
    BY <2>1
  <2> DEFINE T == S \ {x}
  <2>3. IsFiniteSet(T) /\ Cardinality(T) = n /\ T \in SUBSET D
    <3>1. IsFiniteSet(T) /\ Cardinality(T) = Cardinality(S) - 1
      BY FS_RemoveElement
    <3> QED BY <3>1
  <2>4. PICK g : Listed(n, T, g)
    <3> HIDE DEF T, Listed
    <3> QED BY <1>2, <2>3
  <2> DEFINE f == [i \in 1 .. n + 1 |-> IF i = 1 THEN x ELSE g[i - 1]]
  <2>5. \A i \in 1 .. n + 1 : i # 1 => i - 1 \in 1 .. n /\ f[i] = g[i - 1] /\ g[i - 1] \in T
    BY <2>4
  <2>6. f[1] = x
    OBVIOUS
  <2>7. f = [i \in 1 .. n + 1 |-> f[i]]
    OBVIOUS
  <2> HIDE DEF f
  <2>8. f \in [1 .. n + 1 -> S]
    BY <2>5, <2>6, <2>7
  <2>9. ASSUME NEW i \in 1 .. n + 1, NEW j \in 1 .. n + 1, i < j PROVE <<f[i], f[j]>> \in R
    <3>1. j # 1 /\ f[j] = g[j - 1] /\ j - 1 \in 1 .. n /\ g[j - 1] \in T
      BY <2>5, <2>9
    <3>2. CASE i = 1
      BY <3>1, <3>2, <2>2, <2>6
    <3>3. CASE i # 1
      <4>1. f[i] = g[i - 1] /\ i - 1 \in 1 .. n /\ i - 1 < j - 1
        BY <3>3, <2>5, <2>9
      <4> QED BY <4>1, <3>1, <2>4
    <3> QED BY <3>2, <3>3
  <2> QED BY <2>8, <2>9
<1> HIDE DEF G
<1>3. \A n \in Nat : n \in G
  BY <1>1, <1>2, FromNought
<1> QED BY <1>3 DEF G

(* ----------------------------- the hop plan: Carriers ----------------------------- *)

Rising(f) == \A i, j \in DOMAIN f : i < j => f[i] < f[j]

(* So can a finite set of numbers.                                              *)
LEMMA OrderExists ==
  \A n \in Nat : \A S \in SUBSET Nat :
    IsFiniteSet(S) /\ Cardinality(S) = n => \E f \in [1 .. n -> S] : Rising(f)
<1> DEFINE R == {p \in Nat \X Nat : p[1] < p[2]}
<1>1. ASSUME NEW S \in SUBSET Nat, S # {} PROVE \E x \in S : \A y \in S \ {x} : <<x, y>> \in R
  <2>1. PICK x \in S : \A y \in S : x <= y
    BY <1>1, LeastExists
  <2> QED BY <2>1
<1>2. ASSUME NEW n \in Nat, NEW S \in SUBSET Nat, IsFiniteSet(S), Cardinality(S) = n
      PROVE  \E f \in [1 .. n -> S] : Rising(f)
  <2>1. PICK f \in [1 .. n -> S] : \A i, j \in 1 .. n : i < j => <<f[i], f[j]>> \in R
    <3> HIDE DEF R
    <3> QED BY <1>1, <1>2, ListedInOrder
  <2>2. \A i, j \in 1 .. n : i < j => f[i] < f[j]
    BY <2>1
  <2>3. DOMAIN f = 1 .. n
    OBVIOUS
  <2> QED BY <2>2, <2>3 DEF Rising
<1> QED BY <1>2

(* The carriers in order: each once, and the same order from any list of them.  *)
Carried(s) == Cardinality(ToSet(s))
OneToOne(f) == \A i, j \in DOMAIN f : f[i] = f[j] => i = j

LEMMA CarriersOf ==
  ASSUME NEW s \in HpLists
  PROVE  ToSet(s) \in SUBSET Nat /\ IsFiniteSet(ToSet(s)) /\ Carried(s) \in Nat
<1>1. ToSet(s) \in SUBSET Nat /\ DOMAIN s = 1 .. Len(s) /\ Len(s) \in Nat
  BY HpAssumption
<1> DEFINE D == 1 .. Len(s)
<1> DEFINE f == [i \in D |-> s[i]]
<1>2. IsFiniteSet(D)
  BY <1>1, FS_Interval
<1>3. f \in Surjection(D, ToSet(s))
  BY <1>1 DEF Surjection, ToSet
<1> HIDE DEF D, f
<1>4. IsFiniteSet(ToSet(s))
  BY <1>2, <1>3, FS_Surjection
<1> QED BY <1>1, <1>4, FS_CardinalityType DEF Carried

LEMMA SortedFacts ==
  ASSUME NEW s \in HpLists
  PROVE  /\ Sorted(s) \in [1 .. Carried(s) -> ToSet(s)] /\ OneToOne(Sorted(s))
         /\ \A t \in HpLists : Sorted(t) = Sorted(s) /\ ToSet(t) = ToSet(s)
<1> DEFINE f == Sorted(s)
<1>1. ToSet(s) \in SUBSET Nat /\ IsFiniteSet(ToSet(s)) /\ Carried(s) \in Nat
  BY CarriersOf
<1>2. \E g \in [1 .. Carried(s) -> ToSet(s)] : Rising(g)
  BY <1>1, OrderExists DEF Carried
<1>3. f = CHOOSE g \in [1 .. Carried(s) -> ToSet(s)] : Rising(g)
  BY DEF Sorted, Rising, Carried
<1> HIDE DEF f
<1>4. f \in [1 .. Carried(s) -> ToSet(s)] /\ Rising(f)
  BY <1>2, <1>3
<1>5. OneToOne(f)
  <2> SUFFICES ASSUME NEW i \in 1 .. Carried(s), NEW j \in 1 .. Carried(s), f[i] = f[j], i < j PROVE FALSE
    <3>1. \A i, j \in 1 .. Carried(s) : i # j => i < j \/ j < i
      OBVIOUS
    <3> QED BY <1>4, <3>1 DEF OneToOne
  <2>1. f[i] < f[j] /\ f[i] \in Nat
    BY <1>1, <1>4 DEF Rising
  <2> QED BY <2>1
<1>6. \A t \in HpLists : Sorted(t) = Sorted(s) /\ ToSet(t) = ToSet(s)
  <2> SUFFICES ASSUME NEW t \in HpLists PROVE Sorted(t) = Sorted(s) /\ ToSet(t) = ToSet(s)
    OBVIOUS
  <2>1. ToSet(t) = ToSet(s)
    BY HpAssumption
  <2> QED BY <2>1 DEF Sorted
<1> QED BY <1>4, <1>5, <1>6 DEF f

(* The draws that make a plan, one swap after another, from what all start with. *)
At(s, i) == i + (draw[i] % (Len(s) - i))
Shuffling(h, S, n) == h = [i \in 0 .. n |-> IF i = 0 THEN S ELSE Swapped(h[i - 1], i - 1, At(h[i - 1], i - 1))]

LEMMA ShufflingExists == ASSUME NEW S PROVE \A n \in Nat : \E h : Shuffling(h, S, n)
<1> DEFINE Next1(s, i) == Swapped(s, i, At(s, i))
<1> DEFINE G == {n \in Nat : \E h : Shuffling(h, S, n)}
<1>0. \A h, n : Shuffling(h, S, n) <=> h = [i \in 0 .. n |-> IF i = 0 THEN S ELSE Next1(h[i - 1], i - 1)]
  BY DEF Shuffling
<1> HIDE DEF Next1
<1>1. 0 \in G
  <2> DEFINE h == [i \in 0 .. 0 |-> S]
  <2>1. h = [i \in 0 .. 0 |-> IF i = 0 THEN S ELSE Next1(h[i - 1], i - 1)]
    OBVIOUS
  <2> HIDE DEF h
  <2>2. Shuffling(h, S, 0)
    BY <1>0, <2>1
  <2> QED BY <2>2
<1>2. ASSUME NEW n \in Nat, n \in G PROVE n + 1 \in G
  <2>1. PICK g : Shuffling(g, S, n)
    BY <1>2
  <2> DEFINE h == [i \in 0 .. n + 1 |-> IF i = 0 THEN S ELSE Next1(g[i - 1], i - 1)]
  <2>2. g = [i \in 0 .. n |-> IF i = 0 THEN S ELSE Next1(g[i - 1], i - 1)]
    BY <1>0, <2>1
  <2>3. \A i \in 0 .. n : h[i] = g[i]
    <3> SUFFICES ASSUME NEW i \in 0 .. n PROVE h[i] = g[i]
      OBVIOUS
    <3>1. i \in 0 .. n + 1
      OBVIOUS
    <3>2. h[i] = IF i = 0 THEN S ELSE Next1(g[i - 1], i - 1)
      BY <3>1
    <3>3. g[i] = IF i = 0 THEN S ELSE Next1(g[i - 1], i - 1)
      BY <2>2
    <3> QED BY <3>2, <3>3
  <2>4. \A i \in 0 .. n + 1 : h[i] = IF i = 0 THEN S ELSE Next1(h[i - 1], i - 1)
    <3> SUFFICES ASSUME NEW i \in 0 .. n + 1 PROVE h[i] = IF i = 0 THEN S ELSE Next1(h[i - 1], i - 1)
      OBVIOUS
    <3>1. i # 0 => i - 1 \in 0 .. n
      OBVIOUS
    <3>2. h[i] = IF i = 0 THEN S ELSE Next1(g[i - 1], i - 1)
      OBVIOUS
    <3> HIDE DEF h
    <3> QED BY <2>3, <3>1, <3>2
  <2>5. h = [i \in 0 .. n + 1 |-> h[i]]
    OBVIOUS
  <2> HIDE DEF h
  <2>6. h = [i \in 0 .. n + 1 |-> IF i = 0 THEN S ELSE Next1(h[i - 1], i - 1)]
    BY <2>4, <2>5
  <2>7. Shuffling(h, S, n + 1)
    BY <1>0, <2>6
  <2> QED BY <2>7
<1> HIDE DEF G
<1>3. \A n \in Nat : n \in G
  BY <1>1, <1>2, FromNought
<1> QED BY <1>3 DEF G

(* A swap moves carriers and leaves each there once.                             *)
LEMMA SwapKeeps ==
  ASSUME NEW c \in Nat, NEW T, NEW s \in [1 .. c -> T], OneToOne(s), NEW i \in 0 .. c - 1, NEW j \in 0 .. c - 1
  PROVE  Swapped(s, i, j) \in [1 .. c -> T] /\ OneToOne(Swapped(s, i, j))
<1> DEFINE a == i + 1
<1> DEFINE b == j + 1
<1> DEFINE w == Swapped(s, i, j)
<1>1. a \in 1 .. c /\ b \in 1 .. c
  OBVIOUS
<1>2. w = [s EXCEPT ![a] = s[b], ![b] = s[a]]
  BY DEF Swapped
<1> HIDE DEF a, b, w
<1>3. w \in [1 .. c -> T]
  BY <1>1, <1>2
<1>4. \A k \in 1 .. c : w[k] = IF k = b THEN s[a] ELSE IF k = a THEN s[b] ELSE s[k]
  BY <1>1, <1>2
<1>5. OneToOne(w)
  <2> SUFFICES ASSUME NEW k \in 1 .. c, NEW l \in 1 .. c, w[k] = w[l] PROVE k = l
    BY <1>3 DEF OneToOne
  <2>1. \A k1, l1 \in 1 .. c : s[k1] = s[l1] => k1 = l1
    BY DEF OneToOne
  <2> QED BY <1>1, <1>4, <2>1
<1> QED BY <1>3, <1>5 DEF w

Swaps(n) == Smaller(Take(hops[n]), Minus(Len(hops[n]), 1))
HpTypes ==
  /\ list \in [HpNode -> HpLists] /\ draw \in [0 .. MaxCouples - 1 -> HpDraws]
  /\ step \in [HpNode -> Nat] /\ epoch \in Nat /\ DOMAIN hops = HpNode
EachCarrierOnce == \A n \in HpNode :
  hops[n] \in [1 .. Carried(list[n]) -> ToSet(list[n])] /\ OneToOne(hops[n]) /\ step[n] <= Swaps(n)
(* One shuffle, which every node is somewhere in.                                *)
OneShuffle == \E S, h : Shuffling(h, S, MaxCouples) /\ \A n \in HpNode : step[n] <= MaxCouples /\ hops[n] = h[step[n]]
HopsIInv == HpTypes /\ EachCarrierOnce /\ OneShuffle

LEMMA LenOf == ASSUME NEW c \in Nat, NEW T, NEW s \in [1 .. c -> T] PROVE Len(s) = c /\ s \in Seq(T)
<1>1. s \in Seq(T)
  OBVIOUS
<1>2. DOMAIN s = 1 .. c
  OBVIOUS
<1> QED BY <1>1, <1>2

LEMMA SwapsBound ==
  ASSUME NEW c \in Nat, NEW n, Len(hops[n]) = c
  PROVE  /\ Swaps(n) \in Nat /\ Swaps(n) <= MaxCouples /\ (c > 0 => Swaps(n) <= c - 1) /\ (c = 0 => Swaps(n) = 0)
         /\ Take(hops[n]) \in Nat /\ Take(hops[n]) <= c /\ Take(hops[n]) = Smaller(Smaller(HpLen, c), MaxCouples)
BY HpAssumption DEF Swaps, Take, Smaller, Minus

LEMMA HopsAtFirst == HpInit => HopsIInv
<1> SUFFICES ASSUME HpInit PROVE HopsIInv
  OBVIOUS
<1>1. HpTypes
  BY DEF HpInit, HpTypes
<1>2. EachCarrierOnce
  <2> SUFFICES ASSUME NEW n \in HpNode
               PROVE  hops[n] \in [1 .. Carried(list[n]) -> ToSet(list[n])] /\ OneToOne(hops[n]) /\ step[n] <= Swaps(n)
    BY DEF EachCarrierOnce
  <2>1. list[n] \in HpLists /\ hops[n] = Sorted(list[n]) /\ step[n] = 0
    BY DEF HpInit
  <2>2. hops[n] \in [1 .. Carried(list[n]) -> ToSet(list[n])] /\ OneToOne(hops[n])
    BY <2>1, SortedFacts
  <2>3. Carried(list[n]) \in Nat
    BY <2>1, CarriersOf
  <2>4. Swaps(n) \in Nat
    BY <2>2, <2>3, LenOf, SwapsBound
  <2> QED BY <2>1, <2>2, <2>4
<1>3. OneShuffle
  <2> DEFINE S == CHOOSE S : \A s \in HpLists : Sorted(s) = S
  <2>1. MaxCouples \in Nat
    BY HpAssumption
  <2>2. PICK h : Shuffling(h, S, MaxCouples)
    BY <2>1, ShufflingExists
  <2>3. \E R : \A s \in HpLists : Sorted(s) = R
    <3>1. CASE HpLists = {}
      BY <3>1
    <3>2. CASE HpLists # {}
      <4>1. PICK s \in HpLists : TRUE
        BY <3>2
      <4> QED BY <4>1, SortedFacts
    <3> QED BY <3>1, <3>2
  <2>4. \A s \in HpLists : Sorted(s) = S
    BY <2>3
  <2> HIDE DEF S
  <2>5. h[0] = S
    <3>1. h = [i \in 0 .. MaxCouples |-> IF i = 0 THEN S ELSE Swapped(h[i - 1], i - 1, At(h[i - 1], i - 1))]
      BY <2>2 DEF Shuffling
    <3>2. 0 \in 0 .. MaxCouples
      BY <2>1
    <3> QED BY <3>1, <3>2
  <2>6. \A n \in HpNode : step[n] <= MaxCouples /\ hops[n] = h[step[n]]
    BY <2>1, <2>4, <2>5 DEF HpInit
  <2> QED BY <2>2, <2>6 DEF OneShuffle
<1> QED BY <1>1, <1>2, <1>3 DEF HopsIInv

LEMMA HopsAreKept == HopsIInv /\ [HpNext]_hpVars => HopsIInv'
<1> SUFFICES ASSUME HopsIInv, [HpNext]_hpVars PROVE HopsIInv'
  OBVIOUS
<1>1. ASSUME UNCHANGED <<draw, list, hops, step>>, epoch' \in Nat PROVE HopsIInv'
  <2>1. HpTypes'
    BY <1>1 DEF HopsIInv, HpTypes
  <2>2. EachCarrierOnce'
    BY <1>1 DEF HopsIInv, EachCarrierOnce, Swaps
  <2>3. PICK S, h : Shuffling(h, S, MaxCouples) /\ \A n \in HpNode : step[n] <= MaxCouples /\ hops[n] = h[step[n]]
    BY DEF HopsIInv, OneShuffle
  <2>4. h = [i \in 0 .. MaxCouples |-> IF i = 0 THEN S ELSE Swapped(h[i - 1], i - 1, At(h[i - 1], i - 1))]
    BY <2>3 DEF Shuffling
  <2>5. h = [i \in 0 .. MaxCouples |-> IF i = 0 THEN S ELSE Swapped(h[i - 1], i - 1, At(h[i - 1], i - 1)')]
    BY <1>1, <2>4 DEF At
  <2>6. Shuffling(h, S, MaxCouples)'
    BY <2>5 DEF Shuffling
  <2>7. OneShuffle'
    BY <1>1, <2>3, <2>6 DEF OneShuffle
  <2> QED BY <2>1, <2>2, <2>7 DEF HopsIInv
<1>2. CASE Hop
  <2>1. epoch' \in Nat
    BY <1>2 DEF Hop, HopsIInv, HpTypes
  <2> QED BY <1>1, <1>2, <2>1 DEF Hop
<1>3. CASE UNCHANGED hpVars
  <2>1. epoch' \in Nat
    BY <1>3 DEF hpVars, HopsIInv, HpTypes
  <2> QED BY <1>1, <1>3, <2>1 DEF hpVars
<1>4. ASSUME NEW n \in HpNode, Shuffle(n) PROVE HopsIInv'
  <2> DEFINE c == Carried(list[n])
  <2> DEFINE T == ToSet(list[n])
  <2> DEFINE s == hops[n]
  <2> DEFINE i == step[n]
  <2> DEFINE j == At(s, i)
  <2> DEFINE w == Swapped(s, i, j)
  <2>1. /\ step[n] < Swaps(n) /\ UNCHANGED <<draw, list, epoch>>
        /\ hops' = [hops EXCEPT ![n] = w] /\ step' = [step EXCEPT ![n] = i + 1]
    BY <1>4 DEF Shuffle, Shuffles, Swaps, Drawn, At
  <2>2. c \in Nat /\ s \in [1 .. c -> T] /\ OneToOne(s) /\ i \in Nat /\ list[n] \in HpLists /\ DOMAIN hops = HpNode
    BY CarriersOf DEF HopsIInv, HpTypes, EachCarrierOnce
  <2>3. Len(s) = c
    BY <2>2, LenOf
  <2>4. Swaps(n) \in Nat /\ Swaps(n) <= MaxCouples /\ (c > 0 => Swaps(n) <= c - 1) /\ (c = 0 => Swaps(n) = 0)
    BY <2>2, <2>3, SwapsBound
  <2>5. i \in 0 .. c - 1 /\ i \in 0 .. MaxCouples - 1 /\ i + 1 <= MaxCouples /\ i + 1 <= Swaps(n)
    BY <2>1, <2>2, <2>4, HpAssumption
  <2>6. j \in 0 .. c - 1
    <3> DEFINE d == draw[i]
    <3> DEFINE r == c - i
    <3>1. d \in Nat
      BY <2>5, HpAssumption DEF HopsIInv, HpTypes
    <3>2. r \in Nat \ {0}
      BY <2>2, <2>5
    <3>3. j = i + (d % r)
      BY <2>3 DEF At
    <3> HIDE DEF d, j
    <3>4. d % r \in 0 .. r - 1
      <4> HIDE DEF r
      <4> QED BY <3>1, <3>2
    <3> QED BY <2>2, <2>5, <3>3, <3>4
  <2> HIDE DEF j
  <2>7. w \in [1 .. c -> T] /\ OneToOne(w)
    BY <2>2, <2>5, <2>6, SwapKeeps
  <2> HIDE DEF w, c, T, s, i
  <2>8. HpTypes'
    BY <2>1, <2>2 DEF HopsIInv, HpTypes, i
  <2>9. EachCarrierOnce'
    <3> SUFFICES ASSUME NEW m \in HpNode
                 PROVE  hops'[m] \in [1 .. Carried(list[m]) -> ToSet(list[m])] /\ OneToOne(hops'[m]) /\ step'[m] <= Swaps(m)'
      BY <2>1 DEF EachCarrierOnce
    <3>1. hops[m] \in [1 .. Carried(list[m]) -> ToSet(list[m])] /\ OneToOne(hops[m]) /\ step[m] <= Swaps(m)
      BY DEF HopsIInv, EachCarrierOnce
    <3>2. CASE m = n
      <4>1. hops'[m] = w /\ step'[m] = i + 1
        BY <2>1, <2>2, <3>2 DEF HopsIInv, HpTypes
      <4>2. Len(w) = c
        BY <2>2, <2>7, LenOf
      <4>3. Swaps(m)' = Swaps(n)
        BY <2>3, <3>2, <4>1, <4>2 DEF Swaps, Take, s
      <4> QED BY <2>5, <2>7, <3>2, <4>1, <4>3 DEF c, T
    <3>3. CASE m # n
      <4>1. hops'[m] = hops[m] /\ step'[m] = step[m]
        BY <2>1, <2>2, <3>3 DEF HopsIInv, HpTypes
      <4>2. Swaps(m)' = Swaps(m)
        BY <4>1 DEF Swaps
      <4> QED BY <3>1, <4>1, <4>2
    <3> QED BY <3>2, <3>3
  <2>10. OneShuffle'
    <3>1. PICK S, h : Shuffling(h, S, MaxCouples) /\ \A m \in HpNode : step[m] <= MaxCouples /\ hops[m] = h[step[m]]
      BY DEF HopsIInv, OneShuffle
    <3>2. h = [k \in 0 .. MaxCouples |-> IF k = 0 THEN S ELSE Swapped(h[k - 1], k - 1, At(h[k - 1], k - 1))]
      BY <3>1 DEF Shuffling
    <3>3. h = [k \in 0 .. MaxCouples |-> IF k = 0 THEN S ELSE Swapped(h[k - 1], k - 1, At(h[k - 1], k - 1)')]
      BY <2>1, <3>2 DEF At
    <3>4. Shuffling(h, S, MaxCouples)'
      BY <3>3 DEF Shuffling
    <3>5. i + 1 \in 0 .. MaxCouples /\ i + 1 # 0 /\ (i + 1) - 1 = i
      BY <2>2, <2>5
    <3>6. h[i + 1] = Swapped(h[i], i, At(h[i], i))
      <4> DEFINE B(k) == IF k = 0 THEN S ELSE Swapped(h[k - 1], k - 1, At(h[k - 1], k - 1))
      <4>1. \A k \in 0 .. MaxCouples : h[k] = B(k)
        BY <3>2
      <4>2. h[i + 1] = B(i + 1)
        BY <3>5, <4>1
      <4> QED BY <3>5, <4>2
    <3>7. h[i] = s
      BY <3>1 DEF i, s
    <3>8. h[i + 1] = w
      BY <3>6, <3>7 DEF w, j
    <3>9. ASSUME NEW m \in HpNode PROVE step'[m] <= MaxCouples /\ hops'[m] = h[step'[m]]
      <4>1. m = n => hops'[m] = w /\ step'[m] = i + 1
        BY <2>1, <2>2 DEF HopsIInv, HpTypes
      <4>2. m # n => hops'[m] = hops[m] /\ step'[m] = step[m]
        BY <2>1, <2>2 DEF HopsIInv, HpTypes
      <4> QED BY <2>5, <3>1, <3>8, <4>1, <4>2
    <3> QED BY <3>4, <3>9 DEF OneShuffle
  <2> QED BY <2>8, <2>9, <2>10 DEF HopsIInv
<1> QED BY <1>2, <1>3, <1>4 DEF HpNext

(* What a node that has shuffled hops over is what any other does.              *)
LEMMA HopsAreShared == HopsIInv => OnTheSameCarrier
<1> SUFFICES ASSUME HopsIInv, NEW m \in HpNode, NEW n \in HpNode, Ready(m), Ready(n)
             PROVE  carrier_at(m) = carrier_at(n)
  BY DEF OnTheSameCarrier
<1>1. \A k \in {m, n} : /\ list[k] \in HpLists /\ hops[k] \in [1 .. Carried(list[k]) -> ToSet(list[k])]
                        /\ step[k] \in Nat /\ step[k] <= Swaps(k) /\ Carried(list[k]) \in Nat
  BY CarriersOf DEF HopsIInv, HpTypes, EachCarrierOnce
<1>2. Carried(list[m]) = Carried(list[n])
  BY <1>1, SortedFacts DEF Carried
<1>3. Len(hops[m]) = Carried(list[m]) /\ Len(hops[n]) = Carried(list[n])
  BY <1>1, LenOf
<1>4. Swaps(m) = Swaps(n) /\ Swaps(m) \in Nat
  BY <1>1, <1>2, <1>3, SwapsBound DEF Swaps, Take
<1>5. step[m] = Swaps(m) /\ step[n] = Swaps(n)
  <2>1. ~(step[m] < Swaps(m)) /\ ~(step[n] < Swaps(n))
    BY DEF Ready, Shuffles, Swaps
  <2> QED BY <1>1, <1>4, <2>1
<1>6. hops[m] = hops[n]
  <2>1. PICK S, h : \A k \in HpNode : hops[k] = h[step[k]]
    BY DEF HopsIInv, OneShuffle
  <2> QED BY <1>4, <1>5, <2>1
<1> QED BY <1>6 DEF carrier_at, Plan

LEMMA HopsAreManyEnough == HopsIInv => HopsAreDistinct
<1> SUFFICES ASSUME HopsIInv, NEW n \in HpNode
             PROVE  /\ Cardinality(ToSet(Plan(n))) = Smaller(Smaller(HpLen, Cardinality(ToSet(list[n]))), MaxCouples)
                    /\ Len(Plan(n)) = Cardinality(ToSet(Plan(n))) /\ ToSet(Plan(n)) \subseteq ToSet(list[n])
  BY DEF HopsAreDistinct
<1> DEFINE c == Carried(list[n])
<1> DEFINE T == ToSet(list[n])
<1> DEFINE s == hops[n]
<1> DEFINE t == Take(s)
<1> DEFINE p == Plan(n)
<1>1. c \in Nat /\ s \in [1 .. c -> T] /\ OneToOne(s)
  BY CarriersOf DEF HopsIInv, HpTypes, EachCarrierOnce
<1>2. Len(s) = c /\ s \in Seq(T)
  BY <1>1, LenOf
<1>3. t \in Nat /\ t <= c /\ t = Smaller(Smaller(HpLen, c), MaxCouples)
  BY <1>1, <1>2, SwapsBound
<1>4. p = [i \in 1 .. t |-> s[i]]
  <2>1. p = SubSeq(s, 1, t)
    BY DEF Plan
  <2> HIDE DEF s, t, p
  <2>2. SubSeq(s, 1, t) = [i \in 1 .. t |-> s[i]]
    BY <1>1, <1>2, <1>3
  <2> QED BY <2>1, <2>2
<1> HIDE DEF p, s, t, c, T
<1>5. p \in [1 .. t -> T]
  BY <1>1, <1>3, <1>4
<1>6. Len(p) = t
  BY <1>3, <1>5, LenOf
<1>7. ToSet(p) \subseteq T
  BY <1>5 DEF ToSet
<1>8. p \in Bijection(1 .. t, ToSet(p))
  <2>1. p \in Surjection(1 .. t, ToSet(p))
    BY <1>5 DEF Surjection, ToSet
  <2>2. \A i, j \in 1 .. t : p[i] = p[j] => i = j
    BY <1>1, <1>3, <1>4 DEF OneToOne
  <2>3. IsInjective(p)
    BY <1>5, <2>2 DEF IsInjective
  <2> QED BY <2>1, <2>3 DEF Bijection, Injection, Surjection
<1>9. Cardinality(ToSet(p)) = t
  <2>1. IsFiniteSet(1 .. t) /\ Cardinality(1 .. t) = t
    BY <1>3, FS_Interval
  <2>2. ExistsBijection(1 .. t, ToSet(p))
    BY <1>8 DEF ExistsBijection
  <2> QED BY <2>1, <2>2, FS_Bijection
<1> QED BY <1>3, <1>6, <1>7, <1>9 DEF p, T, c, Carried

(* Division with remainder, the only fact about \div and % the rest uses. *)
LEMMA DivMod ==
  ASSUME NEW S \in Nat \ {0}, NEW t \in Nat
  PROVE  /\ t \div S \in Nat
         /\ t % S \in 0 .. S - 1
         /\ t = S * (t \div S) + (t % S)
  OBVIOUS

(* Multiples of S compare as their factors do, up to a remainder. *)
LEMMA FactorOrder ==
  ASSUME NEW S \in Nat \ {0}, NEW a \in Nat, NEW b \in Nat, NEW r \in 0 .. S - 1,
         S * a <= S * b + r
  PROVE  a <= b
<1> SUFFICES ASSUME b + 1 <= a PROVE FALSE
  OBVIOUS
<1>1. PICK d \in Nat : a = b + 1 + d
  OBVIOUS
<1>2. S * a = S * b + S + S * d
  BY <1>1
<1>3. S * d \in Nat /\ S * b \in Nat
  BY <1>1
<1> QED BY <1>2, <1>3

(* The quotient and the remainder are the only ones. *)
LEMMA QuotientUnique ==
  ASSUME NEW S \in Nat \ {0}, NEW q \in Nat, NEW r \in 0 .. S - 1
  PROVE  (S * q + r) \div S = q /\ (S * q + r) % S = r
<1> DEFINE t == S * q + r
           p == t \div S
           e == t % S
<1>1. t \in Nat
  OBVIOUS
<1>2. p \in Nat /\ e \in 0 .. S - 1 /\ t = S * p + e
  BY <1>1, DivMod
<1>3. t = S * q + r
  OBVIOUS
<1> HIDE DEF t, p, e
<1>4. S * p <= S * q + r /\ S * q <= S * p + e
  <2>1. S * p \in Nat /\ S * q \in Nat
    BY <1>2
  <2> QED BY <1>2, <1>3, <2>1
<1>5. p <= q /\ q <= p
  BY <1>2, <1>4, FactorOrder
<1>6. p = q
  BY <1>2, <1>5
<1>7. e = r
  <2>1. S * q \in Nat
    OBVIOUS
  <2> QED BY <1>2, <1>3, <1>6, <2>1
<1> QED BY <1>6, <1>7 DEF p, e, t

(* A remainder may be taken before or after a number is added.                  *)
LEMMA RestOfSum ==
  ASSUME NEW W \in Nat \ {0}, NEW a \in Nat, NEW b \in Nat
  PROVE  ((a % W) + b) % W = (a + b) % W
<1> DEFINE q == a \div W
<1> DEFINE r == a % W
<1> DEFINE u == (r + b) \div W
<1> DEFINE v == (r + b) % W
<1>1. q \in Nat /\ r \in 0 .. W - 1 /\ a = W * q + r
  BY DivMod
<1>2. r + b \in Nat
  BY <1>1
<1> HIDE DEF q, r
<1>3. u \in Nat /\ v \in 0 .. W - 1 /\ r + b = W * u + v
  BY <1>2, DivMod
<1> HIDE DEF u, v
<1>4. a + b = W * (q + u) + v
  <2>1. W * (q + u) = W * q + W * u
    BY <1>1, <1>3
  <2>2. W * q \in Nat /\ W * u \in Nat
    BY <1>1, <1>3
  <2> QED BY <1>1, <1>3, <2>1, <2>2
<1>5. q + u \in Nat
  BY <1>1, <1>3
<1>6. (W * (q + u) + v) % W = v
  BY <1>3, <1>5, QuotientUnique
<1>7. (a + b) % W = v
  BY <1>4, <1>6
<1> QED BY <1>7 DEF v, r

(* The difference of two readings is that of the frames between, as they wrap.  *)
LEMMA RateOfFrames ==
  ASSUME NEW W \in Nat \ {0}, NEW a \in 0 .. W - 1, NEW p \in Nat
  PROVE  (((a + p) % W) - a + W) % W = p % W
<1> DEFINE r == p % W
<1> DEFINE e == (a + p) % W
<1>1. r \in 0 .. W - 1
  BY DivMod
<1>2. e = (r + a) % W
  <2>1. a \in Nat /\ a + p = p + a
    OBVIOUS
  <2> HIDE DEF r, e
  <2>2. ((p % W) + a) % W = (p + a) % W
    BY <2>1, RestOfSum
  <2> QED BY <2>1, <2>2 DEF r, e
<1> HIDE DEF r, e
<1>3. CASE r + a < W
  <2>1. (r + a) % W = r + a
    <3>1. r + a \in 0 .. W - 1 /\ W * 0 + (r + a) = r + a
      BY <1>1, <1>3
    <3> QED BY <3>1, QuotientUnique
  <2>2. e - a + W = W * 1 + r
    BY <1>1, <1>2, <2>1
  <2>3. (W * 1 + r) % W = r
    BY <1>1, QuotientUnique
  <2> QED BY <2>2, <2>3 DEF e, r
<1>4. CASE r + a >= W
  <2>1. (r + a) % W = r + a - W
    <3> DEFINE k == r + a - W
    <3>1. k \in 0 .. W - 1 /\ W * 1 + k = r + a
      BY <1>1, <1>4
    <3> HIDE DEF k
    <3>2. (W * 1 + k) % W = k
      BY <3>1, QuotientUnique
    <3> QED BY <3>1, <3>2 DEF k
  <2>2. e - a + W = W * 0 + r
    BY <1>1, <1>2, <2>1
  <2>3. (W * 0 + r) % W = r
    BY <1>1, QuotientUnique
  <2> QED BY <2>2, <2>3 DEF e, r
<1> QED BY <1>1, <1>3, <1>4

(* ------------------------------ the occupancy sampler ----------------------------- *)

SamplerIInv ==
  /\ counter \in 0 .. OcWidth - 1 /\ passed \in Nat
  /\ prev # OcNone => /\ prev \in [at : 0 .. OcWidth - 1, ago : Nat]
                      /\ counter = (prev.at + passed) % OcWidth
  /\ activity # OcNone => /\ activity[3] \in Nat /\ activity[1] = activity[3] % OcWidth
                          /\ activity[2] \in Nat /\ activity[2] > 0

LEMMA SamplerIsKept == SamplerIInv /\ [OcNext]_ocVars => SamplerIInv'
<1> SUFFICES ASSUME SamplerIInv, [OcNext]_ocVars PROVE SamplerIInv'
  OBVIOUS
<1>1. CASE UNCHANGED ocVars
  BY <1>1 DEF ocVars, SamplerIInv
<1>2. ASSUME NEW frames \in OcBurst, NEW outcome \in {"read", "failed", "unsupported"}, Sample(frames, outcome)
      PROVE  SamplerIInv'
  <2> DEFINE W == OcWidth
  <2> DEFINE now == (counter + frames) % W
  <2> DEFINE over == IF prev = OcNone THEN 0 ELSE prev.ago + 1
  <2> DEFINE p == passed + frames
  <2>1. W \in Nat \ {0} /\ frames \in Nat /\ counter \in 0 .. W - 1 /\ passed \in Nat /\ p \in Nat
    BY OcAssumption DEF SamplerIInv
  <2>2. now \in 0 .. W - 1
    <3>1. counter + frames \in Nat
      BY <2>1
    <3> QED BY <2>1, <3>1, DivMod
  <2>3. counter' = now
    BY <1>2 DEF Sample
  <2>4. prev # OcNone => prev \in [at : 0 .. W - 1, ago : Nat] /\ prev.at \in 0 .. W - 1 /\ now = (prev.at + p) % W /\ over \in Nat /\ over > 0
    <3> SUFFICES ASSUME prev # OcNone PROVE prev \in [at : 0 .. W - 1, ago : Nat] /\ prev.at \in 0 .. W - 1 /\ now = (prev.at + p) % W /\ over \in Nat /\ over > 0
      OBVIOUS
    <3> DEFINE q == prev.at
    <3>1. prev \in [at : 0 .. W - 1, ago : Nat] /\ q \in 0 .. W - 1 /\ prev.ago \in Nat /\ counter = (q + passed) % W
      BY DEF SamplerIInv
    <3>2. over \in Nat /\ over > 0
      BY <3>1
    <3> DEFINE a == q + passed
    <3>3. a \in Nat /\ a + frames = q + p
      <4> HIDE DEF q, W
      <4> QED BY <2>1, <3>1
    <3>4. counter = a % W
      BY <3>1
    <3> HIDE DEF a, W
    <3>5. ((a % W) + frames) % W = (a + frames) % W
      BY <2>1, <3>3, RestOfSum
    <3>6. now = (a + frames) % W
      BY <3>4, <3>5
    <3> QED BY <3>1, <3>2, <3>3, <3>6 DEF W, q
  <2>5. CASE outcome = "read"
    <3>1. activity' = (IF prev = OcNone THEN activity ELSE <<activity_rate(prev.at, now), over, p>>)
          /\ prev' = [at |-> now, ago |-> 0] /\ passed' = 0
      BY <1>2, <2>5 DEF Sample
    <3> HIDE DEF now, over, p, W
    <3>2. prev'.at = now /\ prev'.ago = 0
      BY <3>1
    <3>3. now = (now + 0) % W
      <4>1. now + 0 = now /\ W * 0 + now = now
        BY <2>1, <2>2
      <4>2. (W * 0 + now) % W = now
        BY <2>1, <2>2, QuotientUnique
      <4> QED BY <4>1, <4>2
    <3>4. ASSUME activity' # OcNone
          PROVE  activity'[3] \in Nat /\ activity'[1] = activity'[3] % W /\ activity'[2] \in Nat /\ activity'[2] > 0
      <4>1. CASE prev = OcNone
        <5>1. activity' = activity
          BY <3>1, <4>1
        <5> QED BY <3>4, <5>1 DEF SamplerIInv, W
      <4>2. CASE prev # OcNone
        <5>1. activity' = <<activity_rate(prev.at, now), over, p>>
          BY <3>1, <4>2
        <5>2. activity_rate(prev.at, now) = p % W
          <6>1. (((prev.at + p) % W) - prev.at + W) % W = p % W
            BY <2>1, <2>4, <4>2, RateOfFrames
          <6> QED BY <2>4, <4>2, <6>1 DEF activity_rate, W
        <5> QED BY <2>1, <2>4, <4>2, <5>1, <5>2
      <4> QED BY <4>1, <4>2
    <3>5. counter' \in 0 .. W - 1 /\ passed' \in Nat
      BY <2>2, <2>3, <3>1
    <3>6. prev' \in [at : 0 .. W - 1, ago : Nat] /\ counter' = (prev'.at + passed') % W
      BY <2>2, <2>3, <3>1, <3>2, <3>3
    <3> QED BY <3>4, <3>5, <3>6 DEF SamplerIInv, W
  <2>6. CASE outcome # "read"
    <3>1. prev' = (IF prev = OcNone THEN OcNone ELSE [prev EXCEPT !.ago = over])
          /\ passed' = p /\ activity' = activity
      BY <1>2, <2>6 DEF Sample
    <3>2. prev' # OcNone => prev # OcNone
      BY <3>1
    <3> HIDE DEF now, over, p, W
    <3>3. prev # OcNone /\ prev' # OcNone => prev' \in [at : 0 .. W - 1, ago : Nat] /\ counter' = (prev'.at + p) % W
      <4> SUFFICES ASSUME prev # OcNone, prev' # OcNone
                   PROVE  prev' \in [at : 0 .. W - 1, ago : Nat] /\ counter' = (prev'.at + p) % W
        OBVIOUS
      <4>1. prev' = [prev EXCEPT !.ago = over]
        BY <3>1
      <4>2. prev' \in [at : 0 .. W - 1, ago : Nat] /\ prev'.at = prev.at
        BY <2>4, <4>1
      <4> QED BY <2>3, <2>4, <4>2
    <3> QED BY <2>1, <2>2, <2>3, <3>1, <3>2, <3>3 DEF SamplerIInv, W
  <2> QED BY <2>5, <2>6
<1> QED BY <1>1, <1>2 DEF OcNext

(* Nodes that draw their hops from one name are on one carrier in every epoch,  *)
(* each as many as it asked for, and the activity told of the air is that of    *)
(* the frames there were (hop.rs, occupancy.rs).                                *)
THEOREM CarriersAreShared == HpSpec /\ OcSpec => []CarriersInv
<1>1. OcInit => SamplerIInv
  BY OcAssumption DEF OcInit, SamplerIInv
<1>2. SamplerIInv => ActivityIsTheFrames
  <2> SUFFICES ASSUME SamplerIInv, activity # OcNone, activity[3] < OcWidth
               PROVE  activity[1] = activity[3] /\ activity[2] > 0
    BY DEF ActivityIsTheFrames
  <2> DEFINE f == activity[3]
  <2>1. f \in 0 .. OcWidth - 1 /\ activity[1] = f % OcWidth /\ activity[2] > 0
    BY OcAssumption DEF SamplerIInv
  <2> HIDE DEF f
  <2>2. (OcWidth * 0 + f) % OcWidth = f
    BY <2>1, OcAssumption, QuotientUnique
  <2>3. OcWidth * 0 + f = f
    BY <2>1, OcAssumption
  <2> QED BY <2>1, <2>2, <2>3 DEF f
<1>3. HopsIInv /\ SamplerIInv => CarriersInv
  BY <1>2, HopsAreShared, HopsAreManyEnough DEF CarriersInv
<1>4. HpSpec => []HopsIInv
  BY HopsAtFirst, HopsAreKept, PTL DEF HpSpec
<1>5. OcSpec => []SamplerIInv
  BY <1>1, SamplerIsKept, PTL DEF OcSpec
<1> QED BY <1>3, <1>4, <1>5, PTL

(* --------------------- the thresholds of the rates: RateLearning ------------------- *)

ThresholdTypes ==
  /\ mcsT \in [1 .. 10 -> -110 .. 0] /\ sfT \in [1 .. 6 -> -130 .. 0] /\ sfNow \in 7 .. 12
  /\ DOMAIN turned = {"at", "up", "same"} /\ turned.at \in Int /\ turned.up \in BOOLEAN /\ turned.same \in BOOLEAN
(* Where the last change of the dial left it, while the thresholds are as then.  *)
TurnedThere == turned.same = TRUE =>
  IF turned.up = TRUE THEN sfNow > 7 /\ sfT[sfNow - 7] > turned.at ELSE sfT[sfNow - 6] <= turned.at
ThresholdIInv == ThresholdTypes /\ RungsStayOrdered /\ TurnedThere

(* A rung moved between its neighbours leaves the rungs in order.                *)
LEMMA BetweenFacts ==
  ASSUME NEW t \in [1 .. 10 -> -110 .. 0], \A i, j \in 1 .. 10 : i < j => t[i] <= t[j],
         NEW i \in 1 .. 10, NEW x \in Int
  PROVE  LET z == Between(t, i, x, -110, 0) IN
         /\ z \in -110 .. 0
         /\ \A j \in 1 .. 10 : (j < i => t[j] <= z) /\ (i < j => z <= t[j])
         /\ (x <= t[i] => z <= t[i]) /\ (t[i] <= x => t[i] <= z)
<1> DEFINE z == Between(t, i, x, -110, 0)
<1> DEFINE y == Clamp(x, -110, 0)
<1> DEFINE u == IF i > 1 THEN Larger(y, t[i - 1]) ELSE y
<1>1. Len(t) = 10
  BY LenOf
<1>2. z = IF i < 10 THEN Smaller(u, t[i + 1]) ELSE u
  BY <1>1 DEF Between
<1>3. y \in -110 .. 0 /\ (x <= t[i] => y <= t[i]) /\ (t[i] <= x => t[i] <= y)
  <2>1. t[i] \in -110 .. 0
    OBVIOUS
  <2> DEFINE v == t[i]
  <2> HIDE DEF v
  <2>2. v \in -110 .. 0
    BY <2>1 DEF v
  <2>3. y \in -110 .. 0 /\ (x <= v => y <= v) /\ (v <= x => v <= y)
    BY <2>2 DEF Clamp, Larger, Smaller
  <2> QED BY <2>3 DEF v
<1> HIDE DEF z, y
<1>4. i > 1 => i - 1 \in 1 .. 10 /\ t[i - 1] \in -110 .. 0 /\ t[i - 1] <= t[i] /\ \A j \in 1 .. 10 : j < i => t[j] <= t[i - 1]
  <2> SUFFICES ASSUME i > 1
               PROVE  i - 1 \in 1 .. 10 /\ t[i - 1] \in -110 .. 0 /\ t[i - 1] <= t[i] /\ \A j \in 1 .. 10 : j < i => t[j] <= t[i - 1]
    OBVIOUS
  <2>1. i - 1 \in 1 .. 10 /\ i - 1 < i
    OBVIOUS
  <2>2. t[i - 1] \in -110 .. 0 /\ t[i - 1] <= t[i]
    BY <2>1
  <2>3. ASSUME NEW j \in 1 .. 10, j < i PROVE t[j] <= t[i - 1]
    <3>1. j = i - 1 \/ j < i - 1
      BY <2>3
    <3>2. t[j] \in -110 .. 0
      OBVIOUS
    <3> QED BY <2>1, <2>2, <3>1, <3>2
  <2> QED BY <2>1, <2>2, <2>3
<1>5. i < 10 => i + 1 \in 1 .. 10 /\ t[i + 1] \in -110 .. 0 /\ t[i] <= t[i + 1] /\ \A j \in 1 .. 10 : i < j => t[i + 1] <= t[j]
  <2> SUFFICES ASSUME i < 10
               PROVE  i + 1 \in 1 .. 10 /\ t[i + 1] \in -110 .. 0 /\ t[i] <= t[i + 1] /\ \A j \in 1 .. 10 : i < j => t[i + 1] <= t[j]
    OBVIOUS
  <2>1. i + 1 \in 1 .. 10 /\ i < i + 1
    OBVIOUS
  <2>2. t[i + 1] \in -110 .. 0 /\ t[i] <= t[i + 1]
    BY <2>1
  <2>3. ASSUME NEW j \in 1 .. 10, i < j PROVE t[i + 1] <= t[j]
    <3>1. j = i + 1 \/ i + 1 < j
      BY <2>3
    <3>2. t[j] \in -110 .. 0
      OBVIOUS
    <3> QED BY <2>1, <2>2, <3>1, <3>2
  <2> QED BY <2>1, <2>2, <2>3
<1> DEFINE low == t[i - 1]
<1> DEFINE high == t[i + 1]
<1> DEFINE was == t[i]
<1>6. was \in -110 .. 0
  OBVIOUS
<1> HIDE DEF low, high, was
<1>7. /\ z \in -110 .. 0 /\ (x <= was => z <= was) /\ (was <= x => was <= z)
      /\ (i > 1 => low <= z) /\ (i < 10 => z <= high)
  <2>1. /\ i > 1 => low \in -110 .. 0 /\ low <= was
        /\ i < 10 => high \in -110 .. 0 /\ was <= high
    BY <1>4, <1>5 DEF low, high, was
  <2>2. y \in -110 .. 0 /\ (x <= was => y <= was) /\ (was <= x => was <= y)
    BY <1>3 DEF was
  <2>3. u = IF i > 1 THEN Larger(y, low) ELSE y
    BY DEF low
  <2>4. z = IF i < 10 THEN Smaller(u, high) ELSE u
    BY <1>2 DEF high
  <2> HIDE DEF u
  <2>5. u \in -110 .. 0 /\ (x <= was => u <= was) /\ (was <= x => was <= u) /\ (i > 1 => low <= u)
    BY <1>6, <2>1, <2>2, <2>3 DEF Larger
  <2> QED BY <1>6, <2>1, <2>4, <2>5 DEF Smaller
<1>8. \A j \in 1 .. 10 : (j < i => t[j] <= z) /\ (i < j => z <= t[j])
  <2> SUFFICES ASSUME NEW j \in 1 .. 10 PROVE (j < i => t[j] <= z) /\ (i < j => z <= t[j])
    OBVIOUS
  <2>1. t[j] \in -110 .. 0
    OBVIOUS
  <2>2. j < i => i > 1 /\ t[j] <= low /\ low \in -110 .. 0
    BY <1>4 DEF low
  <2>3. i < j => i < 10 /\ high <= t[j] /\ high \in -110 .. 0
    BY <1>5 DEF high
  <2> QED BY <1>7, <2>1, <2>2, <2>3
<1> QED BY <1>7, <1>8 DEF z, was

LEMMA BetweenSfFacts ==
  ASSUME NEW t \in [1 .. 6 -> -130 .. 0], \A i, j \in 1 .. 6 : i < j => t[i] >= t[j],
         NEW i \in 1 .. 6, NEW x \in Int
  PROVE  LET z == BetweenSf(t, i, x, -130, 0) IN
         /\ z \in -130 .. 0
         /\ \A j \in 1 .. 6 : (j < i => t[j] >= z) /\ (i < j => z >= t[j])
<1> DEFINE z == BetweenSf(t, i, x, -130, 0)
<1> DEFINE y == Clamp(x, -130, 0)
<1> DEFINE u == IF i > 1 THEN Smaller(y, t[i - 1]) ELSE y
<1>1. Len(t) = 6
  BY LenOf
<1>2. z = IF i < 6 THEN Larger(u, t[i + 1]) ELSE u
  BY <1>1 DEF BetweenSf
<1>3. y \in -130 .. 0
  BY DEF Clamp, Larger, Smaller
<1> HIDE DEF z, y
<1>4. i > 1 => i - 1 \in 1 .. 6 /\ t[i - 1] \in -130 .. 0 /\ t[i - 1] >= t[i] /\ \A j \in 1 .. 6 : j < i => t[j] >= t[i - 1]
  <2> SUFFICES ASSUME i > 1
               PROVE  i - 1 \in 1 .. 6 /\ t[i - 1] \in -130 .. 0 /\ t[i - 1] >= t[i] /\ \A j \in 1 .. 6 : j < i => t[j] >= t[i - 1]
    OBVIOUS
  <2>1. i - 1 \in 1 .. 6 /\ i - 1 < i
    OBVIOUS
  <2>2. t[i - 1] \in -130 .. 0 /\ t[i - 1] >= t[i]
    BY <2>1
  <2>3. ASSUME NEW j \in 1 .. 6, j < i PROVE t[j] >= t[i - 1]
    <3>1. j = i - 1 \/ j < i - 1
      BY <2>3
    <3>2. t[j] \in -130 .. 0
      OBVIOUS
    <3> QED BY <2>1, <2>2, <3>1, <3>2
  <2> QED BY <2>1, <2>2, <2>3
<1>5. i < 6 => i + 1 \in 1 .. 6 /\ t[i + 1] \in -130 .. 0 /\ t[i] >= t[i + 1] /\ \A j \in 1 .. 6 : i < j => t[i + 1] >= t[j]
  <2> SUFFICES ASSUME i < 6
               PROVE  i + 1 \in 1 .. 6 /\ t[i + 1] \in -130 .. 0 /\ t[i] >= t[i + 1] /\ \A j \in 1 .. 6 : i < j => t[i + 1] >= t[j]
    OBVIOUS
  <2>1. i + 1 \in 1 .. 6 /\ i < i + 1
    OBVIOUS
  <2>2. t[i + 1] \in -130 .. 0 /\ t[i] >= t[i + 1]
    BY <2>1
  <2>3. ASSUME NEW j \in 1 .. 6, i < j PROVE t[i + 1] >= t[j]
    <3>1. j = i + 1 \/ i + 1 < j
      BY <2>3
    <3>2. t[j] \in -130 .. 0
      OBVIOUS
    <3> QED BY <2>1, <2>2, <3>1, <3>2
  <2> QED BY <2>1, <2>2, <2>3
<1> DEFINE high == t[i - 1]
<1> DEFINE low == t[i + 1]
<1> DEFINE was == t[i]
<1>6. was \in -130 .. 0
  OBVIOUS
<1> HIDE DEF low, high, was
<1>7. z \in -130 .. 0 /\ (i > 1 => high >= z) /\ (i < 6 => z >= low)
  <2>1. /\ i > 1 => high \in -130 .. 0 /\ high >= was
        /\ i < 6 => low \in -130 .. 0 /\ was >= low
    BY <1>4, <1>5 DEF low, high, was
  <2>2. u = IF i > 1 THEN Smaller(y, high) ELSE y
    BY DEF high
  <2>3. z = IF i < 6 THEN Larger(u, low) ELSE u
    BY <1>2 DEF low
  <2> HIDE DEF u
  <2>4. u \in -130 .. 0 /\ (i > 1 => high >= u)
    BY <1>3, <1>6, <2>1, <2>2 DEF Smaller
  <2> QED BY <1>6, <2>1, <2>3, <2>4 DEF Larger
<1>8. \A j \in 1 .. 6 : (j < i => t[j] >= z) /\ (i < j => z >= t[j])
  <2> SUFFICES ASSUME NEW j \in 1 .. 6 PROVE (j < i => t[j] >= z) /\ (i < j => z >= t[j])
    OBVIOUS
  <2>1. t[j] \in -130 .. 0
    OBVIOUS
  <2>2. j < i => i > 1 /\ t[j] >= high /\ high \in -130 .. 0
    BY <1>4 DEF high
  <2>3. i < j => i < 6 /\ low >= t[j] /\ low \in -130 .. 0
    BY <1>5 DEF low
  <2> QED BY <1>7, <2>1, <2>2, <2>3
<1> QED BY <1>7, <1>8 DEF z

(* A non-empty set of rungs has a highest one. *)
LEMMA HighestExists ==
  ASSUME NEW top \in Nat, NEW F \in SUBSET (0 .. top), F # {}
  PROVE  \E m \in F : \A n \in F : n <= m
<1> DEFINE T == {top - m : m \in F}
<1>1. T \in SUBSET Nat /\ T # {}
  <2>1. \A m \in 0 .. top : top - m \in Nat
    OBVIOUS
  <2> QED BY <2>1
<1>2. PICK x \in T : \A y \in T : x <= y
  <2> HIDE DEF T
  <2> QED BY <1>1, LeastExists
<1>3. PICK m \in F : x = top - m
  BY <1>2
<1>4. ASSUME NEW n \in F PROVE n <= m
  <2>1. top - m <= top - n
    BY <1>2, <1>3
  <2> QED BY <2>1
<1> QED BY <1>4

LEMMA BestBelowIs ==
  ASSUME NEW table, NEW level
  PROVE  LET F == {m \in 0 .. 9 : table[m + 1] <= level}   b == BestBelow(table, level, 9) IN
         (F = {} => b = 0) /\ (F # {} => b \in F /\ \A n \in F : n <= b)
<1> DEFINE F == {m \in 0 .. 9 : table[m + 1] <= level}
<1> DEFINE Top(m) == \A n \in F : n <= m
<1>1. BestBelow(table, level, 9) = IF F = {} THEN 0 ELSE CHOOSE m \in F : Top(m)
  BY DEF BestBelow
<1>2. F \in SUBSET (0 .. 9)
  OBVIOUS
<1>3. F # {} => \E m \in F : Top(m)
  <2> HIDE DEF F
  <2> QED BY <1>2, HighestExists
<1> HIDE DEF F
<1>4. F # {} => BestBelow(table, level, 9) \in F /\ Top(BestBelow(table, level, 9))
  <2> HIDE DEF Top
  <2> QED BY <1>1, <1>3
<1> QED BY <1>1, <1>4 DEF F

(* Lower thresholds are never good for less.                                      *)
LEMMA LowerIsFaster ==
  ASSUME NEW a, NEW b, NEW level \in Int, \A m \in 0 .. 9 : a[m + 1] \in Int /\ b[m + 1] \in Int /\ a[m + 1] <= b[m + 1]
  PROVE  BestBelow(a, level, 9) >= BestBelow(b, level, 9)
<1> DEFINE A == {m \in 0 .. 9 : a[m + 1] <= level}
<1> DEFINE B == {m \in 0 .. 9 : b[m + 1] <= level}
<1> DEFINE x == BestBelow(a, level, 9)
<1> DEFINE y == BestBelow(b, level, 9)
<1>1. B \subseteq A
  <2> SUFFICES ASSUME NEW m \in 0 .. 9, b[m + 1] <= level PROVE a[m + 1] <= level
    OBVIOUS
  <2>1. a[m + 1] \in Int /\ b[m + 1] \in Int /\ a[m + 1] <= b[m + 1]
    OBVIOUS
  <2> QED BY <2>1
<1>2. (A = {} => x = 0) /\ (A # {} => x \in A /\ \A n \in A : n <= x)
  BY BestBelowIs
<1>3. (B = {} => y = 0) /\ (B # {} => y \in B /\ \A n \in B : n <= y)
  BY BestBelowIs
<1>4. A \subseteq 0 .. 9 /\ B \subseteq 0 .. 9
  OBVIOUS
<1> HIDE DEF A, B, x, y
<1>5. x >= y
  <2>1. CASE B = {}
    <3>1. x = 0 \/ x \in A
      BY <1>2
    <3>2. x = 0 \/ x \in 0 .. 9
      BY <1>4, <3>1
    <3> QED BY <1>3, <2>1, <3>2
  <2>2. CASE B # {}
    <3>1. y \in A /\ A # {}
      BY <1>1, <1>3, <2>2
    <3>2. x \in 0 .. 9 /\ y \in 0 .. 9 /\ y <= x
      BY <1>2, <1>4, <3>1
    <3> QED BY <3>2
  <2> QED BY <2>1, <2>2
<1> QED BY <1>5 DEF x, y

(* A sample moves one threshold, and the right way.                               *)
LEMMA SampledMcs ==
  ASSUME ThresholdIInv, NEW m \in LrMcs, NEW level, NEW delivered \in BOOLEAN, observe_mcs(m, level, delivered)
  PROVE  /\ mcsT' \in [1 .. 10 -> -110 .. 0]
         /\ \A i, j \in 1 .. 10 : i < j => mcsT'[i] <= mcsT'[j]
         /\ \A i \in 1 .. 10 : IF delivered THEN mcsT'[i] <= mcsT[i] ELSE mcsT[i] <= mcsT'[i]
<1> DEFINE t == mcsT
<1> DEFINE i == m + 1
<1> DEFINE x == Moved(t[i], delivered)
<1> DEFINE z == Between(t, i, x, -110, 0)
<1>1. t \in [1 .. 10 -> -110 .. 0] /\ \A k, j \in 1 .. 10 : k < j => t[k] <= t[j]
  BY DEF ThresholdIInv, ThresholdTypes, RungsStayOrdered
<1>2. i \in 1 .. 10
  BY LrAssumption
<1>3. mcsT' = [t EXCEPT ![i] = z]
  BY DEF observe_mcs
<1>4. x \in Int /\ (IF delivered THEN x <= t[i] ELSE t[i] <= x)
  <2> DEFINE w == t[i]
  <2>1. w \in Int
    BY <1>1, <1>2
  <2> HIDE DEF w
  <2>2. Moved(w, delivered) \in Int /\ (IF delivered THEN Moved(w, delivered) <= w ELSE w <= Moved(w, delivered))
    BY <2>1, LrAssumption DEF Moved
  <2> QED BY <2>2 DEF w
<1> HIDE DEF i, x
<1>5. /\ z \in -110 .. 0
      /\ \A j \in 1 .. 10 : (j < i => t[j] <= z) /\ (i < j => z <= t[j])
      /\ (x <= t[i] => z <= t[i]) /\ (t[i] <= x => t[i] <= z)
  BY <1>1, <1>2, <1>4, BetweenFacts
<1> HIDE DEF z, t
<1>6. \A j \in 1 .. 10 : mcsT'[j] = IF j = i THEN z ELSE t[j]
  BY <1>1, <1>2, <1>3
<1>7. mcsT' \in [1 .. 10 -> -110 .. 0]
  BY <1>1, <1>2, <1>3, <1>5
<1>8. \A k, j \in 1 .. 10 : k < j => mcsT'[k] <= mcsT'[j]
  <2> SUFFICES ASSUME NEW k \in 1 .. 10, NEW j \in 1 .. 10, k < j PROVE mcsT'[k] <= mcsT'[j]
    OBVIOUS
  <2>1. CASE k = i
    <3>1. j # i /\ z <= t[j]
      BY <1>5, <2>1
    <3> QED BY <1>6, <2>1, <3>1
  <2>2. CASE j = i
    <3>1. k # i /\ t[k] <= z
      BY <1>5, <2>2
    <3> QED BY <1>6, <2>2, <3>1
  <2>3. CASE k # i /\ j # i
    BY <1>1, <1>6, <2>3
  <2> QED BY <2>1, <2>2, <2>3
<1>9. \A j \in 1 .. 10 : IF delivered THEN mcsT'[j] <= t[j] ELSE t[j] <= mcsT'[j]
  <2> SUFFICES ASSUME NEW j \in 1 .. 10 PROVE IF delivered THEN mcsT'[j] <= t[j] ELSE t[j] <= mcsT'[j]
    OBVIOUS
  <2>1. CASE j = i
    BY <1>4, <1>5, <1>6, <2>1
  <2>2. CASE j # i
    <3>1. mcsT'[j] = t[j] /\ t[j] \in -110 .. 0
      BY <1>1, <1>6, <2>2
    <3> QED BY <3>1
  <2> QED BY <2>1, <2>2
<1> QED BY <1>7, <1>8, <1>9 DEF t

LEMMA SampledSf ==
  ASSUME ThresholdIInv, NEW s \in LrSf, NEW level, NEW delivered \in BOOLEAN, observe_sf(s, level, delivered)
  PROVE  sfT' \in [1 .. 6 -> -130 .. 0] /\ \A i, j \in 1 .. 6 : i < j => sfT'[i] >= sfT'[j]
<1> DEFINE t == sfT
<1> DEFINE i == s - 6
<1> DEFINE x == Moved(t[i], delivered)
<1> DEFINE z == BetweenSf(t, i, x, -130, 0)
<1>1. t \in [1 .. 6 -> -130 .. 0] /\ \A k, j \in 1 .. 6 : k < j => t[k] >= t[j]
  BY DEF ThresholdIInv, ThresholdTypes, RungsStayOrdered
<1>2. i \in 1 .. 6
  BY LrAssumption
<1>3. sfT' = [t EXCEPT ![i] = z]
  BY DEF observe_sf
<1>4. x \in Int
  <2> DEFINE w == t[i]
  <2>1. w \in Int
    BY <1>1, <1>2
  <2> HIDE DEF w
  <2>2. Moved(w, delivered) \in Int
    BY <2>1, LrAssumption DEF Moved
  <2> QED BY <2>2 DEF w
<1> HIDE DEF i, x
<1>5. /\ z \in -130 .. 0
      /\ \A j \in 1 .. 6 : (j < i => t[j] >= z) /\ (i < j => z >= t[j])
  BY <1>1, <1>2, <1>4, BetweenSfFacts
<1> HIDE DEF z, t
<1>6. \A j \in 1 .. 6 : sfT'[j] = IF j = i THEN z ELSE t[j]
  BY <1>1, <1>2, <1>3
<1>7. sfT' \in [1 .. 6 -> -130 .. 0]
  BY <1>1, <1>2, <1>3, <1>5
<1>8. \A k, j \in 1 .. 6 : k < j => sfT'[k] >= sfT'[j]
  <2> SUFFICES ASSUME NEW k \in 1 .. 6, NEW j \in 1 .. 6, k < j PROVE sfT'[k] >= sfT'[j]
    OBVIOUS
  <2>1. CASE k = i
    <3>1. j # i /\ z >= t[j]
      BY <1>5, <2>1
    <3> QED BY <1>6, <2>1, <3>1
  <2>2. CASE j = i
    <3>1. k # i /\ t[k] >= z
      BY <1>5, <2>2
    <3> QED BY <1>6, <2>2, <3>1
  <2>3. CASE k # i /\ j # i
    BY <1>1, <1>6, <2>3
  <2> QED BY <2>1, <2>2, <2>3
<1> QED BY <1>7, <1>8

(* The factor a level asks for: the least whose threshold it clears.              *)
LEMMA PickedSf ==
  ASSUME NEW table \in [1 .. 6 -> -130 .. 0], NEW level \in Int
  PROVE  LET p == pick_sf(level, table) IN
         /\ p \in 7 .. 12
         /\ \A s \in 7 .. 12 : s < p => table[s - 6] > level
         /\ p < 12 => table[p - 6] <= level
<1> DEFINE F == {s \in 7 .. 12 : table[s - 6] <= level}
<1> DEFINE p == pick_sf(level, table)
<1> DEFINE Low(s) == \A t \in F : s <= t
<1>1. p = IF F = {} THEN 12 ELSE CHOOSE s \in F : Low(s)
  BY DEF pick_sf
<1>2. F # {} => \E s \in F : Low(s)
  <2> SUFFICES ASSUME F # {} PROVE \E s \in F : Low(s)
    OBVIOUS
  <2>1. F \in SUBSET Nat
    OBVIOUS
  <2> HIDE DEF F
  <2> QED BY <2>1, LeastExists
<1>3. F # {} => p \in F /\ Low(p)
  <2> HIDE DEF F, Low, p
  <2> QED BY <1>1, <1>2
<1> HIDE DEF p
<1>4. p \in 7 .. 12
  BY <1>1, <1>3
<1>5. ASSUME NEW s \in 7 .. 12, s < p PROVE table[s - 6] > level
  <2>1. s \notin F
    <3>1. CASE F = {}
      BY <3>1
    <3>2. CASE F # {}
      <4>1. \A t \in F : p <= t
        BY <1>3, <3>2
      <4> HIDE DEF F
      <4> QED BY <1>4, <1>5, <4>1
    <3> QED BY <3>1, <3>2
  <2>2. s - 6 \in 1 .. 6
    OBVIOUS
  <2>3. table[s - 6] \in -130 .. 0
    BY <2>2
  <2>4. ~(table[s - 6] <= level)
    BY <2>1
  <2> QED BY <2>3, <2>4
<1>6. p < 12 => table[p - 6] <= level
  BY <1>1, <1>3
<1> QED BY <1>4, <1>5, <1>6 DEF p

(* A turn of the dial, and where it leaves it.                                    *)
LEMMA TurnOfDial ==
  ASSUME ThresholdIInv, NEW level \in LrLevels, Dials(level)
  PROVE  /\ sfNow' \in 7 .. 12 /\ turned' = [at |-> level, up |-> sfNow' > sfNow, same |-> TRUE]
         /\ sfNow' > sfNow => level < sfT[sfNow - 6] - LrMargin /\ sfNow' > 7 /\ sfT[sfNow' - 7] > level
         /\ ~(sfNow' > sfNow) => sfNow > 7 /\ level > sfT[sfNow - 7] + LrMargin /\ sfT[sfNow' - 6] <= level
<1> DEFINE p == pick_sf(level, sfT)
<1>1. sfT \in [1 .. 6 -> -130 .. 0] /\ sfNow \in 7 .. 12 /\ level \in Int
  BY LrAssumption DEF ThresholdIInv, ThresholdTypes
<1>2. p \in 7 .. 12 /\ (\A s \in 7 .. 12 : s < p => sfT[s - 6] > level) /\ (p < 12 => sfT[p - 6] <= level)
  BY <1>1, PickedSf
<1>3. turned' = [at |-> level, up |-> sfNow' > sfNow, same |-> TRUE] /\ sfNow' # sfNow
      /\ sfNow' = (IF level < sfT[sfNow - 6] - LrMargin THEN Larger(p, sfNow)
                   ELSE IF sfNow > 7 /\ level > sfT[Larger(sfNow, 8) - 7] + LrMargin THEN Smaller(p, sfNow) ELSE sfNow)
  BY DEF Dials, Redialled, pick_sf_hysteretic
<1> HIDE DEF p
<1>4. CASE level < sfT[sfNow - 6] - LrMargin
  <2>1. sfNow' = p /\ sfNow' > sfNow
    BY <1>1, <1>2, <1>3, <1>4 DEF Larger
  <2>2. p - 1 \in 7 .. 12 /\ p - 1 < p /\ (p - 1) - 6 = p - 7
    BY <1>1, <1>2, <2>1
  <2>3. sfT[p - 7] > level
    BY <1>2, <2>2
  <2> QED BY <1>1, <1>2, <1>3, <1>4, <2>1, <2>3
<1>5. CASE ~(level < sfT[sfNow - 6] - LrMargin)
  <2>1. sfNow > 7 /\ level > sfT[Larger(sfNow, 8) - 7] + LrMargin /\ sfNow' = Smaller(p, sfNow)
    BY <1>3, <1>5
  <2>2. Larger(sfNow, 8) = sfNow
    BY <1>1, <2>1 DEF Larger
  <2>3. sfNow' = p /\ p < sfNow
    BY <1>1, <1>2, <1>3, <2>1 DEF Smaller
  <2>4. p < 12
    BY <1>1, <1>2, <2>3
  <2> QED BY <1>1, <1>2, <1>3, <2>1, <2>2, <2>3, <2>4
<1> QED BY <1>4, <1>5

LEMMA ThresholdsAtFirst == LrInit => ThresholdIInv
<1> SUFFICES ASSUME LrInit PROVE ThresholdIInv
  OBVIOUS
<1>1. mcsT = Needs /\ sfT = NeedsSf /\ sfNow \in 7 .. 12 /\ turned = [at |-> 0, up |-> TRUE, same |-> FALSE]
  BY DEF LrInit
<1>2. mcsT \in [1 .. 10 -> -110 .. 0] /\ \A i, j \in 1 .. 10 : i < j => mcsT[i] <= mcsT[j]
  BY <1>1 DEF Needs
<1>3. sfT \in [1 .. 6 -> -130 .. 0] /\ \A i, j \in 1 .. 6 : i < j => sfT[i] >= sfT[j]
  BY <1>1 DEF NeedsSf
<1>4. DOMAIN turned = {"at", "up", "same"} /\ turned.at \in Int /\ turned.same = FALSE
  BY <1>1
<1>5. ThresholdTypes /\ RungsStayOrdered
  BY <1>1, <1>2, <1>3, <1>4 DEF ThresholdTypes, RungsStayOrdered
<1>6. TurnedThere
  BY <1>4 DEF TurnedThere
<1> QED BY <1>5, <1>6 DEF ThresholdIInv

LEMMA ThresholdsAreKept == ThresholdIInv /\ [LrNext]_lrVars => ThresholdIInv'
<1> SUFFICES ASSUME ThresholdIInv, [LrNext]_lrVars PROVE ThresholdIInv'
  OBVIOUS
<1>1. CASE UNCHANGED lrVars
  BY <1>1 DEF lrVars, ThresholdIInv, ThresholdTypes, RungsStayOrdered, TurnedThere
<1>2. ASSUME NEW level \in LrLevels, Dials(level) PROVE ThresholdIInv'
  <2>1. mcsT' = mcsT /\ sfT' = sfT /\ level \in Int
    BY <1>2, LrAssumption DEF Dials
  <2>2. sfNow' \in 7 .. 12 /\ turned' = [at |-> level, up |-> sfNow' > sfNow, same |-> TRUE]
    BY <1>2, TurnOfDial
  <2>3. DOMAIN turned' = {"at", "up", "same"} /\ turned'.at = level /\ turned'.up = (sfNow' > sfNow) /\ turned'.same = TRUE
        /\ turned'.up \in BOOLEAN
    BY <2>2
  <2>4. ThresholdTypes'
    BY <2>1, <2>2, <2>3 DEF ThresholdIInv, ThresholdTypes
  <2>5. RungsStayOrdered'
    BY <2>1 DEF ThresholdIInv, RungsStayOrdered
  <2>6. TurnedThere'
    <3>1. CASE sfNow' > sfNow
      <4>1. sfNow' > 7 /\ sfT[sfNow' - 7] > level
        BY <1>2, <3>1, TurnOfDial
      <4>2. turned'.up = TRUE
        BY <2>3, <3>1
      <4> QED BY <2>1, <2>3, <4>1, <4>2 DEF TurnedThere
    <3>2. CASE ~(sfNow' > sfNow)
      <4>1. sfT[sfNow' - 6] <= level
        BY <1>2, <3>2, TurnOfDial
      <4>2. turned'.up = FALSE
        BY <2>3, <3>2, Zenon
      <4> QED BY <2>1, <2>3, <4>1, <4>2 DEF TurnedThere
    <3> QED BY <3>1, <3>2
  <2> QED BY <2>4, <2>5, <2>6 DEF ThresholdIInv
<1>3. ASSUME NEW level \in LrLevels, NEW delivered \in BOOLEAN, NEW m \in LrMcs, observe_mcs(m, level, delivered)
      PROVE  ThresholdIInv'
  <2>1. mcsT' \in [1 .. 10 -> -110 .. 0] /\ \A i, j \in 1 .. 10 : i < j => mcsT'[i] <= mcsT'[j]
    BY <1>3, SampledMcs
  <2>2. sfT' = sfT /\ sfNow' = sfNow /\ turned' = turned
    BY <1>3 DEF observe_mcs
  <2> QED BY <2>1, <2>2 DEF ThresholdIInv, ThresholdTypes, RungsStayOrdered, TurnedThere
<1>4. ASSUME NEW level \in LrLevels, NEW delivered \in BOOLEAN, NEW s \in LrSf, observe_sf(s, level, delivered)
      PROVE  ThresholdIInv'
  <2>1. sfT' \in [1 .. 6 -> -130 .. 0] /\ \A i, j \in 1 .. 6 : i < j => sfT'[i] >= sfT'[j]
    BY <1>4, SampledSf
  <2>2. mcsT' = mcsT /\ sfNow' = sfNow /\ turned' = [turned EXCEPT !.same = FALSE]
    BY <1>4 DEF observe_sf
  <2>3. DOMAIN turned' = {"at", "up", "same"} /\ turned'.at \in Int /\ turned'.same = FALSE /\ turned'.up \in BOOLEAN
    BY <2>2 DEF ThresholdIInv, ThresholdTypes
  <2>4. TurnedThere'
    BY <2>3 DEF TurnedThere
  <2> QED BY <2>1, <2>2, <2>3, <2>4 DEF ThresholdIInv, ThresholdTypes, RungsStayOrdered
<1> QED BY <1>1, <1>2, <1>3, <1>4 DEF LrNext

(* A delivery makes no level good for less, a failure none for more.               *)
LEMMA RightWay == ThresholdIInv /\ [LrNext]_lrVars =>
  [\A m \in LrMcs, level \in LrLevels, delivered \in BOOLEAN : observe_mcs(m, level, delivered) =>
       \A heard \in LrLevels :
         LET was == BestBelow(mcsT, heard, 9)   now == BestBelow(mcsT', heard, 9)
         IN IF delivered THEN now >= was ELSE now <= was]_lrVars
<1> SUFFICES ASSUME ThresholdIInv, NEW m \in LrMcs, NEW level \in LrLevels, NEW delivered \in BOOLEAN,
                    observe_mcs(m, level, delivered), NEW heard \in LrLevels
             PROVE  IF delivered THEN BestBelow(mcsT', heard, 9) >= BestBelow(mcsT, heard, 9)
                    ELSE BestBelow(mcsT', heard, 9) <= BestBelow(mcsT, heard, 9)
  OBVIOUS
<1> DEFINE u == mcsT'
<1> DEFINE t == mcsT
<1>1. u \in [1 .. 10 -> -110 .. 0] /\ t \in [1 .. 10 -> -110 .. 0]
      /\ \A i \in 1 .. 10 : IF delivered THEN u[i] <= t[i] ELSE t[i] <= u[i]
  <2>1. t \in [1 .. 10 -> -110 .. 0]
    BY DEF ThresholdIInv, ThresholdTypes
  <2>2. ASSUME NEW lv, observe_mcs(m, lv, delivered)
        PROVE  /\ mcsT' \in [1 .. 10 -> -110 .. 0]
               /\ \A i \in 1 .. 10 : IF delivered THEN mcsT'[i] <= mcsT[i] ELSE mcsT[i] <= mcsT'[i]
    BY <2>2, SampledMcs
  <2> QED BY <2>1, <2>2
<1>2. heard \in Int
  BY LrAssumption
<1> HIDE DEF u, t
<1>3. \A i \in 0 .. 9 : i + 1 \in 1 .. 10
  OBVIOUS
<1>4. \A i \in 0 .. 9 : u[i + 1] \in Int /\ t[i + 1] \in Int /\ (IF delivered THEN u[i + 1] <= t[i + 1] ELSE t[i + 1] <= u[i + 1])
  BY <1>1, <1>3
<1>5. CASE delivered
  <2>1. \A i \in 0 .. 9 : u[i + 1] \in Int /\ t[i + 1] \in Int /\ u[i + 1] <= t[i + 1]
    BY <1>4, <1>5
  <2>2. BestBelow(u, heard, 9) >= BestBelow(t, heard, 9)
    BY <1>2, <2>1, LowerIsFaster
  <2> QED BY <1>5, <2>2 DEF u, t
<1>6. CASE ~delivered
  <2>1. \A i \in 0 .. 9 : t[i + 1] \in Int /\ u[i + 1] \in Int /\ t[i + 1] <= u[i + 1]
    BY <1>4, <1>6
  <2>2. BestBelow(t, heard, 9) >= BestBelow(u, heard, 9)
    BY <1>2, <2>1, LowerIsFaster
  <2>3. BestBelow(t, heard, 9) \in 0 .. 9 /\ BestBelow(u, heard, 9) \in 0 .. 9
    BY BestBelowIs
  <2> QED BY <1>6, <2>2, <2>3 DEF u, t
<1> QED BY <1>5, <1>6

(* A turn back takes the level across a threshold and the margin.                 *)
LEMMA SwingBetweenTurns == ThresholdIInv /\ [LrNext]_lrVars =>
  [sfNow' # sfNow /\ turned.same /\ (sfNow' > sfNow) # turned.up =>
       IF turned.up THEN turned'.at > turned.at + LrMargin ELSE turned'.at < turned.at - LrMargin]_lrVars
<1> SUFFICES ASSUME ThresholdIInv, LrNext, sfNow' # sfNow, turned.same, (sfNow' > sfNow) # turned.up
             PROVE  IF turned.up THEN turned'.at > turned.at + LrMargin ELSE turned'.at < turned.at - LrMargin
  OBVIOUS
<1>1. PICK level \in LrLevels : Dials(level)
  BY DEF LrNext, observe_mcs, observe_sf
<1>2. turned' = [at |-> level, up |-> sfNow' > sfNow, same |-> TRUE]
  BY <1>1, TurnOfDial
<1>3. turned'.at = level /\ level \in Int /\ turned.at \in Int /\ LrMargin \in Nat
  BY <1>2, LrAssumption DEF ThresholdIInv, ThresholdTypes
<1>4. sfT \in [1 .. 6 -> -130 .. 0] /\ sfNow \in 7 .. 12
  BY DEF ThresholdIInv, ThresholdTypes
<1>5. CASE turned.up = TRUE
  <2>1. sfNow > 7 /\ sfT[sfNow - 7] > turned.at
    BY <1>5 DEF ThresholdIInv, TurnedThere
  <2>2. ~(sfNow' > sfNow)
    BY <1>5
  <2>3. level > sfT[sfNow - 7] + LrMargin
    BY <1>1, <2>2, TurnOfDial
  <2>4. sfT[sfNow - 7] \in Int
    <3>1. sfNow - 7 \in 1 .. 6
      BY <1>4, <2>1
    <3> QED BY <1>4, <3>1
  <2>5. turned'.at > turned.at + LrMargin
    BY <1>3, <2>1, <2>3, <2>4
  <2> QED BY <1>5, <2>5
<1>6. CASE turned.up = FALSE
  <2>1. sfT[sfNow - 6] <= turned.at
    BY <1>6 DEF ThresholdIInv, TurnedThere
  <2>2. sfNow' > sfNow
    <3> DEFINE b == sfNow' > sfNow
    <3>1. b \in BOOLEAN /\ b # turned.up
      OBVIOUS
    <3>2. b = TRUE => sfNow' > sfNow
      OBVIOUS
    <3> HIDE DEF b
    <3>3. b = TRUE
      BY <1>6, <3>1
    <3> QED BY <3>2, <3>3
  <2>3. level < sfT[sfNow - 6] - LrMargin
    BY <1>1, <2>2, TurnOfDial
  <2>4. sfT[sfNow - 6] \in Int
    <3>1. sfNow - 6 \in 1 .. 6
      BY <1>4
    <3> QED BY <1>4, <3>1
  <2>5. turned'.at < turned.at - LrMargin
    BY <1>3, <2>1, <2>3, <2>4
  <2> QED BY <1>6, <2>5
<1>7. turned.up \in BOOLEAN
  BY DEF ThresholdIInv, ThresholdTypes
<1> QED BY <1>5, <1>6, <1>7

(* ------------------------ the arms above a plan: RateLearning ---------------------- *)

ArmsIInv ==
  /\ AcTypeOK
  /\ acTick \in {"cleared", "picked"} => acNow.at \in AcAsked /\ acNow.base \in AcBase
  /\ acTick = "picked" => acArm.arm \in ARMS
  /\ DOMAIN acStats = AcKeys /\ \A k \in AcKeys : DOMAIN acStats[k] = ARMS /\ \A a \in ARMS : acStats[k][a].n \in Nat

(* An arm that is picked is one of the arms, and one not tried while there is one. *)
LEMMA PickedArm ==
  ASSUME NEW st, NEW a \in select(st)
  PROVE  a \in ARMS /\ (Untried(st) # {} => a \in Untried(st))
<1> DEFINE First(b) == \A c \in Untried(st) : b <= c
<1>1. select(st) = IF Untried(st) # {} THEN {CHOOSE b \in Untried(st) : First(b)} ELSE {b \in ARMS : ~Outscored(st, b)}
  BY DEF select
<1>2. CASE Untried(st) # {}
  <2>1. Untried(st) \in SUBSET Nat /\ Untried(st) \subseteq ARMS
    BY DEF Untried, ARMS
  <2>2. \E b \in Untried(st) : First(b)
    BY <1>2, <2>1, LeastExists
  <2> HIDE DEF First
  <2>3. a \in Untried(st)
    BY <1>1, <1>2, <2>2
  <2> QED BY <2>1, <2>3
<1>3. CASE Untried(st) = {}
  BY <1>1, <1>3
<1> QED BY <1>2, <1>3

(* The plan an arm makes is within the radio's rates and powers.                    *)
LEMMA ArmWithinRadio ==
  ASSUME NEW a \in ARMS, NEW p \in AcBase
  PROVE  LET q == apply_arm(a, p) IN
         /\ q.mcs \in 0 .. AcPart.maxMcs
         /\ q.power \in AcPart.floor .. AcPart.maxPower \cup {AcNone}
         /\ AcPart.step = AcNone => q.power = p.power
<1> DEFINE m == Clamped(p.mcs + McsDelta[a], 0, AcPart.maxMcs)
<1> DEFINE w == IF Backoff[a] = 0 \/ AcPart.step = AcNone THEN p.power
                ELSE Clamped((IF p.power = AcNone THEN AcPart.maxPower ELSE p.power) - Steps(Backoff[a], AcPart.step),
                             AcPart.floor, AcPart.maxPower)
<1> DEFINE e == p.fec + FecDelta[a]
<1>1. apply_arm(a, p) = [p EXCEPT !.mcs = m, !.power = w, !.fec = e]
  BY DEF apply_arm
<1>2. {"mcs", "power", "fec"} \subseteq DOMAIN p /\ p.mcs \in 0 .. AcPart.maxMcs
      /\ p.power \in AcPart.floor .. AcPart.maxPower \cup {AcNone}
  BY AcAssumption
<1>3. m \in 0 .. AcPart.maxMcs
  <2>1. McsDelta[a] \in {-1, 0, 1}
    BY DEF McsDelta, ARMS
  <2> DEFINE x == p.mcs + McsDelta[a]
  <2>2. x \in Int
    BY <1>2, <2>1, AcAssumption
  <2> HIDE DEF x
  <2>3. Clamped(x, 0, AcPart.maxMcs) \in 0 .. AcPart.maxMcs
    BY <2>2, AcAssumption DEF Clamped
  <2> QED BY <2>3 DEF x
<1>4. w \in AcPart.floor .. AcPart.maxPower \cup {AcNone} /\ (AcPart.step = AcNone => w = p.power)
  <2>1. CASE Backoff[a] = 0 \/ AcPart.step = AcNone
    BY <1>2, <2>1
  <2>2. CASE ~(Backoff[a] = 0 \/ AcPart.step = AcNone)
    <3> DEFINE s == Steps(Backoff[a], AcPart.step)
    <3> DEFINE o == IF p.power = AcNone THEN AcPart.maxPower ELSE p.power
    <3>1. s \in Int
      <4> DEFINE d == AcPart.step
      <4> DEFINE b == Backoff[a]
      <4>1. b \in Nat /\ d \in Nat \ {0}
        BY <2>2, AcAssumption DEF Backoff, ARMS
      <4> HIDE DEF d, b
      <4> DEFINE n == 8 * b + d
      <4> DEFINE k == 2 * d
      <4>2. n \in Nat /\ k \in Nat \ {0}
        BY <4>1
      <4> HIDE DEF n, k
      <4>3. n \div k \in Int
        BY <4>2
      <4>4. Steps(b, d) \in Int
        BY <4>3 DEF Steps, n, k
      <4> QED BY <4>4 DEF b, d
    <3>2. o \in Int
      BY <1>2, AcAssumption
    <3>3. w = Clamped(o - s, AcPart.floor, AcPart.maxPower)
      BY <2>2
    <3> HIDE DEF o, s, w
    <3>4. o - s \in Int
      BY <3>1, <3>2
    <3> DEFINE y == o - s
    <3> HIDE DEF y
    <3>5. Clamped(y, AcPart.floor, AcPart.maxPower) \in AcPart.floor .. AcPart.maxPower
      <4>1. y \in Int
        BY <3>4 DEF y
      <4> QED BY <4>1, AcAssumption DEF Clamped
    <3>6. w \in AcPart.floor .. AcPart.maxPower
      BY <3>3, <3>5 DEF y
    <3> QED BY <2>2, <3>6
  <2> QED BY <2>1, <2>2
<1> HIDE DEF m, w, e
<1>5. apply_arm(a, p).mcs = m /\ apply_arm(a, p).power = w
  BY <1>1, <1>2
<1> QED BY <1>3, <1>4, <1>5

LEMMA ArmsAtFirst == AcInit => ArmsIInv
<1> SUFFICES ASSUME AcInit PROVE ArmsIInv
  OBVIOUS
<1>1. acTick = "idle" /\ acTx = AcNone /\ acPulls = 0
      /\ acStats = [k \in AcKeys |-> [a \in ARMS |-> [n |-> 0, sum |-> 0]]]
  BY DEF AcInit
<1>2. AcTypeOK
  BY <1>1, AcAssumption DEF AcTypeOK
<1>3. DOMAIN acStats = AcKeys /\ \A k \in AcKeys : DOMAIN acStats[k] = ARMS /\ \A a \in ARMS : acStats[k][a].n \in Nat
  <2>1. \A k \in AcKeys : acStats[k] = [a \in ARMS |-> [n |-> 0, sum |-> 0]]
    BY <1>1
  <2>2. DOMAIN acStats = AcKeys
    BY <1>1
  <2> QED BY <2>1, <2>2
<1> QED BY <1>1, <1>2, <1>3 DEF ArmsIInv

(* What is applied: by an arm, or by another name's plan.                            *)
Inside(q) == /\ q.mcs \in 0 .. AcPart.maxMcs /\ q.power \in AcPart.floor .. AcPart.maxPower \cup {AcNone}
             /\ AcPart.step = AcNone => \E p \in AcBase : q.power = p.power

LEMMA ArmsAreKept == ArmsIInv /\ [AcNext]_acVars => ArmsIInv'
<1> SUFFICES ASSUME ArmsIInv, [AcNext]_acVars PROVE ArmsIInv'
  OBVIOUS
<1>1. CASE UNCHANGED acVars
  BY <1>1 DEF acVars, ArmsIInv, AcTypeOK
<1>2. CASE ClearArms
  <2>1. acTick' = "cleared" /\ acNow'.at \in AcAsked /\ acNow'.base \in AcBase
    BY <1>2 DEF ClearArms
  <2>2. acStats' = acStats /\ acTx' = acTx /\ acPulls' = acPulls
    BY <1>2 DEF ClearArms
  <2> QED BY <2>1, <2>2 DEF ArmsIInv, AcTypeOK
<1>3. CASE Refine
  <2>1. PICK a \in select(acStats[key(acNow.at)]) : acArm' = [at |-> acNow.at, arm |-> a]
    BY <1>3 DEF Refine
  <2>2. a \in ARMS
    BY <2>1, PickedArm
  <2>3. acTick = "cleared" /\ acTick' = "picked" /\ acNow' = acNow /\ acStats' = acStats /\ acTx' = acTx /\ acPulls' = acPulls
    BY <1>3 DEF Refine
  <2>4. acArm'.arm \in ARMS
    BY <2>1, <2>2
  <2> QED BY <2>3, <2>4 DEF ArmsIInv, AcTypeOK
<1>4. CASE Actuate
  <2>1. acTick = "picked" /\ acTx' = apply_arm(acArm.arm, acNow.base) /\ acTick' = "idle"
        /\ acStats' = acStats /\ acPulls' = acPulls
    BY <1>4 DEF Actuate
  <2>2. acArm.arm \in ARMS /\ acNow.base \in AcBase
    BY <2>1 DEF ArmsIInv
  <2>3. Inside(acTx')
    BY <2>1, <2>2, ArmWithinRadio DEF Inside
  <2> QED BY <2>1, <2>3 DEF ArmsIInv, AcTypeOK, Inside
<1>5. CASE ActuateOver
  <2>1. acTx' \in AcBase /\ acTick' = "idle" /\ acStats' = acStats /\ acPulls' = acPulls
    BY <1>5 DEF ActuateOver
  <2>2. Inside(acTx')
    BY <2>1, AcAssumption DEF Inside
  <2> QED BY <2>1, <2>2 DEF ArmsIInv, AcTypeOK, Inside
<1>6. CASE Snapshot
  <2>1. acPulls < AcMaxPulls /\ acPulls' = acPulls + 1 /\ acStats' = acStats /\ acArm' = acArm /\ acTx' = acTx
        /\ acTick' = acTick /\ acNow' = acNow
    BY <1>6 DEF Snapshot
  <2>2. acPulls' \in 0 .. AcMaxPulls
    BY <2>1, AcAssumption DEF ArmsIInv, AcTypeOK
  <2> QED BY <2>1, <2>2 DEF ArmsIInv, AcTypeOK
<1>7. CASE Credit
  <2>1. acArm' = acArm /\ acTx' = acTx /\ acTick' = acTick /\ acNow' = acNow /\ acPulls' = acPulls
    BY <1>7 DEF Credit
  <2> DEFINE K == key(acArm.at)
  <2> DEFINE A == acArm.arm
  <2> DEFINE r == reward(acRecord.ok, acRecord.tx)
  <2>2. acStats' = IF acArm = AcNone THEN acStats
                   ELSE [acStats EXCEPT ![K][A] = [n |-> @.n + 1, sum |-> @.sum + r]]
    BY <1>7 DEF Credit
  <2> HIDE DEF K, A, r
  <2>3. DOMAIN acStats = AcKeys /\ \A k \in AcKeys : DOMAIN acStats[k] = ARMS /\ \A a \in ARMS : acStats[k][a].n \in Nat
    BY DEF ArmsIInv
  <2>4. DOMAIN acStats' = AcKeys
    BY <2>2, <2>3
  <2>5. ASSUME NEW k \in AcKeys PROVE DOMAIN acStats'[k] = ARMS /\ \A a \in ARMS : acStats'[k][a].n \in Nat
    <3>1. CASE acArm = AcNone \/ k # K
      <4>1. acStats'[k] = acStats[k]
        BY <2>2, <2>3, <3>1
      <4> QED BY <2>3, <4>1
    <3>2. CASE acArm # AcNone /\ k = K
      <4> DEFINE n == acStats[K][A].n + 1
      <4> DEFINE c == acStats[K][A].sum + r
      <4>1. acStats'[k] = [acStats[K] EXCEPT ![A] = [n |-> n, sum |-> c]]
        BY <2>2, <2>3, <3>2
      <4>2. DOMAIN acStats'[k] = ARMS
        BY <2>3, <3>2, <4>1
      <4>3. ASSUME NEW a \in ARMS PROVE acStats'[k][a].n \in Nat
        <5>1. CASE a = A
          <6>1. acStats'[k][a] = [n |-> n, sum |-> c]
            BY <2>3, <3>2, <4>1, <5>1
          <6>2. n \in Nat
            BY <2>3, <3>2, <5>1
          <6> QED BY <6>1, <6>2
        <5>2. CASE a # A
          <6>1. acStats'[k][a] = acStats[K][a]
            BY <2>3, <3>2, <4>1, <5>2
          <6> QED BY <2>3, <3>2, <6>1
        <5> QED BY <5>1, <5>2
      <4> QED BY <4>2, <4>3
    <3> QED BY <3>1, <3>2
  <2>6. AcTypeOK'
    BY <2>1 DEF ArmsIInv, AcTypeOK
  <2> QED BY <2>1, <2>4, <2>5, <2>6 DEF ArmsIInv
<1> QED BY <1>1, <1>2, <1>3, <1>4, <1>5, <1>6, <1>7 DEF AcNext

LEMMA ArmsInTurn == ArmsIInv /\ [AcNext]_acVars =>
  [acTick = "cleared" /\ acTick' = "picked" =>
       LET n == [a \in ARMS |-> acStats[key(acNow.at)][a].n]
       IN n[acArm'.arm] > 0 => \A a \in ARMS : n[a] > 0]_acVars
<1> DEFINE st == acStats[key(acNow.at)]
<1> DEFINE n == [a \in ARMS |-> st[a].n]
<1> SUFFICES ASSUME ArmsIInv, AcNext, acTick = "cleared", acTick' = "picked", n[acArm'.arm] > 0, NEW a \in ARMS
             PROVE  n[a] > 0
  OBVIOUS
<1>1. Refine
  BY DEF AcNext, ClearArms, Actuate, ActuateOver, Snapshot, Credit
<1>2. PICK b \in select(st) : acArm' = [at |-> acNow.at, arm |-> b]
  BY <1>1 DEF Refine
<1>3. key(acNow.at) \in AcKeys
  BY DEF ArmsIInv, AcKeys
<1>4. \A c \in ARMS : st[c].n \in Nat
  BY <1>3 DEF ArmsIInv
<1>5. b \in ARMS /\ (Untried(st) # {} => b \in Untried(st))
  BY <1>2, PickedArm
<1>6. acArm'.arm = b
  BY <1>2
<1> HIDE DEF st
<1>7. st[b].n > 0
  BY <1>5, <1>6
<1>8. Untried(st) = {}
  BY <1>4, <1>5, <1>7 DEF Untried
<1>9. st[a].n # 0
  BY <1>8 DEF Untried
<1>10. st[a].n > 0
  BY <1>4, <1>9
<1> QED BY <1>10

(* A key is a number for each combination of bins, and another for each other.       *)
LEMMA KeysNeverMeet == KeyCount = BinCount
<1> DEFINE K == {key(s) : s \in AcSituation}
<1> DEFINE B == {Bins(s) : s \in AcSituation}
<1> DEFINE num(b) == b.rssi + 16 * b.busy + 64 * b.recv + 256 * b.class
<1> DEFINE f == [b \in B |-> num(b)]
<1> DEFINE Digits == [rssi : 0 .. 15, busy : 0 .. 3, recv : 0 .. 2, class : 0 .. 2]
<1>1. ASSUME NEW s \in AcSituation PROVE Bins(s) \in Digits
  <2>1. s.rssi \in Int /\ s.busy \in Nat /\ s.recv \in Nat /\ s.class \in Nat
    BY AcAssumption
  <2> DEFINE r == Clamped(s.rssi + 95, 0, 75) \div 5
  <2> DEFINE u == IF s.busy \div 25 > 3 THEN 3 ELSE s.busy \div 25
  <2> DEFINE v == IF s.recv <= 1 THEN 0 ELSE IF s.recv <= 3 THEN 1 ELSE 2
  <2> DEFINE w == IF s.class > 2 THEN 2 ELSE s.class
  <2>2. r \in 0 .. 15
    <3> DEFINE x == s.rssi + 95
    <3>1. x \in Int
      BY <2>1
    <3> HIDE DEF x
    <3>2. Clamped(x, 0, 75) \in 0 .. 75
      BY <3>1 DEF Clamped
    <3> DEFINE y == Clamped(x, 0, 75)
    <3> HIDE DEF y
    <3>3. y \div 5 \in 0 .. 15
      BY <3>2 DEF y
    <3> QED BY <3>3 DEF x, y
  <2>3. u \in 0 .. 3
    BY <2>1
  <2>4. v \in 0 .. 2 /\ w \in 0 .. 2
    BY <2>1
  <2>5. Bins(s) = [rssi |-> r, busy |-> u, recv |-> v, class |-> w]
    BY DEF Bins
  <2> HIDE DEF r, u, v, w
  <2> QED BY <2>2, <2>3, <2>4, <2>5
<1>2. B \subseteq Digits
  BY <1>1
<1>3. \A s \in AcSituation : key(s) = num(Bins(s))
  BY DEF key
<1>4. \A b \in Digits : num(b) \in 0 .. 1023
  OBVIOUS
<1>5. f \in [B -> K]
  BY <1>3
<1>6. f \in Surjection(B, K)
  BY <1>3, <1>5 DEF Surjection
<1>7. \A a, b \in Digits : num(a) = num(b) => a = b
  <2> SUFFICES ASSUME NEW a \in Digits, NEW b \in Digits, num(a) = num(b) PROVE a = b
    OBVIOUS
  <2>1. a.rssi = b.rssi /\ a.busy = b.busy /\ a.recv = b.recv /\ a.class = b.class
    <3> DEFINE a1 == a.rssi
    <3> DEFINE a2 == a.busy
    <3> DEFINE a3 == a.recv
    <3> DEFINE a4 == a.class
    <3> DEFINE b1 == b.rssi
    <3> DEFINE b2 == b.busy
    <3> DEFINE b3 == b.recv
    <3> DEFINE b4 == b.class
    <3>1. a1 \in 0 .. 15 /\ a2 \in 0 .. 3 /\ a3 \in 0 .. 2 /\ a4 \in Nat
      OBVIOUS
    <3>2. b1 \in 0 .. 15 /\ b2 \in 0 .. 3 /\ b3 \in 0 .. 2 /\ b4 \in Nat
      OBVIOUS
    <3>3. a1 + 16 * a2 + 64 * a3 + 256 * a4 = b1 + 16 * b2 + 64 * b3 + 256 * b4
      OBVIOUS
    <3> HIDE DEF a1, a2, a3, a4, b1, b2, b3, b4
    <3>4. a4 = b4
      BY <3>1, <3>2, <3>3
    <3>5. a3 = b3
      BY <3>1, <3>2, <3>3, <3>4
    <3>6. a2 = b2
      BY <3>1, <3>2, <3>3, <3>4, <3>5
    <3>7. a1 = b1
      BY <3>3, <3>4, <3>5, <3>6, <3>1, <3>2
    <3> QED BY <3>4, <3>5, <3>6, <3>7 DEF a1, a2, a3, a4, b1, b2, b3, b4
  <2> QED BY <2>1
<1>8. IsInjective(f)
  <2> SUFFICES ASSUME NEW a \in B, NEW b \in B, f[a] = f[b] PROVE a = b
    BY DEF IsInjective
  <2>1. num(a) = num(b)
    OBVIOUS
  <2> HIDE DEF B, f, num, Digits
  <2> QED BY <1>2, <1>7, <2>1
<1> HIDE DEF B, K, f
<1>9. f \in Bijection(B, K)
  BY <1>6, <1>8 DEF Bijection, Injection, Surjection
<1>10. IsFiniteSet(K)
  <2> DEFINE top == 1023
  <2>1. K \in SUBSET (0 .. top)
    <3>1. \A s \in AcSituation : key(s) \in 0 .. 1023
      BY <1>1, <1>3, <1>4
    <3> QED BY <3>1 DEF K
  <2>2. IsFiniteSet(0 .. top)
    <3>1. top \in Int /\ 0 \in Int
      OBVIOUS
    <3> HIDE DEF top
    <3> QED BY <3>1, FS_Interval
  <2> HIDE DEF top
  <2> QED BY <2>1, <2>2, FS_Subset
<1>11. IsFiniteSet(B)
  <2>1. f \in Injection(B, K)
    BY <1>9 DEF Bijection
  <2> QED BY <1>10, <2>1, FS_Injection
<1>12. Cardinality(K) = Cardinality(B)
  <2>1. ExistsBijection(B, K)
    BY <1>9 DEF ExistsBijection
  <2> QED BY <1>11, <2>1, FS_Bijection
<1> QED BY <1>12 DEF KeyCount, BinCount, K, B

(* What is learned of rates moves with the outcomes, keeps its order and keeps its    *)
(* situations apart (calibrate.rs, contextual.rs).                                     *)
THEOREM LearningDoesNotMislead == LrSpec /\ AcSpec => LearningIsSound
<1>1. LrSpec => []ThresholdIInv
  BY ThresholdsAtFirst, ThresholdsAreKept, PTL DEF LrSpec
<1>2. AcSpec => []ArmsIInv
  BY ArmsAtFirst, ArmsAreKept, PTL DEF AcSpec
<1>3. ThresholdIInv => RungsStayOrdered
  BY DEF ThresholdIInv
<1>4. ArmsIInv => AcTypeOK
  BY DEF ArmsIInv
<1>5. KeysAreApart
  BY KeysNeverMeet DEF KeysAreApart
<1>6. LrSpec => OutcomesTurnTheRightWay
  BY <1>1, RightWay, PTL DEF LrSpec, OutcomesTurnTheRightWay
<1>7. LrSpec => TurnsNeedASwing
  BY <1>1, SwingBetweenTurns, PTL DEF LrSpec, TurnsNeedASwing
<1>8. AcSpec => TriedBeforeRepeated
  BY <1>2, ArmsInTurn, PTL DEF AcSpec, TriedBeforeRepeated
<1> QED BY <1>1, <1>2, <1>3, <1>4, <1>5, <1>6, <1>7, <1>8, PTL DEF LearningIsSound

(* ----------------------- the policies: PolicyTable ----------------------- *)

(* What a loop does at each of n turns with a value of S, and the values it has *)
(* after each.                                                                  *)
StepsOf(S, n) == [1 .. n -> [S -> S]]
Results(S, n, e, does, f) ==
  f \in [0 .. n -> S] /\ f[0] = e /\ \A i \in 1 .. n : f[i] = does[i][f[i - 1]]

(* A step taken for each number up to n, from a value of S to one of S, can be  *)
(* taken one after another: there is a function that is the results.            *)
LEMMA OneAfterAnother ==
  ASSUME NEW S, NEW n \in Nat, NEW e \in S, NEW does \in StepsOf(S, n)
  PROVE  \E f : Results(S, n, e, does, f)
<1> USE DEF StepsOf
<1> DEFINE Goes(m, f) == f[0] = e /\ \A i \in 1 .. m : f[i] = does[i][f[i - 1]]
<1> DEFINE G == {m \in Nat : m <= n => \E f \in [0 .. m -> S] : Goes(m, f)}
<1>1. 0 \in G
  <2> DEFINE f == [i \in 0 .. 0 |-> e]
  <2>1. f \in [0 .. 0 -> S] /\ Goes(0, f)
    OBVIOUS
  <2> QED BY <2>1
<1>2. ASSUME NEW m \in Nat, m \in G PROVE m + 1 \in G
  <2> SUFFICES ASSUME m + 1 <= n PROVE \E f \in [0 .. m + 1 -> S] : Goes(m + 1, f)
    OBVIOUS
  <2>1. PICK f \in [0 .. m -> S] : Goes(m, f)
    BY <1>2
  <2> DEFINE x == does[m + 1][f[m]]
  <2>2. x \in S
    <3>1. f[m] \in S /\ m + 1 \in 1 .. n
      BY <2>1
    <3> QED BY <3>1
  <2> HIDE DEF x
  <2> DEFINE g == [i \in 0 .. m + 1 |-> IF i = m + 1 THEN x ELSE f[i]]
  <2>3. g \in [0 .. m + 1 -> S]
    BY <2>1, <2>2
  <2>4. g[0] = e
    BY <2>1
  <2>5. ASSUME NEW i \in 1 .. m + 1 PROVE g[i] = does[i][g[i - 1]]
    <3>1. CASE i = m + 1
      <4>1. g[i] = x /\ g[i - 1] = f[m]
        BY <3>1
      <4> QED BY <3>1, <4>1 DEF x
    <3>2. CASE i \in 1 .. m
      <4>1. g[i] = f[i] /\ g[i - 1] = f[i - 1]
        BY <3>2
      <4> QED BY <3>2, <4>1, <2>1
    <3> QED BY <3>1, <3>2
  <2> HIDE DEF g
  <2> QED BY <2>3, <2>4, <2>5
<1> HIDE DEF G
<1>3. n \in G
  BY <1>1, <1>2, FromNought
<1> QED BY <1>3 DEF G, Results

Parameters == [k : Nat, n : Nat]
TableEntry == [name : PtNames, policy : {p \in Parameters : Systematic8(p)}]

(* A list of entries is what was last set of each name. *)
ListHolds(es, was) ==
  /\ es \in Seq(TableEntry)
  /\ \A i, j \in DOMAIN es : es[i].name = es[j].name => i = j
  /\ \A i \in DOMAIN es : was[es[i].name] = es[i].policy
  /\ \A name \in PtNames : was[name] # PtNone => \E i \in DOMAIN es : es[i].name = name

(* An entry for each that is not of the prefix, in the order of the list. *)
LEMMA RemovedIs ==
  ASSUME NEW S, NEW es \in Seq(S), NEW prefix
  PROVE  \E kept \in [0 .. Len(es) -> Seq(S)] :
           /\ kept[0] = <<>> /\ Removed(es, prefix) = kept[Len(es)]
           /\ \A i \in 1 .. Len(es) :
                kept[i] = IF es[i].name = prefix THEN kept[i - 1] ELSE Append(kept[i - 1], es[i])
<1> DEFINE n == Len(es)
           Next1(i, s) == IF es[i].name = prefix THEN s ELSE Append(s, es[i])
           does == [i \in 1 .. n |-> [s \in Seq(S) |-> Next1(i, s)]]
           Body(f) == [i \in 0 .. n |-> IF i = 0 THEN <<>> ELSE IF es[i].name = prefix THEN f[i - 1] ELSE Append(f[i - 1], es[i])]
<1>1. n \in Nat /\ <<>> \in Seq(S)
  OBVIOUS
<1>2. does \in [1 .. n -> [Seq(S) -> Seq(S)]]
  OBVIOUS
<1>3. PICK f \in [0 .. n -> Seq(S)] : f[0] = <<>> /\ \A i \in 1 .. n : f[i] = does[i][f[i - 1]]
  <2>1. does \in StepsOf(Seq(S), n)
    BY <1>2 DEF StepsOf
  <2> HIDE DEF does, n
  <2>2. \E f : Results(Seq(S), n, <<>>, does, f)
    BY <1>1, <2>1, OneAfterAnother
  <2> QED BY <2>2 DEF Results
<1>4. f = Body(f)
  <2>1. ASSUME NEW i \in 0 .. n PROVE f[i] = Body(f)[i]
    <3>1. CASE i = 0
      BY <3>1, <1>3
    <3>2. CASE i # 0
      <4>1. i \in 1 .. n /\ f[i - 1] \in Seq(S)
        BY <3>2
      <4> QED BY <4>1, <1>3
    <3> QED BY <3>1, <3>2
  <2>2. Body(f) = [i \in 0 .. n |-> Body(f)[i]] /\ f = [i \in 0 .. n |-> f[i]]
    OBVIOUS
  <2> HIDE DEF n, Body
  <2> QED BY <2>1, <2>2
<1> DEFINE kept == CHOOSE g : g = Body(g)
<1>5. kept = Body(kept)
  <2> HIDE DEF Body
  <2> QED BY <1>4
<1>6. Removed(es, prefix) = kept[n]
  BY DEF Removed
<1> HIDE DEF kept
<1>7. \A i \in 1 .. n : kept[i] = IF es[i].name = prefix THEN kept[i - 1] ELSE Append(kept[i - 1], es[i])
  <2> SUFFICES ASSUME NEW i \in 1 .. n PROVE kept[i] = IF es[i].name = prefix THEN kept[i - 1] ELSE Append(kept[i - 1], es[i])
    OBVIOUS
  <2>1. i \in 0 .. n /\ i # 0
    OBVIOUS
  <2>2. kept[i] = Body(kept)[i]
    BY <1>5
  <2> QED BY <2>1, <2>2
<1>8. kept[0] = <<>>
  <2>1. 0 \in 0 .. n
    BY <1>1
  <2>2. kept[0] = Body(kept)[0]
    BY <1>5
  <2> QED BY <2>1, <2>2
<1>9. \A i \in 0 .. n : kept[i] \in Seq(S)
  <2> DEFINE G == {i \in Nat : i <= n => kept[i] \in Seq(S)}
  <2>1. 0 \in G
    BY <1>1, <1>8
  <2>2. ASSUME NEW i \in Nat, i \in G PROVE i + 1 \in G
    <3> SUFFICES ASSUME i + 1 <= n PROVE kept[i + 1] \in Seq(S)
      OBVIOUS
    <3>1. kept[i] \in Seq(S) /\ i + 1 \in 1 .. n /\ (i + 1) - 1 = i /\ es[i + 1] \in S
      BY <1>1, <2>2
    <3>2. kept[i + 1] = IF es[i + 1].name = prefix THEN kept[i] ELSE Append(kept[i], es[i + 1])
      BY <3>1, <1>7
    <3> QED BY <3>1, <3>2
  <2> HIDE DEF G
  <2>3. \A i \in Nat : i \in G
    BY <2>1, <2>2, FromNought
  <2> QED BY <2>3, <1>1 DEF G
<1>10. kept = [i \in 0 .. n |-> kept[i]]
  <2> DEFINE h == Body(kept)
  <2>1. h = [i \in 0 .. n |-> h[i]]
    OBVIOUS
  <2> HIDE DEF h
  <2> QED BY <2>1, <1>5 DEF h
<1>11. kept \in [0 .. n -> Seq(S)]
  <2> HIDE DEF n
  <2> QED BY <1>9, <1>10
<1> HIDE DEF n
<1>12. /\ kept[0] = <<>> /\ Removed(es, prefix) = kept[n]
       /\ \A i \in 1 .. n : kept[i] = IF es[i].name = prefix THEN kept[i - 1] ELSE Append(kept[i - 1], es[i])
  BY <1>6, <1>7, <1>8
<1> QED BY <1>11, <1>12 DEF n

(* An entry set: in its place if its prefix is listed, else at the end.          *)
LEMMA InsertedHolds ==
  ASSUME NEW es, NEW was \in [PtNames -> Parameters \cup {PtNone}], ListHolds(es, was),
         NEW prefix \in PtNames, NEW p \in Parameters, Systematic8(p)
  PROVE  ListHolds(Inserted(es, prefix, p), [was EXCEPT ![prefix] = p])
<1> DEFINE new == Inserted(es, prefix, p)
           now == [was EXCEPT ![prefix] = p]
<1>1. es \in Seq(TableEntry) /\ (\A i, j \in DOMAIN es : es[i].name = es[j].name => i = j)
      /\ (\A i \in DOMAIN es : was[es[i].name] = es[i].policy)
      /\ (\A name \in PtNames : was[name] # PtNone => \E i \in DOMAIN es : es[i].name = name)
  BY DEF ListHolds
<1>2. \A i \in DOMAIN es : es[i] \in TableEntry /\ es[i].name \in PtNames /\ es[i].policy \in Parameters
  <2>1. \A i \in DOMAIN es : es[i] \in TableEntry
    BY <1>1
  <2>2. \A e \in TableEntry : e.name \in PtNames /\ e.policy \in Parameters
    BY DEF TableEntry
  <2> QED BY <2>1, <2>2
<1>3. \A name \in PtNames : now[name] = IF name = prefix THEN p ELSE was[name]
  OBVIOUS
<1>4. CASE \E i \in DOMAIN es : es[i].name = prefix
  <2>1. new = [i \in DOMAIN es |-> IF es[i].name = prefix THEN [es[i] EXCEPT !.policy = p] ELSE es[i]]
    BY <1>4 DEF Inserted
  <2>2. \A i \in DOMAIN es : /\ new[i].name = es[i].name /\ new[i] \in TableEntry
                               /\ new[i].policy = IF es[i].name = prefix THEN p ELSE es[i].policy
    <3>1. \A e \in TableEntry : LET f == [e EXCEPT !.policy = p] IN
            f \in TableEntry /\ f.name = e.name /\ f.policy = p
      BY DEF TableEntry
    <3> QED BY <1>2, <2>1, <3>1
  <2>3. DOMAIN new = DOMAIN es /\ new \in Seq(TableEntry)
    <3>1. DOMAIN es = 1 .. Len(es) /\ Len(es) \in Nat
      BY <1>1
    <3>2. DOMAIN new = DOMAIN es
      BY <2>1
    <3>3. new \in [1 .. Len(es) -> TableEntry]
      BY <2>1, <2>2, <3>1, <3>2
    <3> QED BY <3>1, <3>2, <3>3
  <2> HIDE DEF new, now
  <2>4. \A i, j \in DOMAIN new : new[i].name = new[j].name => i = j
    BY <1>1, <2>2, <2>3
  <2>5. \A i \in DOMAIN new : now[new[i].name] = new[i].policy
    BY <1>1, <1>2, <1>3, <2>2, <2>3
  <2>6. \A name \in PtNames : now[name] # PtNone => \E i \in DOMAIN new : new[i].name = name
    <3> SUFFICES ASSUME NEW name \in PtNames, now[name] # PtNone PROVE \E i \in DOMAIN es : es[i].name = name
      BY <2>2, <2>3
    <3>1. CASE name = prefix
      BY <3>1, <1>4
    <3>2. CASE name # prefix
      BY <3>2, <1>1, <1>3
    <3> QED BY <3>1, <3>2
  <2> QED BY <2>3, <2>4, <2>5, <2>6 DEF ListHolds, new, now
<1>5. CASE ~\E i \in DOMAIN es : es[i].name = prefix
  <2> DEFINE e == [name |-> prefix, policy |-> p]
  <2>1. new = Append(es, e) /\ e \in TableEntry /\ e.name = prefix /\ e.policy = p
    BY <1>5 DEF Inserted, TableEntry
  <2> HIDE DEF new, now, e
  <2>2. /\ new \in Seq(TableEntry) /\ DOMAIN es = 1 .. Len(es) /\ DOMAIN new = 1 .. Len(es) + 1
        /\ Len(es) \in Nat /\ new[Len(es) + 1] = e /\ \A i \in 1 .. Len(es) : new[i] = es[i]
    BY <1>1, <2>1
  <2>3. \A i \in DOMAIN new : i \in DOMAIN es \/ i = Len(es) + 1
    BY <2>2
  <2>4. \A i, j \in DOMAIN new : new[i].name = new[j].name => i = j
    BY <1>1, <1>5, <2>1, <2>2, <2>3
  <2>5. \A i \in DOMAIN new : now[new[i].name] = new[i].policy
    BY <1>1, <1>2, <1>3, <1>5, <2>1, <2>2, <2>3
  <2>6. ASSUME NEW name \in PtNames, now[name] # PtNone PROVE \E i \in DOMAIN new : new[i].name = name
    <3>1. CASE name = prefix
      BY <3>1, <2>1, <2>2
    <3>2. CASE name # prefix
      <4>1. PICK i \in DOMAIN es : es[i].name = name
        BY <3>2, <2>6, <1>1, <1>3
      <4> QED BY <4>1, <2>2
    <3> QED BY <3>1, <3>2
  <2> QED BY <2>2, <2>4, <2>5, <2>6 DEF ListHolds, new, now
<1> QED BY <1>4, <1>5

(* An entry unset: the others are retained, each once.                           *)
LEMMA RemovedHolds ==
  ASSUME NEW es, NEW was \in [PtNames -> Parameters \cup {PtNone}], ListHolds(es, was), NEW prefix \in PtNames
  PROVE  ListHolds(Removed(es, prefix), [was EXCEPT ![prefix] = PtNone])
<1> DEFINE n == Len(es)
           now == [was EXCEPT ![prefix] = PtNone]
<1>1. es \in Seq(TableEntry) /\ (\A i, j \in DOMAIN es : es[i].name = es[j].name => i = j)
      /\ (\A i \in DOMAIN es : was[es[i].name] = es[i].policy)
      /\ (\A name \in PtNames : was[name] # PtNone => \E i \in DOMAIN es : es[i].name = name)
  BY DEF ListHolds
<1>2. \A i \in DOMAIN es : es[i] \in TableEntry /\ es[i].name \in PtNames /\ es[i].policy \in Parameters
  <2>1. \A i \in DOMAIN es : es[i] \in TableEntry
    BY <1>1
  <2>2. \A e \in TableEntry : e.name \in PtNames /\ e.policy \in Parameters
    BY DEF TableEntry
  <2> QED BY <2>1, <2>2
<1>3. \A name \in PtNames : now[name] = IF name = prefix THEN PtNone ELSE was[name]
  OBVIOUS
<1>4. n \in Nat /\ DOMAIN es = 1 .. n
  BY <1>1
<1>5. PICK kept \in [0 .. n -> Seq(TableEntry)] :
        /\ kept[0] = <<>> /\ Removed(es, prefix) = kept[n]
        /\ \A i \in 1 .. n : kept[i] = IF es[i].name = prefix THEN kept[i - 1] ELSE Append(kept[i - 1], es[i])
  BY <1>1, RemovedIs
<1> DEFINE Kept(i) ==
      /\ \A x \in DOMAIN kept[i] : \E j \in 1 .. i : kept[i][x] = es[j] /\ es[j].name # prefix
      /\ \A j \in 1 .. i : es[j].name # prefix => \E x \in DOMAIN kept[i] : kept[i][x] = es[j]
      /\ \A x, y \in DOMAIN kept[i] : kept[i][x].name = kept[i][y].name => x = y
<1> DEFINE G == {i \in Nat : i <= n => Kept(i)}
<1> HIDE DEF n, now
<1>6. 0 \in G
  <2>1. DOMAIN kept[0] = {}
    BY <1>5
  <2> QED BY <2>1
<1>7. ASSUME NEW i \in Nat, i \in G PROVE i + 1 \in G
  <2> SUFFICES ASSUME i + 1 <= n PROVE Kept(i + 1)
    OBVIOUS
  <2>1. Kept(i) /\ i + 1 \in 1 .. n /\ i \in 0 .. n /\ (i + 1) - 1 = i /\ 1 .. i \subseteq 1 .. n
    <3>1. i + 1 \in 1 .. n /\ i \in 0 .. n /\ (i + 1) - 1 = i /\ 1 .. i \subseteq 1 .. n /\ i <= n
      BY <1>4
    <3>2. i <= n => Kept(i)
      BY <1>7
    <3> QED BY <3>1, <3>2
  <2>2. \A j \in 1 .. i + 1 : j \in 1 .. i \/ j = i + 1
    OBVIOUS
  <2> DEFINE s == kept[i]
             t == kept[i + 1]
             e == es[i + 1]
  <2>3. s \in Seq(TableEntry) /\ t = IF e.name = prefix THEN s ELSE Append(s, e)
    BY <2>1, <1>5
  <2>4. /\ \A x \in DOMAIN s : \E j \in 1 .. i : s[x] = es[j] /\ es[j].name # prefix
        /\ \A j \in 1 .. i : es[j].name # prefix => \E x \in DOMAIN s : s[x] = es[j]
        /\ \A x, y \in DOMAIN s : s[x].name = s[y].name => x = y
    BY <2>1
  <2> HIDE DEF s, t, e, G
  <2>5. /\ \A x \in DOMAIN t : \E j \in 1 .. i + 1 : t[x] = es[j] /\ es[j].name # prefix
        /\ \A j \in 1 .. i + 1 : es[j].name # prefix => \E x \in DOMAIN t : t[x] = es[j]
        /\ \A x, y \in DOMAIN t : t[x].name = t[y].name => x = y
    <3>1. CASE e.name = prefix
      <4>1. t = s
        BY <3>1, <2>3
      <4>2. \A x \in DOMAIN t : \E j \in 1 .. i + 1 : t[x] = es[j] /\ es[j].name # prefix
        BY <4>1, <2>4
      <4> QED BY <3>1, <4>1, <4>2, <2>2, <2>4 DEF e
    <3>2. CASE e.name # prefix
      <4>1. /\ DOMAIN t = 1 .. Len(s) + 1 /\ DOMAIN s = 1 .. Len(s) /\ Len(s) \in Nat
            /\ t[Len(s) + 1] = e /\ \A x \in 1 .. Len(s) : t[x] = s[x]
        BY <3>2, <2>3, <1>2, <2>1, <1>4 DEF e
      <4>2. \A x \in DOMAIN t : x \in DOMAIN s \/ x = Len(s) + 1
        BY <4>1
      <4>3. ASSUME NEW x \in DOMAIN t PROVE \E j \in 1 .. i + 1 : t[x] = es[j] /\ es[j].name # prefix
        <5>1. CASE x \in DOMAIN s
          BY <5>1, <4>1, <2>4
        <5>2. CASE x = Len(s) + 1
          BY <5>2, <4>1, <3>2 DEF e
        <5> QED BY <4>2, <5>1, <5>2
      <4>4. ASSUME NEW j \in 1 .. i + 1, es[j].name # prefix PROVE \E x \in DOMAIN t : t[x] = es[j]
        <5>1. CASE j \in 1 .. i
          <6>1. PICK x \in DOMAIN s : s[x] = es[j]
            BY <5>1, <4>4, <2>4
          <6> QED BY <6>1, <4>1
        <5>2. CASE j = i + 1
          BY <5>2, <4>1 DEF e
        <5> QED BY <2>2, <5>1, <5>2
      <4>5. \A x \in DOMAIN s : s[x].name # e.name
        <5> SUFFICES ASSUME NEW x \in DOMAIN s, s[x].name = e.name PROVE FALSE
          OBVIOUS
        <5>1. PICK j \in 1 .. i : s[x] = es[j]
          BY <2>4
        <5>2. j \in DOMAIN es /\ i + 1 \in DOMAIN es /\ j # i + 1
          BY <5>1, <2>1, <1>4
        <5> QED BY <5>1, <5>2, <1>1 DEF e
      <4>6. ASSUME NEW x \in DOMAIN t, NEW y \in DOMAIN t, t[x].name = t[y].name PROVE x = y
        <5>1. \A z \in DOMAIN s : t[z] = s[z]
          BY <4>1
        <5>2. CASE x \in DOMAIN s /\ y \in DOMAIN s
          <6>1. s[x].name = s[y].name
            BY <5>1, <5>2, <4>6
          <6> QED BY <6>1, <5>2, <2>4
        <5>3. CASE x \in DOMAIN s /\ y = Len(s) + 1
          <6>1. s[x].name = e.name
            BY <5>1, <5>3, <4>1, <4>6
          <6> QED BY <6>1, <5>3, <4>5
        <5>4. CASE x = Len(s) + 1 /\ y \in DOMAIN s
          <6>1. s[y].name = e.name
            BY <5>1, <5>4, <4>1, <4>6
          <6> QED BY <6>1, <5>4, <4>5
        <5> QED BY <4>2, <5>2, <5>3, <5>4
      <4>7. \A x, y \in DOMAIN t : t[x].name = t[y].name => x = y
        BY <4>6
      <4> QED BY <4>3, <4>4, <4>7
    <3> QED BY <3>1, <3>2
  <2> QED BY <2>5 DEF t
<1> HIDE DEF G
<1>8. \A i \in Nat : i \in G
  BY <1>6, <1>7, FromNought
<1>9. Kept(n)
  BY <1>4, <1>8 DEF G
<1> DEFINE new == kept[n]
<1>10. new \in Seq(TableEntry) /\ new = Removed(es, prefix)
  BY <1>4, <1>5
<1>11. /\ \A x \in DOMAIN new : \E j \in DOMAIN es : new[x] = es[j] /\ es[j].name # prefix
       /\ \A j \in DOMAIN es : es[j].name # prefix => \E x \in DOMAIN new : new[x] = es[j]
       /\ \A x, y \in DOMAIN new : new[x].name = new[y].name => x = y
  BY <1>4, <1>9
<1> HIDE DEF new
<1>12. \A x \in DOMAIN new : now[new[x].name] = new[x].policy
  BY <1>1, <1>2, <1>3, <1>11
<1>13. ASSUME NEW name \in PtNames, now[name] # PtNone PROVE \E x \in DOMAIN new : new[x].name = name
  <2>1. name # prefix /\ was[name] # PtNone
    BY <1>3, <1>13
  <2>2. PICK j \in DOMAIN es : es[j].name = name
    BY <2>1, <1>1
  <2>3. PICK x \in DOMAIN new : new[x] = es[j]
    BY <2>1, <2>2, <1>11
  <2> QED BY <2>2, <2>3
<1> QED BY <1>10, <1>11, <1>12, <1>13 DEF ListHolds, now

(* Whatever is listed, setting an entry leaves a list of entries.                *)
LEMMA InsertedType ==
  ASSUME NEW es \in Seq(TableEntry), NEW prefix \in PtNames, NEW p \in Parameters, Systematic8(p)
  PROVE  Inserted(es, prefix, p) \in Seq(TableEntry)
<1>1. DOMAIN es = 1 .. Len(es) /\ Len(es) \in Nat /\ \A i \in DOMAIN es : es[i] \in TableEntry
  OBVIOUS
<1>2. [name |-> prefix, policy |-> p] \in TableEntry
  BY DEF TableEntry
<1>3. \A e \in TableEntry : [e EXCEPT !.policy = p] \in TableEntry
  BY DEF TableEntry
<1>4. CASE \E i \in DOMAIN es : es[i].name = prefix
  <2> DEFINE new == [i \in DOMAIN es |-> IF es[i].name = prefix THEN [es[i] EXCEPT !.policy = p] ELSE es[i]]
  <2>1. new \in [1 .. Len(es) -> TableEntry]
    BY <1>1, <1>3
  <2>2. Inserted(es, prefix, p) = new
    BY <1>4 DEF Inserted
  <2> HIDE DEF new
  <2> QED BY <1>1, <2>1, <2>2
<1>5. CASE ~\E i \in DOMAIN es : es[i].name = prefix
  <2>1. Inserted(es, prefix, p) = Append(es, [name |-> prefix, policy |-> p])
    BY <1>5 DEF Inserted
  <2> QED BY <1>2, <2>1
<1> QED BY <1>4, <1>5

Block == [prefix : PtNames, role : PtRoles, policy : Parameters]

(* Of a file, what is before its first block that is not well formed.            *)
LEMMA GoodIs ==
  ASSUME NEW file \in Seq(Block)
  PROVE  Good(file) \in Seq(Block) /\ \A i \in DOMAIN Good(file) : Systematic8(Good(file)[i].policy)
<1> DEFINE bad == {i \in DOMAIN file : ~Systematic8(file[i].policy)}
<1>1. DOMAIN file = 1 .. Len(file) /\ Len(file) \in Nat
  OBVIOUS
<1>2. CASE bad = {}
  BY <1>2 DEF Good
<1>3. CASE bad # {}
  <2> DEFINE first == CHOOSE i \in bad : \A j \in bad : i <= j
  <2>1. bad \in SUBSET Nat
    BY <1>1
  <2>2. first \in bad /\ \A j \in bad : first <= j
    <3> HIDE DEF bad
    <3> QED BY <1>3, <2>1, LeastExists
  <2>3. Good(file) = SubSeq(file, 1, first - 1)
    BY <1>3 DEF Good
  <2>4. first \in 1 .. Len(file)
    BY <1>1, <2>2
  <2> HIDE DEF first
  <2>5. /\ Good(file) \in Seq(Block) /\ DOMAIN Good(file) = 1 .. first - 1
        /\ \A i \in 1 .. first - 1 : Good(file)[i] = file[i]
    BY <1>1, <2>3, <2>4
  <2>6. ASSUME NEW i \in 1 .. first - 1 PROVE Systematic8(file[i].policy)
    <3>1. i \in DOMAIN file /\ ~(first <= i)
      BY <1>1, <2>4
    <3> QED BY <2>2, <3>1
  <2> QED BY <2>5, <2>6
<1> QED BY <1>2, <1>3

(* What a file fills in, block by block.                                         *)
LEMMA FilledIs ==
  ASSUME NEW all \in [PtRoles -> Seq(TableEntry)], NEW file \in Seq(Block),
         \A i \in DOMAIN file : Systematic8(file[i].policy)
  PROVE  \E after \in [0 .. Len(file) -> [PtRoles -> Seq(TableEntry)]] :
           /\ after[0] = all /\ Filled(all, file) = after[Len(file)]
           /\ \A i \in 1 .. Len(file) :
                after[i] = [after[i - 1] EXCEPT ![file[i].role] = Inserted(@, file[i].prefix, file[i].policy)]
<1> DEFINE S == [PtRoles -> Seq(TableEntry)]
           n == Len(file)
           Set(i, t) == [t EXCEPT ![file[i].role] = Inserted(@, file[i].prefix, file[i].policy)]
           does == [i \in 1 .. n |-> [t \in S |-> Set(i, t)]]
           Body(f) == [i \in 0 .. n |-> IF i = 0 THEN all ELSE Set(i, f[i - 1])]
<1>1. n \in Nat /\ DOMAIN file = 1 .. n
  OBVIOUS
<1>2. ASSUME NEW i \in 1 .. n, NEW t \in S PROVE Set(i, t) \in S
  <2>1. file[i].prefix \in PtNames /\ file[i].role \in PtRoles /\ file[i].policy \in Parameters
    <3>1. file[i] \in Block
      BY <1>1
    <3> QED BY <3>1 DEF Block
  <2>2. Systematic8(file[i].policy)
    BY <1>1
  <2>3. Inserted(t[file[i].role], file[i].prefix, file[i].policy) \in Seq(TableEntry)
    <3>1. t[file[i].role] \in Seq(TableEntry)
      BY <2>1
    <3> QED BY <2>1, <2>2, <3>1, InsertedType
  <2> QED BY <2>1, <2>3
<1> HIDE DEF Set, S
<1>3. does \in StepsOf(S, n)
  BY <1>2 DEF StepsOf
<1>4. PICK f : Results(S, n, all, does, f)
  <2>1. all \in S
    BY DEF S
  <2> HIDE DEF does, n
  <2> QED BY <1>1, <1>3, <2>1, OneAfterAnother
<1>5. f \in [0 .. n -> S] /\ f[0] = all /\ \A i \in 1 .. n : f[i] = does[i][f[i - 1]]
  <2> HIDE DEF does, n
  <2> QED BY <1>4 DEF Results
<1>6. ASSUME NEW i \in 1 .. n PROVE f[i] = Set(i, f[i - 1])
  <2>1. f[i - 1] \in S
    BY <1>1, <1>5
  <2> QED BY <1>5, <2>1
<1>7. f = Body(f)
  <2>1. ASSUME NEW i \in 0 .. n PROVE f[i] = Body(f)[i]
    <3>1. CASE i = 0
      BY <3>1, <1>5
    <3>2. CASE i # 0
      <4>1. i \in 1 .. n
        BY <3>2, <1>1
      <4> QED BY <4>1, <1>6
    <3> QED BY <3>1, <3>2
  <2>2. Body(f) = [i \in 0 .. n |-> Body(f)[i]] /\ f = [i \in 0 .. n |-> f[i]]
    BY <1>5
  <2> HIDE DEF n, Body
  <2> QED BY <2>1, <2>2
<1> DEFINE after == CHOOSE g : g = Body(g)
<1>8. after = Body(after)
  <2> HIDE DEF Body
  <2> QED BY <1>7
<1>9. Filled(all, file) = after[n]
  BY DEF Filled, Set
<1> HIDE DEF after
<1>10. ASSUME NEW i \in 1 .. n PROVE after[i] = Set(i, after[i - 1])
  <2>1. i \in 0 .. n /\ i # 0
    BY <1>1
  <2>2. after[i] = Body(after)[i]
    BY <1>8
  <2> QED BY <2>1, <2>2
<1>11. after[0] = all
  <2>1. 0 \in 0 .. n
    BY <1>1
  <2>2. after[0] = Body(after)[0]
    BY <1>8
  <2> QED BY <2>1, <2>2
<1>12. \A i \in 0 .. n : after[i] \in S
  <2> DEFINE G == {i \in Nat : i <= n => after[i] \in S}
  <2>1. 0 \in G
    BY <1>11 DEF S
  <2>2. ASSUME NEW i \in Nat, i \in G PROVE i + 1 \in G
    <3> SUFFICES ASSUME i + 1 <= n PROVE after[i + 1] \in S
      OBVIOUS
    <3>1. after[i] \in S /\ i + 1 \in 1 .. n /\ (i + 1) - 1 = i
      BY <1>1, <2>2
    <3>2. after[i + 1] = Set(i + 1, after[i])
      BY <3>1, <1>10
    <3> QED BY <3>1, <3>2, <1>2
  <2> HIDE DEF G
  <2>3. \A i \in Nat : i \in G
    BY <2>1, <2>2, FromNought
  <2> QED BY <2>3, <1>1 DEF G
<1>13. after = [i \in 0 .. n |-> after[i]]
  <2> DEFINE h == Body(after)
  <2>1. h = [i \in 0 .. n |-> h[i]]
    OBVIOUS
  <2> HIDE DEF h
  <2> QED BY <2>1, <1>8 DEF h
<1>14. after \in [0 .. n -> S]
  <2> HIDE DEF n
  <2> QED BY <1>12, <1>13
<1> HIDE DEF n
<1>15. /\ after[0] = all /\ Filled(all, file) = after[n]
       /\ \A i \in 1 .. n :
            after[i] = [after[i - 1] EXCEPT ![file[i].role] = Inserted(@, file[i].prefix, file[i].policy)]
  BY <1>9, <1>10, <1>11 DEF Set
<1> QED BY <1>14, <1>15 DEF n, S

(* What the last block of a name says is in force after the file.                *)
LEMMA FilledHolds ==
  ASSUME NEW all \in [PtRoles -> Seq(TableEntry)], NEW was \in [PtRoles -> [PtNames -> Parameters \cup {PtNone}]],
         \A r \in PtRoles : ListHolds(all[r], was[r]),
         NEW file \in Seq(Block), \A i \in DOMAIN file : Systematic8(file[i].policy)
  PROVE  /\ Filled(all, file) \in [PtRoles -> Seq(TableEntry)]
         /\ \A r \in PtRoles : ListHolds(Filled(all, file)[r], [name \in PtNames |-> LastSet(file, r, name, was[r][name])])
         /\ \A r \in PtRoles, name \in PtNames : LastSet(file, r, name, was[r][name]) \in Parameters \cup {PtNone}
<1> DEFINE n == Len(file)
           BlocksOf(i, r, name) == {j \in 1 .. i : file[j].role = r /\ file[j].prefix = name}
           Now(i, r, name) == IF BlocksOf(i, r, name) = {} THEN was[r][name]
                              ELSE file[CHOOSE j \in BlocksOf(i, r, name) : \A k \in BlocksOf(i, r, name) : k <= j].policy
           Table(i, r) == [name \in PtNames |-> Now(i, r, name)]
<1>1. n \in Nat /\ DOMAIN file = 1 .. n
  OBVIOUS
<1>2. \A i \in 1 .. n : file[i].prefix \in PtNames /\ file[i].role \in PtRoles /\ file[i].policy \in Parameters
  <2>1. \A i \in 1 .. n : file[i] \in Block
    BY <1>1
  <2> QED BY <2>1 DEF Block
<1>3. PICK after \in [0 .. n -> [PtRoles -> Seq(TableEntry)]] :
        /\ after[0] = all /\ Filled(all, file) = after[n]
        /\ \A i \in 1 .. n :
             after[i] = [after[i - 1] EXCEPT ![file[i].role] = Inserted(@, file[i].prefix, file[i].policy)]
  BY FilledIs
<1> HIDE DEF n
<1>4. \A r, name : Now(0, r, name) = was[r][name]
  <2>1. \A r, name : BlocksOf(0, r, name) = {}
    OBVIOUS
  <2> HIDE DEF BlocksOf
  <2> QED BY <2>1
<1>5. ASSUME NEW i \in 1 .. n, NEW r \in PtRoles, NEW name \in PtNames
      PROVE  Now(i, r, name) = IF r = file[i].role /\ name = file[i].prefix THEN file[i].policy ELSE Now(i - 1, r, name)
  <2>1. i \in Nat /\ i # 0
    BY <1>1
  <2>2. CASE r = file[i].role /\ name = file[i].prefix
    <3>1. i \in BlocksOf(i, r, name) /\ \A k \in BlocksOf(i, r, name) : k \in Nat /\ k <= i
      BY <2>1, <2>2
    <3>2. (CHOOSE j \in BlocksOf(i, r, name) : \A k \in BlocksOf(i, r, name) : k <= j) = i
      <4>1. \A j \in BlocksOf(i, r, name) : (\A k \in BlocksOf(i, r, name) : k <= j) => j = i
        BY <2>1, <3>1
      <4> HIDE DEF BlocksOf
      <4> QED BY <3>1, <4>1
    <3> HIDE DEF BlocksOf
    <3> QED BY <2>2, <3>1, <3>2
  <2>3. CASE ~(r = file[i].role /\ name = file[i].prefix)
    <3>1. BlocksOf(i, r, name) = BlocksOf(i - 1, r, name)
      BY <2>1, <2>3
    <3> HIDE DEF BlocksOf
    <3> QED BY <2>3, <3>1
  <2> QED BY <2>2, <2>3
<1> HIDE DEF Now
<1> DEFINE Holds(i) == \A r \in PtRoles : /\ ListHolds(after[i][r], Table(i, r))
                                          /\ \A name \in PtNames : Now(i, r, name) \in Parameters \cup {PtNone}
           G == {i \in Nat : i <= n => Holds(i)}
<1>6. 0 \in G
  <2>1. ASSUME NEW r \in PtRoles
        PROVE  ListHolds(after[0][r], Table(0, r)) /\ \A name \in PtNames : Now(0, r, name) \in Parameters \cup {PtNone}
    <3>1. Table(0, r) = was[r]
      BY <1>4
    <3>2. \A name \in PtNames : Now(0, r, name) \in Parameters \cup {PtNone}
      BY <1>4
    <3> HIDE DEF Table
    <3> QED BY <3>1, <3>2, <1>3
  <2> QED BY <2>1
<1>7. ASSUME NEW i \in Nat, i \in G PROVE i + 1 \in G
  <2> SUFFICES ASSUME i + 1 <= n PROVE Holds(i + 1)
    OBVIOUS
  <2>1. i + 1 \in 1 .. n /\ i \in 0 .. n /\ (i + 1) - 1 = i /\ i <= n
    BY <1>1
  <2>2. Holds(i)
    BY <1>7, <2>1
  <2> DEFINE b == file[i + 1]
  <2>3. b.prefix \in PtNames /\ b.role \in PtRoles /\ b.policy \in Parameters /\ Systematic8(b.policy)
    BY <1>1, <1>2, <2>1
  <2>4. after[i] \in [PtRoles -> Seq(TableEntry)] /\ after[i + 1] = [after[i] EXCEPT ![b.role] = Inserted(@, b.prefix, b.policy)]
    BY <1>3, <2>1
  <2>5. \A r \in PtRoles : \A name \in PtNames :
          Now(i + 1, r, name) = IF r = b.role /\ name = b.prefix THEN b.policy ELSE Now(i, r, name)
    BY <1>5, <2>1
  <2> HIDE DEF b
  <2>6. ASSUME NEW r \in PtRoles PROVE ListHolds(after[i + 1][r], Table(i + 1, r))
    <3>1. CASE r = b.role
      <4>1. after[i + 1][r] = Inserted(after[i][r], b.prefix, b.policy)
        BY <3>1, <2>3, <2>4
      <4>2. Table(i + 1, r) = [Table(i, r) EXCEPT ![b.prefix] = b.policy]
        BY <3>1, <2>3, <2>5
      <4>3. Table(i, r) \in [PtNames -> Parameters \cup {PtNone}] /\ ListHolds(after[i][r], Table(i, r))
        BY <2>2
      <4> DEFINE now == Table(i, r)
                 es == after[i][r]
      <4>4. now \in [PtNames -> Parameters \cup {PtNone}] /\ ListHolds(es, now)
        BY <4>3
      <4> HIDE DEF now, es
      <4>5. ListHolds(Inserted(es, b.prefix, b.policy), [now EXCEPT ![b.prefix] = b.policy])
        BY <4>4, <2>3, InsertedHolds
      <4>6. [now EXCEPT ![b.prefix] = b.policy] = Table(i + 1, r) /\ Inserted(es, b.prefix, b.policy) = after[i + 1][r]
        BY <4>1, <4>2 DEF now, es
      <4> QED BY <4>5, <4>6
    <3>2. CASE r # b.role
      <4>1. after[i + 1][r] = after[i][r]
        BY <3>2, <2>3, <2>4
      <4>2. Table(i + 1, r) = Table(i, r)
        BY <3>2, <2>5
      <4>3. ListHolds(after[i][r], Table(i, r))
        BY <2>2
      <4> HIDE DEF Table
      <4> QED BY <4>1, <4>2, <4>3
    <3> QED BY <3>1, <3>2
  <2>7. ASSUME NEW r \in PtRoles, NEW name \in PtNames PROVE Now(i + 1, r, name) \in Parameters \cup {PtNone}
    BY <2>2, <2>3, <2>5
  <2> HIDE DEF Table
  <2> QED BY <2>6, <2>7
<1> HIDE DEF G, Holds
<1>8. \A i \in Nat : i \in G
  BY <1>6, <1>7, FromNought
<1>9. n \in G /\ n \in 0 .. n
  BY <1>1, <1>8
<1>10. \A r, name : LastSet(file, r, name, was[r][name]) = Now(n, r, name)
  BY <1>1 DEF LastSet, Now
<1>11. Holds(n)
  BY <1>1, <1>9 DEF G
<1>12. Filled(all, file) \in [PtRoles -> Seq(TableEntry)]
  BY <1>3, <1>9
<1>13. ASSUME NEW r \in PtRoles
       PROVE  ListHolds(Filled(all, file)[r], [name \in PtNames |-> LastSet(file, r, name, was[r][name])])
  <2>1. [name \in PtNames |-> LastSet(file, r, name, was[r][name])] = Table(n, r)
    BY <1>10
  <2>2. ListHolds(after[n][r], Table(n, r))
    BY <1>11 DEF Holds
  <2> HIDE DEF Table
  <2> QED BY <1>3, <2>1, <2>2
<1>14. \A r \in PtRoles, name \in PtNames : LastSet(file, r, name, was[r][name]) \in Parameters \cup {PtNone}
  BY <1>10, <1>11 DEF Holds
<1> QED BY <1>12, <1>13, <1>14

(* ------------------------------- the lookups ------------------------------- *)

(* Prefixes of one name that are as long as each other are the same. *)
LEMMA SamePrefix ==
  ASSUME NEW p \in PtNames, NEW q \in PtNames, NEW name \in PtNames,
         IsPrefix(p, name), IsPrefix(q, name), Len(p) = Len(q)
  PROVE  p = q
<1>1. p \in Seq(Range(p)) /\ q \in Seq(Range(q))
  BY PtAssumption
<1>2. SubSeq(p, 1, Len(p)) = SubSeq(q, 1, Len(q))
  BY DEF IsPrefix
<1>3. p = SubSeq(p, 1, Len(p)) /\ q = SubSeq(q, 1, Len(q))
  <2>1. \A S : \A s \in Seq(S) : s = SubSeq(s, 1, Len(s))
    OBVIOUS
  <2> QED BY <1>1, <2>1
<1> QED BY <1>2, <1>3

(* The exact lookup and the longest-prefix one, on a list that holds.            *)
FindsTheLongest(es, was, name) ==
  LET set_ == {p \in PtNames : was[p] # PtNone /\ IsPrefix(p, name)}
  IN /\ get_exact(es, name) = was[name]
     /\ lookup(es, name) = IF set_ = {} THEN PtNone ELSE was[CHOOSE p \in set_ : \A q \in set_ : Len(q) <= Len(p)]

LEMMA LookupIs ==
  ASSUME NEW es, NEW was \in [PtNames -> Parameters \cup {PtNone}], ListHolds(es, was), NEW name \in PtNames
  PROVE  FindsTheLongest(es, was, name)
<1> DEFINE set_ == {p \in PtNames : was[p] # PtNone /\ IsPrefix(p, name)}
           match == {i \in DOMAIN es : IsPrefix(es[i].name, name)}
<1>1. es \in Seq(TableEntry) /\ (\A i, j \in DOMAIN es : es[i].name = es[j].name => i = j)
      /\ (\A i \in DOMAIN es : was[es[i].name] = es[i].policy)
      /\ (\A p \in PtNames : was[p] # PtNone => \E i \in DOMAIN es : es[i].name = p)
  BY DEF ListHolds
<1>2. \A i \in DOMAIN es : es[i].name \in PtNames /\ es[i].policy \in Parameters /\ i \in Nat
  <2>1. \A i \in DOMAIN es : es[i] \in TableEntry /\ i \in Nat
    BY <1>1
  <2>2. \A e \in TableEntry : e.name \in PtNames /\ e.policy \in Parameters
    BY DEF TableEntry
  <2> QED BY <2>1, <2>2
<1>3. PtNone \notin Parameters /\ \A p \in PtNames : Len(p) \in Nat
  <2>1. \A p \in PtNames : p \in Seq(Range(p))
    BY PtAssumption
  <2>2. \A S : \A s \in Seq(S) : Len(s) \in Nat
    OBVIOUS
  <2> QED BY <2>1, <2>2, PtAssumption DEF Parameters
<1>4. \A i \in DOMAIN es : was[es[i].name] # PtNone
  BY <1>1, <1>2, <1>3
<1>5. get_exact(es, name) = was[name]
  <2>1. CASE \E i \in DOMAIN es : es[i].name = name
    <3> DEFINE First(i) == es[i].name = name /\ \A j \in 1 .. i - 1 : es[j].name # name
               at == CHOOSE i \in DOMAIN es : First(i)
    <3>1. PICK i \in DOMAIN es : es[i].name = name
      BY <2>1
    <3>2. First(i)
      <4>1. ASSUME NEW j \in 1 .. i - 1 PROVE es[j].name # name
        <5>1. j \in DOMAIN es /\ j # i
          BY <1>1
        <5> QED BY <3>1, <5>1, <1>1
      <4> QED BY <3>1, <4>1
    <3>3. at \in DOMAIN es /\ es[at].name = name
      <4>1. at \in DOMAIN es /\ First(at)
        BY <3>2
      <4> QED BY <4>1
    <3>4. get_exact(es, name) = es[at].policy
      BY <2>1 DEF get_exact
    <3> HIDE DEF at
    <3> QED BY <3>3, <3>4, <1>1
  <2>2. CASE ~\E i \in DOMAIN es : es[i].name = name
    <3>1. was[name] = PtNone
      BY <2>2, <1>1
    <3> QED BY <2>2, <3>1 DEF get_exact
  <2> QED BY <2>1, <2>2
<1>6. \A p : p \in set_ <=> \E i \in match : p = es[i].name
  BY <1>1, <1>2, <1>4
<1>7. \A i \in match : i \in DOMAIN es /\ es[i].name \in PtNames /\ i \in Nat /\ Len(es[i].name) \in Nat
  BY <1>2, <1>3
<1>8. \A i, j \in match : Len(es[i].name) = Len(es[j].name) => i = j
  BY <1>1, <1>7, SamePrefix
<1>9. CASE match = {}
  <2>1. set_ = {}
    BY <1>6, <1>9
  <2>2. lookup(es, name) = PtNone
    BY <1>9 DEF lookup
  <2> QED BY <1>5, <2>1, <2>2 DEF FindsTheLongest
<1>10. CASE match # {}
  <2> DEFINE Best(i) == \A j \in match : Len(es[j].name) < Len(es[i].name) \/ (Len(es[j].name) = Len(es[i].name) /\ j <= i)
             best == CHOOSE i \in match : Best(i)
             longest == CHOOSE p \in set_ : \A q \in set_ : Len(q) <= Len(p)
  <2>1. lookup(es, name) = es[best].policy
    BY <1>10 DEF lookup
  <2>2. \E i \in match : \A j \in match : Len(es[j].name) <= Len(es[i].name)
    <3> DEFINE T == {Len(name) - Len(es[i].name) : i \in match}
    <3>1. \A i \in match : Len(name) - Len(es[i].name) \in Nat
      BY <1>3, <1>7 DEF IsPrefix
    <3>2. T \in SUBSET Nat /\ T # {}
      BY <1>10, <3>1
    <3>3. PICK t \in T : \A u \in T : t <= u
      <4> HIDE DEF T
      <4> QED BY <3>2, LeastExists
    <3>4. PICK i \in match : t = Len(name) - Len(es[i].name)
      OBVIOUS
    <3>5. ASSUME NEW j \in match PROVE Len(es[j].name) <= Len(es[i].name)
      <4>1. Len(name) - Len(es[i].name) <= Len(name) - Len(es[j].name)
        BY <3>3, <3>4
      <4> QED BY <4>1, <1>3, <1>7
    <3> QED BY <3>5
  <2> HIDE DEF match, set_
  <2>3. best \in match /\ Best(best)
    <3>1. PICK i \in match : \A j \in match : Len(es[j].name) <= Len(es[i].name)
      BY <2>2
    <3>2. Best(i)
      BY <3>1, <1>7, <1>8
    <3> QED BY <3>2
  <2> HIDE DEF best
  <2> DEFINE p == es[best].name
  <2>4. p \in set_ /\ p \in PtNames /\ \A q \in set_ : Len(q) <= Len(p)
    BY <2>3, <1>6, <1>7
  <2>5. longest \in set_ /\ \A q \in set_ : Len(q) <= Len(longest)
    <3> HIDE DEF p
    <3> QED BY <2>4
  <2> HIDE DEF longest
  <2>6. longest = p
    <3>1. PICK k \in match : longest = es[k].name
      BY <2>5, <1>6
    <3>2. Len(es[k].name) = Len(es[best].name)
      BY <2>3, <2>4, <2>5, <3>1, <1>7
    <3> QED BY <2>3, <3>1, <3>2, <1>8
  <2>7. set_ # {} /\ lookup(es, name) = was[longest]
    BY <2>1, <2>3, <2>4, <2>6, <1>1, <1>7
  <2> QED BY <1>5, <2>7 DEF longest, set_, FindsTheLongest
<1> QED BY <1>9, <1>10

(* ------------------------------ the invariant ------------------------------ *)

(* Each role's list is what was last set of each name.                           *)
TableIInv ==
  /\ truth \in [PtRoles -> [PtNames -> Parameters \cup {PtNone}]]
  /\ entries \in [PtRoles -> Seq(TableEntry)]
  /\ \A r \in PtRoles : ListHolds(entries[r], truth[r])

(* Nothing is set at the start.                                                  *)
LEMMA TableStart == PtInit => TableIInv
<1> SUFFICES ASSUME PtInit PROVE TableIInv
  OBVIOUS
<1>1. entries = [r \in PtRoles |-> <<>>] /\ truth = [r \in PtRoles |-> [n \in PtNames |-> PtNone]]
  BY DEF PtInit
<1>2. ListHolds(<<>>, [n \in PtNames |-> PtNone])
  BY DEF ListHolds
<1> QED BY <1>1, <1>2 DEF TableIInv

(* Management sets and unsets one entry, a file several: the lists follow.       *)
LEMMA TableStep == TableIInv /\ [PtNext]_ptVars => TableIInv'
<1> SUFFICES ASSUME TableIInv, [PtNext]_ptVars PROVE TableIInv'
  OBVIOUS
<1>1. /\ truth \in [PtRoles -> [PtNames -> Parameters \cup {PtNone}]]
      /\ entries \in [PtRoles -> Seq(TableEntry)] /\ \A r \in PtRoles : ListHolds(entries[r], truth[r])
  BY DEF TableIInv
<1>2. ASSUME NEW prefix \in PtNames, NEW role \in PtRoles, unset(prefix, role) PROVE TableIInv'
  <2>1. /\ entries' = [entries EXCEPT ![role] = Removed(entries[role], prefix)]
        /\ truth' = [truth EXCEPT ![role] = [truth[role] EXCEPT ![prefix] = PtNone]]
    BY <1>2 DEF unset
  <2>2. truth[role] \in [PtNames -> Parameters \cup {PtNone}] /\ ListHolds(entries[role], truth[role])
    BY <1>1
  <2>3. ListHolds(Removed(entries[role], prefix), [truth[role] EXCEPT ![prefix] = PtNone])
    BY <2>2, RemovedHolds
  <2>4. Removed(entries[role], prefix) \in Seq(TableEntry)
    BY <2>3 DEF ListHolds
  <2>5. [truth[role] EXCEPT ![prefix] = PtNone] \in [PtNames -> Parameters \cup {PtNone}]
    BY <2>2
  <2>6. truth' \in [PtRoles -> [PtNames -> Parameters \cup {PtNone}]] /\ entries' \in [PtRoles -> Seq(TableEntry)]
    BY <1>1, <2>1, <2>4, <2>5
  <2>7. \A r \in PtRoles : ListHolds(entries'[r], truth'[r])
    BY <1>1, <2>1, <2>3
  <2> QED BY <2>6, <2>7 DEF TableIInv
<1>3. ASSUME NEW prefix \in PtNames, NEW role \in PtRoles, NEW p \in PtPolicies, set(prefix, role, p) PROVE TableIInv'
  <2>1. /\ entries' = [entries EXCEPT ![role] = Inserted(entries[role], prefix, p)] /\ Systematic8(p)
        /\ truth' = [truth EXCEPT ![role] = [truth[role] EXCEPT ![prefix] = p]]
    BY <1>3 DEF set
  <2>2. truth[role] \in [PtNames -> Parameters \cup {PtNone}] /\ ListHolds(entries[role], truth[role]) /\ p \in Parameters
    BY <1>1, PtAssumption DEF Parameters
  <2>3. ListHolds(Inserted(entries[role], prefix, p), [truth[role] EXCEPT ![prefix] = p])
    BY <2>1, <2>2, InsertedHolds
  <2>4. Inserted(entries[role], prefix, p) \in Seq(TableEntry)
    BY <2>3 DEF ListHolds
  <2>5. [truth[role] EXCEPT ![prefix] = p] \in [PtNames -> Parameters \cup {PtNone}]
    BY <2>2
  <2>6. truth' \in [PtRoles -> [PtNames -> Parameters \cup {PtNone}]] /\ entries' \in [PtRoles -> Seq(TableEntry)]
    BY <1>1, <2>1, <2>4, <2>5
  <2>7. \A r \in PtRoles : ListHolds(entries'[r], truth'[r])
    BY <1>1, <2>1, <2>3
  <2> QED BY <2>6, <2>7 DEF TableIInv
<1>4. ASSUME NEW file \in PtConfigs, populate(file) PROVE TableIInv'
  <2> DEFINE good == Good(file)
  <2>1. /\ entries' = Filled(entries, good)
        /\ truth' = [r \in PtRoles |-> [n \in PtNames |-> LastSet(good, r, n, truth[r][n])]]
    BY <1>4 DEF populate
  <2>2. file \in Seq(Block)
    BY PtAssumption DEF Block, Parameters
  <2>3. good \in Seq(Block) /\ \A i \in DOMAIN good : Systematic8(good[i].policy)
    BY <2>2, GoodIs
  <2> HIDE DEF good
  <2>4. /\ Filled(entries, good) \in [PtRoles -> Seq(TableEntry)]
        /\ \A r \in PtRoles : ListHolds(Filled(entries, good)[r], [name \in PtNames |-> LastSet(good, r, name, truth[r][name])])
        /\ \A r \in PtRoles, name \in PtNames : LastSet(good, r, name, truth[r][name]) \in Parameters \cup {PtNone}
    BY <1>1, <2>3, FilledHolds
  <2>5. \A r \in PtRoles : ListHolds(entries'[r], truth'[r])
    BY <2>1, <2>4
  <2>6. truth' \in [PtRoles -> [PtNames -> Parameters \cup {PtNone}]]
    BY <2>1, <2>4
  <2>7. entries' \in [PtRoles -> Seq(TableEntry)]
    BY <2>1, <2>4
  <2> QED BY <2>5, <2>6, <2>7 DEF TableIInv
<1>5. CASE UNCHANGED ptVars
  BY <1>5 DEF ptVars, TableIInv
<1> QED BY <1>2, <1>3, <1>4, <1>5 DEF PtNext

(* Lists that hold give the lookups promised.                                    *)
LEMMA TableMeans == TableIInv => PolicyInv
<1> SUFFICES ASSUME TableIInv PROVE PolicyInv
  OBVIOUS
<1>1. \A r \in PtRoles : truth[r] \in [PtNames -> Parameters \cup {PtNone}] /\ ListHolds(entries[r], truth[r])
  BY DEF TableIInv
<1>2. PtTypeOK
  <2> SUFFICES ASSUME NEW r \in PtRoles
               PROVE  /\ \A i, j \in DOMAIN entries[r] : entries[r][i].name = entries[r][j].name => i = j
                      /\ \A i \in DOMAIN entries[r] : /\ entries[r][i].policy.k \in 1 .. 255
                                                       /\ entries[r][i].policy.n \in entries[r][i].policy.k .. 255
    BY DEF PtTypeOK
  <2>1. entries[r] \in Seq(TableEntry) /\ \A i, j \in DOMAIN entries[r] : entries[r][i].name = entries[r][j].name => i = j
    BY <1>1 DEF ListHolds
  <2>2. \A i \in DOMAIN entries[r] : entries[r][i] \in TableEntry
    BY <2>1
  <2>3. \A e \in TableEntry : e.policy.k \in 1 .. 255 /\ e.policy.n \in e.policy.k .. 255
    BY DEF TableEntry, Parameters, Systematic8
  <2> QED BY <2>1, <2>2, <2>3
<1>3. LongestPrefixWins
  <2>1. ASSUME NEW r \in PtRoles, NEW name \in PtNames PROVE FindsTheLongest(entries[r], truth[r], name)
    BY <1>1, LookupIs
  <2> QED BY <2>1 DEF LongestPrefixWins, FindsTheLongest
<1> QED BY <1>2, <1>3 DEF PolicyInv

(* The coding policy table (policy.rs, prefix_table.rs): whatever management    *)
(* and configuration files set, replace and remove, in any order and of any     *)
(* names, a lookup gives what was last set for the longest prefix of a name     *)
(* that has a policy, each prefix is listed once, and only with parameters the  *)
(* coder accepts.                                                               *)
THEOREM LongestPrefixIsInForce == PtSpec => []PolicyInv
<1>1. PtInit => TableIInv
  BY TableStart
<1>2. TableIInv /\ [PtNext]_ptVars => TableIInv'
  BY TableStep
<1>3. TableIInv => PolicyInv
  BY TableMeans
<1> QED BY <1>1, <1>2, <1>3, PTL DEF PtSpec

(* ----------------------- the neighbours: Neighbourhood ----------------------- *)

Level     == CgNode \X CgRadio \X CgNode
Levels    == [CgRadio -> SUBSET Level]
Neighbour == [seen : {CgNone} \cup 0 .. StaleAge + 1, in : Levels, out : Levels, loss : SUBSET BOOLEAN]
Distance  == {CgNone} \cup -Back .. MaxGap + 1

(* What node m holds of node n: figures of the right direction, a number ahead  *)
(* only of one it has heard, and ahead by a report only if one was missed.      *)
HeldOf(m, n, e, a, missed) ==
  /\ e \in Neighbour /\ a \in Distance /\ missed \in BOOLEAN
  /\ e.seen = CgNone <=> a = CgNone
  /\ a # CgNone /\ a >= 1 => missed
  /\ \A r \in CgRadio : /\ \A t \in e.in[r]  : t[1] = n /\ t[3] = m
                        /\ \A t \in e.out[r] : t[1] = m /\ t[3] = n
  /\ m = n => e.seen = CgNone

CgIndInv ==
  /\ up \subseteq CgNode /\ sent \subseteq CgNode
  /\ nbr \in [CgNode -> [CgNode -> Neighbour]] /\ ahead \in [CgNode -> [CgNode -> Distance]]
  /\ unheard \in [CgNode -> [CgNode -> BOOLEAN]]
  /\ \A m, n \in CgNode : HeldOf(m, n, nbr[m][n], ahead[m][n], unheard[m][n])

(* A node of which nothing is known.                                             *)
LEMMA UnknownHeld ==
  ASSUME NEW m \in CgNode, NEW n \in CgNode, NEW missed \in BOOLEAN
  PROVE  HeldOf(m, n, Unknown, CgNone, missed) /\ Unknown \in Neighbour /\ CgNone \in Distance
<1>1. Nothing \in Levels /\ \A r \in CgRadio : Nothing[r] = {}
  BY DEF Nothing, Levels
<1>2. Unknown \in Neighbour
  BY <1>1 DEF Unknown, Neighbour
<1>3. Unknown.seen = CgNone /\ Unknown.in = Nothing /\ Unknown.out = Nothing
  BY DEF Unknown
<1> QED BY <1>1, <1>2, <1>3 DEF HeldOf, Distance

(* A report read: what its sender measured of this node is how this node is     *)
(* heard by the sender, and a loss is told only if one was missed.              *)
LEMMA IngestedHeld ==
  ASSUME CgIndInv, NEW m \in CgNode, NEW n \in CgNode, m # n, NEW r \in CgRadio, NEW known \in BOOLEAN,
         NEW heard \in Reports(n)
  PROVE  /\ HeldOf(m, n, Ingested(m, n, r, known, heard), 0, FALSE)
         /\ Ingested(m, n, r, known, heard) \in Neighbour /\ 0 \in Distance
         /\ TRUE \in Ingested(m, n, r, known, heard).loss \ nbr[m][n].loss => unheard[m][n]
<1> DEFINE e == nbr[m][n]
           own == IF known THEN {<<n, r, m>>} ELSE {}
           said == IF m \in DOMAIN heard THEN heard[m] ELSE {}
           lost == Lost(IF ahead[m][n] = CgNone THEN CgNone ELSE ahead[m][n] + 1)
           new == Ingested(m, n, r, known, heard)
<1>1. /\ e \in Neighbour /\ HeldOf(m, n, e, ahead[m][n], unheard[m][n]) /\ nbr[n][m] \in Neighbour
      /\ HeldOf(n, m, nbr[n][m], ahead[n][m], unheard[n][m])
  BY DEF CgIndInv
<1>2. own \subseteq Level /\ \A t \in own : t[1] = n /\ t[3] = m
  BY DEF Level
<1>3. said \subseteq Level /\ \A t \in said : t[1] = m /\ t[3] = n
  <2>1. CASE m \in DOMAIN heard
    <3>1. \E q \in CgRadio : heard[m] = nbr[n][m].in[q]
      BY <2>1 DEF Reports, Exported
    <3>2. nbr[n][m].in \in Levels
      BY <1>1 DEF Neighbour
    <3>3. \A q \in CgRadio : nbr[n][m].in[q] \subseteq Level /\ \A t \in nbr[n][m].in[q] : t[1] = m /\ t[3] = n
      BY <1>1, <3>2 DEF HeldOf, Levels
    <3> QED BY <2>1, <3>1, <3>3
  <2>2. CASE m \notin DOMAIN heard
    BY <2>2
  <2> QED BY <2>1, <2>2
<1>4. lost \subseteq BOOLEAN
  <2>1. \A gap \in 1 .. MaxGap : (gap > 1) \in BOOLEAN
    <3> SUFFICES ASSUME NEW gap \in 1 .. MaxGap PROVE (gap > 1) \in BOOLEAN
      OBVIOUS
    <3>1. CASE gap > 1
      BY <3>1
    <3>2. CASE ~(gap > 1)
      BY <3>2
    <3> QED BY <3>1, <3>2
  <2>2. \A gap : Lost(gap) \subseteq BOOLEAN
    BY <2>1, Zenon DEF Lost
  <2> QED BY <2>2
<1>5. TRUE \in lost => unheard[m][n]
  <2> SUFFICES ASSUME TRUE \in lost PROVE unheard[m][n]
    OBVIOUS
  <2>1. ahead[m][n] \in Distance /\ (ahead[m][n] # CgNone /\ ahead[m][n] >= 1 => unheard[m][n])
    BY <1>1 DEF HeldOf
  <2>2. CgNone \notin 1 .. MaxGap
    BY CgAssumption
  <2>3. ahead[m][n] # CgNone
    BY <2>2 DEF Lost
  <2>4. ahead[m][n] + 1 > 1
    BY <2>3 DEF Lost
  <2> QED BY <2>1, <2>3, <2>4, CgAssumption DEF Distance
<1>6. new = [e EXCEPT !.in[r] = @ \cup own, !.out[r] = @ \cup said, !.seen = 0, !.loss = @ \cup lost]
  BY DEF Ingested, Folded, Neighbour
<1> HIDE DEF own, said, lost, new
<1>7. e.in \in Levels /\ e.out \in Levels /\ e.loss \subseteq BOOLEAN
  BY <1>1 DEF Neighbour
<1>8. /\ new.seen = 0 /\ new.loss = e.loss \cup lost
      /\ new.in = [e.in EXCEPT ![r] = @ \cup own] /\ new.out = [e.out EXCEPT ![r] = @ \cup said]
      /\ new = [seen |-> new.seen, in |-> new.in, out |-> new.out, loss |-> new.loss]
  BY <1>1, <1>6 DEF Neighbour
<1>9. new.in \in Levels /\ new.out \in Levels
  BY <1>2, <1>3, <1>7, <1>8 DEF Levels
<1>10. 0 \in 0 .. StaleAge + 1 /\ 0 \in Distance /\ 0 # CgNone
  BY CgAssumption DEF Distance
<1>11. new \in Neighbour
  BY <1>4, <1>7, <1>8, <1>9, <1>10 DEF Neighbour
<1>12. \A q \in CgRadio : (\A t \in e.in[q] : t[1] = n /\ t[3] = m) /\ (\A t \in e.out[q] : t[1] = m /\ t[3] = n)
  BY <1>1 DEF HeldOf
<1>13. \A q \in CgRadio : (\A t \in new.in[q] : t[1] = n /\ t[3] = m) /\ (\A t \in new.out[q] : t[1] = m /\ t[3] = n)
  BY <1>2, <1>3, <1>7, <1>8, <1>12 DEF Levels
<1>14. HeldOf(m, n, new, 0, FALSE)
  BY <1>8, <1>10, <1>11, <1>13 DEF HeldOf
<1> QED BY <1>5, <1>8, <1>10, <1>11, <1>14 DEF new

(* At first a node knows of none and has missed nothing.                         *)
LEMMA CgStart == CgInit => CgIndInv
<1> SUFFICES ASSUME CgInit PROVE CgIndInv
  OBVIOUS
<1>1. /\ nbr = [m \in CgNode |-> [n \in CgNode |-> Unknown]] /\ ahead = [m \in CgNode |-> [n \in CgNode |-> CgNone]]
      /\ unheard = [m \in CgNode |-> [n \in CgNode |-> FALSE]] /\ up = CgNode /\ sent = {}
  BY DEF CgInit
<1>2. \A m, n \in CgNode : HeldOf(m, n, Unknown, CgNone, FALSE) /\ Unknown \in Neighbour /\ CgNone \in Distance
  BY UnknownHeld
<1> QED BY <1>1, <1>2 DEF CgIndInv

(* Of a loss told: it was told when one was missed.                              *)
ToldWhenMissed == \A m, n \in CgNode : TRUE \in nbr'[m][n].loss \ nbr[m][n].loss => unheard[m][n]

(* Every step keeps what nodes hold of each other, and tells only losses there are. *)
LEMMA CgStep == CgIndInv /\ [CgNext]_cgVars => CgIndInv' /\ ToldWhenMissed
<1> SUFFICES ASSUME CgIndInv, [CgNext]_cgVars PROVE CgIndInv' /\ ToldWhenMissed
  OBVIOUS
<1>1. /\ up \subseteq CgNode /\ sent \subseteq CgNode
      /\ nbr \in [CgNode -> [CgNode -> Neighbour]] /\ ahead \in [CgNode -> [CgNode -> Distance]]
      /\ unheard \in [CgNode -> [CgNode -> BOOLEAN]]
      /\ \A m, n \in CgNode : HeldOf(m, n, nbr[m][n], ahead[m][n], unheard[m][n])
  BY DEF CgIndInv
<1>2. ASSUME NEW n \in CgNode, Broadcast(n) PROVE CgIndInv' /\ ToldWhenMissed
  <2>1. PICK heard \in Reports(n), at \in SUBSET (up \ {n}), known \in SUBSET CgNode, echo \in BOOLEAN, r \in [CgNode -> CgRadio] :
          LET all   == at = up \ {n} /\ known = CgNode
              takes == {m \in at \cup (IF echo THEN {n} ELSE {}) : ~Refused(m, n)}
          IN /\ known \in (SUBSET at) \cup {CgNode} /\ (~all => cgFaults < CgFaults)
             /\ \A m \in CgNode \ takes : r[m] = CHOOSE x \in CgRadio : TRUE
             /\ cgFaults' = cgFaults + (IF all THEN 0 ELSE 1)
             /\ nbr' = [m \in CgNode |-> IF m \in takes
                          THEN [nbr[m] EXCEPT ![n] = Ingested(m, n, r[m], m \in known, heard)] ELSE nbr[m]]
             /\ ahead' = [m \in CgNode |-> [ahead[m] EXCEPT ![n] =
                            IF m \in takes THEN 0 ELSE IF @ = CgNone THEN @ ELSE Capped(@ + 1)]]
             /\ unheard' = [m \in CgNode |-> [unheard[m] EXCEPT ![n] = m \notin takes]]
    BY <1>2, Zenon DEF Broadcast
  <2>2. sent' = sent \cup {n} /\ up' = up
    BY <1>2 DEF Broadcast
  <2> DEFINE takes == {m \in at \cup (IF echo THEN {n} ELSE {}) : ~Refused(m, n)}
             new(m) == Ingested(m, n, r[m], m \in known, heard)
             dist(m) == IF m \in takes THEN 0 ELSE IF ahead[m][n] = CgNone THEN CgNone ELSE Capped(ahead[m][n] + 1)
  <2>3. \A m \in takes : m \in CgNode /\ m # n
    BY <1>1 DEF Refused
  <2>4. ASSUME NEW m \in takes
        PROVE  /\ HeldOf(m, n, new(m), 0, FALSE) /\ new(m) \in Neighbour /\ 0 \in Distance
               /\ TRUE \in new(m).loss \ nbr[m][n].loss => unheard[m][n]
    <3>1. (m \in known) \in BOOLEAN /\ m \in CgNode /\ m # n /\ r[m] \in CgRadio
      BY <2>3
    <3> QED BY <3>1, IngestedHeld
  <2> HIDE DEF takes, new
  <2>5. /\ nbr' = [m \in CgNode |-> IF m \in takes THEN [nbr[m] EXCEPT ![n] = new(m)] ELSE nbr[m]]
        /\ ahead' = [m \in CgNode |-> [ahead[m] EXCEPT ![n] = dist(m)]]
        /\ unheard' = [m \in CgNode |-> [unheard[m] EXCEPT ![n] = m \notin takes]]
    BY <2>1 DEF takes, new
  <2>6. ASSUME NEW m \in CgNode \ takes
        PROVE  HeldOf(m, n, nbr[m][n], dist(m), TRUE) /\ dist(m) \in Distance
    <3>1. HeldOf(m, n, nbr[m][n], ahead[m][n], unheard[m][n]) /\ ahead[m][n] \in Distance
      BY <1>1
    <3>2. dist(m) \in Distance /\ (dist(m) = CgNone <=> ahead[m][n] = CgNone)
      BY <3>1, CgAssumption DEF Distance, Capped
    <3> HIDE DEF dist
    <3> QED BY <3>1, <3>2 DEF HeldOf
  <2>7. ASSUME NEW m \in CgNode, NEW p \in CgNode
        PROVE  /\ HeldOf(m, p, nbr'[m][p], ahead'[m][p], unheard'[m][p])
               /\ nbr'[m][p] \in Neighbour /\ ahead'[m][p] \in Distance /\ unheard'[m][p] \in BOOLEAN
               /\ TRUE \in nbr'[m][p].loss \ nbr[m][p].loss => unheard[m][p]
    <3>1. CASE p # n
      <4>1. nbr'[m][p] = nbr[m][p] /\ ahead'[m][p] = ahead[m][p] /\ unheard'[m][p] = unheard[m][p]
        BY <3>1, <1>1, <2>5
      <4> QED BY <4>1, <1>1
    <3>2. CASE p = n /\ m \in takes
      <4>1. nbr'[m][p] = new(m) /\ ahead'[m][p] = 0 /\ unheard'[m][p] = FALSE
        BY <3>2, <1>1, <2>5
      <4> QED BY <3>2, <4>1, <2>4
    <3>3. CASE p = n /\ m \notin takes
      <4>1. nbr'[m][p] = nbr[m][p] /\ ahead'[m][p] = dist(m) /\ unheard'[m][p] = TRUE
        BY <3>3, <1>1, <2>5
      <4>2. HeldOf(m, n, nbr[m][n], dist(m), TRUE) /\ dist(m) \in Distance
        BY <3>3, <2>6
      <4>3. nbr[m][n] \in Neighbour
        BY <1>1
      <4> HIDE DEF dist
      <4> QED BY <3>3, <4>1, <4>2, <4>3
    <3> QED BY <3>1, <3>2, <3>3
  <2> HIDE DEF dist
  <2>8. /\ nbr' \in [CgNode -> [CgNode -> Neighbour]] /\ ahead' \in [CgNode -> [CgNode -> Distance]]
        /\ unheard' \in [CgNode -> [CgNode -> BOOLEAN]]
    <3>1. \A m \in CgNode : /\ DOMAIN nbr'[m] = CgNode /\ nbr'[m] = [p \in CgNode |-> nbr'[m][p]]
                            /\ ahead'[m] = [p \in CgNode |-> ahead'[m][p]] /\ unheard'[m] = [p \in CgNode |-> unheard'[m][p]]
      BY <1>1, <2>5
    <3>2. /\ \A m \in CgNode : nbr'[m] \in [CgNode -> Neighbour]
          /\ \A m \in CgNode : ahead'[m] \in [CgNode -> Distance]
          /\ \A m \in CgNode : unheard'[m] \in [CgNode -> BOOLEAN]
      BY <2>7, <3>1
    <3>3. nbr' = [m \in CgNode |-> nbr'[m]] /\ ahead' = [m \in CgNode |-> ahead'[m]] /\ unheard' = [m \in CgNode |-> unheard'[m]]
      BY <2>5
    <3> QED BY <3>2, <3>3
  <2> QED BY <1>1, <2>2, <2>7, <2>8 DEF CgIndInv, ToldWhenMissed
<1>3. ASSUME Interval PROVE CgIndInv' /\ ToldWhenMissed
  <2> DEFINE new(m, n) == [nbr[m][n] EXCEPT !.seen = IF @ = CgNone \/ @ > StaleAge THEN @ ELSE @ + 1]
  <2>1. /\ nbr' = [m \in CgNode |-> [n \in CgNode |-> new(m, n)]]
        /\ sent' = {} /\ up' = up /\ ahead' = ahead /\ unheard' = unheard
    BY <1>3 DEF Interval
  <2>2. ASSUME NEW m \in CgNode, NEW n \in CgNode
        PROVE  /\ HeldOf(m, n, new(m, n), ahead[m][n], unheard[m][n]) /\ new(m, n) \in Neighbour
               /\ new(m, n).loss = nbr[m][n].loss
    <3>1. HeldOf(m, n, nbr[m][n], ahead[m][n], unheard[m][n]) /\ nbr[m][n] \in Neighbour
      BY <1>1
    <3>2. /\ new(m, n) \in Neighbour /\ (new(m, n).seen = CgNone <=> nbr[m][n].seen = CgNone)
          /\ new(m, n).loss = nbr[m][n].loss /\ new(m, n).in = nbr[m][n].in /\ new(m, n).out = nbr[m][n].out
      BY <3>1, CgAssumption DEF Neighbour
    <3> HIDE DEF new
    <3> QED BY <3>1, <3>2 DEF HeldOf
  <2> HIDE DEF new
  <2> QED BY <1>1, <2>1, <2>2 DEF CgIndInv, ToldWhenMissed
<1>4. ASSUME NEW n \in CgNode, Crash(n) PROVE CgIndInv' /\ ToldWhenMissed
  BY <1>1, <1>4 DEF Crash, CgIndInv, ToldWhenMissed
<1>5. ASSUME NEW n \in CgNode, CgRestart(n) PROVE CgIndInv' /\ ToldWhenMissed
  <2>1. PICK back \in [CgNode -> -Back .. -1] :
          ahead' = [m \in CgNode |-> [p \in CgNode |->
            IF m = n THEN CgNone ELSE IF p = n /\ ahead[m][p] # CgNone THEN back[m] ELSE ahead[m][p]]]
    BY <1>5 DEF CgRestart
  <2>2. /\ nbr' = [nbr EXCEPT ![n] = [p \in CgNode |-> Unknown]] /\ unheard' = unheard
        /\ up' = up \cup {n} /\ sent' = sent \ {n}
    BY <1>5 DEF CgRestart
  <2>3. ASSUME NEW m \in CgNode, NEW p \in CgNode
        PROVE  /\ HeldOf(m, p, nbr'[m][p], ahead'[m][p], unheard[m][p])
               /\ nbr'[m][p] \in Neighbour /\ ahead'[m][p] \in Distance
               /\ TRUE \notin nbr'[m][p].loss \ nbr[m][p].loss
    <3>0. HeldOf(m, p, nbr[m][p], ahead[m][p], unheard[m][p]) /\ nbr[m][p] \in Neighbour /\ ahead[m][p] \in Distance
          /\ unheard[m][p] \in BOOLEAN
      BY <1>1
    <3>1. CASE m = n
      <4>1. nbr'[m][p] = Unknown /\ ahead'[m][p] = CgNone /\ Unknown.loss = {}
        BY <3>1, <1>1, <2>1, <2>2 DEF Unknown
      <4> QED BY <3>0, <4>1, UnknownHeld
    <3>2. CASE m # n /\ p = n /\ ahead[m][p] # CgNone
      <4>1. nbr'[m][p] = nbr[m][p] /\ ahead'[m][p] = back[m] /\ back[m] \in -Back .. -1
        BY <3>2, <1>1, <2>1, <2>2
      <4>2. back[m] \in Distance /\ back[m] # CgNone /\ ~(back[m] >= 1)
        BY <4>1, CgAssumption DEF Distance
      <4> QED BY <3>0, <3>2, <4>1, <4>2 DEF HeldOf
    <3>3. CASE m # n /\ ~(p = n /\ ahead[m][p] # CgNone)
      <4>1. nbr'[m][p] = nbr[m][p] /\ ahead'[m][p] = ahead[m][p]
        BY <3>3, <1>1, <2>1, <2>2
      <4> QED BY <3>0, <4>1
    <3> QED BY <3>1, <3>2, <3>3
  <2>4. nbr' \in [CgNode -> [CgNode -> Neighbour]]
    <3>1. Unknown \in Neighbour
      BY UnknownHeld
    <3> QED BY <1>1, <2>2, <3>1
  <2>5. ahead' \in [CgNode -> [CgNode -> Distance]]
    BY <2>1, <2>3
  <2> QED BY <1>1, <2>2, <2>3, <2>4, <2>5 DEF CgIndInv, ToldWhenMissed
<1>6. CASE UNCHANGED cgVars
  BY <1>1, <1>6 DEF cgVars, CgIndInv, ToldWhenMissed
<1> QED BY <1>2, <1>3, <1>4, <1>5, <1>6 DEF CgNext

(* What nodes hold of each other keeps the directions and the nodes apart.       *)
LEMMA CgMeans == CgIndInv => NeighbourInv
<1> SUFFICES ASSUME CgIndInv PROVE NeighbourInv
  OBVIOUS
<1>1. /\ up \subseteq CgNode /\ sent \subseteq CgNode
      /\ nbr \in [CgNode -> [CgNode -> Neighbour]] /\ ahead \in [CgNode -> [CgNode -> Distance]]
      /\ \A m, n \in CgNode : HeldOf(m, n, nbr[m][n], ahead[m][n], unheard[m][n])
  BY DEF CgIndInv
<1>2. \A m, n \in CgNode : nbr[m][n] \in Neighbour /\ ahead[m][n] \in Distance /\ (nbr[m][n].seen = CgNone <=> ahead[m][n] = CgNone)
  BY <1>1 DEF HeldOf
<1>3. \A e \in Neighbour : e.seen \in {CgNone} \cup 0 .. StaleAge + 1 /\ e.loss \subseteq BOOLEAN
  BY DEF Neighbour
<1>4. CgTypeOK
  BY <1>1, <1>2, <1>3 DEF CgTypeOK, Distance
<1>5. DirectionsNeverMix
  BY <1>1 DEF HeldOf, DirectionsNeverMix
<1>6. NeverItsOwnNeighbour
  BY <1>1 DEF HeldOf, NeverItsOwnNeighbour, Known
<1> QED BY <1>4, <1>5, <1>6 DEF NeighbourInv

(* Reception reports (sense.rs, report.rs, control.rs): what a node measured of *)
(* a neighbour and what the neighbour told of it never mix, a node is never its *)
(* own neighbour though its radios hear it, and a loss of reports is told only  *)
(* when one was missed, not when a neighbour started again: for any nodes,      *)
(* radios, limits, losses and crashes.                                          *)
THEOREM NeighboursAreToldApart == CgSpec => []NeighbourInv /\ LossOnlyWhenMissed
<1>1. CgInit => CgIndInv
  BY CgStart
<1>2. CgIndInv /\ [CgNext]_cgVars => CgIndInv'
  BY CgStep
<1>3. CgIndInv /\ [CgNext]_cgVars => [ToldWhenMissed]_cgVars
  BY CgStep
<1>4. CgIndInv => NeighbourInv
  BY CgMeans
<1>5. CgSpec => [][ToldWhenMissed]_cgVars
  BY <1>1, <1>2, <1>3, PTL DEF CgSpec
<1>6. CgSpec => LossOnlyWhenMissed
  BY <1>5 DEF ToldWhenMissed, LossOnlyWhenMissed
<1>7. CgSpec => []NeighbourInv
  BY <1>1, <1>2, <1>4, PTL DEF CgSpec
<1> QED BY <1>6, <1>7

(* ------------------------ the control loop: ControlLoop ------------------------ *)

Context == [of : ClPrefix, class : Nat, rank : Nat, tracked : BOOLEAN]

(* The contexts of a list can be put in the order of decide_all.                *)
LEMMA PlacesExist ==
  ASSUME NEW active \in Seq(Context)
  PROVE  \E place \in [DOMAIN active -> DOMAIN active] :
           \A i, j \in DOMAIN active : i < j => Before(active, place[i], place[j])
<1> DEFINE n == Len(active)
           D == DOMAIN active
           R == {q \in D \X D : Before(active, q[1], q[2])}
<1>1. n \in Nat /\ D = 1 .. n /\ \A i \in D : active[i].class \in Nat /\ active[i].rank \in Nat
  <2>1. n \in Nat /\ D = 1 .. n /\ \A i \in D : active[i] \in Context
    OBVIOUS
  <2> QED BY <2>1 DEF Context
<1>2. ASSUME NEW S \in SUBSET D, S # {} PROVE \E x \in S : \A y \in S \ {x} : <<x, y>> \in R
  <2> DEFINE C == {active[i].class : i \in S}
  <2>1. PICK c \in C : \A d \in C : c <= d
    <3>1. C \in SUBSET Nat /\ C # {}
      BY <1>1, <1>2
    <3> HIDE DEF C
    <3> QED BY <3>1, LeastExists
  <2> DEFINE S1 == {i \in S : active[i].class = c}
             K == {active[i].rank : i \in S1}
  <2>2. PICK k \in K : \A d \in K : k <= d
    <3>1. K \in SUBSET Nat /\ K # {}
      BY <1>1, <2>1
    <3> HIDE DEF K
    <3> QED BY <3>1, LeastExists
  <2> DEFINE S2 == {i \in S1 : active[i].rank = k}
  <2>3. PICK x \in S2 : \A y \in S2 : x <= y
    <3>1. S2 \in SUBSET Nat /\ S2 # {}
      BY <1>1, <2>2
    <3> HIDE DEF S2
    <3> QED BY <3>1, LeastExists
  <2>4. ASSUME NEW y \in S \ {x} PROVE <<x, y>> \in R
    <3>1. /\ active[x].class = c /\ active[x].rank = k /\ x \in D /\ y \in D /\ x # y
          /\ active[y].class \in Nat /\ active[y].rank \in Nat /\ c \in Nat /\ k \in Nat
      BY <1>1, <2>3
    <3>2. c <= active[y].class
      BY <2>1
    <3>3. CASE active[y].class # c
      <4>1. Below(active[x], active[y])
        BY <3>1, <3>2, <3>3 DEF Below
      <4> QED BY <3>1, <4>1 DEF Before
    <3>4. CASE active[y].class = c /\ active[y].rank # k
      <4>1. k <= active[y].rank
        BY <2>2, <3>4
      <4>2. Below(active[x], active[y])
        BY <3>1, <3>4, <4>1 DEF Below
      <4> QED BY <3>1, <4>2 DEF Before
    <3>5. CASE active[y].class = c /\ active[y].rank = k
      <4>1. x <= y /\ x \in Nat /\ y \in Nat
        BY <1>1, <2>3, <3>1, <3>5
      <4>2. x < y
        BY <3>1, <4>1
      <4>3. ~Below(active[y], active[x])
        BY <3>1, <3>5 DEF Below
      <4> QED BY <3>1, <4>2, <4>3 DEF Before
    <3> QED BY <3>3, <3>4, <3>5
  <2> QED BY <2>3, <2>4
<1>3. IsFiniteSet(D) /\ Cardinality(D) = n
  <2>1. IsFiniteSet(1 .. n) /\ Cardinality(1 .. n) = n
    <3>1. n \in Nat /\ n \in Int /\ 1 \in Int
      BY <1>1
    <3> HIDE DEF n
    <3>2. IsFiniteSet(1 .. n) /\ Cardinality(1 .. n) = IF 1 > n THEN 0 ELSE n - 1 + 1
      BY <3>1, FS_Interval
    <3> QED BY <3>1, <3>2
  <2> QED BY <1>1, <2>1
<1>4. PICK f \in [1 .. n -> D] : \A i, j \in 1 .. n : i < j => <<f[i], f[j]>> \in R
  <2>1. D \in SUBSET D
    OBVIOUS
  <2> HIDE DEF n, D, R
  <2> QED BY <1>1, <1>2, <1>3, <2>1, ListedInOrder
<1>5. f \in [D -> D] /\ \A i, j \in D : i < j => Before(active, f[i], f[j])
  BY <1>1, <1>4
<1> QED BY <1>5

(* decide_all puts each of its contexts once, none below one that it follows.    *)
LEMMA OrderedIs ==
  ASSUME NEW active \in Seq(Context), NEW order, order = Ordered(active)
  PROVE  /\ order \in Seq(Context) /\ Len(order) = Len(active)
         /\ ToSet(order) = ToSet(active)
         /\ \A i, j \in DOMAIN order : i < j => ~Below(order[j], order[i])
<1> DEFINE n == Len(active)
           D == DOMAIN active
           IsPlace(place) == place \in [D -> D] /\ \A i, j \in D : i < j => Before(active, place[i], place[j])
           place == CHOOSE place \in [D -> D] : \A i, j \in D : i < j => Before(active, place[i], place[j])
<1>1. n \in Nat /\ D = 1 .. n /\ \A i \in D : active[i] \in Context /\ active[i].class \in Nat /\ active[i].rank \in Nat
  <2>1. n \in Nat /\ D = 1 .. n /\ \A i \in D : active[i] \in Context
    OBVIOUS
  <2> QED BY <2>1 DEF Context
<1>2. place \in [D -> D] /\ \A i, j \in D : i < j => Before(active, place[i], place[j])
  BY PlacesExist
<1>3. order = [i \in D |-> active[place[i]]]
  BY DEF Ordered
<1> HIDE DEF place
<1>4. ASSUME NEW i \in D, NEW j \in D, i < j PROVE place[i] # place[j] /\ ~Below(order[j], order[i])
  <2>1. Before(active, place[i], place[j]) /\ place[i] \in D /\ place[j] \in D
    BY <1>2, <1>4
  <2>2. order[i] = active[place[i]] /\ order[j] = active[place[j]]
    BY <1>3
  <2> DEFINE a == active[place[i]]
             b == active[place[j]]
  <2>3. a.class \in Nat /\ a.rank \in Nat /\ b.class \in Nat /\ b.rank \in Nat /\ place[i] \in Nat
    BY <1>1, <2>1
  <2>4. Below(a, b) \/ (~Below(b, a) /\ place[i] < place[j])
    BY <2>1 DEF Before
  <2> HIDE DEF a, b
  <2>5. ~Below(b, a) /\ (a = b => place[i] < place[j])
    BY <2>3, <2>4 DEF Below
  <2> QED BY <2>2, <2>3, <2>5 DEF a, b
<1>5. place \in Injection(D, D)
  <2>1. ASSUME NEW i \in D, NEW j \in D, place[i] = place[j] PROVE i = j
    <3>1. i \in Nat /\ j \in Nat
      BY <1>1
    <3>2. ~(i < j) /\ ~(j < i)
      BY <1>4, <2>1
    <3> QED BY <3>1, <3>2
  <2> QED BY <1>2, <2>1 DEF Injection, IsInjective
<1>6. place \in Surjection(D, D)
  <2>1. IsFiniteSet(1 .. n)
    BY <1>1, FS_Interval
  <2>2. IsFiniteSet(D)
    BY <1>1, <2>1
  <2> HIDE DEF D
  <2> QED BY <2>2, <1>5, FS_Injection
<1>7. \A k \in D : \E i \in D : place[i] = k
  BY <1>6 DEF Surjection
<1>8. order \in Seq(Context) /\ Len(order) = n /\ DOMAIN order = D
  <2>1. order \in [1 .. n -> Context]
    BY <1>1, <1>2, <1>3
  <2> HIDE DEF n
  <2>2. order \in Seq(Context) /\ DOMAIN order = 1 .. n
    BY <2>1, <1>1
  <2>3. Len(order) = n
    BY <2>2, <1>1
  <2> QED BY <2>2, <2>3, <1>1
<1>9. ToSet(order) = ToSet(active)
  <2>1. ToSet(order) = {active[place[i]] : i \in D}
    BY <1>3, <1>8 DEF ToSet
  <2>2. ToSet(active) = {active[k] : k \in D}
    BY DEF ToSet
  <2> HIDE DEF D
  <2> QED BY <2>1, <2>2, <1>2, <1>7
<1> QED BY <1>4, <1>8, <1>9

(* The airtime used, as what the ticks of the window come to so far.            *)
WindowSum(a) ==
  LET sum[t \in 0 .. DutyWindow] == IF t = 0 THEN 0 ELSE sum[t - 1] + a[t] IN sum[DutyWindow]

LEMMA WindowSumIs ==
  ASSUME NEW a \in [1 .. DutyWindow -> Nat]
  PROVE  \E s \in [0 .. DutyWindow -> Nat] :
           s[0] = 0 /\ WindowSum(a) = s[DutyWindow] /\ \A t \in 1 .. DutyWindow : s[t] = s[t - 1] + a[t]
<1> DEFINE n == DutyWindow
           does == [t \in 1 .. n |-> [x \in Nat |-> x + a[t]]]
           Body(f) == [t \in 0 .. n |-> IF t = 0 THEN 0 ELSE f[t - 1] + a[t]]
<1>1. n \in Nat /\ n \in 0 .. n
  BY ClAssumption
<1>2. PICK f \in [0 .. n -> Nat] : f[0] = 0 /\ \A t \in 1 .. n : f[t] = does[t][f[t - 1]]
  <2>1. does \in StepsOf(Nat, n)
    BY <1>1 DEF StepsOf
  <2> HIDE DEF does, n
  <2>2. \E f : Results(Nat, n, 0, does, f)
    BY <1>1, <2>1, OneAfterAnother
  <2> QED BY <2>2 DEF Results
<1>3. f = Body(f)
  <2>1. ASSUME NEW t \in 0 .. n PROVE f[t] = Body(f)[t]
    <3>1. CASE t = 0
      BY <3>1, <1>2
    <3>2. CASE t # 0
      <4>1. t \in 1 .. n /\ f[t - 1] \in Nat
        BY <3>2, <1>1
      <4> QED BY <4>1, <1>2
    <3> QED BY <3>1, <3>2
  <2>2. Body(f) = [t \in 0 .. n |-> Body(f)[t]] /\ f = [t \in 0 .. n |-> f[t]]
    OBVIOUS
  <2> HIDE DEF n, Body
  <2> QED BY <2>1, <2>2
<1> DEFINE s == CHOOSE g : g = Body(g)
<1>4. s = Body(s)
  <2> HIDE DEF Body
  <2> QED BY <1>3
<1>5. WindowSum(a) = s[n]
  BY DEF WindowSum
<1> HIDE DEF s
<1>6. s[0] = 0 /\ \A t \in 1 .. n : s[t] = s[t - 1] + a[t]
  <2>1. \A t \in 0 .. n : s[t] = Body(s)[t]
    BY <1>4
  <2>2. \A t \in 0 .. n : s[t] = IF t = 0 THEN 0 ELSE s[t - 1] + a[t]
    BY <2>1
  <2> QED BY <2>2, <1>1
<1>7. \A t \in Nat : t \in 0 .. n => s[t] \in Nat
  <2> DEFINE G == {t \in Nat : t \in 0 .. n => s[t] \in Nat}
  <2>1. 0 \in G
    BY <1>6
  <2>2. ASSUME NEW t \in Nat, t \in G PROVE t + 1 \in G
    <3> SUFFICES ASSUME t + 1 \in 0 .. n PROVE s[t + 1] \in Nat
      OBVIOUS
    <3>1. s[t] \in Nat /\ t + 1 \in 1 .. n /\ (t + 1) - 1 = t
      BY <2>2, <1>1
    <3>2. s[t + 1] = s[t] + a[t + 1] /\ a[t + 1] \in Nat
      BY <3>1, <1>6
    <3> QED BY <3>1, <3>2
  <2> HIDE DEF G
  <2>3. \A t \in Nat : t \in G
    BY <2>1, <2>2, FromNought
  <2> QED BY <2>3 DEF G
<1>8. s \in [0 .. n -> Nat]
  <2> DEFINE h == Body(s)
  <2>1. h = [t \in 0 .. n |-> h[t]]
    OBVIOUS
  <2>2. h = s
    BY <1>4
  <2> HIDE DEF h, n
  <2> QED BY <2>1, <2>2, <1>1, <1>7
<1> QED BY <1>5, <1>6, <1>8

(* A tick charges what it plans and forgets the oldest.                          *)
LEMMA WindowMoves ==
  ASSUME NEW a \in [1 .. DutyWindow -> Nat], NEW b \in [1 .. DutyWindow -> Nat],
         \A t \in 1 .. DutyWindow : t # 1 => b[t] = a[t - 1]
  PROVE  WindowSum(a) \in Nat /\ WindowSum(b) \in Nat /\ WindowSum(b) <= b[1] + WindowSum(a)
<1> DEFINE n == DutyWindow
<1>1. n \in Nat /\ n # 0 /\ n \in 0 .. n /\ n - 1 \in 0 .. n /\ 1 \in 1 .. n /\ n \in 1 .. n
  BY ClAssumption
<1>2. PICK s \in [0 .. n -> Nat] : s[0] = 0 /\ WindowSum(a) = s[n] /\ \A t \in 1 .. n : s[t] = s[t - 1] + a[t]
  BY WindowSumIs
<1>3. PICK u \in [0 .. n -> Nat] : u[0] = 0 /\ WindowSum(b) = u[n] /\ \A t \in 1 .. n : u[t] = u[t - 1] + b[t]
  BY WindowSumIs
<1>4. s[n] \in Nat /\ u[n] \in Nat /\ s[n - 1] \in Nat /\ a[n] \in Nat /\ b[1] \in Nat
  BY <1>1, <1>2, <1>3
<1> DEFINE G == {t \in Nat : t + 1 \in 1 .. n => u[t + 1] = b[1] + s[t]}
<1>5. 0 \in G
  <2>1. u[1] = u[1 - 1] + b[1] /\ 1 - 1 = 0 /\ 0 + 1 = 1
    BY <1>1, <1>3
  <2> QED BY <2>1, <1>2, <1>3, <1>4
<1>6. ASSUME NEW t \in Nat, t \in G PROVE t + 1 \in G
  <2> SUFFICES ASSUME t + 2 \in 1 .. n PROVE u[t + 2] = b[1] + s[t + 1]
    <3>1. (t + 1) + 1 = t + 2
      OBVIOUS
    <3> QED BY <3>1
  <2>1. t + 1 \in 1 .. n /\ t + 2 # 1 /\ t \in 0 .. n /\ (t + 2) - 1 = t + 1 /\ (t + 1) - 1 = t
    BY <1>1
  <2>2. u[t + 1] = b[1] + s[t]
    BY <1>6, <2>1
  <2>3. u[t + 2] = u[t + 1] + b[t + 2] /\ b[t + 2] = a[t + 1] /\ s[t + 1] = s[t] + a[t + 1]
    BY <2>1, <1>2, <1>3
  <2>4. s[t] \in Nat /\ a[t + 1] \in Nat
    BY <2>1, <1>2
  <2> QED BY <2>2, <2>3, <2>4, <1>4
<1> HIDE DEF G
<1>7. \A t \in Nat : t \in G
  BY <1>5, <1>6, FromNought
<1>8. u[n] = b[1] + s[n - 1]
  <2>1. n - 1 \in Nat /\ (n - 1) + 1 = n
    BY <1>1
  <2> QED BY <2>1, <1>1, <1>7 DEF G
<1>9. s[n] = s[n - 1] + a[n]
  BY <1>1, <1>2
<1> QED BY <1>2, <1>3, <1>4, <1>8, <1>9

(* A window in which nothing was planned is empty.                               *)
LEMMA EmptyWindow ==
  ASSUME NEW a, a = [t \in 1 .. DutyWindow |-> 0]
  PROVE  WindowSum(a) = 0
<1> DEFINE n == DutyWindow
<1>1. n \in Nat /\ a \in [1 .. n -> Nat]
  BY ClAssumption
<1>2. PICK s \in [0 .. n -> Nat] : s[0] = 0 /\ WindowSum(a) = s[n] /\ \A t \in 1 .. n : s[t] = s[t - 1] + a[t]
  BY <1>1, WindowSumIs
<1> DEFINE G == {t \in Nat : t \in 0 .. n => s[t] = 0}
<1>3. 0 \in G
  BY <1>2
<1>4. ASSUME NEW t \in Nat, t \in G PROVE t + 1 \in G
  <2> SUFFICES ASSUME t + 1 \in 0 .. n PROVE s[t + 1] = 0
    OBVIOUS
  <2>1. t \in 0 .. n /\ t + 1 \in 1 .. n /\ (t + 1) - 1 = t
    BY <1>1
  <2>2. s[t + 1] = s[t] + a[t + 1] /\ a[t + 1] = 0
    BY <2>1, <1>2
  <2> QED BY <2>1, <2>2, <1>4
<1> HIDE DEF G
<1>5. \A t \in Nat : t \in G
  BY <1>3, <1>4, FromNought
<1> QED BY <1>1, <1>2, <1>5 DEF G

(* ----------------------------------- demand ----------------------------------- *)
Ages  == {ClNone} \cup 0 .. StaleIdle + 1
Entry == [face : [ClFace -> Ages], idle : Ages, miss : BOOLEAN]

(* What the PIT shows of a prefix whose last unanswered Interest is w old: the   *)
(* record of it, none older than the last activity and none that was answered.   *)
Demanded(e, w) ==
  /\ e.idle = ClNone => e = Untracked
  /\ \A f \in ClFace : e.face[f] # ClNone =>
       e.idle # ClNone /\ e.idle <= e.face[f] /\ w # ClNone /\ w <= e.face[f]
  /\ w # ClNone /\ w <= Lifetime => \E f \in ClFace : e.face[f] = w

LEMMA UntrackedIs == Untracked \in Entry /\ Untracked.idle = ClNone /\ \A f \in ClFace : Untracked.face[f] = ClNone
BY DEF Untracked, Entry, Ages

(* Time passes for an age, and never turns two of them round.                    *)
LEMMA AgeIs ==
  ASSUME NEW x \in Ages
  PROVE  /\ Aged1(x) \in Ages /\ (Aged1(x) = ClNone <=> x = ClNone)
         /\ x # ClNone /\ Aged1(x) <= StaleIdle => Aged1(x) = x + 1 /\ x \in Nat
         /\ \A y \in Ages : x # ClNone /\ y # ClNone /\ x <= y => Aged1(x) <= Aged1(y)
<1>1. StaleIdle \in Nat /\ ClNone \notin Int
  BY ClAssumption
<1>2. ASSUME NEW z \in Ages, z # ClNone
      PROVE  z \in 0 .. StaleIdle + 1 /\ z \in Nat /\ Aged1(z) = IF z > StaleIdle THEN z ELSE z + 1
  BY <1>1, <1>2 DEF Ages, Aged1
<1>3. CASE x = ClNone
  BY <1>3 DEF Aged1, Ages
<1>4. CASE x # ClNone
  <2>1. x \in 0 .. StaleIdle + 1 /\ Aged1(x) = IF x > StaleIdle THEN x ELSE x + 1
    BY <1>2, <1>4
  <2>2. Aged1(x) \in 0 .. StaleIdle + 1
    BY <2>1, <1>1
  <2>3. Aged1(x) \in Ages /\ Aged1(x) # ClNone
    BY <2>2, <1>1 DEF Ages
  <2>4. Aged1(x) <= StaleIdle => Aged1(x) = x + 1
    BY <2>1, <1>1
  <2>5. ASSUME NEW y \in Ages, y # ClNone, x <= y PROVE Aged1(x) <= Aged1(y)
    <3>1. y \in 0 .. StaleIdle + 1 /\ Aged1(y) = IF y > StaleIdle THEN y ELSE y + 1
      BY <1>2, <2>5
    <3> QED BY <3>1, <2>1, <2>5, <1>1
  <2> QED BY <2>1, <2>3, <2>4, <2>5, <1>4
<1> QED BY <1>3, <1>4

(* A tick ages and prunes: what is left shows as wanted what is.                 *)
LEMMA TickDemand ==
  ASSUME NEW p \in ClPrefix, pit \in [ClPrefix -> Entry], NEW w \in Ages, Demanded(pit[p], w)
  PROVE  /\ Pruned(AgedPit)[p] \in Entry /\ Demanded(Pruned(AgedPit)[p], Aged1(w))
         /\ (\E f \in ClFace : Within(Pruned(AgedPit)[p].face[f], Lifetime)) <=> Within(Aged1(w), Lifetime)
<1> DEFINE e  == pit[p]
           aged == AgedPit[p]
           q  == Pruned(AgedPit)[p]
           v  == Aged1(w)
<1>1. /\ e \in Entry /\ e.idle \in Ages /\ \A f \in ClFace : e.face[f] \in Ages
  BY DEF Entry
<1>2. /\ Lifetime \in Nat /\ StaleIdle \in Nat /\ Lifetime <= StaleIdle /\ ClNone \notin Int
  BY ClAssumption
<1>3. aged = [face |-> [f \in ClFace |-> Aged1(e.face[f])], idle |-> Aged1(e.idle), miss |-> e.miss]
  BY <1>1 DEF AgedPit, Entry
<1>4. q = IF Within(aged.idle, StaleIdle) THEN aged ELSE Untracked
  BY DEF Pruned
<1>5. aged \in Entry
  <2>1. \A f \in ClFace : Aged1(e.face[f]) \in Ages
    BY <1>1, AgeIs
  <2>2. Aged1(e.idle) \in Ages /\ e.miss \in BOOLEAN
    BY <1>1, AgeIs DEF Entry
  <2> QED BY <1>3, <2>1, <2>2 DEF Entry
<1> HIDE DEF aged, q
<1>6. q \in Entry
  BY <1>4, <1>5, UntrackedIs
<1>7. q.idle = ClNone => q = Untracked
  BY <1>4 DEF Within
<1>8. ASSUME NEW f \in ClFace, q.face[f] # ClNone
      PROVE  /\ q.idle # ClNone /\ q.idle <= q.face[f] /\ v # ClNone /\ v <= q.face[f] /\ q.face[f] \in Ages
  <2>1. q = aged
    BY <1>4, <1>8, UntrackedIs
  <2>2. q.face[f] = Aged1(e.face[f]) /\ q.idle = Aged1(e.idle)
    BY <2>1, <1>3
  <2>3. e.face[f] # ClNone
    BY <2>2, <1>1, <1>8, AgeIs
  <2>4. e.idle # ClNone /\ e.idle <= e.face[f] /\ w # ClNone /\ w <= e.face[f]
    BY <2>3 DEF Demanded
  <2>5. q.idle # ClNone /\ q.idle <= q.face[f]
    BY <2>2, <2>3, <2>4, <1>1, AgeIs
  <2>6. v # ClNone /\ v <= q.face[f]
    BY <2>2, <2>3, <2>4, <1>1, AgeIs
  <2>7. q.face[f] \in Ages
    BY <2>2, <1>1, AgeIs
  <2> QED BY <2>5, <2>6, <2>7
<1>9. ASSUME v # ClNone, v <= Lifetime PROVE \E f \in ClFace : q.face[f] = v /\ v \in Nat
  <2>1. w # ClNone /\ v \in Ages
    BY <1>9, AgeIs
  <2>2. v \in 0 .. StaleIdle + 1 /\ v <= StaleIdle
    BY <2>1, <1>2, <1>9 DEF Ages
  <2>3. v = w + 1 /\ w \in Nat
    BY <2>1, <2>2, AgeIs
  <2>4. w <= Lifetime
    BY <2>3, <1>2, <1>9
  <2>5. PICK f \in ClFace : e.face[f] = w
    BY <2>1, <2>4 DEF Demanded
  <2>6. e.idle # ClNone /\ e.idle <= w
    BY <2>1, <2>5 DEF Demanded
  <2>7. Aged1(e.idle) <= v /\ Aged1(e.idle) # ClNone /\ Aged1(e.idle) \in Ages
    BY <2>1, <2>6, <1>1, AgeIs
  <2>8. Aged1(e.idle) \in 0 .. StaleIdle + 1
    BY <2>7 DEF Ages
  <2>9. Aged1(e.idle) <= StaleIdle
    BY <2>2, <2>7, <2>8, <1>2
  <2>10. Within(aged.idle, StaleIdle)
    BY <2>7, <2>9, <1>3 DEF Within
  <2>11. q.face[f] = Aged1(e.face[f])
    BY <2>10, <1>3, <1>4
  <2> QED BY <2>2, <2>5, <2>11
<1>10. Demanded(q, v)
  BY <1>7, <1>8, <1>9 DEF Demanded
<1>11. (\E f \in ClFace : Within(q.face[f], Lifetime)) <=> Within(v, Lifetime)
  <2>1. ASSUME NEW f \in ClFace, Within(q.face[f], Lifetime) PROVE Within(v, Lifetime)
    <3>1. q.face[f] # ClNone /\ q.face[f] <= Lifetime
      BY <2>1 DEF Within
    <3>2. v # ClNone /\ v <= q.face[f] /\ q.face[f] \in Ages /\ v \in Ages
      BY <3>1, <1>8, AgeIs
    <3>3. v \in Nat /\ q.face[f] \in Nat
      BY <3>1, <3>2, <1>2 DEF Ages
    <3>4. v <= Lifetime
      BY <3>1, <3>2, <3>3, <1>2
    <3> QED BY <3>2, <3>4 DEF Within
  <2>2. ASSUME Within(v, Lifetime) PROVE \E f \in ClFace : Within(q.face[f], Lifetime)
    <3>1. v # ClNone /\ v <= Lifetime
      BY <2>2 DEF Within
    <3>2. PICK f \in ClFace : q.face[f] = v
      BY <3>1, <1>9
    <3> QED BY <3>1, <3>2 DEF Within
  <2> QED BY <2>1, <2>2
<1> QED BY <1>6, <1>10, <1>11 DEF q

(* What is tracked is a context for each prefix that a face waits for.           *)
Most == {Cardinality(ClPrefix)} \cup {Len(s) : s \in Fallbacks}
Awaited(q) == {p \in ClPrefix : \E f \in ClFace : Within(q[p].face[f], Lifetime)}

LEMMA TrackedIs ==
  ASSUME NEW q
  PROVE  /\ Tracked(q) \subseteq Context /\ IsFiniteSet(Tracked(q))
         /\ Cardinality(Tracked(q)) \in Nat /\ Cardinality(Tracked(q)) <= Cardinality(ClPrefix)
         /\ \A c \in Tracked(q) : c.tracked /\ c.of \in Awaited(q)
         /\ \A p \in Awaited(q) : \E c \in Tracked(q) : c.of = p
<1> DEFINE Faces(p) == {f \in ClFace : Within(q[p].face[f], Lifetime)}
           fan(p) == Cardinality(Faces(p))
           W == {p \in ClPrefix : fan(p) > 0}
           c(p) == [of |-> p, class |-> 1, rank |-> fan(p) + (IF q[p].miss THEN 1 ELSE 0), tracked |-> TRUE]
<1>1. IsFiniteSet(ClPrefix) /\ IsFiniteSet(ClFace)
  BY ClAssumption
<1>2. Tracked(q) = {c(p) : p \in W}
  BY DEF Tracked
<1>3. ASSUME NEW p \in ClPrefix PROVE fan(p) \in Nat /\ (fan(p) > 0 <=> p \in Awaited(q))
  <2>1. IsFiniteSet(Faces(p))
    BY <1>1, FS_Subset
  <2> DEFINE F == Faces(p)
  <2>2. F # {} <=> p \in Awaited(q)
    BY DEF Awaited
  <2>3. IsFiniteSet(F) /\ fan(p) = Cardinality(F)
    BY <2>1
  <2> HIDE DEF F, fan
  <2>4. Cardinality(F) \in Nat /\ (Cardinality(F) = 0 <=> F = {})
    BY <2>3, FS_CardinalityType, FS_EmptySet
  <2> QED BY <2>2, <2>3, <2>4
<1> HIDE DEF fan
<1>4. W \subseteq ClPrefix /\ W = Awaited(q)
  BY <1>3 DEF Awaited
<1> DEFINE g == [p \in W |-> c(p)]
<1>5. g \in Surjection(W, Tracked(q))
  BY <1>2 DEF Surjection
<1>6. IsFiniteSet(W) /\ Cardinality(W) <= Cardinality(ClPrefix)
  <2> HIDE DEF W
  <2> QED BY <1>1, <1>4, FS_Subset
<1>7. IsFiniteSet(Tracked(q)) /\ Cardinality(Tracked(q)) <= Cardinality(W)
  <2> HIDE DEF W, g
  <2> QED BY <1>5, <1>6, FS_Surjection
<1>8. Cardinality(Tracked(q)) \in Nat /\ Cardinality(W) \in Nat /\ Cardinality(ClPrefix) \in Nat
  <2> HIDE DEF W
  <2> QED BY <1>1, <1>6, <1>7, FS_CardinalityType
<1>9. \A p \in W : c(p) \in Context
  BY <1>3 DEF Context
<1>10. \A d \in Tracked(q) : d \in Context /\ d.tracked /\ d.of \in Awaited(q)
  BY <1>2, <1>4, <1>9
<1>11. \A p \in Awaited(q) : \E d \in Tracked(q) : d.of = p
  <2>1. \A p \in W : c(p).of = p
    OBVIOUS
  <2> HIDE DEF c, W
  <2> QED BY <1>2, <1>4, <2>1
<1>12. Cardinality(Tracked(q)) <= Cardinality(ClPrefix)
  <2> HIDE DEF W
  <2> QED BY <1>6, <1>7, <1>8
<1> QED BY <1>7, <1>8, <1>10, <1>11, <1>12

(* The contexts a tick decides: those tracked, or else those set by hand.        *)
LEMMA ActiveIs ==
  ASSUME NEW q, byHand \in Fallbacks \cup {<<>>},
         NEW active \in IF Tracked(q) # {} THEN SetToSeqs(Tracked(q)) ELSE {byHand}
  PROVE  /\ active \in Seq(Context) /\ \E most \in Most : most \in Nat /\ Len(active) <= most
         /\ IF Awaited(q) = {} THEN \A x \in ToSet(active) : ~x.tracked
            ELSE (\A x \in ToSet(active) : x.tracked) /\ {x.of : x \in ToSet(active)} = Awaited(q)
<1> DEFINE T == Tracked(q)
           n == Cardinality(T)
<1>1. /\ T \subseteq Context /\ n \in Nat /\ n <= Cardinality(ClPrefix) /\ IsFiniteSet(T)
      /\ \A x \in T : x.tracked /\ x.of \in Awaited(q)
      /\ \A p \in Awaited(q) : \E x \in T : x.of = p
  BY TrackedIs
<1>2. Cardinality(ClPrefix) \in Most /\ Cardinality(ClPrefix) \in Nat
  BY ClAssumption, FS_CardinalityType DEF Most
<1>3. CASE T # {}
  <2>1. active \in [1 .. n -> T] /\ \A i, j \in 1 .. n : i # j => active[i] # active[j]
    BY <1>3 DEF SetToSeqs
  <2> HIDE DEF T, n
  <2>2. active \in Injection(1 .. n, T)
    BY <2>1 DEF Injection, IsInjective
  <2>3. IsFiniteSet(1 .. n) /\ Cardinality(1 .. n) = n
    <3>1. n \in Int /\ 1 \in Int
      BY <1>1
    <3>2. IsFiniteSet(1 .. n) /\ Cardinality(1 .. n) = IF 1 > n THEN 0 ELSE n - 1 + 1
      BY <3>1, FS_Interval
    <3> QED BY <3>1, <3>2, <1>1
  <2>4. active \in Surjection(1 .. n, T)
    <3>1. Cardinality(1 .. n) = Cardinality(T)
      BY <2>3 DEF n
    <3> QED BY <1>1, <2>2, <3>1, FS_Injection
  <2>5. DOMAIN active = 1 .. n /\ active \in Seq(Context) /\ Len(active) = n
    BY <2>1, <1>1
  <2>6. ToSet(active) = T
    BY <2>1, <2>4, <2>5 DEF Surjection, ToSet
  <2>7. Awaited(q) # {}
    BY <1>1, <1>3
  <2>8. {x.of : x \in T} = Awaited(q)
    BY <1>1
  <2> QED BY <1>1, <1>2, <2>5, <2>6, <2>7, <2>8
<1>4. CASE T = {}
  <2>1. active = byHand /\ Awaited(q) = {}
    BY <1>1, <1>4
  <2>2. CASE byHand = <<>>
    <3>1. active \in Seq(Context) /\ Len(active) = 0 /\ ToSet(active) = {}
      BY <2>1, <2>2 DEF ToSet
    <3>2. 0 <= Cardinality(ClPrefix)
      BY <1>2
    <3> QED BY <2>1, <3>1, <3>2, <1>2
  <2>3. CASE byHand \in Fallbacks
    <3> DEFINE H == [of : ClPrefix, class : Nat, rank : Nat, tracked : {FALSE}]
    <3>1. active \in Seq(H)
      BY <2>1, <2>3, ClAssumption
    <3>2. \A i \in DOMAIN active : active[i] \in H
      <4> HIDE DEF H
      <4> QED BY <3>1
    <3>3. \A i \in DOMAIN active : active[i] \in Context /\ ~active[i].tracked
      BY <3>2 DEF Context
    <3>4. active \in Seq(Context) /\ Len(active) \in Nat
      BY <3>1, <3>3
    <3>5. Len(active) \in Most
      BY <2>1, <2>3 DEF Most
    <3>6. \A x \in ToSet(active) : ~x.tracked
      BY <3>3 DEF ToSet
    <3>7. Len(active) <= Len(active)
      BY <3>4
    <3> QED BY <2>1, <3>4, <3>5, <3>6, <3>7
  <2> QED BY <2>2, <2>3
<1> QED BY <1>3, <1>4

(* The last of some plans.                                                       *)
LEMMA LatestIs ==
  ASSUME NEW n \in Nat, NEW S \in SUBSET (1 .. n), S # {}
  PROVE  Latest(S) \in S /\ \A j \in S : j <= Latest(S)
<1>1. S \in SUBSET (0 .. n)
  OBVIOUS
<1>2. \E i \in S : \A j \in S : j <= i
  BY <1>1, HighestExists
<1> QED BY <1>2 DEF Latest

(* A rate refined by an arm is one the radio has.                                *)
LEMMA RefinedIs ==
  ASSUME NEW base \in Int, NEW arm \in Int
  PROVE  Refined(base, arm) \in 0 .. MaxRate
<1>1. MaxRate \in Nat
  BY ClAssumption
<1> QED BY <1>1 DEF Refined, Clamp, Larger, Smaller

ClIndInv ==
  /\ LoopInv
  /\ pit \in [ClPrefix -> Entry] /\ wanted \in [ClPrefix -> Ages]
  /\ \A p \in ClPrefix : Demanded(pit[p], wanted[p])
  /\ byHand \in Fallbacks \cup {<<>>}
  /\ radio \in [ClRadio -> {ClNone} \cup [by : Nat, rate : Int]]
  /\ air \in [ClRadio -> [1 .. DutyWindow -> Nat]]

(* At first nothing is wanted, planned or charged.                               *)
LEMMA ClStart == ClInit => ClIndInv
<1> SUFFICES ASSUME ClInit PROVE ClIndInv
  OBVIOUS
<1>1. /\ pit = [p \in ClPrefix |-> Untracked] /\ byHand = <<>> /\ plans = <<>>
      /\ radio = [r \in ClRadio |-> ClNone] /\ arms = [r \in ClRadio |-> ClNone]
      /\ lastTx = [r \in ClRadio |-> ClNone] /\ probes = 0
      /\ air = [r \in ClRadio |-> [t \in 1 .. DutyWindow |-> 0]]
      /\ wanted = [p \in ClPrefix |-> ClNone] /\ live = {}
  BY DEF ClInit
<1>2. Probing \in Nat \ {0} /\ DutyMax \in Nat /\ DutyWindow \in Nat
  BY ClAssumption
<1>3. ClTypeOK
  BY <1>1, <1>2 DEF ClTypeOK
<1>4. MostWantedOwnsTheRadio /\ PlansAreForLiveInterests /\ ArmsAreOfTheirOwnPlan
  <2>1. DOMAIN plans = {}
    BY <1>1
  <2> QED BY <2>1, <1>1 DEF MostWantedOwnsTheRadio, PlansAreForLiveInterests, ArmsAreOfTheirOwnPlan, LastOn
<1>5. DutyOverrunIsOneTick
  <2> SUFFICES ASSUME NEW r \in ClRadio
               PROVE  \E most \in Most : DutyUsed(r) <= Minus(DutyMax, 1) + most
    BY DEF DutyOverrunIsOneTick, Most
  <2>1. WindowSum(air[r]) = 0
    <3> DEFINE a == air[r]
    <3>1. a = [t \in 1 .. DutyWindow |-> 0]
      BY <1>1
    <3> HIDE DEF a
    <3>2. WindowSum(a) = 0
      BY <3>1, EmptyWindow
    <3> QED BY <3>2 DEF a
  <2>2. DutyUsed(r) = 0
    BY <2>1 DEF DutyUsed, WindowSum
  <2>3. Cardinality(ClPrefix) \in Nat /\ Cardinality(ClPrefix) \in Most
    BY ClAssumption, FS_CardinalityType DEF Most
  <2>4. Minus(DutyMax, 1) \in Nat
    BY <1>2 DEF Minus
  <2> QED BY <2>2, <2>3, <2>4
<1>6. \A p \in ClPrefix : pit[p] \in Entry /\ wanted[p] \in Ages /\ Demanded(pit[p], wanted[p])
  BY <1>1, UntrackedIs DEF Demanded, Ages
<1>7. pit \in [ClPrefix -> Entry] /\ wanted \in [ClPrefix -> Ages]
  BY <1>1, UntrackedIs DEF Ages
<1>8. /\ byHand \in Fallbacks \cup {<<>>}
      /\ radio \in [ClRadio -> {ClNone} \cup [by : Nat, rate : Int]]
      /\ air \in [ClRadio -> [1 .. DutyWindow -> Nat]]
  BY <1>1
<1> QED BY <1>3, <1>4, <1>5, <1>6, <1>7, <1>8 DEF ClIndInv, LoopInv

(* An Interest, Data and contexts set by hand leave radios and plans as they are. *)
LEMMA PlansStay ==
  ASSUME LoopInv, UNCHANGED <<plans, radio, arms, lastTx, probes, air, live>>,
         \A p \in ClPrefix : pit'[p].idle = ClNone => pit'[p] = Untracked
  PROVE  LoopInv'
<1>1. ClTypeOK'
  BY DEF LoopInv, ClTypeOK
<1>2. MostWantedOwnsTheRadio' /\ PlansAreForLiveInterests' /\ ArmsAreOfTheirOwnPlan'
  BY DEF LoopInv, MostWantedOwnsTheRadio, PlansAreForLiveInterests, ArmsAreOfTheirOwnPlan, LastOn
<1>3. DutyOverrunIsOneTick'
  BY DEF LoopInv, DutyOverrunIsOneTick, DutyUsed
<1> QED BY <1>1, <1>2, <1>3 DEF LoopInv

(* Once a tick has put its plans in order, each is as its context was refined.   *)
PlannedAs(ps, order, k, arm) ==
  ps = [i \in DOMAIN order |->
          [of |-> order[i], on |-> k[i].on, base |-> k[i].base,
           rate |-> IF k[i].on = <<>> THEN 0 ELSE Refined(k[i].base, arm[i])]]

LEMMA PlansAre ==
  ASSUME NEW order \in Seq(Context), NEW k \in [DOMAIN order -> Options], NEW ps,
         NEW arm \in [DOMAIN order -> Int], PlannedAs(ps, order, k, arm)
  PROVE  /\ DOMAIN ps = 1 .. Len(order) /\ Len(order) \in Nat /\ DOMAIN order = 1 .. Len(order)
         /\ \A i \in DOMAIN order :
              /\ ps[i].of = order[i] /\ ps[i].on \in Seq(ClRadio) /\ ps[i].rate \in 0 .. MaxRate /\ ps[i].base \in 0 .. MaxRate
              /\ \A r \in ToSet(ps[i].on) : Usable(r)
              /\ ps[i].on # <<>> => ps[i].rate = Refined(ps[i].base, arm[i])
         /\ \A r : /\ LastOn(ps, r) \in SUBSET (1 .. Len(order)) /\ LastFirst(ps, r) \in SUBSET LastOn(ps, r)
                   /\ Cardinality(LastOn(ps, r)) \in Nat /\ Cardinality(LastOn(ps, r)) <= Len(order)
                   /\ ~Usable(r) => LastOn(ps, r) = {}
                   /\ \A i \in LastOn(ps, r) : RateOn(ps[i], r) \in 0 .. MaxRate
<1> DEFINE n == Len(order)
<1>1. /\ n \in Nat /\ DOMAIN order = 1 .. n /\ DOMAIN ps = 1 .. n
  BY DEF PlannedAs
<1>2. MaxRate \in Nat /\ Rates \subseteq 0 .. MaxRate /\ Spreads \subseteq Seq(ClRadio)
  BY ClAssumption
<1>3. ASSUME NEW i \in 1 .. n
      PROVE  /\ ps[i].of = order[i] /\ ps[i].on \in Seq(ClRadio) /\ ps[i].rate \in 0 .. MaxRate /\ ps[i].base \in 0 .. MaxRate
             /\ \A r \in ToSet(ps[i].on) : Usable(r)
             /\ ps[i].on # <<>> => ps[i].rate = Refined(ps[i].base, arm[i])
  <2>1. /\ ps[i].of = order[i] /\ ps[i].on = k[i].on /\ ps[i].base = k[i].base
        /\ ps[i].rate = IF k[i].on = <<>> THEN 0 ELSE Refined(k[i].base, arm[i])
    BY <1>1 DEF PlannedAs
  <2>2. k[i].on \in Allocations /\ k[i].base \in Rates /\ arm[i] \in Int
    <3>1. k[i] \in Options
      BY <1>1
    <3> QED BY <3>1, <1>1 DEF Options
  <2>3. k[i].on \in Spreads /\ \A j \in DOMAIN k[i].on : Usable(k[i].on[j])
    BY <2>2 DEF Allocations
  <2>4. \A r \in ToSet(k[i].on) : Usable(r)
    BY <2>3 DEF ToSet
  <2>5. k[i].on \in Seq(ClRadio) /\ k[i].base \in 0 .. MaxRate /\ k[i].base \in Int
    <3> DEFINE b == k[i].base
               s == k[i].on
    <3>1. b \in Rates /\ s \in Spreads
      BY <2>2, <2>3
    <3> HIDE DEF b, s
    <3>2. b \in 0 .. MaxRate /\ s \in Seq(ClRadio)
      BY <3>1, <1>2
    <3>3. b \in Int
      BY <3>2, <1>2
    <3> QED BY <3>2, <3>3 DEF b, s
  <2>6. Refined(k[i].base, arm[i]) \in 0 .. MaxRate /\ 0 \in 0 .. MaxRate
    <3> DEFINE b == k[i].base
               a == arm[i]
    <3>1. b \in Int /\ a \in Int
      BY <2>2, <2>5
    <3> HIDE DEF a, b
    <3>2. Refined(b, a) \in 0 .. MaxRate
      BY <3>1, RefinedIs
    <3> QED BY <3>2, <1>2 DEF a, b
  <2>7. ps[i].rate \in 0 .. MaxRate
    BY <2>1, <2>6
  <2> QED BY <2>1, <2>4, <2>5, <2>7
<1>4. ASSUME NEW r
      PROVE  /\ LastOn(ps, r) \in SUBSET (1 .. n) /\ LastFirst(ps, r) \in SUBSET LastOn(ps, r)
             /\ Cardinality(LastOn(ps, r)) \in Nat /\ Cardinality(LastOn(ps, r)) <= n
             /\ ~Usable(r) => LastOn(ps, r) = {}
             /\ \A i \in LastOn(ps, r) : RateOn(ps[i], r) \in 0 .. MaxRate
  <2>1. LastOn(ps, r) \in SUBSET (1 .. n)
    BY <1>1 DEF LastOn
  <2>2. ASSUME NEW i \in LastFirst(ps, r) PROVE i \in LastOn(ps, r)
    <3>1. i \in 1 .. n /\ ps[i].on # <<>> /\ ps[i].on[1] = r
      BY <1>1, <2>2 DEF LastFirst
    <3> DEFINE s == ps[i].on
    <3>2. s \in Seq(ClRadio) /\ s # <<>>
      BY <1>3, <3>1
    <3> HIDE DEF s
    <3>3. 1 \in DOMAIN s
      BY <3>2
    <3>4. r \in ToSet(ps[i].on)
      BY <3>1, <3>3 DEF s, ToSet
    <3> QED BY <1>1, <3>1, <3>4 DEF LastOn
  <2>3. Cardinality(LastOn(ps, r)) \in Nat /\ Cardinality(LastOn(ps, r)) <= n
    <3> DEFINE S == LastOn(ps, r)
    <3>1. S \in SUBSET (1 .. n) /\ n \in Int /\ 1 \in Int /\ n \in Nat
      BY <1>1, <2>1
    <3> HIDE DEF S, n
    <3>2. IsFiniteSet(1 .. n) /\ Cardinality(1 .. n) = IF 1 > n THEN 0 ELSE n - 1 + 1
      BY <3>1, FS_Interval
    <3>3. IsFiniteSet(S) /\ Cardinality(S) <= Cardinality(1 .. n)
      BY <3>1, <3>2, FS_Subset
    <3>4. Cardinality(S) \in Nat
      BY <3>3, FS_CardinalityType
    <3> QED BY <3>1, <3>2, <3>3, <3>4 DEF S
  <2>4. ~Usable(r) => LastOn(ps, r) = {}
    BY <1>1, <1>3 DEF LastOn
  <2>5. \A i \in LastOn(ps, r) : RateOn(ps[i], r) \in 0 .. MaxRate
    BY <1>3, <2>1 DEF RateOn
  <2> QED BY <2>1, <2>2, <2>3, <2>4, <2>5
<1> QED BY <1>1, <1>3, <1>4

(* A tick: what it plans and sets is of the contexts in their order.             *)
LEMMA TickKeeps == ClIndInv /\ tick_now => ClIndInv'
<1> SUFFICES ASSUME ClIndInv, tick_now PROVE ClIndInv'
  OBVIOUS
<1> DEFINE q == Pruned(AgedPit)
           probe == learner = "probe" /\ probes + 1 = Probing
           Arm(k, i) == IF probe /\ i = 1 THEN 1 ELSE k[i].arm
           Set(order, k) ==
             /\ pit' = q
             /\ plans' = [i \in DOMAIN order |->
                            [of |-> order[i], on |-> k[i].on, base |-> k[i].base,
                             rate |-> IF k[i].on = <<>> THEN 0 ELSE Refined(k[i].base, Arm(k, i))]]
             /\ probes' = IF learner = "probe" THEN (probes + 1) % Probing ELSE probes
             /\ arms' = [r \in ClRadio |-> IF learner # "bandit" \/ LastFirst(plans', r) = {} THEN ClNone
                           ELSE [class |-> order[Latest(LastFirst(plans', r))].class, arm |-> Arm(k, Latest(LastFirst(plans', r)))]]
             /\ radio' = [r \in ClRadio |-> IF LastOn(plans', r) = {}
                            THEN IF radio[r] = ClNone THEN ClNone ELSE [radio[r] EXCEPT !.by = 0]
                            ELSE [by |-> Latest(LastOn(plans', r)),
                                  rate |-> RateOn(plans'[Latest(LastOn(plans', r))], r)]]
             /\ lastTx' = [r \in ClRadio |-> IF learner = "none" \/ LastOn(plans', r) = {} THEN lastTx[r]
                             ELSE RateOn(plans'[Latest(LastOn(plans', r))], r)]
             /\ air' = [r \in ClRadio |-> [t \in 1 .. DutyWindow |->
                          IF t = 1 THEN Cardinality(LastOn(plans', r)) ELSE air[r][t - 1]]]
             /\ wanted' = [p \in ClPrefix |-> Aged1(wanted[p])]
             /\ live' = {p \in ClPrefix : Within(wanted'[p], Lifetime)}
             /\ UNCHANGED <<learner, byHand>>
<1>1. \E active \in (IF Tracked(q) # {} THEN SetToSeqs(Tracked(q)) ELSE {byHand}) :
        \E k \in [DOMAIN Ordered(active) -> Options] : Set(Ordered(active), k)
  BY DEF tick_now, Paired
<1>2. PICK active \in (IF Tracked(q) # {} THEN SetToSeqs(Tracked(q)) ELSE {byHand}) :
        \E k \in [DOMAIN Ordered(active) -> Options] : Set(Ordered(active), k)
  <2> HIDE DEF Set
  <2> QED BY <1>1
<1> DEFINE order == Ordered(active)
<1>3. PICK k \in [DOMAIN order -> Options] : Set(order, k)
  <2> HIDE DEF Set
  <2> QED BY <1>2
<1> DEFINE ps  == plans'
           arm == [i \in DOMAIN order |-> Arm(k, i)]
<1>4. /\ LoopInv /\ pit \in [ClPrefix -> Entry] /\ wanted \in [ClPrefix -> Ages]
      /\ \A p \in ClPrefix : Demanded(pit[p], wanted[p])
      /\ byHand \in Fallbacks \cup {<<>>}
      /\ radio \in [ClRadio -> {ClNone} \cup [by : Nat, rate : Int]]
      /\ air \in [ClRadio -> [1 .. DutyWindow -> Nat]]
  BY DEF ClIndInv
<1>5. /\ active \in Seq(Context) /\ \E most \in Most : most \in Nat /\ Len(active) <= most
      /\ IF Awaited(q) = {} THEN \A x \in ToSet(active) : ~x.tracked
         ELSE (\A x \in ToSet(active) : x.tracked) /\ {x.of : x \in ToSet(active)} = Awaited(q)
  <2> HIDE DEF q, Set
  <2> QED BY <1>4, ActiveIs
<1>6. /\ order \in Seq(Context) /\ Len(order) = Len(active) /\ ToSet(order) = ToSet(active)
      /\ \A i, j \in DOMAIN order : i < j => ~Below(order[j], order[i])
  <2> HIDE DEF Set
  <2> QED BY <1>5, OrderedIs
<1>7. arm \in [DOMAIN order -> Int] /\ \A i \in DOMAIN order : arm[i] = Arm(k, i)
  <2>1. ASSUME NEW i \in DOMAIN order PROVE Arm(k, i) \in Int
    <3>1. k[i].arm \in Int
      <4>1. k[i] \in Options
        BY <1>3
      <4>2. k[i].arm \in IF learner = "bandit" THEN -1 .. 1 ELSE {0}
        BY <4>1 DEF Options
      <4> QED BY <4>2
    <3> QED BY <3>1
  <2> HIDE DEF Arm, order
  <2> QED BY <2>1
<1>8. PlannedAs(ps, order, k, arm)
  <2>1. ps = [i \in DOMAIN order |->
                [of |-> order[i], on |-> k[i].on, base |-> k[i].base,
                 rate |-> IF k[i].on = <<>> THEN 0 ELSE Refined(k[i].base, Arm(k, i))]]
    BY <1>3
  <2> HIDE DEF ps, order, arm, Arm
  <2> QED BY <2>1, <1>7 DEF PlannedAs
<1>9. /\ pit' = q /\ live' = {p \in ClPrefix : Within(wanted'[p], Lifetime)} /\ byHand' = byHand
      /\ wanted' = [p \in ClPrefix |-> Aged1(wanted[p])]
      /\ probes' = IF learner = "probe" THEN (probes + 1) % Probing ELSE probes
  BY <1>3
<1>10. \A r \in ClRadio :
         /\ LastFirst(ps, r) = {} => arms'[r] = ClNone
         /\ arms'[r] # ClNone =>
              arms'[r] = [class |-> order[Latest(LastFirst(ps, r))].class, arm |-> Arm(k, Latest(LastFirst(ps, r)))]
         /\ LastOn(ps, r) = {} => radio'[r] = (IF radio[r] = ClNone THEN ClNone ELSE [radio[r] EXCEPT !.by = 0])
         /\ LastOn(ps, r) # {} => radio'[r] = [by |-> Latest(LastOn(ps, r)), rate |-> RateOn(ps[Latest(LastOn(ps, r))], r)]
         /\ lastTx'[r] = lastTx[r] \/ (LastOn(ps, r) # {} /\ lastTx'[r] = RateOn(ps[Latest(LastOn(ps, r))], r))
         /\ air'[r] = [t \in 1 .. DutyWindow |-> IF t = 1 THEN Cardinality(LastOn(ps, r)) ELSE air[r][t - 1]]
  <2> HIDE DEF order, Arm
  <2> QED BY <1>3
<1>11. radio' = [r \in ClRadio |-> radio'[r]] /\ air' = [r \in ClRadio |-> air'[r]]
  <2> HIDE DEF order, Arm
  <2> QED BY <1>3
<1> HIDE DEF Set, Arm, order, ps, arm
<1> DEFINE n == Len(order)
<1>12. /\ DOMAIN ps = 1 .. n /\ n \in Nat /\ DOMAIN order = 1 .. n
       /\ \A i \in DOMAIN order :
            /\ ps[i].of = order[i] /\ ps[i].on \in Seq(ClRadio) /\ ps[i].rate \in 0 .. MaxRate /\ ps[i].base \in 0 .. MaxRate
            /\ \A r \in ToSet(ps[i].on) : Usable(r)
            /\ ps[i].on # <<>> => ps[i].rate = Refined(ps[i].base, arm[i])
       /\ \A r : /\ LastOn(ps, r) \in SUBSET (1 .. n) /\ LastFirst(ps, r) \in SUBSET LastOn(ps, r)
                 /\ Cardinality(LastOn(ps, r)) \in Nat /\ Cardinality(LastOn(ps, r)) <= n
                 /\ ~Usable(r) => LastOn(ps, r) = {}
                 /\ \A i \in LastOn(ps, r) : RateOn(ps[i], r) \in 0 .. MaxRate
  BY <1>3, <1>6, <1>7, <1>8, PlansAre
<1> HIDE DEF n
<1>13. ASSUME NEW r, LastOn(ps, r) # {}
       PROVE  Latest(LastOn(ps, r)) \in LastOn(ps, r) /\ \A j \in LastOn(ps, r) : j <= Latest(LastOn(ps, r))
  BY <1>12, <1>13, LatestIs
<1>14. \A p \in ClPrefix : /\ q[p] \in Entry /\ Demanded(q[p], wanted'[p])
                           /\ (\E f \in ClFace : Within(q[p].face[f], Lifetime)) <=> Within(wanted'[p], Lifetime)
                           /\ wanted'[p] \in Ages
  <2> SUFFICES ASSUME NEW p \in ClPrefix
               PROVE  /\ q[p] \in Entry /\ Demanded(q[p], wanted'[p])
                      /\ (\E f \in ClFace : Within(q[p].face[f], Lifetime)) <=> Within(wanted'[p], Lifetime)
                      /\ wanted'[p] \in Ages
    OBVIOUS
  <2>1. wanted'[p] = Aged1(wanted[p]) /\ wanted[p] \in Ages /\ Demanded(pit[p], wanted[p])
    BY <1>4, <1>9
  <2> HIDE DEF q
  <2> QED BY <2>1, <1>4, TickDemand, AgeIs DEF q
<1>15. /\ pit' \in [ClPrefix -> Entry] /\ wanted' \in [ClPrefix -> Ages]
       /\ \A p \in ClPrefix : Demanded(pit'[p], wanted'[p])
  <2>1. q = [p \in ClPrefix |-> q[p]] /\ wanted' = [p \in ClPrefix |-> wanted'[p]]
    BY <1>9 DEF Pruned
  <2> HIDE DEF q
  <2> QED BY <2>1, <1>9, <1>14
<1>16. live' = Awaited(q)
  <2> HIDE DEF q
  <2> QED BY <1>9, <1>14 DEF Awaited
<1>17. radio' \in [ClRadio -> {ClNone} \cup [by : Nat, rate : Int]]
  <2>1. ASSUME NEW r \in ClRadio PROVE radio'[r] \in {ClNone} \cup [by : Nat, rate : Int]
    <3>1. CASE LastOn(ps, r) = {}
      <4>1. radio'[r] = (IF radio[r] = ClNone THEN ClNone ELSE [radio[r] EXCEPT !.by = 0])
        BY <1>10, <3>1
      <4>2. radio[r] \in {ClNone} \cup [by : Nat, rate : Int]
        BY <1>4
      <4> QED BY <4>1, <4>2
    <3>2. CASE LastOn(ps, r) # {}
      <4>1. radio'[r] = [by |-> Latest(LastOn(ps, r)), rate |-> RateOn(ps[Latest(LastOn(ps, r))], r)]
        BY <1>10, <3>2
      <4>2. Latest(LastOn(ps, r)) \in LastOn(ps, r)
        BY <1>13, <3>2
      <4>3. Latest(LastOn(ps, r)) \in Nat /\ RateOn(ps[Latest(LastOn(ps, r))], r) \in Int
        <5>1. Latest(LastOn(ps, r)) \in 1 .. n /\ RateOn(ps[Latest(LastOn(ps, r))], r) \in 0 .. MaxRate
          BY <1>12, <4>2
        <5> QED BY <5>1, <1>12
      <4> QED BY <4>1, <4>3
    <3> QED BY <3>1, <3>2
  <2> QED BY <2>1, <1>11
<1>18. air' \in [ClRadio -> [1 .. DutyWindow -> Nat]]
  <2>1. ASSUME NEW r \in ClRadio PROVE air'[r] \in [1 .. DutyWindow -> Nat]
    <3>1. DutyWindow \in Nat
      BY ClAssumption
    <3>2. \A t \in 1 .. DutyWindow : t # 1 => t - 1 \in 1 .. DutyWindow
      BY <3>1
    <3>3. Cardinality(LastOn(ps, r)) \in Nat /\ air[r] \in [1 .. DutyWindow -> Nat]
      BY <1>4, <1>12
    <3>4. air'[r] = [t \in 1 .. DutyWindow |-> IF t = 1 THEN Cardinality(LastOn(ps, r)) ELSE air[r][t - 1]]
      BY <1>10
    <3> DEFINE c == Cardinality(LastOn(ps, r))
               a == air[r]
               b == air'[r]
    <3>5. c \in Nat /\ a \in [1 .. DutyWindow -> Nat] /\ b = [t \in 1 .. DutyWindow |-> IF t = 1 THEN c ELSE a[t - 1]]
      BY <3>3, <3>4
    <3> HIDE DEF a, b, c
    <3>6. b \in [1 .. DutyWindow -> Nat]
      BY <3>2, <3>5
    <3> QED BY <3>6 DEF b
  <2> QED BY <2>1, <1>11
<1>19. ClTypeOK'
  <2>1. \A p \in ClPrefix : pit'[p].idle = ClNone => pit'[p] = Untracked
    BY <1>15 DEF Demanded
  <2>2. probes' \in 0 .. Probing - 1
    <3>1. Probing \in Nat \ {0} /\ probes \in 0 .. Probing - 1
      BY <1>4, ClAssumption DEF LoopInv, ClTypeOK
    <3> QED BY <3>1, <1>9
  <2>3. ASSUME NEW r \in ClRadio
        PROVE  lastTx'[r] \in {ClNone} \cup 0 .. MaxRate /\ (arms'[r] # ClNone => radio'[r] # ClNone)
    <3>1. lastTx[r] \in {ClNone} \cup 0 .. MaxRate
      BY <1>4 DEF LoopInv, ClTypeOK
    <3>2. LastOn(ps, r) # {} => RateOn(ps[Latest(LastOn(ps, r))], r) \in 0 .. MaxRate
      BY <1>12, <1>13
    <3>3. lastTx'[r] \in {ClNone} \cup 0 .. MaxRate
      BY <3>1, <3>2, <1>10
    <3>4. ASSUME arms'[r] # ClNone PROVE radio'[r] # ClNone
      <4>1. LastOn(ps, r) # {}
        BY <3>4, <1>10, <1>12
      <4>2. radio'[r] = [by |-> Latest(LastOn(ps, r)), rate |-> RateOn(ps[Latest(LastOn(ps, r))], r)]
        BY <4>1, <1>10
      <4>3. Latest(LastOn(ps, r)) \in 1 .. n /\ RateOn(ps[Latest(LastOn(ps, r))], r) \in 0 .. MaxRate
        BY <4>1, <1>12, <1>13
      <4>4. radio'[r] \in [by : Nat, rate : Int]
        BY <4>2, <4>3
      <4> QED BY <4>4, ClAssumption
    <3> QED BY <3>3, <3>4
  <2> QED BY <2>1, <2>2, <2>3 DEF ClTypeOK
<1>20. MostWantedOwnsTheRadio'
  <2> SUFFICES ASSUME NEW r \in ClRadio, NEW i \in LastOn(ps, r) PROVE ~Below(ps[radio'[r].by].of, ps[i].of)
    BY DEF MostWantedOwnsTheRadio, LastOn, ps
  <2> DEFINE j == Latest(LastOn(ps, r))
  <2>1. j \in LastOn(ps, r) /\ i <= j /\ radio'[r].by = j
    <3>1. LastOn(ps, r) # {}
      OBVIOUS
    <3>2. j \in LastOn(ps, r) /\ i <= j
      BY <3>1, <1>13
    <3>3. radio'[r] = [by |-> j, rate |-> RateOn(ps[j], r)]
      BY <3>1, <1>10
    <3> QED BY <3>2, <3>3
  <2>2. j \in DOMAIN order /\ i \in DOMAIN order /\ j \in Nat /\ i \in Nat
    BY <2>1, <1>12
  <2>3. ps[j].of = order[j] /\ ps[i].of = order[i]
    BY <2>2, <1>12
  <2> HIDE DEF j
  <2>4. CASE i = j
    <3>1. order[i].class \in Nat /\ order[i].rank \in Nat
      <4>1. order[i] \in Context
        BY <2>2, <1>6
      <4> QED BY <4>1 DEF Context
    <3> QED BY <2>1, <2>3, <2>4, <3>1 DEF Below
  <2>5. CASE i # j
    <3>1. i < j
      BY <2>1, <2>2, <2>5
    <3> QED BY <2>1, <2>2, <2>3, <3>1, <1>6
  <2> QED BY <2>4, <2>5
<1>21. PlansAreForLiveInterests'
  <2>1. ToSet(order) = {order[i] : i \in 1 .. n}
    BY <1>12 DEF ToSet
  <2>2. \A i \in 1 .. n : ps[i].of = order[i]
    BY <1>12
  <2>3. CASE Awaited(q) = {}
    <3>1. \A i \in DOMAIN ps : ~ps[i].of.tracked
      BY <2>1, <2>2, <2>3, <1>5, <1>6, <1>12
    <3> QED BY <2>3, <3>1, <1>16 DEF PlansAreForLiveInterests, ps
  <2>4. CASE Awaited(q) # {}
    <3>1. (\A x \in ToSet(order) : x.tracked) /\ {x.of : x \in ToSet(order)} = Awaited(q)
      BY <2>4, <1>5, <1>6
    <3>2. \A i \in DOMAIN ps : ps[i].of.tracked
      BY <2>1, <2>2, <3>1, <1>12
    <3>3. {ps[i].of.of : i \in DOMAIN ps} = Awaited(q)
      BY <2>1, <2>2, <3>1, <1>12
    <3> QED BY <2>4, <3>2, <3>3, <1>16 DEF PlansAreForLiveInterests, ps
  <2> QED BY <2>3, <2>4
<1>22. ArmsAreOfTheirOwnPlan'
  <2> SUFFICES ASSUME NEW r \in ClRadio, arms'[r] # ClNone
               PROVE  \E i \in DOMAIN ps : /\ ps[i].on # <<>> /\ ps[i].on[1] = r /\ ps[i].of.class = arms'[r].class
                                           /\ ps[i].rate = Refined(ps[i].base, arms'[r].arm)
    BY DEF ArmsAreOfTheirOwnPlan, ps
  <2> DEFINE i == Latest(LastFirst(ps, r))
  <2>1. LastFirst(ps, r) # {} /\ arms'[r] = [class |-> order[i].class, arm |-> Arm(k, i)]
    BY <1>10
  <2>2. LastFirst(ps, r) \in SUBSET (1 .. n)
    BY <1>12
  <2>3. i \in LastFirst(ps, r)
    BY <1>12, <2>1, <2>2, LatestIs
  <2>4. i \in DOMAIN ps /\ ps[i].on # <<>> /\ ps[i].on[1] = r
    BY <2>3 DEF LastFirst
  <2> HIDE DEF i
  <2>5. ps[i].of = order[i] /\ ps[i].rate = Refined(ps[i].base, arm[i]) /\ arm[i] = Arm(k, i)
    BY <2>4, <1>7, <1>12
  <2>6. arms'[r].class = order[i].class /\ arms'[r].arm = Arm(k, i)
    BY <2>1
  <2> QED BY <2>4, <2>5, <2>6
<1>23. DutyOverrunIsOneTick'
  <2> SUFFICES ASSUME NEW r \in ClRadio
               PROVE  \E most \in Most : DutyUsed(r)' <= Minus(DutyMax, 1) + most
    BY DEF DutyOverrunIsOneTick, Most
  <2> DEFINE a == air[r]
             b == air'[r]
  <2>1. DutyUsed(r) = WindowSum(a) /\ DutyUsed(r)' = WindowSum(b)
    BY DEF DutyUsed, WindowSum
  <2>2. b[1] = Cardinality(LastOn(ps, r)) /\ \A t \in 1 .. DutyWindow : t # 1 => b[t] = a[t - 1]
    <3>1. b = [t \in 1 .. DutyWindow |-> IF t = 1 THEN Cardinality(LastOn(ps, r)) ELSE a[t - 1]]
      BY <1>10
    <3>2. 1 \in 1 .. DutyWindow
      BY ClAssumption
    <3> HIDE DEF a, b
    <3> QED BY <3>1, <3>2
  <2>3. a \in [1 .. DutyWindow -> Nat] /\ b \in [1 .. DutyWindow -> Nat]
    BY <1>4, <1>18
  <2> HIDE DEF a, b
  <2>4. WindowSum(a) \in Nat /\ WindowSum(b) \in Nat /\ WindowSum(b) <= b[1] + WindowSum(a)
    BY <2>2, <2>3, WindowMoves
  <2>5. PICK m \in Most : DutyUsed(r) <= Minus(DutyMax, 1) + m
    BY <1>4 DEF LoopInv, DutyOverrunIsOneTick, Most
  <2>6. PICK most \in Most : most \in Nat /\ n <= most
    BY <1>5, <1>6 DEF n
  <2>7. DutyMax \in Nat /\ b[1] \in Nat /\ b[1] <= n /\ n \in Nat
    BY <2>2, <1>12, ClAssumption
  <2>8. CASE Usable(r)
    <3>1. WindowSum(a) < DutyMax
      BY <2>1, <2>8 DEF Usable
    <3>2. WindowSum(a) <= Minus(DutyMax, 1) /\ Minus(DutyMax, 1) \in Nat
      BY <3>1, <2>4, <2>7 DEF Minus
    <3> QED BY <2>1, <2>4, <2>6, <2>7, <3>2
  <2>9. CASE ~Usable(r)
    <3>1. LastOn(ps, r) = {}
      BY <2>9, <1>12
    <3>2. b[1] = 0
      BY <2>2, <3>1, FS_EmptySet
    <3>3. m \in Nat
      BY ClAssumption, FS_CardinalityType DEF Most
    <3>4. Minus(DutyMax, 1) \in Nat
      BY <2>7 DEF Minus
    <3> QED BY <2>1, <2>4, <2>5, <3>2, <3>3, <3>4
  <2> QED BY <2>8, <2>9
<1>24. byHand' \in Fallbacks \cup {<<>>}
  BY <1>4, <1>9
<1>25. LoopInv'
  BY <1>19, <1>20, <1>21, <1>22, <1>23 DEF LoopInv
<1> HIDE DEF q, probe
<1> QED BY <1>15, <1>17, <1>18, <1>24, <1>25 DEF ClIndInv

(* Every other step of the loop: an Interest, Data, contexts set by hand.        *)
LEMMA ClStep == ClIndInv /\ [ClNext]_clVars => ClIndInv'
<1> SUFFICES ASSUME ClIndInv, [ClNext]_clVars PROVE ClIndInv'
  OBVIOUS
<1>1. /\ LoopInv /\ pit \in [ClPrefix -> Entry] /\ wanted \in [ClPrefix -> Ages]
      /\ \A p \in ClPrefix : Demanded(pit[p], wanted[p])
      /\ byHand \in Fallbacks \cup {<<>>}
      /\ radio \in [ClRadio -> {ClNone} \cup [by : Nat, rate : Int]]
      /\ air \in [ClRadio -> [1 .. DutyWindow -> Nat]]
  BY DEF ClIndInv
<1>2. /\ Lifetime \in Nat /\ StaleIdle \in Nat /\ ClNone \notin Int /\ 0 \in Ages /\ ClNone \in Ages
      /\ \A x \in Ages : x # ClNone => 0 <= x
  BY ClAssumption DEF Ages
<1>3. CASE tick_now
  BY <1>3, TickKeeps
<1>4. CASE set_active
  <2>1. byHand' \in Fallbacks /\ UNCHANGED <<pit, plans, radio, arms, lastTx, probes, air, wanted, live>>
    BY <1>4 DEF set_active
  <2>2. \A p \in ClPrefix : pit'[p].idle = ClNone => pit'[p] = Untracked
    BY <2>1, <1>1 DEF Demanded
  <2>3. LoopInv'
    BY <2>1, <2>2, <1>1, PlansStay
  <2> QED BY <2>1, <2>3, <1>1 DEF ClIndInv
<1>5. ASSUME NEW p \in ClPrefix, NEW f \in ClFace, on_interest(p, f) PROVE ClIndInv'
  <2> DEFINE e == [face |-> [pit[p].face EXCEPT ![f] = 0], idle |-> 0, miss |-> f \in Fanout(p)]
  <2>1. /\ pit' = [pit EXCEPT ![p] = e] /\ wanted' = [wanted EXCEPT ![p] = 0] /\ byHand' = byHand
        /\ UNCHANGED <<plans, radio, arms, lastTx, probes, air, live>>
    BY <1>5 DEF on_interest
  <2>2. pit[p].face \in [ClFace -> Ages]
    <3>1. pit[p] \in Entry
      BY <1>1
    <3> QED BY <3>1 DEF Entry
  <2>3. e.face \in [ClFace -> Ages] /\ e.idle = 0 /\ e.face[f] = 0
    BY <2>2, <1>2
  <2>4. e \in Entry
    BY <2>3, <1>2 DEF Entry
  <2> HIDE DEF e
  <2>5. Demanded(e, 0)
    <3>1. e.idle # ClNone
      BY <2>3, <1>2
    <3>2. \A g \in ClFace : e.face[g] # ClNone => 0 <= e.face[g]
      BY <2>3, <1>2
    <3> QED BY <3>1, <3>2, <2>3, <1>2 DEF Demanded
  <2>6. \A x \in ClPrefix : pit'[x] \in Entry /\ wanted'[x] \in Ages /\ Demanded(pit'[x], wanted'[x])
    BY <2>1, <2>4, <2>5, <1>1, <1>2
  <2>7. pit' \in [ClPrefix -> Entry] /\ wanted' \in [ClPrefix -> Ages]
    BY <2>1, <2>4, <1>1, <1>2
  <2>8. LoopInv'
    BY <2>1, <2>6, <1>1, PlansStay DEF Demanded
  <2> QED BY <2>1, <2>6, <2>7, <2>8, <1>1 DEF ClIndInv
<1>6. ASSUME NEW p \in ClPrefix, on_data(p) PROVE ClIndInv'
  <2> DEFINE e == IF pit[p].idle = ClNone THEN pit[p] ELSE Satisfied(pit[p])
  <2>1. /\ pit' = [pit EXCEPT ![p] = e] /\ wanted' = [wanted EXCEPT ![p] = ClNone] /\ byHand' = byHand
        /\ UNCHANGED <<plans, radio, arms, lastTx, probes, air, live>>
    BY <1>6 DEF on_data
  <2>2. pit[p] \in Entry /\ Demanded(pit[p], wanted[p])
    BY <1>1
  <2>3. /\ e \in Entry /\ (e.idle = ClNone => e = Untracked) /\ \A f \in ClFace : e.face[f] = ClNone
    <3>1. CASE pit[p].idle = ClNone
      BY <3>1, <2>2, UntrackedIs DEF Demanded
    <3>2. CASE pit[p].idle # ClNone
      <4>1. e = [face |-> [f \in ClFace |-> ClNone], idle |-> 0, miss |-> pit[p].miss] /\ pit[p].miss \in BOOLEAN
        BY <3>2, <2>2 DEF Satisfied, Entry
      <4> QED BY <4>1, <1>2 DEF Entry
    <3> QED BY <3>1, <3>2
  <2> HIDE DEF e
  <2>4. Demanded(e, ClNone)
    BY <2>3 DEF Demanded
  <2>5. \A x \in ClPrefix : pit'[x] \in Entry /\ wanted'[x] \in Ages /\ Demanded(pit'[x], wanted'[x])
    BY <2>1, <2>3, <2>4, <1>1, <1>2
  <2>6. pit' \in [ClPrefix -> Entry] /\ wanted' \in [ClPrefix -> Ages]
    BY <2>1, <2>3, <1>1, <1>2
  <2>7. LoopInv'
    BY <2>1, <2>5, <1>1, PlansStay DEF Demanded
  <2> QED BY <2>1, <2>5, <2>6, <2>7, <1>1 DEF ClIndInv
<1>7. CASE UNCHANGED clVars
  <2>1. UNCHANGED <<pit, byHand, plans, radio, arms, lastTx, probes, air, wanted, live>>
    BY <1>7 DEF clVars
  <2>2. LoopInv'
    BY <2>1, <1>1, PlansStay DEF LoopInv, ClTypeOK
  <2> QED BY <2>1, <2>2, <1>1 DEF ClIndInv
<1> QED BY <1>3, <1>4, <1>5, <1>6, <1>7 DEF ClNext

(* A tick plans for the names that are wanted, all of them and no others, and    *)
(* leaves a radio that several ask for as the one of the highest class and the   *)
(* most wanted in it; an arm is remembered for the name it was picked for; and   *)
(* the airtime of a radio passes its limit by the plans of one tick at most: for *)
(* any prefixes, faces, radios, learner, limits and contexts set by hand.        *)
THEOREM RadiosServeWhatIsWanted == ClSpec => []LoopInv
<1>1. ClIndInv => LoopInv
  BY DEF ClIndInv
<1> QED BY <1>1, ClStart, ClStep, PTL DEF ClSpec
================================================================================
