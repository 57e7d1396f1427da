------------------------ MODULE SlotSchedule_proofs ------------------------
(***************************************************************************)
(* Facts about the slot map, for every schedule and every instant: the     *)
(* arithmetic of slots, what a lease covers, and whose turn it is when.    *)
(***************************************************************************)
EXTENDS SlotSchedule, FiniteSetTheorems, FunctionTheorems, WellFoundedInduction, TLAPS

(* Division with remainder, the only fact about \div and % the rest uses. *)
LEMMA DivMod ==
  ASSUME NEW S \in Nat \ {0}, NEW t \in Nat
  PROVE  /\ t \div S \in Nat
         /\ t % S \in 0 .. S - 1
         /\ t = S * (t \div S) + (t % S)
  OBVIOUS

(* Multiples of S compare as their factors do, up to a remainder. *)
LEMMA FactorOrder ==
  ASSUME NEW S \in Nat \ {0}, NEW a \in Nat, NEW b \in Nat, NEW r \in 0 .. S - 1,
         S * a <= S * b + r
  PROVE  a <= b
<1> SUFFICES ASSUME b + 1 <= a PROVE FALSE
  OBVIOUS
<1>1. PICK d \in Nat : a = b + 1 + d
  OBVIOUS
<1>2. S * a = S * b + S + S * d
  BY <1>1
<1>3. S * d \in Nat /\ S * b \in Nat
  BY <1>1
<1> QED BY <1>2, <1>3

(* The quotient and the remainder are the only ones. *)
LEMMA QuotientUnique ==
  ASSUME NEW S \in Nat \ {0}, NEW q \in Nat, NEW r \in 0 .. S - 1
  PROVE  (S * q + r) \div S = q /\ (S * q + r) % S = r
<1> DEFINE t == S * q + r
           p == t \div S
           e == t % S
<1>1. t \in Nat
  OBVIOUS
<1>2. p \in Nat /\ e \in 0 .. S - 1 /\ t = S * p + e
  BY <1>1, DivMod
<1>3. t = S * q + r
  OBVIOUS
<1> HIDE DEF t, p, e
<1>4. S * p <= S * q + r /\ S * q <= S * p + e
  <2>1. S * p \in Nat /\ S * q \in Nat
    BY <1>2
  <2> QED BY <1>2, <1>3, <2>1
<1>5. p <= q /\ q <= p
  BY <1>2, <1>4, FactorOrder
<1>6. p = q
  BY <1>2, <1>5
<1>7. e = r
  <2>1. S * q \in Nat
    OBVIOUS
  <2> QED BY <1>2, <1>3, <1>6, <2>1
<1> QED BY <1>6, <1>7 DEF p, e, t

(* A non-empty set of naturals has a least element. *)
LEMMA NatMin ==
  ASSUME NEW T \in SUBSET Nat, T # {}
  PROVE  \E x \in T : \A y \in T : x <= y
<1> DEFINE R == {p \in Nat \X Nat : p[1] < p[2]}
<1>1. IsWellFoundedOn(OpToRel(<, Nat), Nat)
  BY NatLessThanWellFounded
<1>2. OpToRel(<, Nat) = R
  BY DEF OpToRel
<1>3. IsWellFoundedOn(R, Nat)
  BY <1>1, <1>2
<1> HIDE DEF R
<1>4. \E x \in T : \A y \in T : <<y, x>> \notin R
  BY <1>3, WFMin
<1>5. ASSUME NEW x \in T, NEW y \in T, <<y, x>> \notin R
      PROVE  x <= y
  BY <1>5 DEF R
<1> QED BY <1>4, <1>5

---------------------------------------------------------------------------
(* Where an instant lies in its slot. *)
LEMMA SlotFacts ==
  ASSUME NEW s \in Schedules, NEW t \in Nat
  PROVE  /\ Epoch(s, t) \in Nat
         /\ CurrentSlot(s, t) \in SlotsOf(s)
         /\ SlotStart(s, t) \in Nat
         /\ SlotStart(s, t) <= t
         /\ t < SlotStart(s, t) + s.slot_us
         /\ SlotRemaining(s, t) = SlotStart(s, t) + s.slot_us - t
         /\ SlotRemaining(s, t) \in 1 .. s.slot_us
<1> DEFINE S == s.slot_us
           q == t \div S
           r == t % S
<1>1. S \in Nat \ {0} /\ s.slots \in Nat \ {0}
  BY DEF Schedules
<1>2. q \in Nat /\ r \in 0 .. S - 1 /\ t = S * q + r
  BY <1>1, DivMod
<1>3. Epoch(s, t) = q /\ SlotStart(s, t) = q * S /\ SlotRemaining(s, t) = S - r
  BY DEF Epoch, SlotStart, SlotRemaining
<1>4. CurrentSlot(s, t) \in SlotsOf(s)
  BY <1>1, <1>2, <1>3, DivMod DEF CurrentSlot, SlotsOf
<1> HIDE DEF q, r, S
<1>5. q * S \in Nat /\ q * S = S * q
  BY <1>1, <1>2
<1>6. S = s.slot_us
  BY DEF S
<1> QED BY <1>1, <1>2, <1>3, <1>4, <1>5, <1>6

(* Every instant of a slot has its epoch, its index and its start. *)
LEMMA SameSlot ==
  ASSUME NEW s \in Schedules, NEW t \in Nat, NEW u \in Nat,
         SlotStart(s, t) <= u, u < SlotStart(s, t) + s.slot_us
  PROVE  /\ Epoch(s, u) = Epoch(s, t)
         /\ CurrentSlot(s, u) = CurrentSlot(s, t)
         /\ SlotStart(s, u) = SlotStart(s, t)
<1> DEFINE S == s.slot_us
           q == t \div S
<1>1. S \in Nat \ {0}
  BY DEF Schedules
<1>2. q \in Nat
  BY <1>1, DivMod
<1>3. SlotStart(s, t) = q * S
  BY DEF SlotStart, Epoch
<1> HIDE DEF q
<1>4. S * q \in Nat /\ S * q = q * S
  BY <1>1, <1>2
<1>5. u - S * q \in 0 .. S - 1 /\ u = S * q + (u - S * q)
  BY <1>1, <1>3, <1>4
<1>6. (S * q + (u - S * q)) \div S = q
  BY <1>1, <1>2, <1>5, QuotientUnique
<1>7. u \div S = q
  BY <1>5, <1>6
<1>8. Epoch(s, u) = Epoch(s, t)
  BY <1>7 DEF Epoch, q
<1> QED BY <1>8 DEF CurrentSlot, SlotStart

(* The start of a slot is an instant of that slot. *)
LEMMA StartOfSlot ==
  ASSUME NEW s \in Schedules, NEW t \in Nat
  PROVE  /\ CurrentSlot(s, SlotStart(s, t)) = CurrentSlot(s, t)
         /\ SlotStart(s, SlotStart(s, t)) = SlotStart(s, t)
<1>1. s.slot_us \in Nat \ {0}
  BY DEF Schedules
<1>2. SlotStart(s, t) \in Nat
  BY SlotFacts
<1>3. SlotStart(s, t) < SlotStart(s, t) + s.slot_us
  BY <1>1, <1>2
<1> QED BY <1>2, <1>3, SameSlot
---------------------------------------------------------------------------
(* Leases. *)

(* A lease is at least one slot long. *)
LEMMA LeaseSlotsType ==
  ASSUME NEW class, NEW L \in Nat
  PROVE  LeaseSlots(class, L) \in Nat \ {0} /\ LeaseSlots(class, L) <= AtLeastOne(L)
BY DEF LeaseSlots, AtLeastOne

(* The walk of lease_deadline_us stops: at the first lane, or at its length. *)
LEMMA HeldSlotsFacts ==
  ASSUME NEW s \in Schedules, NEW t \in Nat, NEW class, NEW L \in Nat
  PROVE  LET h == HeldSlots(s, t, class, L) IN
         /\ h \in 1 .. LeaseSlots(class, L)
         /\ \A j \in 1 .. h - 1 : ~IsReserved(s, (CurrentSlot(s, t) + j) % s.slots)
         /\ \/ h = LeaseSlots(class, L)
            \/ IsReserved(s, (CurrentSlot(s, t) + h) % s.slots)
<1> DEFINE W == LeaseSlots(class, L)
           lane(h) == IsReserved(s, (CurrentSlot(s, t) + h) % s.slots)
           stops == {h \in 1 .. W : h = W \/ lane(h)}
           good(h) == /\ \A j \in 1 .. h - 1 : ~lane(j)
                      /\ h = W \/ lane(h)
<1>1. W \in Nat \ {0}
  BY LeaseSlotsType
<1> HIDE DEF W, lane
<1>2. W \in stops /\ stops \in SUBSET Nat
  BY <1>1
<1>3. PICK h \in stops : \A g \in stops : h <= g
  BY <1>2, NatMin
<1>4. \A j \in 1 .. h - 1 : ~lane(j)
  <2> SUFFICES ASSUME NEW j \in 1 .. h - 1, lane(j) PROVE FALSE
    OBVIOUS
  <2>1. j \in stops
    BY <1>1, <1>3
  <2> QED BY <1>1, <1>3, <2>1
<1>5. h \in 1 .. W /\ good(h)
  BY <1>3, <1>4
<1>6. HeldSlots(s, t, class, L) = CHOOSE g \in 1 .. W : good(g)
  BY DEF HeldSlots, W, lane
<1> HIDE DEF good, stops
<1>7. HeldSlots(s, t, class, L) \in 1 .. W /\ good(HeldSlots(s, t, class, L))
  BY <1>5, <1>6
<1> QED BY <1>7 DEF good, W, lane

(* The slot j slots on has the index j further round the superframe. *)
LEMMA SlotsOn ==
  ASSUME NEW N \in Nat \ {0}, NEW e \in Nat, NEW j \in Nat
  PROVE  (e + j) % N = ((e % N) + j) % N
<1> DEFINE q == e \div N
           r == e % N
           p == (r + j) \div N
           d == (r + j) % N
<1>1. q \in Nat /\ r \in 0 .. N - 1 /\ e = N * q + r
  BY DivMod
<1> HIDE DEF q, r
<1>0. r + j \in Nat
  BY <1>1
<1>2. p \in Nat /\ d \in 0 .. N - 1 /\ r + j = N * p + d
  BY <1>0, DivMod
<1> HIDE DEF p, d
<1>3. e + j = N * (q + p) + d
  <2>1. N * q \in Nat /\ N * p \in Nat /\ N * (q + p) = N * q + N * p
    BY <1>1, <1>2
  <2> QED BY <1>1, <1>2, <2>1
<1>4. q + p \in Nat
  BY <1>1, <1>2
<1>5. (N * (q + p) + d) % N = d
  BY <1>2, <1>4, QuotientUnique
<1> QED BY <1>3, <1>5 DEF d, r

(***************************************************************************)
(* A bulk lease taken at t ends within its length, and if the slot it is   *)
(* taken in is open, covers no reserved lane at any instant.               *)
(***************************************************************************)
THEOREM LeaseCoversNoLane ==
  ASSUME NEW s \in Schedules, NEW t \in Nat, NEW L \in Nat
  PROVE  LET d == LeaseDeadline(s, t, Bulk, L) IN
         /\ d \in Nat
         /\ d <= SlotStart(s, t) + AtLeastOne(L) * s.slot_us
         /\ ~IsReserved(s, CurrentSlot(s, t)) =>
              \A u \in SlotStart(s, t) .. d - 1 : ~IsReserved(s, CurrentSlot(s, u))
<1> DEFINE S == s.slot_us
           N == s.slots
           e == Epoch(s, t)
           h == HeldSlots(s, t, Bulk, L)
           d == LeaseDeadline(s, t, Bulk, L)
<1>1. S \in Nat \ {0} /\ N \in Nat \ {0}
  BY DEF Schedules
<1>2. /\ h \in Nat \ {0} /\ h <= AtLeastOne(L)
      /\ \A j \in 1 .. h - 1 : ~IsReserved(s, (CurrentSlot(s, t) + j) % N)
  <2>1. LeaseSlots(Bulk, L) \in Nat \ {0} /\ LeaseSlots(Bulk, L) <= AtLeastOne(L)
    BY LeaseSlotsType
  <2>2. AtLeastOne(L) \in Nat
    BY DEF AtLeastOne
  <2> QED BY <2>1, <2>2, HeldSlotsFacts
<1>3. e \in Nat /\ SlotStart(s, t) = e * S /\ d = e * S + h * S
  BY SlotFacts DEF SlotStart, LeaseDeadline
<1>4. CurrentSlot(s, t) = e % N
  BY DEF CurrentSlot
<1>5. AtLeastOne(L) \in Nat
  BY DEF AtLeastOne
<1> HIDE DEF S, N, e, h, d
<1>6. d \in Nat /\ d <= e * S + AtLeastOne(L) * S
  <2>1. PICK x \in Nat : AtLeastOne(L) = h + x
    BY <1>2, <1>5
  <2>2. AtLeastOne(L) * S = h * S + x * S /\ x * S \in Nat /\ h * S \in Nat /\ e * S \in Nat
    BY <1>1, <1>2, <1>3, <2>1
  <2> QED BY <1>3, <2>2
<1>7. ASSUME ~IsReserved(s, CurrentSlot(s, t)),
             NEW u \in SlotStart(s, t) .. d - 1
      PROVE  ~IsReserved(s, CurrentSlot(s, u))
  <2> DEFINE q == u \div S
             r == u % S
  <2>0. e * S \in Nat /\ e * S = S * e /\ e * S + h * S = S * (e + h)
    BY <1>1, <1>2, <1>3
  <2>1. u \in Nat /\ S * e <= u /\ u < S * (e + h)
    BY <1>3, <1>6, <2>0
  <2>2. q \in Nat /\ r \in 0 .. S - 1 /\ u = S * q + r
    BY <1>1, <2>1, DivMod
  <2>3. CurrentSlot(s, u) = q % N
    BY DEF CurrentSlot, Epoch, S, N
  <2> HIDE DEF q, r
  <2>4. e <= q
    BY <1>1, <1>3, <2>1, <2>2, FactorOrder
  <2>5. q < e + h
    <3> SUFFICES ASSUME e + h <= q PROVE FALSE
      BY <1>2, <1>3, <2>2
    <3>1. PICK x \in Nat : q = e + h + x
      BY <1>2, <1>3, <2>2
    <3>2. S * q = S * (e + h) + S * x /\ S * x \in Nat /\ S * (e + h) \in Nat
      BY <1>1, <1>2, <1>3, <3>1
    <3> QED BY <2>1, <2>2, <3>2
  <2>6. PICK j \in Nat : q = e + j /\ j < h
    BY <1>2, <1>3, <2>2, <2>4, <2>5
  <2>7. CurrentSlot(s, u) = (CurrentSlot(s, t) + j) % N
    <3>1. (e + j) % N = ((e % N) + j) % N
      BY <1>1, <1>3, <2>6, SlotsOn
    <3> QED BY <1>4, <2>3, <2>6, <3>1
  <2>8. CASE j = 0
    BY <1>7, <1>4, <2>3, <2>6, <2>8, <1>3
  <2>9. CASE j # 0
    BY <1>2, <2>6, <2>7, <2>9
  <2> QED BY <2>8, <2>9
<1> QED BY <1>3, <1>6, <1>7 DEF d, S
---------------------------------------------------------------------------
(* Turns: who owns which slot, and how often. *)

(* A one-to-one map onto a finite set counts it. *)
LEMMA CountedBy ==
  ASSUME NEW A, NEW B, IsFiniteSet(A), NEW f \in [A -> B],
         \A a, b \in A : f[a] = f[b] => a = b,
         \A b \in B : \E a \in A : f[a] = b
  PROVE  IsFiniteSet(B) /\ Cardinality(B) = Cardinality(A)
<1>1. f \in Bijection(A, B)
  BY Fun_IsBij
<1>2. ExistsBijection(A, B)
  BY <1>1 DEF ExistsBijection
<1> QED BY <1>2, FS_Bijection

(* Among T successive instants every remainder occurs once. *)
LEMMA OncePerPeriod ==
  ASSUME NEW P \in Nat \ {0}, NEW t \in Nat, NEW b \in 0 .. P - 1
  PROVE  /\ \E u \in t .. t + P - 1 : u % P = b
         /\ \A u, v \in t .. t + P - 1 : u % P = b /\ v % P = b => u = v
<1> DEFINE a == t \div P
           c == t % P
<1>1. a \in Nat /\ c \in 0 .. P - 1 /\ t = P * a + c
  BY DivMod
<1> HIDE DEF a, c
<1>2. P * a \in Nat /\ P * (a + 1) = P * a + P
  BY <1>1
<1>3. \E u \in t .. t + P - 1 : u % P = b
  <2>1. CASE c <= b
    <3>1. P * a + b \in t .. t + P - 1
      BY <1>1, <1>2, <2>1
    <3>2. (P * a + b) % P = b
      BY <1>1, QuotientUnique
    <3> QED BY <3>1, <3>2
  <2>2. CASE b < c
    <3>1. P * (a + 1) + b \in t .. t + P - 1
      BY <1>1, <1>2, <2>2
    <3>2. (P * (a + 1) + b) % P = b
      BY <1>1, QuotientUnique
    <3> QED BY <3>1, <3>2
  <2> QED BY <1>1, <2>1, <2>2
<1>4. ASSUME NEW u \in t .. t + P - 1, NEW v \in t .. t + P - 1, u % P = b, v % P = b, u < v
      PROVE  FALSE
  <2> DEFINE p == u \div P
             q == v \div P
  <2>1. p \in Nat /\ q \in Nat /\ u = P * p + b /\ v = P * q + b
    <3>1. u \in Nat /\ v \in Nat
      OBVIOUS
    <3> QED BY <3>1, <1>4, DivMod
  <2> HIDE DEF p, q
  <2>2. v - u < P
    OBVIOUS
  <2>3. CASE q <= p
    <3>1. PICK x \in Nat : p = q + x
      BY <2>1, <2>3
    <3>2. P * p = P * q + P * x /\ P * x \in Nat /\ P * q \in Nat
      BY <2>1, <3>1
    <3> QED BY <2>1, <3>2, <1>4
  <2>4. CASE p + 1 <= q
    <3>1. PICK x \in Nat : q = p + 1 + x
      BY <2>1, <2>4
    <3>2. P * q = P * p + P + P * x /\ P * x \in Nat /\ P * p \in Nat
      BY <2>1, <3>1
    <3> QED BY <2>1, <2>2, <3>2
  <2> QED BY <2>1, <2>3, <2>4
<1>5. ASSUME NEW u \in t .. t + P - 1, NEW v \in t .. t + P - 1, u % P = b, v % P = b
      PROVE  u = v
  <2>1. ~(u < v) /\ ~(v < u)
    BY <1>5, <1>4
  <2> QED BY <2>1
<1> QED BY <1>3, <1>5

(* So a set of remainders is met as often as it has elements. *)
LEMMA MetPerPeriod ==
  ASSUME NEW P \in Nat \ {0}, NEW t \in Nat, NEW B \in SUBSET (0 .. P - 1)
  PROVE  Cardinality({u \in t .. t + P - 1 : u % P \in B}) = Cardinality(B)
<1> DEFINE A == {u \in t .. t + P - 1 : u % P \in B}
           f == [u \in A |-> u % P]
<1>1. IsFiniteSet(A)
  <2>1. IsFiniteSet(t .. t + P - 1)
    BY FS_Interval
  <2> QED BY <2>1, FS_Subset
<1>2. f \in [A -> B] /\ \A u \in A : f[u] = u % P
  OBVIOUS
<1>3. \A u \in A : u \in t .. t + P - 1 /\ u % P \in B /\ u % P \in 0 .. P - 1
  OBVIOUS
<1>4. \A u \in t .. t + P - 1 : u % P \in B => u \in A
  OBVIOUS
<1> HIDE DEF A, f
<1>5. \A u, v \in A : f[u] = f[v] => u = v
  <2> SUFFICES ASSUME NEW u \in A, NEW v \in A, f[u] = f[v] PROVE u = v
    OBVIOUS
  <2> DEFINE b == u % P
  <2>1. b \in 0 .. P - 1 /\ v % P = b
    BY <1>2, <1>3
  <2>2. u % P = b
    OBVIOUS
  <2>3. u \in t .. t + P - 1 /\ v \in t .. t + P - 1
    BY <1>3
  <2> HIDE DEF b
  <2> QED BY <2>1, <2>2, <2>3, OncePerPeriod
<1>6. \A b \in B : \E u \in A : f[u] = b
  <2> SUFFICES ASSUME NEW b \in B PROVE \E u \in A : f[u] = b
    OBVIOUS
  <2>1. PICK u \in t .. t + P - 1 : u % P = b
    BY OncePerPeriod
  <2>2. u \in A
    BY <1>4, <2>1
  <2> QED BY <1>2, <2>1, <2>2
<1>7. Cardinality(B) = Cardinality(A)
  BY <1>1, <1>2, <1>5, <1>6, CountedBy
<1> QED BY <1>7 DEF A

(* The slot of an instant, read off its place in the superframe. *)
LEMMA PlaceInSuperframe ==
  ASSUME NEW s \in Schedules, NEW u \in Nat, NEW o \in SlotsOf(s)
  PROVE  /\ SuperframeUs(s) \in Nat \ {0}
         /\ o * s.slot_us .. o * s.slot_us + s.slot_us - 1 \subseteq 0 .. SuperframeUs(s) - 1
         /\ CurrentSlot(s, u) = o <=>
              u % SuperframeUs(s) \in o * s.slot_us .. o * s.slot_us + s.slot_us - 1
<1> DEFINE S == s.slot_us
           N == s.slots
           P == SuperframeUs(s)
           a == u \div P
           b == u % P
           q == b \div S
           r == b % S
<1>1. S \in Nat \ {0} /\ N \in Nat \ {0} /\ P = S * N /\ o \in 0 .. N - 1
  BY DEF Schedules, SuperframeUs, SlotsOf
<1> HIDE DEF S, N, P
<1>2. P \in Nat \ {0}
  <2>1. PICK x \in Nat : N = x + 1
    BY <1>1
  <2>2. S * N = S * x + S /\ S * x \in Nat
    BY <1>1, <2>1
  <2> QED BY <1>1, <2>2
<1>3. a \in Nat /\ b \in 0 .. P - 1 /\ u = P * a + b
  BY <1>2, DivMod
<1> HIDE DEF a, b
<1>4. b \in Nat
  BY <1>2, <1>3
<1>5. q \in Nat /\ r \in 0 .. S - 1 /\ b = S * q + r
  BY <1>1, <1>4, DivMod
<1> HIDE DEF q, r
<1>6. q < N
  <2> SUFFICES ASSUME N <= q PROVE FALSE
    BY <1>1, <1>5
  <2>1. PICK x \in Nat : q = N + x
    BY <1>1, <1>5
  <2>2. S * q = S * N + S * x /\ S * x \in Nat /\ S * N \in Nat
    BY <1>1, <2>1
  <2> QED BY <1>1, <1>2, <1>3, <1>5, <2>2
<1>7. u = S * (N * a + q) + r
  <2>1. P * a = S * (N * a)
    BY <1>1, <1>3
  <2>2. N * a \in Nat
    BY <1>1, <1>3
  <2>3. S * (N * a + q) = S * (N * a) + S * q
    BY <1>1, <1>5, <2>2
  <2>4. S * (N * a) \in Nat /\ S * q \in Nat
    BY <1>1, <1>5, <2>2
  <2> QED BY <1>3, <1>5, <2>1, <2>3, <2>4
<1>8. CurrentSlot(s, u) = q
  <2>1. N * a + q \in Nat
    BY <1>1, <1>3, <1>5
  <2>2. (S * (N * a + q) + r) \div S = N * a + q
    BY <1>1, <1>5, <2>1, QuotientUnique
  <2>3. (N * a + q) % N = q
    BY <1>1, <1>3, <1>5, <1>6, QuotientUnique
  <2>4. u \div S = N * a + q
    BY <1>7, <2>2
  <2> QED BY <2>3, <2>4 DEF CurrentSlot, Epoch, S, N
<1>9. o * S = S * o /\ S * o \in Nat
  BY <1>1
<1>10. S * o + S <= P
  <2>1. PICK x \in Nat : N = o + 1 + x
    BY <1>1
  <2>2. S * N = S * o + S + S * x /\ S * x \in Nat
    BY <1>1, <2>1
  <2> QED BY <1>1, <1>9, <2>2
<1>11. q = o <=> b \in o * S .. o * S + S - 1
  <2>1. ASSUME q = o PROVE b \in o * S .. o * S + S - 1
    BY <1>1, <1>5, <1>9, <2>1
  <2>2. ASSUME b \in o * S .. o * S + S - 1 PROVE q = o
    <3>1. b - S * o \in 0 .. S - 1 /\ b = S * o + (b - S * o)
      BY <1>1, <1>4, <1>9, <2>2
    <3>2. (S * o + (b - S * o)) \div S = o
      BY <1>1, <3>1, QuotientUnique
    <3> QED BY <3>1, <3>2 DEF q
  <2> QED BY <2>1, <2>2
<1>12. o * S .. o * S + S - 1 \subseteq 0 .. P - 1
  BY <1>1, <1>2, <1>9, <1>10
<1> QED BY <1>2, <1>8, <1>11, <1>12 DEF S, P, b
---------------------------------------------------------------------------
(* The lanes are the multiples of the stride, as many as ReservedSlots says. *)
LEMMA LanesCounted ==
  ASSUME NEW s \in Schedules, s.reserved_stride >= 2
  PROVE  /\ ReservedSlots(s) \in 1 .. s.slots
         /\ \A i \in 0 .. ReservedSlots(s) - 1 :
              i * s.reserved_stride \in SlotsOf(s) /\ IsReserved(s, i * s.reserved_stride)
         /\ OpenSlots(s) \in Nat
         /\ IsFiniteSet(OpenSet(s)) /\ Cardinality(OpenSet(s)) = OpenSlots(s)
<1> DEFINE D == s.reserved_stride
           N == s.slots
           R == ReservedSlots(s)
           M == N + D - 1
           e == M % D
           lanes == {k \in SlotsOf(s) : IsReserved(s, k)}
           f == [i \in 0 .. R - 1 |-> i * D]
<1>1. N \in Nat \ {0} /\ D \in Nat \ {0} /\ D >= 2
  BY DEF Schedules
<1>2. SlotsOf(s) = 0 .. N - 1 /\ \A k : IsReserved(s, k) <=> k % D = 0
  BY DEF SlotsOf, IsReserved
<1>3. R = M \div D
  BY <1>1 DEF ReservedSlots
<1>4. OpenSlots(s) = N - R /\ OpenSet(s) = SlotsOf(s) \ lanes
  BY DEF OpenSlots, OpenSet
<1>5. \A i \in 0 .. R - 1 : f[i] = i * D
  OBVIOUS
<1>6. f = [i \in 0 .. R - 1 |-> i * D]
  OBVIOUS
<1> HIDE DEF N, D, R, f
<1>7. M \in Nat /\ M = N + D - 1
  BY <1>1
<1> HIDE DEF M, e
<1>8. R \in Nat /\ e \in 0 .. D - 1 /\ M = D * R + e
  BY <1>1, <1>3, <1>7, DivMod DEF e
<1>9. D * R \in Nat /\ N <= D * R /\ D * R <= N + D - 1
  BY <1>1, <1>7, <1>8
<1>10. R >= 1
  <2> SUFFICES ASSUME R = 0 PROVE FALSE
    BY <1>8
  <2>1. D * R = 0
    BY <1>1
  <2> QED BY <1>1, <1>9, <2>1
<1>11. D * R = D * (R - 1) + D /\ D * (R - 1) \in Nat
  BY <1>1, <1>8, <1>10
<1>12. R <= N
  <2> SUFFICES ASSUME N + 1 <= R PROVE FALSE
    BY <1>1, <1>8
  <2>1. PICK x \in Nat : R - 1 = N + x
    BY <1>1, <1>8
  <2>2. PICK y \in Nat : D = 2 + y
    BY <1>1
  <2>3. D * (R - 1) = 2 * (R - 1) + y * (R - 1) /\ y * (R - 1) \in Nat
    BY <1>8, <1>10, <2>2
  <2> QED BY <1>1, <1>8, <1>9, <1>11, <2>1, <2>3
<1>13. ASSUME NEW i \in 0 .. R - 1 PROVE i * D \in 0 .. N - 1 /\ (i * D) % D = 0
  <2>1. PICK x \in Nat : R - 1 = i + x
    BY <1>8
  <2>2. D * (R - 1) = D * i + D * x /\ D * x \in Nat /\ D * i \in Nat /\ D * i = i * D
    BY <1>1, <2>1
  <2>3. i \in Nat /\ 0 \in 0 .. D - 1
    BY <1>1, <1>8
  <2>4. (D * i + 0) % D = 0
    BY <1>1, <2>3, QuotientUnique
  <2> QED BY <1>1, <1>9, <1>11, <2>2, <2>4
<1>14. f \in [0 .. R - 1 -> lanes]
  BY <1>2, <1>6, <1>13
<1>15. \A i, j \in 0 .. R - 1 : f[i] = f[j] => i = j
  <2> SUFFICES ASSUME NEW i \in 0 .. R - 1, NEW j \in 0 .. R - 1, i * D = j * D PROVE i = j
    BY <1>5
  <2>1. i \in Nat /\ j \in Nat /\ D * i = D * j
    BY <1>1, <1>8
  <2>2. 0 \in 0 .. D - 1 /\ D * i <= D * j + 0 /\ D * j <= D * i + 0
    BY <1>1, <2>1
  <2>3. i <= j /\ j <= i
    BY <1>1, <2>1, <2>2, FactorOrder
  <2> QED BY <2>1, <2>3
<1>16. \A k \in lanes : \E i \in 0 .. R - 1 : f[i] = k
  <2> SUFFICES ASSUME NEW k \in 0 .. N - 1, k % D = 0 PROVE \E i \in 0 .. R - 1 : f[i] = k
    BY <1>2
  <2> DEFINE i == k \div D
  <2>1. i \in Nat /\ k = D * i + 0
    <3>1. k \in Nat
      BY <1>1
    <3> QED BY <1>1, <3>1, DivMod
  <2> HIDE DEF i
  <2>2. i < R
    <3> SUFFICES ASSUME R <= i PROVE FALSE
      BY <1>8, <2>1
    <3>1. PICK x \in Nat : i = R + x
      BY <1>8, <2>1
    <3>2. D * i = D * R + D * x /\ D * x \in Nat
      BY <1>1, <1>8, <3>1
    <3> QED BY <1>1, <1>9, <2>1, <3>2
  <2>3. i \in 0 .. R - 1 /\ i * D = k
    BY <1>1, <1>8, <2>1, <2>2
  <2> QED BY <1>5, <2>3
<1>17. IsFiniteSet(0 .. R - 1) /\ Cardinality(0 .. R - 1) = R
  <2>1. 0 \in Int /\ R - 1 \in Int
    BY <1>8
  <2>2. IsFiniteSet(0 .. R - 1) /\ Cardinality(0 .. R - 1) = IF 0 > R - 1 THEN 0 ELSE R - 1 - 0 + 1
    BY <2>1, FS_Interval
  <2> QED BY <1>8, <1>10, <2>2
<1>18. IsFiniteSet(0 .. N - 1) /\ Cardinality(0 .. N - 1) = N
  <2>1. 0 \in Int /\ N - 1 \in Int
    BY <1>1
  <2>2. IsFiniteSet(0 .. N - 1) /\ Cardinality(0 .. N - 1) = IF 0 > N - 1 THEN 0 ELSE N - 1 - 0 + 1
    BY <2>1, FS_Interval
  <2> QED BY <1>1, <2>2
<1>19. IsFiniteSet(lanes) /\ Cardinality(lanes) = R
  <2> DEFINE A == 0 .. R - 1
  <2>2. f \in [A -> lanes] /\ IsFiniteSet(A)
    BY <1>14, <1>17
  <2>3. \A i, j \in A : f[i] = f[j] => i = j
    BY <1>15
  <2>4. \A k \in lanes : \E i \in A : f[i] = k
    BY <1>16
  <2> HIDE DEF lanes, A
  <2>1. IsFiniteSet(lanes) /\ Cardinality(lanes) = Cardinality(A)
    BY <2>2, <2>3, <2>4, CountedBy
  <2> USE DEF A
  <2> QED BY <1>17, <2>1
<1>20. SlotsOf(s) \cap lanes = lanes
  OBVIOUS
<1>21. IsFiniteSet(OpenSet(s)) /\ Cardinality(OpenSet(s)) = N - R
  <2>1. IsFiniteSet(SlotsOf(s)) /\ Cardinality(SlotsOf(s)) = N
    BY <1>2, <1>18
  <2> HIDE DEF lanes
  <2>2. IsFiniteSet(SlotsOf(s) \ lanes)
        /\ Cardinality(SlotsOf(s) \ lanes) = Cardinality(SlotsOf(s)) - Cardinality(SlotsOf(s) \cap lanes)
    BY <2>1, FS_Difference
  <2> QED BY <1>4, <1>19, <1>20, <2>1, <2>2
<1>22. N - R \in Nat /\ R \in 1 .. N
  BY <1>1, <1>8, <1>10, <1>12
<1> QED BY <1>2, <1>4, <1>13, <1>21, <1>22 DEF N, D, R

(* In a finite set of numbers some element has n below it, for every n that    *)
(* is less than their number.                                                  *)
LEMMA RankIsTaken ==
  ASSUME NEW T \in SUBSET Nat, IsFiniteSet(T), NEW top \in Nat, \A k \in T : k < top,
         NEW n \in Nat, n < Cardinality(T)
  PROVE  \E k \in T : Cardinality({j \in T : j < k}) = n
<1> DEFINE U(k) == {j \in T : j < k}
           c(k) == Cardinality(U(k))
           more == {k \in Nat : c(k) > n}
<1>1. \A k \in Nat : IsFiniteSet(U(k)) /\ c(k) \in Nat
  BY FS_Subset, FS_CardinalityType
<1>2. \A k \in Nat : U(k + 1) = IF k \in T THEN U(k) \cup {k} ELSE U(k)
  <2> SUFFICES ASSUME NEW k \in Nat PROVE U(k + 1) = IF k \in T THEN U(k) \cup {k} ELSE U(k)
    OBVIOUS
  <2>1. \A j \in T : j < k + 1 <=> j < k \/ j = k
    OBVIOUS
  <2> QED BY <2>1
<1>3. \A k \in Nat : k \notin U(k)
  OBVIOUS
<1>4. U(0) = {} /\ U(top) = T
  <2>1. \A j \in T : j \in Nat /\ ~(j < 0) /\ j < top
    OBVIOUS
  <2> QED BY <2>1
<1> HIDE DEF U
<1>5. c(0) = 0 /\ c(top) > n
  BY <1>4, FS_EmptySet
<1>6. \A k \in Nat : c(k + 1) = IF k \in T THEN c(k) + 1 ELSE c(k)
  <2> SUFFICES ASSUME NEW k \in Nat PROVE c(k + 1) = IF k \in T THEN c(k) + 1 ELSE c(k)
    OBVIOUS
  <2>1. IsFiniteSet(U(k)) /\ k \notin U(k)
    BY <1>1, <1>3
  <2>2. Cardinality(U(k) \cup {k}) = Cardinality(U(k)) + 1
    BY <2>1, FS_AddElement
  <2> QED BY <1>2, <2>2
<1> HIDE DEF c
<1>7. top \in more /\ more \in SUBSET Nat
  BY <1>5
<1>8. PICK k \in more : \A y \in more : k <= y
  BY <1>7, NatMin
<1>9. k \in Nat /\ c(k) > n
  BY <1>8
<1>10. k # 0
  BY <1>5, <1>9
<1>11. k - 1 \in Nat /\ ~(c(k - 1) > n)
  <2>1. k - 1 \in Nat /\ ~(k <= k - 1)
    BY <1>9, <1>10
  <2>2. k - 1 \notin more
    BY <1>8, <2>1
  <2> QED BY <2>1, <2>2
<1>12. c(k) = IF k - 1 \in T THEN c(k - 1) + 1 ELSE c(k - 1)
  <2>1. (k - 1) + 1 = k
    BY <1>9
  <2> QED BY <1>6, <1>11, <2>1
<1>13. k - 1 \in T /\ c(k - 1) = n
  BY <1>1, <1>9, <1>11, <1>12 DEF c
<1> QED BY <1>13 DEF c, U

(* Every index up to the number of open slots names one of them. *)
LEMMA NthOpenFacts ==
  ASSUME NEW s \in Schedules, s.reserved_stride >= 2, NEW n \in Nat
  PROVE  /\ NthOpen(s, n) \in SlotsOf(s)
         /\ n < OpenSlots(s) => /\ NthOpen(s, n) \in OpenSet(s)
                                /\ Cardinality({j \in OpenSet(s) : j < NthOpen(s, n)}) = n
<1> DEFINE T == OpenSet(s)
           is(k) == Cardinality({j \in T : j < k}) = n
<1>1. s.slots \in Nat \ {0} /\ SlotsOf(s) = 0 .. s.slots - 1
  BY DEF Schedules, SlotsOf
<1>2. T \in SUBSET Nat /\ T \subseteq SlotsOf(s) /\ \A k \in T : k < s.slots
  BY <1>1 DEF OpenSet
<1>3. IsFiniteSet(T) /\ Cardinality(T) = OpenSlots(s)
  BY LanesCounted
<1>4. NthOpen(s, n) = IF \E k \in T : is(k) THEN CHOOSE k \in T : is(k) ELSE s.slots - 1
  BY DEF NthOpen
<1>5. n < OpenSlots(s) => \E k \in T : is(k)
  BY <1>1, <1>2, <1>3, RankIsTaken
<1>6. s.slots - 1 \in SlotsOf(s)
  BY <1>1
<1>7. (\E k \in T : is(k)) => NthOpen(s, n) \in T /\ is(NthOpen(s, n))
  <2> HIDE DEF is, T
  <2> QED BY <1>4
<1>8. NthOpen(s, n) \in SlotsOf(s)
  <2> HIDE DEF is
  <2> QED BY <1>2, <1>4, <1>6, <1>7
<1> QED BY <1>5, <1>7, <1>8
(* Every group owns a slot of the superframe. *)
LEMMA OwnerInSuperframe ==
  ASSUME NEW s \in Schedules, NEW h \in Nat, NEW cl \in LeaseClass
  PROVE  OwnerSlotIn(s, h, cl) \in SlotsOf(s)
<1>1. s.slots \in Nat \ {0} /\ s.reserved_stride \in Nat \ {1}
  BY DEF Schedules
<1>2. CASE s.reserved_stride < 2
  BY <1>1, <1>2, DivMod DEF OwnerSlotIn, OwnerSlot, SlotsOf
<1>3. CASE ~(s.reserved_stride < 2) /\ cl = Latency
  <2> DEFINE R == ReservedSlots(s)
             i == h % R
  <2>1. R \in 1 .. s.slots /\ \A j \in 0 .. R - 1 : j * s.reserved_stride \in SlotsOf(s)
    BY <1>1, <1>3, LanesCounted
  <2>2. AtLeastOne(R) = R /\ i \in 0 .. R - 1
    BY <1>1, <2>1, DivMod DEF AtLeastOne
  <2>3. OwnerSlotIn(s, h, cl) = i * s.reserved_stride
    BY <1>3, <2>2 DEF OwnerSlotIn
  <2> HIDE DEF i, R
  <2> QED BY <2>1, <2>2, <2>3
<1>4. CASE ~(s.reserved_stride < 2) /\ cl # Latency
  <2> DEFINE M == AtLeastOne(OpenSlots(s))
             n == h % M
  <2>1. OpenSlots(s) \in Nat
    BY <1>1, <1>4, LanesCounted
  <2>2. M \in Nat \ {0}
    BY <2>1 DEF AtLeastOne
  <2>3. n \in Nat
    BY <2>2, DivMod
  <2>4. OwnerSlotIn(s, h, cl) = NthOpen(s, n)
    BY <1>4 DEF OwnerSlotIn
  <2> HIDE DEF n
  <2>5. s.reserved_stride >= 2
    BY <1>1, <1>4
  <2>6. NthOpen(s, n) \in SlotsOf(s)
    BY <2>3, <2>5, NthOpenFacts
  <2> QED BY <2>4, <2>6
<1> QED BY <1>2, <1>3, <1>4

(* A bulk group's slot is open, with as many open slots before it as its residue. *)
LEMMA BulkOwnsOpen ==
  ASSUME NEW s \in Schedules, s.reserved_stride >= 2, OpenSlots(s) >= 1, NEW h \in Nat
  PROVE  /\ OwnerSlotIn(s, h, Bulk) \in OpenSet(s)
         /\ Cardinality({j \in OpenSet(s) : j < OwnerSlotIn(s, h, Bulk)}) = h % OpenSlots(s)
<1> DEFINE M == OpenSlots(s)
           n == h % M
<1>1. M \in Nat \ {0} /\ AtLeastOne(M) = M
  BY LanesCounted DEF AtLeastOne
<1>2. n \in Nat /\ n < M
  <2>1. n \in 0 .. M - 1
    BY <1>1, DivMod
  <2> HIDE DEF n
  <2> QED BY <1>1, <2>1
<1>3. OwnerSlotIn(s, h, Bulk) = NthOpen(s, n)
  <2>1. ~(s.reserved_stride < 2) /\ Bulk # Latency
    BY DEF Bulk, Latency, Schedules
  <2> QED BY <1>1, <2>1 DEF OwnerSlotIn
<1> HIDE DEF n, M
<1>4. NthOpen(s, n) \in OpenSet(s) /\ Cardinality({j \in OpenSet(s) : j < NthOpen(s, n)}) = n
  BY <1>2, NthOpenFacts DEF M
<1> QED BY <1>3, <1>4 DEF n, M

(* A latency group's slot is a lane. *)
LEMMA LatencyOwnsLane ==
  ASSUME NEW s \in Schedules, s.reserved_stride >= 2, NEW h \in Nat
  PROVE  /\ OwnerSlotIn(s, h, Latency) = (h % ReservedSlots(s)) * s.reserved_stride
         /\ IsReserved(s, OwnerSlotIn(s, h, Latency))
<1> DEFINE R == ReservedSlots(s)
           i == h % R
<1>1. /\ R \in 1 .. s.slots /\ s.slots \in Nat
      /\ \A j \in 0 .. R - 1 : IsReserved(s, j * s.reserved_stride)
  BY LanesCounted DEF Schedules
<1>2. R \in Nat \ {0} /\ AtLeastOne(R) = R
  BY <1>1 DEF AtLeastOne
<1>3. i \in 0 .. R - 1
  BY <1>2, DivMod
<1>4. OwnerSlotIn(s, h, Latency) = i * s.reserved_stride
  <2>1. ~(s.reserved_stride < 2)
    BY DEF Schedules
  <2> QED BY <1>2, <2>1 DEF OwnerSlotIn
<1> HIDE DEF i, R
<1>5. IsReserved(s, i * s.reserved_stride)
  BY <1>1, <1>3
<1> QED BY <1>4, <1>5 DEF i, R

(* Going round the superframe from slot c, slot o comes after the wait and no sooner. *)
LEMMA RoundTo ==
  ASSUME NEW N \in Nat \ {0}, NEW c \in 0 .. N - 1, NEW o \in 0 .. N - 1, c # o
  PROVE  /\ (o + N - c) % N \in 1 .. N - 1
         /\ (c + ((o + N - c) % N)) % N = o
         /\ \A j \in 0 .. ((o + N - c) % N) - 1 : (c + j) % N # o
<1>0. N \in Nat /\ c \in Nat /\ o \in Nat /\ c < N /\ o < N
  OBVIOUS
<1>1. \A x \in 0 .. N - 1 : x % N = x /\ (x + N) % N = x
  <2> SUFFICES ASSUME NEW x \in 0 .. N - 1 PROVE x % N = x /\ (x + N) % N = x
    OBVIOUS
  <2>1. (N * 0 + x) % N = x /\ (N * 1 + x) % N = x
    BY QuotientUnique
  <2>2. N * 0 + x = x /\ N * 1 + x = x + N
    OBVIOUS
  <2> QED BY <2>1, <2>2
<1>2. CASE c < o
  <2> DEFINE d == o - c
  <2>1. d \in 1 .. N - 1 /\ o + N - c = d + N /\ c + d = o
    BY <1>0, <1>2
  <2>2. (o + N - c) % N = d
    <3>1. d \in 0 .. N - 1
      BY <2>1
    <3>2. (d + N) % N = d
      BY <1>1, <3>1
    <3> QED BY <2>1, <3>2
  <2>3. (c + d) % N = o
    BY <1>1, <2>1
  <2>4. \A j \in 0 .. d - 1 : (c + j) % N # o
    <3> SUFFICES ASSUME NEW j \in 0 .. d - 1 PROVE (c + j) % N # o
      OBVIOUS
    <3>1. c + j \in 0 .. N - 1 /\ c + j # o
      BY <1>0, <1>2
    <3> QED BY <1>1, <3>1
  <2> HIDE DEF d
  <2> QED BY <2>1, <2>2, <2>3, <2>4
<1>3. CASE o < c
  <2> DEFINE d == o + N - c
  <2>1. d \in 1 .. N - 1 /\ c + d = o + N
    BY <1>0, <1>3
  <2>2. d % N = d
    <3>1. d \in 0 .. N - 1
      BY <2>1
    <3> HIDE DEF d
    <3> QED BY <1>1, <3>1
  <2>3. (c + d) % N = o
    <3>1. (o + N) % N = o
      BY <1>1
    <3> QED BY <2>1, <3>1
  <2>4. \A j \in 0 .. d - 1 : (c + j) % N # o
    <3> SUFFICES ASSUME NEW j \in 0 .. d - 1 PROVE (c + j) % N # o
      OBVIOUS
    <3>0. j \in Nat /\ c + j < o + N
      BY <1>0, <1>3
    <3>1. CASE c + j < N
      <4>1. c + j \in 0 .. N - 1 /\ c + j # o
        BY <1>0, <1>3, <3>0, <3>1
      <4> QED BY <1>1, <4>1
    <3>2. CASE N <= c + j
      <4> DEFINE x == c + j - N
      <4>1. x \in 0 .. N - 1 /\ x # o /\ x + N = c + j
        BY <1>0, <1>3, <3>0, <3>2
      <4> HIDE DEF x
      <4>2. (x + N) % N = x
        BY <1>1, <4>1
      <4> QED BY <4>1, <4>2
    <3> QED BY <1>0, <3>0, <3>1, <3>2
  <2>5. (o + N - c) % N = d
    BY <2>2
  <2> HIDE DEF d
  <2> QED BY <2>1, <2>3, <2>4, <2>5
<1> QED BY <1>0, <1>2, <1>3
---------------------------------------------------------------------------
(* WaitEndsAtTheNextTurn, for every schedule, owner and instant. *)
LEMMA WaitIsTheNextTurn ==
  ASSUME NEW s \in Schedules, NEW h \in Nat, NEW cl \in LeaseClass, NEW t \in Nat
  PROVE  LET w == WaitUsIn(s, h, cl, t) IN
         /\ w \in Nat /\ OwnsNowIn(s, h, cl, t + w)
         /\ \A u \in t .. t + w - 1 : ~OwnsNowIn(s, h, cl, u)
<1> DEFINE S == s.slot_us
           N == s.slots
           q == t \div S
           r == t % S
           c == q % N
           o == OwnerSlotIn(s, h, cl)
           d == (o + N - c) % N
           w == WaitUsIn(s, h, cl, t)
<1>1. S \in Nat \ {0} /\ N \in Nat \ {0} /\ o \in 0 .. N - 1
  BY OwnerInSuperframe DEF Schedules, SlotsOf
<1>2. \A u : OwnsNowIn(s, h, cl, u) <=> (u \div S) % N = o
  BY DEF OwnsNowIn, CurrentSlot, Epoch
<1>3. w = IF c = o THEN 0 ELSE d * S - r
  BY DEF WaitUsIn, OwnsNowIn, CurrentSlot, Epoch
<1> HIDE DEF S, N, o
<1>4. q \in Nat /\ r \in 0 .. S - 1 /\ t = S * q + r
  BY <1>1, DivMod
<1> HIDE DEF q, r
<1>5. c \in 0 .. N - 1
  BY <1>1, <1>4, DivMod
<1>6. \A j \in Nat : (q + j) % N = (c + j) % N
  BY <1>1, <1>4, SlotsOn
<1> SUFFICES w \in Nat /\ (((t + w) \div S) % N = o)
             /\ \A u \in t .. t + w - 1 : (u \div S) % N # o
  BY <1>2
<1>7. CASE c = o
  <2>1. w = 0 /\ t + w = t /\ \A u \in t .. t + w - 1 : FALSE
    BY <1>3, <1>7
  <2> QED BY <1>7, <2>1 DEF q
<1>8. CASE c # o
  <2> HIDE DEF c
  <2>1. d \in 1 .. N - 1 /\ (c + d) % N = o /\ \A j \in 0 .. d - 1 : (c + j) % N # o
    BY <1>1, <1>5, <1>8, RoundTo
  <2> HIDE DEF d
  <2>2. d \in Nat \ {0}
    BY <1>1, <2>1
  <2>3. PICK x \in Nat : d = x + 1
    BY <2>2
  <2>4. d * S = S * d /\ S * d = S * x + S /\ S * x \in Nat /\ S * d \in Nat
    BY <1>1, <2>3
  <2>5. S * (q + d) = S * q + S * d /\ S * q \in Nat
    BY <1>1, <1>4, <2>2
  <2>6. w \in Nat
    <3>1. w = d * S - r
      BY <1>3, <1>8
    <3> HIDE DEF w
    <3> QED BY <1>1, <1>4, <2>4, <3>1
  <2>7. w = S * d - r
    BY <1>3, <1>8, <2>4
  <2> HIDE DEF w
  <2>8. t + w = S * (q + d) + 0
    BY <1>1, <1>4, <2>4, <2>5, <2>6, <2>7
  <2>9. (t + w) \div S = q + d
    <3>1. q + d \in Nat /\ 0 \in 0 .. S - 1
      BY <1>1, <1>4, <2>2
    <3>2. (S * (q + d) + 0) \div S = q + d
      BY <1>1, <3>1, QuotientUnique
    <3> QED BY <2>8, <3>2
  <2>10. ((t + w) \div S) % N = o
    BY <1>6, <2>1, <2>2, <2>9
  <2>11. ASSUME NEW u \in t .. t + w - 1 PROVE (u \div S) % N # o
    <3> DEFINE p == u \div S
               v == u % S
    <3>0. t \in Nat /\ u \in Nat /\ t <= u /\ u < S * (q + d)
      BY <1>1, <1>4, <2>4, <2>5, <2>6, <2>8
    <3>1. p \in Nat /\ v \in 0 .. S - 1 /\ u = S * p + v
      BY <1>1, <3>0, DivMod
    <3> HIDE DEF p, v
    <3>2. q <= p
      <4>1. S * q <= S * p + v
        BY <1>4, <2>5, <3>0, <3>1, <1>1
      <4> QED BY <1>1, <1>4, <3>1, <4>1, FactorOrder
    <3>3. p < q + d
      <4> SUFFICES ASSUME q + d <= p PROVE FALSE
        BY <1>4, <2>2, <3>1
      <4>1. PICK y \in Nat : p = q + d + y
        BY <1>4, <2>2, <3>1
      <4>2. S * p = S * (q + d) + S * y /\ S * y \in Nat /\ S * (q + d) \in Nat
        BY <1>1, <1>4, <2>2, <4>1
      <4> QED BY <1>1, <3>0, <3>1, <4>2
    <3>4. PICK j \in Nat : p = q + j /\ j < d
      BY <1>4, <2>2, <3>1, <3>2, <3>3
    <3>5. j \in 0 .. d - 1
      BY <2>2, <3>4
    <3>6. p % N # o
      BY <1>6, <2>1, <3>4, <3>5
    <3> QED BY <3>6 DEF p
  <2> QED BY <2>6, <2>10, <2>11
<1> QED BY <1>7, <1>8

(* OneTurnPerSuperframe. *)
LEMMA TurnOfSuperframe ==
  ASSUME NEW s \in Schedules, NEW h \in Nat, NEW cl \in LeaseClass, NEW t \in Nat
  PROVE  Cardinality({u \in t .. t + SuperframeUs(s) - 1 : OwnsNowIn(s, h, cl, u)}) = s.slot_us
<1> DEFINE S == s.slot_us
           P == SuperframeUs(s)
           o == OwnerSlotIn(s, h, cl)
           B == o * S .. o * S + S - 1
<1>1. o \in SlotsOf(s) /\ o \in Nat
  BY OwnerInSuperframe DEF SlotsOf, Schedules
<1>2. S \in Nat \ {0}
  BY DEF Schedules
<1>3. /\ P \in Nat \ {0} /\ B \in SUBSET (0 .. P - 1)
      /\ \A u \in Nat : OwnsNowIn(s, h, cl, u) <=> u % P \in B
  BY <1>1, PlaceInSuperframe DEF OwnsNowIn
<1> HIDE DEF o
<1>4. Cardinality(B) = S
  <2> DEFINE a == o * S
             b == a + S - 1
  <2>1. a \in Nat
    BY <1>1, <1>2
  <2> HIDE DEF a, S
  <2>2. b \in Int /\ ~(a > b) /\ b - a + 1 = S
    BY <1>2, <2>1
  <2> HIDE DEF b
  <2>3. Cardinality(a .. b) = IF a > b THEN 0 ELSE b - a + 1
    BY <2>1, <2>2, FS_Interval
  <2> QED BY <2>2, <2>3 DEF a, b, S
<1> HIDE DEF B, P, S
<1>5. {u \in t .. t + P - 1 : OwnsNowIn(s, h, cl, u)} = {u \in t .. t + P - 1 : u % P \in B}
  <2>1. \A u \in t .. t + P - 1 : u \in Nat
    BY <1>3
  <2> QED BY <1>3, <2>1
<1>6. Cardinality({u \in t .. t + P - 1 : u % P \in B}) = Cardinality(B)
  BY <1>3, MetPerPeriod
<1> QED BY <1>4, <1>5, <1>6 DEF P, S

(* The instant after a turn comes in every superframe, and the wait is longest then. *)
LEMMA LongestWait ==
  ASSUME NEW s \in Schedules, NEW h \in Nat, NEW cl \in LeaseClass, NEW t \in Nat
  PROVE  /\ \A u \in Nat : WaitUsIn(s, h, cl, u) <= (s.slots - 1) * s.slot_us
         /\ s.slots >= 2 => \E u \in t .. t + SuperframeUs(s) - 1 :
                              WaitUsIn(s, h, cl, u) = (s.slots - 1) * s.slot_us
<1> DEFINE S == s.slot_us
           N == s.slots
           P == SuperframeUs(s)
           o == OwnerSlotIn(s, h, cl)
           c(u) == CurrentSlot(s, u)
           d(u) == (o + N - c(u)) % N
<1>1. S \in Nat \ {0} /\ N \in Nat \ {0} /\ o \in 0 .. N - 1 /\ SlotsOf(s) = 0 .. N - 1
  BY OwnerInSuperframe DEF Schedules, SlotsOf
<1>2. \A u \in Nat : c(u) \in 0 .. N - 1 /\ u % S \in 0 .. S - 1
  <2> SUFFICES ASSUME NEW u \in Nat PROVE c(u) \in 0 .. N - 1 /\ u % S \in 0 .. S - 1
    OBVIOUS
  <2>1. u \div S \in Nat /\ u % S \in 0 .. S - 1
    BY <1>1, DivMod
  <2>2. (u \div S) % N \in 0 .. N - 1
    BY <1>1, <2>1, DivMod
  <2> QED BY <2>1, <2>2 DEF CurrentSlot, Epoch
<1>3. \A u : WaitUsIn(s, h, cl, u) = IF c(u) = o THEN 0 ELSE d(u) * S - (u % S)
  BY DEF WaitUsIn, OwnsNowIn
<1> HIDE DEF S, N, o, c
<1>4. (N - 1) * S \in Nat
  BY <1>1
<1>5. ASSUME NEW u \in Nat PROVE WaitUsIn(s, h, cl, u) <= (N - 1) * S
  <2>1. CASE c(u) = o
    BY <1>3, <1>4, <2>1
  <2>2. CASE c(u) # o
    <3>1. d(u) \in 1 .. N - 1
      BY <1>1, <1>2, <2>2, RoundTo
    <3>2. WaitUsIn(s, h, cl, u) = d(u) * S - (u % S)
      BY <1>3, <2>2
    <3> HIDE DEF d
    <3>0. d(u) \in Nat /\ N - 1 - d(u) \in Nat /\ N - 1 = d(u) + (N - 1 - d(u))
      BY <1>1, <3>1
    <3>3. PICK x \in Nat : N - 1 = d(u) + x /\ d(u) \in Nat
      BY <3>0
    <3>4. (N - 1) * S = d(u) * S + x * S /\ d(u) * S \in Nat /\ x * S \in Nat
      BY <1>1, <3>3
    <3>5. u % S \in Nat
      BY <1>1, <1>2
    <3> QED BY <3>2, <3>4, <3>5
  <2> QED BY <2>1, <2>2
<1>6. ASSUME N >= 2 PROVE \E u \in t .. t + P - 1 : WaitUsIn(s, h, cl, u) = (N - 1) * S
  <2> DEFINE k == IF o + 1 < N THEN o + 1 ELSE 0
  <2>1. k \in 0 .. N - 1 /\ k # o
    BY <1>1, <1>6
  <2>2. (o + N - k) % N = N - 1
    <3>0. N - 1 \in 0 .. N - 1 /\ 0 \in Nat /\ 1 \in Nat
      BY <1>1
    <3>1. (N * 0 + (N - 1)) % N = N - 1 /\ (N * 1 + (N - 1)) % N = N - 1
      BY <1>1, <3>0, QuotientUnique
    <3>2. o + N - k = N * 0 + (N - 1) \/ o + N - k = N * 1 + (N - 1)
      BY <1>1
    <3> QED BY <3>1, <3>2
  <2> HIDE DEF k
  <2>3. k \in Nat /\ S * k \in Nat /\ k * S = S * k
    BY <1>1, <2>1
  <2>4. /\ P \in Nat \ {0} /\ k * S .. k * S + S - 1 \subseteq 0 .. P - 1
        /\ \A u \in Nat : c(u) = k <=> u % P \in k * S .. k * S + S - 1
    BY <1>1, <2>1, PlaceInSuperframe DEF S, c
  <2>5. k * S \in k * S .. k * S + S - 1 /\ k * S \in 0 .. P - 1
    BY <1>1, <2>3, <2>4
  <2> HIDE DEF P
  <2>6. PICK u \in t .. t + P - 1 : u % P = k * S
    BY <2>4, <2>5, OncePerPeriod
  <2>7. u \in Nat /\ c(u) = k
    BY <2>4, <2>5, <2>6
  <2>8. u % S = 0
    <3> DEFINE a == u \div P
    <3>1. a \in Nat /\ u = P * a + k * S
      BY <2>4, <2>6, <2>7, DivMod
    <3> HIDE DEF a
    <3>2. P = S * N
      BY <1>1 DEF P, SuperframeUs, S, N
    <3>3. P * a = S * (N * a) /\ N * a \in Nat
      BY <1>1, <3>1, <3>2
    <3>4. S * (N * a + k) = S * (N * a) + S * k /\ N * a + k \in Nat /\ S * (N * a) \in Nat
      BY <1>1, <2>3, <3>3
    <3>5. u = S * (N * a + k) + 0
      BY <2>3, <3>1, <3>3, <3>4
    <3>6. 0 \in 0 .. S - 1
      BY <1>1
    <3> QED BY <1>1, <3>4, <3>5, <3>6, QuotientUnique
  <2>9. WaitUsIn(s, h, cl, u) = d(u) * S - (u % S)
    BY <1>3, <2>1, <2>7
  <2>10. d(u) = N - 1
    BY <2>2, <2>7
  <2> HIDE DEF d
  <2>11. WaitUsIn(s, h, cl, u) = (N - 1) * S
    BY <1>4, <2>8, <2>9, <2>10
  <2> QED BY <2>6, <2>11
<1> QED BY <1>5, <1>6 DEF N, S, P

(* StrideBoundsShortMapsOnly. *)
LEMMA StrideBound ==
  ASSUME NEW s \in Schedules, s.reserved_stride >= 2, NEW h \in Nat, NEW t \in Nat
  PROVE  (\A u \in t .. t + SuperframeUs(s) - 1 : WaitUsIn(s, h, Latency, u) <= UrgentAccessBound(s))
         <=> s.slots <= s.reserved_stride + 1
<1> DEFINE S == s.slot_us
           N == s.slots
           D == s.reserved_stride
           w(u) == WaitUsIn(s, h, Latency, u)
           window == t .. t + SuperframeUs(s) - 1
<1>1. S \in Nat \ {0} /\ N \in Nat \ {0} /\ D \in Nat \ {0} /\ UrgentAccessBound(s) = D * S
  BY DEF Schedules, UrgentAccessBound
<1>2. Latency \in LeaseClass
  BY DEF LeaseClass
<1>3. /\ \A u \in Nat : w(u) \in Nat /\ w(u) <= (N - 1) * S
      /\ N >= 2 => \E u \in window : w(u) = (N - 1) * S
  <2>1. \A u \in Nat : w(u) \in Nat
    BY <1>2, WaitIsTheNextTurn
  <2> QED BY <1>2, <2>1, LongestWait
<1>4. \A u \in window : u \in Nat
  <2>1. SuperframeUs(s) \in Nat
    BY <1>1 DEF SuperframeUs
  <2> QED BY <2>1
<1> HIDE DEF S, N, D, w, window
<1>5. ASSUME N <= D + 1, NEW u \in window PROVE w(u) <= D * S
  <2>1. PICK x \in Nat : D = N - 1 + x
    BY <1>1, <1>5
  <2>2. D * S = (N - 1) * S + x * S /\ x * S \in Nat /\ (N - 1) * S \in Nat
    BY <1>1, <2>1
  <2>3. w(u) \in Nat /\ w(u) <= (N - 1) * S
    BY <1>3, <1>4
  <2> QED BY <2>2, <2>3
<1>6. ASSUME \A u \in window : w(u) <= D * S PROVE N <= D + 1
  <2> SUFFICES ASSUME D + 2 <= N PROVE FALSE
    BY <1>1
  <2>1. PICK u \in window : w(u) = (N - 1) * S
    BY <1>1, <1>3
  <2>2. PICK x \in Nat : N - 1 = D + 1 + x
    BY <1>1
  <2>3. (N - 1) * S = D * S + S + x * S /\ x * S \in Nat /\ D * S \in Nat
    BY <1>1, <2>2
  <2>4. w(u) <= D * S
    BY <1>6
  <2> QED BY <1>1, <2>1, <2>3, <2>4
<1> QED BY <1>1, <1>5, <1>6 DEF N, D, w, window

(* With lanes, bulk has an open slot exactly if there are two slots or more. *)
LEMMA OpenSlotRemains ==
  ASSUME NEW s \in Schedules, s.reserved_stride >= 2
  PROVE  OpenSlots(s) >= 1 <=> s.slots >= 2
<1> DEFINE N == s.slots
           D == s.reserved_stride
<1>1. N \in Nat \ {0} /\ D \in Nat \ {0} /\ D >= 2
  BY DEF Schedules
<1>2. /\ ReservedSlots(s) \in 1 .. N /\ OpenSlots(s) \in Nat
      /\ IsFiniteSet(OpenSet(s)) /\ Cardinality(OpenSet(s)) = OpenSlots(s)
  BY LanesCounted
<1>3. ASSUME N >= 2 PROVE OpenSlots(s) >= 1
  <2>1. 1 % D = 1
    <3>1. 1 \in 0 .. D - 1 /\ D * 0 + 1 = 1
      BY <1>1
    <3>2. (D * 0 + 1) % D = 1
      BY <1>1, <3>1, QuotientUnique
    <3> QED BY <3>1, <3>2
  <2>2. 1 \in OpenSet(s)
    BY <1>1, <1>3, <2>1 DEF OpenSet, SlotsOf, IsReserved
  <2>3. Cardinality(OpenSet(s)) # 0
    BY <1>2, <2>2, FS_EmptySet
  <2> QED BY <1>2, <2>3
<1>4. ASSUME OpenSlots(s) >= 1 PROVE N >= 2
  <2>1. OpenSlots(s) = N - ReservedSlots(s)
    BY DEF OpenSlots
  <2> QED BY <1>1, <1>2, <1>4, <2>1
<1> QED BY <1>3, <1>4

(* ClassesNeverShareASlot. *)
LEMMA ClassesKeptApart ==
  ASSUME NEW s \in Schedules, s.reserved_stride >= 2, NEW h \in Nat, NEW g \in Nat
  PROVE  OwnerSlotIn(s, h, Latency) # OwnerSlotIn(s, g, Bulk) <=> s.slots >= 2
<1>1. s.slots \in Nat \ {0} /\ Latency \in LeaseClass /\ Bulk \in LeaseClass
  BY DEF Schedules, LeaseClass
<1>2. ASSUME s.slots >= 2 PROVE OwnerSlotIn(s, h, Latency) # OwnerSlotIn(s, g, Bulk)
  <2>1. OpenSlots(s) >= 1
    BY <1>2, OpenSlotRemains
  <2>2. IsReserved(s, OwnerSlotIn(s, h, Latency)) /\ OwnerSlotIn(s, g, Bulk) \in OpenSet(s)
    BY <2>1, LatencyOwnsLane, BulkOwnsOpen
  <2> QED BY <2>2 DEF OpenSet
<1>3. ASSUME ~(s.slots >= 2) PROVE OwnerSlotIn(s, h, Latency) = OwnerSlotIn(s, g, Bulk)
  <2>1. SlotsOf(s) = {0}
    BY <1>1, <1>3 DEF SlotsOf
  <2> QED BY <1>1, <2>1, OwnerInSuperframe
<1> QED BY <1>2, <1>3

(* ResiduesGetTheirOwnSlot. *)
LEMMA ResiduesKeptApart ==
  ASSUME NEW s \in Schedules, NEW h \in Nat, NEW g \in Nat, NEW cl \in LeaseClass
  PROVE  LET room == IF s.reserved_stride < 2 THEN s.slots
                     ELSE AtLeastOne(IF cl = Latency THEN ReservedSlots(s) ELSE OpenSlots(s))
         IN  h % room # g % room => OwnerSlotIn(s, h, cl) # OwnerSlotIn(s, g, cl)
<1>1. s.reserved_stride \in Nat /\ s.slots \in Nat
  BY DEF Schedules
<1>2. CASE s.reserved_stride < 2
  BY <1>2 DEF OwnerSlotIn, OwnerSlot
<1>3. CASE s.reserved_stride >= 2 /\ cl = Latency
  <2> DEFINE R == ReservedSlots(s)
             D == s.reserved_stride
             i == h % R
             j == g % R
  <2>1. R \in Nat \ {0} /\ AtLeastOne(R) = R
    BY <1>1, <1>3, LanesCounted DEF AtLeastOne
  <2>2. OwnerSlotIn(s, h, Latency) = i * D /\ OwnerSlotIn(s, g, Latency) = j * D
    BY <1>3, LatencyOwnsLane
  <2>3. i \in Nat /\ j \in Nat
    <3>1. i \in 0 .. R - 1 /\ j \in 0 .. R - 1
      BY <2>1, DivMod
    <3> HIDE DEF i, j
    <3> QED BY <2>1, <3>1
  <2>4. D \in Nat \ {0}
    BY <1>1, <1>3
  <2> HIDE DEF i, j, D
  <2>5. i * D = j * D => i = j
    <3> SUFFICES ASSUME i * D = j * D PROVE i = j
      OBVIOUS
    <3>1. 0 \in 0 .. D - 1 /\ D * i <= D * j + 0 /\ D * j <= D * i + 0
      BY <2>3, <2>4
    <3>2. i <= j /\ j <= i
      BY <2>3, <2>4, <3>1, FactorOrder
    <3> QED BY <2>3, <3>2
  <2>6. i # j => OwnerSlotIn(s, h, Latency) # OwnerSlotIn(s, g, Latency)
    BY <2>2, <2>5
  <2>7. ~(s.reserved_stride < 2)
    BY <1>1, <1>3
  <2> QED BY <1>3, <2>1, <2>6, <2>7 DEF i, j
<1>4. CASE s.reserved_stride >= 2 /\ cl = Bulk
  <2> DEFINE M == OpenSlots(s)
  <2>1. M \in Nat /\ ~(s.reserved_stride < 2) /\ Bulk # Latency
    BY <1>1, <1>4, LanesCounted DEF Bulk, Latency
  <2>2. CASE M = 0
    <3>1. AtLeastOne(M) = 1
      BY <2>2 DEF AtLeastOne
    <3>2. h % 1 = g % 1
      <4>1. h % 1 \in 0 .. 0 /\ g % 1 \in 0 .. 0
        BY DivMod
      <4> QED BY <4>1
    <3> QED BY <1>4, <2>1, <3>1, <3>2
  <2>3. CASE M >= 1
    <3>1. AtLeastOne(M) = M
      BY <2>1, <2>3 DEF AtLeastOne
    <3>2. /\ Cardinality({j \in OpenSet(s) : j < OwnerSlotIn(s, h, Bulk)}) = h % M
          /\ Cardinality({j \in OpenSet(s) : j < OwnerSlotIn(s, g, Bulk)}) = g % M
      BY <1>4, <2>3, BulkOwnsOpen
    <3>3. h % M # g % M => OwnerSlotIn(s, h, Bulk) # OwnerSlotIn(s, g, Bulk)
      BY <3>2
    <3> QED BY <1>4, <2>1, <3>1, <3>3
  <2> QED BY <2>1, <2>2, <2>3
<1> QED BY <1>1, <1>2, <1>3, <1>4 DEF LeaseClass

(* LeaseStopsAtTheLane. *)
LEMMA LeaseReachesTheLane ==
  ASSUME NEW s \in Schedules, NEW t \in Nat, NEW L \in Nat
  PROVE  LET d == LeaseDeadline(s, t, Bulk, L)
             full == SlotStart(s, t) + AtLeastOne(L) * s.slot_us
         IN  /\ t < d
             /\ d < full => IsReserved(s, CurrentSlot(s, d))
<1> DEFINE S == s.slot_us
           N == s.slots
           e == Epoch(s, t)
           h == HeldSlots(s, t, Bulk, L)
           d == LeaseDeadline(s, t, Bulk, L)
           full == SlotStart(s, t) + AtLeastOne(L) * S
<1>1. S \in Nat \ {0} /\ N \in Nat \ {0}
  BY DEF Schedules
<1>2. LeaseSlots(Bulk, L) = AtLeastOne(L) /\ AtLeastOne(L) \in Nat \ {0}
  BY DEF LeaseSlots, AtLeastOne, Bulk, Latency
<1>3. h \in Nat \ {0} /\ (h = AtLeastOne(L) \/ IsReserved(s, (CurrentSlot(s, t) + h) % N))
  <2>1. h \in 1 .. AtLeastOne(L) /\ (h = AtLeastOne(L) \/ IsReserved(s, (CurrentSlot(s, t) + h) % N))
    BY <1>2, HeldSlotsFacts
  <2> HIDE DEF h
  <2> QED BY <1>2, <2>1
<1>4. e \in Nat /\ SlotStart(s, t) = e * S /\ t < SlotStart(s, t) + S /\ d = e * S + h * S
  BY SlotFacts DEF SlotStart, LeaseDeadline
<1>5. CurrentSlot(s, t) = e % N
  BY DEF CurrentSlot
<1>6. CurrentSlot(s, d) = (d \div S) % N
  BY DEF CurrentSlot, Epoch
<1> HIDE DEF S, N, e, h, d
<1>7. PICK x \in Nat : h = x + 1
  BY <1>3
<1>8. h * S = x * S + S /\ x * S \in Nat /\ e * S \in Nat /\ e * S + h * S = S * (e + h)
  BY <1>1, <1>3, <1>4, <1>7
<1>9. t < d
  BY <1>1, <1>4, <1>8
<1>10. CurrentSlot(s, d) = (CurrentSlot(s, t) + h) % N
  <2>1. d = S * (e + h) + 0
    BY <1>1, <1>3, <1>4, <1>8
  <2>2. e + h \in Nat /\ 0 \in 0 .. S - 1
    BY <1>1, <1>3, <1>4
  <2>3. (S * (e + h) + 0) \div S = e + h
    BY <1>1, <2>2, QuotientUnique
  <2>4. (e + h) % N = ((e % N) + h) % N
    BY <1>1, <1>3, <1>4, SlotsOn
  <2> QED BY <1>5, <1>6, <2>1, <2>3, <2>4
<1>11. d < full => h # AtLeastOne(L)
  <2> SUFFICES ASSUME h = AtLeastOne(L) PROVE ~(d < full)
    OBVIOUS
  <2>1. full = d /\ d \in Nat
    BY <1>1, <1>4, <1>8, <1>3
  <2> QED BY <2>1
<1> QED BY <1>3, <1>9, <1>10, <1>11 DEF d, S
===========================================================================
