-------------------------- MODULE SlotGate_proofs --------------------------
(***************************************************************************)
(* The transmit gate, for every number of calls, every schedule, every     *)
(* group table and every lateness: type correctness, the invariant GateInv *)
(* with one step lemma per conjunct, and the bound on access.  Then the    *)
(* gated medium: the composition of gated bearers and the air implements   *)
(* the gate, for any number of nodes, calls and control frames.            *)
(***************************************************************************)
EXTENDS SlotMedium, SlotSchedule_proofs

(* The constants, one fact each, so that a leaf can cite what it needs. *)
LEMMA Constants ==
  /\ NoFrame \in Name
  /\ \A s \in Sender : NodeOf[s] \in Node
  /\ \A m \in Name : /\ Class[m] \in LeaseClass
                     /\ Airtime[m] \in Nat \ {0}
                     /\ RawHash[m] \in Nat
                     /\ \A ch \in Channels : KeyedHash[m][ch] \in Nat
  /\ \A s \in Sender : Sends[s] \subseteq Name
  /\ \A n \in Node : Skew[n] \in Nat
  /\ Sched \in Schedules /\ Sched.slot_us \in Nat \ {0}
  /\ RetuneUs \in Nat /\ Oversleep \in Nat /\ MaxTime \in Nat /\ LeaseMax \in Nat
  /\ Channel0 \in Channels
<1>1. NoFrame \in Name
  BY GateAssumption DEF NoFrame
<1>2. Sched.slot_us \in Nat \ {0}
  BY GateAssumption DEF Schedules
<1> QED BY <1>1, <1>2, GateAssumption DEF Channels

(* The channel of a hop is one of the channels. *)
LEMMA HopChannelType ==
  ASSUME NEW m \in Name, NEW t \in Nat, Hops
  PROVE  HopChannel(m, t) \in Channels
<1>1. Len(HopClasses) \in Nat \ {0} /\ DOMAIN HopClasses = 1 .. Len(HopClasses)
  BY GateAssumption DEF Hops
<1>2. t \div Dwell \in Nat
  BY GateAssumption, DivMod
<1>3. RawHash[m] + (t \div Dwell) \in Nat
  BY <1>2, Constants
<1>4. (RawHash[m] + (t \div Dwell)) % Len(HopClasses) \in 0 .. Len(HopClasses) - 1
  <2> DEFINE x == RawHash[m] + (t \div Dwell)
  <2> HIDE DEF x
  <2>1. x \in Nat
    BY <1>3 DEF x
  <2>2. x % Len(HopClasses) \in 0 .. Len(HopClasses) - 1
    BY <1>1, <2>1, DivMod
  <2> QED BY <2>2 DEF x
<1>5. 1 + ((RawHash[m] + (t \div Dwell)) % Len(HopClasses)) \in DOMAIN HopClasses
  BY <1>1, <1>4
<1> QED BY <1>5 DEF HopChannel, Channels

(* A draw is a positive number of ticks. *)
LEMMA JittersType ==
  ASSUME NEW a \in Nat, NEW j \in Jitters(a)
  PROVE  j \in Nat \ {0}
BY DEF Jitters

(* A node reads a natural number off its clock. *)
LEMMA ClockType ==
  ASSUME TypeOK, NEW n \in Node
  PROVE  Clock(n) \in Nat /\ Clock(n) = now + Skew[n]
BY Constants DEF TypeOK, Clock

(* The time left in the slot is a natural number. *)
LEMMA RemainingType ==
  ASSUME NEW t \in Nat
  PROVE  SlotRemaining(Sched, t) \in Nat
BY SlotFacts, Constants

---------------------------------------------------------------------------
(* Type correctness. *)

(* The scheduler starts in a state of its type. *)
THEOREM InitTypeOK == Init => TypeOK
BY Constants DEF Init, TypeOK, Asleep, Running, GrantKind, Never, NoSighting

(* The steps that every branch of gate is made of keep the types. *)
LEMMA GrantType ==
  ASSUME TypeOK, NEW s \in Sender, NEW kind \in GrantKind, NEW start \in Nat,
         Grant(s, kind, start)
  PROVE  /\ pc' \in [Sender -> {"idle"} \cup Asleep \cup Running]
         /\ how' \in [Sender -> GrantKind]
         /\ slotAt' \in [Sender -> Nat]
         /\ wake' \in [Sender -> Nat]
         /\ waiting' \in [Sender -> BOOLEAN]
         /\ txHold' \in [Node -> BOOLEAN]
BY Constants DEF TypeOK, Grant, Goto, Asleep, Running

(* Going to sleep keeps the types. *)
LEMMA SleepForType ==
  ASSUME TypeOK, NEW s \in Sender, NEW place \in Asleep, NEW d \in Nat,
         SleepFor(s, place, d)
  PROVE  /\ pc' \in [Sender -> {"idle"} \cup Asleep \cup Running]
         /\ wake' \in [Sender -> Nat]
BY DEF TypeOK, SleepFor, Goto

(* Deferring keeps the types. *)
LEMMA DeclinedType ==
  ASSUME TypeOK, NEW s \in Sender, Declined(s)
  PROVE  /\ pc' \in [Sender -> {"idle"} \cup Asleep \cup Running]
         /\ how' \in [Sender -> GrantKind]
         /\ slotAt' \in [Sender -> Nat]
         /\ wake' \in [Sender -> Nat]
         /\ waiting' \in [Sender -> BOOLEAN]
         /\ txHold' \in [Node -> BOOLEAN]
<1> DEFINE n == NodeOf[s]
<1>1. n \in Node
  BY Constants
<1>2. SlotRemaining(Sched, Clock(n)) \in Nat
  BY <1>1, ClockType, RemainingType
<1>3. CASE waiting[s]
  <2>1. SleepFor(s, "sleep", SlotRemaining(Sched, Clock(n))) /\ UNCHANGED <<waiting, txHold, slotAt, how>>
    BY <1>3 DEF Declined
  <2>2. "sleep" \in Asleep
    BY DEF Asleep
  <2> QED BY <1>2, <2>1, <2>2, SleepForType DEF TypeOK
<1>4. CASE ~waiting[s]
  BY <1>1, <1>4 DEF Declined, Goto, TypeOK, Running
<1> QED BY <1>3, <1>4

(* The medium-keyed hash is a natural number. *)
LEMMA KeyedType ==
  ASSUME TypeOK, NEW n \in Node, NEW m \in Name
  PROVE  Keyed(n, m) \in Nat
BY Constants DEF Keyed, TypeOK

(* The entry of gate keeps the types. *)
LEMMA OfferType ==
  ASSUME TypeOK, NEW s \in Sender, NEW m \in Sends[s], Offer(s, m)
  PROVE  TypeOK'
<1> DEFINE n == NodeOf[s]
           t == Clock(n)
<1>1. n \in Node /\ m \in Name
  BY Constants
<1>2. t \in Nat
  BY <1>1, ClockType
<1>3. /\ pc' \in [Sender -> {"idle"} \cup Asleep \cup Running]
      /\ wake' \in [Sender -> Nat]
  <2>1. CASE SleepFor(s, "retune", RetuneUs)
    BY <2>1, SleepForType, Constants DEF Asleep
  <2>2. CASE Goto(s, "owner") /\ UNCHANGED wake
    BY <2>2 DEF Goto, TypeOK, Running
  <2> QED BY <2>1, <2>2 DEF Offer
<1>4. frame' \in [Sender -> Name] /\ entry' \in [Sender -> Nat]
  BY <1>1, <1>2 DEF Offer, TypeOK
<1>5. UNCHANGED <<now, nodeVars, key, slotAt, waiting, how, yielded>>
  BY DEF Offer
<1> QED BY <1>3, <1>4, <1>5 DEF TypeOK, nodeVars

(* A retune keeps the types. *)
LEMMA RetunedType ==
  ASSUME TypeOK, Hops, NEW s \in Sender, Retuned(s)
  PROVE  TypeOK'
<1>1. HopChannel(frame[s], entry[s]) \in Channels
  BY HopChannelType DEF TypeOK
<1> QED BY <1>1 DEF Retuned, Goto, TypeOK, Running

(* The owner path keeps the types. *)
LEMMA OwnerTestType ==
  ASSUME TypeOK, NEW s \in Sender, OwnerTest(s)
  PROVE  TypeOK'
<1> DEFINE n == NodeOf[s]
           m == frame[s]
           h == Keyed(n, m)
           a == Airtime[m]
           start == SlotStart(Sched, entry[s])
<1>1. n \in Node /\ m \in Name /\ a \in Nat /\ entry[s] \in Nat
  BY Constants DEF TypeOK
<1>2. h \in Nat /\ start \in Nat
  BY <1>1, KeyedType, SlotFacts, Constants
<1>3. key' \in [Sender -> Nat]
  BY <1>2 DEF OwnerTest, TypeOK
<1>4. /\ pc' \in [Sender -> {"idle"} \cup Asleep \cup Running]
      /\ how' \in [Sender -> GrantKind]
      /\ slotAt' \in [Sender -> Nat]
      /\ wake' \in [Sender -> Nat]
      /\ waiting' \in [Sender -> BOOLEAN]
      /\ txHold' \in [Node -> BOOLEAN]
  <2>1. CASE Grant(s, "owner", start)
    BY <1>2, <2>1, GrantType DEF GrantKind
  <2>2. CASE /\ \E j \in Jitters(a) : SleepFor(s, "backoff", j)
             /\ slotAt' = [slotAt EXCEPT ![s] = start]
             /\ UNCHANGED <<waiting, how, txHold>>
    <3>1. PICK j \in Jitters(a) : SleepFor(s, "backoff", j)
      BY <2>2
    <3>2. j \in Nat /\ "backoff" \in Asleep
      BY <1>1, JittersType DEF Asleep
    <3> QED BY <1>2, <2>2, <3>1, <3>2, SleepForType DEF TypeOK
  <2>3. CASE Goto(s, "contend") /\ UNCHANGED <<wake, slotAt, waiting, how, txHold>>
    BY <2>3 DEF Goto, TypeOK, Running
  <2> QED BY <2>1, <2>2, <2>3 DEF OwnerTest
<1> QED BY <1>3, <1>4 DEF OwnerTest, TypeOK

(* The end of a backoff keeps the types. *)
LEMMA BackoffEndsType ==
  ASSUME TypeOK, NEW s \in Sender, BackoffEnds(s)
  PROVE  TypeOK'
<1>1. slotAt[s] \in Nat
  BY DEF TypeOK
<1>2. CASE Grant(s, "turn", slotAt[s]) /\ UNCHANGED yielded
  <2>1. "turn" \in GrantKind
    BY DEF GrantKind
  <2> QED BY <1>1, <1>2, <2>1, GrantType DEF TypeOK, BackoffEnds
<1>3. CASE /\ Goto(s, "contend")
           /\ yielded' = [yielded EXCEPT ![s] = slotAt[s]]
           /\ UNCHANGED <<wake, slotAt, waiting, how, txHold>>
  BY <1>1, <1>3 DEF TypeOK, BackoffEnds, Goto, Running
<1> QED BY <1>2, <1>3 DEF BackoffEnds

(* try_claim up to its sleep keeps the types. *)
LEMMA ContendType ==
  ASSUME TypeOK, NEW s \in Sender, Contend(s)
  PROVE  TypeOK'
<1> DEFINE n == NodeOf[s]
           a == Airtime[frame[s]]
           start == SlotStart(Sched, Clock(n))
<1>1. n \in Node /\ a \in Nat
  BY Constants DEF TypeOK
<1>2. start \in Nat
  BY <1>1, ClockType, SlotFacts, Constants
<1>3. holdStart' \in [Node -> Nat \cup {Never}] /\ leaseUntil' \in [Node -> Nat]
  <2>1. CASE /\ holdStart'  = [holdStart EXCEPT ![n] = Never]
             /\ leaseUntil' = [leaseUntil EXCEPT ![n] = 0]
    BY <1>1, <2>1 DEF TypeOK
  <2>2. CASE UNCHANGED <<holdStart, leaseUntil>>
    BY <2>2 DEF TypeOK
  <2> QED BY <2>1, <2>2 DEF Contend
<1>4. /\ pc' \in [Sender -> {"idle"} \cup Asleep \cup Running]
      /\ how' \in [Sender -> GrantKind]
      /\ slotAt' \in [Sender -> Nat]
      /\ wake' \in [Sender -> Nat]
      /\ waiting' \in [Sender -> BOOLEAN]
      /\ txHold' \in [Node -> BOOLEAN]
  <2>1. CASE Grant(s, "hold", start)
    BY <1>2, <2>1, GrantType DEF GrantKind
  <2>2. CASE /\ \E j \in Jitters(a) : SleepFor(s, "elect", j)
             /\ slotAt' = [slotAt EXCEPT ![s] = start]
             /\ UNCHANGED <<waiting, how, txHold>>
    <3>1. PICK j \in Jitters(a) : SleepFor(s, "elect", j)
      BY <2>2
    <3>2. j \in Nat /\ "elect" \in Asleep
      BY <1>1, JittersType DEF Asleep
    <3> QED BY <1>2, <2>2, <3>1, <3>2, SleepForType DEF TypeOK
  <2>3. CASE Declined(s)
    BY <2>3, DeclinedType
  <2> QED BY <2>1, <2>2, <2>3 DEF Contend
<1> QED BY <1>3, <1>4 DEF Contend, TypeOK

(* The end of an election keeps the types. *)
LEMMA ElectionEndsType ==
  ASSUME TypeOK, NEW s \in Sender, ElectionEnds(s)
  PROVE  TypeOK'
<1> DEFINE n == NodeOf[s]
           d == LeaseDeadline(Sched, slotAt[s], Bulk, LeaseMax)
<1>1. n \in Node /\ slotAt[s] \in Nat
  BY Constants DEF TypeOK
<1>2. d \in Nat
  BY <1>1, LeaseCoversNoLane, Constants
<1>3. holdStart' \in [Node -> Nat \cup {Never}] /\ leaseUntil' \in [Node -> Nat]
  BY <1>1, <1>2 DEF ElectionEnds, TypeOK
<1>4. /\ pc' \in [Sender -> {"idle"} \cup Asleep \cup Running]
      /\ how' \in [Sender -> GrantKind]
      /\ slotAt' \in [Sender -> Nat]
      /\ wake' \in [Sender -> Nat]
      /\ waiting' \in [Sender -> BOOLEAN]
      /\ txHold' \in [Node -> BOOLEAN]
  <2>1. CASE Declined(s)
    BY <2>1, DeclinedType
  <2>2. CASE Grant(s, "claim", slotAt[s])
    BY <1>1, <2>2, GrantType DEF GrantKind
  <2> QED BY <2>1, <2>2 DEF ElectionEnds
<1> QED BY <1>3, <1>4 DEF ElectionEnds, TypeOK

(* The top of the wait loop keeps the types. *)
LEMMA LoopTestType ==
  ASSUME TypeOK, NEW s \in Sender, LoopTest(s)
  PROVE  TypeOK'
<1> DEFINE start == SlotStart(Sched, Clock(NodeOf[s]))
<1>1. start \in Nat
  BY ClockType, SlotFacts, Constants
<1>2. CASE Grant(s, "owner", start)
  <2>1. "owner" \in GrantKind
    BY DEF GrantKind
  <2> QED BY <1>1, <1>2, <2>1, GrantType DEF LoopTest, TypeOK
<1>3. CASE Goto(s, "contend") /\ UNCHANGED <<wake, slotAt, waiting, how, txHold>>
  BY <1>3 DEF LoopTest, TypeOK, Goto, Running
<1> QED BY <1>2, <1>3 DEF LoopTest

(* Waking up keeps the types. *)
LEMMA AwakeType ==
  ASSUME TypeOK, NEW s \in Sender, Awake(s)
  PROVE  TypeOK'
BY DEF Awake, TypeOK, Goto, Running, nodeVars

(* The return of a call keeps the types. *)
LEMMA InjectType ==
  ASSUME TypeOK, NEW s \in Sender, Inject(s)
  PROVE  TypeOK'
BY Constants DEF Inject, TypeOK, Goto, GrantKind, Never, nodeVars

(* An overheard frame keeps the types. *)
LEMMA ObserveRxType ==
  ASSUME TypeOK, NEW n \in Node, NEW m \in Audible, NEW x \in Nonces, ObserveRx(n, m, x)
  PROVE  TypeOK'
<1>1. m \in Name /\ x \in Nat
  BY GateAssumption
<1>2. Keyed(n, m) \in Nat /\ SlotStart(Sched, Clock(n)) \in Nat
  BY <1>1, KeyedType, ClockType, SlotFacts, Constants
<1>3. [key |-> Keyed(n, m), nonce |-> x] \in Sighting
  BY <1>2 DEF Sighting
<1> QED BY <1>2, <1>3 DEF ObserveRx, TypeOK, callVars

(* An aged sighting keeps the types. *)
LEMMA ForgetType ==
  ASSUME TypeOK, NEW n \in Node, NEW k \in SlotsOf(Sched), Forget(n, k)
  PROVE  TypeOK'
BY DEF Forget, TypeOK, callVars

(* A stuttering step keeps the types. *)
LEMMA StutterType ==
  ASSUME TypeOK, UNCHANGED vars
  PROVE  TypeOK'
BY DEF TypeOK, vars, nodeVars, callVars

---------------------------------------------------------------------------
(* What the shared steps of gate do to the call that takes them. *)

Others(s) == Sender \ {s}

(* What a grant leaves behind, read at one call. *)
LEMMA GrantEffect ==
  ASSUME TypeOK, NEW s \in Sender, NEW kind, NEW start, Grant(s, kind, start)
  PROVE  /\ pc'[s] = "granted" /\ how'[s] = kind /\ slotAt'[s] = start
         /\ \A r \in Others(s) : pc'[r] = pc[r] /\ how'[r] = how[r] /\ slotAt'[r] = slotAt[r]
         /\ wake' = wake
BY DEF TypeOK, Grant, Goto, Others

(* What going to sleep leaves behind, read at one call. *)
LEMMA SleepForEffect ==
  ASSUME TypeOK, NEW s \in Sender, NEW place, NEW d, SleepFor(s, place, d)
  PROVE  /\ pc'[s] = place /\ wake'[s] = now + d
         /\ \A r \in Others(s) : pc'[r] = pc[r] /\ wake'[r] = wake[r]
BY DEF TypeOK, SleepFor, Goto, Others

(* What a jump leaves behind, read at one call. *)
LEMMA GotoEffect ==
  ASSUME TypeOK, NEW s \in Sender, NEW place, Goto(s, place)
  PROVE  pc'[s] = place /\ \A r \in Others(s) : pc'[r] = pc[r]
BY DEF TypeOK, Goto, Others

(* What deferring leaves behind, read at one call. *)
LEMMA DeclinedEffect ==
  ASSUME TypeOK, NEW s \in Sender, Declined(s)
  PROVE  /\ pc'[s] \in {"loop", "sleep"}
         /\ \A r \in Others(s) : pc'[r] = pc[r] /\ wake'[r] = wake[r]
         /\ slotAt' = slotAt /\ how' = how
<1>1. CASE waiting[s]
  <2>1. SleepFor(s, "sleep", SlotRemaining(Sched, Clock(NodeOf[s])))
    BY <1>1 DEF Declined
  <2> QED BY <2>1, SleepForEffect DEF Declined
<1>2. CASE ~waiting[s]
  <2>1. Goto(s, "loop") /\ wake' = wake
    BY <1>2 DEF Declined
  <2> QED BY <2>1, GotoEffect DEF Declined
<1> QED BY <1>1, <1>2

---------------------------------------------------------------------------
(* What GateInv says of one call, and when it is not disturbed. *)

CallInv(s) ==
  /\ RetuneInv(s) /\ OwnerInv(s) /\ DrawInv(s) /\ RightInv(s) /\ StartInv(s)
  /\ EndsWithItsSlot(s) /\ DecidedInARightfulSlot(s)

(* A call whose own state stands still keeps what it relies on. *)
LEMMA Elsewhere ==
  ASSUME NEW r \in Sender, CallInv(r),
         now' = now, pc'[r] = pc[r], frame'[r] = frame[r], entry'[r] = entry[r],
         key'[r] = key[r], slotAt'[r] = slotAt[r], wake'[r] = wake[r], how'[r] = how[r]
  PROVE  CallInv(r)'
BY DEF CallInv, RetuneInv, OwnerInv, DrawInv, RightInv, StartInv, EndsWithItsSlot,
       DecidedInARightfulSlot, Granted, Clock

(* A call that reaches one of these places has nothing to keep. *)
LEMMA Unbound ==
  ASSUME NEW r \in Sender, pc'[r] \in {"idle", "contend", "loop", "sleep"}
  PROVE  CallInv(r)'
BY DEF CallInv, RetuneInv, OwnerInv, DrawInv, RightInv, StartInv, EndsWithItsSlot,
       DecidedInARightfulSlot, Granted

(* A frame that fits the rest of a slot ends with it. *)
LEMMA FitsEnds ==
  ASSUME NEW t \in Nat, NEW a \in Nat, SlotRemaining(Sched, t) >= a
  PROVE  SlotStart(Sched, t) <= t /\ t + a <= SlotStart(Sched, t) + Sched.slot_us
BY SlotFacts, Constants

(* The slack is a natural number of ticks. *)
LEMMA SlackType == HopSlack \in Nat /\ Slack = HopSlack + Oversleep
BY Constants DEF HopSlack, Slack

(* A call is granted in a slot of its own that leaves room for its frame. *)
LEMMA GrantedInv ==
  ASSUME NEW s \in Sender, pc'[s] = "granted",
         SlotStart(Sched, slotAt'[s]) = slotAt'[s],
         slotAt'[s] <= Clock(NodeOf[s])',
         Clock(NodeOf[s])' + Airtime[frame'[s]] <= slotAt'[s] + Sched.slot_us + Slack,
         DecidedInARightfulSlot(s)'
  PROVE  CallInv(s)'
BY DEF CallInv, RetuneInv, OwnerInv, DrawInv, RightInv, StartInv, EndsWithItsSlot

(* A draw of j leaves room for a frame of a in the slot of t, read at u. *)
LEMMA DrawFits ==
  ASSUME NEW t \in Nat, NEW u \in Nat, t <= u, u <= t + HopSlack,
         NEW a \in Nat, NEW j \in Nat, SlotRemaining(Sched, t) > j + a
  PROVE  /\ SlotStart(Sched, SlotStart(Sched, t)) = SlotStart(Sched, t)
         /\ SlotStart(Sched, t) <= u
         /\ u + j + a < SlotStart(Sched, t) + Sched.slot_us + HopSlack
<1>1. SlotStart(Sched, SlotStart(Sched, t)) = SlotStart(Sched, t)
  BY StartOfSlot, Constants
<1>2. /\ SlotStart(Sched, t) \in Nat /\ SlotStart(Sched, t) <= t
      /\ SlotRemaining(Sched, t) = SlotStart(Sched, t) + Sched.slot_us - t
  BY SlotFacts, Constants
<1> QED BY <1>1, <1>2, SlackType, Constants

(* The entry of gate establishes what a retune or the owner path relies on. *)
LEMMA OfferInv ==
  ASSUME TypeOK, NEW s \in Sender, NEW m \in Sends[s], Offer(s, m)
  PROVE  CallInv(s)'
<1> DEFINE n == NodeOf[s]
           t == Clock(n)
<1>1. n \in Node /\ m \in Name /\ t \in Nat /\ t = now + Skew[n] /\ now \in Nat
  BY Constants, ClockType DEF TypeOK
<1>2. frame'[s] = m /\ entry'[s] = t /\ now' = now
  BY DEF Offer, TypeOK
<1>3. CASE Hops /\ SleepFor(s, "retune", RetuneUs)
  <2>1. pc'[s] = "retune" /\ wake'[s] = now + RetuneUs
    BY <1>3, SleepForEffect
  <2>2. RetuneInv(s)'
    BY <1>1, <1>2, <1>3, <2>1, Constants DEF RetuneInv, Clock
  <2> QED BY <2>1, <2>2 DEF CallInv, OwnerInv, DrawInv, RightInv, StartInv, EndsWithItsSlot,
                            DecidedInARightfulSlot, Granted
<1>4. CASE Goto(s, "owner")
  <2>1. pc'[s] = "owner"
    BY <1>4, GotoEffect
  <2>2. OwnerInv(s)'
    BY <1>1, <1>2, <2>1, SlackType DEF OwnerInv, Clock
  <2> QED BY <2>1, <2>2 DEF CallInv, RetuneInv, DrawInv, RightInv, StartInv, EndsWithItsSlot,
                            DecidedInARightfulSlot, Granted
<1> QED BY <1>3, <1>4 DEF Offer

(* A retune that ends leaves the owner path an instant at most HopSlack old. *)
LEMMA RetunedInv ==
  ASSUME TypeOK, NEW s \in Sender, CallInv(s), Retuned(s)
  PROVE  CallInv(s)'
<1> DEFINE n == NodeOf[s]
<1>1. n \in Node /\ Skew[n] \in Nat /\ now \in Nat /\ entry[s] \in Nat /\ wake[s] \in Nat
  BY Constants DEF TypeOK
<1>2. pc'[s] = "owner" /\ entry'[s] = entry[s] /\ now' = now
  BY GotoEffect DEF Retuned
<1>3. /\ Hops /\ wake[s] + Skew[n] = entry[s] + RetuneUs
      /\ entry[s] <= Clock(n) /\ now <= wake[s] + Oversleep
  BY DEF CallInv, RetuneInv, Retuned
<1>4. OwnerInv(s)'
  BY <1>1, <1>2, <1>3, Constants DEF OwnerInv, Clock, HopSlack
<1> QED BY <1>2, <1>4 DEF CallInv, RetuneInv, DrawInv, RightInv, StartInv, EndsWithItsSlot,
                          DecidedInARightfulSlot, Granted

(* The owner path grants an owned slot or draws a backoff that fits it. *)
LEMMA OwnerTestInv ==
  ASSUME TypeOK, NEW s \in Sender, CallInv(s), OwnerTest(s)
  PROVE  CallInv(s)'
<1> DEFINE n == NodeOf[s]
           m == frame[s]
           t == entry[s]
           h == Keyed(n, m)
           a == Airtime[m]
           start == SlotStart(Sched, t)
           mine == OwnsNowIn(Sched, h, Class[m], t) /\ FitsNow(Sched, t, a)
<1>1. n \in Node /\ m \in Name /\ a \in Nat /\ t \in Nat /\ now \in Nat /\ Skew[n] \in Nat
  BY Constants DEF TypeOK
<1>2. Clock(n) \in Nat /\ t <= Clock(n) /\ Clock(n) <= t + HopSlack
  BY <1>1, ClockType DEF CallInv, OwnerInv, OwnerTest
<1>3. key'[s] = h /\ frame'[s] = m /\ now' = now
  BY DEF OwnerTest, TypeOK
<1>4. mine => OwnsNowIn(Sched, h, Class[m], start)
  BY <1>1, StartOfSlot, Constants DEF OwnsNowIn
<1>5. CASE mine /\ Grant(s, "owner", start)
  <2>1. pc'[s] = "granted" /\ how'[s] = "owner" /\ slotAt'[s] = start
    BY <1>5, GrantEffect
  <2>2. DecidedInARightfulSlot(s)'
    BY <1>3, <1>4, <1>5, <2>1 DEF DecidedInARightfulSlot, Granted
  <2>3. start \in Nat /\ start <= t /\ t + a <= start + Sched.slot_us
    BY <1>1, <1>5, FitsEnds, SlotFacts, Constants DEF FitsNow
  <2>4. start <= Clock(n) /\ Clock(n) + a <= start + Sched.slot_us + Slack
    BY <1>1, <1>2, <2>3, SlackType, Constants
  <2>5. SlotStart(Sched, start) = start
    BY <1>1, StartOfSlot, Constants
  <2> QED BY <1>3, <2>1, <2>2, <2>4, <2>5, GrantedInv DEF Clock
<1>6. CASE mine /\ \E j \in Jitters(a) : /\ SlotRemaining(Sched, t) > j + a
                                         /\ SleepFor(s, "backoff", j)
                                         /\ slotAt' = [slotAt EXCEPT ![s] = start]
  <2>1. PICK j \in Jitters(a) : SlotRemaining(Sched, t) > j + a /\ SleepFor(s, "backoff", j)
    BY <1>6
  <2>2. j \in Nat
    BY <1>1, JittersType
  <2>3. pc'[s] = "backoff" /\ wake'[s] = now + j /\ slotAt'[s] = start
    BY <1>6, <2>1, SleepForEffect DEF TypeOK
  <2>4. /\ SlotStart(Sched, start) = start
        /\ start <= Clock(n)
        /\ Clock(n) + j + a < start + Sched.slot_us + HopSlack
    BY <1>1, <1>2, <2>1, <2>2, DrawFits
  <2>5. Clock(n) + j + a = wake'[s] + Skew[n] + a
    BY <1>1, <2>2, <2>3 DEF Clock
  <2>6. DrawInv(s)'
    BY <1>1, <1>3, <2>2, <2>3, <2>4, <2>5, Constants DEF DrawInv, Clock
  <2>7. RightInv(s)'
    BY <1>3, <1>4, <1>6, <2>3 DEF RightInv
  <2> QED BY <2>3, <2>6, <2>7 DEF CallInv, RetuneInv, OwnerInv, StartInv, EndsWithItsSlot,
                                  DecidedInARightfulSlot, Granted
<1>7. CASE Goto(s, "contend")
  BY <1>7, GotoEffect, Unbound
<1> QED BY <1>5, <1>6, <1>7 DEF OwnerTest

(* The end of a draw is at most Oversleep late, so the frame still ends in time. *)
LEMMA DrawEnds ==
  ASSUME TypeOK, NEW s \in Sender, CallInv(s), pc[s] \in {"backoff", "elect"}
  PROVE  /\ slotAt[s] <= Clock(NodeOf[s])
         /\ Clock(NodeOf[s]) + Airtime[frame[s]] <= slotAt[s] + Sched.slot_us + Slack
<1>1. /\ NodeOf[s] \in Node /\ Skew[NodeOf[s]] \in Nat /\ Airtime[frame[s]] \in Nat
      /\ now \in Nat /\ wake[s] \in Nat /\ slotAt[s] \in Nat
  BY Constants DEF TypeOK
<1>2. DrawInv(s)
  BY DEF CallInv
<1> QED BY <1>1, <1>2, SlackType, Constants DEF DrawInv, Clock

(* A backoff that ends grants the slot it was drawn in, or leaves it. *)
LEMMA BackoffEndsInv ==
  ASSUME TypeOK, NEW s \in Sender, CallInv(s), BackoffEnds(s)
  PROVE  CallInv(s)'
<1>1. /\ pc[s] = "backoff" /\ now' = now
      /\ key'[s] = key[s] /\ frame'[s] = frame[s]
  BY DEF BackoffEnds
<1>2. CASE Grant(s, "turn", slotAt[s])
  <2>1. pc'[s] = "granted" /\ how'[s] = "turn" /\ slotAt'[s] = slotAt[s]
    BY <1>2, GrantEffect
  <2>2. DecidedInARightfulSlot(s)'
    BY <1>1, <2>1 DEF DecidedInARightfulSlot, Granted, CallInv, RightInv
  <2>3. SlotStart(Sched, slotAt[s]) = slotAt[s]
    BY <1>1 DEF CallInv, DrawInv
  <2> QED BY <1>1, <2>1, <2>2, <2>3, DrawEnds, GrantedInv DEF Clock
<1>3. CASE Goto(s, "contend")
  BY <1>3, GotoEffect, Unbound
<1> QED BY <1>2, <1>3 DEF BackoffEnds

(* try_claim grants a held open slot, or draws an election that fits one. *)
LEMMA ContendInv ==
  ASSUME TypeOK, NEW s \in Sender, Contend(s)
  PROVE  CallInv(s)'
<1> DEFINE n == NodeOf[s]
           t == Clock(n)
           a == Airtime[frame[s]]
           class == Class[frame[s]]
           start == SlotStart(Sched, t)
           may == MayContend(n, class, t)
<1>1. n \in Node /\ a \in Nat /\ now \in Nat /\ Skew[n] \in Nat /\ t \in Nat
  BY Constants, ClockType DEF TypeOK
<1>2. now' = now /\ key'[s] = key[s] /\ frame'[s] = frame[s]
  BY DEF Contend
<1>3. may => class = Bulk /\ ~IsReserved(Sched, CurrentSlot(Sched, start))
  BY <1>1, StartOfSlot, Constants DEF MayContend
<1>4. CASE may /\ HoldContinues(n, t, a) /\ Grant(s, "hold", start)
  <2>1. pc'[s] = "granted" /\ how'[s] = "hold" /\ slotAt'[s] = start
    BY <1>4, GrantEffect
  <2>2. DecidedInARightfulSlot(s)'
    BY <1>2, <1>3, <1>4, <2>1 DEF DecidedInARightfulSlot, Granted
  <2>3. start \in Nat /\ start <= t /\ t + a <= start + Sched.slot_us
    BY <1>1, <1>4, FitsEnds, SlotFacts, Constants DEF HoldContinues, FitsNow
  <2>4. t + a <= start + Sched.slot_us + Slack
    BY <1>1, <2>3, SlackType, Constants
  <2>5. SlotStart(Sched, start) = start
    BY <1>1, StartOfSlot, Constants
  <2> QED BY <1>2, <2>1, <2>2, <2>3, <2>4, <2>5, GrantedInv DEF Clock
<1>5. CASE /\ may
           /\ \E j \in Jitters(a) : MayElect(n, key[s], t, a, j) /\ SleepFor(s, "elect", j)
           /\ slotAt' = [slotAt EXCEPT ![s] = start]
  <2>1. PICK j \in Jitters(a) : MayElect(n, key[s], t, a, j) /\ SleepFor(s, "elect", j)
    BY <1>5
  <2>2. j \in Nat /\ SlotRemaining(Sched, t) > j + a
    BY <1>1, <2>1, JittersType DEF MayElect
  <2>3. pc'[s] = "elect" /\ wake'[s] = now + j /\ slotAt'[s] = start
    BY <1>5, <2>1, SleepForEffect DEF TypeOK
  <2>4. /\ SlotStart(Sched, start) = start
        /\ start <= t
        /\ t + j + a < start + Sched.slot_us + HopSlack
    <3>1. t <= t /\ t <= t + HopSlack
      BY <1>1, SlackType
    <3> QED BY <1>1, <2>2, <3>1, DrawFits
  <2>5. t + j + a = wake'[s] + Skew[n] + a
    BY <1>1, <2>2, <2>3 DEF Clock
  <2>6. DrawInv(s)'
    BY <1>1, <1>2, <2>2, <2>3, <2>4, <2>5, Constants DEF DrawInv, Clock
  <2>7. RightInv(s)'
    BY <1>2, <1>3, <1>5, <2>3 DEF RightInv
  <2> QED BY <2>3, <2>6, <2>7 DEF CallInv, RetuneInv, OwnerInv, StartInv, EndsWithItsSlot,
                                  DecidedInARightfulSlot, Granted
<1>6. CASE Declined(s)
  BY <1>6, DeclinedEffect, Unbound
<1> QED BY <1>4, <1>5, <1>6 DEF Contend

(* An election that ends grants the open slot it was drawn in. *)
LEMMA ElectionEndsInv ==
  ASSUME TypeOK, NEW s \in Sender, CallInv(s), ElectionEnds(s)
  PROVE  CallInv(s)'
<1>1. /\ pc[s] = "elect" /\ now' = now
      /\ key'[s] = key[s] /\ frame'[s] = frame[s]
  BY DEF ElectionEnds
<1>2. CASE Grant(s, "claim", slotAt[s])
  <2>1. pc'[s] = "granted" /\ how'[s] = "claim" /\ slotAt'[s] = slotAt[s]
    BY <1>2, GrantEffect
  <2>2. DecidedInARightfulSlot(s)'
    BY <1>1, <2>1 DEF DecidedInARightfulSlot, Granted, CallInv, RightInv
  <2>3. SlotStart(Sched, slotAt[s]) = slotAt[s]
    BY <1>1 DEF CallInv, DrawInv
  <2> QED BY <1>1, <2>1, <2>2, <2>3, DrawEnds, GrantedInv DEF Clock
<1>3. CASE Declined(s)
  BY <1>3, DeclinedEffect, Unbound
<1> QED BY <1>2, <1>3 DEF ElectionEnds

(* The wait loop grants an owned slot that holds the frame. *)
LEMMA LoopTestInv ==
  ASSUME TypeOK, NEW s \in Sender, LoopTest(s)
  PROVE  CallInv(s)'
<1> DEFINE n == NodeOf[s]
           t == Clock(n)
           a == Airtime[frame[s]]
           class == Class[frame[s]]
           start == SlotStart(Sched, t)
           mine == OwnsNowIn(Sched, key[s], class, t) /\ FitsNow(Sched, t, a)
<1>1. n \in Node /\ a \in Nat /\ t \in Nat
  BY Constants, ClockType DEF TypeOK
<1>2. now' = now /\ key'[s] = key[s] /\ frame'[s] = frame[s]
  BY DEF LoopTest
<1>3. CASE mine /\ Grant(s, "owner", start)
  <2>1. pc'[s] = "granted" /\ how'[s] = "owner" /\ slotAt'[s] = start
    BY <1>3, GrantEffect
  <2>2. OwnsNowIn(Sched, key[s], class, start)
    BY <1>1, <1>3, StartOfSlot, Constants DEF OwnsNowIn
  <2>3. DecidedInARightfulSlot(s)'
    BY <1>2, <2>1, <2>2 DEF DecidedInARightfulSlot, Granted
  <2>4. start \in Nat /\ start <= t /\ t + a <= start + Sched.slot_us
    BY <1>1, <1>3, FitsEnds, SlotFacts, Constants DEF FitsNow
  <2>5. t + a <= start + Sched.slot_us + Slack
    BY <1>1, <2>4, SlackType, Constants
  <2>6. SlotStart(Sched, start) = start
    BY <1>1, StartOfSlot, Constants
  <2> QED BY <1>2, <2>1, <2>3, <2>4, <2>5, <2>6, GrantedInv DEF Clock
<1>4. CASE Goto(s, "contend")
  BY <1>4, GotoEffect, Unbound
<1> QED BY <1>3, <1>4 DEF LoopTest

(* Waking up relies on nothing. *)
LEMMA AwakeInv ==
  ASSUME TypeOK, NEW s \in Sender, Awake(s)
  PROVE  CallInv(s)'
BY GotoEffect, Unbound DEF Awake

(* A call that is over relies on nothing. *)
LEMMA InjectInv ==
  ASSUME TypeOK, NEW s \in Sender, Inject(s)
  PROVE  CallInv(s)'
BY GotoEffect, Unbound DEF Inject

(* Time passes for sleeping calls only, and not beyond their lateness. *)
LEMMA TickInv ==
  ASSUME TypeOK, NEW s \in Sender, CallInv(s), Tick
  PROVE  CallInv(s)'
<1>1. /\ NodeOf[s] \in Node /\ Skew[NodeOf[s]] \in Nat /\ Airtime[frame[s]] \in Nat
      /\ now \in Nat /\ wake[s] \in Nat /\ slotAt[s] \in Nat /\ entry[s] \in Nat
  BY Constants DEF TypeOK
<1>2. now' = now + 1 /\ UNCHANGED callVars
  BY DEF Tick
<1>3. CASE pc[s] \in {"idle", "sleep"}
  BY <1>2, <1>3, Unbound DEF callVars
<1>4. CASE pc[s] = "retune"
  <2>1. now < wake[s] + Oversleep
    BY <1>4 DEF Tick, MayTick
  <2>2. RetuneInv(s)'
    BY <1>1, <1>2, <1>4, <2>1, Constants DEF CallInv, RetuneInv, Clock, callVars
  <2> QED BY <1>2, <1>4, <2>2 DEF CallInv, OwnerInv, DrawInv, RightInv, StartInv, EndsWithItsSlot,
                                  DecidedInARightfulSlot, Granted, callVars
<1>5. CASE pc[s] \in {"backoff", "elect"}
  <2>1. now < wake[s] + Oversleep
    BY <1>5 DEF Tick, MayTick
  <2>2. DrawInv(s)'
    BY <1>1, <1>2, <1>5, <2>1, Constants DEF CallInv, DrawInv, Clock, callVars
  <2>3. RightInv(s)'
    BY <1>2 DEF CallInv, RightInv, callVars
  <2> QED BY <1>2, <1>5, <2>2, <2>3 DEF CallInv, RetuneInv, OwnerInv, StartInv, EndsWithItsSlot,
                                       DecidedInARightfulSlot, Granted, callVars
<1> QED BY <1>3, <1>4, <1>5 DEF Tick, MayTick, Asleep

---------------------------------------------------------------------------
(* Leases: only a won election takes one, and it takes it in an open slot. *)

(* A lease that is won covers no lane and is as long as allowed at most. *)
LEMMA LeaseStep ==
  ASSUME TypeOK, LeaseAvoidsLanes, NEW s \in Sender, ElectionEnds(s), CallInv(s)
  PROVE  LeaseAvoidsLanes'
<1> DEFINE n == NodeOf[s]
           b == slotAt[s]
           d == LeaseDeadline(Sched, b, Bulk, LeaseMax)
<1>1. n \in Node /\ b \in Nat
  BY Constants DEF TypeOK
<1>2. CASE UNCHANGED <<holdStart, leaseUntil>>
  BY <1>2 DEF LeaseAvoidsLanes
<1>3. CASE /\ holdStart'  = [holdStart EXCEPT ![n] = b]
           /\ leaseUntil' = [leaseUntil EXCEPT ![n] = d]
  <2>1. SlotStart(Sched, b) = b /\ ~IsReserved(Sched, CurrentSlot(Sched, b))
    BY DEF CallInv, DrawInv, RightInv, ElectionEnds
  <2>2. /\ d <= b + AtLeastOne(LeaseMax) * Sched.slot_us
        /\ \A u \in b .. d - 1 : ~IsReserved(Sched, CurrentSlot(Sched, u))
    BY <1>1, <2>1, LeaseCoversNoLane, Constants
  <2>3. holdStart'[n] = b /\ leaseUntil'[n] = d
    BY <1>1, <1>3 DEF TypeOK
  <2>4. \A i \in Node \ {n} : holdStart'[i] = holdStart[i] /\ leaseUntil'[i] = leaseUntil[i]
    BY <1>3 DEF TypeOK
  <2> HIDE DEF d, b, n
  <2> QED BY <2>2, <2>3, <2>4 DEF LeaseAvoidsLanes
<1> QED BY <1>2, <1>3 DEF ElectionEnds

(* try_claim up to its sleep keeps the leases clear of lanes: it only ends them. *)
LEMMA LeaseEndsStep ==
  ASSUME TypeOK, LeaseAvoidsLanes, NEW s \in Sender, Contend(s)
  PROVE  LeaseAvoidsLanes'
<1> DEFINE n == NodeOf[s]
<1>1. n \in Node
  BY Constants
<1>2. CASE UNCHANGED <<holdStart, leaseUntil>>
  BY <1>2 DEF LeaseAvoidsLanes
<1>3. CASE /\ holdStart'  = [holdStart EXCEPT ![n] = Never]
           /\ leaseUntil' = [leaseUntil EXCEPT ![n] = 0]
  BY <1>1, <1>3 DEF LeaseAvoidsLanes, TypeOK
<1> QED BY <1>2, <1>3 DEF Contend

---------------------------------------------------------------------------
(* The transmit hold: who sets it waits, and who stops waiting clears it. *)

(* A granted call reopens the radio or leaves it to another holder. *)
LEMMA GrantHolder ==
  ASSUME TypeOK, HoldHasAHolder, NEW s \in Sender, NEW kind, NEW start, Grant(s, kind, start)
  PROVE  HoldHasAHolder'
<1> SUFFICES ASSUME NEW n \in Node, txHold'[n]
             PROVE  \E r \in Sender : NodeOf[r] = n /\ waiting'[r]
  BY DEF HoldHasAHolder
<1>1. txHold[n] /\ (NodeOf[s] = n => ~waiting[s])
  BY Constants DEF Grant, TypeOK
<1>2. PICK r \in Sender : NodeOf[r] = n /\ waiting[r]
  BY <1>1 DEF HoldHasAHolder
<1>3. r # s /\ waiting'[r] = waiting[r]
  BY <1>1, <1>2 DEF Grant, TypeOK
<1> QED BY <1>2, <1>3

(* A deferring call that closes the radio is waiting. *)
LEMMA DeclinedHolder ==
  ASSUME TypeOK, HoldHasAHolder, NEW s \in Sender, Declined(s)
  PROVE  HoldHasAHolder'
<1>1. CASE waiting[s]
  BY <1>1 DEF Declined, HoldHasAHolder
<1>2. CASE ~waiting[s]
  <2> SUFFICES ASSUME NEW n \in Node, txHold'[n]
               PROVE  \E r \in Sender : NodeOf[r] = n /\ waiting'[r]
    BY DEF HoldHasAHolder
  <2>1. waiting'[s] /\ \A r \in Sender : waiting[r] => waiting'[r]
    BY <1>2 DEF Declined, TypeOK
  <2>2. CASE NodeOf[s] = n
    BY <2>1, <2>2
  <2>3. CASE NodeOf[s] # n
    <3>1. txHold[n]
      BY <1>2, <2>3, Constants DEF Declined, TypeOK
    <3> QED BY <2>1, <3>1 DEF HoldHasAHolder
  <2> QED BY <2>2, <2>3
<1> QED BY <1>1, <1>2

(* A step that changes no waiting call and no hold keeps the holders. *)
LEMMA SameHolder ==
  ASSUME HoldHasAHolder, UNCHANGED <<txHold, waiting>>
  PROVE  HoldHasAHolder'
BY DEF HoldHasAHolder

---------------------------------------------------------------------------
(* The invariant: it holds at the start and every step keeps it. *)

Inv ==
  /\ TypeOK
  /\ \A s \in Sender : CallInv(s)
  /\ LeaseAvoidsLanes
  /\ HoldHasAHolder

(* Inv is GateInv, its parts grouped for the proof. *)
LEMMA InvIsGateInv == Inv <=> GateInv
BY DEF Inv, GateInv, CallInv, GrantEndsWithItsSlot, GrantDecidedInARightfulSlot

(* The initial state satisfies the invariant. *)
LEMMA InitInv == Init => Inv
<1> SUFFICES ASSUME Init PROVE Inv
  OBVIOUS
<1>1. TypeOK
  BY InitTypeOK
<1>2. \A s \in Sender : CallInv(s)
  BY DEF Init, CallInv, RetuneInv, OwnerInv, DrawInv, RightInv, StartInv, EndsWithItsSlot,
         DecidedInARightfulSlot, Granted
<1>3. LeaseAvoidsLanes /\ HoldHasAHolder
  BY DEF Init, LeaseAvoidsLanes, HoldHasAHolder
<1> QED BY <1>1, <1>2, <1>3 DEF Inv

(* A step of the call s disturbs no other call. *)
LEMMA OthersKeep ==
  ASSUME Inv, NEW s \in Sender, CallStep(s)
  PROVE  \A r \in Others(s) : CallInv(r)'
<1> SUFFICES ASSUME NEW r \in Others(s) PROVE CallInv(r)'
  OBVIOUS
<1>0. TypeOK /\ CallInv(r) /\ r \in Sender /\ r # s
  BY DEF Inv, Others
<1>1. ASSUME NEW m \in Sends[s], Offer(s, m) PROVE CallInv(r)'
  <2>1. pc'[r] = pc[r] /\ wake'[r] = wake[r]
    <3>1. CASE SleepFor(s, "retune", RetuneUs)
      BY <1>0, <3>1, SleepForEffect
    <3>2. CASE Goto(s, "owner") /\ UNCHANGED wake
      BY <1>0, <3>2, GotoEffect
    <3> QED BY <1>1, <3>1, <3>2 DEF Offer
  <2>2. frame'[r] = frame[r] /\ entry'[r] = entry[r]
    BY <1>0, <1>1 DEF Offer, TypeOK
  <2>3. UNCHANGED <<now, key, slotAt, how>>
    BY <1>1 DEF Offer
  <2> QED BY <1>0, <2>1, <2>2, <2>3, Elsewhere
<1>2. ASSUME Retuned(s) PROVE CallInv(r)'
  BY <1>0, <1>2, GotoEffect, Elsewhere DEF Retuned
<1>3. ASSUME OwnerTest(s) PROVE CallInv(r)'
  <2> DEFINE start == SlotStart(Sched, entry[s])
  <2>1. key'[r] = key[r] /\ UNCHANGED <<now, frame, entry>>
    BY <1>0, <1>3 DEF OwnerTest, TypeOK
  <2>2. CASE Grant(s, "owner", start)
    BY <1>0, <2>1, <2>2, GrantEffect, Elsewhere
  <2>3. CASE /\ \E j \in Jitters(Airtime[frame[s]]) : SleepFor(s, "backoff", j)
             /\ slotAt' = [slotAt EXCEPT ![s] = start] /\ how' = how
    <3>1. slotAt'[r] = slotAt[r]
      BY <1>0, <2>3 DEF TypeOK
    <3> QED BY <1>0, <2>1, <2>3, <3>1, SleepForEffect, Elsewhere
  <2>4. CASE Goto(s, "contend") /\ UNCHANGED <<wake, slotAt, waiting, how, txHold>>
    BY <1>0, <2>1, <2>4, GotoEffect, Elsewhere
  <2> QED BY <1>3, <2>2, <2>3, <2>4 DEF OwnerTest
<1>4. ASSUME BackoffEnds(s) PROVE CallInv(r)'
  <2>1. UNCHANGED <<now, frame, entry, key>>
    BY <1>4 DEF BackoffEnds
  <2>2. CASE Grant(s, "turn", slotAt[s])
    BY <1>0, <2>1, <2>2, GrantEffect, Elsewhere
  <2>3. CASE Goto(s, "contend") /\ UNCHANGED <<wake, slotAt, waiting, how, txHold>>
    BY <1>0, <2>1, <2>3, GotoEffect, Elsewhere
  <2> QED BY <1>4, <2>2, <2>3 DEF BackoffEnds
<1>5. ASSUME Contend(s) PROVE CallInv(r)'
  <2> DEFINE start == SlotStart(Sched, Clock(NodeOf[s]))
  <2>1. UNCHANGED <<now, frame, entry, key>>
    BY <1>5 DEF Contend
  <2>2. CASE Grant(s, "hold", start)
    BY <1>0, <2>1, <2>2, GrantEffect, Elsewhere
  <2>3. CASE /\ \E j \in Jitters(Airtime[frame[s]]) : SleepFor(s, "elect", j)
             /\ slotAt' = [slotAt EXCEPT ![s] = start] /\ how' = how
    <3>1. slotAt'[r] = slotAt[r]
      BY <1>0, <2>3 DEF TypeOK
    <3> QED BY <1>0, <2>1, <2>3, <3>1, SleepForEffect, Elsewhere
  <2>4. CASE Declined(s)
    BY <1>0, <2>1, <2>4, DeclinedEffect, Elsewhere
  <2> QED BY <1>5, <2>2, <2>3, <2>4 DEF Contend
<1>6. ASSUME ElectionEnds(s) PROVE CallInv(r)'
  <2>1. UNCHANGED <<now, frame, entry, key>>
    BY <1>6 DEF ElectionEnds
  <2>2. CASE Grant(s, "claim", slotAt[s])
    BY <1>0, <2>1, <2>2, GrantEffect, Elsewhere
  <2>3. CASE Declined(s)
    BY <1>0, <2>1, <2>3, DeclinedEffect, Elsewhere
  <2> QED BY <1>6, <2>2, <2>3 DEF ElectionEnds
<1>7. ASSUME LoopTest(s) PROVE CallInv(r)'
  <2>1. UNCHANGED <<now, frame, entry, key>>
    BY <1>7 DEF LoopTest
  <2>2. CASE Grant(s, "owner", SlotStart(Sched, Clock(NodeOf[s])))
    BY <1>0, <2>1, <2>2, GrantEffect, Elsewhere
  <2>3. CASE Goto(s, "contend") /\ UNCHANGED <<wake, slotAt, waiting, how, txHold>>
    BY <1>0, <2>1, <2>3, GotoEffect, Elsewhere
  <2> QED BY <1>7, <2>2, <2>3 DEF LoopTest
<1>8. ASSUME Awake(s) PROVE CallInv(r)'
  BY <1>0, <1>8, GotoEffect, Elsewhere DEF Awake
<1>9. ASSUME Inject(s) PROVE CallInv(r)'
  <2>1. pc'[r] = pc[r] /\ now' = now
    BY <1>0, <1>9, GotoEffect DEF Inject
  <2>2. /\ frame'[r] = frame[r] /\ entry'[r] = entry[r] /\ key'[r] = key[r]
        /\ slotAt'[r] = slotAt[r] /\ wake'[r] = wake[r] /\ how'[r] = how[r]
    BY <1>0, <1>9 DEF Inject, TypeOK
  <2> QED BY <1>0, <2>1, <2>2, Elsewhere
<1> QED BY <1>1, <1>2, <1>3, <1>4, <1>5, <1>6, <1>7, <1>8, <1>9 DEF CallStep

(* Every step of a call keeps the invariant. *)
LEMMA CallStepInv ==
  ASSUME Inv, NEW s \in Sender, CallStep(s)
  PROVE  Inv'
<1>0. TypeOK /\ CallInv(s) /\ LeaseAvoidsLanes /\ HoldHasAHolder
  BY DEF Inv
<1>1. TypeOK' /\ CallInv(s)' /\ LeaseAvoidsLanes' /\ HoldHasAHolder'
  <2>1. ASSUME NEW m \in Sends[s], Offer(s, m)
        PROVE  TypeOK' /\ CallInv(s)' /\ LeaseAvoidsLanes' /\ HoldHasAHolder'
    BY <1>0, <2>1, OfferType, OfferInv, SameHolder DEF Offer, nodeVars, LeaseAvoidsLanes
  <2>2. ASSUME Retuned(s)
        PROVE  TypeOK' /\ CallInv(s)' /\ LeaseAvoidsLanes' /\ HoldHasAHolder'
    <3>1. Hops
      BY <1>0, <2>2 DEF CallInv, RetuneInv, Retuned
    <3> QED BY <1>0, <2>2, <3>1, RetunedType, RetunedInv, SameHolder DEF Retuned, LeaseAvoidsLanes
  <2>3. ASSUME OwnerTest(s)
        PROVE  TypeOK' /\ CallInv(s)' /\ LeaseAvoidsLanes' /\ HoldHasAHolder'
    <3>1. LeaseAvoidsLanes'
      BY <1>0, <2>3 DEF OwnerTest, LeaseAvoidsLanes
    <3>2. HoldHasAHolder'
      BY <1>0, <2>3, GrantHolder, SameHolder DEF OwnerTest
    <3> QED BY <1>0, <2>3, <3>1, <3>2, OwnerTestType, OwnerTestInv
  <2>4. ASSUME BackoffEnds(s)
        PROVE  TypeOK' /\ CallInv(s)' /\ LeaseAvoidsLanes' /\ HoldHasAHolder'
    <3>1. LeaseAvoidsLanes'
      BY <1>0, <2>4 DEF BackoffEnds, LeaseAvoidsLanes
    <3>2. HoldHasAHolder'
      BY <1>0, <2>4, GrantHolder, SameHolder DEF BackoffEnds
    <3> QED BY <1>0, <2>4, <3>1, <3>2, BackoffEndsType, BackoffEndsInv
  <2>5. ASSUME Contend(s)
        PROVE  TypeOK' /\ CallInv(s)' /\ LeaseAvoidsLanes' /\ HoldHasAHolder'
    <3>1. HoldHasAHolder'
      BY <1>0, <2>5, GrantHolder, DeclinedHolder, SameHolder DEF Contend
    <3> QED BY <1>0, <2>5, <3>1, ContendType, ContendInv, LeaseEndsStep
  <2>6. ASSUME ElectionEnds(s)
        PROVE  TypeOK' /\ CallInv(s)' /\ LeaseAvoidsLanes' /\ HoldHasAHolder'
    <3>1. HoldHasAHolder'
      BY <1>0, <2>6, GrantHolder, DeclinedHolder DEF ElectionEnds
    <3> QED BY <1>0, <2>6, <3>1, ElectionEndsType, ElectionEndsInv, LeaseStep
  <2>7. ASSUME LoopTest(s)
        PROVE  TypeOK' /\ CallInv(s)' /\ LeaseAvoidsLanes' /\ HoldHasAHolder'
    <3>1. LeaseAvoidsLanes'
      BY <1>0, <2>7 DEF LoopTest, LeaseAvoidsLanes
    <3>2. HoldHasAHolder'
      BY <1>0, <2>7, GrantHolder, SameHolder DEF LoopTest
    <3> QED BY <1>0, <2>7, <3>1, <3>2, LoopTestType, LoopTestInv
  <2>8. ASSUME Awake(s)
        PROVE  TypeOK' /\ CallInv(s)' /\ LeaseAvoidsLanes' /\ HoldHasAHolder'
    BY <1>0, <2>8, AwakeType, AwakeInv, SameHolder DEF Awake, nodeVars, LeaseAvoidsLanes
  <2>9. ASSUME Inject(s)
        PROVE  TypeOK' /\ CallInv(s)' /\ LeaseAvoidsLanes' /\ HoldHasAHolder'
    BY <1>0, <2>9, InjectType, InjectInv, SameHolder DEF Inject, nodeVars, LeaseAvoidsLanes
  <2> QED BY <2>1, <2>2, <2>3, <2>4, <2>5, <2>6, <2>7, <2>8, <2>9 DEF CallStep
<1>2. \A r \in Others(s) : CallInv(r)'
  BY OthersKeep
<1> QED BY <1>1, <1>2 DEF Inv, Others

(* What is overheard and forgotten changes no call, no lease and no hold. *)
LEMMA RadioStepInv ==
  ASSUME Inv, UNCHANGED <<now, holdStart, leaseUntil, txHold, callVars>>, TypeOK'
  PROVE  Inv'
<1>1. \A s \in Sender : CallInv(s)'
  BY Elsewhere DEF Inv, callVars
<1>2. LeaseAvoidsLanes'
  BY DEF Inv, LeaseAvoidsLanes
<1>3. HoldHasAHolder'
  BY SameHolder DEF Inv, callVars
<1> QED BY <1>1, <1>2, <1>3 DEF Inv

(* Every step keeps the invariant. *)
LEMMA NextInv == Inv /\ [Next]_vars => Inv'
<1> SUFFICES ASSUME Inv, [Next]_vars PROVE Inv'
  OBVIOUS
<1>0. TypeOK
  BY DEF Inv
<1>1. ASSUME NEW s \in Sender, CallStep(s) PROVE Inv'
  BY <1>1, CallStepInv
<1>2. ASSUME NEW n \in Node, NEW m \in Audible, NEW x \in Nonces, ObserveRx(n, m, x)
      PROVE  Inv'
  <2>1. TypeOK'
    BY <1>0, <1>2, ObserveRxType
  <2> QED BY <1>2, <2>1, RadioStepInv DEF ObserveRx
<1>3. ASSUME NEW n \in Node, NEW k \in SlotsOf(Sched), Forget(n, k)
      PROVE  Inv'
  <2>1. TypeOK'
    BY <1>0, <1>3, ForgetType
  <2> QED BY <1>3, <2>1, RadioStepInv DEF Forget
<1>4. ASSUME Tick PROVE Inv'
  <2>1. TypeOK'
    BY <1>0, <1>4 DEF TypeOK, Tick, nodeVars, callVars
  <2>2. \A s \in Sender : CallInv(s)'
    BY <1>0, <1>4, TickInv DEF Inv
  <2>3. LeaseAvoidsLanes' /\ HoldHasAHolder'
    BY <1>4, SameHolder DEF Inv, Tick, nodeVars, callVars, LeaseAvoidsLanes
  <2> QED BY <2>1, <2>2, <2>3 DEF Inv
<1>5. ASSUME UNCHANGED vars PROVE Inv'
  <2>1. TypeOK'
    BY <1>0, <1>5, StutterType
  <2> QED BY <1>5, <2>1, RadioStepInv DEF vars, nodeVars, callVars
<1> QED BY <1>1, <1>2, <1>3, <1>4, <1>5 DEF Next, Horizon

(* The gate keeps what each of its sleeps relies on, on every behaviour. *)
THEOREM GateInvariant == Spec => []GateInv
<1>1. Init => Inv
  BY InitInv
<1>2. Inv /\ [Next]_vars => Inv'
  BY NextInv
<1>3. Inv => GateInv
  BY InvIsGateInv
<1> QED BY <1>1, <1>2, <1>3, PTL DEF Spec

(* The state of the gate keeps its type. *)
THEOREM TypeCorrect == Spec => []TypeOK
<1>1. GateInv => TypeOK
  BY DEF GateInv
<1> QED BY <1>1, GateInvariant, PTL

(* A granted frame ends with the slot it was decided in, up to Slack. *)
THEOREM GrantsEndInTime == Spec => []GrantEndsWithItsSlot
<1>1. GateInv => GrantEndsWithItsSlot
  BY DEF GateInv
<1> QED BY <1>1, GateInvariant, PTL

(* Owners are granted their own slot, guests no lane. *)
THEOREM GrantsAreRightful == Spec => []GrantDecidedInARightfulSlot
<1>1. GateInv => GrantDecidedInARightfulSlot
  BY DEF GateInv
<1> QED BY <1>1, GateInvariant, PTL

(* No lease on record covers a lane or outlasts its length. *)
THEOREM LeasesAvoidLanes == Spec => []LeaseAvoidsLanes
<1>1. GateInv => LeaseAvoidsLanes
  BY DEF GateInv
<1> QED BY <1>1, GateInvariant, PTL

(* A closed radio has a waiting call that will reopen it. *)
THEOREM HoldsHaveHolders == Spec => []HoldHasAHolder
<1>1. GateInv => HoldHasAHolder
  BY DEF GateInv
<1> QED BY <1>1, GateInvariant, PTL

(***************************************************************************)
(* With punctual sleeps and no hopping, the slot a frame is injected in is *)
(* its owner's, and no lane if it is a guest: the instant of injection     *)
(* lies in the slot of the decision.                                       *)
(***************************************************************************)
THEOREM PunctualGrantsAreRightful ==
  ASSUME ~Hops, Oversleep = 0
  PROVE  Spec => []GrantInARightfulSlot
<1>1. ASSUME Inv PROVE GrantInARightfulSlot
  <2>0. TypeOK /\ \A s \in Sender : CallInv(s)
    BY <1>1 DEF Inv
  <2>1. ASSUME NEW s \in Sender, pc[s] = "granted"
        PROVE  CurrentSlot(Sched, Clock(NodeOf[s])) = CurrentSlot(Sched, slotAt[s])
    <3>1. /\ slotAt[s] \in Nat /\ Airtime[frame[s]] \in Nat \ {0}
          /\ Clock(NodeOf[s]) \in Nat
      BY <2>0, ClockType, Constants DEF TypeOK
    <3>2. Slack = 0
      BY DEF Slack, HopSlack
    <3>3. /\ SlotStart(Sched, slotAt[s]) = slotAt[s]
          /\ slotAt[s] <= Clock(NodeOf[s])
          /\ Clock(NodeOf[s]) + Airtime[frame[s]] <= slotAt[s] + Sched.slot_us + Slack
      BY <2>0, <2>1 DEF CallInv, StartInv, EndsWithItsSlot
    <3>4. Clock(NodeOf[s]) < SlotStart(Sched, slotAt[s]) + Sched.slot_us
      BY <3>1, <3>2, <3>3, Constants
    <3> QED BY <3>1, <3>3, <3>4, SameSlot, Constants
  <2>2. ASSUME NEW s \in Sender, Granted(s, {"owner", "turn"})
        PROVE  OwnsNowIn(Sched, key[s], Class[frame[s]], Clock(NodeOf[s]))
    BY <2>0, <2>1, <2>2 DEF Granted, CallInv, DecidedInARightfulSlot, OwnsNowIn
  <2>3. ASSUME NEW s \in Sender, Granted(s, {"claim", "hold"})
        PROVE  ~IsReserved(Sched, CurrentSlot(Sched, Clock(NodeOf[s])))
    BY <2>0, <2>1, <2>3 DEF Granted, CallInv, DecidedInARightfulSlot
  <2> QED BY <2>2, <2>3 DEF GrantInARightfulSlot, GuestsKeepOffLanes
<1> QED BY <1>1, InitInv, NextInv, PTL DEF Spec

---------------------------------------------------------------------------
(* The owner-return contract, as a property of every step. *)

(* A grant whose slot is unheard, if it is a guest, yields as it should. *)
LEMMA NoGuestGrant ==
  ASSUME TypeOK, NEW s \in Sender, NEW kind, NEW start, Grant(s, kind, start),
         kind \in {"claim", "hold"} => lastRx[NodeOf[s]] < start
  PROVE  \A r \in Sender : GuestYields(r)
BY GrantEffect DEF Others, GuestYields

(* Once a frame is overheard in a slot, no guest frame is granted for it. *)
THEOREM GuestsYield == Spec => GuestsYieldToWhatTheyHear
<1>1. Inv /\ [Next]_vars => [\A s \in Sender : GuestYields(s)]_vars
  <2> USE DEF Others, GuestYields
  <2> SUFFICES ASSUME Inv, [Next]_vars PROVE [\A r \in Sender : GuestYields(r)]_vars
    OBVIOUS
  <2>0. TypeOK
    BY DEF Inv
  <2>1. ASSUME NEW s \in Sender, CallStep(s) PROVE \A r \in Sender : GuestYields(r)
    <3>1. CASE \E m \in Sends[s] : Offer(s, m)
      BY <2>0, <3>1, SleepForEffect, GotoEffect DEF Offer
    <3>2. CASE Retuned(s) \/ Awake(s) \/ Inject(s)
      BY <2>0, <3>2, GotoEffect DEF Retuned, Awake, Inject
    <3>3. CASE OwnerTest(s)
      <4>1. CASE Grant(s, "owner", SlotStart(Sched, entry[s]))
        BY <2>0, <4>1, NoGuestGrant
      <4>2. CASE \E j \in Jitters(Airtime[frame[s]]) : SleepFor(s, "backoff", j)
        BY <2>0, <4>2, SleepForEffect
      <4>3. CASE Goto(s, "contend")
        BY <2>0, <4>3, GotoEffect
      <4> QED BY <3>3, <4>1, <4>2, <4>3 DEF OwnerTest
    <3>4. CASE BackoffEnds(s)
      <4>1. CASE Grant(s, "turn", slotAt[s])
        BY <2>0, <4>1, NoGuestGrant
      <4>2. CASE Goto(s, "contend")
        BY <2>0, <4>2, GotoEffect
      <4> QED BY <3>4, <4>1, <4>2 DEF BackoffEnds
    <3>5. CASE Contend(s)
      <4> DEFINE n == NodeOf[s]
                 t == Clock(n)
      <4>1. CASE HoldContinues(n, t, Airtime[frame[s]]) /\ Grant(s, "hold", SlotStart(Sched, t))
        BY <2>0, <4>1, NoGuestGrant DEF HoldContinues
      <4>2. CASE \E j \in Jitters(Airtime[frame[s]]) : SleepFor(s, "elect", j)
        BY <2>0, <4>2, SleepForEffect
      <4>3. CASE Declined(s)
        BY <2>0, <4>3, DeclinedEffect
      <4> QED BY <3>5, <4>1, <4>2, <4>3 DEF Contend
    <3>6. CASE ElectionEnds(s)
      <4>1. CASE lastRx[NodeOf[s]] < slotAt[s] /\ Grant(s, "claim", slotAt[s])
        BY <2>0, <4>1, NoGuestGrant
      <4>2. CASE Declined(s)
        BY <2>0, <4>2, DeclinedEffect
      <4> QED BY <3>6, <4>1, <4>2 DEF ElectionEnds
    <3>7. CASE LoopTest(s)
      <4>1. CASE Grant(s, "owner", SlotStart(Sched, Clock(NodeOf[s])))
        BY <2>0, <4>1, NoGuestGrant
      <4>2. CASE Goto(s, "contend")
        BY <2>0, <4>2, GotoEffect
      <4> QED BY <3>7, <4>1, <4>2 DEF LoopTest
    <3> QED BY <2>1, <3>1, <3>2, <3>3, <3>4, <3>5, <3>6, <3>7 DEF CallStep
  <2>2. CASE UNCHANGED pc
    BY <2>2
  <2>3. Next => (\E s \in Sender : CallStep(s)) \/ UNCHANGED pc
    BY DEF Next, ObserveRx, Forget, Tick, Horizon, callVars, vars
  <2>4. UNCHANGED vars => UNCHANGED pc
    BY DEF vars, callVars
  <2> QED BY <2>1, <2>2, <2>3, <2>4
<1>2. Init => Inv
  BY InitInv
<1>3. Inv /\ [Next]_vars => Inv'
  BY NextInv
<1> QED BY <1>1, <1>2, <1>3, PTL DEF Spec, GuestsYieldToWhatTheyHear
---------------------------------------------------------------------------
(* Who holds a radio closed. *)

(* A closed or reopened radio belongs to a call of the wait loop. *)
LEMMA WaitsStep ==
  ASSUME TypeOK, NEW s \in Sender, CallStep(s), \A r \in Sender : WaitsInTheLoop(r)
  PROVE  \A r \in Sender : WaitsInTheLoop(r)'
<1>1. ASSUME NEW kind, NEW start, Grant(s, kind, start)
      PROVE  \A r \in Sender : WaitsInTheLoop(r)'
  BY <1>1 DEF Grant, Goto, WaitsInTheLoop, TypeOK
<1>2. ASSUME Declined(s), pc[s] \in {"contend", "elect"}
      PROVE  \A r \in Sender : WaitsInTheLoop(r)'
  BY <1>2 DEF Declined, SleepFor, Goto, WaitsInTheLoop, TypeOK
<1>3. ASSUME NEW place, NEW d, SleepFor(s, place, d), UNCHANGED waiting,
             pc[s] \notin {"loop", "contend", "elect", "sleep"} \/ place = "elect"
      PROVE  \A r \in Sender : WaitsInTheLoop(r)'
  BY <1>3 DEF SleepFor, Goto, WaitsInTheLoop, TypeOK
<1>4. ASSUME NEW place, Goto(s, place), UNCHANGED waiting,
             pc[s] \notin {"loop", "contend", "elect", "sleep"} \/ place \in {"loop", "contend"}
      PROVE  \A r \in Sender : WaitsInTheLoop(r)'
  BY <1>4 DEF Goto, WaitsInTheLoop, TypeOK
<1>5. CASE \E m \in Sends[s] : Offer(s, m)
  BY <1>3, <1>4, <1>5 DEF Offer
<1>6. CASE Retuned(s) \/ Awake(s) \/ Inject(s)
  BY <1>4, <1>6 DEF Retuned, Awake, Inject
<1>7. CASE OwnerTest(s)
  BY <1>1, <1>3, <1>4, <1>7 DEF OwnerTest
<1>8. CASE BackoffEnds(s)
  BY <1>1, <1>4, <1>8 DEF BackoffEnds
<1>9. CASE Contend(s)
  BY <1>1, <1>2, <1>3, <1>9 DEF Contend
<1>10. CASE ElectionEnds(s)
  BY <1>1, <1>2, <1>10 DEF ElectionEnds
<1>11. CASE LoopTest(s)
  BY <1>1, <1>4, <1>11 DEF LoopTest
<1> QED BY <1>5, <1>6, <1>7, <1>8, <1>9, <1>10, <1>11 DEF CallStep
---------------------------------------------------------------------------
(***************************************************************************)
(* Bounded access to the medium: without hopping, and with slots that hold *)
(* every frame with Oversleep to spare, no call of gate waits longer than  *)
(* a superframe, for any schedule, traffic and number of contending calls. *)
(***************************************************************************)

(* The slots in time. *)

(* The lanes of N slots, one every R: the last one is still one of them. *)
LEMMA LastLane ==
  ASSUME NEW N \in Nat \ {0}, NEW R \in Nat \ {0}, NEW L, L = (N + R - 1) \div R
  PROVE  /\ L \in Nat \ {0}
         /\ \A i \in 0 .. L - 1 : R * i \in Nat /\ R * i < N
<1> DEFINE x == N + R - 1
           y == x % R
<1>1. x \in Nat /\ x >= R
  OBVIOUS
<1> HIDE DEF x
<1>2. L = x \div R
  BY DEF x
<1>3. L \in Nat /\ y \in 0 .. R - 1 /\ x = R * L + y
  BY <1>1, <1>2, DivMod
<1> HIDE DEF y
<1>4. L # 0
  <2>1. L = 0 => R * L = 0
    OBVIOUS
  <2> QED BY <1>1, <1>3, <2>1
<1>5. ASSUME NEW i \in 0 .. L - 1 PROVE R * i \in Nat /\ R * i < N
  <2>1. PICK d \in Nat : L = i + 1 + d
    <3>1. L - i - 1 \in Nat /\ L = i + 1 + (L - i - 1)
      BY <1>3
    <3> QED BY <3>1
  <2>2. R * L = R * i + R + R * d
    BY <2>1
  <2>3. PICK p \in Nat, q \in Nat : p = R * i /\ q = R * d
    BY <2>1
  <2>4. x = p + R + q + y
    BY <1>3, <2>2, <2>3
  <2>5. x = N + R - 1
    BY DEF x
  <2> QED BY <1>3, <2>3, <2>4, <2>5
<1> QED BY <1>3, <1>4, <1>5

(* owner_slot_in names a slot of the superframe. *)
LEMMA OwnerSlotType ==
  ASSUME NEW s \in Schedules, NEW h \in Nat, NEW class
  PROVE  OwnerSlotIn(s, h, class) \in SlotsOf(s)
<1> DEFINE N == s.slots
           R == s.reserved_stride
           L == ReservedSlots(s)
<1>1. N \in Nat \ {0} /\ R \in Nat
  BY DEF Schedules
<1>2. CASE R < 2
  <2>1. h % N \in 0 .. N - 1
    BY <1>1, DivMod
  <2> QED BY <1>2, <2>1 DEF OwnerSlotIn, OwnerSlot, SlotsOf
<1>3. CASE R >= 2 /\ class = Latency
  <2>1. L = (N + R - 1) \div R
    BY <1>1, <1>3 DEF ReservedSlots
  <2> HIDE DEF L
  <2>2. L \in Nat \ {0} /\ \A i \in 0 .. L - 1 : R * i \in Nat /\ R * i < N
    <3>1. R \in Nat \ {0}
      BY <1>1, <1>3
    <3> QED BY <1>1, <2>1, <3>1, LastLane
  <2>3. h % L \in 0 .. L - 1
    BY <2>2, DivMod
  <2>4. OwnerSlotIn(s, h, class) = (h % L) * R
    BY <1>1, <1>3, <2>2 DEF OwnerSlotIn, AtLeastOne, L
  <2>5. (h % L) * R = R * (h % L)
    BY <1>1, <2>3
  <2> QED BY <1>1, <2>2, <2>3, <2>4, <2>5 DEF SlotsOf
<1>4. CASE R >= 2 /\ class # Latency
  <2>1. OwnerSlotIn(s, h, class) = NthOpen(s, h % AtLeastOne(OpenSlots(s)))
    BY <1>1, <1>4 DEF OwnerSlotIn
  <2>2. \A k : NthOpen(s, k) \in SlotsOf(s)
    BY <1>1 DEF NthOpen, OpenSet, SlotsOf
  <2> QED BY <2>1, <2>2
<1> QED BY <1>1, <1>2, <1>3, <1>4

(* A slot that begins after t begins where the slot of t ends, or later. *)
LEMMA StartsApart ==
  ASSUME NEW t \in Nat, NEW u \in Nat, t < u, SlotStart(Sched, u) = u
  PROVE  SlotStart(Sched, t) + Sched.slot_us <= u
<1> SUFFICES ASSUME u < SlotStart(Sched, t) + Sched.slot_us PROVE FALSE
  BY SlotFacts, Constants
<1>1. SlotStart(Sched, t) <= u /\ SlotStart(Sched, t) <= t
  BY SlotFacts, Constants
<1>2. SlotStart(Sched, u) = SlotStart(Sched, t)
  BY <1>1, SameSlot, Constants
<1> QED BY <1>1, <1>2, SlotFacts, Constants

(* The slot after that of t. *)
LEMMA NextSlot ==
  ASSUME NEW t \in Nat
  PROVE  LET v == SlotStart(Sched, t) + Sched.slot_us IN
         /\ v \in Nat /\ SlotStart(Sched, v) = v
         /\ CurrentSlot(Sched, v) = (CurrentSlot(Sched, t) + 1) % Sched.slots
<1> DEFINE S == Sched.slot_us
           N == Sched.slots
           e == t \div S
           v == SlotStart(Sched, t) + S
<1>1. S \in Nat \ {0} /\ N \in Nat \ {0} /\ e \in Nat
  <2>1. S \in Nat \ {0} /\ N \in Nat \ {0}
    BY Constants DEF Schedules
  <2> QED BY <2>1, DivMod
<1>2. v = S * (e + 1) + 0 /\ v \in Nat
  <2>1. v = e * S + S
    BY DEF SlotStart, Epoch
  <2>2. e * S = S * e /\ S * (e + 1) = S * e + S /\ S * e \in Nat
    BY <1>1
  <2> QED BY <1>1, <2>1, <2>2
<1>3. v \div S = e + 1
  <2>1. e + 1 \in Nat /\ 0 \in 0 .. S - 1
    BY <1>1
  <2>2. (S * (e + 1) + 0) \div S = e + 1
    BY <1>1, <2>1, QuotientUnique
  <2> QED BY <1>2, <2>2
<1>4. SlotStart(Sched, v) = v
  <2>1. SlotStart(Sched, v) = (e + 1) * S
    BY <1>3 DEF SlotStart, Epoch
  <2>2. (e + 1) * S = S * (e + 1) + 0
    BY <1>1
  <2> QED BY <1>2, <2>1, <2>2
<1>5. CurrentSlot(Sched, v) = ((e % N) + 1) % N
  <2>1. CurrentSlot(Sched, v) = (e + 1) % N
    BY <1>3 DEF CurrentSlot, Epoch
  <2> QED BY <1>1, <2>1, SlotsOn
<1> QED BY <1>2, <1>4, <1>5 DEF CurrentSlot, Epoch

(* The remainders of N consecutive numbers are all there are. *)
LEMMA EveryRemainder ==
  ASSUME NEW N \in Nat \ {0}, NEW e \in Nat, NEW k \in 0 .. N - 1
  PROVE  \E d \in 0 .. N - 1 : (e + d) % N = k
<1>1. PICK r \in 0 .. N - 1 : e % N = r
  BY DivMod
<1>2. \A d \in Nat : (e + d) % N = (r + d) % N
  BY <1>1, SlotsOn
<1>3. CASE k >= r
  <2>1. PICK d \in 0 .. N - 1 : r + d = k
    BY <1>3
  <2>2. k % N = k
    OBVIOUS
  <2>3. (e + d) % N = (r + d) % N
    BY <1>2
  <2>4. (r + d) % N = k
    BY <2>1, <2>2
  <2> QED BY <2>3, <2>4
<1>4. CASE k < r
  <2>1. PICK d \in 0 .. N - 1 : r + d = N * 1 + k
    <3>1. k + N - r \in 0 .. N - 1 /\ r + (k + N - r) = N * 1 + k
      BY <1>4
    <3> QED BY <3>1
  <2>2. (N * 1 + k) % N = k
    BY QuotientUnique
  <2>3. (e + d) % N = (r + d) % N
    BY <1>2
  <2>4. (r + d) % N = k
    BY <2>1, <2>2
  <2> QED BY <2>3, <2>4
<1> QED BY <1>3, <1>4

(* The next multiple of S whose factor leaves a given remainder. *)
LEMMA NextMultiple ==
  ASSUME NEW S \in Nat \ {0}, NEW N \in Nat \ {0}, NEW t \in Nat, NEW k \in 0 .. N - 1
  PROVE  \E q \in Nat : S * q \in t + 1 .. t + S * N /\ q % N = k
<1>1. PICK e \in Nat, r \in 0 .. S - 1 : t = S * e + r
  BY DivMod
<1>2. PICK d \in 0 .. N - 1 : ((e + 1) + d) % N = k
  <2>1. e + 1 \in Nat
    OBVIOUS
  <2> QED BY <2>1, EveryRemainder
<1>3. PICK q \in Nat : q = (e + 1) + d
  OBVIOUS
<1>4. PICK x \in Nat : N = d + 1 + x
  OBVIOUS
<1>5. S * q = S * e + S + S * d
  BY <1>3
<1>6. S * N = S * d + S + S * x
  BY <1>4
<1>7. S * e \in Nat /\ S * d \in Nat /\ S * x \in Nat
  OBVIOUS
<1>8. S * q \in t + 1 .. t + S * N
  BY <1>1, <1>5, <1>6, <1>7
<1> QED BY <1>2, <1>3, <1>8

(* Every slot begins once in the superframe after t. *)
LEMMA TurnWithinASuperframe ==
  ASSUME NEW t \in Nat, NEW k \in SlotsOf(Sched)
  PROVE  \E u \in t + 1 .. t + SuperframeUs(Sched) :
           SlotStart(Sched, u) = u /\ CurrentSlot(Sched, u) = k
<1> DEFINE S == Sched.slot_us
           N == Sched.slots
<1>1. S \in Nat \ {0} /\ N \in Nat \ {0} /\ k \in 0 .. N - 1
  BY Constants DEF Schedules, SlotsOf
<1>2. PICK q \in Nat : S * q \in t + 1 .. t + S * N /\ q % N = k
  BY <1>1, NextMultiple
<1>3. (S * q + 0) \div S = q
  <2>1. 0 \in 0 .. S - 1
    BY <1>1
  <2> QED BY <1>1, <2>1, QuotientUnique
<1>4. S * q + 0 = S * q /\ S * q = q * S
  BY <1>1
<1>5. SlotStart(Sched, S * q) = S * q /\ CurrentSlot(Sched, S * q) = k
  BY <1>2, <1>3, <1>4 DEF SlotStart, CurrentSlot, Epoch
<1> QED BY <1>2, <1>5 DEF SuperframeUs

(* A wait of more than a slot: the next slot is a stranger's too. *)
LEMMA LongWait ==
  ASSUME NEW t \in Nat, NEW h \in Nat, NEW class, NEW u \in Nat,
         WaitUsIn(Sched, h, class, t) > Sched.slot_us,
         t < u, SlotStart(Sched, u) = u, OwnsNowIn(Sched, h, class, u)
  PROVE  SlotStart(Sched, t) + 2 * Sched.slot_us <= u
<1> DEFINE S == Sched.slot_us
           N == Sched.slots
           c == CurrentSlot(Sched, t)
           o == OwnerSlotIn(Sched, h, class)
           v == SlotStart(Sched, t) + S
<1>1. S \in Nat \ {0} /\ N \in Nat \ {0} /\ c \in 0 .. N - 1 /\ o \in 0 .. N - 1
  <2>1. S \in Nat \ {0} /\ N \in Nat \ {0}
    BY Constants DEF Schedules
  <2> QED BY <2>1, SlotFacts, OwnerSlotType, Constants DEF SlotsOf
<1>2. /\ v \in Nat /\ SlotStart(Sched, v) = v /\ v <= u
      /\ CurrentSlot(Sched, v) = (c + 1) % N
  BY NextSlot, StartsApart
<1> SUFFICES ASSUME u < v + S PROVE FALSE
  BY <1>1, <1>2, SlotFacts, Constants
<1>3. o = (c + 1) % N
  BY <1>2, SameSlot, Constants DEF OwnsNowIn
<1>4. o # c
  BY <1>1 DEF WaitUsIn, OwnsNowIn
<1>5. (o + N - c) % N = 1
  <2>1. CASE c = N - 1
    <3>1. o = 0
      BY <1>1, <1>3, <2>1
    <3>2. o + N - c = 1 /\ N > 1
      BY <1>1, <1>4, <2>1, <3>1
    <3>3. 1 % N = 1
      BY <1>1, <3>2
    <3> QED BY <3>2, <3>3
  <2>2. CASE c < N - 1
    <3>1. o = c + 1
      BY <1>1, <1>3, <2>2
    <3>2. o + N - c = N * 1 + 1 /\ 1 \in 0 .. N - 1
      BY <1>1, <2>2, <3>1
    <3>3. (N * 1 + 1) % N = 1
      BY <1>1, <3>2, QuotientUnique
    <3> QED BY <3>2, <3>3
  <2> QED BY <1>1, <2>1, <2>2
<1>6. WaitUsIn(Sched, h, class, t) = 1 * S - (t % S)
  BY <1>4, <1>5 DEF WaitUsIn, OwnsNowIn
<1>7. t % S \in 0 .. S - 1
  BY <1>1, DivMod
<1>8. PICK x \in Nat : x = t % S
  BY <1>7
<1> QED BY <1>1, <1>6, <1>8
---------------------------------------------------------------------------
(* The calls and their turns. *)

(* Room to spare, spelled out: no lateness outlasts a slot. *)
LEMMA SpareFacts ==
  ASSUME RoomToSpare
  PROVE  /\ HopSlack = 0 /\ Slack = Oversleep
         /\ Oversleep \in Nat /\ Sched.slot_us \in Nat \ {0}
         /\ \A m \in Name : Airtime[m] + Oversleep <= Sched.slot_us
         /\ Oversleep < Sched.slot_us
         /\ SuperframeUs(Sched) \in Nat /\ Sched.slot_us <= SuperframeUs(Sched)
<1>1. Sched.slot_us \in Nat \ {0} /\ Sched.slots \in Nat \ {0}
  BY Constants DEF Schedules
<1>2. PICK x \in Nat : Sched.slots = 1 + x
  <2>1. Sched.slots - 1 \in Nat /\ Sched.slots = 1 + (Sched.slots - 1)
    BY <1>1
  <2> QED BY <2>1
<1>3. SuperframeUs(Sched) = Sched.slot_us + Sched.slot_us * x /\ Sched.slot_us * x \in Nat
  BY <1>1, <1>2 DEF SuperframeUs
<1>4. HopSlack = 0 /\ Slack = Oversleep
  BY Constants DEF RoomToSpare, HopSlack, Slack
<1>5. Oversleep < Sched.slot_us
  <2>1. NoFrame \in Name /\ Airtime[NoFrame] \in Nat \ {0}
    BY Constants
  <2> QED BY <1>1, <2>1, Constants DEF RoomToSpare
<1> QED BY <1>1, <1>3, <1>4, <1>5, Constants DEF RoomToSpare

(* The parts of the slot of t. *)
LEMMA SlotParts ==
  ASSUME NEW t \in Nat
  PROVE  /\ SlotRemaining(Sched, t) \in Nat \ {0} /\ SlotStart(Sched, t) \in Nat
         /\ SlotRemaining(Sched, t) = SlotStart(Sched, t) + Sched.slot_us - t
         /\ Sched.slot_us \in Nat
BY SlotFacts, Constants

(* No turn before b, by the numbers. *)
LEMMA NoTurn ==
  ASSUME TypeOK, NEW s \in Sender, NEW b \in Nat
  PROVE  NoTurnBefore(s, b) <=> \A v \in Nat : entry[s] < v /\ v < b => ~OwnStart(s, v)
<1>1. entry[s] \in Nat
  BY DEF TypeOK
<1>2. \A v : v \in entry[s] + 1 .. b - 1 <=> v \in Nat /\ entry[s] < v /\ v < b
  BY <1>1
<1> QED BY <1>2 DEF NoTurnBefore

(* A turn of its own begins within a superframe of the offer. *)
LEMMA OwnTurnComes ==
  ASSUME TypeOK, NEW s \in Sender
  PROVE  \E u \in entry[s] + 1 .. entry[s] + SuperframeUs(Sched) : OwnStart(s, u)
<1>1. entry[s] \in Nat /\ key[s] \in Nat
  BY DEF TypeOK
<1>2. OwnerSlotIn(Sched, key[s], Class[frame[s]]) \in SlotsOf(Sched)
  BY <1>1, OwnerSlotType, Constants
<1> QED BY <1>1, <1>2, TurnWithinASuperframe DEF OwnStart, OwnsNowIn

(* A call that is never more than Oversleep into a turn is granted in time. *)
LEMMA InTime ==
  ASSUME TypeOK, RoomToSpare, NEW s \in Sender, NEW t \in Nat,
         \A u \in entry[s] + 1 .. t : OwnStart(s, u) => t <= u + Oversleep
  PROVE  t <= entry[s] + SuperframeUs(Sched) + Slack
<1>1. PICK u \in entry[s] + 1 .. entry[s] + SuperframeUs(Sched) : OwnStart(s, u)
  BY OwnTurnComes
<1>2. entry[s] \in Nat
  BY DEF TypeOK
<1> QED BY <1>1, <1>2, SpareFacts

(* A call that wakes at the beginning of its turn owns it and fits it. *)
LEMMA InOwnTurn ==
  ASSUME TypeOK, RoomToSpare, NEW s \in Sender, NEW t \in Nat, NEW u \in Nat,
         OwnStart(s, u), u <= t, t <= u + Oversleep
  PROVE  /\ OwnsNowIn(Sched, key[s], Class[frame[s]], t)
         /\ FitsNow(Sched, t, Airtime[frame[s]])
<1>1. SlotStart(Sched, u) <= t /\ t < SlotStart(Sched, u) + Sched.slot_us
  BY SpareFacts DEF OwnStart
<1>2. CurrentSlot(Sched, t) = CurrentSlot(Sched, u) /\ SlotStart(Sched, t) = u
  BY <1>1, SameSlot, Constants DEF OwnStart
<1>3. SlotRemaining(Sched, t) = u + Sched.slot_us - t
  BY <1>2, SlotFacts, Constants
<1>4. frame[s] \in Name /\ Airtime[frame[s]] \in Nat
  BY Constants DEF TypeOK
<1> QED BY <1>2, <1>3, <1>4, SpareFacts DEF OwnStart, OwnsNowIn, FitsNow

(* A step of the call s leaves every other call as it was. *)
LEMMA OthersStill ==
  ASSUME TypeOK, NEW s \in Sender, CallStep(s), NEW r \in Others(s)
  PROVE  /\ now' = now /\ pc'[r] = pc[r] /\ frame'[r] = frame[r] /\ entry'[r] = entry[r]
         /\ key'[r] = key[r] /\ slotAt'[r] = slotAt[r] /\ wake'[r] = wake[r]
         /\ waiting'[r] = waiting[r]
<1> USE DEF Others, Goto, SleepFor
<1>1. CASE \E m \in Sends[s] : Offer(s, m)
  BY <1>1 DEF Offer, TypeOK
<1>2. CASE Retuned(s)
  BY <1>2 DEF Retuned, TypeOK
<1>3. CASE OwnerTest(s)
  BY <1>3 DEF OwnerTest, Grant, TypeOK
<1>4. CASE BackoffEnds(s)
  BY <1>4 DEF BackoffEnds, Grant, TypeOK
<1>5. CASE Contend(s)
  BY <1>5 DEF Contend, Grant, Declined, TypeOK
<1>6. CASE ElectionEnds(s)
  BY <1>6 DEF ElectionEnds, Grant, Declined, TypeOK
<1>7. CASE LoopTest(s)
  BY <1>7 DEF LoopTest, Grant, TypeOK
<1>8. CASE Awake(s)
  BY <1>8 DEF Awake, TypeOK
<1>9. CASE Inject(s)
  BY <1>9 DEF Inject, TypeOK
<1> QED BY <1>1, <1>2, <1>3, <1>4, <1>5, <1>6, <1>7, <1>8, <1>9 DEF CallStep

(* A call whose own state stands still keeps its turns. *)
LEMMA TurnElsewhere ==
  ASSUME NEW r \in Sender, TurnInv(r),
         now' = now, pc'[r] = pc[r], frame'[r] = frame[r], entry'[r] = entry[r],
         key'[r] = key[r], slotAt'[r] = slotAt[r], wake'[r] = wake[r], waiting'[r] = waiting[r]
  PROVE  TurnInv(r)'
BY DEF TurnInv, NoTurnBefore, OwnStart, Clock

(* What the steps below say of the call that takes them. *)
Stays(s) == UNCHANGED <<now, frame, entry, key>>

(* A call granted in time has nothing else to keep. *)
LEMMA TurnGranted ==
  ASSUME NEW s \in Sender, Stays(s), pc'[s] = "granted",
         entry[s] <= Clock(NodeOf[s]),
         Clock(NodeOf[s]) <= entry[s] + SuperframeUs(Sched) + Slack
  PROVE  TurnInv(s)'
BY DEF TurnInv, Stays, Clock

(* A call that declines having missed no turn sleeps to the next boundary. *)
LEMMA TurnDeclined ==
  ASSUME TypeOK, RoomToSpare, NEW s \in Sender, Stays(s), Declined(s),
         entry[s] <= Clock(NodeOf[s]),
         waiting[s] => NoTurnBefore(s, Clock(NodeOf[s]) + 1),
         \A u \in entry[s] + 1 .. Clock(NodeOf[s]) :
           OwnStart(s, u) => Clock(NodeOf[s]) <= u + Oversleep
  PROVE  TurnInv(s)'
<1> DEFINE n == NodeOf[s]
           t == Clock(n)
           w == t + SlotRemaining(Sched, t)
<1>0. /\ n \in Node /\ t \in Nat /\ t = now + Skew[n] /\ now \in Nat /\ Skew[n] \in Nat
      /\ entry[s] \in Nat
  BY ClockType, Constants DEF TypeOK
<1>1. CASE waiting[s]
  <2>1. pc'[s] = "sleep" /\ wake'[s] = now + SlotRemaining(Sched, t)
    BY <1>1, SleepForEffect DEF Declined
  <2>2. /\ SlotRemaining(Sched, t) \in Nat \ {0} /\ SlotStart(Sched, t) \in Nat
        /\ SlotRemaining(Sched, t) = SlotStart(Sched, t) + Sched.slot_us - t
        /\ Sched.slot_us \in Nat
    BY <1>0, SlotParts
  <2>3. w \in Nat /\ w = SlotStart(Sched, t) + Sched.slot_us /\ t < w
    BY <1>0, <2>2
  <2>4. wake'[s] + Skew[n] = w
    BY <1>0, <2>1, <2>2
  <2>5. NoTurnBefore(s, w)
    <3> SUFFICES ASSUME NEW v \in entry[s] + 1 .. w - 1, OwnStart(s, v) PROVE FALSE
      BY DEF NoTurnBefore
    <3>1. v \in Nat /\ v < w
      BY <1>0, <2>3
    <3>2. CASE v <= t
      BY <1>0, <1>1, <3>1, <3>2 DEF NoTurnBefore
    <3>3. CASE t < v
      BY <1>0, <2>3, <3>1, <3>3, StartsApart DEF OwnStart
    <3> QED BY <1>0, <3>1, <3>2, <3>3
  <2>6. t <= w + Oversleep
    BY <1>0, <2>3, SpareFacts
  <2> QED BY <2>1, <2>4, <2>5, <2>6 DEF TurnInv, Stays, NoTurnBefore, OwnStart, Clock
<1>2. CASE ~waiting[s]
  <2>1. pc'[s] = "loop"
    BY <1>2, GotoEffect DEF Declined
  <2> QED BY <2>1 DEF TurnInv, Stays, OwnStart, Clock
<1> QED BY <1>1, <1>2

(* The owner path: granted, backing off or contending at the offered instant. *)
LEMMA TurnOwnerTest ==
  ASSUME RoomToSpare, NEW s \in Sender, Inv, WaitsInTheLoop(s), OwnerTest(s)
  PROVE  TurnInv(s)'
<1> DEFINE t == Clock(NodeOf[s])
<1>0. /\ TypeOK /\ t \in Nat /\ entry[s] \in Nat /\ entry[s] = t
      /\ SuperframeUs(Sched) \in Nat /\ Slack \in Nat
  <2>1. TypeOK /\ OwnerInv(s)
    BY DEF Inv, CallInv
  <2>2. t \in Nat /\ entry[s] \in Nat
    BY <2>1, ClockType, Constants DEF TypeOK
  <2> QED BY <2>1, <2>2, SpareFacts DEF OwnerInv, OwnerTest
<1>1. ~waiting[s] /\ now' = now /\ entry'[s] = entry[s] /\ frame' = frame
  BY DEF OwnerTest, WaitsInTheLoop
<1>2. Clock(NodeOf[s])' = t
  BY <1>1 DEF Clock
<1>3. CASE Grant(s, "owner", SlotStart(Sched, entry[s]))
  <2>1. pc'[s] = "granted"
    BY <1>0, <1>3, GrantEffect
  <2> QED BY <1>0, <1>1, <1>2, <2>1 DEF TurnInv
<1>4. CASE /\ \E j \in Jitters(Airtime[frame[s]]) : SleepFor(s, "backoff", j)
           /\ slotAt' = [slotAt EXCEPT ![s] = SlotStart(Sched, entry[s])]
  <2>1. pc'[s] = "backoff" /\ slotAt'[s] = SlotStart(Sched, entry[s])
    BY <1>0, <1>4, SleepForEffect DEF TypeOK
  <2> QED BY <1>0, <1>1, <1>2, <2>1 DEF TurnInv
<1>5. CASE Goto(s, "contend") /\ UNCHANGED waiting
  <2>1. pc'[s] = "contend" /\ ~waiting'[s]
    BY <1>0, <1>1, <1>5, GotoEffect
  <2> QED BY <1>0, <1>1, <1>2, <2>1 DEF TurnInv
<1> QED BY <1>3, <1>4, <1>5 DEF OwnerTest

(* A backoff ends within Oversleep of the slot of the offer. *)
LEMMA TurnBackoffEnds ==
  ASSUME RoomToSpare, NEW s \in Sender, Inv, WaitsInTheLoop(s), TurnInv(s), BackoffEnds(s)
  PROVE  TurnInv(s)'
<1> DEFINE n == NodeOf[s]
           t == Clock(n)
           e == entry[s]
           a == Airtime[frame[s]]
<1>0. /\ TypeOK /\ t \in Nat /\ e \in Nat /\ a \in Nat \ {0} /\ wake[s] \in Nat
      /\ now \in Nat /\ Skew[n] \in Nat /\ t = now + Skew[n] /\ slotAt[s] \in Nat
  BY ClockType, Constants DEF Inv, TypeOK
<1>1. /\ e <= t /\ slotAt[s] = SlotStart(Sched, e)
      /\ wake[s] + Skew[n] + a < slotAt[s] + Sched.slot_us + HopSlack
      /\ now <= wake[s] + Oversleep
  BY DEF BackoffEnds, TurnInv, Inv, CallInv, DrawInv
<1>2. t < SlotStart(Sched, e) + Sched.slot_us + Oversleep
  BY <1>0, <1>1, SpareFacts
<1>3. Stays(s) /\ ~waiting[s]
  BY DEF BackoffEnds, Stays, WaitsInTheLoop
<1>4. CASE Grant(s, "turn", slotAt[s])
  <2>1. pc'[s] = "granted"
    BY <1>0, <1>4, GrantEffect
  <2>2. SlotStart(Sched, e) \in Nat /\ SlotStart(Sched, e) <= e
    BY <1>0, SlotFacts, Constants
  <2>3. t <= e + SuperframeUs(Sched) + Slack
    BY <1>0, <1>2, <2>2, SpareFacts
  <2> QED BY <1>1, <1>3, <2>1, <2>3, TurnGranted
<1>5. CASE Goto(s, "contend") /\ UNCHANGED waiting
  <2>1. pc'[s] = "contend" /\ ~waiting'[s]
    BY <1>0, <1>3, <1>5, GotoEffect
  <2>2. ASSUME NEW u \in e + 1 .. t, OwnStart(s, u) PROVE t <= u + Oversleep
    <3>1. u \in Nat /\ e < u
      BY <1>0
    <3>2. SlotStart(Sched, e) + Sched.slot_us <= u
      BY <1>0, <2>2, <3>1, StartsApart DEF OwnStart
    <3>3. SlotStart(Sched, e) \in Nat /\ Sched.slot_us \in Nat /\ Oversleep \in Nat
      BY <1>0, SlotFacts, Constants
    <3> QED BY <1>0, <1>2, <3>1, <3>2, <3>3
  <2> QED BY <1>1, <1>3, <2>1, <2>2 DEF TurnInv, Stays, OwnStart, Clock
<1> QED BY <1>4, <1>5 DEF BackoffEnds

(* try_claim: a hold is used, an election is held, or the call declines, *)
(* none of them past a turn of its own.                                  *)
LEMMA TurnContend ==
  ASSUME RoomToSpare, NEW s \in Sender, Inv, TurnInv(s), Contend(s)
  PROVE  TurnInv(s)'
<1> DEFINE n == NodeOf[s]
           t == Clock(n)
           e == entry[s]
           a == Airtime[frame[s]]
           start == SlotStart(Sched, t)
<1>0. TypeOK /\ t \in Nat /\ e \in Nat /\ a \in Nat \ {0} /\ key[s] \in Nat
  BY ClockType, Constants DEF Inv, TypeOK
<1>1. /\ e <= t /\ \A u \in e + 1 .. t : OwnStart(s, u) => t <= u + Oversleep
      /\ waiting[s] => NoTurnBefore(s, t + 1)
  BY DEF Contend, TurnInv
<1>2. Stays(s)
  BY DEF Contend, Stays
<1>3. CASE Grant(s, "hold", start)
  <2>1. pc'[s] = "granted"
    BY <1>0, <1>3, GrantEffect
  <2> QED BY <1>0, <1>1, <1>2, <2>1, InTime, TurnGranted
<1>4. ASSUME MayContend(n, Class[frame[s]], t), NEW j \in Jitters(a), MayElect(n, key[s], t, a, j),
             SleepFor(s, "elect", j), slotAt' = [slotAt EXCEPT ![s] = start]
      PROVE  TurnInv(s)'
  <2>1. pc'[s] = "elect" /\ slotAt'[s] = start
    BY <1>0, <1>4, SleepForEffect DEF TypeOK
  <2>2. WaitUsIn(Sched, key[s], Class[frame[s]], t) > Sched.slot_us
    BY <1>4 DEF MayElect, MayContend
  <2>3. start \in Nat
    BY <1>0, SlotFacts, Constants
  <2>4. NoTurnBefore(s, start + 2 * Sched.slot_us)
    <3>1. start + 2 * Sched.slot_us \in Nat
      BY <2>3, Constants
    <3> SUFFICES ASSUME NEW v \in Nat, e < v, v < start + 2 * Sched.slot_us, OwnStart(s, v)
                 PROVE  FALSE
      BY <1>0, <3>1, NoTurn
    <3>2. CASE v <= t
      <4>1. OwnsNowIn(Sched, key[s], Class[frame[s]], t)
        BY <1>0, <1>1, <3>1, <3>2, InOwnTurn
      <4> QED BY <2>2, <4>1, SpareFacts DEF WaitUsIn
    <3>3. CASE t < v
      <4>1. start + 2 * Sched.slot_us <= v
        BY <1>0, <2>2, <3>1, <3>3, LongWait DEF OwnStart
      <4> QED BY <2>3, <3>1, <4>1, SpareFacts
    <3> QED BY <1>0, <3>1, <3>2, <3>3
  <2> QED BY <1>1, <1>2, <2>1, <2>4 DEF TurnInv, Stays, NoTurnBefore, OwnStart, Clock
<1>5. CASE Declined(s)
  BY <1>0, <1>1, <1>2, <1>5, TurnDeclined
<1> QED BY <1>3, <1>4, <1>5 DEF Contend

(* An election ends before a turn of the call begins. *)
LEMMA TurnElectionEnds ==
  ASSUME RoomToSpare, NEW s \in Sender, Inv, TurnInv(s), ElectionEnds(s)
  PROVE  TurnInv(s)'
<1> DEFINE n == NodeOf[s]
           t == Clock(n)
           e == entry[s]
           a == Airtime[frame[s]]
<1>0. /\ TypeOK /\ t \in Nat /\ e \in Nat /\ a \in Nat \ {0} /\ wake[s] \in Nat
      /\ now \in Nat /\ Skew[n] \in Nat /\ t = now + Skew[n] /\ slotAt[s] \in Nat
  BY ClockType, Constants DEF Inv, TypeOK
<1>1. /\ NoTurnBefore(s, slotAt[s] + 2 * Sched.slot_us) /\ e <= t
      /\ wake[s] + Skew[n] + a < slotAt[s] + Sched.slot_us + HopSlack
      /\ now <= wake[s] + Oversleep
  BY DEF ElectionEnds, TurnInv, Inv, CallInv, DrawInv
<1>2. t + 1 <= slotAt[s] + 2 * Sched.slot_us
  BY <1>0, <1>1, SpareFacts
<1>3. NoTurnBefore(s, t + 1)
  <2>1. slotAt[s] + 2 * Sched.slot_us \in Nat /\ t + 1 \in Nat
    BY <1>0, Constants
  <2>2. \A v \in Nat : v < t + 1 => v < slotAt[s] + 2 * Sched.slot_us
    BY <1>2, <2>1
  <2> QED BY <1>0, <1>1, <2>1, <2>2, NoTurn
<1>4. \A u \in e + 1 .. t : ~OwnStart(s, u)
  BY <1>0, <1>3 DEF NoTurnBefore
<1>5. Stays(s)
  BY DEF ElectionEnds, Stays
<1>6. CASE Grant(s, "claim", slotAt[s])
  <2>1. pc'[s] = "granted"
    BY <1>0, <1>6, GrantEffect
  <2> QED BY <1>0, <1>1, <1>4, <1>5, <2>1, InTime, TurnGranted
<1>7. CASE Declined(s)
  BY <1>0, <1>1, <1>3, <1>4, <1>5, <1>7, TurnDeclined
<1> QED BY <1>6, <1>7 DEF ElectionEnds

(* The wait loop: a call whose turn has begun is granted it. *)
LEMMA TurnLoopTest ==
  ASSUME RoomToSpare, NEW s \in Sender, Inv, TurnInv(s), LoopTest(s)
  PROVE  TurnInv(s)'
<1> DEFINE t == Clock(NodeOf[s])
           e == entry[s]
           mine == /\ OwnsNowIn(Sched, key[s], Class[frame[s]], t)
                   /\ FitsNow(Sched, t, Airtime[frame[s]])
<1>0. TypeOK /\ t \in Nat /\ e \in Nat
  BY ClockType, Constants DEF Inv, TypeOK
<1>1. e <= t /\ \A u \in e + 1 .. t : OwnStart(s, u) => t <= u + Oversleep
  BY DEF LoopTest, TurnInv
<1>2. Stays(s)
  BY DEF LoopTest, Stays
<1>3. CASE Grant(s, "owner", SlotStart(Sched, t))
  <2>1. pc'[s] = "granted"
    BY <1>0, <1>3, GrantEffect
  <2> QED BY <1>0, <1>1, <1>2, <2>1, InTime, TurnGranted
<1>4. CASE ~mine /\ Goto(s, "contend") /\ UNCHANGED waiting
  <2>1. pc'[s] = "contend"
    BY <1>0, <1>4, GotoEffect
  <2>2. ASSUME NEW u \in e + 1 .. t PROVE ~OwnStart(s, u)
    <3>1. u \in Nat /\ u <= t
      BY <1>0
    <3> QED BY <1>0, <1>1, <1>4, <3>1, InOwnTurn
  <2>3. NoTurnBefore(s, t + 1)
    BY <1>0, <2>2 DEF NoTurnBefore
  <2> QED BY <1>1, <1>2, <2>1, <2>2, <2>3 DEF TurnInv, Stays, NoTurnBefore, OwnStart, Clock
<1> QED BY <1>3, <1>4 DEF LoopTest

(* A sleep that ends has missed no turn, and begins one at most Oversleep late. *)
LEMMA TurnAwake ==
  ASSUME RoomToSpare, NEW s \in Sender, Inv, TurnInv(s), Awake(s)
  PROVE  TurnInv(s)'
<1> DEFINE n == NodeOf[s]
           t == Clock(n)
           e == entry[s]
           w == wake[s] + Skew[n]
<1>0. /\ TypeOK /\ t \in Nat /\ e \in Nat /\ w \in Nat
  BY ClockType, Constants DEF Inv, TypeOK
<1>1. e <= t /\ t <= w + Oversleep /\ NoTurnBefore(s, w)
  BY DEF Awake, TurnInv
<1>2. ASSUME NEW u \in e + 1 .. t, OwnStart(s, u) PROVE t <= u + Oversleep
  <2>1. w <= u
    BY <1>0, <1>1, <1>2 DEF NoTurnBefore
  <2> QED BY <1>0, <1>1, <2>1, SpareFacts
<1>3. pc'[s] = "loop" /\ UNCHANGED <<now, frame, entry, key>>
  BY <1>0, GotoEffect DEF Awake
<1> QED BY <1>1, <1>2, <1>3 DEF TurnInv, OwnStart, Clock

(* The steps that only move the call to a place with no turn to keep. *)
LEMMA TurnPlain ==
  ASSUME RoomToSpare, NEW s \in Sender, Inv, TurnInv(s),
         (\E m \in Sends[s] : Offer(s, m)) \/ Retuned(s) \/ Inject(s)
  PROVE  TurnInv(s)'
<1>0. TypeOK /\ ~Hops /\ NodeOf[s] \in Node /\ Clock(NodeOf[s]) \in Nat
  BY ClockType, Constants DEF Inv, RoomToSpare
<1>1. CASE \E m \in Sends[s] : Offer(s, m)
  <2>1. pc'[s] = "owner" /\ entry'[s] = Clock(NodeOf[s]) /\ now' = now
    BY <1>0, <1>1, GotoEffect DEF Offer, TypeOK
  <2> QED BY <1>0, <2>1 DEF TurnInv, Clock
<1>2. CASE Retuned(s)
  BY <1>0, <1>2 DEF Inv, CallInv, RetuneInv, Retuned
<1>3. CASE Inject(s)
  <2>1. pc'[s] = "idle" /\ entry'[s] = 0 /\ now' = now
    BY <1>0, <1>3, GotoEffect DEF Inject, TypeOK
  <2> QED BY <1>0, <2>1 DEF TurnInv, Clock
<1> QED BY <1>1, <1>2, <1>3

(* Time passes over sleepers only, and never past an overdue one. *)
LEMMA TurnTick ==
  ASSUME TypeOK, NEW s \in Sender, TurnInv(s), Tick
  PROVE  TurnInv(s)'
<1> DEFINE n == NodeOf[s]
           t == Clock(n)
<1>0. /\ n \in Node /\ t \in Nat /\ t = now + Skew[n] /\ now \in Nat /\ Skew[n] \in Nat
      /\ entry[s] \in Nat /\ wake[s] \in Nat /\ Oversleep \in Nat
  BY ClockType, Constants DEF TypeOK
<1>1. now' = now + 1 /\ UNCHANGED <<pc, frame, entry, key, slotAt, wake, waiting>>
  BY DEF Tick, callVars
<1>2. pc[s] = "idle" \/ (pc[s] \in {"retune", "backoff", "elect", "sleep"} /\ now < wake[s] + Oversleep)
  BY DEF Tick, MayTick, Asleep
<1>3. Clock(n)' = t + 1
  BY <1>0, <1>1 DEF Clock
<1>4. entry[s] <= t + 1
  BY <1>0 DEF TurnInv
<1>5. pc[s] = "sleep" => t + 1 <= wake[s] + Skew[n] + Oversleep
  BY <1>0, <1>2
<1> QED BY <1>1, <1>2, <1>3, <1>4, <1>5 DEF TurnInv, NoTurnBefore, OwnStart

(* Every step keeps the calls within their turns. *)
LEMMA AccessStep ==
  ASSUME RoomToSpare, Inv, AccessInv, [Next]_vars
  PROVE  AccessInv'
<1>0. TypeOK /\ \A s \in Sender : WaitsInTheLoop(s) /\ TurnInv(s)
  BY DEF Inv, AccessInv
<1>1. ASSUME NEW s \in Sender, CallStep(s) PROVE AccessInv'
  <2>1. TurnInv(s)'
    BY <1>0, <1>1, TurnPlain, TurnOwnerTest, TurnBackoffEnds, TurnContend, TurnElectionEnds,
       TurnLoopTest, TurnAwake DEF CallStep
  <2>2. \A r \in Others(s) : TurnInv(r)'
    BY <1>0, <1>1, OthersStill, TurnElsewhere DEF Others
  <2>3. \A r \in Sender : WaitsInTheLoop(r)'
    BY <1>0, <1>1, WaitsStep
  <2> QED BY <2>1, <2>2, <2>3 DEF AccessInv, Others
<1>2. ASSUME UNCHANGED <<now, callVars>> PROVE AccessInv'
  BY <1>0, <1>2, TurnElsewhere DEF AccessInv, WaitsInTheLoop, callVars
<1>3. CASE Tick
  <2>1. \A s \in Sender : WaitsInTheLoop(s)'
    BY <1>0, <1>3 DEF Tick, callVars, WaitsInTheLoop
  <2> QED BY <1>0, <1>3, <2>1, TurnTick DEF AccessInv
<1>4. (\E s \in Sender : CallStep(s)) \/ Tick \/ UNCHANGED <<now, callVars>>
  BY DEF Next, ObserveRx, Forget, Horizon, vars
<1> QED BY <1>1, <1>2, <1>3, <1>4

(* No call is under way at the start. *)
LEMMA AccessInit == Init => AccessInv
<1> SUFFICES ASSUME Init PROVE AccessInv
  OBVIOUS
<1>1. \A s \in Sender : Clock(NodeOf[s]) \in Nat
  BY InitTypeOK, ClockType, Constants
<1> QED BY <1>1 DEF Init, AccessInv, WaitsInTheLoop, TurnInv

(* No call of gate sleeps through a slot of its own. *)
THEOREM TurnsAreTaken ==
  ASSUME RoomToSpare
  PROVE  Spec => []AccessInv
<1>1. Inv /\ [Next]_vars => Inv'
  BY NextInv
<1>2. Inv /\ AccessInv /\ [Next]_vars => AccessInv'
  BY AccessStep
<1> QED BY <1>1, <1>2, AccessInit, InitInv, PTL DEF Spec

(***************************************************************************)
(* Bounded access: a call waits no longer than a superframe and the        *)
(* lateness of a sleep, whatever is overheard and whoever else contends.   *)
(***************************************************************************)
THEOREM AccessIsBounded ==
  ASSUME RoomToSpare
  PROVE  Spec => []AccessWithinASuperframe
<1>1. ASSUME Inv, AccessInv PROVE AccessWithinASuperframe
  <2> SUFFICES ASSUME NEW s \in Sender, pc[s] # "idle"
               PROVE  Clock(NodeOf[s]) - entry[s] <= SuperframeUs(Sched) + Slack
    BY DEF AccessWithinASuperframe
  <2> DEFINE n == NodeOf[s]
             t == Clock(n)
             e == entry[s]
             w == wake[s] + Skew[n]
  <2>0. /\ TypeOK /\ CallInv(s) /\ TurnInv(s)
    BY <1>1 DEF Inv, AccessInv
  <2>1. /\ t \in Nat /\ t = now + Skew[n] /\ now \in Nat /\ Skew[n] \in Nat /\ e \in Nat
        /\ wake[s] \in Nat /\ w \in Nat /\ slotAt[s] \in Nat
        /\ Airtime[frame[s]] \in Nat /\ SuperframeUs(Sched) \in Nat
        /\ HopSlack = 0 /\ Slack = Oversleep /\ Oversleep \in Nat
        /\ Sched.slot_us \in Nat /\ Sched.slot_us <= SuperframeUs(Sched)
    BY <2>0, ClockType, Constants, SpareFacts DEF TypeOK
  <2> SUFFICES t <= e + SuperframeUs(Sched) + Slack
    BY <2>1
  <2>2. CASE pc[s] = "retune"
    BY <2>0, <2>2 DEF CallInv, RetuneInv, RoomToSpare
  <2>3. CASE pc[s] = "owner"
    BY <2>0, <2>1, <2>3 DEF CallInv, OwnerInv
  <2>4. CASE pc[s] = "backoff"
    <3>1. /\ slotAt[s] = SlotStart(Sched, e) /\ SlotStart(Sched, e) <= e
          /\ w + Airtime[frame[s]] < slotAt[s] + Sched.slot_us + HopSlack
          /\ now <= wake[s] + Oversleep
      BY <2>0, <2>1, <2>4, SlotFacts, Constants DEF TurnInv, CallInv, DrawInv
    <3> QED BY <2>1, <3>1
  <2>5. CASE pc[s] \in {"contend", "loop"}
    <3>1. \A u \in e + 1 .. t : OwnStart(s, u) => t <= u + Oversleep
      BY <2>0, <2>5 DEF TurnInv
    <3> QED BY <2>0, <2>1, <3>1, InTime
  <2>6. CASE pc[s] = "elect"
    <3>1. /\ NoTurnBefore(s, slotAt[s] + 2 * Sched.slot_us)
          /\ w + Airtime[frame[s]] < slotAt[s] + Sched.slot_us + HopSlack
          /\ now <= wake[s] + Oversleep
      BY <2>0, <2>6 DEF TurnInv, CallInv, DrawInv
    <3>2. t < slotAt[s] + 2 * Sched.slot_us /\ slotAt[s] + 2 * Sched.slot_us \in Nat
      BY <2>1, <3>1, SpareFacts
    <3>3. \A u \in e + 1 .. t : ~OwnStart(s, u)
      BY <2>0, <2>1, <3>1, <3>2, NoTurn
    <3> QED BY <2>0, <2>1, <3>3, InTime
  <2>7. CASE pc[s] = "sleep"
    <3>1. t <= w + Oversleep /\ NoTurnBefore(s, w)
      BY <2>0, <2>7 DEF TurnInv
    <3>2. ASSUME NEW u \in e + 1 .. t, OwnStart(s, u) PROVE t <= u + Oversleep
      <4>1. u \in Nat /\ e < u
        BY <2>1
      <4>2. w <= u
        BY <2>0, <2>1, <3>1, <3>2, <4>1, NoTurn
      <4> QED BY <2>1, <3>1, <4>1, <4>2
    <3> QED BY <2>0, <2>1, <3>2, InTime
  <2>8. CASE pc[s] = "granted"
    BY <2>0, <2>8 DEF TurnInv
  <2>9. pc[s] \in {"idle"} \cup Asleep \cup Running
    BY <2>0 DEF TypeOK
  <2> QED BY <2>2, <2>3, <2>4, <2>5, <2>6, <2>7, <2>8, <2>9 DEF Asleep, Running
<1> QED BY <1>1, TurnsAreTaken, InitInv, NextInv, PTL DEF Spec

(***************************************************************************)
(* The gated medium.                                                       *)
(***************************************************************************)

(* Every step of the medium is a step of the gate or leaves the gate alone. *)
LEMMA MediumStepRefines == [MediumNext]_allVars => [Next]_vars
<1> SUFFICES ASSUME [MediumNext]_allVars PROVE [Next]_vars
  OBVIOUS
<1>1. ASSUME NEW s \in Sender, GateStep(s) PROVE Next
  BY <1>1 DEF GateStep, Next, CallStep
<1>2. ASSUME NEW s \in Sender, Enqueue(s) PROVE Next
  BY <1>2 DEF Enqueue, Next, CallStep
<1>3. ASSUME NEW n \in Node, NEW m \in Control, SendRobust(n, m) PROVE UNCHANGED vars
  BY <1>3 DEF SendRobust
<1>4. ASSUME NEW n \in Node, Radiate(n) \/ Land(n) PROVE UNCHANGED vars
  BY <1>4 DEF Radiate, Land
<1>5. ASSUME NEW p \in Node, NEW n \in Node, NEW m \in Audible, Hear(p, n, m) PROVE Next
  <2>1. NonceOf[n] \in Nonces
    BY MediumAssumption
  <2> QED BY <1>5, <2>1 DEF Hear, Next
<1>6. MediumTick => Next
  BY DEF MediumTick, Next
<1>7. MediumEnds => Next
  BY DEF MediumEnds, Next
<1>8. UNCHANGED allVars => UNCHANGED vars
  BY DEF allVars
<1> QED BY <1>1, <1>2, <1>3, <1>4, <1>5, <1>6, <1>7, <1>8 DEF MediumNext

(* The steps of SlotMedium are those of the gate and of what is behind it, *)
(* so what is proved of the gate may be used of the medium.                *)
LEMMA MediumTakesGateSteps == MediumSpec => Spec
<1>1. MediumInit => Init
  BY DEF MediumInit
<1> QED BY <1>1, MediumStepRefines, PTL DEF MediumSpec, Spec

(* So what is proved of the gate holds of every bearer on the channel. *)
THEOREM MediumKeepsGateInv == MediumSpec => []GateInv
BY MediumTakesGateSteps, GateInvariant, PTL
---------------------------------------------------------------------------
(* Type correctness. *)

(* The constants of the medium, one fact each. *)
LEMMA MediumConstants ==
  /\ \A n \in Node : NonceOf[n] \in Nonces
  /\ Control \subseteq Name /\ Audible \subseteq Name
  /\ MaxControl \in Nat /\ MaxBacklog \in Nat \ {0}
BY MediumAssumption, GateAssumption

(* The medium starts in a state of its type. *)
LEMMA MediumInitType == MediumInit => MediumTypeOK
<1> SUFFICES ASSUME MediumInit PROVE MediumTypeOK
  OBVIOUS
<1>1. TypeOK
  BY InitTypeOK DEF MediumInit
<1> QED BY <1>1, MediumConstants DEF MediumInit, MediumTypeOK

(* A frame joins the end of a queue. *)
LEMMA QueueType ==
  ASSUME MediumTypeOK, NEW n \in Node, NEW f \in QueuedFrame,
         queue' = [queue EXCEPT ![n] = Append(@, f)]
  PROVE  queue' \in [Node -> Seq(QueuedFrame)]
BY DEF MediumTypeOK

(* The head of a queue goes on the air. *)
LEMMA RadiateType ==
  ASSUME MediumTypeOK, NEW n \in Node, Radiate(n)
  PROVE  MediumTypeOK'
<1> DEFINE f == Head(queue[n])
           Sent == [frame : QueuedFrame, ends : Nat, clash : BOOLEAN]
<1>1. queue[n] \in Seq(QueuedFrame) /\ queue[n] # << >>
  BY DEF MediumTypeOK, Radiate, MayRadiate
<1>2. f \in QueuedFrame /\ Tail(queue[n]) \in Seq(QueuedFrame)
  BY <1>1
<1>3. queue' \in [Node -> Seq(QueuedFrame)]
  BY <1>2 DEF MediumTypeOK, Radiate
<1>4. now + Airtime[f.name] \in Nat
  BY <1>2, Constants DEF QueuedFrame, MediumTypeOK, TypeOK
<1>5. [frame |-> f, ends |-> now + Airtime[f.name],
       clash |-> \E p \in Node : Sounding(p)] \in Sent
  BY <1>2, <1>4
<1>6. \A p \in Node : Sounding(p) => [air[p] EXCEPT !.clash = TRUE] \in Sent
  BY DEF Sounding, OnAir, MediumTypeOK
<1>7. air' \in [Node -> {Silence} \cup Sent]
  BY <1>5, <1>6 DEF Radiate, MediumTypeOK
<1>8. TypeOK'
  BY StutterType DEF Radiate, MediumTypeOK
<1> QED BY <1>3, <1>7, <1>8 DEF Radiate, MediumTypeOK

(* A frame that lands is heard by the other nodes. *)
LEMMA LandType ==
  ASSUME MediumTypeOK, NEW n \in Node, Land(n)
  PROVE  MediumTypeOK'
<1>1. OnAir(n) => air[n].frame.name \in Name
  BY DEF OnAir, MediumTypeOK, QueuedFrame
<1>2. ears' \subseteq {e \in Node \X Node \X Name : e[1] # e[2]}
  BY <1>1 DEF Land, MediumTypeOK
<1>3. air' \in [Node -> {Silence} \cup [frame : QueuedFrame, ends : Nat, clash : BOOLEAN]]
  BY DEF Land, MediumTypeOK
<1>4. TypeOK'
  BY StutterType DEF Land, MediumTypeOK
<1> QED BY <1>2, <1>3, <1>4 DEF Land, MediumTypeOK

(* Every step of the gate keeps the types of the gate. *)
LEMMA NextType ==
  ASSUME Inv, [Next]_vars PROVE TypeOK'
BY NextInv DEF Inv

(* Every step of the medium keeps the types. *)
LEMMA MediumNextType ==
  ASSUME MediumTypeOK, Inv, [MediumNext]_allVars
  PROVE  MediumTypeOK'
<1>0. TypeOK'
  BY MediumStepRefines, NextType
<1>1. ASSUME UNCHANGED mediumVars PROVE MediumTypeOK'
  BY <1>0, <1>1 DEF mediumVars, MediumTypeOK
<1>2. ASSUME NEW s \in Sender, Enqueue(s) PROVE MediumTypeOK'
  <2>1. Frame(frame[s], how[s], slotAt[s]) \in QueuedFrame /\ NodeOf[s] \in Node
    BY Constants DEF MediumTypeOK, TypeOK, Frame, QueuedFrame
  <2>2. queue' \in [Node -> Seq(QueuedFrame)]
    BY <1>2, <2>1, QueueType DEF Enqueue
  <2> QED BY <1>0, <1>2, <2>2 DEF Enqueue, MediumTypeOK
<1>3. ASSUME NEW n \in Node, NEW m \in Control, SendRobust(n, m) PROVE MediumTypeOK'
  <2>1. ControlFrame(m) \in QueuedFrame
    BY MediumConstants DEF ControlFrame, Frame, QueuedFrame, MediumTypeOK, TypeOK
  <2>2. queue' \in [Node -> Seq(QueuedFrame)]
    BY <1>3, <2>1, QueueType DEF SendRobust
  <2>3. sent' \in [Node -> 0 .. MaxControl]
    BY <1>3, MediumConstants DEF SendRobust, MediumTypeOK
  <2> QED BY <1>0, <1>3, <2>2, <2>3 DEF SendRobust, MediumTypeOK
<1>4. ASSUME NEW p \in Node, NEW n \in Node, NEW m \in Audible, Hear(p, n, m)
      PROVE  MediumTypeOK'
  BY <1>0, <1>4 DEF Hear, MediumTypeOK
<1> QED BY <1>1, <1>2, <1>3, <1>4, RadiateType, LandType
        DEF MediumNext, GateStep, MediumTick, MediumEnds, allVars

(* Init of the medium includes that of the gate. *)
LEMMA MediumInitInv == MediumInit => Inv
BY InitInv DEF MediumInit

(* The queues, the air and the receptions keep their type. *)
THEOREM MediumTypeCorrect == MediumSpec => []MediumTypeOK
<1>1. Inv /\ [MediumNext]_allVars => Inv'
  BY MediumStepRefines, NextInv
<1>2. MediumTypeOK /\ Inv /\ [MediumNext]_allVars => MediumTypeOK'
  BY MediumNextType
<1> QED BY <1>1, <1>2, MediumInitType, MediumInitInv, PTL DEF MediumSpec

---------------------------------------------------------------------------
(* A frame is on the air at the instant it is granted. *)

(* A step of a call is not of another call and, short of an offer, not of an *)
(* idle one.                                                                 *)
LEMMA PlaceStep ==
  ASSUME TypeOK, NEW s \in Sender, GateStep(s) \/ Inject(s)
  PROVE  /\ \A r \in Others(s) : pc'[r] = pc[r]
         /\ pc[s] = "idle" => \E m \in Sends[s] : Offer(s, m) /\ Backlog(NodeOf[s]) < MaxBacklog
         /\ now' = now
<1>1. ASSUME NEW kind, NEW start, Grant(s, kind, start)
      PROVE  \A r \in Others(s) : pc'[r] = pc[r]
  BY <1>1, GrantEffect
<1>2. ASSUME Declined(s) PROVE \A r \in Others(s) : pc'[r] = pc[r]
  BY <1>2, DeclinedEffect
<1>3. ASSUME NEW place, NEW d, SleepFor(s, place, d) PROVE \A r \in Others(s) : pc'[r] = pc[r]
  BY <1>3, SleepForEffect
<1>4. ASSUME NEW place, Goto(s, place) PROVE \A r \in Others(s) : pc'[r] = pc[r]
  BY <1>4, GotoEffect
<1>5. CASE \E m \in Sends[s] : Offer(s, m) /\ Backlog(NodeOf[s]) < MaxBacklog
  BY <1>3, <1>4, <1>5 DEF Offer
<1>6. CASE Retuned(s) \/ Awake(s) \/ Inject(s)
  BY <1>4, <1>6 DEF Retuned, Awake, Inject
<1>7. CASE OwnerTest(s)
  BY <1>1, <1>3, <1>4, <1>7 DEF OwnerTest
<1>8. CASE BackoffEnds(s)
  BY <1>1, <1>4, <1>8 DEF BackoffEnds
<1>9. CASE Contend(s)
  BY <1>1, <1>2, <1>3, <1>9 DEF Contend
<1>10. CASE ElectionEnds(s)
  BY <1>1, <1>2, <1>10 DEF ElectionEnds
<1>11. CASE LoopTest(s)
  BY <1>1, <1>4, <1>11 DEF LoopTest
<1> QED BY <1>5, <1>6, <1>7, <1>8, <1>9, <1>10, <1>11 DEF GateStep

(* Nothing of a call or of a radio is disturbed where both stand still. *)
LEMMA AirtimeElsewhere ==
  ASSUME NEW n \in Node, now' = now, queue'[n] = queue[n], air'[n] = air[n]
  PROVE  /\ ReadyInv(n) => ReadyInv(n)'
         /\ AirInv(n) => AirInv(n)'
         /\ \A s \in Sender : NodeOf[s] = n /\ RadioIsFree(s) /\ (pc'[s] # "idle" => pc[s] # "idle")
                                => RadioIsFree(s)'
BY DEF ReadyInv, AirInv, RadioIsFree, KeepsItsSlot, OnAir, Clock

(* A call that is not over leaves its radio as it found it. *)
LEMMA GateStepAirtime ==
  ASSUME MaxBacklog = 1, Inv, AirtimeInv, NEW s \in Sender, GateStep(s)
  PROVE  /\ \A r \in Sender : RadioIsFree(r)'
         /\ \A n \in Node : ReadyInv(n)' /\ AirInv(n)'
<1>0. TypeOK /\ now' = now /\ queue' = queue /\ air' = air
  BY PlaceStep DEF AirtimeInv, MediumTypeOK, GateStep, mediumVars
<1>1. \A n \in Node : ReadyInv(n)' /\ AirInv(n)'
  BY <1>0, AirtimeElsewhere DEF AirtimeInv
<1>2. ASSUME NEW r \in Others(s) PROVE RadioIsFree(r)'
  <2>1. r \in Sender /\ NodeOf[r] \in Node
    BY <1>2, Constants DEF Others
  <2>2. pc'[r] = pc[r]
    BY <1>0, <1>2, PlaceStep
  <2>3. RadioIsFree(r)
    BY <2>1 DEF AirtimeInv
  <2> QED BY <1>0, <2>2, <2>3 DEF RadioIsFree, OnAir
<1>3. ASSUME pc[s] # "idle" PROVE RadioIsFree(s)'
  BY <1>0, <1>3 DEF AirtimeInv, RadioIsFree, OnAir
<1>4. ASSUME pc[s] = "idle" PROVE RadioIsFree(s)'
  <2>1. Backlog(NodeOf[s]) < 1 /\ NodeOf[s] \in Node
    BY <1>0, <1>4, PlaceStep, Constants
  <2>2. queue[NodeOf[s]] \in Seq(QueuedFrame)
    BY <2>1 DEF AirtimeInv, MediumTypeOK
  <2>3. Len(queue[NodeOf[s]]) \in Nat
    BY <2>2
  <2>4. ~OnAir(NodeOf[s]) /\ Len(queue[NodeOf[s]]) = 0
    <3>1. CASE OnAir(NodeOf[s])
      BY <2>1, <2>3, <3>1 DEF Backlog
    <3>2. CASE ~OnAir(NodeOf[s])
      BY <2>1, <2>3, <3>2 DEF Backlog
    <3> QED BY <3>1, <3>2
  <2>5. queue[NodeOf[s]] = << >>
    BY <2>2, <2>4
  <2> QED BY <1>0, <2>4, <2>5 DEF RadioIsFree, OnAir
<1> QED BY <1>1, <1>2, <1>3, <1>4 DEF Others

(* A granted frame joins an empty queue at the instant of the grant. *)
LEMMA EnqueueAirtime ==
  ASSUME OneCallPerRadio, Inv, AirtimeInv, NEW s \in Sender, Enqueue(s)
  PROVE  /\ \A r \in Sender : RadioIsFree(r)'
         /\ \A n \in Node : ReadyInv(n)' /\ AirInv(n)'
<1> DEFINE n == NodeOf[s]
           f == Frame(frame[s], how[s], slotAt[s])
<1>0. TypeOK /\ n \in Node /\ now' = now /\ air' = air
  BY PlaceStep, Constants DEF AirtimeInv, MediumTypeOK, Enqueue
<1>1. queue[n] = << >> /\ ~OnAir(n) /\ queue'[n] = Append(queue[n], f)
  BY <1>0 DEF Enqueue, Inject, AirtimeInv, RadioIsFree, MediumTypeOK
<1>2. queue'[n] = <<f>>
  BY <1>1
<1>3. KeepsItsSlot(f, n, Clock(n) + Airtime[f.name])
  BY DEF Enqueue, Inject, Inv, CallInv, StartInv, EndsWithItsSlot, Frame, KeepsItsSlot
<1>4. ReadyInv(n)'
  BY <1>0, <1>1, <1>2, <1>3 DEF ReadyInv, KeepsItsSlot, OnAir, Clock
<1>5. AirInv(n)'
  BY <1>0, <1>1 DEF AirInv, OnAir
<1>6. \A p \in Node \ {n} : queue'[p] = queue[p]
  BY DEF Enqueue, AirtimeInv, MediumTypeOK
<1>7. \A p \in Node \ {n} : ReadyInv(p)' /\ AirInv(p)'
  BY <1>0, <1>6, AirtimeElsewhere DEF AirtimeInv
<1>8. pc'[s] = "idle" /\ \A r \in Others(s) : NodeOf[r] \in Node \ {n} /\ pc'[r] = pc[r]
  BY <1>0, GotoEffect, Constants DEF Enqueue, Inject, OneCallPerRadio, Others
<1>9. \A r \in Sender : RadioIsFree(r)'
  BY <1>0, <1>6, <1>8, AirtimeElsewhere DEF AirtimeInv, RadioIsFree, Others
<1> QED BY <1>4, <1>5, <1>7, <1>9

(* The frame that goes on the air was ready, and the queue is empty again. *)
LEMMA RadiateAirtime ==
  ASSUME AirtimeInv, NEW n \in Node, Radiate(n)
  PROVE  /\ \A r \in Sender : RadioIsFree(r)'
         /\ \A p \in Node : ReadyInv(p)' /\ AirInv(p)'
<1> DEFINE f == Head(queue[n])
<1>0. TypeOK /\ now' = now /\ pc' = pc /\ queue[n] # << >> /\ ~OnAir(n)
  BY DEF AirtimeInv, MediumTypeOK, Radiate, MayRadiate, vars, callVars
<1>1. /\ queue[n] \in Seq(QueuedFrame) /\ f \in QueuedFrame /\ Len(queue[n]) = 1
      /\ KeepsItsSlot(f, n, Clock(n) + Airtime[f.name])
  <2>1. queue[n] \in Seq(QueuedFrame)
    BY DEF AirtimeInv, MediumTypeOK
  <2> QED BY <1>0, <2>1 DEF AirtimeInv, ReadyInv
<1>2. queue'[n] = << >>
  BY <1>1 DEF Radiate, AirtimeInv, MediumTypeOK
<1>3. air'[n].frame = f /\ air'[n].ends = now + Airtime[f.name]
  BY DEF Radiate
<1>4. AirInv(n)'
  <2>1. f.name \in Name
    BY <1>1 DEF QueuedFrame
  <2> QED BY <1>0, <1>1, <1>3, <2>1, Constants DEF AirInv, KeepsItsSlot, Clock, TypeOK
<1>5. ReadyInv(n)'
  BY <1>2 DEF ReadyInv
<1>6. ASSUME NEW p \in Node \ {n}
      PROVE  /\ queue'[p] = queue[p] /\ (OnAir(p)' => OnAir(p))
             /\ OnAir(p) => air'[p].frame = air[p].frame /\ air'[p].ends = air[p].ends
  <2>1. queue'[p] = queue[p]
    BY DEF Radiate, AirtimeInv, MediumTypeOK
  <2>2. CASE ~Sounding(p)
    BY <2>1, <2>2 DEF Radiate, OnAir
  <2>3. CASE Sounding(p)
    <3>1. OnAir(p) /\ air'[p] = [air[p] EXCEPT !.clash = TRUE]
      BY <2>3 DEF Radiate, Sounding
    <3>2. air[p] \in [frame : QueuedFrame, ends : Nat, clash : BOOLEAN]
      BY <3>1 DEF OnAir, AirtimeInv, MediumTypeOK
    <3> QED BY <2>1, <3>1, <3>2
  <2> QED BY <2>2, <2>3
<1>7. ASSUME NEW p \in Node \ {n} PROVE ReadyInv(p)' /\ AirInv(p)'
  <2>1. ReadyInv(p) /\ AirInv(p)
    BY DEF AirtimeInv
  <2> QED BY <1>0, <1>6, <2>1 DEF ReadyInv, AirInv, KeepsItsSlot, Clock
<1>8. ASSUME NEW r \in Sender PROVE RadioIsFree(r)'
  <2>1. RadioIsFree(r) /\ NodeOf[r] \in Node
    BY Constants DEF AirtimeInv
  <2>2. pc[r] # "idle" => NodeOf[r] # n
    BY <1>0, <2>1 DEF RadioIsFree
  <2> QED BY <1>0, <1>6, <2>1, <2>2 DEF RadioIsFree
<1> QED BY <1>4, <1>5, <1>7, <1>8

(* Time moves on only when no frame is waiting for a free radio. *)
LEMMA TickAirtime ==
  ASSUME Inv, AirtimeInv, MediumTick
  PROVE  /\ \A r \in Sender : RadioIsFree(r)'
         /\ \A n \in Node : ReadyInv(n)' /\ AirInv(n)'
<1>0. /\ TypeOK /\ now' = now + 1 /\ queue' = queue /\ air' = air
      /\ pc' = pc
  BY DEF AirtimeInv, MediumTypeOK, MediumTick, Tick, mediumVars, callVars
<1>1. ASSUME NEW n \in Node PROVE queue[n] = << >>
  <2> SUFFICES ASSUME queue[n] # << >> PROVE FALSE
    OBVIOUS
  <2>1. txHold[n]
    BY DEF MediumTick, MayRadiate, AirtimeInv, ReadyInv
  <2>2. PICK s \in Sender : NodeOf[s] = n /\ waiting[s]
    BY <2>1 DEF Inv, HoldHasAHolder
  <2> QED BY <2>2 DEF AirtimeInv, WaitsInTheLoop, RadioIsFree
<1>2. ASSUME NEW n \in Node PROVE AirInv(n)'
  <2> SUFFICES ASSUME OnAir(n) PROVE AirInv(n)'
    BY <1>0 DEF AirInv, OnAir
  <2>1. KeepsItsSlot(air[n].frame, n, air[n].ends + Skew[n])
    BY DEF AirtimeInv, AirInv
  <2>2. air[n].frame.slot \in Nat
    BY DEF OnAir, AirtimeInv, MediumTypeOK, QueuedFrame
  <2> QED BY <1>0, <2>1, <2>2, Constants DEF AirInv, KeepsItsSlot, Clock, TypeOK
<1> QED BY <1>0, <1>1, <1>2 DEF ReadyInv, AirtimeInv, RadioIsFree, OnAir

(* Every step keeps the frames of lone calls in their slots. *)
LEMMA AirtimeStep ==
  ASSUME GatedAlone, Inv, AirtimeInv, [MediumNext]_allVars
  PROVE  AirtimeInv'
<1> DEFINE Kept == /\ \A s \in Sender : RadioIsFree(s)'
                   /\ \A n \in Node : ReadyInv(n)' /\ AirInv(n)'
<1>0. MediumTypeOK' /\ TypeOK
  BY MediumNextType DEF AirtimeInv, MediumTypeOK
<1>1. ASSUME NEW s \in Sender, GateStep(s) PROVE Kept
  BY <1>1, GateStepAirtime DEF GatedAlone
<1>2. ASSUME NEW s \in Sender, Enqueue(s) PROVE Kept
  BY <1>2, EnqueueAirtime DEF GatedAlone
<1>3. ASSUME NEW n \in Node, Radiate(n) PROVE Kept
  BY <1>3, RadiateAirtime
<1>4. ASSUME NEW n \in Node, Land(n) PROVE Kept
  <2>1. /\ now' = now /\ pc' = pc /\ queue' = queue
        /\ \A p \in Node : air'[p] = Silence \/ air'[p] = air[p]
    BY <1>4 DEF Land, vars, callVars, AirtimeInv, MediumTypeOK
  <2> QED BY <2>1, Constants
          DEF AirtimeInv, ReadyInv, AirInv, RadioIsFree, KeepsItsSlot, OnAir, Clock
<1>5. ASSUME NEW p \in Node, NEW n \in Node, NEW m \in Audible, Hear(p, n, m) PROVE Kept
  <2>1. now' = now /\ pc' = pc /\ queue' = queue /\ air' = air
    BY <1>5 DEF Hear, ObserveRx, callVars
  <2> QED BY <2>1, AirtimeElsewhere, Constants DEF AirtimeInv
<1>6. MediumTick => Kept
  BY TickAirtime
<1>7. MediumEnds \/ UNCHANGED allVars => Kept
  <2> SUFFICES ASSUME UNCHANGED allVars PROVE Kept
    BY DEF MediumEnds, Horizon, allVars
  <2>1. now' = now /\ pc' = pc /\ queue' = queue /\ air' = air
    BY DEF allVars, vars, callVars, mediumVars
  <2> QED BY <2>1, AirtimeElsewhere, Constants DEF AirtimeInv
<1>8. \A n \in Node, m \in Control : ~SendRobust(n, m)
  BY DEF GatedAlone
<1>9. Kept
  BY <1>1, <1>2, <1>3, <1>4, <1>5, <1>6, <1>7, <1>8 DEF MediumNext
<1>10. \A s \in Sender : WaitsInTheLoop(s)'
  <2>1. ASSUME NEW s \in Sender, CallStep(s) PROVE \A r \in Sender : WaitsInTheLoop(r)'
    BY <1>0, <2>1, WaitsStep DEF AirtimeInv
  <2>2. (\E s \in Sender : CallStep(s)) \/ UNCHANGED <<pc, waiting>>
    BY MediumStepRefines DEF Next, ObserveRx, Forget, Tick, Horizon, callVars, vars
  <2>3. UNCHANGED <<pc, waiting>> => \A r \in Sender : WaitsInTheLoop(r)'
    BY DEF AirtimeInv, WaitsInTheLoop
  <2> QED BY <2>1, <2>2, <2>3
<1> QED BY <1>0, <1>9, <1>10 DEF AirtimeInv

(* All radios start silent, with empty queues and no call under way. *)
LEMMA AirtimeInit == MediumInit => AirtimeInv
<1> SUFFICES ASSUME MediumInit PROVE AirtimeInv
  OBVIOUS
<1>1. MediumTypeOK
  BY MediumInitType
<1> QED BY <1>1, Constants
        DEF MediumInit, Init, AirtimeInv, WaitsInTheLoop, RadioIsFree, ReadyInv, AirInv, OnAir

(* With one gated call per radio, a frame is sent as soon as it is granted. *)
THEOREM AirtimeInvariant ==
  ASSUME GatedAlone
  PROVE  MediumSpec => []AirtimeInv
<1>1. Inv /\ [MediumNext]_allVars => Inv'
  BY MediumStepRefines, NextInv
<1>2. Inv /\ AirtimeInv /\ [MediumNext]_allVars => AirtimeInv'
  BY AirtimeStep
<1> QED BY <1>1, <1>2, AirtimeInit, MediumInitInv, PTL DEF MediumSpec

(* So it is off the air when its slot ends, up to the slack of the gate. *)
THEOREM FramesKeepTheirSlots ==
  ASSUME GatedAlone
  PROVE  MediumSpec => []FramesEndWithTheirSlot
<1>1. AirtimeInv => FramesEndWithTheirSlot
  BY DEF AirtimeInv, AirInv, KeepsItsSlot, FramesEndWithTheirSlot, Radiating, Sounding
<1> QED BY <1>1, AirtimeInvariant, PTL

(***************************************************************************)
(* With punctual sleeps, no hopping and clocks that agree, all frames on   *)
(* the air at one instant were granted in one slot: owners never cross.    *)
(***************************************************************************)
THEOREM OwnersKeepApart ==
  ASSUME GatedAlone, ~Hops, Oversleep = 0, \A p, q \in Node : Skew[p] = Skew[q]
  PROVE  MediumSpec => []OwnersNeverCross
<1>1. ASSUME AirtimeInv PROVE OwnersNeverCross
  <2>0. TypeOK /\ Slack = 0
    BY <1>1 DEF AirtimeInv, MediumTypeOK, Slack, HopSlack
  <2>1. ASSUME NEW p \in Node, Sounding(p)
        PROVE  SlotStart(Sched, Clock(p)) = air[p].frame.slot
    <3>1. air[p].frame.slot \in Nat /\ air[p].ends \in Nat /\ Clock(p) \in Nat
      BY <1>1, <2>0, <2>1, ClockType DEF Sounding, OnAir, AirtimeInv, MediumTypeOK, QueuedFrame
    <3>2. KeepsItsSlot(air[p].frame, p, air[p].ends + Skew[p])
      BY <1>1, <2>1 DEF AirtimeInv, AirInv, Sounding
    <3>3. Clock(p) < air[p].ends + Skew[p]
      BY <2>0, <2>1, <3>1, Constants DEF Sounding, Clock, TypeOK
    <3>4. /\ SlotStart(Sched, air[p].frame.slot) <= Clock(p)
          /\ Clock(p) < SlotStart(Sched, air[p].frame.slot) + Sched.slot_us
      BY <2>0, <3>1, <3>2, <3>3, Constants DEF KeepsItsSlot
    <3> QED BY <3>1, <3>2, <3>4, SameSlot, Constants DEF KeepsItsSlot
  <2> QED BY <2>1 DEF OwnersNeverCross, Radiating, Clock
<1> QED BY <1>1, AirtimeInvariant, PTL

---------------------------------------------------------------------------
(* How long a control frame may stay in the queue. *)

(* What is queued, on the air and sent at one radio. *)
LEMMA RadioFacts ==
  ASSUME MediumTypeOK, NEW n \in Node
  PROVE  /\ now \in Nat /\ Skew[n] \in Nat
         /\ queue[n] \in Seq(QueuedFrame) /\ Len(queue[n]) \in Nat
         /\ DOMAIN queue[n] = 1 .. Len(queue[n])
         /\ \A i \in DOMAIN queue[n] : queue[n][i].slot \in Nat
         /\ sent[n] \in 0 .. MaxControl /\ MaxControl \in Nat
         /\ OnAir(n) => air[n].ends \in Nat
<1>1. queue[n] \in Seq(QueuedFrame) /\ sent[n] \in 0 .. MaxControl /\ now \in Nat
  BY DEF MediumTypeOK, TypeOK
<1>2. Len(queue[n]) \in Nat /\ DOMAIN queue[n] = 1 .. Len(queue[n])
  BY <1>1
<1>3. ASSUME NEW i \in DOMAIN queue[n] PROVE queue[n][i].slot \in Nat
  <2>1. queue[n][i] \in QueuedFrame
    BY <1>1, <1>2, <1>3
  <2> QED BY <2>1 DEF QueuedFrame
<1>4. OnAir(n) => air[n].ends \in Nat
  BY DEF OnAir, MediumTypeOK
<1> QED BY <1>1, <1>2, <1>3, <1>4, Constants, MediumConstants

(* The airtime of i frames of at most a each. *)
LEMMA Airtimes ==
  ASSUME NEW a \in Nat, NEW i \in Nat, NEW j \in Nat, i <= j
  PROVE  i * a \in Nat /\ (i + 1) * a = i * a + a /\ i * a <= j * a
<1>1. PICK d \in Nat : j = i + d
  OBVIOUS
<1>2. j * a = i * a + d * a /\ d * a \in Nat
  BY <1>1
<1> QED BY <1>2

(* What ControlFits says of the times involved. *)
LEMMA ControlRoom ==
  ASSUME NEW a \in Nat, ControlFits(a)
  PROVE  /\ MaxControl * a \in Nat /\ Oversleep \in Nat /\ Sched.slot_us \in Nat
         /\ SuperframeUs(Sched) \in Nat /\ Slack = Oversleep
         /\ Oversleep + MaxControl * a <= Sched.slot_us
BY MediumConstants, SpareFacts DEF ControlFits

(* An offer finds the radio empty. *)
LEMMA EmptyRadio ==
  ASSUME MediumTypeOK, NEW n \in Node, Backlog(n) < 1
  PROVE  queue[n] = << >> /\ ~OnAir(n)
<1>1. queue[n] \in Seq(QueuedFrame) /\ Len(queue[n]) \in Nat
  BY RadioFacts
<1>2. CASE OnAir(n)
  BY <1>1, <1>2 DEF Backlog
<1>3. CASE ~OnAir(n)
  BY <1>1, <1>3 DEF Backlog
<1> QED BY <1>2, <1>3

(* The backlog counts the frame on the air. *)
LEMMA BacklogIs ==
  ASSUME NEW n \in Node
  PROVE  /\ OnAir(n) => Backlog(n) = Len(queue[n]) + 1
         /\ ~OnAir(n) => Backlog(n) = Len(queue[n]) + 0
         /\ OnAir(n)' => Backlog(n)' = Len(queue'[n]) + 1
         /\ ~OnAir(n)' => Backlog(n)' = Len(queue'[n]) + 0
<1>1. OnAir(n) => Backlog(n) = Len(queue[n]) + 1
  BY DEF Backlog
<1>2. ~OnAir(n) => Backlog(n) = Len(queue[n]) + 0
  BY DEF Backlog
<1>3. OnAir(n)' => Backlog(n)' = Len(queue'[n]) + 1
  BY DEF Backlog
<1>4. ~OnAir(n)' => Backlog(n)' = Len(queue'[n]) + 0
  BY DEF Backlog
<1> QED BY <1>1, <1>2, <1>3, <1>4

(* Where nothing is queued, sent or called, a frame may only land. *)
LEMMA DrainKept ==
  ASSUME NEW a \in Nat, ControlFits(a), MediumTypeOK, NEW n \in Node, DrainInv(n, a),
         now' = now, queue'[n] = queue[n], sent'[n] = sent[n],
         OnAir(n)' => OnAir(n) /\ air'[n].ends = air[n].ends,
         Quiet(n)' <=> Quiet(n),
         \A s \in Sender : NodeOf[s] = n => entry'[s] = entry[s]
  PROVE  DrainInv(n, a)'
<1>1. /\ OnAir(n)' => now' <= air'[n].ends /\ air'[n].ends <= now' + a
      /\ OnAir(n) => now <= air[n].ends
  BY DEF DrainInv
<1>2. Backlog(n)' <= sent'[n] + (IF Quiet(n)' THEN 1 ELSE 0)
  <2>1. Len(queue[n]) \in Nat /\ sent[n] \in Nat
    BY RadioFacts
  <2>2. Backlog(n)' <= Backlog(n)
    BY <2>1 DEF Backlog
  <2>3. Backlog(n)' \in Nat /\ Backlog(n) \in Nat
    BY <2>1, BacklogIs
  <2>4. Backlog(n) <= sent[n] + (IF Quiet(n) THEN 1 ELSE 0)
    BY DEF DrainInv
  <2> HIDE DEF Backlog
  <2>5. CASE Quiet(n)
    BY <2>1, <2>2, <2>3, <2>4, <2>5
  <2>6. CASE ~Quiet(n)
    BY <2>1, <2>2, <2>3, <2>4, <2>6
  <2> QED BY <2>5, <2>6
<1>3. AirLeft(n)' \in Nat /\ AirLeft(n) \in Nat /\ AirLeft(n)' <= AirLeft(n)
  BY <1>1, RadioFacts DEF AirLeft
<1>4. ASSUME NEW i \in DOMAIN queue'[n], queue'[n][i].how = "control", Quiet(n)'
      PROVE  now' + AirLeft(n)' + (i - 1) * a
               <= queue'[n][i].slot + SuperframeUs(Sched) + Oversleep + MaxControl * a
  <2> DEFINE P == (i - 1) * a
             B == SuperframeUs(Sched) + Oversleep + MaxControl * a
             c == queue[n][i].slot
  <2>1. now \in Nat /\ P \in Int /\ B \in Nat /\ c \in Nat
    <3>1. now \in Nat /\ c \in Nat /\ i \in Int
      BY <1>4, RadioFacts
    <3>2. P \in Int
      BY <3>1
    <3>3. B \in Nat
      BY ControlRoom
    <3> QED BY <3>1, <3>2, <3>3
  <2>2. now + AirLeft(n) + P <= c + SuperframeUs(Sched) + Oversleep + MaxControl * a
    BY <1>4 DEF DrainInv
  <2>3. c + SuperframeUs(Sched) + Oversleep + MaxControl * a = c + B
    BY <2>1, ControlRoom
  <2> HIDE DEF P, B
  <2>4. now + AirLeft(n)' + P <= c + B
    BY <1>3, <2>1, <2>2, <2>3
  <2> QED BY <2>3, <2>4 DEF P
<1>5. ASSUME NEW i \in DOMAIN queue'[n], queue'[n][i].how = "control", ~Quiet(n)'
      PROVE  \A s \in Sender : NodeOf[s] = n => entry'[s] <= queue'[n][i].slot + Skew[n]
  BY <1>5 DEF DrainInv
<1> QED BY <1>1, <1>2, <1>4, <1>5 DEF DrainInv

(* A call under way stays under way, and keeps the instant of its offer. *)
LEMMA EntryStays ==
  ASSUME TypeOK, NEW s \in Sender, GateStep(s), pc[s] # "idle"
  PROVE  pc'[s] # "idle" /\ entry'[s] = entry[s]
<1>1. ASSUME NEW kind, NEW start, Grant(s, kind, start) PROVE pc'[s] # "idle"
  BY <1>1, GrantEffect
<1>2. ASSUME Declined(s) PROVE pc'[s] # "idle"
  BY <1>2, DeclinedEffect
<1>3. ASSUME NEW place, place # "idle", NEW d, SleepFor(s, place, d) PROVE pc'[s] # "idle"
  BY <1>3, SleepForEffect
<1>4. ASSUME NEW place, place # "idle", Goto(s, place) PROVE pc'[s] # "idle"
  BY <1>4, GotoEffect
<1>5. \A m \in Sends[s] : ~Offer(s, m)
  BY DEF Offer
<1>6. CASE Retuned(s) \/ Awake(s)
  BY <1>4, <1>6 DEF Retuned, Awake
<1>7. CASE OwnerTest(s)
  BY <1>1, <1>3, <1>4, <1>7 DEF OwnerTest
<1>8. CASE BackoffEnds(s)
  BY <1>1, <1>4, <1>8 DEF BackoffEnds
<1>9. CASE Contend(s)
  BY <1>1, <1>2, <1>3, <1>9 DEF Contend
<1>10. CASE ElectionEnds(s)
  BY <1>1, <1>2, <1>10 DEF ElectionEnds
<1>11. CASE LoopTest(s)
  BY <1>1, <1>4, <1>11 DEF LoopTest
<1> QED BY <1>5, <1>6, <1>7, <1>8, <1>9, <1>10, <1>11 DEF GateStep

(* A step of a call: an offer meets an empty radio, the rest change no queue. *)
LEMMA GateStepDrain ==
  ASSUME NEW a \in Nat, ControlFits(a), MediumTypeOK, NEW s \in Sender, GateStep(s),
         NEW n \in Node, DrainInv(n, a)
  PROVE  DrainInv(n, a)'
<1>0. /\ TypeOK /\ now' = now /\ queue' = queue /\ air' = air /\ sent' = sent
  BY PlaceStep DEF MediumTypeOK, GateStep, mediumVars
<1>1. CallStep(s)
  BY DEF GateStep, CallStep
<1>2. \A r \in Others(s) : pc'[r] = pc[r] /\ entry'[r] = entry[r]
  BY <1>0, <1>1, OthersStill
<1>3. CASE NodeOf[s] # n
  <2>1. \A r \in Sender : NodeOf[r] = n => pc'[r] = pc[r] /\ entry'[r] = entry[r]
    BY <1>2, <1>3 DEF Others
  <2> QED BY <1>0, <2>1, DrainKept DEF Quiet, OnAir
<1>4. CASE NodeOf[s] = n /\ pc[s] # "idle"
  <2>1. pc'[s] # "idle" /\ entry'[s] = entry[s]
    BY <1>0, <1>4, EntryStays
  <2>2. ~Quiet(n) /\ ~Quiet(n)'
    BY <1>4, <2>1 DEF Quiet
  <2>3. \A r \in Sender : entry'[r] = entry[r]
    BY <1>2, <2>1 DEF Others
  <2> QED BY <1>0, <2>2, <2>3, DrainKept DEF OnAir
<1>5. CASE NodeOf[s] = n /\ pc[s] = "idle"
  <2>1. Backlog(n) < 1
    BY <1>0, <1>5, PlaceStep DEF ControlFits
  <2>2. queue[n] = << >> /\ ~OnAir(n)
    BY <2>1, EmptyRadio
  <2>3. queue'[n] = << >> /\ ~OnAir(n)'
    BY <1>0, <2>2 DEF OnAir
  <2>4. Backlog(n)' = 0 /\ DOMAIN queue'[n] = {}
    BY <2>3 DEF Backlog
  <2>5. sent'[n] \in Nat
    BY <1>0, RadioFacts
  <2> QED BY <2>3, <2>4, <2>5 DEF DrainInv
<1> QED BY <1>3, <1>4, <1>5

(* The airtime ahead of place i of a queue is that of the frames sent. *)
LEMMA AheadOf ==
  ASSUME NEW a \in Nat, MediumTypeOK, NEW n \in Node, DrainInv(n, a),
         Backlog(n) <= MaxControl, NEW i \in Nat, i <= Len(queue[n])
  PROVE  /\ AirLeft(n) \in Nat
         /\ AirLeft(n) + i * a <= MaxControl * a
<1>1. /\ MaxControl \in Nat /\ Len(queue[n]) \in Nat /\ i * a \in Nat
  BY RadioFacts, Airtimes
<1>2. CASE OnAir(n)
  <2>1. AirLeft(n) \in Nat /\ AirLeft(n) <= a
    BY <1>2, RadioFacts DEF DrainInv, AirLeft
  <2>2. i + 1 <= MaxControl /\ i + 1 \in Nat
    BY <1>1, <1>2 DEF Backlog
  <2>3. (i + 1) * a <= MaxControl * a /\ (i + 1) * a = i * a + a
    BY <1>1, <2>2, Airtimes
  <2>4. MaxControl * a \in Nat
    BY <1>1, Airtimes
  <2> QED BY <1>1, <2>1, <2>3, <2>4
<1>3. CASE ~OnAir(n)
  <2>1. AirLeft(n) = 0
    BY <1>3 DEF AirLeft
  <2>2. i <= MaxControl
    BY <1>1, <1>3 DEF Backlog
  <2>3. i * a <= MaxControl * a /\ MaxControl * a \in Nat
    BY <1>1, <2>2, Airtimes
  <2> QED BY <1>1, <2>1, <2>3
<1> QED BY <1>2, <1>3

(* A granted frame joins the queue behind frames younger than its call. *)
LEMMA EnqueueDrain ==
  ASSUME NEW a \in Nat, ControlFits(a), MediumTypeOK, AccessWithinASuperframe,
         NEW s \in Sender, Enqueue(s), NEW n \in Node, DrainInv(n, a)
  PROVE  DrainInv(n, a)'
<1> DEFINE f == Frame(frame[s], how[s], slotAt[s])
<1>0. /\ TypeOK /\ now' = now /\ air' = air /\ sent' = sent /\ CallStep(s)
      /\ pc[s] = "granted" /\ pc'[s] = "idle" /\ OneCallPerRadio
  BY GotoEffect DEF MediumTypeOK, Enqueue, Inject, CallStep, ControlFits
<1>1. \A r \in Others(s) : pc'[r] = pc[r] /\ entry'[r] = entry[r]
  BY <1>0, OthersStill
<1>2. CASE NodeOf[s] # n
  <2>1. \A r \in Sender : NodeOf[r] = n => pc'[r] = pc[r] /\ entry'[r] = entry[r]
    BY <1>1, <1>2 DEF Others
  <2>2. queue'[n] = queue[n]
    BY <1>2 DEF Enqueue, MediumTypeOK
  <2> QED BY <1>0, <2>1, <2>2, DrainKept DEF Quiet, OnAir
<1>3. CASE NodeOf[s] = n
  <2>1. /\ queue'[n] = Append(queue[n], f) /\ queue[n] \in Seq(QueuedFrame)
        /\ Len(queue[n]) \in Nat /\ sent[n] \in Nat /\ sent[n] <= MaxControl
    BY <1>3, RadioFacts DEF Enqueue, MediumTypeOK
  <2>2. ~Quiet(n) /\ Quiet(n)'
    <3>1. \A r \in Sender : NodeOf[r] = n => r = s
      BY <1>0, <1>3 DEF OneCallPerRadio
    <3> QED BY <1>0, <1>3, <3>1 DEF Quiet
  <2>3. Backlog(n) <= sent[n]
    BY <2>1, <2>2 DEF DrainInv
  <2>4. Len(queue'[n]) = Len(queue[n]) + 1
    BY <2>1
  <2>5. Backlog(n)' <= sent'[n] + 1
    <3>1. OnAir(n)' <=> OnAir(n)
      BY <1>0 DEF OnAir
    <3> QED BY <1>0, <2>1, <2>3, <2>4, <3>1, BacklogIs
  <2>6. OnAir(n)' => now' <= air'[n].ends /\ air'[n].ends <= now' + a
    BY <1>0 DEF DrainInv, OnAir
  <2>7. Backlog(n) <= MaxControl
    <3>1. Backlog(n) \in Nat
      BY <2>1, BacklogIs
    <3> QED BY <2>1, <2>3, <3>1, RadioFacts
  <2>8. ASSUME NEW i \in DOMAIN queue'[n], queue'[n][i].how = "control"
        PROVE  now' + AirLeft(n)' + (i - 1) * a
                 <= queue'[n][i].slot + SuperframeUs(Sched) + Oversleep + MaxControl * a
    <3>1. i \in DOMAIN queue[n] /\ queue'[n][i] = queue[n][i]
      <4>1. f.how # "control"
        BY <1>0 DEF Frame, TypeOK, GrantKind
      <4>2. i \in 1 .. Len(queue[n]) + 1 /\ i # Len(queue[n]) + 1
        BY <2>1, <2>8, <4>1
      <4> QED BY <2>1, <4>2
    <3> DEFINE c == queue[n][i].slot
               P == (i - 1) * a
               M == MaxControl * a
    <3>2. i - 1 \in Nat /\ i - 1 <= Len(queue[n]) /\ c \in Nat /\ now \in Nat /\ Skew[n] \in Nat
      BY <2>1, <3>1, RadioFacts
    <3>3. AirLeft(n) \in Nat /\ AirLeft(n) + P <= M /\ P \in Nat
      BY <2>7, <3>2, AheadOf, Airtimes
    <3>4. M \in Nat /\ SuperframeUs(Sched) \in Nat /\ Slack = Oversleep /\ Oversleep \in Nat
      BY ControlRoom
    <3>5. entry[s] <= c + Skew[n] /\ entry[s] \in Nat
      BY <1>0, <1>3, <2>2, <2>8, <3>1 DEF DrainInv, TypeOK
    <3>6. now + Skew[n] - entry[s] <= SuperframeUs(Sched) + Oversleep
      <4>1. pc[s] # "idle" /\ Slack = Oversleep
        BY <1>0, <3>4
      <4>2. Clock(n) - entry[s] <= SuperframeUs(Sched) + Slack
        BY <1>3, <4>1 DEF AccessWithinASuperframe
      <4>3. Clock(n) = now + Skew[n]
        BY DEF Clock
      <4> QED BY <3>2, <3>4, <3>5, <4>2, <4>3
    <3>7. now' = now /\ AirLeft(n)' = AirLeft(n) /\ queue'[n][i].slot = c
      BY <1>0, <3>1 DEF AirLeft, OnAir
    <3> HIDE DEF c, P, M
    <3>8. now + AirLeft(n) + P <= c + SuperframeUs(Sched) + Oversleep + M
      <4>1. now <= c + SuperframeUs(Sched) + Oversleep
        BY <3>2, <3>4, <3>5, <3>6
      <4> QED BY <3>2, <3>3, <3>4, <4>1
    <3> QED BY <3>7, <3>8 DEF P, M
  <2> QED BY <2>2, <2>5, <2>6, <2>8 DEF DrainInv
<1> QED BY <1>2, <1>3

(* A control frame joins its queue at this instant. *)
LEMMA SendRobustDrain ==
  ASSUME NEW a \in Nat, ControlFits(a), MediumTypeOK, AccessInv,
         NEW p \in Node, NEW m \in Control, SendRobust(p, m), NEW n \in Node, DrainInv(n, a)
  PROVE  DrainInv(n, a)'
<1>0. now' = now /\ air' = air /\ pc' = pc /\ entry' = entry /\ TypeOK
  BY DEF SendRobust, vars, callVars, MediumTypeOK
<1>1. (Quiet(n)' <=> Quiet(n)) /\ (OnAir(n)' <=> OnAir(n)) /\ AirLeft(n)' = AirLeft(n)
  BY <1>0 DEF Quiet, OnAir, AirLeft
<1>2. CASE p # n
  <2>1. queue'[n] = queue[n] /\ sent'[n] = sent[n]
    BY <1>2 DEF SendRobust, MediumTypeOK
  <2> QED BY <1>0, <1>1, <2>1, DrainKept
<1>3. CASE p = n
  <2> DEFINE f == ControlFrame(m)
  <2>1. /\ queue'[n] = Append(queue[n], f) /\ queue[n] \in Seq(QueuedFrame) /\ f.slot = now
        /\ sent'[n] = sent[n] + 1 /\ sent[n] < MaxControl
        /\ sent[n] \in Nat /\ Len(queue[n]) \in Nat /\ MaxControl \in Nat
    BY <1>3, RadioFacts DEF SendRobust, MediumTypeOK, ControlFrame, Frame
  <2>2. Len(queue'[n]) = Len(queue[n]) + 1
    BY <2>1
  <2> HIDE DEF f
  <2>3. /\ Backlog(n) \in Nat /\ Backlog(n)' = Backlog(n) + 1
    BY <1>1, <2>1, <2>2, BacklogIs
  <2>4. Backlog(n) <= sent[n] + (IF Quiet(n) THEN 1 ELSE 0)
    BY DEF DrainInv
  <2>5. Backlog(n)' <= sent'[n] + (IF Quiet(n)' THEN 1 ELSE 0) /\ Backlog(n) <= MaxControl
    <3>1. CASE Quiet(n)
      BY <1>1, <2>1, <2>3, <2>4, <3>1
    <3>2. CASE ~Quiet(n)
      BY <1>1, <2>1, <2>3, <2>4, <3>2
    <3> QED BY <3>1, <3>2
  <2>6. OnAir(n)' => now' <= air'[n].ends /\ air'[n].ends <= now' + a
    BY <1>0 DEF DrainInv, OnAir
  <2>7. ASSUME NEW i \in DOMAIN queue'[n], queue'[n][i].how = "control"
        PROVE  \/ i \in DOMAIN queue[n] /\ queue'[n][i] = queue[n][i]
               \/ i = Len(queue[n]) + 1 /\ queue'[n][i] = f
    <3>1. i \in 1 .. Len(queue[n]) + 1
      BY <2>1, <2>7
    <3> QED BY <2>1, <3>1
  <2>8. ASSUME NEW i \in DOMAIN queue'[n], queue'[n][i].how = "control", Quiet(n)'
        PROVE  now' + AirLeft(n)' + (i - 1) * a
                 <= queue'[n][i].slot + SuperframeUs(Sched) + Oversleep + MaxControl * a
    <3>1. CASE i \in DOMAIN queue[n] /\ queue'[n][i] = queue[n][i]
      BY <1>0, <1>1, <2>8, <3>1 DEF DrainInv
    <3>2. CASE i = Len(queue[n]) + 1 /\ queue'[n][i] = f
      <4> DEFINE l == Len(queue[n])
                 P == l * a
                 M == MaxControl * a
      <4>1. i - 1 = l /\ queue'[n][i].slot = now
        BY <2>1, <3>2
      <4>2. AirLeft(n) \in Nat /\ AirLeft(n) + P <= M /\ P \in Nat
        <5>1. /\ AirLeft(n) \in Nat
              /\ AirLeft(n) + Len(queue[n]) * a <= MaxControl * a
          BY <2>1, <2>5, AheadOf
        <5> QED BY <2>1, <5>1, Airtimes
      <4>3. M \in Nat /\ SuperframeUs(Sched) \in Nat /\ Oversleep \in Nat /\ now \in Nat
        BY ControlRoom, RadioFacts
      <4>4. now' + AirLeft(n)' + (i - 1) * a = now + AirLeft(n) + P
        BY <1>0, <1>1, <4>1
      <4> HIDE DEF P, M
      <4>5. now + AirLeft(n) + P <= now + SuperframeUs(Sched) + Oversleep + M
        BY <4>2, <4>3
      <4> QED BY <4>1, <4>4, <4>5 DEF M
    <3> QED BY <2>7, <2>8, <3>1, <3>2
  <2>9. ASSUME NEW i \in DOMAIN queue'[n], queue'[n][i].how = "control", ~Quiet(n)',
               NEW s \in Sender, NodeOf[s] = n
        PROVE  entry'[s] <= queue'[n][i].slot + Skew[n]
    <3>1. CASE i \in DOMAIN queue[n] /\ queue'[n][i] = queue[n][i]
      BY <1>0, <1>1, <2>9, <3>1 DEF DrainInv
    <3>2. CASE i = Len(queue[n]) + 1 /\ queue'[n][i] = f
      <4>1. entry[s] <= now + Skew[n]
        BY <2>9 DEF AccessInv, TurnInv, Clock
      <4> QED BY <1>0, <2>1, <3>2, <4>1
    <3> QED BY <2>7, <2>9, <3>1, <3>2
  <2> QED BY <2>5, <2>6, <2>8, <2>9 DEF DrainInv
<1> QED BY <1>2, <1>3

(* The head of a queue leaves it for its airtime. *)
LEMMA RadiateDrain ==
  ASSUME NEW a \in Nat, ControlFits(a), MediumTypeOK,
         NEW p \in Node, Radiate(p), NEW n \in Node, DrainInv(n, a)
  PROVE  DrainInv(n, a)'
<1>0. now' = now /\ sent' = sent /\ pc' = pc /\ entry' = entry /\ (Quiet(n)' <=> Quiet(n))
  BY DEF Radiate, vars, callVars, Quiet
<1>1. CASE p # n
  <2>1. queue'[n] = queue[n]
    BY <1>1 DEF Radiate, MediumTypeOK
  <2>2. OnAir(n)' => OnAir(n) /\ air'[n].ends = air[n].ends
    <3>1. CASE ~Sounding(n)
      BY <1>1, <3>1 DEF Radiate, OnAir
    <3>2. CASE Sounding(n)
      <4>1. OnAir(n) /\ air'[n] = [air[n] EXCEPT !.clash = TRUE]
        BY <1>1, <3>2 DEF Radiate, Sounding
      <4>2. air[n] \in [frame : QueuedFrame, ends : Nat, clash : BOOLEAN]
        BY <4>1 DEF OnAir, MediumTypeOK
      <4> QED BY <4>1, <4>2
    <3> QED BY <3>1, <3>2
  <2> QED BY <1>0, <2>1, <2>2, DrainKept
<1>2. CASE p = n
  <2> DEFINE f == Head(queue[n])
             l == Len(queue[n])
  <2>1. /\ queue[n] \in Seq(QueuedFrame) /\ queue[n] # << >> /\ ~OnAir(n)
        /\ queue'[n] = Tail(queue[n]) /\ l \in Nat /\ l # 0 /\ sent[n] \in Nat
        /\ now \in Nat /\ DOMAIN queue[n] = 1 .. l
    BY <1>2, RadioFacts DEF Radiate, MayRadiate, MediumTypeOK
  <2>2. Len(queue'[n]) = l - 1 /\ \A i \in 1 .. l - 1 : queue'[n][i] = queue[n][i + 1]
    BY <2>1
  <2>3. Airtime[f.name] \in Nat /\ Airtime[f.name] <= a
    <3>1. f \in QueuedFrame
      BY <2>1
    <3>2. f.name \in Name
      BY <3>1 DEF QueuedFrame
    <3> QED BY <3>2, Constants DEF ControlFits
  <2>4. air'[n].ends = now + Airtime[f.name]
    BY <1>2 DEF Radiate
  <2>5. OnAir(n)' => now' <= air'[n].ends /\ air'[n].ends <= now' + a
    BY <1>0, <2>1, <2>3, <2>4
  <2>6. AirLeft(n) = 0 /\ AirLeft(n)' \in Nat /\ AirLeft(n)' <= a
    <3>1. AirLeft(n) = 0
      BY <2>1 DEF AirLeft
    <3>2. CASE OnAir(n)'
      <4>1. AirLeft(n)' = air'[n].ends - now'
        BY <3>2 DEF AirLeft
      <4> QED BY <1>0, <2>1, <2>3, <2>4, <3>1, <4>1
    <3>3. CASE ~OnAir(n)'
      BY <3>1, <3>3 DEF AirLeft
    <3> QED BY <3>1, <3>2, <3>3
  <2>7. Backlog(n)' <= sent'[n] + (IF Quiet(n)' THEN 1 ELSE 0)
    <3>1. Backlog(n) <= sent[n] + (IF Quiet(n) THEN 1 ELSE 0)
      BY DEF DrainInv
    <3>2. Backlog(n)' <= Backlog(n) /\ Backlog(n)' \in Nat /\ Backlog(n) \in Nat
      <4>1. Backlog(n) = l + 0
        BY <2>1, BacklogIs
      <4>2. Backlog(n)' = (l - 1) + 1 \/ Backlog(n)' = (l - 1) + 0
        BY <2>2, BacklogIs
      <4> HIDE DEF l
      <4> QED BY <2>1, <4>1, <4>2
    <3>3. CASE Quiet(n)
      BY <1>0, <2>1, <3>1, <3>2, <3>3
    <3>4. CASE ~Quiet(n)
      BY <1>0, <2>1, <3>1, <3>2, <3>4
    <3> QED BY <3>3, <3>4
  <2>8. ASSUME NEW i \in DOMAIN queue'[n], queue'[n][i].how = "control"
        PROVE  /\ i \in 1 .. l - 1 /\ i + 1 \in DOMAIN queue[n]
               /\ queue'[n][i] = queue[n][i + 1]
    <3>1. i \in 1 .. Len(queue'[n])
      BY <2>1, <2>8
    <3> QED BY <2>1, <2>2, <3>1
  <2>9. ASSUME NEW i \in DOMAIN queue'[n], queue'[n][i].how = "control", Quiet(n)'
        PROVE  now' + AirLeft(n)' + (i - 1) * a
                 <= queue'[n][i].slot + SuperframeUs(Sched) + Oversleep + MaxControl * a
    <3> DEFINE c == queue[n][i + 1].slot
               P == (i - 1) * a
               M == MaxControl * a
    <3>1. i \in Nat /\ i - 1 \in Nat /\ c \in Nat /\ queue'[n][i].slot = c
      BY <2>1, <2>8, <2>9, RadioFacts
    <3>2. P \in Nat /\ ((i + 1) - 1) * a = P + a
      <4>1. (i + 1) - 1 = (i - 1) + 1
        BY <3>1
      <4> QED BY <3>1, <4>1, Airtimes
    <3>3. M \in Nat /\ SuperframeUs(Sched) \in Nat /\ Oversleep \in Nat
      BY ControlRoom
    <3>4. now + AirLeft(n) + ((i + 1) - 1) * a <= c + SuperframeUs(Sched) + Oversleep + M
      BY <1>0, <2>8, <2>9 DEF DrainInv
    <3> HIDE DEF c, P, M
    <3>5. now + AirLeft(n) + (P + a) <= c + SuperframeUs(Sched) + Oversleep + M
      BY <3>2, <3>4
    <3>6. now + AirLeft(n)' + P <= c + SuperframeUs(Sched) + Oversleep + M
      BY <2>1, <2>6, <3>1, <3>2, <3>3, <3>5
    <3> QED BY <1>0, <3>1, <3>6 DEF P, M
  <2>10. ASSUME NEW i \in DOMAIN queue'[n], queue'[n][i].how = "control", ~Quiet(n)'
         PROVE  \A s \in Sender : NodeOf[s] = n => entry'[s] <= queue'[n][i].slot + Skew[n]
    BY <1>0, <2>8, <2>10 DEF DrainInv
  <2> QED BY <2>5, <2>7, <2>9, <2>10 DEF DrainInv
<1> QED BY <1>1, <1>2

(* A radio nobody calls is open: with frames queued, it is sending one. *)
LEMMA QuietRadioSends ==
  ASSUME Inv, AccessInv, MediumTick, NEW n \in Node, Quiet(n), queue[n] # << >>
  PROVE  OnAir(n)
<1> SUFFICES ASSUME ~OnAir(n) PROVE FALSE
  OBVIOUS
<1>1. txHold[n]
  BY DEF MediumTick, MayRadiate
<1>2. PICK s \in Sender : NodeOf[s] = n /\ waiting[s]
  BY <1>1 DEF Inv, HoldHasAHolder
<1> QED BY <1>2 DEF AccessInv, WaitsInTheLoop, Quiet

(* Time moves on: what is on the air comes nearer to its end. *)
LEMMA TickDrain ==
  ASSUME NEW a \in Nat, ControlFits(a), MediumTypeOK, Inv, AccessInv, MediumTick,
         NEW n \in Node, DrainInv(n, a)
  PROVE  DrainInv(n, a)'
<1>0. /\ now' = now + 1 /\ queue' = queue /\ air' = air /\ sent' = sent /\ now \in Nat
      /\ pc' = pc /\ entry' = entry /\ (Quiet(n)' <=> Quiet(n)) /\ (OnAir(n)' <=> OnAir(n))
  BY RadioFacts DEF MediumTick, Tick, mediumVars, callVars, Quiet, OnAir
<1>1. OnAir(n) => /\ air[n].ends \in Nat /\ air[n].ends > now /\ air[n].ends <= now + a
  BY RadioFacts DEF MediumTick, DrainInv
<1>2. OnAir(n)' => now' <= air'[n].ends /\ air'[n].ends <= now' + a
  BY <1>0, <1>1
<1>3. Backlog(n)' <= sent'[n] + (IF Quiet(n)' THEN 1 ELSE 0)
  <2>1. Backlog(n)' = Backlog(n)
    BY <1>0 DEF Backlog
  <2>2. Backlog(n) <= sent[n] + (IF Quiet(n) THEN 1 ELSE 0)
    BY DEF DrainInv
  <2>3. CASE Quiet(n)
    BY <1>0, <2>1, <2>2, <2>3
  <2>4. CASE ~Quiet(n)
    BY <1>0, <2>1, <2>2, <2>4
  <2> QED BY <2>3, <2>4
<1>4. ASSUME NEW i \in DOMAIN queue'[n], queue'[n][i].how = "control", Quiet(n)'
      PROVE  now' + AirLeft(n)' + (i - 1) * a
               <= queue'[n][i].slot + SuperframeUs(Sched) + Oversleep + MaxControl * a
  <2> DEFINE P == (i - 1) * a
             M == MaxControl * a
  <2>1. queue[n] # << >>
    BY <1>0, <1>4
  <2>2. OnAir(n)
    BY <1>0, <1>4, <2>1, QuietRadioSends
  <2>3. AirLeft(n) = air[n].ends - now /\ AirLeft(n)' = air[n].ends - (now + 1)
    BY <1>0, <2>2 DEF AirLeft
  <2>4. now + AirLeft(n) = now' + AirLeft(n)'
    BY <1>0, <1>1, <2>2, <2>3
  <2>5. now + AirLeft(n) + P <= queue[n][i].slot + SuperframeUs(Sched) + Oversleep + M
    BY <1>0, <1>4 DEF DrainInv
  <2> QED BY <1>0, <2>4, <2>5
<1>5. ASSUME NEW i \in DOMAIN queue'[n], queue'[n][i].how = "control", ~Quiet(n)'
      PROVE  \A s \in Sender : NodeOf[s] = n => entry'[s] <= queue'[n][i].slot + Skew[n]
  BY <1>0, <1>5 DEF DrainInv
<1> QED BY <1>2, <1>3, <1>4, <1>5 DEF DrainInv

(* Every step keeps the control frames of every radio in time. *)
LEMMA DrainStep ==
  ASSUME NEW a \in Nat, ControlFits(a), MediumTypeOK, Inv, AccessInv, AccessWithinASuperframe,
         DrainsInTime(a), [MediumNext]_allVars
  PROVE  DrainsInTime(a)'
<1> SUFFICES ASSUME NEW n \in Node PROVE DrainInv(n, a)'
  BY DEF DrainsInTime
<1>0. DrainInv(n, a)
  BY DEF DrainsInTime
<1>1. ASSUME NEW s \in Sender, GateStep(s) PROVE DrainInv(n, a)'
  BY <1>0, <1>1, GateStepDrain
<1>2. ASSUME NEW s \in Sender, Enqueue(s) PROVE DrainInv(n, a)'
  BY <1>0, <1>2, EnqueueDrain
<1>3. ASSUME NEW p \in Node, NEW m \in Control, SendRobust(p, m) PROVE DrainInv(n, a)'
  BY <1>0, <1>3, SendRobustDrain
<1>4. ASSUME NEW p \in Node, Radiate(p) PROVE DrainInv(n, a)'
  BY <1>0, <1>4, RadiateDrain
<1>5. ASSUME NEW p \in Node, Land(p) PROVE DrainInv(n, a)'
  <2>1. /\ now' = now /\ pc' = pc /\ entry' = entry /\ queue' = queue /\ sent' = sent
        /\ OnAir(n)' => OnAir(n) /\ air'[n] = air[n]
    BY <1>5 DEF Land, vars, callVars, MediumTypeOK, OnAir
  <2> QED BY <1>0, <2>1, DrainKept DEF Quiet
<1>6. ASSUME UNCHANGED <<now, pc, entry, queue, air, sent>> PROVE DrainInv(n, a)'
  BY <1>0, <1>6, DrainKept DEF Quiet, OnAir
<1>7. ASSUME NEW p \in Node, NEW q \in Node, NEW m \in Audible, Hear(p, q, m)
      PROVE  DrainInv(n, a)'
  BY <1>6, <1>7 DEF Hear, ObserveRx, callVars
<1>8. MediumTick => DrainInv(n, a)'
  BY <1>0, TickDrain
<1>9. MediumEnds \/ UNCHANGED allVars => DrainInv(n, a)'
  BY <1>6 DEF MediumEnds, Horizon, allVars, mediumVars, vars, callVars
<1> QED BY <1>1, <1>2, <1>3, <1>4, <1>5, <1>7, <1>8, <1>9 DEF MediumNext

(* No radio has anything to send at the start. *)
LEMMA DrainInit ==
  ASSUME NEW a \in Nat, MediumInit
  PROVE  DrainsInTime(a)
<1> SUFFICES ASSUME NEW n \in Node PROVE DrainInv(n, a)
  BY DEF DrainsInTime
<1>1. queue[n] = << >> /\ ~OnAir(n) /\ sent[n] = 0 /\ Quiet(n)
  BY Constants DEF MediumInit, Init, OnAir, Quiet
<1>2. Backlog(n) = 0 /\ DOMAIN queue[n] = {}
  BY <1>1, BacklogIs
<1> QED BY <1>1, <1>2 DEF DrainInv

(***************************************************************************)
(* A control frame leaves the queue of its radio within a superframe and a *)
(* slot, whatever the gate of the node waits for: with one call per radio, *)
(* offered when the radio is empty, and slots with room for the control    *)
(* frames of a node (of airtime a at most) and for a late sleep.           *)
(***************************************************************************)
THEOREM ControlIsNotStarved ==
  ASSUME NEW a \in Nat, ControlFits(a)
  PROVE  MediumSpec => []ControlLeavesInASuperframe
<1>0. RoomToSpare
  BY DEF ControlFits
<1>1. ASSUME MediumTypeOK, AccessWithinASuperframe, DrainsInTime(a)
      PROVE  ControlLeavesInASuperframe
  <2> SUFFICES ASSUME NEW n \in Node, NEW i \in DOMAIN queue[n], queue[n][i].how = "control"
               PROVE  now - queue[n][i].slot <= SuperframeUs(Sched) + Sched.slot_us
    BY DEF ControlLeavesInASuperframe
  <2> DEFINE c == queue[n][i].slot
             P == (i - 1) * a
             M == MaxControl * a
  <2>0. DrainInv(n, a)
    BY <1>1 DEF DrainsInTime
  <2>1. c \in Nat /\ now \in Nat /\ Skew[n] \in Nat /\ i - 1 \in Nat
    BY <1>1, RadioFacts
  <2>2. /\ M \in Nat /\ Oversleep \in Nat /\ Sched.slot_us \in Nat /\ SuperframeUs(Sched) \in Nat
        /\ Slack = Oversleep /\ Oversleep + M <= Sched.slot_us
    BY ControlRoom
  <2>3. CASE Quiet(n)
    <3>1. P \in Nat
      BY <2>1, Airtimes
    <3>2. AirLeft(n) \in Nat
      BY <1>1, <2>0, RadioFacts DEF DrainInv, AirLeft
    <3>3. now + AirLeft(n) + P <= c + SuperframeUs(Sched) + Oversleep + M
      BY <2>0, <2>3 DEF DrainInv
    <3> HIDE DEF c, P, M
    <3>4. now <= c + SuperframeUs(Sched) + Sched.slot_us
      BY <2>1, <2>2, <3>1, <3>2, <3>3
    <3> QED BY <2>1, <2>2, <3>4 DEF c
  <2>4. CASE ~Quiet(n)
    <3>1. PICK s \in Sender : NodeOf[s] = n /\ pc[s] # "idle"
      BY <2>4 DEF Quiet
    <3>2. entry[s] <= c + Skew[n] /\ entry[s] \in Nat
      BY <1>1, <2>0, <2>4, <3>1 DEF DrainInv, MediumTypeOK, TypeOK
    <3>3. Clock(n) - entry[s] <= SuperframeUs(Sched) + Slack /\ Clock(n) = now + Skew[n]
      BY <1>1, <3>1 DEF AccessWithinASuperframe, Clock
    <3> HIDE DEF c, M
    <3> QED BY <2>1, <2>2, <3>2, <3>3 DEF c
  <2> QED BY <2>3, <2>4
<1>2. ASSUME MediumInit PROVE DrainsInTime(a)
  BY <1>2, DrainInit
<1>3. MediumTypeOK /\ Inv /\ AccessInv /\ AccessWithinASuperframe /\ DrainsInTime(a)
        /\ [MediumNext]_allVars => DrainsInTime(a)'
  BY DrainStep
<1>4. MediumSpec => []AccessInv /\ []AccessWithinASuperframe /\ []Inv /\ []MediumTypeOK
  <2>1. MediumSpec => []AccessInv
    BY <1>0, MediumTakesGateSteps, TurnsAreTaken, PTL
  <2>2. MediumSpec => []AccessWithinASuperframe
    BY <1>0, MediumTakesGateSteps, AccessIsBounded, PTL
  <2>3. Inv /\ [MediumNext]_allVars => Inv'
    BY MediumStepRefines, NextInv
  <2>4. MediumSpec => []Inv
    BY <2>3, MediumInitInv, PTL DEF MediumSpec
  <2> QED BY <2>1, <2>2, <2>4, MediumTypeCorrect, PTL
<1>5. MediumSpec => []DrainsInTime(a)
  BY <1>2, <1>3, <1>4, PTL DEF MediumSpec
<1> QED BY <1>1, <1>4, <1>5, PTL

===========================================================================
