----------------------------- MODULE SlotGate -----------------------------
(***************************************************************************)
(* The software transmit gate of the Wi-Fi scheduler (FaceScheduler::gate, *)
(* try_claim, hold_status, observe_rx, retune and TxHoldGuard in sched.rs).*)
(*                                                                         *)
(* Every Sender is one concurrent call of gate on the scheduler of its     *)
(* Node.  A call runs from one await to the next in zero time; what takes  *)
(* time is sleeping, which may end up to Oversleep ticks late, and a       *)
(* retune.  Between two steps of a call any other call of the node may     *)
(* run and any frame may be overheard.                                     *)
(*                                                                         *)
(* now is the common time; node n reads it as now + Skew[n].               *)
(***************************************************************************)
EXTENDS SlotSchedule, Sequences

CONSTANTS
  Node,          \* schedulers, one per radio face
  Sender,        \* concurrent gate calls
  NodeOf,        \* the scheduler a call runs on
  Name,          \* name-groups
  Class,         \* the lease class the group table gives a name-group
  Airtime,       \* ticks a frame of the group occupies the medium
  RawHash,       \* the hash of a name-group, before the medium is mixed in
  KeyedHash,     \* medium_keyed: the hash of a name-group on a channel
  Sends,         \* the name-groups a call may be offered frames of
  Audible,       \* the name-groups whose frames may be overheard
  Nonces,        \* the presence nonces overheard frames may carry (0: none)
  Sched,         \* the slot schedule
  Claimable,     \* NDN_SCHED_CLAIM
  ClaimUnknown,  \* NDN_SCHED_CLAIM_UNKNOWN
  LeaseMax,      \* NDN_SCHED_LEASE
  Channel0,      \* the channel the radio sits on at start
  HopClasses,    \* the channels hopped over; <<>> when no hop is configured
  Dwell,         \* ticks per hop
  RetuneUs,      \* ticks a set_channel call takes
  Oversleep,     \* ticks a sleep may end late
  Skew,          \* clock error of a node
  MaxTime        \* bound: the common time at which the model stops

Channels == {Channel0} \cup {HopClasses[i] : i \in DOMAIN HopClasses}

ASSUME GateAssumption ==
  /\ Name # {}
  /\ NodeOf \in [Sender -> Node]
  /\ Class \in [Name -> LeaseClass]
  /\ Airtime \in [Name -> Nat \ {0}]
  /\ RawHash \in [Name -> Nat]
  /\ KeyedHash \in [Name -> [Channels -> Nat]]
  /\ Sends \in [Sender -> SUBSET Name]
  /\ Audible \subseteq Name
  /\ Nonces \subseteq Nat
  /\ Sched \in Schedules
  /\ Claimable \in BOOLEAN /\ ClaimUnknown \in BOOLEAN
  /\ LeaseMax \in Nat
  /\ Channel0 \in Nat /\ HopClasses \in Seq(Nat)
  /\ Dwell \in Nat \ {0}
  /\ RetuneUs \in Nat /\ Oversleep \in Nat /\ MaxTime \in Nat
  /\ Skew \in [Node -> Nat]

VARIABLES
  now,         \* the common time
  lastRx,      \* last_domain_rx, floored to the start of its slot
  seen,        \* SlotState: the fresh sighting of each slot
  holdStart,   \* hold_slot_start: the slot a claim was won in
  leaseUntil,  \* lease_until
  curCh,       \* current_ch
  txHold,      \* the radio's transmit hold (set_tx_hold)
  pc,          \* where a call is
  frame,       \* the name-group of the frame it carries
  entry,       \* the instant gate read at entry
  key,         \* the frame's medium-keyed hash
  slotAt,      \* the slot start the current decision was made in
  wake,        \* the instant the current sleep is due to end
  waiting,     \* the call has deferred and holds a TxHoldGuard
  how,         \* what granted the frame
  yielded      \* the slot the call lost a shared-slot backoff in

nodeVars == <<lastRx, seen, holdStart, leaseUntil, curCh, txHold>>
callVars == <<pc, frame, entry, key, slotAt, wake, waiting, how, yielded>>
vars     == <<now, nodeVars, callVars>>

NoFrame == CHOOSE m \in Name : TRUE  \* what an idle call is said to carry

Never == -1  \* u64::MAX in hold_slot_start, and no slot in yielded

Asleep    == {"retune", "backoff", "elect", "sleep"}
Running   == {"owner", "contend", "loop", "granted"}
GrantKind == {"none", "owner", "turn", "claim", "hold"}

NoSighting == [key |-> Never, nonce |-> Never]
Sighting   == [key : Nat, nonce : Nonces]

Clock(n) == now + Skew[n]

---------------------------------------------------------------------------
(* What the scheduler of node n computes. *)

Hops == HopClasses # << >>

(* HopSchedule::channel *)
HopChannel(m, t) == HopClasses[1 + ((RawHash[m] + (t \div Dwell)) % Len(HopClasses))]

Keyed(n, m) == KeyedHash[m][curCh[n]]

(* The shared evidence cell of a name-group heard by n. *)
CellOf(n, m) == OwnerSlotIn(Sched, Keyed(n, m), Class[m])

(* The draw of cclf_jitter_us: its value is a hash, its range is the window. *)
Window(a) ==
  LET half == AtLeastOne(Sched.slot_us \div 2)
  IN  IF 8 * a >= half THEN half ELSE 8 * a

Jitters(a) == 1 .. AtLeastOne(Window(a) - 1)

(***************************************************************************)
(* owner_in_range: slot k has a fresh sighting, whose transmitter is       *)
(* unknown or evidences no other slot (a relay or multi-group node).       *)
(***************************************************************************)
OwnerInRange(n, k) ==
  /\ seen[n][k] # NoSighting
  /\ \/ seen[n][k].nonce = 0
     \/ \A j \in SlotsOf(Sched) \ {k} : seen[n][j].nonce # seen[n][k].nonce

(* co_owner_evident: another group was heard in the slot this hash owns. *)
CoOwnerEvident(n, h, class) ==
  LET witness == seen[n][OwnerSlotIn(Sched, h, class)].key
  IN  witness > 0 /\ witness # h

(* hold_status *)
Holding(n, t) ==
  holdStart[n] # Never /\ t < leaseUntil[n] 

(* Faulty variant: keeps a hold over a slot its owner has spoken in. *)
HoldContinuesDeaf(n, t, a) ==
  /\ Holding(n, t)
  /\ ~IsReserved(Sched, CurrentSlot(Sched, t))
  /\ FitsNow(Sched, t, a)

HoldContinues(n, t, a) ==
  /\ Holding(n, t)
  /\ lastRx[n] < SlotStart(Sched, t)
  /\ ~IsReserved(Sched, CurrentSlot(Sched, t))
  /\ FitsNow(Sched, t, a)

HoldWaits(n, t, a) ==
  /\ Holding(n, t)
  /\ lastRx[n] < SlotStart(Sched, t)
  /\ ~IsReserved(Sched, CurrentSlot(Sched, t))
  /\ ~FitsNow(Sched, t, a)
  /\ SlotStart(Sched, t) + Sched.slot_us < leaseUntil[n]

HoldEnds(n, t, a) ==
  Holding(n, t) /\ ~HoldContinues(n, t, a) /\ ~HoldWaits(n, t, a)

(* Faulty variant: contends for a reserved lane. *)
MayContendInLanes(n, class, t) == Claimable /\ class = Bulk

(* The early returns of try_claim. *)
MayContend(n, class, t) ==
  /\ Claimable
  /\ class = Bulk
  /\ ~IsReserved(Sched, CurrentSlot(Sched, t))

(* Faulty variant: elects without room for the draw and the frame. *)
MayElectWithoutRoom(n, h, t, a, j) ==
  /\ OwnerInRange(n, CurrentSlot(Sched, t)) \/ ClaimUnknown
  /\ lastRx[n] < SlotStart(Sched, t)
  /\ WaitUsIn(Sched, h, Bulk, t) > Sched.slot_us

(* The conditions of a fresh election with a draw of j. *)
MayElect(n, h, t, a, j) ==
  /\ OwnerInRange(n, CurrentSlot(Sched, t)) \/ ClaimUnknown
  /\ lastRx[n] < SlotStart(Sched, t)
  /\ WaitUsIn(Sched, h, Bulk, t) > Sched.slot_us
  /\ SlotRemaining(Sched, t) > j + a

---------------------------------------------------------------------------
Init ==
  /\ now = 0
  /\ lastRx     = [n \in Node |-> 0]
  /\ seen       = [n \in Node |-> [k \in SlotsOf(Sched) |-> NoSighting]]
  /\ holdStart  = [n \in Node |-> Never]
  /\ leaseUntil = [n \in Node |-> 0]
  /\ curCh      = [n \in Node |-> Channel0]
  /\ txHold     = [n \in Node |-> FALSE]
  /\ pc      = [s \in Sender |-> "idle"]
  /\ frame   = [s \in Sender |-> NoFrame]
  /\ entry   = [s \in Sender |-> 0]
  /\ key     = [s \in Sender |-> 0]
  /\ slotAt  = [s \in Sender |-> 0]
  /\ wake    = [s \in Sender |-> 0]
  /\ waiting = [s \in Sender |-> FALSE]
  /\ how     = [s \in Sender |-> "none"]
  /\ yielded = [s \in Sender |-> Never]

---------------------------------------------------------------------------
(* Steps shared by several branches of gate. *)

Goto(s, place) == pc' = [pc EXCEPT ![s] = place]

SleepFor(s, place, d) ==
  /\ Goto(s, place)
  /\ wake' = [wake EXCEPT ![s] = now + d]

(* Faulty variant: returns without dropping the guard. *)
GrantLeakingTheHold(s, kind, start) ==
  /\ Goto(s, "granted")
  /\ how'     = [how EXCEPT ![s] = kind]
  /\ slotAt'  = [slotAt EXCEPT ![s] = start]
  /\ waiting' = [waiting EXCEPT ![s] = FALSE]
  /\ UNCHANGED <<wake, txHold>>

(* gate returns: the guard, if there is one, drops and reopens the radio. *)
Grant(s, kind, start) ==
  LET n == NodeOf[s] IN
  /\ Goto(s, "granted")
  /\ how'     = [how EXCEPT ![s] = kind]
  /\ slotAt'  = [slotAt EXCEPT ![s] = start]
  /\ waiting' = [waiting EXCEPT ![s] = FALSE]
  /\ txHold'  = [txHold EXCEPT ![n] = @ /\ ~waiting[s]]
  /\ UNCHANGED wake

(* Faulty variant: sleeps a whole slot, so it never wakes at a boundary. *)
DeclinedForASlot(s) ==
  LET n == NodeOf[s] IN
  /\ IF waiting[s]
     THEN SleepFor(s, "sleep", Sched.slot_us) /\ UNCHANGED <<waiting, txHold>>
     ELSE /\ Goto(s, "loop")
          /\ waiting' = [waiting EXCEPT ![s] = TRUE]
          /\ txHold'  = [txHold EXCEPT ![n] = TRUE]
          /\ UNCHANGED wake
  /\ UNCHANGED <<slotAt, how>>

(***************************************************************************)
(* try_claim declined.  The first time the call defers: it closes the      *)
(* radio and enters the wait loop; in the loop it sleeps to the boundary.  *)
(***************************************************************************)
Declined(s) ==
  LET n == NodeOf[s] IN
  /\ IF waiting[s]
     THEN SleepFor(s, "sleep", SlotRemaining(Sched, Clock(n))) /\ UNCHANGED <<waiting, txHold>>
     ELSE /\ Goto(s, "loop")
          /\ waiting' = [waiting EXCEPT ![s] = TRUE]
          /\ txHold'  = [txHold EXCEPT ![n] = TRUE]
          /\ UNCHANGED wake
  /\ UNCHANGED <<slotAt, how>>

---------------------------------------------------------------------------
(* The steps of one call. *)

(* gate is entered with a frame of group m and, with hopping, retunes first. *)
Offer(s, m) ==
  LET n == NodeOf[s]
      t == Clock(n)
  IN
  /\ pc[s] = "idle"
  /\ frame' = [frame EXCEPT ![s] = m]
  /\ entry' = [entry EXCEPT ![s] = t]
  /\ IF Hops /\ HopChannel(m, t) # curCh[n]
     THEN SleepFor(s, "retune", RetuneUs)
     ELSE Goto(s, "owner") /\ UNCHANGED wake
  /\ UNCHANGED <<now, nodeVars, key, slotAt, waiting, how, yielded>>

Retuned(s) ==
  LET n == NodeOf[s] IN
  /\ pc[s] = "retune" /\ now >= wake[s]
  /\ curCh' = [curCh EXCEPT ![n] = HopChannel(frame[s], entry[s])]
  /\ Goto(s, "owner")
  /\ UNCHANGED <<now, lastRx, seen, holdStart, leaseUntil, txHold,
                 frame, entry, key, slotAt, wake, waiting, how, yielded>>

(***************************************************************************)
(* The owner path.  Every test reads the instant gate read at entry, even  *)
(* after a retune.  A locally evident co-owner buys a backoff, if there is *)
(* room for one.                                                           *)
(***************************************************************************)
OwnerTest(s) ==
  LET n == NodeOf[s]
      m == frame[s]
      t == entry[s]
      h == Keyed(n, m)
      a == Airtime[m]
      start == SlotStart(Sched, t)
      mine  == OwnsNowIn(Sched, h, Class[m], t) /\ FitsNow(Sched, t, a)
      room(j) == SlotRemaining(Sched, t) > j + a
  IN
  /\ pc[s] = "owner"
  /\ key' = [key EXCEPT ![s] = h]
  /\ \/ /\ mine
        /\ ~CoOwnerEvident(n, h, Class[m]) \/ \E j \in Jitters(a) : ~room(j)
        /\ Grant(s, "owner", start)
     \/ /\ mine
        /\ CoOwnerEvident(n, h, Class[m])
        /\ \E j \in Jitters(a) : room(j) /\ SleepFor(s, "backoff", j)
        /\ slotAt' = [slotAt EXCEPT ![s] = start]
        /\ UNCHANGED <<waiting, how, txHold>>
     \/ /\ ~mine
        /\ Goto(s, "contend")
        /\ UNCHANGED <<wake, slotAt, waiting, how, txHold>>
  /\ UNCHANGED <<now, lastRx, seen, holdStart, leaseUntil, curCh, frame, entry, yielded>>

(* The draw is over: the turn is taken if nothing was heard, else lost. *)
BackoffEnds(s) ==
  LET n == NodeOf[s] IN
  /\ pc[s] = "backoff" /\ now >= wake[s]
  /\ \/ /\ lastRx[n] < slotAt[s]
        /\ Grant(s, "turn", slotAt[s])
        /\ UNCHANGED yielded
     \/ /\ lastRx[n] >= slotAt[s]
        /\ Goto(s, "contend")
        /\ yielded' = [yielded EXCEPT ![s] = slotAt[s]]
        /\ UNCHANGED <<wake, slotAt, waiting, how, txHold>>
  /\ UNCHANGED <<now, lastRx, seen, holdStart, leaseUntil, curCh, frame, entry, key>>

(* try_claim up to its sleep: continue a hold, start an election, or decline. *)
Contend(s) ==
  LET n == NodeOf[s]
      t == Clock(n)
      h == key[s]
      a == Airtime[frame[s]]
      start == SlotStart(Sched, t)
      may   == MayContend(n, Class[frame[s]], t)
      elect(j) == MayElect(n, h, t, a, j)
  IN
  /\ pc[s] = "contend"
  /\ IF may /\ HoldEnds(n, t, a)
     THEN /\ holdStart'  = [holdStart EXCEPT ![n] = Never]
          /\ leaseUntil' = [leaseUntil EXCEPT ![n] = 0]
     ELSE UNCHANGED <<holdStart, leaseUntil>>
  /\ \/ /\ may /\ HoldContinues(n, t, a)
        /\ Grant(s, "hold", start)
     \/ /\ may /\ ~HoldContinues(n, t, a) /\ ~HoldWaits(n, t, a)
        /\ \E j \in Jitters(a) : elect(j) /\ SleepFor(s, "elect", j)
        /\ slotAt' = [slotAt EXCEPT ![s] = start]
        /\ UNCHANGED <<waiting, how, txHold>>
     \/ /\ \/ ~may
           \/ HoldWaits(n, t, a)
           \/ ~HoldContinues(n, t, a) /\ \E j \in Jitters(a) : ~elect(j)
        /\ Declined(s)
  /\ UNCHANGED <<now, lastRx, seen, curCh, frame, entry, key, yielded>>

(* The election is over: won if the slot stayed idle, which takes a lease. *)
ElectionEnds(s) ==
  LET n == NodeOf[s] IN
  /\ pc[s] = "elect" /\ now >= wake[s]
  /\ \/ /\ lastRx[n] >= slotAt[s]
        /\ Declined(s)
        /\ UNCHANGED <<holdStart, leaseUntil>>
     \/ /\ lastRx[n] < slotAt[s]
        /\ holdStart'  = [holdStart EXCEPT ![n] = slotAt[s]]
        /\ leaseUntil' = [leaseUntil EXCEPT ![n] = LeaseDeadline(Sched, slotAt[s], Bulk, LeaseMax)]
        /\ Grant(s, "claim", slotAt[s])
  /\ UNCHANGED <<now, lastRx, seen, curCh, frame, entry, key, yielded>>

(* The top of the wait loop, at every slot boundary. *)
LoopTest(s) ==
  LET n == NodeOf[s]
      t == Clock(n)
      m == frame[s]
      mine == OwnsNowIn(Sched, key[s], Class[m], t) /\ FitsNow(Sched, t, Airtime[m])
  IN
  /\ pc[s] = "loop"
  /\ IF mine
     THEN Grant(s, "owner", SlotStart(Sched, t))
     ELSE Goto(s, "contend") /\ UNCHANGED <<wake, slotAt, waiting, how, txHold>>
  /\ UNCHANGED <<now, lastRx, seen, holdStart, leaseUntil, curCh, frame, entry, key, yielded>>

Awake(s) ==
  /\ pc[s] = "sleep" /\ now >= wake[s]
  /\ Goto(s, "loop")
  /\ UNCHANGED <<now, nodeVars, frame, entry, key, slotAt, wake, waiting, how, yielded>>

(* gate has returned and the caller injects the frame; the call is over. *)
Inject(s) ==
  /\ pc[s] = "granted"
  /\ Goto(s, "idle")
  /\ frame'   = [frame EXCEPT ![s] = NoFrame]
  /\ entry'   = [entry EXCEPT ![s] = 0]
  /\ key'     = [key EXCEPT ![s] = 0]
  /\ slotAt'  = [slotAt EXCEPT ![s] = 0]
  /\ wake'    = [wake EXCEPT ![s] = 0]
  /\ how'     = [how EXCEPT ![s] = "none"]
  /\ yielded' = [yielded EXCEPT ![s] = Never]
  /\ UNCHANGED <<now, nodeVars, waiting>>

---------------------------------------------------------------------------
(* The environment of the calls. *)

(* Faulty variant: marks the slot before the one the frame was heard in. *)
ObserveRxTheSlotBefore(n, m, x) ==
  /\ lastRx' = [lastRx EXCEPT ![n] = SlotStart(Sched, Clock(n)) - Sched.slot_us]
  /\ seen'   = [seen EXCEPT ![n][CellOf(n, m)] = [key |-> Keyed(n, m), nonce |-> x]]
  /\ UNCHANGED <<now, holdStart, leaseUntil, curCh, txHold, callVars>>

(* observe_rx of a frame that parses to group m, with presence nonce x. *)
ObserveRx(n, m, x) ==
  /\ lastRx' = [lastRx EXCEPT ![n] = SlotStart(Sched, Clock(n))]
  /\ seen'   = [seen EXCEPT ![n][CellOf(n, m)] = [key |-> Keyed(n, m), nonce |-> x]]
  /\ UNCHANGED <<now, holdStart, leaseUntil, curCh, txHold, callVars>>

(* A sighting leaves the presence window. *)
Forget(n, k) ==
  /\ seen[n][k] # NoSighting
  /\ seen' = [seen EXCEPT ![n][k] = NoSighting]
  /\ UNCHANGED <<now, lastRx, holdStart, leaseUntil, curCh, txHold, callVars>>

(* Time passes only when no call can run and no sleep is overdue. *)
MayTick ==
  /\ now < MaxTime
  /\ \A s \in Sender :
       \/ pc[s] = "idle"
       \/ pc[s] \in Asleep /\ now < wake[s] + Oversleep

Tick ==
  /\ MayTick
  /\ now' = now + 1
  /\ UNCHANGED <<nodeVars, callVars>>

(* The end of the modelled stretch of time. *)
Horizon == now = MaxTime /\ UNCHANGED vars

CallStep(s) ==
  \/ \E m \in Sends[s] : Offer(s, m)
  \/ Retuned(s)
  \/ OwnerTest(s)
  \/ BackoffEnds(s)
  \/ Contend(s)
  \/ ElectionEnds(s)
  \/ LoopTest(s)
  \/ Awake(s)
  \/ Inject(s)

Next ==
  \/ \E s \in Sender : CallStep(s)
  \/ \E n \in Node, m \in Audible, x \in Nonces : ObserveRx(n, m, x)
  \/ \E n \in Node, k \in SlotsOf(Sched) : Forget(n, k)
  \/ Tick
  \/ Horizon

Spec == Init /\ [][Next]_vars

---------------------------------------------------------------------------
(* TypeOK: the state of the schedulers and of the calls. *)
TypeOK ==
  /\ now \in Nat
  /\ lastRx     \in [Node -> Nat]
  /\ seen       \in [Node -> [SlotsOf(Sched) -> Sighting \cup {NoSighting}]]
  /\ holdStart  \in [Node -> Nat \cup {Never}]
  /\ leaseUntil \in [Node -> Nat]
  /\ curCh      \in [Node -> Channels]
  /\ txHold     \in [Node -> BOOLEAN]
  /\ pc      \in [Sender -> {"idle"} \cup Asleep \cup Running]
  /\ frame   \in [Sender -> Name]
  /\ entry   \in [Sender -> Nat]
  /\ key     \in [Sender -> Nat]
  /\ slotAt  \in [Sender -> Nat]
  /\ wake    \in [Sender -> Nat]
  /\ waiting \in [Sender -> BOOLEAN]
  /\ how     \in [Sender -> GrantKind]
  /\ yielded \in [Sender -> Nat \cup {Never}]

Granted(s, kinds) == pc[s] = "granted" /\ how[s] \in kinds

(* How old the instant the owner path decides with may be. *)
HopSlack == IF Hops THEN RetuneUs + Oversleep ELSE 0

(* How far behind the decision that grants it a frame may be injected. *)
Slack == HopSlack + Oversleep

(***************************************************************************)
(* A granted frame starts no earlier than the slot it was decided in and   *)
(* is off the air no later than Slack after that slot: exactly within the  *)
(* slot when sleeps are punctual and nothing retunes.  The bleed into the  *)
(* next owner's turn that fits_now exists to prevent is never worse than   *)
(* the lateness of one sleep and the length of one retune.                 *)
(***************************************************************************)
EndsWithItsSlot(s) ==
  pc[s] = "granted" =>
    /\ slotAt[s] <= Clock(NodeOf[s])
    /\ Clock(NodeOf[s]) + Airtime[frame[s]] <= slotAt[s] + Sched.slot_us + Slack

GrantEndsWithItsSlot == \A s \in Sender : EndsWithItsSlot(s)

(***************************************************************************)
(* An owner transmits in its own slot and a guest, a bulk frame that won   *)
(* or continues a claim, never in a reserved lane: judged by the slot the  *)
(* decision was made in, under every interleaving of the calls.            *)
(***************************************************************************)
DecidedInARightfulSlot(s) ==
  /\ Granted(s, {"owner", "turn"}) =>
       OwnsNowIn(Sched, key[s], Class[frame[s]], slotAt[s])
  /\ Granted(s, {"claim", "hold"}) =>
       Class[frame[s]] = Bulk /\ ~IsReserved(Sched, CurrentSlot(Sched, slotAt[s]))

GrantDecidedInARightfulSlot == \A s \in Sender : DecidedInARightfulSlot(s)

(***************************************************************************)
(* Lanes are inviolate: a bulk frame that claims, or continues a claim, is *)
(* never injected in a reserved lane, idle or not.                         *)
(***************************************************************************)
GuestsKeepOffLanes ==
  \A s \in Sender : Granted(s, {"claim", "hold"}) =>
    ~IsReserved(Sched, CurrentSlot(Sched, Clock(NodeOf[s])))

(***************************************************************************)
(* The slot a frame is really injected in is its owner's own, or no lane   *)
(* if it is a guest: the promise made to the other owners.  It needs       *)
(* punctual sleeps and no retune (see the runs).                           *)
(***************************************************************************)
GrantInARightfulSlot ==
  /\ \A s \in Sender : Granted(s, {"owner", "turn"}) =>
       OwnsNowIn(Sched, key[s], Class[frame[s]], Clock(NodeOf[s]))
  /\ GuestsKeepOffLanes

(***************************************************************************)
(* A lease on record starts at a slot boundary, covers at most LeaseMax    *)
(* base slots and none of them is a reserved lane, whichever calls won and *)
(* overwrote it and however late their sleeps ended.                       *)
(***************************************************************************)
LeaseAvoidsLanes ==
  \A n \in Node : holdStart[n] # Never =>
    /\ leaseUntil[n] <= holdStart[n] + AtLeastOne(LeaseMax) * Sched.slot_us
    /\ \A t \in holdStart[n] .. leaseUntil[n] - 1 : ~IsReserved(Sched, CurrentSlot(Sched, t))

(***************************************************************************)
(* The owner-return contract: once a frame of the domain has been          *)
(* overheard in a slot, this node grants no guest frame decided in that    *)
(* slot, whether through a running election or through a lease it holds.   *)
(***************************************************************************)
GuestYields(s) ==
  (pc[s] # "granted" /\ pc'[s] = "granted" /\ how'[s] \in {"claim", "hold"})
    => lastRx[NodeOf[s]] < slotAt'[s]

GuestsYieldToWhatTheyHear == [][\A s \in Sender : GuestYields(s)]_vars

(***************************************************************************)
(* The radio is never left closed: while the transmit hold is set some     *)
(* call of the node is waiting to release it.  The failure mode TxHoldGuard*)
(* names is a radio that never transmits again.                            *)
(***************************************************************************)
HoldHasAHolder ==
  \A n \in Node : txHold[n] => \E s \in Sender : NodeOf[s] = n /\ waiting[s]

(***************************************************************************)
(* Bounded access: a call never waits longer than one superframe from the  *)
(* moment its frame was offered, whatever is overheard and whoever else    *)
(* contends.  It needs a slot that holds the frame with Oversleep to spare.*)
(* This holds for latency groups too, and for them nothing shorter does    *)
(* when there is more than one lane: see LatencyWithinTheStride.           *)
(***************************************************************************)
AccessWithinASuperframe ==
  \A s \in Sender : pc[s] # "idle" =>
    Clock(NodeOf[s]) - entry[s] <= SuperframeUs(Sched) + Slack

(***************************************************************************)
(* The access bound documented for a latency group: its lane comes round   *)
(* within one stride (urgent_access_bound_us, and try_claim on why such a  *)
(* group never contends).  A group owns one lane of several, so the code   *)
(* keeps the promise only where the stride spans the superframe.           *)
(***************************************************************************)
LatencyWithinTheStride ==
  \A s \in Sender :
    pc[s] # "idle" /\ Class[frame[s]] = Latency /\ Sched.reserved_stride >= 2 =>
      Clock(NodeOf[s]) - entry[s] <= UrgentAccessBound(Sched) + Slack

(***************************************************************************)
(* A call that lost a shared-slot backoff is documented to yield this      *)
(* turn: its frame is not granted in the slot it lost.                     *)
(***************************************************************************)
LoserYieldsTheTurn ==
  \A s \in Sender : pc[s] = "granted" /\ yielded[s] # Never =>
    SlotStart(Sched, Clock(NodeOf[s])) # yielded[s]

---------------------------------------------------------------------------
(* The inductive invariant behind the safety properties. *)

(* A retune started when the call was offered and is at most Oversleep late. *)
RetuneInv(s) ==
  pc[s] = "retune" =>
    /\ Hops
    /\ wake[s] + Skew[NodeOf[s]] = entry[s] + RetuneUs
    /\ entry[s] <= Clock(NodeOf[s])
    /\ now <= wake[s] + Oversleep

(* The owner path decides with an instant at most HopSlack old. *)
OwnerInv(s) ==
  pc[s] = "owner" =>
    /\ entry[s] <= Clock(NodeOf[s])
    /\ Clock(NodeOf[s]) <= entry[s] + HopSlack

(***************************************************************************)
(* The draw of a backoff or an election was made in a slot that begins at  *)
(* slotAt, leaves room in it for the frame and is at most Oversleep late.  *)
(***************************************************************************)
DrawInv(s) ==
  pc[s] \in {"backoff", "elect"} =>
    /\ SlotStart(Sched, slotAt[s]) = slotAt[s]
    /\ slotAt[s] <= Clock(NodeOf[s])
    /\ wake[s] + Skew[NodeOf[s]] + Airtime[frame[s]] < slotAt[s] + Sched.slot_us + HopSlack
    /\ now <= wake[s] + Oversleep

(* A backoff is for the caller's own slot, an election for an open slot. *)
RightInv(s) ==
  /\ pc[s] = "backoff" => OwnsNowIn(Sched, key[s], Class[frame[s]], slotAt[s])
  /\ pc[s] = "elect" =>
       Class[frame[s]] = Bulk /\ ~IsReserved(Sched, CurrentSlot(Sched, slotAt[s]))

(* A grant remembers its slot by the instant that begins it. *)
StartInv(s) == pc[s] = "granted" => SlotStart(Sched, slotAt[s]) = slotAt[s]

(***************************************************************************)
(* GateInv: every step of the gate keeps what each kind of sleep relies on *)
(* (see the five parts), the grants it leads to, and the hold it may take. *)
(***************************************************************************)
GateInv ==
  /\ TypeOK
  /\ \A s \in Sender : RetuneInv(s) /\ OwnerInv(s) /\ DrawInv(s) /\ RightInv(s) /\ StartInv(s)
  /\ GrantEndsWithItsSlot
  /\ GrantDecidedInARightfulSlot
  /\ LeaseAvoidsLanes
  /\ HoldHasAHolder
---------------------------------------------------------------------------
(* The inductive invariant behind bounded access, without hopping. *)

(* Slots leave room for every frame, however late a sleep may end. *)
RoomToSpare == ~Hops /\ \A m \in Name : Airtime[m] + Oversleep <= Sched.slot_us

(* A slot of the frame's own begins at u. *)
OwnStart(s, u) ==
  SlotStart(Sched, u) = u /\ OwnsNowIn(Sched, key[s], Class[frame[s]], u)

(* A call holds a TxHoldGuard only in the wait loop, never when it is over. *)
WaitsInTheLoop(s) == waiting[s] => pc[s] \in {"contend", "loop", "elect", "sleep"}

(* No slot of its own has begun since the offer and before u. *)
NoTurnBefore(s, u) == \A v \in entry[s] + 1 .. u - 1 : ~OwnStart(s, v)

(***************************************************************************)
(* A call that is awake is at most Oversleep into a slot of its own; one   *)
(* that sleeps, or has left the wait loop to contend, has missed none.  A  *)
(* backoff is for the slot of the offer, an election for a slot after      *)
(* which another stranger's comes.                                         *)
(***************************************************************************)
TurnInv(s) ==
  LET t == Clock(NodeOf[s]) IN
  /\ entry[s] <= t
  /\ pc[s] = "backoff" => slotAt[s] = SlotStart(Sched, entry[s])
  /\ pc[s] \in {"contend", "loop"} =>
       \A u \in entry[s] + 1 .. t : OwnStart(s, u) => t <= u + Oversleep
  /\ pc[s] = "contend" /\ waiting[s] => NoTurnBefore(s, t + 1)
  /\ pc[s] = "elect" => NoTurnBefore(s, slotAt[s] + 2 * Sched.slot_us)
  /\ pc[s] = "sleep" =>
       /\ t <= wake[s] + Skew[NodeOf[s]] + Oversleep
       /\ NoTurnBefore(s, wake[s] + Skew[NodeOf[s]])
  /\ pc[s] = "granted" => t <= entry[s] + SuperframeUs(Sched) + Slack

(* AccessInv: no call sleeps through a slot of its own. *)
AccessInv == \A s \in Sender : WaitsInTheLoop(s) /\ TurnInv(s)

===========================================================================
