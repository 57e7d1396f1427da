--------------------------- MODULE SlotSchedule ---------------------------
(***************************************************************************)
(* The computed slot map of mac/schedule.rs: which name-group owns which   *)
(* slot of the superframe, how long it waits for it, and how far a lease   *)
(* taken now may reach.  Every operator is a pure function of a schedule   *)
(* record and of an instant; time is counted in ticks of one microsecond.  *)
(*                                                                         *)
(* A name-group is represented by its hash, a natural number.              *)
(***************************************************************************)
EXTENDS Integers, FiniteSets

Latency == "Latency"
Bulk    == "Bulk"

(* LeaseClass: reserved lanes for Latency, open slots for Bulk. *)
LeaseClass == {Latency, Bulk}

(***************************************************************************)
(* A schedule, as SlotSchedule::new and with_reserved_stride leave it:     *)
(* both sizes at least one, a stride of 0 (no lanes) or at least 2.        *)
(***************************************************************************)
Schedules == [slot_us : Nat \ {0}, slots : Nat \ {0}, reserved_stride : Nat \ {1}]

AtLeastOne(x) == IF x >= 1 THEN x ELSE 1

New(slot_us, slots) ==
  [slot_us |-> AtLeastOne(slot_us), slots |-> AtLeastOne(slots), reserved_stride |-> 0]

WithReservedStride(s, stride) ==
  [s EXCEPT !.reserved_stride = IF stride < 2 THEN 0 ELSE stride]

FromAirtime(airtime, guard, slots) == New(airtime + guard, slots)

---------------------------------------------------------------------------
(* The superframe in time. *)

Epoch(s, t)         == t \div s.slot_us
CurrentSlot(s, t)   == Epoch(s, t) % s.slots
SlotStart(s, t)     == Epoch(s, t) * s.slot_us
SlotRemaining(s, t) == s.slot_us - (t % s.slot_us)
SuperframeUs(s)     == s.slot_us * s.slots

(* Faulty variant: any room left in the slot is enough. *)
FitsNowAnyRoom(s, t, airtime) == SlotRemaining(s, t) > 0

(* fits_now: the frame ends no later than the slot it starts in. *)
FitsNow(s, t, airtime) == SlotRemaining(s, t) >= airtime

---------------------------------------------------------------------------
(* Who owns which slot. *)

SlotsOf(s) == 0 .. s.slots - 1

IsReserved(s, k) == s.reserved_stride >= 2 /\ k % s.reserved_stride = 0

ReservedSlots(s) == 
  IF s.reserved_stride < 2 THEN 0
  ELSE (s.slots + s.reserved_stride - 1) \div s.reserved_stride

OpenSlots(s) == s.slots - ReservedSlots(s)

OpenSet(s) == {k \in SlotsOf(s) : ~IsReserved(s, k)}

OwnerSlot(s, hash) == hash % s.slots

(* The open slot with nth open slots before it; the last slot if there is none. *)
NthOpen(s, nth) ==
  IF \E k \in OpenSet(s) : Cardinality({j \in OpenSet(s) : j < k}) = nth
  THEN CHOOSE k \in OpenSet(s) : Cardinality({j \in OpenSet(s) : j < k}) = nth
  ELSE s.slots - 1

(* owner_slot_in: latency names among the lanes, bulk names among the rest. *)
OwnerSlotIn(s, hash, class) ==
  IF s.reserved_stride < 2 THEN OwnerSlot(s, hash)
  ELSE IF class = Latency
       THEN (hash % AtLeastOne(ReservedSlots(s))) * s.reserved_stride
       ELSE NthOpen(s, hash % AtLeastOne(OpenSlots(s)))

OwnsNowIn(s, hash, class, t) == CurrentSlot(s, t) = OwnerSlotIn(s, hash, class)

(* Faulty variant: forgets what has already elapsed of the slot. *)
WaitUsInWholeSlots(s, hash, class, t) ==
  ((OwnerSlotIn(s, hash, class) + s.slots - CurrentSlot(s, t)) % s.slots) * s.slot_us

(* wait_us_in: ticks until the owned slot next begins, 0 inside it. *)
WaitUsIn(s, hash, class, t) ==
  IF OwnsNowIn(s, hash, class, t) THEN 0
  ELSE ((OwnerSlotIn(s, hash, class) + s.slots - CurrentSlot(s, t)) % s.slots) * s.slot_us
         - (t % s.slot_us)

(* urgent_access_bound_us, where lanes are configured. *)
UrgentAccessBound(s) == s.reserved_stride * s.slot_us

---------------------------------------------------------------------------
(* Leases. *)

LeaseSlots(class, l_max) == IF class = Latency THEN 1 ELSE AtLeastOne(l_max)

(* Faulty variant: a lease is as long as its class allows. *)
HeldSlotsThroughLanes(s, t, class, l_max) == LeaseSlots(class, l_max)

(***************************************************************************)
(* The number of base slots a lease taken at t covers: it grows slot by    *)
(* slot up to what the class may hold and stops before the first lane.     *)
(***************************************************************************)
HeldSlots(s, t, class, l_max) ==
  CHOOSE h \in 1 .. LeaseSlots(class, l_max) :
    /\ \A j \in 1 .. h - 1 : ~IsReserved(s, (CurrentSlot(s, t) + j) % s.slots)
    /\ \/ h = LeaseSlots(class, l_max)
       \/ IsReserved(s, (CurrentSlot(s, t) + h) % s.slots)

LeaseDeadline(s, t, class, l_max) ==
  SlotStart(s, t) + HeldSlots(s, t, class, l_max) * s.slot_us
===========================================================================
