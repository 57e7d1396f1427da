------------------------- MODULE SlotScheduleWalk -------------------------
(***************************************************************************)
(* A clock that walks the superframe of every small slot map, for every    *)
(* name-group and class: what mac/schedule.rs computes at an instant is    *)
(* compared with what the map itself says of the instants around it.       *)
(***************************************************************************)
EXTENDS SlotSchedule

CONSTANTS
  SlotSizes,   \* the slot widths tried, in ticks
  SlotCounts,  \* the superframe lengths tried, in slots
  Strides,     \* the NDN_SCHED_RESERVE values tried, as configured (unclamped)
  Hashes,      \* the name-group hashes tried
  LeaseMaxes   \* the NDN_SCHED_LEASE values tried

ASSUME WalkAssumption ==
  /\ SlotSizes \subseteq Nat /\ SlotCounts \subseteq Nat
  /\ Strides \subseteq Nat   /\ Hashes \subseteq Nat
  /\ LeaseMaxes \subseteq Nat

VARIABLES
  sched,     \* the schedule in force
  hash,      \* the name-group asked about
  class,     \* its lease class
  leaseMax,  \* the configured lease length
  instant          \* the common-view instant

walkVars == <<sched, hash, class, leaseMax, instant>>

(* parse_slot: the stated form of NDN_SCHED_SLOT, then the reserved stride. *)
WalkInit ==
  /\ \E us \in SlotSizes, n \in SlotCounts, stride \in Strides :
       sched = WithReservedStride(New(us, n), stride)
  /\ hash \in Hashes
  /\ class \in LeaseClass
  /\ leaseMax \in LeaseMaxes
  /\ instant = 0

(* The walk returns to 0 after two superframes, the period of every map. *)
WalkTick ==
  /\ instant' = (instant + 1) % (2 * SuperframeUs(sched))
  /\ UNCHANGED <<sched, hash, class, leaseMax>>

WalkSpec == WalkInit /\ [][WalkTick]_walkVars

---------------------------------------------------------------------------
Owns(u) == OwnsNowIn(sched, hash, class, u)

(* The constructors only build legal schedules, the instant is a clock reading. *)
WalkTypeOK ==
  /\ sched \in Schedules
  /\ hash \in Hashes /\ class \in LeaseClass /\ leaseMax \in LeaseMaxes
  /\ instant \in Nat

(***************************************************************************)
(* The delay wait_us_in reports is the first instant from now at which     *)
(* owns_now_in holds: sleeping it neither misses a turn nor ends early.    *)
(* The hardware path (slot_wait) hands this delay to the device.           *)
(***************************************************************************)
WaitEndsAtTheNextTurn ==
  LET w == WaitUsIn(sched, hash, class, instant)
  IN  w >= 0 /\ Owns(instant + w) /\ \A u \in instant .. instant + w - 1 : ~Owns(u)

(***************************************************************************)
(* A name-group gets exactly one slot of every superframe, wherever the    *)
(* superframe is cut: the class placement of owner_slot_in neither starves *)
(* a group nor gives it two turns.  This is so of a latency group as well: *)
(* it owns one lane, however many there are.                               *)
(***************************************************************************)
OneTurnPerSuperframe ==
  Cardinality({u \in instant .. instant + SuperframeUs(sched) - 1 : Owns(u)}) = sched.slot_us

(***************************************************************************)
(* The bound urgent_access_bound_us reports, a stride of slots, is one on  *)
(* the wait of a latency group only in maps of at most one slot more than  *)
(* the stride.  In longer ones the next lane is another group's, and the   *)
(* wait for one's own exceeds the bound in every superframe, against       *)
(* schedule.rs:122-135 (see LatencyWithinTheStride of SlotGate).           *)
(***************************************************************************)
StrideBoundsShortMapsOnly ==
  sched.reserved_stride >= 2 =>
    ((\A u \in instant .. instant + SuperframeUs(sched) - 1 :
        WaitUsIn(sched, hash, Latency, u) <= UrgentAccessBound(sched))
     <=> sched.slots <= sched.reserved_stride + 1)

(***************************************************************************)
(* Where lanes are configured, a latency group and a bulk group never own  *)
(* the same slot, and bulk has an open one, exactly if the superframe has  *)
(* two slots or more.  The only slot of a one-slot map is a lane, and both *)
(* classes own it: with_reserved_stride clamps the stride and not the      *)
(* length, so an open slot does not always remain (schedule.rs:107-108).   *)
(***************************************************************************)
ClassesNeverShareASlot ==
  sched.reserved_stride >= 2 =>
    /\ OpenSlots(sched) >= 1 <=> sched.slots >= 2
    /\ \A h \in Hashes :
         OwnerSlotIn(sched, hash, Latency) # OwnerSlotIn(sched, h, Bulk) <=> sched.slots >= 2

(***************************************************************************)
(* Up to as many groups as the class has slots, groups with different      *)
(* residues own different slots: owner_slot_in wastes no slot of a class   *)
(* by placing two residues on one.                                         *)
(***************************************************************************)
ResiduesGetTheirOwnSlot ==
  LET room == IF sched.reserved_stride < 2 THEN sched.slots
              ELSE AtLeastOne(IF class = Latency THEN ReservedSlots(sched) ELSE OpenSlots(sched))
  IN  \A h \in Hashes : hash % room # h % room =>
        OwnerSlotIn(sched, hash, class) # OwnerSlotIn(sched, h, class)

(***************************************************************************)
(* A lease taken in an open slot ends at a slot boundary after now, holds  *)
(* at most the configured number of base slots, covers no reserved lane at *)
(* any instant, and stops early only because a lane comes next.            *)
(***************************************************************************)
LeaseStopsAtTheLane ==
  LET d == LeaseDeadline(sched, instant, Bulk, leaseMax)
      full == SlotStart(sched, instant) + AtLeastOne(leaseMax) * sched.slot_us
  IN  ~IsReserved(sched, CurrentSlot(sched, instant)) =>
        /\ instant < d /\ d <= full
        /\ \A u \in instant .. d - 1 : ~IsReserved(sched, CurrentSlot(sched, u))
        /\ d < full => IsReserved(sched, CurrentSlot(sched, d))

(***************************************************************************)
(* What the slot map keeps at every instant: waits and turns agree, the    *)
(* bounds that hold of them do, classes and residues are kept apart, and a *)
(* lease ends at a lane.                                                   *)
(***************************************************************************)
WalkInv ==
  /\ WalkTypeOK
  /\ WaitEndsAtTheNextTurn /\ OneTurnPerSuperframe /\ StrideBoundsShortMapsOnly
  /\ ClassesNeverShareASlot /\ ResiduesGetTheirOwnSlot
  /\ LeaseStopsAtTheLane

===========================================================================
