# Verification of ndn-radio

TLA+ specifications, TLC model checking and TLAPS proofs for ndn-radio, a set
of Rust crates that carry Named Data Networking over broadcast radios (Wi-Fi
in monitor mode, LoRa, BLE).  This document is for a reader who has the
repository: it says what the parts of the system are, what is modelled and
how, what each run and theorem shows, and what is left out.

## 1. The system

Paths are below `src/crates/`.

| Component | Source | State it keeps | Operations | Interacts with |
|---|---|---|---|---|
| Slot schedule | `faces/ndn-radio/src/mac/schedule.rs` | none: functions of a schedule and an instant | owner slot of a name-group, wait, fit, lanes, leases, hop channel | transmit gate |
| Slot map and clock | `faces/ndn-phy-wifi/src/sched.rs` | group table, parameters, software and hardware offsets | register, classify, digest, beacons, presence | transmit gate, neighbours |
| Transmit gate | `faces/ndn-phy-wifi/src/sched.rs` | busy mark, sightings per slot, lease, tuned channel | `gate`, `observe_rx`, `retune` | medium (caller), radio (`set_tx_hold`, `set_channel`) |
| Wi-Fi medium | `faces/ndn-phy-wifi/src/{medium,lib,factory}.rs` | MAC queue, batcher, knob cache, reader tasks | `inject_with_intent`, `send_robust`, A-MSDU batching, `apply_knobs`, building a face | gate, link FEC, radio, radio face |
| Control loop | `faces/ndn-phy-wifi/src/control.rs` | demand, learners, last applied, duty window | sense, decide, act, reports | cognition, medium |
| Radio face | `faces/ndn-radio/src/lib.rs` | duplicate ring, learned weights per prefix and phy, capabilities heard | `send_bytes`, `recv_bytes`, the policies | forwarder above, phys below |
| MAC helpers | `faces/ndn-radio/src/mac/*.rs` | sender identity, token buckets, breadcrumbs, rendezvous epochs | one module each | gate, medium, face |
| Cognition | `faces/ndn-radio-cognition/src/*.rs` | neighbourhood, thresholds, bandit arms, dial, hop plans, demand | plan for a name, learn from outcomes | control loop |
| Network coding | `coding/ndn-coding/src/*.rs` | generations, decoders, neighbours' state, policy table | encode, recode, decode, mix flows, link FEC, fetch an object | faces |
| LoRa, BLE | `faces/ndn-phy-lora`, `faces/ndn-phy-ble` | knobs applied, mode description; reassembly, serial accumulator | plans, scheduled sends; adverts | radio face |
| Reach strategy | `strategies/ndn-strategy-reach` | weight per prefix (scalar or Bloom), posterior | after an Interest, after Data | forwarder |

What is hard in this system:

* **Interleaving.** `gate` is an async function; several calls run on one
  scheduler and share the busy mark, the lease, the tuned channel and one
  transmit hold.  Between any two awaits another call or a reception may run.
  The batcher, the control loop and the senders share the plan; LoRa senders
  share a radio whose description is read outside the lock.
* **Stale instants.** `gate` reads the clock once and then awaits a retune;
  `try_claim` decides, sleeps a draw, and acts on the decision.
* **Late sleeps, clock error, frames that take time.**  A slot grant is a
  promise about the air, kept only if the frame ends before the slot does.
* **Class placement arithmetic.**  Lanes, open slots and residues have
  boundary cases (one slot, stride one, leases at the end of a superframe).
* **Order and loss.** Parity arrives before, after or instead of sources;
  copies of a packet come over several phys; reports cross.
* **Partial failure.** A radio refuses one knob of a plan, one phy of several
  fails, an injection loses a whole batch.
* **Deafness.** Nodes that change modulation on their own stop hearing each
  other; silence is the only signal that brings them back.

For each component the properties that make it correct: the schedule gives
each group one turn and keeps the classes apart; the gate lets an owner
transmit only in its own slot and a guest only in an open idle one, in time,
and within bounded delay; the medium keeps owners of different slots off each
other on the air; batching delays and never reorders; the knob cache tells the
truth of the radio; duplicate suppression delivers once; coding delivers
exactly what was encoded, at full rank and not before; budgets bound the work
and refusals cost nothing; nodes that lose each other meet again.

## 2. Modules

A module per component; `MC*` modules give the constants for TLC.  Parts that
share no state run in one MC module, one part to a behaviour (the variable
`part`): the state space is then the sum of the parts' and not their product,
and nothing is lost, since no action of one part reads another's state.

### SlotSchedule, SlotScheduleWalk

Every function of `SlotSchedule` (schedule.rs) is an operator on a record
`[slot_us, slots, reserved_stride]`.  A name-group is its hash, a natural
number; time is an integer count of ticks (microseconds in the code).
`OwnerSlotIn` maps a hash to a slot: latency groups among the reserved lanes,
bulk groups among the open slots (`NthOpen` states by cardinality what the
loop in `owner_slot_in` finds by counting).  `HeldSlots` states what the loop
of `lease_deadline_us` computes.  `SlotScheduleWalk` walks a clock through
every small slot map and compares the operators with definitions by
enumeration and with what schedule.rs promises of them (`WalkInv`).

### SlotGate

| Variable | Code |
|---|---|
| `now`, `Skew` | the common-view clock `now_us` and a node's error |
| `lastRx` | `last_domain_rx`, floored to the slot it falls in (it is only compared with slot starts) |
| `seen` | `SlotState`: per slot the key and presence nonce of the freshest sighting; ageing out is the action `Forget`, at any time |
| `holdStart`, `leaseUntil` | `hold_slot_start` (`u64::MAX` is `Never`), `lease_until` |
| `curCh`, `txHold` | `current_ch`, the radio's transmit hold |
| `pc`, `frame`, `entry`, `key`, `slotAt`, `wake`, `waiting`, `how`, `yielded` | the local state of one call of `gate`; `slotAt`, `how` and `yielded` record which slot a decision was made in and why |

A call advances from await to await in one action: `Offer` (entry and the hop
test), `Retuned`, `OwnerTest` (owner path and backoff), `BackoffEnds`,
`Contend` (`try_claim` up to its sleep, with `hold_status`), `ElectionEnds`,
`LoopTest`, `Awake`; `Inject` is the caller's use of the grant.  The draw of
`cclf_jitter_us` is a hash: any value of its range is allowed.  `Tick` moves
the clock only when no call can run; a sleep may end up to `Oversleep` ticks
late.  `ObserveRx` is the receive path, at any moment.

### SlotMedium

Extends `SlotGate` with a MAC queue per node, the air, and receptions.  A
grant joins the queue (`Enqueue`), leaves it when the radio is free and not
held (`Radiate`), ends (`Land`) and, unless it overlapped another frame, is
received by the others (`Hear` is `ObserveRx` with the nonce of the sender).
`SendRobust` queues a control frame past the gate.  Its actions are the gate's
joined with what they put on the air, so the gate's invariant carries over;
that is a lemma of the proofs and no property of the code.

### SchedMap

The table of registered prefixes with their classes and the digest of it that
beacons carry (a hash of a prefix is the prefix, a digest is what it digests);
and, as a second part, the common-view clock: software beacons of the master,
hardware-stamped beacons of neighbours, restarts, and the evidence of a slot
owner's presence dated by whatever the clock reads.

### RadioFace, RecentOnce

`RadioFace` is `Radio`: `Begin`, `PhySend` and `Return` are one `send_bytes`
over the phys the policy chose, `Pump` a phy's receive task, `Recv` is
`recv_bytes` with the duplicate ring and the capability store.  `heard` and
`got` are histories.  `RecentOnce` is the abstract receiver (a thing is handed
on only if it was sent, and again only after `Window` others);
`ReceivesOnce == Once!Spec` maps `Window` to the ring's capacity.

### RadioKnobs, MediumPath, FrameQueue, MediumBuild

`RadioKnobs` is `apply_knobs` over `AppliedKnobs`: a write is skipped when the
cache says the value is there, kept when the radio takes it; power has a dBm
and an index scale; a hop of the gate changes the channel past the cache.
`MediumPath` follows a frame from `inject_with_intent` through `MediumBatcher`
to the radio, with the plan, the rate and the legacy gate changing in between
and the face dropped at any moment; `air` is what the radio took in batches,
`alone` what it was given frame by frame.  The legacy gate is read twice, when
the intent is formed and when the rate is decided, and may rise in between:
such a frame has no rate of its own, and `EachAtItsRate` allows it, and no
other, the rate of another frame of its batch (section 5).  Its second part is the reader task:
what is credited to whom.  `FrameQueue` is what the batcher promises (frames
leave in the order accepted, some prefix at a time; a burst may be refused as
a whole; nothing leaves once shut): `BatcherIsAQueue` maps `waiting` to
`batch \o queue`, `delivered` to the frames of `air`, `Burst` to the largest
batch a plan can ask for.

`MediumBuild` is how a medium comes to be.  Radios are opened from their specs
by an arm of the factory each (`build_bearer`), wrapped by a caller in a face
of one radio, or handed over by a host; each is said to be able to do
something, which `effective_hw_cap` weighs against what the radio tells.  The
builders configure the medium in any order, and it is started when mounted or
by the first of several tasks that use the face (`OnceCell`).  A dwell is
vetted against the caller's capability, although the warning at the start
speaks of the radio's; it is modelled as it is.

### EphemeralIds, DosGate, CoopRelay, Rendezvous

The MAC helpers.  Signal strengths, hashes and jitters are constants or free
draws; the mesh of `CoopRelay` is the one of the crate's tests, with frames
lost and breadcrumbs purged; buckets of `DosGate` are shared by hash as in the
code; `Rendezvous` takes every draw of channel and phase.

### Neighbourhood, ControlLoop, RadioPlan, PhyDial, RateLearning, Carriers, LoraPair, Arith

Cognition.  A measured level in `Neighbourhood` is the triple *sender, radio,
receiver*, an average the set of levels mixed in it, so that a direction taken
for the other shows.  `ControlLoop` runs a tick of `RadioControl` over a table
of Interests; the plan itself is `RadioPlan`'s (`decide_traced`), in whole dB
and percent.  `PhyDial` and `LoraPair` are groups of nodes that choose
modulations alone.  A tick of `PhyDial` may run a node's dial for no name, and
the nodes of `PdElsewhere` have another radio on which they may hear somebody
at any time, which the dial takes for a peer as policy.rs does.  `LostPeersMeet`
bounds a separation over the ticks in which neither happens (`apart` counts
them); what the others do to it is in section 5.  `RateLearning` holds the thresholds and the bandit,
`Carriers` the hop plan two nodes derive from a name and the occupancy counter
that wraps.  `Arith` has the arithmetic the others share.

### LoraFace, ReachPrior, Ble

`LoraFace`: plans pushed by several senders to one radio, with the moments at
which the lock is let go.  A driver may clamp power further than its
description says (`LfDriver`) and answers what it put on, which is cached; so
`UnchangedPlanIsFree` excepts a plan whose power is clamped so, and such a plan
is pushed with every frame.  The frame size is stored in a step of its own:
`MtuIsTheCaps` says that it is the description's until two refreshes have
crossed (`lfRaced`).  Also: and when a scheduled frame leaves, by the radio's
counter or the host's sleep.  `ReachPrior`: weights of prefixes, decayed by
whoever reads them, in a scalar or a Bloom memory, under a clock that may be
set back; the weight left after some half-lives is the recursive function
`Halved`.  `Ble`: adverts under either framing, of tasks that interleave on
one address, lost or refused, put together by address; the byte stream of a
serial dongle cut anywhere, with a reader and several callers on its port
(`Found` is what a whole stream contains), and the frames written to it.  The
advertising PHY (`set_adv_phy`) and the backends over a real adapter are not
modelled.

### LinkFec

| State | Code |
|---|---|
| `inbox`, `pending`, `deadline`, `sink` | the channel, buffer, `gen_deadline` and half-emitted generation of `LinkFecBridge::spawn` |
| `parity`, `generation` | `LinkFecTx` |
| `gens`, `order` | `LinkFecRx`: `[k, n, size, rows, delivered, done]` per generation |
| `meter` | `LossMeter` |
| `got`, `invented`, `heard`, `emitted` | history: what was delivered, absorbed and sent |

`Offer` is `inject_with_intent` past the gate (no parity: straight onto the
air).  `Open` and `Fill` are the two receives of the batching task,
`TailFlush` its time-out, `Emit` one injection of the sink, so uncoded frames
go out between the frames of a generation.  `Receive`, `Overtake` and `Lose`
are the link; `Absorb` is the decoder and the receive task behind it.  The
code is maximum distance separable, as fec.rs claims and tests (and
`ErasureCode` checks), so a decoder is the map from the indices it holds to
the generation each came from, its rank their number up to `k`.  `Rising` is the
order in which `recover` goes through the missing indices.  A decoder whose
rows come from different generations yields `Garbage`.

### Cope, Recoding, ErasureCode, CodedObject, PolicyTable

`Cope`: a payload is the set of natives summed in it.  Each sender numbers its
frames from one, and a node holds, reports and takes sums apart by the number
on the wire.  What the crate presumes and none of its code does, that a
neighbour comes to hold a frame under its sender's number before it is sent, is
the action `Overhears`, as the tests do it by hand; all else that is held was
sent and heard.  `Recoding`: rank,
recoding, fingerprints, quarantine and recovery over a field of four elements
with K = 2.  `ErasureCode`: the 256-element field itself, built table by table
as `build_tables` does, and the systematic code over it.  `CodedObject`: a
fetch through a window with losses, timeouts, a republished object and segments
of another one.  The generation of the first segment taken is the fetch's
(`Locked` if it is a stray's): `ReturnsOnePayload` says that nothing else is
returned, `SurvivesTheLosses` counts what strays cost beside the losses.
`PolicyTable`: the list of each role as the code keeps it, one entry a prefix;
`Filled` is the loop over a configuration file, `Removed` the entries retained,
and `truth` what was last set of each prefix, taken from the file directly.

## 3. Runs

`tlc -config X.cfg M` in this directory.

| Run | Module, configuration | What it shows |
|---|---|---|
| `gate_late` | `MCSlotGate`: two calls, five slots with two lanes, two hop channels, retunes of one tick, sleeps one tick late, leases of three slots | the overrun bound, lanes and leases, the transmit hold: the inductive invariant `GateInv` |
| `gate_yield` (violation) | `MCSlotGate`: one call and a co-owner | a call that lost a shared-slot backoff takes the slot anyway |
| `gate_stride` (violation) | `MCSlotGate`: one call of a latency group, four slots with two lanes | a latency group waits for its own lane and not for the next one |
| `medium` | `MCSlotMedium`, four slots with two lanes, punctual sleeps, 24 ticks; parts `calls`: two calls on one node; `owners`: two nodes with a call each, agreeing clocks, a MAC queue of one; `control`: one call and two control frames | grants are rightful at the instant of injection, guests yield to what they hear, every frame is granted within a superframe; owners never cross on the air, frames end with their slot; a held radio delays control frames by at most a superframe |
| `link_fec` | `MCLinkFec`: one sender, generations of three of at most five frames, plans for 0, 1 and 3 parity frames (one beyond the codec), unequal payloads, a window of one tick, two generations kept | each frame is delivered once and leaves its sender, any k recover all, parity is the opening frame's, no frame waits beyond the window |
| `fec_two_senders` (violation) | `MCLinkFec`: two senders | generations of two senders with one number share a decoder state |
| `mac` | `MCMac`: identities, relaying, admission, rendezvous, the slot map by enumeration, the map's digest and the clock | one invariant per part: `AliasesAreSettled`, `RelayServes`, `DosInv`, `RendezvousInv`, `WalkInv`, `SchedInv` |
| `medium_parts` | `MCBearers` with `Medium.cfg`: knobs, batcher, reader, builder | the batcher is a bounded delay and a queue, the cache is true, frames are credited to their source, one medium is started |
| `bearers` | `MCBearers` with `Bearers.cfg`: face over two phys, LoRa plans and timing, reach, adverts, serial line from and to the dongle | the face implements `RecentOnce` and narrows only on evidence; `LoraInv`, `ReachInv`, `BleInv` |
| `cognition` | `MCCognition` | nodes keep in touch, the loop serves the most wanted, plans move the right way, dials and learners settle, carriers agree |
| `cope_two_senders` (violation) | `Cope`: two nodes that forward, two frames each, nothing overheard but what is sent | a node delivers up a sum of frames as a native |
| `coding` | `MCCoding`; of `Cope` one forwarder in the parts `cope` (two recipients in every way) and `three` (sums of three); of the object two strays and two losses against two of four | what is mixed or recoded decodes, the field and the code are right, a fetch returns one whole object or ends, the policy table is what was set |

Each property has a plausible bug of the code it is known to catch
(`mutants` of PROJECT.json): a variant of the definition stands before it in
its module (`FillRestartingTheWindow`, `MayElectWithoutRoom`, ...).

Bounds.  `MaxTime` of the slot runs stops the clock after at least one
superframe and a waiting call; every decision of the gate depends on the clock
modulo the superframe and on state at most one lease old, so one superframe
and a lease reach every case.  `gate_late` stops after half a superframe of five
slots, the first lane and the two open slots behind it, in which a lease is
taken up to the next lane; the theorems are of any length.  Slots are four or five ticks: room for a draw,
a frame of two or three ticks and a remainder that does not fit.  Two calls
interleave every pair of awaits.  The model stops at `MaxTime` by the explicit
step `Horizon`, so deadlock is checked there.  Runs of modules whose histories
are bounded (a number of plans, frames, faults or pulls) really stop at the
bound and say `CHECK_DEADLOCK FALSE`.

Three batched frames make a full batch of two and a tail; one change of the
plan may fall between any two steps.  Three plans and one refusal reach every
order of refused, repeated and skipped writes on two scales.  The ring of the
face holds one packet, so that each packet evicts.  The link of `LinkFec`
loses any frame and lets a frame be overtaken once; a coded frame is overtaken
only within fewer generations than the receiver keeps (`Close`), as on a radio
link against a table of 64.  The slot map is walked for 0-6 slots of 0-3
ticks, strides 0-4, eight hashes and leases 0-4.  The walk over the field is
over all 256 elements.

Fairness.  The slot modules assume none and claim no liveness: bounded access
is a safety property over the clock, which cannot pass an enabled step of a
call.  Elsewhere weak fairness is assumed of the program's own tasks and of
the clock (an async runtime polls a task that is ready), never of the medium:
the batching task and the clock for `EveryFrameLeaves`; the batcher's task and
the clock for `AcceptedLeavesHere`; a face's sends and receptions for
`NothingIsStuckHere`; breadcrumb timers and a consumer that asks again for
`DemandIsServed` (losses are bounded in number, as in the crate's tests); a
fetch's timers and the Data that the network returned (`CoFair`) for
`FetchEnds`; the reporting interval and the broadcast of reports for
`CooperationBootstraps`; the ticks of a pair for `LostPairMeets`, which is
conditional on a level that carries the agreed factor.  In the MC modules the
fairness is that of the part a behaviour runs.

Refinements.  `RadioFace` implements `RecentOnce`, `MediumPath` implements
`FrameQueue`; both are checked by TLC and proved.

## 4. Proofs

`tlapm M.tla`, for every value of the constants the modules' assumptions
admit: any number of nodes, calls, groups and channels, any slot map, any
lateness of sleeps and clock error, any phys, plans and faults.  Where a
theorem needs more it says so in its ASSUME.

| Theorem | Needs | States |
|---|---|---|
| `LeaseCoversNoLane` (`SlotSchedule_proofs`) | | a lease taken in an open slot is no longer than its class allows and covers no lane |
| `GateInvariant`, `TypeCorrect`, `GrantsEndInTime`, `GrantsAreRightful`, `LeasesAvoidLanes`, `HoldsHaveHolders` (`SlotGate_proofs`) | | `GateInv` and its parts |
| `PunctualGrantsAreRightful` | no hopping, punctual sleeps | `GrantInARightfulSlot` |
| `GuestsYield` | | the action property `GuestsYieldToWhatTheyHear` |
| `TurnsAreTaken`, `AccessIsBounded` | `RoomToSpare` | no call sleeps through its own slot; `AccessWithinASuperframe` |
| `MediumTypeCorrect` (`SlotGate_proofs`) | | `TypeOK` in the composition |
| `AirtimeInvariant`, `FramesKeepTheirSlots` | `GatedAlone` | a granted frame is on the air at once and off it with its slot |
| `OwnersKeepApart` | `GatedAlone`, no hopping, punctual sleeps, agreeing clocks | `OwnersNeverCross` |
| `ControlIsNotStarved` | `ControlFits` | `ControlLeavesInASuperframe` |
| `WindowInvariant`, `NoFrameOutwaitsTheWindow` (`LinkFec_proofs`) | | `NoneHeldBeyondTheWindow` |
| `ParityBelongsToTheGeneration` | | `ParityIsTheOpeners` |
| `DeliveredOnce`, `DecoderKeepsItsPromises` | one sender, no turn of its generation counter | `EachDeliveredOnce`, `DecoderInv` |
| `FaceReceivesOnce` (`Bearers_proofs`) | | the face implements `RecentOnce` |
| `LoraKeepsItsWord` | `LandingStays` | `LoraInv`: a settled plan is run as the driver clamps it, and costs no call unless it clamps; the frame size until two refreshes cross |
| `WhatIsHandedUpWasSent` | | `BleInv` |
| `MemoryErrsOnForwarding` | | `ReachInv` |
| `KnobsKeepTheirWord` (`WifiMedium_proofs`) | `CeilingInRange` | `KnobsInv`: the channel until the first hop, power while one scale is in use |
| `BatcherImplementsQueue` | | the batcher implements `FrameQueue` |
| `BatcherKeepsItsWord` | | `BatcherInv`, the batcher's part of `PathHolds`: rates with the exception of section 5 |
| `MediumIsBuiltOnce` | | `BuildInv` |
| `AliasesSettle` (`Mac_proofs`) | | `AliasesAreSettled` |
| `RendezvousMeets` | `SlotsFit` | `RendezvousInv`: no wait before an epoch whose window opens in the one before |
| `AdmissionIsExact` | | `DosInv` |
| `SlotMapKeepsItsPromises` | | `WalkInv` |
| `ScheduleIsShared` | | `SchedInv`: digests of configurations with no registration under a latency one |
| `RelaysDoNotStorm` | | `RelayTypeOK`, `OnceEachWay`: the safety part of `RelayServes` |
| `CarriersAreShared` (`Cognition_proofs`) | | `CarriersInv` |
| `LearningDoesNotMislead` | | `LearningIsSound` |
| `LongestPrefixIsInForce` | | `PolicyInv` |
| `RadiosServeWhatIsWanted` | | `LoopInv` |
| `NeighboursAreToldApart` | | `NeighbourInv`, `LossOnlyWhenMissed`: the safety part of `NodesKeepInTouch` |

**The gate.** The properties are not inductive: a grant after a draw is
rightful only because of what was tested before the sleep.  `GateInv` records
what each kind of sleep relies on: `RetuneInv` and `OwnerInv` bound the age of
the instant read at entry, `DrawInv` says that the draw was made in a slot
with room for the frame and how late it may end, `RightInv` that a backoff is
for the caller's own slot and an election for an open one, `StartInv` that a
grant remembers the slot's start.  One step per action.

**Bounded access.** `TurnInv` says of each state of a call that no slot of the
frame's own has begun since the offer without the call being awake in it:
a sleeping call has a wake-up no later than the next own slot, an election is
only entered when a stranger's slot follows.  Since a group has a turn in
every superframe, the wait is at most a superframe and the lateness of one
sleep.  `RoomToSpare` (no hopping; any frame, drawn after the longest
lateness, fits a slot) is what makes this true: with hopping the wait loop
tests ownership with the instant read before the retune, and a backoff may
then be for a slot that is over, so an own slot can be missed; the code
promises no bound for frames that do not fit.

**The air.** `AirtimeInv`: with one gated call per radio, no control frames
and a MAC queue of one (`GatedAlone`), the radio of a call under way is free
and open, so `Enqueue` and `Radiate` happen at the instant of the grant, and
`GrantEndsWithItsSlot` carries over to the air.  Two owners on the air at one
instant are then in one slot of one clock.  The assumptions are the contract
`Offer` relies on and not a property of the code: with a longer queue a second
frame of the same slot is still on the air in the next turn.

**Control frames.** `DrainInv` tells two situations of a radio apart.  While a
call of gate is under way, every control frame in the queue is younger than
the call, because the call was offered to an empty radio; so the bound on
access is a bound on its wait.  Once no call is under way the radio is open
(`HoldHasAHolder`), time passes only while it sends, and each frame ahead costs
its airtime.  `ControlFits` is that a slot has room for the control frames of
a node and a late sleep; with more of them the wait grows by their airtime.

**Link FEC, the sender.** `WindowInv`: that a frame which joins a generation is
not yet older than the generation rests on the inbox being empty whenever the
clock moves, and on the deadline staying that of the opening frame.
`ParityInv`: while a generation is open the codec's parity is what its first
frame asked for, clamped, whatever later frames ask.

**Link FEC, delivery.** What the receiver owes depends on what the sender has
made, which the state does not keep: the invariant `FecHolds` says that there
*is* a history, the generations made (`C`: frames and length of each) and the
frames sent plain (`P`), that everything agrees with (`FecInv`).  `Coding`: no
frame is in two generations, or in one and plain.  `SinkIs`, `LinkIs`: what is
in the sink and on the link is of the history, in its order.  `Decoded` is the
receiver's side, for each generation one of three: *held*, and then what is
delivered is just what its rows make decodable; *untouched*; or *over*: evicted
with nothing of it left to arrive, so that it can never be opened again and
deliver twice.  That an evicted generation is over is what `InOrder` is for:
the table holds generations in the order they were sent but for the last
overtaken one, so the oldest is evicted only by one at least `Cap - 1` newer,
and a frame still late would have been closer (`Close`).  A step then keeps the
history or extends it by one generation (`FlushedGeneration`) or one frame
(`OfferedPlain`).  Both hypotheses are needed: generations of two senders
collide (the run `fec_two_senders`), and so would two of one sender under one
number of the counter.

**The face.** `OnceInv`: the ring is the tail of what has been handed on (of
the ring's capacity), and everything on a phy or in the merged queue has been
sent.  Then a packet that is not in the ring is not among the last `Cap`, and
`Recv` is `Deliver` or a stutter.

**The knobs.** `KnobsIndInv` adds to `KnobsInv` what either half of the cache
says of the power while one scale is in use.  `CeilingInRange` (the
firmware's ceiling is not below the declared range) is a fact about a radio
that the code takes for granted and cannot check.

**The batcher.** `QueueInv`: a batch never exceeds the size the plan gave it,
that size is at most the largest of any plan, an injection under way has a
batch, and the face can only be dropped when nobody is sending.  Each step of
the batcher then offers, releases a prefix of `batch \o queue`, shuts, or
stutters.
What it promises of each frame rests on three more
parts.  `HoldInv` is the account of a held frame's time: in the channel it has
waited for injections only, each of at most `InjectTime`; in a batch also for
what has passed of the window, because no time passes while a frame at hand
could join or the batch could go.  `PlaceInv`: no frame is held twice, so that
one which leaves is gone.  `RateInv`: the rate of a frame that has left is no
longer decided.

**LoRa.** `LfIndInv`.  The cache is true of the chip (`Truthful`) although the
lock is let go during a refresh, since the cache is renewed in the step that
changes the mode; it holds the power the driver answered, not the one asked.
`LockInv` is the reason why a settled plan is run: the
holder of the lock has seen to the mode, then to rate and bandwidth, with the
description held now, unless another sender is still in its refresh; and one
that is cannot leave it before the lock is free.  `SettledInv`: nothing of a
settled plan is left to tell, so no sender calls the driver again, unless its
power is one that the driver clamps.
`LandingStays` (a mode a radio has landed on is put on by asking for it) is a
fact about a driver; without it a plan for such a mode is taken for done
although asking for it would lead elsewhere.  `LtIndInv`: what is read of a
counter it had reached, so the sleep computed from it falls short of the
instant by less than a microsecond.

**BLE.** `AirIndInv`: between the fragment a reader is to take next and the one
its task sends next, the adverts that wait are each fragment in its turn
(`Chain`, told only of neighbours, so that a step at either end touches one
pair).  `LineIndInv`: what has been handed up and what is held of the serial
line are what `Found` finds in, and leaves of, all the bytes read, and `Found`
of a stream in two parts is what it finds in the first and then in what that
left and the second.  `DownIndInv`: the frame being written is the one asked
for last.

**The reach strategy.** `MemoryIInv`.  Each cell of a prefix covers what is left
of its weight, halved for the time between the two (`CellsCover`); a read that
decays the cells keeps that because halving twice is halving for the sum, and
rounding goes down on both sides.  The weight of a prefix was once heard
(`WeightWasHeard`), so a prefix that was not is never held back.

**The builder.** `BuildIndInv`: a radio that tells what it is, is described as
it tells (whatever a caller asserts of it); the control plane has been told
what each radio is taken for; at most one task is about to start the medium,
and it takes the configuration.

**Sender IDs.** What a detector remembers of an ID was on the air
(`NotedWasAired`), so two levels under one ID are two transmitters; a mismatch
counted against an ID is with a map heard under it since the last reset
(`MismatchesHaveACause`), which holds from the first mismatch although the
verdict waits for `Debounce` of them.

**Rendezvous.** Arithmetic: the window of an epoch lies in its epoch or opens a
guard before it, and a window that does not open before its epoch is found by
`next_window_us` from every instant.  `SlotsFit` (at least a microsecond to a
slot) is not enforced by `with_params`; without it no slot contains an instant.

**Admission.** `BudgetInv`, for every Interest on record: what was charged to a
bucket since, and what the bucket has left, is no more than a full bucket and
its refill since.  The bound for a sender follows because its Interests are
charged to one bucket, shared or not.  `LedgerInv`: a bucket is what the
admitted Interests alone, played back in their order (`Ledger`), leave of it;
so a refused one has cost nothing.

**The slot map.** `SlotMapKeepsItsPromises` is arithmetic of residues and
counting: the n-th open slot exists and is not a lane, the first turn after an
instant is at the wait computed, and a superframe has each slot once.

**What nodes share.** `MapInv`: a table is always one that `with_groups` can
leave, so two of them with one digest place each latency name alike.
`ClockInv`: an offset is the master's last reference, late by the delay at
most (`OffsetsInTime`), or of the last beacon of the lowest peer read
(`OffsetsOfLowest`); evidence ages with the time but for the steps by which the
clock was set back (`EvidenceAges`).

**Relays.** `RelayIndInv`: a relay that has emitted in a direction has its
breadcrumb past that direction, or done in it (`Carries`), and what it hears
later never sets a breadcrumb back.

**Neighbours.** `CgIndInv`: the number by which a node's record of a neighbour
runs ahead is there only for one it has heard, and positive only if a report
was missed (`HeldOf`).

**The control loop.** `ClIndInv`: what the PIT holds of a prefix is no older
than its last activity and no younger than the last Interest that went
unanswered, and is exactly as old while that one lives (`Demanded`), so what is
tracked is what is wanted.  The stable sort exists: each part of a list has a
least context, by class, then rank, then place (`PlacesExist`), and a strict
order takes no place twice, so each context is planned for (`OrderedIs`).
Airtime: a tick charges what it plans and forgets the oldest (`WindowMoves`),
and a spent radio is planned for by none.

**Carriers and learners.** `HopsIInv`: there is one shuffle of which each node's
plan is a stage (`OneShuffle`), and no carrier is in it twice.  `SamplerIInv`
is arithmetic modulo the counter's width.  `ThresholdIInv`: the dial stands
where its last turn left it (`TurnedThere`), so it turns back only past the
margin.  `ArmsIInv`: an arm is picked among those not tried, while there are
any.

**The coding policies.** `TableIInv`: each role's list is in force what was last
set of each name (`ListHolds`), through a single insert or removal and through
the loop over a file, block by block.  Prefixes of one name that are as long as
each other are the same (`SamePrefix`), so the longest match is one entry.

**Recursive functions.** `Ledger`, `Found`, `Halved`, `Filled`, `Removed`, the sum of `DutyUsed` and the
shuffle are recursive functions over numbers or sequences, and `Rising`, `Sorted` are
chosen.  A function defined by recursion is shown to exist, and a fact of all
its values shown, by the least number at which it would fail (`LeastExists`,
`FromNought`), since the induction theorems of the library take an operator.

Only model-checked, and why:

* liveness (`EveryFrameLeaves`; `AcceptedLeavesHere` in `PathHolds`,
  `NothingIsStuckHere` in `FaceHolds`, `RelayServes`, `FetchIsSound`,
  `NodesKeepInTouch`): outside this prover.  The safety parts of `PathHolds`,
  `RelayServes` and `NodesKeepInTouch` are `BatcherKeepsItsWord`,
  `RelaysDoNotStorm` and `NeighboursAreToldApart`;
* `MixesDecode` and `CodeIsSound`: ranks of matrices and the tables of a field,
  over a small field or by walking over a given one;
* `PlanIsSound` and `DialIsSound`: invariants of whole decisions over
  tables of situations; they hold of the numbers in the tables of the code,
  which the run goes through.

## 5. Findings

Disagreements between the code and what it says of itself.  Four are shown by a
run that expects the violation:

* `gate_yield`: a call that loses the draw for a shared slot re-enters the wait
  loop, whose first test is ownership and fit with no busy test, so it
  transmits in the slot it lost, against the comment at `sched.rs:1934-1938`.
* `gate_stride`: a latency group has one lane of the superframe, so with two or
  more lanes it waits for up to a superframe less a slot, against
  `schedule.rs:126-128`, `urgent_access_bound_us` and `sched.rs:1450-1451`,
  which promise one stride.  `StrideBoundsShortMapsOnly` (`WalkInv`) says when
  the promise is kept.
* `fec_two_senders`: `LinkFecRx` keys its generations by the 16-bit counter
  alone and each sender starts at 0, so a second sender's arrived sources are
  withheld, against `link_fec.rs:27-32`.
* `cope_two_senders`: every link numbers its frames from 1 and receivers keep
  them by that number alone, so where two neighbours forward, a sum is taken
  apart with the wrong frame and what is left of it is delivered up, against
  `cope.rs:9-11` and `cope.rs:94-95`.

In the others a property of a passing run states what the code does, with the
exception that contradicts the text:

* the slot map: a superframe of one slot with a stride has no open slot,
  against `schedule.rs:107-108` (`WalkInv`);
* the digest: it leaves out bulk registrations, which change the map when they
  lie under a latency one, against `sched.rs:285-286, 324-325` (`SchedInv`);
* the rendezvous: a window that opens a guard before its epoch is waited for
  and listened to by nobody, against `rendezvous.rs:92-93, 110-111`
  (`RendezvousInv`);
* the batcher: a frame that the legacy gate capped after its intent was formed
  can leave at the throughput rate of another of its batch, against
  `medium.rs:1107-1109, 1588-1591` (`PathHolds`);
* the dial: a node that hears anybody on another radio, or whose names use
  another radio, does not retreat to the common mode, against
  `phy.rs:264-265` (`DialIsSound`);
* LoRa power: one that the driver clamps is written again with every frame,
  against `lib.rs:281, 577` of ndn-phy-lora; and the frame size of an older
  description can stay, against `lib.rs:271-272` (`LoraInv`);
* the fetch: a segment of another object costs an index and an answer, and one
  that comes first makes the fetch return that object or fail, against
  `endpoint.rs:242-244` (`FetchIsSound`).

More are noted with the hazards of PROJECT.json where a property is restricted
because of them: with clocks one guard apart owners of neighbouring slots do
cross on the air, because a frame may use its slot to the last microsecond; a
power plan that alternates between the two scales can be skipped although the
radio holds the other; a fetch exceeds its window by one for each timeout.

## 6. Not modelled, and the plan

The reason for each part is with its component in PROJECT.json.  Not modelled:
power calibration (tables and floating-point interpolation), the MAC
laboratory (a test harness), the capability store's encoding and name opacity,
names and TLV (pure conversion).  Of the modelled parts what is left out is
hardware bring-up and discovery, floating-point estimators (taken in whole
units), byte formats, and the recoding face's naming of generations.  No run
composes the slot gate with the batcher or with link FEC: a frame granted in
its slot may be injected a coalescing window later, which is listed as a
hazard without a property.

What would come next, in order: `ReceiveInv` of the reader tasks as a theorem;
and the composition of gate and batcher with the bound it then has on the air.
