----------------------------- MODULE MediumPath -----------------------------
(* The two directions of a frame through the Wi-Fi medium.                      *)
EXTENDS Integers, Sequences, FiniteSets, SequencesExt

(* One bearer's way from a framed packet to the radio, past the slot gate      *)
(* (medium.rs: TxBearer::inject, inject_with_intent, MediumBatcher).  A frame  *)
(* is coalesced, placed by the hardware or injected at once; what       *)
(* decides it (legacy gate, plan, rate) is shared with the control loop and    *)
(* read at several moments.  Time is counted in ticks.                         *)
CONSTANTS
  NoRate,
  TxFrame,               \* frames, numbered as they are offered to the face
  Window, MaxMsdus,      \* AmsduCfg
  MaxBatch,              \* the largest batch that it or a plan asks for
  PlanSizes,             \* amsdu_msdus of plans; NoRate for no opinion
  Mcs,                   \* rates the policy selects
  InjectTime,            \* ticks an inject_batch may take
  TxMaxChanges           \* bound on changes of plan, rate and legacy gate

ASSUME TxAssumption ==
  /\ Window \in Nat \ {0} /\ MaxMsdus \in Nat \ {0} /\ InjectTime \in Nat
  /\ Mcs # {} /\ NoRate \notin Mcs /\ MaxBatch \in Nat /\ MaxMsdus <= MaxBatch /\ PlanSizes \subseteq {NoRate} \cup 0 .. MaxBatch

VARIABLES
  stage,       \* where each frame is: "new" "intent" "gate" or past
  read,        \* what it has read so far
  queue,       \* the batcher's channel
  batch, cap,  \* the open batch and the size it may reach
  left,        \* ticks to its deadline
  busy,        \* ticks since inject_batch was called; -1 when it was not
  air, alone,  \* what the radio took in batches, and frame by frame
  failed,      \* frames of refused batches
  gated, bypassed,           \* GateCounts
  legacy, plan, mcs, down,   \* shared with the control loop and the owner
  waited, blocked,           \* history: ticks in the batcher, injections meanwhile
  txChanges

txVars == <<stage, read, queue, batch, cap, left, busy, air, alone, failed, gated, bypassed,
            legacy, plan, mcs, down, waited, blocked, txChanges>>
batcher == <<queue, batch, cap, left, busy, failed, waited, blocked>>
shared  == <<legacy, plan, mcs, down, txChanges>>

\* "apart": placed in its slot by the hardware.  A face with link FEC has no
\* batcher, and its coded frames are LinkFec's.
Kinds == {"data", "control", "apart"}
Unread == [kind |-> "data", robust |-> FALSE, capped |-> FALSE, rate |-> NoRate]

TxInit ==
  /\ stage = [f \in TxFrame |-> "new"] /\ read = [f \in TxFrame |-> Unread]
  /\ queue = <<>> /\ batch = <<>> /\ cap = MaxMsdus /\ left = 0 /\ busy = -1
  /\ air = <<>> /\ alone = {} /\ failed = {} /\ gated = 0 /\ bypassed = 0
  /\ legacy = FALSE /\ plan = NoRate /\ mcs = (CHOOSE m \in Mcs : TRUE) /\ down = FALSE
  /\ waited = [f \in TxFrame |-> 0] /\ blocked = [f \in TxFrame |-> 0] /\ txChanges = 0

Held == ToSet(queue) \cup ToSet(batch)

\* inject takes the intent from the legacy gate; send_robust's is always robust.
inject(f, kind) ==
  /\ ~down /\ stage[f] = "new" /\ \A g \in TxFrame : g < f => stage[g] # "new"
  /\ stage' = [stage EXCEPT ![f] = "intent"]
  /\ read' = [read EXCEPT ![f].kind = kind, ![f].robust = kind = "control" \/ legacy]
  /\ UNCHANGED <<batcher, air, alone, gated, bypassed, shared>>

\* inject_with_intent reads the gate again, then waits for the slot; only
\* control frames do not.
inject_with_intent(f) ==
  /\ stage[f] = "intent" /\ stage' = [stage EXCEPT ![f] = "gate"]
  /\ read' = [read EXCEPT ![f].capped = legacy]
  /\ IF read[f].kind = "control" THEN bypassed' = bypassed + 1 /\ UNCHANGED gated
                                 ELSE gated' = gated + 1 /\ UNCHANGED bypassed
  /\ UNCHANGED <<batcher, air, alone, shared>>

\* Past the gate: the rate, and the way out.
Decided(f) == IF read[f].robust \/ read[f].capped THEN NoRate ELSE mcs
Coalesced(f) == ~read[f].robust /\ read[f].kind # "apart" /\ plan # 0

Frame(f, r, n) == [frame |-> f, rate |-> r, size |-> n]

Direct(f) ==
  /\ stage[f] = "gate" /\ ~Coalesced(f)
  /\ stage' = [stage EXCEPT ![f] = "direct"] /\ read' = [read EXCEPT ![f].rate = Decided(f)]
  /\ alone' = alone \cup {Frame(f, Decided(f), 0)}
  /\ UNCHANGED <<batcher, air, gated, bypassed, shared>>

\* The receiver lives as long as the face: nobody is told Closed.
submit(f) ==
  /\ stage[f] = "gate" /\ Coalesced(f)
  /\ read' = [read EXCEPT ![f].rate = Decided(f)]
  /\ stage' = [stage EXCEPT ![f] = "queued"] /\ queue' = Append(queue, f)
  /\ blocked' = [blocked EXCEPT ![f] = IF busy >= 0 THEN 1 ELSE 0]
  /\ UNCHANGED <<batch, cap, left, busy, failed, waited, air, alone, gated, bypassed, shared>>

\* The batcher's task: the plan sizes a batch when its first frame is there.
Idle == batch = <<>> /\ busy = -1
Open ==
  /\ ~down /\ Idle /\ queue # <<>>
  /\ batch' = <<Head(queue)>> /\ queue' = Tail(queue) /\ left' = Window
  /\ cap' = IF plan = NoRate THEN MaxMsdus ELSE IF plan = 0 THEN 1 ELSE plan
  /\ UNCHANGED <<stage, read, busy, failed, waited, blocked, air, alone, gated, bypassed, shared>>

Filling == batch # <<>> /\ busy = -1
Joined_front(b, f) == <<f>> \o b
Joined(b, f) == Append(b, f)
Room(b) == Len(b) < cap
\* timeout_at polls the channel before the clock: a frame at hand still joins.
Join ==
  /\ ~down /\ Filling /\ Room(batch) /\ queue # <<>>
  /\ batch' = Joined(batch, Head(queue)) /\ queue' = Tail(queue)
  /\ UNCHANGED <<stage, read, cap, left, busy, failed, waited, blocked, air, alone, gated, bypassed, shared>>

Full == Len(batch) >= cap \/ (left = 0 /\ queue = <<>>)
Flush ==
  /\ ~down /\ Filling /\ Full /\ busy' = 0
  /\ blocked' = [f \in TxFrame |-> IF f \in Held THEN blocked[f] + 1 ELSE blocked[f]]
  /\ UNCHANGED <<stage, read, queue, batch, cap, left, failed, waited, air, alone, gated, bypassed, shared>>

RateIn(b, f) ==
  LET i == SelectLastInSeq(b, LAMBDA g : read[g].rate # NoRate)
  IN IF read[f].rate # NoRate \/ i = 0 THEN read[f].rate ELSE read[b[i]].rate

Injected(ok) ==
  /\ ~down /\ busy >= 0 /\ busy' = -1 /\ batch' = <<>>
  /\ IF ok THEN /\ air' = air \o [i \in DOMAIN batch |-> Frame(batch[i], RateIn(batch, batch[i]), Len(batch))]
                /\ UNCHANGED failed
           ELSE failed' = failed \cup ToSet(batch) /\ UNCHANGED air
  /\ stage' = [f \in TxFrame |-> IF f \notin ToSet(batch) THEN stage[f] ELSE IF ok THEN "sent" ELSE "failed"]
  /\ waited' = [f \in TxFrame |-> IF f \in ToSet(batch) THEN 0 ELSE waited[f]]
  /\ blocked' = [f \in TxFrame |-> IF f \in ToSet(batch) THEN 0 ELSE blocked[f]]
  /\ UNCHANGED <<read, queue, cap, left, alone, gated, bypassed, shared>>

\* Dropping the face, when nobody is sending on it, aborts the batcher's task
\* wherever it is.
TearDown ==
  /\ ~down /\ down' = TRUE /\ \A f \in TxFrame : stage[f] \notin {"intent", "gate"}
  /\ UNCHANGED <<stage, read, batcher, air, alone, gated, bypassed, legacy, plan, mcs, txChanges>>

\* The control loop, between any two of the above.
Change ==
  /\ ~down /\ txChanges < TxMaxChanges /\ txChanges' = txChanges + 1
  /\ \/ legacy' = ~legacy /\ UNCHANGED <<plan, mcs>>
     \/ plan' \in PlanSizes \ {plan} /\ UNCHANGED <<legacy, mcs>>
     \/ mcs' \in Mcs \ {mcs} /\ UNCHANGED <<legacy, plan>>
  /\ UNCHANGED <<stage, read, batcher, air, alone, gated, bypassed, down>>

\* The batcher's task runs when it has something to do.
Prompt == ~down => /\ ~(Idle /\ queue # <<>>) /\ ~(Filling /\ (Full \/ queue # <<>>))
                   /\ busy < InjectTime
MaxWait == Window + InjectTime * Cardinality(TxFrame) + 1
TxTick ==
  /\ ~down /\ Prompt /\ batch # <<>>
  /\ left' = (IF left > 0 THEN left - 1 ELSE 0) /\ busy' = (IF busy >= 0 THEN busy + 1 ELSE busy)
  /\ waited' = [f \in TxFrame |-> IF f \in Held /\ waited[f] < MaxWait THEN waited[f] + 1 ELSE waited[f]]
  /\ UNCHANGED <<stage, read, queue, batch, cap, failed, blocked, air, alone, gated, bypassed, shared>>

TxNext ==
  \/ \E f \in TxFrame : (\E k \in Kinds : inject(f, k)) \/ inject_with_intent(f) \/ Direct(f) \/ submit(f)
  \/ Open \/ Join \/ Flush \/ (\E ok \in BOOLEAN : Injected(ok)) \/ TearDown \/ Change \/ TxTick
BatcherFair == WF_txVars(Open) /\ WF_txVars(Join) /\ WF_txVars(Flush) /\ WF_txVars(Injected(TRUE) \/ Injected(FALSE)) /\ WF_txVars(TxTick)
TxSpec == TxInit /\ [][TxNext]_txVars /\ BatcherFair

(* ------------------------------ properties ------------------------------- *)
\* Types of the state, and each frame in one place.
TxTypeOK ==
  /\ Len(batch) <= cap /\ left \in 0 .. Window /\ busy \in -1 .. InjectTime
  /\ \A f \in TxFrame : stage[f] = "queued" <=> f \in Held

\* Each frame leaves at the rate decided for it, alone or in a batch.  One is left
\* out: a frame that the legacy gate capped after its intent had been taken is
\* coalesced all the same, and in a batch with a frame that has a rate it leaves at
\* that throughput rate, against medium.rs:1107 and 1588, which put all that is
\* sent while the gate is up at the rate of the worst receiver.
EachAtItsRate ==
  /\ \A a \in alone : a.rate = read[a.frame].rate
  /\ \A i \in DOMAIN air : LET r == read[air[i].frame] IN
       \/ air[i].rate = r.rate
       \/ /\ r.capped /\ r.rate = NoRate
          /\ \E j \in DOMAIN air : /\ air[j].size = air[i].size /\ air[j].size > 1
                                  /\ air[i].rate = read[air[j].frame].rate

\* A frame for the worst receiver is never held back nor aggregated.
RobustGoesAtOnce == \A f \in TxFrame : read[f].robust => stage[f] \notin {"queued", "sent", "failed"}

\* Coalescing costs a frame the window at most, besides the time the radio
\* takes for the injections it waits behind.
HeldNoLongerThanTheWindow ==
  \A f \in Held : waited[f] <= Window + InjectTime * blocked[f]

\* What has been accepted leaves or is refused by the radio, if the face stays.
AcceptedLeaves == \A f \in TxFrame : stage[f] = "queued" ~> (stage[f] # "queued" \/ down)

\* The batcher changes when a frame leaves and with which, and nothing else.
BatcherInv == TxTypeOK /\ EachAtItsRate /\ RobustGoesAtOnce /\ HeldNoLongerThanTheWindow

\* Under all this the batcher is a queue: in order, nothing twice, whole bursts.
Ordered == INSTANCE FrameQueue WITH
  Offerable <- TxFrame, Burst <- MaxBatch, waiting <- batch \o queue,
  delivered <- [i \in DOMAIN air |-> air[i].frame], refused <- failed, shut <- down
BatcherIsAQueue == Ordered!QueueSpec

----------------------------------------------------------------------------
(* The receiving half of the medium (medium.rs: the reader task of a radio,    *)
(* LinkSignalStore): one task per radio, and what all of them share: the       *)
(* channel up to the face, and the signals kept per link and per neighbour.    *)

CONSTANTS
  NoOne,
  Sender, SenderId,       \* neighbours, and the IDs they may hold
  Nonce,                  \* the source field of each, of legacy frames
  RxRadio,                \* radios of this face
  Fresh,                  \* age up to which neighbour_count counts
  RxMaxFrames, RxMaxClock, MaxObservations, MaxRotations

ASSUME RxAssumption == Fresh \in Nat /\ \A n \in Sender : Nonce[n] \notin SenderId

VARIABLES
  held,         \* ID of each neighbour
  arriving,     \* frames each radio has yet to read
  up,           \* what the face was given
  link,         \* LinkSignalStore: signal of the face
  perSource,    \* and of each neighbour: when it was updated
  timeRefs,     \* reference times ingested
  observed, lastMesh, ingested,  \* mesh beacons seen by the hardware, the last taken, all taken
  rxNow,
  heardAt, owners, rxSent        \* history: when each neighbour was read last, who held an ID, frames sent

rxVars == <<held, arriving, up, link, perSource, timeRefs, observed, lastMesh, ingested, rxNow, heardAt, owners, rxSent>>

ReceiveInit ==
  /\ held = (CHOOSE h \in [Sender -> SenderId] : \A m, n \in Sender : m # n => h[m] # h[n])
  /\ arriving = [r \in RxRadio |-> <<>>] /\ up = <<>> /\ link = NoOne
  /\ perSource = [a \in SenderId \cup {Nonce[n] : n \in Sender} |-> -1] /\ timeRefs = 0
  /\ observed = [r \in RxRadio |-> 0] /\ lastMesh = [r \in RxRadio |-> 0] /\ ingested = [r \in RxRadio |-> <<>>]
  /\ rxNow = 0 /\ heardAt = [n \in Sender |-> -1] /\ owners = [i \in SenderId |-> {n \in Sender : held[n] = i}] /\ rxSent = 0

\* A neighbour's frame: data, data carrying a hint about another ID, a time
\* beacon, or one in the legacy shape, without an ID.  Radios may miss it.
FrameKinds == {"data", "hint", "beacon", "legacy"}
Air(n, kind, about, hearing) ==
  /\ rxSent < RxMaxFrames /\ rxSent' = rxSent + 1
  /\ kind = "hint" <=> about # NoOne
  /\ arriving' = [r \in RxRadio |-> IF r \in hearing
       THEN Append(arriving[r], [of |-> n, kind |-> kind, id |-> IF kind = "hint" THEN about ELSE held[n]]) ELSE arriving[r]]
  /\ UNCHANGED <<held, up, link, perSource, timeRefs, observed, lastMesh, ingested, rxNow, heardAt, owners>>

Rotations == Cardinality({p \in SenderId \X Sender : p[2] \in owners[p[1]]}) - Cardinality(Sender)
Rotate(n, new) ==
  /\ Rotations < MaxRotations /\ \A m \in Sender : held[m] # new
  /\ held' = [held EXCEPT ![n] = new] /\ owners' = [owners EXCEPT ![new] = @ \cup {n}]
  /\ UNCHANGED <<arriving, up, link, perSource, timeRefs, observed, lastMesh, ingested, rxNow, heardAt, rxSent>>

MeshBeacon(r) ==
  /\ observed[r] < MaxObservations /\ observed' = [observed EXCEPT ![r] = @ + 1]
  /\ UNCHANGED <<held, arriving, up, link, perSource, timeRefs, lastMesh, ingested, rxNow, heardAt, owners, rxSent>>

\* Whom a frame is credited to: nobody when it is a hint, as the ID it carries
\* is another's.
nonce_of_any(f) == IF f.kind = "legacy" THEN Nonce[f.of] ELSE f.id
nonce_of(f) == IF f.kind = "hint" THEN NoOne ELSE IF f.kind = "legacy" THEN Nonce[f.of] ELSE f.id

\* The mesh observation counter is looked at with every frame, and each of its
\* values is used once.
MeshTaken(r) == observed[r] # lastMesh[r]

\* Time beacons are consumed here.
Passed(f) == f.kind # "beacon"

\* One frame, from the radio to the face.
Read(r) ==
  /\ arriving[r] # <<>>
  /\ LET f == Head(arriving[r]) IN
       /\ arriving' = [arriving EXCEPT ![r] = Tail(@)]
       /\ lastMesh' = [lastMesh EXCEPT ![r] = observed[r]]
       /\ ingested' = IF MeshTaken(r) THEN [ingested EXCEPT ![r] = Append(@, observed[r])] ELSE ingested
       /\ timeRefs' = IF f.kind = "beacon" THEN timeRefs + 1 ELSE timeRefs
       /\ IF ~Passed(f) THEN UNCHANGED <<up, link, perSource, heardAt>>
          ELSE /\ up' = Append(up, [of |-> f.of, addr |-> nonce_of(f), radio |-> r])
               /\ link' = f.of
               /\ perSource' = IF nonce_of(f) = NoOne THEN perSource ELSE [perSource EXCEPT ![nonce_of(f)] = rxNow]
               /\ heardAt' = [heardAt EXCEPT ![f.of] = rxNow]
  /\ UNCHANGED <<held, observed, rxNow, owners, rxSent>>

RxTick ==
  /\ rxNow < RxMaxClock /\ rxNow' = rxNow + 1
  /\ UNCHANGED <<held, arriving, up, link, perSource, timeRefs, observed, lastMesh, ingested, heardAt, owners, rxSent>>

ReceiveNext ==
  \/ \E n \in Sender, k \in FrameKinds, about \in SenderId \cup {NoOne}, h \in SUBSET RxRadio : Air(n, k, about, h)
  \/ \E n \in Sender, new \in SenderId : Rotate(n, new)
  \/ \E r \in RxRadio : MeshBeacon(r) \/ Read(r)
  \/ RxTick
ReceiveSpec == ReceiveInit /\ [][ReceiveNext]_rxVars

fresh(t) == t # -1 /\ rxNow - t <= Fresh
neighbour_count == Cardinality({a \in DOMAIN perSource : fresh(perSource[a])})

(* ------------------------------ properties ------------------------------- *)
\* Types of the state, and no frame both taken for the clock and passed on.
ReceiveTypeOK ==
  /\ Len(up) + timeRefs <= rxSent * Cardinality(RxRadio)
  /\ \A r \in RxRadio : lastMesh[r] <= observed[r]
  /\ \A a \in DOMAIN perSource : perSource[a] \in -1 .. rxNow

\* A packet given to the face is credited to an ID its sender has held: not to
\* the ID of a hint, nor to one out of a frame without any.
CreditedToItsSender ==
  \A i \in DOMAIN up : up[i].addr \in SenderId => up[i].of \in owners[up[i].addr]

\* A mesh observation is folded into the clock once, however many frames come
\* between two of them, and in order.
ObservationsFoldInOnce == \A r \in RxRadio : \A i, j \in DOMAIN ingested[r] : i < j => ingested[r][i] < ingested[r][j]

\* The number of neighbours the plans are sized by: one read of late counts
\* once for each ID it has held and once for its nonce, the silent do not.
CountIsOfTheHeard ==
  neighbour_count <= 2 * Cardinality({n \in Sender : heardAt[n] # -1 /\ rxNow - heardAt[n] <= Fresh}) + Rotations

\* What readers of several radios tell the shared store is true of the sender.
ReceiveInv == ReceiveTypeOK /\ CreditedToItsSender /\ ObservationsFoldInOnce /\ CountIsOfTheHeard
=============================================================================
