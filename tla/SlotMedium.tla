---------------------------- MODULE SlotMedium ----------------------------
(***************************************************************************)
(* Gated bearers on one broadcast channel: what a grant of SlotGate comes  *)
(* to on the air.  A granted frame is handed to the MAC queue of its radio *)
(* and leaves it when the radio is free and not held (set_tx_hold).  A     *)
(* frame that crosses no other is received by every other node when it     *)
(* ENDS: only then does observe_rx mark the slot busy.  Control frames     *)
(* (send_robust, the time beacon) are queued without passing the gate.     *)
(***************************************************************************)
EXTENDS SlotGate

CONSTANTS
  NonceOf,     \* the presence nonce of a node
  Control,     \* the name-groups of frames sent past the gate
  MaxControl,  \* bound: control frames per node
  MaxBacklog   \* bound: frames a radio may hold when a call is offered one more

ASSUME MediumAssumption ==
  /\ NonceOf \in [Node -> Nonces]
  /\ Control \subseteq Name
  /\ MaxControl \in Nat
  /\ MaxBacklog \in Nat \ {0}
  /\ \A s \in Sender : Sends[s] \subseteq Audible
  /\ Control \subseteq Audible

VARIABLES
  queue,  \* the frames in a radio's MAC queue
  air,    \* what a radio is sending
  ears,   \* receptions the receive tasks have still to observe
  sent    \* control frames queued so far

mediumVars == <<queue, air, ears, sent>>
allVars    == <<vars, mediumVars>>

Silence == [ends |-> 0]

OnAir(n) == air[n] # Silence

Frame(m, kind, slot) == [name |-> m, how |-> kind, slot |-> slot]

(* A control frame has no slot; it keeps the instant it was queued at. *)
ControlFrame(m) == Frame(m, "control", now)

MediumInit ==
  /\ Init
  /\ queue = [n \in Node |-> << >>]
  /\ air   = [n \in Node |-> Silence]
  /\ ears  = {}
  /\ sent  = [n \in Node |-> 0]

(* A call of gate returns and its frame joins the MAC queue. *)
Enqueue(s) ==
  LET n == NodeOf[s] IN
  /\ Inject(s)
  /\ queue' = [queue EXCEPT ![n] = Append(@, Frame(frame[s], how[s], slotAt[s]))]
  /\ UNCHANGED <<air, ears, sent>>

(* inject_with_intent of a control frame: it passes no gate. *)
SendRobust(n, m) ==
  /\ sent[n] < MaxControl
  /\ queue' = [queue EXCEPT ![n] = Append(@, ControlFrame(m))]
  /\ sent'  = [sent EXCEPT ![n] = @ + 1]
  /\ UNCHANGED <<vars, air, ears>>

(* n's frame still has time to run at this instant. *)
Sounding(n) == OnAir(n) /\ air[n].ends > now

MayRadiate(n) == queue[n] # << >> /\ ~OnAir(n) /\ ~txHold[n]

(* The radio sends the head of its queue; frames that overlap both clash. *)
Radiate(n) ==
  LET f == Head(queue[n])
      clash == \E p \in Node : Sounding(p)
  IN
  /\ MayRadiate(n)
  /\ queue' = [queue EXCEPT ![n] = Tail(@)]
  /\ air' = [p \in Node |->
               IF p = n
               THEN [frame |-> f, ends |-> now + Airtime[f.name], clash |-> clash]
               ELSE IF Sounding(p) THEN [air[p] EXCEPT !.clash = TRUE] ELSE air[p]]
  /\ UNCHANGED <<vars, ears, sent>>

(* The frame ends; unless it clashed, every other node has received it. *)
Land(n) ==
  /\ OnAir(n) /\ air[n].ends = now
  /\ air' = [air EXCEPT ![n] = Silence]
  /\ ears' = IF air[n].clash THEN ears
             ELSE ears \cup {<<p, n, air[n].frame.name>> : p \in Node \ {n}}
  /\ UNCHANGED <<vars, queue, sent>>

(* The receive task of node p observes a frame of node n. *)
Hear(p, n, m) ==
  /\ <<p, n, m>> \in ears
  /\ ObserveRx(p, m, NonceOf[n])
  /\ ears' = ears \ {<<p, n, m>>}
  /\ UNCHANGED <<queue, air, sent>>

(* Frames land, are heard and leave the queue before time moves on. *)
MediumTick ==
  /\ ears = {}
  /\ \A n \in Node : ~MayRadiate(n) /\ (OnAir(n) => air[n].ends > now)
  /\ Tick
  /\ UNCHANGED mediumVars

Backlog(n) == Len(queue[n]) + (IF OnAir(n) THEN 1 ELSE 0)

(* A gate step of a call that is not its return. *)
GateStep(s) ==
  /\ \/ \E m \in Sends[s] : Offer(s, m) /\ Backlog(NodeOf[s]) < MaxBacklog
     \/ Retuned(s)
     \/ OwnerTest(s)
     \/ BackoffEnds(s)
     \/ Contend(s)
     \/ ElectionEnds(s)
     \/ LoopTest(s)
     \/ Awake(s)
  /\ UNCHANGED mediumVars

MediumEnds == Horizon /\ UNCHANGED mediumVars

MediumNext ==
  \/ \E s \in Sender : GateStep(s) \/ Enqueue(s)
  \/ \E n \in Node, m \in Control : SendRobust(n, m)
  \/ \E n \in Node : Radiate(n) \/ Land(n)
  \/ \E p, n \in Node, m \in Audible : Hear(p, n, m)
  \/ MediumTick
  \/ MediumEnds

MediumSpec == MediumInit /\ [][MediumNext]_allVars

---------------------------------------------------------------------------
QueuedFrame == [name : Name, how : GrantKind \cup {"control"}, slot : Nat]

(* MediumTypeOK: the queues, the air and the receptions under way; no radio *)
(* receives its own frame.                                                  *)
MediumTypeOK ==
  /\ TypeOK
  /\ queue \in [Node -> Seq(QueuedFrame)]
  /\ air \in [Node -> {Silence} \cup [frame : QueuedFrame, ends : Nat, clash : BOOLEAN]]
  /\ ears \subseteq {e \in Node \X Node \X Name : e[1] # e[2]}
  /\ sent \in [Node -> 0 .. MaxControl]

Radiating(n, kinds) == Sounding(n) /\ air[n].frame.how \in kinds

(***************************************************************************)
(* Slots separate owners: two owner frames are on the air together only if *)
(* they were granted in one and the same slot (by groups that share it).   *)
(* It rests on the clocks agreeing, fits_now and a queue of one together.  *)
(***************************************************************************)
OwnersNeverCross ==
  \A p, q \in Node :
    p # q /\ Radiating(p, {"owner", "turn"}) /\ Radiating(q, {"owner", "turn"})
      => air[p].frame.slot = air[q].frame.slot

(***************************************************************************)
(* A gated frame is off the air when the slot it was granted in ends: the  *)
(* bleed into the next owner's turn that fits_now and the transmit hold    *)
(* are there to prevent.  A radio that has been given a control frame may  *)
(* send that first and is left out: the gate knows nothing of the queue.   *)
(***************************************************************************)
FramesEndWithTheirSlot ==
  \A n \in Node : sent[n] = 0 /\ Radiating(n, {"owner", "turn", "claim", "hold"}) =>
    air[n].ends + Skew[n] <= air[n].frame.slot + Sched.slot_us + Slack

(***************************************************************************)
(* A hold delays a control frame by a superframe at most, and by the       *)
(* frames queued before it: the radio is not left closed over it.          *)
(***************************************************************************)
ControlLeavesInASuperframe ==
  \A n \in Node : \A i \in DOMAIN queue[n] : queue[n][i].how = "control" =>
    now - queue[n][i].slot <= SuperframeUs(Sched) + Sched.slot_us

---------------------------------------------------------------------------
(* The inductive invariant behind the two claims about the air. *)

(* One call of gate per radio: nothing but its own frame occupies it. *)
OneCallPerRadio == \A r, s \in Sender : NodeOf[r] = NodeOf[s] => r = s

(* Gated frames only, and none offered to a radio that still has one. *)
GatedAlone == OneCallPerRadio /\ Control = {} /\ MaxBacklog = 1

(* The radio of a call under way is free: Offer saw no backlog. *)
RadioIsFree(s) ==
  pc[s] # "idle" => queue[NodeOf[s]] = << >> /\ ~OnAir(NodeOf[s])

(* f would end, if it ended at e by the clock of its node, with its slot. *)
KeepsItsSlot(f, n, e) ==
  /\ SlotStart(Sched, f.slot) = f.slot
  /\ f.slot <= Clock(n)
  /\ e <= f.slot + Sched.slot_us + Slack

(* A queued frame is alone and, sent at this instant, keeps its slot. *)
ReadyInv(n) ==
  queue[n] # << >> =>
    /\ Len(queue[n]) = 1
    /\ ~OnAir(n)
    /\ KeepsItsSlot(Head(queue[n]), n, Clock(n) + Airtime[Head(queue[n]).name])

(* A frame on the air keeps its slot. *)
AirInv(n) == OnAir(n) => KeepsItsSlot(air[n].frame, n, air[n].ends + Skew[n])

(***************************************************************************)
(* AirtimeInv: a frame is injected at the instant it is granted, into a    *)
(* radio that is free and open, so it is on the air before time moves on.  *)
(***************************************************************************)
AirtimeInv ==
  /\ MediumTypeOK
  /\ \A s \in Sender : WaitsInTheLoop(s) /\ RadioIsFree(s)
  /\ \A n \in Node : ReadyInv(n) /\ AirInv(n)

---------------------------------------------------------------------------
(* The inductive invariant behind the bound on control frames. *)

(* A slot has room for the control frames of a node and a late sleep. *)
ControlFits(a) ==
  /\ OneCallPerRadio /\ MaxBacklog = 1 /\ RoomToSpare
  /\ \A m \in Name : Airtime[m] <= a
  /\ Oversleep + MaxControl * a <= Sched.slot_us

(* No call of gate is under way on the radio of n. *)
Quiet(n) == \A s \in Sender : NodeOf[s] = n => pc[s] = "idle"

AirLeft(n) == IF OnAir(n) THEN air[n].ends - now ELSE 0

(***************************************************************************)
(* DrainInv: a call was offered to an empty radio, so every control frame  *)
(* in the queue is younger than the call; once no call is under way the    *)
(* radio is open and what is ahead of a frame takes airtime only.          *)
(***************************************************************************)
DrainInv(n, a) ==
  /\ OnAir(n) => now <= air[n].ends /\ air[n].ends <= now + a
  /\ Backlog(n) <= sent[n] + (IF Quiet(n) THEN 1 ELSE 0)
  /\ \A i \in DOMAIN queue[n] : queue[n][i].how = "control" =>
       IF Quiet(n)
       THEN now + AirLeft(n) + (i - 1) * a
              <= queue[n][i].slot + SuperframeUs(Sched) + Oversleep + MaxControl * a
       ELSE \A s \in Sender : NodeOf[s] = n => entry[s] <= queue[n][i].slot + Skew[n]

DrainsInTime(a) == \A n \in Node : DrainInv(n, a)

===========================================================================
