------------------------------ MODULE LinkFec ------------------------------
(***************************************************************************)
(* Link FEC between the senders and one receiver of a Wi-Fi bearer: the    *)
(* batching task of LinkFecBridge over LinkFecFeature and LinkFecTx, the   *)
(* radio link, the decoder LinkFecRx and the residual-loss meter behind it.*)
(*                                                                         *)
(* A frame is known by its sender and its LP sequence number.  A generation*)
(* is the sequence of the frames it codes.  The code is maximum distance   *)
(* separable: frames of different index are independent rows, so the rank  *)
(* of a decoder is the number of indices it holds, up to k.                *)
(***************************************************************************)
EXTENDS Integers, FiniteSets, Sequences, SequencesExt

CONSTANTS
  Tx,         \* senders heard by the receiver
  K,          \* source frames per generation
  MaxN,       \* MAX_N: the most frames a generation may have (255)
  Window,     \* ticks before a partial generation is flushed
  Cap,        \* generations the receiver keeps
  GenSpace,   \* size of the generation counter (2^16)
  Parities,   \* what the plan may ask for: 0 (send uncoded) or more
  SizeOf,     \* the size of the frame with a sequence number
  MaxFrames,  \* bound: frames per sender
  MaxTime     \* bound: the instant the clock stops at

ASSUME FecAssumption ==
  /\ K \in Nat \ {0} /\ MaxN \in Nat /\ K < MaxN
  /\ Window \in Nat /\ Cap \in Nat \ {0} /\ GenSpace \in Nat \ {0}
  /\ Parities \subseteq Nat
  /\ MaxFrames \in Nat /\ MaxTime \in Nat
  /\ SizeOf \in [1 .. MaxFrames -> Nat]

VARIABLES
  now,         \* the sender's clock
  offered,     \* frames handed to the bearer so far
  inbox,       \* the channel from send to the batching task
  pending,     \* the generation being filled
  deadline,    \* gen_deadline
  parity,      \* LinkFecTx::redundancy
  generation,  \* LinkFecTx::generation
  sink,        \* coded frames the sink has still to inject
  link,        \* frames on their way to the receiver
  gens, order, \* LinkFecRx
  got,         \* how often the receiver has delivered each frame
  invented,    \* it has delivered something that was never a frame
  meter,       \* LossMeter
  heard,       \* coded frames the receiver has absorbed
  emitted      \* frames that have left their sender, coded or not

taskVars == <<inbox, pending, deadline, parity, generation, sink>>
txVars == <<offered, taskVars, emitted>>
rxVars == <<gens, order, got, invented, meter, heard>>
vars   == <<now, txVars, link, rxVars>>

None == -1  \* no deadline, no sequence number yet, no size yet

Ids   == Tx \X (1 .. MaxFrames)
Id(p) == <<p.src, p.seq>>

(* A payload recovered from rows that do not belong together. *)
Garbage == <<CHOOSE s \in Tx : TRUE, 0>>

---------------------------------------------------------------------------
(* The codec. *)

SegLen(ids) == FoldLeft(LAMBDA z, id : IF SizeOf[id[2]] > z THEN SizeOf[id[2]] ELSE z, 0, ids)

Plain(p) == [coded |-> FALSE, of |-> <<Id(p)>>, late |-> FALSE]

(* "asked" is the parity the opening frame asked for; it does not travel. *)
Coded(g, gen, n, i) ==
  [coded |-> TRUE, of |-> [j \in DOMAIN gen |-> Id(gen[j])], asked |-> gen[1].asked,
   gen |-> g, k |-> Len(gen), n |-> n, index |-> i, late |-> FALSE]

(* LinkFecTx::encode: nothing at all when the generation is too long. *)
Encode(g, gen, r) ==
  LET n == Len(gen) + r
  IN  IF n > MaxN THEN << >> ELSE [j \in 1 .. n |-> Coded(g, gen, n, j - 1)]

(* Faulty variant: the asked parity count is taken as it is. *)
AdoptedUnclamped(r) == r

(* LinkFecFeature::set_redundancy *)
Adopted(r) == IF r > MaxN - K THEN MaxN - K ELSE r

NewGen(f) == [k |-> f.k, n |-> f.n, size |-> None, rows |-> << >>, delivered |-> {}, done |-> FALSE]

(* The payload row i of a decoder holds, if it is a source row. *)
Body(gen, i) == IF i < Len(gen) THEN gen[i + 1] ELSE Garbage

(* What elimination leaves in row i once the rank is full. *)
Recovered(rows, i) ==
  IF i \in DOMAIN rows THEN Body(rows[i], i)
  ELSE IF \A a, b \in DOMAIN rows : rows[a] = rows[b]
       THEN Body(rows[CHOOSE a \in DOMAIN rows : TRUE], i)
       ELSE Garbage

(* Decoder::absorb refuses the frame. *)
Refused(st, f) == f.index >= st.n \/ st.size \notin {None, SegLen(f.of)}

(* Faulty variant: what parity has recovered is delivered again on arrival. *)
FreshAgain(st, f) == IF f.index < f.k /\ f.index < st.k THEN {f.index} ELSE {}

(* Faulty variant: source frames are held back until their turn. *)
FreshInOrder(st, f) ==
  IF f.index < f.k /\ f.index < st.k /\ st.delivered = 0 .. f.index - 1 THEN {f.index} ELSE {}

(* The index of f, when f is a source frame not delivered yet. *)
Fresh(st, f) ==
  IF f.index < f.k /\ f.index < st.k /\ f.index \notin st.delivered THEN {f.index} ELSE {}

(* Decoder::absorb_row: a frame is a new row until the rank is full. *)
Rows(st, f) ==
  IF Cardinality(DOMAIN st.rows) = st.k THEN st.rows
  ELSE [i \in DOMAIN st.rows \cup {f.index} |-> IF i \in DOMAIN st.rows THEN st.rows[i] ELSE f.of]

(* Indices in their order. *)
Rising(set) ==
  CHOOSE q \in [1 .. Cardinality(set) -> set] : \A i, j \in DOMAIN q : i < j => q[i] < q[j]

(* The generation after the frame, and what the frame makes deliverable now. *)
AfterFrame(st, f) ==
  LET rows == Rows(st, f)
      full == ~st.done /\ Cardinality(DOMAIN rows) = st.k
      fresh == Fresh(st, f)
      missing == IF full THEN (0 .. st.k - 1) \ (st.delivered \cup fresh) ELSE {}
      own  == IF fresh = {} THEN << >> ELSE <<Body(f.of, f.index)>>
      rest == [j \in 1 .. Cardinality(missing) |-> Recovered(rows, Rising(missing)[j])]
  IN  IF Refused(st, f)
      THEN [st |-> [st EXCEPT !.delivered = @ \cup fresh], out |-> << >>]
      ELSE [st |-> [st EXCEPT !.size = SegLen(f.of), !.rows = rows, !.done = @ \/ full,
                              !.delivered = @ \cup fresh \cup missing],
            out |-> own \o rest]

(* LossMeter::observe *)
Observe(m, p) ==
  IF p = Garbage THEN m
  ELSE [last |-> p[2],
        gaps |-> m.gaps + (IF m.last # None /\ p[2] > m.last + 1 THEN p[2] - m.last - 1 ELSE 0)]

---------------------------------------------------------------------------
Init ==
  /\ now = 0
  /\ offered    = [s \in Tx |-> 0]
  /\ inbox      = [s \in Tx |-> << >>]
  /\ pending    = [s \in Tx |-> << >>]
  /\ deadline   = [s \in Tx |-> None]
  /\ parity     = [s \in Tx |-> 0]
  /\ generation = [s \in Tx |-> 0]
  /\ sink       = [s \in Tx |-> << >>]
  /\ link       = [s \in Tx |-> << >>]
  /\ gens = << >> /\ order = << >>
  /\ got = [id \in Ids |-> 0] /\ invented = FALSE
  /\ meter = [last |-> None, gaps |-> 0]
  /\ heard = {}
  /\ emitted = {}

---------------------------------------------------------------------------
(* The sender. *)

(* inject_with_intent past the gate: uncoded when no parity is wanted. *)
Offer(s, r) ==
  LET p == [src |-> s, seq |-> offered[s] + 1, asked |-> r, at |-> now] IN
  /\ offered[s] < MaxFrames /\ now + Window < MaxTime
  /\ offered' = [offered EXCEPT ![s] = @ + 1]
  /\ IF r = 0
     THEN /\ link' = [link EXCEPT ![s] = Append(@, Plain(p))]
          /\ emitted' = emitted \cup {Id(p)}
          /\ UNCHANGED taskVars
     ELSE /\ inbox' = [inbox EXCEPT ![s] = Append(@, p)]
          /\ UNCHANGED <<pending, deadline, parity, generation, sink, link, emitted>>
  /\ UNCHANGED <<now, rxVars>>

(* A generation is complete: LinkFecFeature::encode hands it to the sink. *)
Flush(s, gen, r) ==
  LET frames == Encode(generation[s], gen, r) IN
  /\ sink'       = [sink EXCEPT ![s] = frames]
  /\ generation' = [generation EXCEPT ![s] = IF frames = << >> THEN @ ELSE (@ + 1) % GenSpace]
  /\ pending'    = [pending EXCEPT ![s] = << >>]
  /\ deadline'   = [deadline EXCEPT ![s] = None]

(* on_send: the generation goes out when it has K frames. *)
Buffer(s, gen, r, due) ==
  IF Len(gen) >= K THEN Flush(s, gen, r)
  ELSE /\ pending'  = [pending EXCEPT ![s] = gen]
       /\ deadline' = [deadline EXCEPT ![s] = due]
       /\ UNCHANGED <<generation, sink>>

(* The batching task is back at its receive with a frame to take. *)
Takes(s) ==
  /\ sink[s] = << >> /\ inbox[s] # << >>
  /\ inbox' = [inbox EXCEPT ![s] = Tail(@)]
  /\ UNCHANGED <<now, offered, link, rxVars, emitted>>

(* It takes the frame that opens a generation, and its parity. *)
Open(s) ==
  LET p == Head(inbox[s]) IN
  /\ Takes(s) /\ deadline[s] = None
  /\ parity' = [parity EXCEPT ![s] = Adopted(p.asked)]
  /\ Buffer(s, <<p>>, Adopted(p.asked), now + Window)

(* Faulty variant: every frame retunes the generation it joins. *)
FillRetuning(s) ==
  LET p == Head(inbox[s]) IN
  /\ Takes(s) /\ deadline[s] # None
  /\ parity' = [parity EXCEPT ![s] = Adopted(p.asked)]
  /\ Buffer(s, Append(pending[s], p), Adopted(p.asked), deadline[s])

(* Faulty variant: every frame pushes the deadline back. *)
FillRestartingTheWindow(s) ==
  /\ Takes(s) /\ deadline[s] # None
  /\ Buffer(s, Append(pending[s], Head(inbox[s])), parity[s], now + Window)
  /\ UNCHANGED parity

(* It takes a further frame: one that waits is taken even past the deadline. *)
Fill(s) ==
  /\ Takes(s) /\ deadline[s] # None
  /\ Buffer(s, Append(pending[s], Head(inbox[s])), parity[s], deadline[s])
  /\ UNCHANGED parity

(* The window has elapsed: what is pending goes out as a short generation. *)
TailFlush(s) ==
  /\ sink[s] = << >> /\ deadline[s] # None /\ inbox[s] = << >> /\ now >= deadline[s]
  /\ Flush(s, pending[s], parity[s])
  /\ UNCHANGED <<now, offered, inbox, parity, link, rxVars, emitted>>

(* RadioFecSink::emit injects the coded frames one after the other. *)
Emit(s) ==
  LET f == Head(sink[s]) IN
  /\ sink[s] # << >>
  /\ sink' = [sink EXCEPT ![s] = Tail(@)]
  /\ link' = [link EXCEPT ![s] = Append(@, f)]
  /\ emitted' = emitted \cup (IF f.index < f.k THEN {f.of[f.index + 1]} ELSE {})
  /\ UNCHANGED <<now, offered, inbox, pending, deadline, parity, generation, rxVars>>

(* Time passes when no task has anything to do. *)
Tick ==
  /\ now < MaxTime
  /\ \A s \in Tx : /\ inbox[s] = << >> /\ sink[s] = << >>
                   /\ deadline[s] # None => now < deadline[s]
  /\ now' = now + 1
  /\ UNCHANGED <<txVars, link, rxVars>>

---------------------------------------------------------------------------
(* The link and the receiver. *)

(* The receive task passes what is deliverable to the meter and upwards. *)
Deliver(out) ==
  /\ got' = [id \in Ids |-> got[id] +
               Cardinality({j \in DOMAIN out : out[j] = id})]
  /\ invented' = (invented \/ Garbage \in ToSet(out))
  /\ meter' = FoldLeft(Observe, meter, out)

(* LinkFecRx::absorb and on_recv *)
Absorb(f) ==
  IF ~f.coded THEN Deliver(f.of) /\ UNCHANGED <<gens, order, heard>>
  ELSE LET held  == f.gen \in DOMAIN gens
           full  == ~held /\ Cardinality(DOMAIN gens) >= Cap
           kept  == IF full THEN DOMAIN gens \ {Head(order)} ELSE DOMAIN gens
           after == AfterFrame(IF held THEN gens[f.gen] ELSE NewGen(f), f)
       IN
       /\ order' = IF held THEN order
                   ELSE Append(IF full THEN Tail(order) ELSE order, f.gen)
       /\ gens'  = [g \in kept \cup {f.gen} |-> IF g = f.gen THEN after.st ELSE gens[g]]
       /\ heard' = heard \cup {<<f.of, f.index>>}
       /\ Deliver(after.out)

Receive(s) ==
  /\ link[s] # << >>
  /\ Absorb(Head(link[s]))
  /\ link' = [link EXCEPT ![s] = Tail(@)]
  /\ UNCHANGED <<now, txVars>>

(* Reordering is short: it spans fewer generations than the receiver keeps. *)
Close(f, h) == f.coded /\ h.coded => (h.gen - f.gen) % GenSpace < Cap - 1

(* A frame is overtaken by the next, once at most. *)
Overtake(s) ==
  /\ Len(link[s]) >= 2 /\ ~link[s][1].late /\ Close(link[s][1], link[s][2])
  /\ Absorb(link[s][2])
  /\ link' = [link EXCEPT ![s] = <<[@[1] EXCEPT !.late = TRUE]>> \o Tail(Tail(@))]
  /\ UNCHANGED <<now, txVars>>

Lose(s) ==
  /\ link[s] # << >>
  /\ link' = [link EXCEPT ![s] = Tail(@)]
  /\ UNCHANGED <<now, txVars, rxVars>>

(* The modelled stretch is over. *)
Quiet ==
  /\ now = MaxTime /\ \A s \in Tx : link[s] = << >>
  /\ UNCHANGED vars

Next ==
  \/ \E s \in Tx : \/ \E r \in Parities : Offer(s, r)
                   \/ Open(s) \/ Fill(s) \/ TailFlush(s) \/ Emit(s)
                   \/ Receive(s) \/ Overtake(s) \/ Lose(s)
  \/ Tick
  \/ Quiet

Spec == Init /\ [][Next]_vars

(* The runtime polls a task that is ready, and the clock moves. *)
Fairness ==
  /\ \A s \in Tx : WF_vars(Open(s)) /\ WF_vars(Fill(s)) /\ WF_vars(TailFlush(s)) /\ WF_vars(Emit(s))
  /\ WF_vars(Tick)

FairSpec == Spec /\ Fairness

---------------------------------------------------------------------------
(* TypeOK: the state of the senders, the link and the receiver. *)
TypeOK ==
  /\ now \in 0 .. MaxTime
  /\ offered \in [Tx -> 0 .. MaxFrames]
  /\ \A s \in Tx : Len(pending[s]) < K /\ deadline[s] \in {None} \cup 0 .. MaxTime
  /\ \A s \in Tx : (deadline[s] = None) = (pending[s] = << >>)
  /\ parity \in [Tx -> 0 .. MaxN - K]
  /\ generation \in [Tx -> 0 .. GenSpace - 1]
  /\ DOMAIN gens \subseteq 0 .. GenSpace - 1 /\ Cardinality(DOMAIN gens) <= Cap
  /\ ToSet(order) = DOMAIN gens /\ Len(order) = Cardinality(DOMAIN gens)
  /\ got \in [Ids -> Nat] /\ invented \in BOOLEAN

(***************************************************************************)
(* Each payload is delivered exactly once, as LinkFecRx promises, however  *)
(* arrival, recovery and eviction interleave: no frame reaches the face    *)
(* twice and nothing does that no sender sent.                             *)
(***************************************************************************)
EachDeliveredOnce ==
  ~invented /\ \A id \in Ids : got[id] <= (IF id \in emitted THEN 1 ELSE 0)

(***************************************************************************)
(* A receiver recovers all k frames of a generation from any k of its n:   *)
(* once k different ones have been absorbed, every frame of the generation *)
(* has been delivered, whatever was lost or overtaken.                     *)
(***************************************************************************)
AnyKRecoverAll ==
  \A gen \in {h[1] : h \in heard} :
    Cardinality({h \in heard : h[1] = gen}) >= Len(gen) =>
      \A j \in DOMAIN gen : got[gen[j]] = 1

(***************************************************************************)
(* The receiver delivers each source frame the instant it arrives and an   *)
(* arrived source is never withheld, even if its generation never          *)
(* completes.                                                              *)
(***************************************************************************)
ArrivedSourcesAreDelivered ==
  \A h \in heard : h[2] < Len(h[1]) => got[h[1][h[2] + 1]] >= 1

(***************************************************************************)
(* What the decoder promises of the frames it has absorbed, in the states  *)
(* it can be in: sources are out as they arrive, the rest with the k-th.   *)
(***************************************************************************)
DecoderInv == TypeOK /\ AnyKRecoverAll /\ ArrivedSourcesAreDelivered

(***************************************************************************)
(* R belongs to the generation: every generation on the air has the parity *)
(* its opening frame asked for, whatever the frames that joined it asked.  *)
(***************************************************************************)
ParityIsTheOpeners ==
  \A s \in Tx : \A f \in ToSet(sink[s] \o link[s]) :
    f.coded => f.n - f.k = Adopted(f.asked)

(***************************************************************************)
(* The window is anchored at the frame that opens a generation: no frame   *)
(* is held back longer than the window, however the frames trickle in.     *)
(***************************************************************************)
NoneHeldBeyondTheWindow ==
  \A s \in Tx : \A j \in DOMAIN pending[s] : now - pending[s][j].at <= Window

(***************************************************************************)
(* Every frame handed to the bearer eventually leaves its sender: neither  *)
(* a generation that never fills nor a parity count beyond the codec's     *)
(* bound strands it.                                                       *)
(***************************************************************************)
EveryFrameLeaves ==
  \A id \in Ids : offered[id[1]] >= id[2] ~> id \in emitted
===========================================================================
