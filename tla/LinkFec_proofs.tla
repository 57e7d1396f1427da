-------------------------- MODULE LinkFec_proofs --------------------------
(***************************************************************************)
(* Link FEC, for any generation size, window, load and loss.  No frame     *)
(* waits longer than the window in the batching task and the parity of a   *)
(* generation is the one its opening frame asked for, for any number of    *)
(* senders.  For one sender whose generation counter does not turn, each   *)
(* payload is delivered once and the decoder recovers all from any k.      *)
(***************************************************************************)
EXTENDS LinkFec, TLAPS, FiniteSetTheorems, WellFoundedInduction, SequenceTheorems

Payload == [src : Tx, seq : Nat, asked : Nat, at : Nat]

(***************************************************************************)
(* What the window rests on: a frame is in the inbox only at the instant   *)
(* it was offered, and the deadline of an open generation has not passed   *)
(* and is no later than a window after any frame of the generation.        *)
(***************************************************************************)
InWindow(s) ==
  /\ \A i \in 1 .. Len(inbox[s]) : inbox[s][i].at = now
  /\ deadline[s] = None => pending[s] = << >>
  /\ deadline[s] # None =>
       /\ now <= deadline[s] /\ deadline[s] <= now + Window
       /\ \A j \in 1 .. Len(pending[s]) : deadline[s] <= pending[s][j].at + Window

WindowTypes ==
  /\ now \in Nat /\ offered \in [Tx -> Nat]
  /\ inbox \in [Tx -> Seq(Payload)] /\ pending \in [Tx -> Seq(Payload)]
  /\ deadline \in [Tx -> Nat \cup {None}]

WindowInv == WindowTypes /\ \A s \in Tx : InWindow(s)

(* What a sender's state satisfies depends on nothing but its own queues. *)
LEMMA InWindowFrame ==
  ASSUME NEW s \in Tx, InWindow(s),
         UNCHANGED <<now, inbox[s], pending[s], deadline[s]>>
  PROVE  InWindow(s)'
BY DEF InWindow

(* A completed generation leaves nothing pending and no deadline. *)
LEMMA FlushEmpties ==
  ASSUME NEW s \in Tx, NEW gen, NEW r, WindowTypes, Flush(s, gen, r)
  PROVE  /\ pending' \in [Tx -> Seq(Payload)] /\ deadline' \in [Tx -> Nat \cup {None}]
         /\ pending'[s] = << >> /\ deadline'[s] = None
         /\ \A t \in Tx \ {s} : pending'[t] = pending[t] /\ deadline'[t] = deadline[t]
<1>1. /\ pending' = [pending EXCEPT ![s] = << >>] /\ deadline' = [deadline EXCEPT ![s] = None]
  BY DEF Flush
<1>2. << >> \in Seq(Payload)
  OBVIOUS
<1> QED BY <1>1, <1>2 DEF WindowTypes

(* A frame that joins a generation in time keeps it in time. *)
LEMMA BufferInWindow ==
  ASSUME NEW s \in Tx, NEW gen \in Seq(Payload), NEW r, NEW due \in Nat,
         WindowTypes, Buffer(s, gen, r, due), now' = now,
         now <= due, due <= now + Window,
         \A j \in 1 .. Len(gen) : due <= gen[j].at + Window,
         inbox' \in [Tx -> Seq(Payload)],
         \A i \in 1 .. Len(inbox'[s]) : inbox'[s][i].at = now
  PROVE  /\ pending' \in [Tx -> Seq(Payload)] /\ deadline' \in [Tx -> Nat \cup {None}]
         /\ InWindow(s)'
         /\ \A t \in Tx \ {s} : pending'[t] = pending[t] /\ deadline'[t] = deadline[t]
<1>1. CASE Len(gen) >= K
  <2>1. Flush(s, gen, r)
    BY <1>1 DEF Buffer
  <2> QED BY <2>1, FlushEmpties DEF InWindow
<1>2. CASE ~(Len(gen) >= K)
  <2>1. pending' = [pending EXCEPT ![s] = gen] /\ deadline' = [deadline EXCEPT ![s] = due]
    BY <1>2 DEF Buffer
  <2>2. pending'[s] = gen /\ deadline'[s] = due /\ due # None
    BY <2>1 DEF WindowTypes, None
  <2> QED BY <2>1, <2>2 DEF WindowTypes, InWindow
<1> QED BY <1>1, <1>2

(* Taking a frame from the inbox. *)
LEMMA TakesHead ==
  ASSUME NEW s \in Tx, WindowInv, Takes(s)
  PROVE  /\ Head(inbox[s]) \in Payload /\ Head(inbox[s]).at = now
         /\ inbox' \in [Tx -> Seq(Payload)]
         /\ \A i \in 1 .. Len(inbox'[s]) : inbox'[s][i].at = now
         /\ \A t \in Tx \ {s} : inbox'[t] = inbox[t]
<1>1. inbox[s] \in Seq(Payload) /\ inbox[s] # << >> /\ inbox' = [inbox EXCEPT ![s] = Tail(@)]
  BY DEF WindowInv, WindowTypes, Takes
<1>2. Head(inbox[s]) = inbox[s][1] /\ 1 \in 1 .. Len(inbox[s]) /\ Head(inbox[s]) \in Payload
  BY <1>1
<1>3. /\ Tail(inbox[s]) \in Seq(Payload) /\ Len(Tail(inbox[s])) = Len(inbox[s]) - 1
      /\ \A i \in 1 .. Len(Tail(inbox[s])) :
           /\ Tail(inbox[s])[i] = inbox[s][i + 1] /\ i + 1 \in 1 .. Len(inbox[s])
  BY <1>1
<1>4. inbox'[s] = Tail(inbox[s]) /\ inbox' \in [Tx -> Seq(Payload)]
      /\ \A t \in Tx \ {s} : inbox'[t] = inbox[t]
  BY <1>1, <1>3 DEF WindowInv, WindowTypes
<1>5. \A i \in 1 .. Len(inbox[s]) : inbox[s][i].at = now
  BY DEF WindowInv, InWindow
<1> QED BY <1>2, <1>3, <1>4, <1>5

(* No step of the senders, the clock, the link or the receiver breaks it. *)
LEMMA WindowInvStep == WindowInv /\ [Next]_vars => WindowInv'
<1> SUFFICES ASSUME WindowInv, [Next]_vars PROVE WindowInv'
  OBVIOUS
<1>0. WindowTypes /\ Window \in Nat /\ Parities \subseteq Nat
  BY FecAssumption DEF WindowInv
<1>1. ASSUME NEW s \in Tx, NEW r \in Parities, Offer(s, r) PROVE WindowInv'
  <2> DEFINE p == [src |-> s, seq |-> offered[s] + 1, asked |-> r, at |-> now]
  <2>1. p \in Payload /\ p.at = now
    BY <1>0 DEF Payload, WindowTypes
  <2>2. /\ UNCHANGED <<now, pending, deadline>> /\ offered' = [offered EXCEPT ![s] = @ + 1]
        /\ inbox' = [inbox EXCEPT ![s] = Append(@, p)] \/ UNCHANGED inbox
    BY <1>1 DEF Offer, taskVars
  <2>3. CASE UNCHANGED inbox
    <3>1. WindowTypes'
      BY <2>2, <2>3, <1>0 DEF WindowTypes
    <3> QED BY <3>1, <2>2, <2>3 DEF WindowInv, InWindow
  <2>4. CASE inbox' = [inbox EXCEPT ![s] = Append(@, p)]
    <3>1. inbox[s] \in Seq(Payload)
      BY <1>0 DEF WindowTypes
    <3>2. /\ Append(inbox[s], p) \in Seq(Payload)
          /\ \A i \in 1 .. Len(Append(inbox[s], p)) :
               Append(inbox[s], p)[i] = p \/ (i \in 1 .. Len(inbox[s]) /\ Append(inbox[s], p)[i] = inbox[s][i])
      BY <3>1, <2>1
    <3>3. WindowTypes' /\ inbox'[s] = Append(inbox[s], p) /\ \A t \in Tx \ {s} : inbox'[t] = inbox[t]
      BY <2>2, <2>4, <3>2, <1>0 DEF WindowTypes
    <3>4. InWindow(s)'
      BY <3>2, <3>3, <2>1, <2>2 DEF WindowInv, InWindow
    <3>5. ASSUME NEW t \in Tx \ {s} PROVE InWindow(t)'
      BY <3>3, <3>5, <2>2, InWindowFrame DEF WindowInv
    <3> QED BY <3>3, <3>4, <3>5 DEF WindowInv
  <2> QED BY <2>2, <2>3, <2>4
<1>2. ASSUME NEW s \in Tx, Open(s) PROVE WindowInv'
  <2> DEFINE p == Head(inbox[s])
  <2>1. Takes(s) /\ Buffer(s, <<p>>, Adopted(p.asked), now + Window)
    BY <1>2 DEF Open
  <2>2. /\ p \in Payload /\ p.at = now /\ inbox' \in [Tx -> Seq(Payload)]
        /\ \A i \in 1 .. Len(inbox'[s]) : inbox'[s][i].at = now
        /\ \A t \in Tx \ {s} : inbox'[t] = inbox[t]
    BY <2>1, TakesHead
  <2>3. now' = now /\ offered' = offered /\ now + Window \in Nat
    BY <2>1, <1>0 DEF Takes, WindowTypes
  <2>4. <<p>> \in Seq(Payload) /\ Len(<<p>>) = 1 /\ <<p>>[1] = p
    BY <2>2
  <2>5. /\ now <= now + Window /\ now + Window <= now + Window
        /\ \A j \in 1 .. Len(<<p>>) : now + Window <= <<p>>[j].at + Window
    BY <2>2, <2>4, <1>0 DEF WindowTypes
  <2> HIDE DEF p
  <2>6. /\ pending' \in [Tx -> Seq(Payload)] /\ deadline' \in [Tx -> Nat \cup {None}]
        /\ InWindow(s)'
        /\ \A t \in Tx \ {s} : pending'[t] = pending[t] /\ deadline'[t] = deadline[t]
    BY <2>1, <2>2, <2>3, <2>4, <2>5, <1>0, BufferInWindow
  <2> QED BY <2>2, <2>3, <2>6, <1>0, InWindowFrame DEF WindowInv, WindowTypes
<1>3. ASSUME NEW s \in Tx, Fill(s) PROVE WindowInv'
  <2> DEFINE p == Head(inbox[s])
             gen == Append(pending[s], p)
  <2>1. Takes(s) /\ deadline[s] # None /\ Buffer(s, gen, parity[s], deadline[s])
    BY <1>3 DEF Fill
  <2>2. /\ p \in Payload /\ p.at = now /\ inbox' \in [Tx -> Seq(Payload)]
        /\ \A i \in 1 .. Len(inbox'[s]) : inbox'[s][i].at = now
        /\ \A t \in Tx \ {s} : inbox'[t] = inbox[t]
    BY <2>1, TakesHead
  <2>3. now' = now /\ offered' = offered /\ deadline[s] \in Nat /\ pending[s] \in Seq(Payload)
    BY <2>1, <1>0 DEF Takes, WindowTypes
  <2>4. /\ now <= deadline[s] /\ deadline[s] <= now + Window
        /\ \A j \in 1 .. Len(pending[s]) : deadline[s] <= pending[s][j].at + Window
    BY <2>1 DEF WindowInv, InWindow
  <2> HIDE DEF p
  <2>5. /\ gen \in Seq(Payload)
        /\ \A j \in 1 .. Len(gen) :
             gen[j] = p \/ (j \in 1 .. Len(pending[s]) /\ gen[j] = pending[s][j])
    BY <2>2, <2>3
  <2>6. \A j \in 1 .. Len(gen) : deadline[s] <= gen[j].at + Window
    BY <2>2, <2>4, <2>5
  <2> HIDE DEF gen
  <2>7. /\ pending' \in [Tx -> Seq(Payload)] /\ deadline' \in [Tx -> Nat \cup {None}]
        /\ InWindow(s)'
        /\ \A t \in Tx \ {s} : pending'[t] = pending[t] /\ deadline'[t] = deadline[t]
    BY <2>1, <2>2, <2>3, <2>4, <2>5, <2>6, <1>0, BufferInWindow
  <2> QED BY <2>2, <2>3, <2>7, <1>0, InWindowFrame DEF WindowInv, WindowTypes
<1>4. ASSUME NEW s \in Tx, TailFlush(s) PROVE WindowInv'
  <2>1. Flush(s, pending[s], parity[s]) /\ UNCHANGED <<now, offered, inbox>>
    BY <1>4 DEF TailFlush
  <2>2. /\ pending' \in [Tx -> Seq(Payload)] /\ deadline' \in [Tx -> Nat \cup {None}]
        /\ pending'[s] = << >> /\ deadline'[s] = None
        /\ \A t \in Tx \ {s} : pending'[t] = pending[t] /\ deadline'[t] = deadline[t]
    BY <2>1, <1>0, FlushEmpties
  <2>3. InWindow(s)'
    BY <2>1, <2>2 DEF WindowInv, InWindow
  <2> QED BY <2>1, <2>2, <2>3, <1>0, InWindowFrame DEF WindowInv, WindowTypes
<1>5. ASSUME Tick PROVE WindowInv'
  <2>1. /\ now' = now + 1 /\ UNCHANGED <<offered, inbox, pending, deadline>>
        /\ \A s \in Tx : inbox[s] = << >> /\ (deadline[s] # None => now < deadline[s])
    BY <1>5 DEF Tick, txVars, taskVars
  <2>2. WindowTypes'
    BY <2>1, <1>0 DEF WindowTypes
  <2>3. ASSUME NEW s \in Tx PROVE InWindow(s)'
    <3>1. InWindow(s) /\ now \in Nat /\ deadline[s] \in Nat \cup {None}
      BY <1>0 DEF WindowInv, WindowTypes
    <3> QED BY <2>1, <3>1, <1>0 DEF InWindow
  <2> QED BY <2>2, <2>3 DEF WindowInv
<1>6. ASSUME UNCHANGED <<now, offered, inbox, pending, deadline>> PROVE WindowInv'
  BY <1>6 DEF WindowInv, WindowTypes, InWindow
<1>7. ASSUME NEW s \in Tx, Emit(s) \/ Receive(s) \/ Overtake(s) \/ Lose(s)
      PROVE  UNCHANGED <<now, offered, inbox, pending, deadline>>
  BY <1>7 DEF Emit, Receive, Overtake, Lose, txVars, taskVars
<1>8. Quiet \/ UNCHANGED vars => UNCHANGED <<now, offered, inbox, pending, deadline>>
  BY DEF Quiet, vars, txVars, taskVars
<1> QED BY <1>1, <1>2, <1>3, <1>4, <1>5, <1>6, <1>7, <1>8 DEF Next

(* The window invariant holds in every state of every behaviour. *)
THEOREM WindowInvariant == Spec => []WindowInv
<1>1. Init => WindowInv
  <2> SUFFICES ASSUME Init PROVE WindowInv
    OBVIOUS
  <2>1. << >> \in Seq(Payload) /\ Len(<< >>) = 0
    OBVIOUS
  <2> QED BY <2>1 DEF Init, WindowInv, WindowTypes, InWindow
<1> QED BY <1>1, WindowInvStep, PTL DEF Spec

(* No frame is held back longer than the window, however frames trickle in. *)
THEOREM NoFrameOutwaitsTheWindow == Spec => []NoneHeldBeyondTheWindow
<1>1. WindowInv => NoneHeldBeyondTheWindow
  <2> SUFFICES ASSUME WindowInv, NEW s \in Tx, NEW j \in DOMAIN pending[s]
               PROVE  now - pending[s][j].at <= Window
    BY DEF NoneHeldBeyondTheWindow
  <2>1. /\ pending[s] \in Seq(Payload) /\ deadline[s] \in Nat \cup {None} /\ now \in Nat
    BY DEF WindowInv, WindowTypes
  <2>2. j \in 1 .. Len(pending[s]) /\ pending[s] # << >> /\ pending[s][j] \in Payload
    BY <2>1
  <2>3. deadline[s] # None /\ now <= deadline[s] /\ deadline[s] <= pending[s][j].at + Window
    BY <2>2 DEF WindowInv, InWindow
  <2>4. pending[s][j].at \in Nat
    BY <2>2 DEF Payload
  <2>5. deadline[s] \in Nat
    BY <2>1, <2>3
  <2>6. Window \in Nat
    BY FecAssumption
  <2> QED BY <2>1, <2>3, <2>4, <2>5, <2>6
<1> QED BY <1>1, WindowInvariant, PTL
---------------------------------------------------------------------------
(* The parity of a generation. *)

PlainFrame == [coded : {FALSE}, of : Seq(Tx \X Nat), late : BOOLEAN]

CodedFrame == [coded : {TRUE}, of : Seq(Tx \X Nat), asked : Nat, gen : Nat,
               k : Nat, n : Nat, index : Nat, late : BOOLEAN]

(* A frame on its way: a coded one has the parity its opening frame asked for. *)
AskedFrame == PlainFrame \cup {f \in CodedFrame : f.n - f.k = Adopted(f.asked)}

(* The parity in force is the one the frame that opened the generation asked. *)
OpenersParity(s) ==
  deadline[s] # None => pending[s] # << >> /\ parity[s] = Adopted(pending[s][1].asked)

ParityInv ==
  /\ parity \in [Tx -> Nat] /\ generation \in [Tx -> Nat]
  /\ sink \in [Tx -> Seq(AskedFrame)] /\ link \in [Tx -> Seq(AskedFrame)]
  /\ \A s \in Tx : OpenersParity(s)

(* A parity count that has been clamped is a count. *)
LEMMA AdoptedType == ASSUME NEW r \in Nat PROVE Adopted(r) \in Nat
BY FecAssumption DEF Adopted

(* The frames of a generation, for the parity its first frame asked for. *)
LEMMA EncodeType ==
  ASSUME NEW g \in Nat, NEW gen \in Seq(Payload), gen # << >>,
         NEW r \in Nat, r = Adopted(gen[1].asked)
  PROVE  Encode(g, gen, r) \in Seq(AskedFrame)
<1> DEFINE n == Len(gen) + r
<1>1. Len(gen) \in Nat /\ n \in Nat /\ gen[1].asked \in Nat /\ DOMAIN gen = 1 .. Len(gen)
  <2>1. Len(gen) \in Nat /\ DOMAIN gen = 1 .. Len(gen) /\ gen[1] \in Payload
    OBVIOUS
  <2> QED BY <2>1 DEF Payload
<1>2. [j \in DOMAIN gen |-> Id(gen[j])] \in Seq(Tx \X Nat)
  <2>1. ASSUME NEW j \in 1 .. Len(gen) PROVE Id(gen[j]) \in Tx \X Nat
    <3>1. gen[j] \in Payload
      OBVIOUS
    <3>2. gen[j].src \in Tx /\ gen[j].seq \in Nat
      BY <3>1 DEF Payload
    <3> QED BY <3>2 DEF Id
  <2> QED BY <1>1, <2>1
<1>3. ASSUME NEW i \in Nat PROVE Coded(g, gen, n, i) \in AskedFrame
  <2>1. Coded(g, gen, n, i) \in CodedFrame
    BY <1>1, <1>2 DEF Coded, CodedFrame
  <2>2. /\ Coded(g, gen, n, i).n = n /\ Coded(g, gen, n, i).k = Len(gen)
        /\ Coded(g, gen, n, i).asked = gen[1].asked
    BY DEF Coded
  <2>3. n - Len(gen) = r
    BY <1>1
  <2> QED BY <2>1, <2>2, <2>3 DEF AskedFrame
<1>4. [j \in 1 .. n |-> Coded(g, gen, n, j - 1)] \in Seq(AskedFrame)
  <2>1. \A j \in 1 .. n : j - 1 \in Nat
    BY <1>1
  <2> HIDE DEF n
  <2> QED BY <1>1, <1>3, <2>1
<1>5. << >> \in Seq(AskedFrame)
  OBVIOUS
<1> QED BY <1>4, <1>5 DEF Encode

(* A complete generation puts its frames in the sink, one that is not waits. *)
LEMMA BufferParity ==
  ASSUME NEW s \in Tx, NEW gen \in Seq(Payload), gen # << >>, NEW due \in Nat,
         NEW r \in Nat, r = Adopted(gen[1].asked),
         WindowTypes, ParityInv, Buffer(s, gen, r, due) \/ Flush(s, gen, r),
         parity' = [parity EXCEPT ![s] = r]
  PROVE  /\ generation' \in [Tx -> Nat] /\ sink' \in [Tx -> Seq(AskedFrame)]
         /\ \A t \in Tx : OpenersParity(t)'
<1>1. \A t \in Tx \ {s} : parity'[t] = parity[t]
  BY DEF ParityInv
<1>2. parity'[s] = r
  BY DEF ParityInv
<1>3. CASE Flush(s, gen, r)
  <2>1. generation[s] \in Nat /\ (generation[s] + 1) % GenSpace \in Nat
    <3>1. generation[s] + 1 \in Nat
      BY DEF ParityInv
    <3> QED BY <3>1, FecAssumption DEF ParityInv
  <2>2. Encode(generation[s], gen, r) \in Seq(AskedFrame)
    BY <2>1, EncodeType
  <2>3. generation' \in [Tx -> Nat] /\ sink' \in [Tx -> Seq(AskedFrame)]
    BY <1>3, <2>1, <2>2 DEF Flush, ParityInv
  <2>4. deadline'[s] = None /\ \A t \in Tx \ {s} : pending'[t] = pending[t] /\ deadline'[t] = deadline[t]
    BY <1>3, FlushEmpties
  <2> QED BY <1>1, <2>3, <2>4 DEF ParityInv, OpenersParity
<1>4. CASE pending' = [pending EXCEPT ![s] = gen] /\ deadline' = [deadline EXCEPT ![s] = due]
           /\ UNCHANGED <<generation, sink>>
  BY <1>1, <1>2, <1>4 DEF WindowTypes, ParityInv, OpenersParity
<1> QED BY <1>3, <1>4 DEF Buffer

(* The steps of the batching task. *)
LEMMA TaskParity ==
  ASSUME WindowInv, ParityInv, NEW s \in Tx, Open(s) \/ Fill(s) \/ TailFlush(s)
  PROVE  ParityInv'
<1>0. /\ WindowTypes /\ inbox[s] \in Seq(Payload) /\ pending[s] \in Seq(Payload)
      /\ deadline[s] \in Nat \cup {None} /\ parity[s] \in Nat
  BY DEF WindowInv, WindowTypes, ParityInv
<1>1. CASE Open(s)
  <2> DEFINE p == Head(inbox[s])
             r == Adopted(p.asked)
  <2>1. p \in Payload /\ link' = link
    BY <1>0, <1>1, TakesHead DEF Open, Takes
  <2>2. <<p>> \in Seq(Payload) /\ <<p>> # << >> /\ <<p>>[1] = p
    BY <2>1
  <2>3. r \in Nat /\ now + Window \in Nat
    <3>1. p.asked \in Nat
      BY <2>1 DEF Payload
    <3>2. now \in Nat /\ Window \in Nat
      BY <1>0, FecAssumption DEF WindowTypes
    <3> HIDE DEF p
    <3> QED BY <3>1, <3>2, AdoptedType
  <2>4. Buffer(s, <<p>>, r, now + Window) /\ parity' = [parity EXCEPT ![s] = r]
    BY <1>1 DEF Open
  <2>5. r = Adopted(<<p>>[1].asked)
    BY <2>2
  <2> HIDE DEF p, r
  <2>6. /\ generation' \in [Tx -> Nat] /\ sink' \in [Tx -> Seq(AskedFrame)]
        /\ \A t \in Tx : OpenersParity(t)'
    BY <1>0, <2>2, <2>3, <2>4, <2>5, BufferParity
  <2> QED BY <2>1, <2>3, <2>4, <2>6 DEF ParityInv
<1>2. CASE Fill(s)
  <2> DEFINE p == Head(inbox[s])
             gen == Append(pending[s], p)
  <2>1. p \in Payload /\ link' = link
    BY <1>0, <1>2, TakesHead DEF Fill, Takes
  <2>2. /\ deadline[s] \in Nat /\ pending[s] # << >>
        /\ parity[s] = Adopted(pending[s][1].asked)
    BY <1>0, <1>2 DEF Fill, ParityInv, OpenersParity
  <2>3. gen \in Seq(Payload) /\ gen # << >> /\ gen[1] = pending[s][1]
    BY <1>0, <2>1, <2>2
  <2>4. /\ Buffer(s, gen, parity[s], deadline[s])
        /\ parity' = [parity EXCEPT ![s] = parity[s]]
    BY <1>2 DEF Fill, ParityInv
  <2> HIDE DEF gen
  <2>5. /\ generation' \in [Tx -> Nat] /\ sink' \in [Tx -> Seq(AskedFrame)]
        /\ \A t \in Tx : OpenersParity(t)'
    BY <1>0, <2>2, <2>3, <2>4, BufferParity
  <2> QED BY <1>0, <2>1, <2>4, <2>5 DEF ParityInv
<1>3. CASE TailFlush(s)
  <2>1. /\ deadline[s] \in Nat /\ pending[s] # << >>
        /\ parity[s] = Adopted(pending[s][1].asked)
    BY <1>0, <1>3 DEF TailFlush, ParityInv, OpenersParity
  <2>2. /\ Flush(s, pending[s], parity[s]) /\ link' = link
        /\ parity' = [parity EXCEPT ![s] = parity[s]]
    BY <1>3 DEF TailFlush, ParityInv
  <2>3. /\ generation' \in [Tx -> Nat] /\ sink' \in [Tx -> Seq(AskedFrame)]
        /\ \A t \in Tx : OpenersParity(t)'
    BY <1>0, <2>1, <2>2, BufferParity
  <2> QED BY <1>0, <2>2, <2>3 DEF ParityInv
<1> QED BY <1>1, <1>2, <1>3

(* A frame is added to the link, taken from it, or overtaken on it. *)
LEMMA LinkParity ==
  ASSUME ParityInv, NEW s \in Tx, NEW q \in Seq(AskedFrame), link' = [link EXCEPT ![s] = q]
  PROVE  link' \in [Tx -> Seq(AskedFrame)]
BY DEF ParityInv

(* What follows the second element of a sequence. *)
LEMMA TailOfTwo ==
  ASSUME NEW S, NEW q \in Seq(S), Len(q) >= 2
  PROVE  Tail(Tail(q)) \in Seq(S)
<1>0. Len(q) \in Nat /\ q # << >>
  OBVIOUS
<1>1. Tail(q) \in Seq(S) /\ Len(Tail(q)) = Len(q) - 1
  BY <1>0
<1>2. Tail(q) # << >>
  <2>1. Len(Tail(q)) # 0
    BY <1>0, <1>1
  <2>2. Len(<< >>) = 0
    OBVIOUS
  <2> QED BY <2>1, <2>2
<1> QED BY <1>1, <1>2

(* Every step keeps the parity asked for. *)
LEMMA ParityStep == WindowInv /\ ParityInv /\ [Next]_vars => ParityInv'
<1> SUFFICES ASSUME WindowInv, ParityInv, [Next]_vars PROVE ParityInv'
  OBVIOUS
<1>1. ASSUME NEW s \in Tx, NEW r \in Parities, Offer(s, r) PROVE ParityInv'
  <2>1. UNCHANGED <<pending, deadline, parity, generation, sink>>
    BY <1>1 DEF Offer, taskVars
  <2> DEFINE p == [src |-> s, seq |-> offered[s] + 1, asked |-> r, at |-> now]
  <2>2. Plain(p) \in AskedFrame
    <3>1. offered[s] + 1 \in Nat
      BY DEF WindowInv, WindowTypes
    <3>2. <<Id(p)>> \in Seq(Tx \X Nat)
      BY <3>1 DEF Id
    <3>3. Plain(p) \in PlainFrame
      BY <3>2 DEF Plain, PlainFrame
    <3> QED BY <3>3 DEF AskedFrame
  <2>3. link[s] \in Seq(AskedFrame)
    BY DEF ParityInv
  <2>4. Append(link[s], Plain(p)) \in Seq(AskedFrame)
    BY <2>2, <2>3
  <2>5. link' = link \/ link' = [link EXCEPT ![s] = Append(link[s], Plain(p))]
    BY <1>1 DEF Offer
  <2>6. link' \in [Tx -> Seq(AskedFrame)]
    BY <2>4, <2>5, LinkParity DEF ParityInv
  <2> QED BY <2>1, <2>6 DEF ParityInv, OpenersParity
<1>2. ASSUME NEW s \in Tx, Emit(s) PROVE ParityInv'
  <2>1. UNCHANGED <<pending, deadline, parity, generation>>
    BY <1>2 DEF Emit
  <2>2. sink[s] \in Seq(AskedFrame) /\ sink[s] # << >> /\ link[s] \in Seq(AskedFrame)
    BY <1>2 DEF Emit, ParityInv
  <2>3. /\ Head(sink[s]) \in AskedFrame /\ Tail(sink[s]) \in Seq(AskedFrame)
        /\ Append(link[s], Head(sink[s])) \in Seq(AskedFrame)
    BY <2>2
  <2>4. sink' \in [Tx -> Seq(AskedFrame)] /\ link' \in [Tx -> Seq(AskedFrame)]
    BY <1>2, <2>3 DEF Emit, ParityInv
  <2> QED BY <2>1, <2>4 DEF ParityInv, OpenersParity
<1>3. ASSUME NEW s \in Tx, Receive(s) \/ Lose(s) PROVE ParityInv'
  <2>1. UNCHANGED <<pending, deadline, parity, generation, sink>>
    BY <1>3 DEF Receive, Lose, txVars, taskVars
  <2>2. link[s] \in Seq(AskedFrame) /\ link[s] # << >> /\ link' = [link EXCEPT ![s] = Tail(link[s])]
    BY <1>3 DEF Receive, Lose, ParityInv
  <2>3. Tail(link[s]) \in Seq(AskedFrame)
    BY <2>2
  <2> QED BY <2>1, <2>2, <2>3, LinkParity DEF ParityInv, OpenersParity
<1>4. ASSUME NEW s \in Tx, Overtake(s) PROVE ParityInv'
  <2> DEFINE f == link[s][1]
             late == [f EXCEPT !.late = TRUE]
             q == <<late>> \o Tail(Tail(link[s]))
  <2>1. UNCHANGED <<pending, deadline, parity, generation, sink>>
    BY <1>4 DEF Overtake, txVars, taskVars
  <2>2. link[s] \in Seq(AskedFrame) /\ Len(link[s]) >= 2 /\ link' = [link EXCEPT ![s] = q]
    BY <1>4 DEF Overtake, ParityInv
  <2>3. f \in AskedFrame /\ Tail(Tail(link[s])) \in Seq(AskedFrame)
    <3>1. link[s] # << >> /\ link[s][1] \in AskedFrame
      BY <2>2
    <3> QED BY <2>2, <3>1, TailOfTwo
  <2>4. late \in AskedFrame
    <3>1. CASE f \in PlainFrame
      BY <3>1 DEF PlainFrame, AskedFrame
    <3>2. CASE f \in CodedFrame /\ f.n - f.k = Adopted(f.asked)
      <4>1. late \in CodedFrame /\ late.n = f.n /\ late.k = f.k /\ late.asked = f.asked
        BY <3>2 DEF CodedFrame
      <4> QED BY <3>2, <4>1 DEF AskedFrame
    <3> QED BY <2>3, <3>1, <3>2 DEF AskedFrame
  <2> HIDE DEF late
  <2>5. <<late>> \in Seq(AskedFrame)
    BY <2>4
  <2>6. q \in Seq(AskedFrame)
    BY <2>3, <2>5
  <2> QED BY <2>1, <2>2, <2>6, LinkParity DEF ParityInv, OpenersParity
<1>5. ASSUME UNCHANGED <<pending, deadline, parity, generation, sink, link>> PROVE ParityInv'
  BY <1>5 DEF ParityInv, OpenersParity
<1>6. Tick \/ Quiet \/ UNCHANGED vars =>
        UNCHANGED <<pending, deadline, parity, generation, sink, link>>
  BY DEF Tick, Quiet, vars, txVars, taskVars
<1> QED BY <1>1, <1>2, <1>3, <1>4, <1>5, <1>6, TaskParity DEF Next

(* The parity invariant holds at the start. *)
LEMMA ParityStart == Init => ParityInv
<1>1. << >> \in Seq(AskedFrame)
  OBVIOUS
<1> QED BY <1>1 DEF Init, ParityInv, OpenersParity

(***************************************************************************)
(* R belongs to the generation: every coded frame, in the sink or on the   *)
(* air, has the parity its opening frame asked for, clamped to the codec.  *)
(***************************************************************************)
THEOREM ParityBelongsToTheGeneration == Spec => []ParityIsTheOpeners
<1>1. Init => ParityInv
  BY ParityStart
<1>2. ParityInv => ParityIsTheOpeners
  <2> SUFFICES ASSUME ParityInv, NEW s \in Tx, NEW f \in ToSet(sink[s] \o link[s]), f.coded
               PROVE  f.n - f.k = Adopted(f.asked)
    BY DEF ParityIsTheOpeners
  <2>1. sink[s] \o link[s] \in Seq(AskedFrame)
    <3>1. sink[s] \in Seq(AskedFrame) /\ link[s] \in Seq(AskedFrame)
      BY DEF ParityInv
    <3> QED BY <3>1
  <2> DEFINE both == sink[s] \o link[s]
  <2>2. PICK i \in DOMAIN both : f = both[i]
    BY DEF ToSet
  <2>3. f \in AskedFrame
    <3> HIDE DEF both
    <3>1. both \in Seq(AskedFrame)
      BY <2>1 DEF both
    <3> QED BY <2>2, <3>1
  <2> QED BY <2>3 DEF AskedFrame, PlainFrame
<1> QED BY <1>1, <1>2, ParityStep, WindowInvariant, PTL DEF Spec

---------------------------------------------------------------------------
(* Delivery, for one sender whose generation counter does not turn.        *)
(*                                                                         *)
(* The state does not keep what it rests on: which generations the sender  *)
(* has made (C, by their number: the frames and the length of the code)    *)
(* and which frames it has sent plain (P).  The invariant says that such a *)
(* history exists, and each step is shown to keep or to extend it.         *)

(* A frame of the generation that codes the frames of in n. *)
OfGeneration(f, of, n) ==
  f.of = of /\ f.k = Len(of) /\ f.n = n /\ f.index \in 0 .. n - 1

(* A generation as the sender makes it: its frames are different ones. *)
Generation(of, n) ==
  /\ of \in Seq(Ids) /\ n \in Nat /\ Len(of) >= 1 /\ n >= Len(of)
  /\ \A i, j \in DOMAIN of : of[i] = of[j] => i = j

(* The places of the source frames of a generation. *)
Sources(C, g) == DOMAIN C[g].of

(* The history: no frame is in two generations, or in one and sent plain.  *)
Coding(s, C, P) ==
  /\ DOMAIN C = 0 .. generation[s] - 1
  /\ \A g \in DOMAIN C : Generation(C[g].of, C[g].n)
  /\ \A g, h \in DOMAIN C : \A i \in Sources(C, g), j \in Sources(C, h) :
       C[g].of[i] = C[h].of[j] => g = h /\ i = j
  /\ P \subseteq Ids /\ \A id \in P : id[2] <= offered[s]
  /\ \A g \in DOMAIN C : \A i \in Sources(C, g) : C[g].of[i] \notin P /\ C[g].of[i][2] <= offered[s]

(* A frame that the task has not coded yet. *)
Waiting(p, s, C, P) ==
  /\ p.src = s /\ p.seq \in 1 .. offered[s] /\ Id(p) \notin P
  /\ \A g \in DOMAIN C : \A i \in Sources(C, g) : C[g].of[i] # Id(p)

(* The frames that wait are different ones, and the bounds of the sender.  *)
Waits(s, C, P) ==
  /\ \A i \in DOMAIN inbox[s] : Waiting(inbox[s][i], s, C, P) /\ now + Window < MaxTime
  /\ \A i \in DOMAIN pending[s] : Waiting(pending[s][i], s, C, P)
  /\ \A i, j \in DOMAIN inbox[s] : inbox[s][i].seq = inbox[s][j].seq => i = j
  /\ \A i, j \in DOMAIN pending[s] : pending[s][i].seq = pending[s][j].seq => i = j
  /\ \A i \in DOMAIN inbox[s], j \in DOMAIN pending[s] : inbox[s][i].seq # pending[s][j].seq
  /\ offered[s] <= MaxFrames /\ now <= MaxTime /\ parity[s] <= MaxN - K
  /\ deadline[s] # None => deadline[s] <= MaxTime
  /\ Len(pending[s]) < K
  /\ generation[s] + Len(pending[s]) + Len(inbox[s]) <= offered[s]

(* A frame belongs to the history. *)
FrameIs(f, C, P) ==
  IF f.coded = TRUE
  THEN f.gen \in DOMAIN C /\ OfGeneration(f, C[f.gen].of, C[f.gen].n)
  ELSE \E id \in P : f.of = <<id>>

(* The sink has injected row i of generation g. *)
Left(s, C, g, i) == g < generation[s] - 1 \/ i < C[g].n - Len(sink[s])

(* The sink holds the last rows of the last generation. *)
SinkIs(s, C) ==
  \A j \in 1 .. Len(sink[s]) : LET f == sink[s][j] IN
    /\ f.coded = TRUE /\ f.late = FALSE /\ f.gen = generation[s] - 1 /\ FrameIs(f, C, {})
    /\ f.index = f.n - Len(sink[s]) + j - 1

(* The link carries what has left, by generation; plain frames once.      *)
LinkIs(s, C, P) ==
  /\ \A i \in DOMAIN link[s] : LET f == link[s][i] IN
       /\ FrameIs(f, C, P) /\ (f.coded = TRUE => Left(s, C, f.gen, f.index))
       /\ (i > 1 => f.late = FALSE)
       /\ f.coded = FALSE => got[f.of[1]] = 0
  /\ \A i, j \in DOMAIN link[s] : i < j =>
       IF link[s][i].coded = TRUE /\ link[s][j].coded = TRUE THEN link[s][i].gen <= link[s][j].gen
       ELSE link[s][i].coded = FALSE /\ link[s][j].coded = FALSE => link[s][i].of # link[s][j].of

(* What has left is emitted, and what is heard has left. *)
SentIs(s, C, P) ==
  /\ P \subseteq emitted
  /\ \A g \in DOMAIN C : \A i \in 0 .. Len(C[g].of) - 1 : Left(s, C, g, i) => C[g].of[i + 1] \in emitted
  /\ \A h \in heard : \E g \in DOMAIN C : \E i \in 0 .. C[g].n - 1 : h = <<C[g].of, i>> /\ Left(s, C, g, i)

(* The rows of a generation the receiver has absorbed. *)
HeardOf(C, g) == {i \in 0 .. C[g].n - 1 : <<C[g].of, i>> \in heard}

(* A decoder that has absorbed the frames of H, of a generation coded in n.      *)
Rowed(st, of, n, H) ==
  /\ DOMAIN st = {"k", "n", "size", "rows", "delivered", "done"}
  /\ st.k = Len(of) /\ st.n = n /\ st.size \in {None, SegLen(of)}
  /\ DOMAIN st.rows \subseteq H /\ \A i \in DOMAIN st.rows : st.rows[i] = of
  /\ Cardinality(DOMAIN st.rows) <= Len(of) /\ (st.done = (Cardinality(DOMAIN st.rows) = Len(of)))
  /\ st.done = FALSE => DOMAIN st.rows = H /\ st.delivered = H \cap (0 .. Len(of) - 1)
  /\ st.done = TRUE => st.delivered = 0 .. Len(of) - 1

(* A generation the receiver holds: delivered is what it has handed up.    *)
Held(st, C, g) ==
  /\ Rowed(st, C[g].of, C[g].n, HeardOf(C, g))
  /\ \A i \in 0 .. Len(C[g].of) - 1 : got[C[g].of[i + 1]] = IF i \in st.delivered THEN 1 ELSE 0

(* A generation the receiver has not met. *)
Untouched(C, g) == HeardOf(C, g) = {} /\ \A i \in Sources(C, g) : got[C[g].of[i]] = 0

(* One it has evicted: no row of it is still to come. *)
Over(s, C, g) ==
  /\ \A i \in DOMAIN link[s] : link[s][i].coded = TRUE => link[s][i].gen # g
  /\ sink[s] # << >> => g # generation[s] - 1
  /\ Cardinality(HeardOf(C, g)) >= Len(C[g].of) => \A i \in Sources(C, g) : got[C[g].of[i]] = 1
  /\ \A i \in HeardOf(C, g) : i < Len(C[g].of) => got[C[g].of[i + 1]] = 1

(* Each generation made is held, not met yet, or over. *)
Decoded(s, C) ==
  /\ DOMAIN gens \subseteq DOMAIN C
  /\ \A g \in DOMAIN C : IF g \in DOMAIN gens THEN Held(gens[g], C, g) ELSE Untouched(C, g) \/ Over(s, C, g)

(* What has been handed up was sent, and is counted once. *)
GotIs(s, C, P) ==
  /\ invented = FALSE
  /\ got \in [Ids -> {0, 1}]
  /\ \A id \in Ids : got[id] = 1 => id \in emitted
  /\ \A id \in Ids : got[id] = 1 => id \in P \/ \E g \in DOMAIN C : \E i \in Sources(C, g) : id = C[g].of[i]

(* The order of the generations held, but for one that was overtaken.      *)
InOrder(s) ==
  /\ order \in Seq(Nat) /\ ToSet(order) = DOMAIN gens /\ Len(order) <= Cap
  /\ \A i, j \in DOMAIN order : order[i] = order[j] => i = j
  /\ \A i, j \in DOMAIN order : i + 2 <= j => order[i] < order[j]
  /\ \A i \in DOMAIN link[s] : LET f == link[s][i] IN f.coded = TRUE =>
       IF f.late = TRUE
       THEN \A j \in DOMAIN order : order[j] > f.gen => j = Len(order) /\ Cap >= 2
       ELSE \A g \in DOMAIN gens : g <= f.gen

(* The inductive invariant, for a history. *)
FecInv(s, C, P) ==
  /\ Coding(s, C, P) /\ Waits(s, C, P) /\ SinkIs(s, C) /\ LinkIs(s, C, P)
  /\ SentIs(s, C, P) /\ Decoded(s, C) /\ GotIs(s, C, P) /\ InOrder(s)

(* A non-empty set of naturals has a least element. *)
LEMMA LeastExists ==
  ASSUME NEW T \in SUBSET Nat, T # {}
  PROVE  \E x \in T : \A y \in T : x <= y
<1> DEFINE R == {p \in Nat \X Nat : p[1] < p[2]}
<1>1. IsWellFoundedOn(OpToRel(<, Nat), Nat)
  BY NatLessThanWellFounded
<1>2. OpToRel(<, Nat) = R
  BY DEF OpToRel
<1>3. IsWellFoundedOn(R, Nat)
  BY <1>1, <1>2
<1> HIDE DEF R
<1>4. \E x \in T : \A y \in T : <<y, x>> \notin R
  BY <1>3, WFMin
<1>5. ASSUME NEW x \in T, NEW y \in T, <<y, x>> \notin R
      PROVE  x <= y
  BY <1>5 DEF R
<1> QED BY <1>4, <1>5

(* Induction over a set of numbers. *)
LEMMA FromNought ==
  ASSUME NEW G, 0 \in G, \A i \in Nat : i \in G => i + 1 \in G
  PROVE  \A n \in Nat : n \in G
<1> SUFFICES ASSUME NEW n \in Nat, n \notin G PROVE FALSE
  OBVIOUS
<1> DEFINE T == {i \in Nat : i \notin G}
<1>1. T \in SUBSET Nat /\ T # {}
  OBVIOUS
<1>2. PICK x \in T : \A y \in T : x <= y
  BY <1>1, LeastExists
<1>3. x \in Nat /\ x # 0
  BY <1>2
<1>4. x - 1 \in Nat /\ ~(x <= x - 1) /\ (x - 1) + 1 = x
  BY <1>3
<1>5. x - 1 \in G
  BY <1>2, <1>4
<1> QED BY <1>2, <1>4, <1>5

(* A sequence of numbers that rise. *)
Climbs(f) == \A i, j \in DOMAIN f : i < j => f[i] < f[j]

(* A finite set of numbers can be put in order: the least first, and the rest.  *)
LEMMA OrderExists ==
  \A n \in Nat : \A S \in SUBSET Nat :
    IsFiniteSet(S) /\ Cardinality(S) = n => \E f \in [1 .. n -> S] : Climbs(f)
<1> DEFINE P(n, S) == IsFiniteSet(S) /\ Cardinality(S) = n => \E f \in [1 .. n -> S] : Climbs(f)
<1> DEFINE G == {n \in Nat : \A S \in SUBSET Nat : P(n, S)}
<1>1. 0 \in G
  <2> SUFFICES ASSUME NEW S \in SUBSET Nat PROVE \E f \in [1 .. 0 -> S] : Climbs(f)
    OBVIOUS
  <2> DEFINE f == [i \in 1 .. 0 |-> 0]
  <2>1. f \in [1 .. 0 -> S] /\ DOMAIN f = {}
    OBVIOUS
  <2> QED BY <2>1 DEF Climbs
<1>2. ASSUME NEW n \in Nat, n \in G PROVE n + 1 \in G
  <2> SUFFICES ASSUME NEW S \in SUBSET Nat, IsFiniteSet(S), Cardinality(S) = n + 1
               PROVE  \E f \in [1 .. n + 1 -> S] : Climbs(f)
    OBVIOUS
  <2>1. S # {}
    BY FS_EmptySet
  <2>2. PICK x \in S : \A y \in S : x <= y
    BY <2>1, LeastExists
  <2> DEFINE R == S \ {x}
  <2>3. IsFiniteSet(R) /\ Cardinality(R) = n /\ R \in SUBSET Nat
    <3>1. IsFiniteSet(R) /\ Cardinality(R) = Cardinality(S) - 1
      BY FS_RemoveElement
    <3> QED BY <3>1
  <2>4. PICK g \in [1 .. n -> R] : Climbs(g)
    <3> HIDE DEF R
    <3> QED BY <1>2, <2>3
  <2> DEFINE f == [i \in 1 .. n + 1 |-> IF i = 1 THEN x ELSE g[i - 1]]
  <2>5. \A i \in 1 .. n + 1 : i # 1 => i - 1 \in 1 .. n
    OBVIOUS
  <2>6. \A i \in 1 .. n + 1 : f[i] = IF i = 1 THEN x ELSE g[i - 1]
    OBVIOUS
  <2>7. \A i \in 1 .. n : g[i] \in S /\ g[i] # x
    BY <2>4
  <2>8. f \in [1 .. n + 1 -> S]
    BY <2>5, <2>7
  <2>9. Climbs(f)
    <3> SUFFICES ASSUME NEW i \in 1 .. n + 1, NEW j \in 1 .. n + 1, i < j PROVE f[i] < f[j]
      BY DEF Climbs
    <3>1. j # 1 /\ j - 1 \in 1 .. n /\ f[j] = g[j - 1]
      BY <2>5, <2>6
    <3>2. CASE i = 1
      <4>1. f[i] = x
        BY <2>6, <3>2
      <4>2. g[j - 1] \in S /\ g[j - 1] # x
        BY <2>7, <3>1
      <4>3. x <= g[j - 1] /\ x \in Nat /\ g[j - 1] \in Nat
        BY <2>2, <4>2
      <4> QED BY <3>1, <4>1, <4>2, <4>3
    <3>3. CASE i # 1
      <4>1. i - 1 \in 1 .. n /\ f[i] = g[i - 1] /\ i - 1 < j - 1
        BY <2>5, <2>6, <3>3
      <4>2. g[i - 1] < g[j - 1]
        BY <2>4, <3>1, <4>1 DEF Climbs
      <4> QED BY <3>1, <4>1, <4>2
    <3> QED BY <3>2, <3>3
  <2> HIDE DEF f
  <2> QED BY <2>8, <2>9
<1> HIDE DEF G
<1>3. \A n \in Nat : n \in G
  BY <1>1, <1>2, FromNought
<1> QED BY <1>3 DEF G

---------------------------------------------------------------------------
(* The decoder. *)

(* How often something is in a sequence that has nothing twice. *)
LEMMA OnceIn ==
  ASSUME NEW q, NEW x, \A i, j \in DOMAIN q : q[i] = q[j] => i = j
  PROVE  Cardinality({j \in DOMAIN q : q[j] = x}) = IF \E j \in DOMAIN q : q[j] = x THEN 1 ELSE 0
<1> DEFINE T == {j \in DOMAIN q : q[j] = x}
<1>1. CASE \E j \in DOMAIN q : q[j] = x
  <2>1. PICK j \in DOMAIN q : q[j] = x
    BY <1>1
  <2>2. T = {j}
    BY <2>1
  <2> HIDE DEF T
  <2> QED BY <1>1, <2>2, FS_Singleton DEF T
<1>2. CASE ~(\E j \in DOMAIN q : q[j] = x)
  <2>1. T = {}
    BY <1>2
  <2> HIDE DEF T
  <2> QED BY <1>2, <2>1, FS_EmptySet DEF T
<1> QED BY <1>1, <1>2

(* Indices put in their order: each of them, and once. *)
LEMMA RisingIs ==
  ASSUME NEW S \in SUBSET Nat, IsFiniteSet(S)
  PROVE  /\ Cardinality(S) \in Nat /\ Rising(S) \in [1 .. Cardinality(S) -> S]
         /\ \A i, j \in 1 .. Cardinality(S) : Rising(S)[i] = Rising(S)[j] => i = j
         /\ \A x \in S : \E j \in 1 .. Cardinality(S) : Rising(S)[j] = x
<1> DEFINE n == Cardinality(S)
           f == Rising(S)
<1>1. n \in Nat
  BY FS_CardinalityType
<1>2. \E q \in [1 .. n -> S] : Climbs(q)
  BY <1>1, OrderExists
<1>3. f = CHOOSE q \in [1 .. n -> S] : Climbs(q)
  BY DEF Rising, Climbs
<1> HIDE DEF f, n
<1>4. f \in [1 .. n -> S] /\ Climbs(f)
  BY <1>2, <1>3
<1>5. \A i, j \in 1 .. n : f[i] = f[j] => i = j
  <2> SUFFICES ASSUME NEW i \in 1 .. n, NEW j \in 1 .. n, f[i] = f[j], i < j PROVE FALSE
    <3>1. \A i, j \in 1 .. n : i # j => i < j \/ j < i
      BY <1>1
    <3> QED BY <3>1
  <2>1. f[i] < f[j] /\ f[i] \in Nat
    BY <1>4 DEF Climbs
  <2> QED BY <2>1
<1>6. f \in Injection(1 .. n, S)
  BY <1>4, <1>5 DEF Injection, IsInjective
<1>7. IsFiniteSet(1 .. n) /\ Cardinality(1 .. n) = n
  <2>1. IsFiniteSet(1 .. n) /\ Cardinality(1 .. n) = IF 1 > n THEN 0 ELSE n - 1 + 1
    BY <1>1, FS_Interval
  <2> QED BY <1>1, <2>1
<1>8. f \in Surjection(1 .. n, S)
  <2>1. Cardinality(1 .. n) = Cardinality(S)
    BY <1>7 DEF n
  <2> QED BY <1>6, <2>1, FS_Injection
<1>9. \A x \in S : \E j \in 1 .. n : f[j] = x
  BY <1>8 DEF Surjection
<1> QED BY <1>1, <1>4, <1>5, <1>9 DEF f, n

(* What a decoder has made deliverable: the indices, each once. *)
Makes(out, of, new) ==
  /\ out \in Seq(Ids)
  /\ \A i, j \in DOMAIN out : out[i] = out[j] => i = j
  /\ \A j \in DOMAIN out : \E i \in new : out[j] = of[i + 1]
  /\ \A i \in new : \E j \in DOMAIN out : out[j] = of[i + 1]

(* A sequence with one more element before it. *)
LEMMA Prefixed ==
  ASSUME NEW S, NEW x \in S, NEW q \in Seq(S)
  PROVE  /\ <<x>> \o q \in Seq(S) /\ Len(<<x>> \o q) = Len(q) + 1 /\ (<<x>> \o q)[1] = x
         /\ \A j \in 2 .. Len(q) + 1 : (<<x>> \o q)[j] = q[j - 1]
<1> DEFINE one == <<x>>
<1>1. one \in Seq(S) /\ Len(one) = 1 /\ one[1] = x
  OBVIOUS
<1> HIDE DEF one
<1>a. Len(q) \in Nat
  OBVIOUS
<1>b. /\ one \o q \in Seq(S) /\ Len(one \o q) = 1 + Len(q)
      /\ \A i \in 1 .. 1 + Len(q) : (one \o q)[i] = IF i <= 1 THEN one[i] ELSE q[i - 1]
  <2>1. /\ one \o q \in Seq(S) /\ Len(one \o q) = Len(one) + Len(q)
        /\ \A i \in 1 .. Len(one) + Len(q) : (one \o q)[i] = IF i <= Len(one) THEN one[i] ELSE q[i - Len(one)]
    BY <1>1, ConcatProperties
  <2> QED BY <1>1, <2>1
<1>2. one \o q \in Seq(S) /\ Len(one \o q) = 1 + Len(q) /\ (one \o q)[1] = x
  <2>1. 1 \in 1 .. 1 + Len(q)
    BY <1>a
  <2> QED BY <1>1, <1>b, <2>1
<1>3. \A j \in 2 .. Len(q) + 1 : (one \o q)[j] = q[j - 1]
  <2>1. \A j \in 2 .. Len(q) + 1 : j \in 1 .. 1 + Len(q) /\ ~(j <= 1)
    BY <1>a
  <2> QED BY <1>b, <2>1
<1>4. 1 + Len(q) = Len(q) + 1
  OBVIOUS
<1> QED BY <1>2, <1>3, <1>4 DEF one

(* A row that arrives joins the others; what it makes deliverable is new. *)
LEMMA Absorbing ==
  ASSUME FecAssumption, NEW of, NEW n, Generation(of, n), NEW H \in SUBSET (0 .. n - 1), NEW st, Rowed(st, of, n, H),
         NEW f, OfGeneration(f, of, n)
  PROVE  /\ Rowed(AfterFrame(st, f).st, of, n, H \cup {f.index})
         /\ st.delivered \subseteq AfterFrame(st, f).st.delivered
         /\ AfterFrame(st, f).st.delivered \subseteq 0 .. Len(of) - 1
         /\ Makes(AfterFrame(st, f).out, of, AfterFrame(st, f).st.delivered \ st.delivered)
         /\ \A i \in AfterFrame(st, f).st.delivered \ st.delivered : \E j \in H \cup {f.index} : i <= j
<1> DEFINE k == Len(of)
           i0 == f.index
           rows == Rows(st, f)
           full == ~st.done /\ Cardinality(DOMAIN rows) = st.k
           fresh == Fresh(st, f)
           missing == IF full THEN (0 .. st.k - 1) \ (st.delivered \cup fresh) ELSE {}
           own  == IF fresh = {} THEN << >> ELSE <<Body(f.of, f.index)>>
           rest == [j \in 1 .. Cardinality(missing) |-> Recovered(rows, Rising(missing)[j])]
           after == AfterFrame(st, f)
           new == after.st.delivered \ st.delivered
<1>1. /\ k \in Nat /\ k >= 1 /\ n \in Nat /\ n >= k /\ DOMAIN of = 1 .. k /\ i0 \in 0 .. n - 1
      /\ f.of = of /\ f.k = k /\ f.n = n
      /\ \A i \in 0 .. k - 1 : i + 1 \in 1 .. k /\ of[i + 1] \in Ids
      /\ \A i, j \in 0 .. k - 1 : of[i + 1] = of[j + 1] => i = j
  <2>1. of \in Seq(Ids) /\ n \in Nat /\ k >= 1 /\ n >= k /\ \A i, j \in DOMAIN of : of[i] = of[j] => i = j
    BY DEF Generation
  <2>2. k \in Nat /\ DOMAIN of = 1 .. k /\ \A i \in 1 .. k : of[i] \in Ids
    BY <2>1
  <2> HIDE DEF k
  <2>3. \A i \in 0 .. k - 1 : i + 1 \in 1 .. k
    BY <2>2
  <2>4. ASSUME NEW i \in 0 .. k - 1, NEW j \in 0 .. k - 1, of[i + 1] = of[j + 1] PROVE i = j
    <3>1. i + 1 = j + 1
      BY <2>1, <2>2, <2>3, <2>4
    <3> QED BY <3>1
  <2> QED BY <2>1, <2>2, <2>3, <2>4 DEF OfGeneration, k
<1>2. /\ DOMAIN st = {"k", "n", "size", "rows", "delivered", "done"}
      /\ st.k = k /\ st.n = n /\ st.size \in {None, SegLen(of)}
      /\ DOMAIN st.rows \subseteq H /\ \A i \in DOMAIN st.rows : st.rows[i] = of
      /\ Cardinality(DOMAIN st.rows) <= k /\ (st.done = (Cardinality(DOMAIN st.rows) = k))
      /\ st.done = FALSE => DOMAIN st.rows = H /\ st.delivered = H \cap (0 .. k - 1)
      /\ st.done = TRUE => st.delivered = 0 .. k - 1
  BY DEF Rowed
<1>3. ~Refused(st, f)
  <2>1. ~(i0 >= n)
    BY <1>1
  <2> QED BY <1>1, <1>2, <2>1 DEF Refused
<1>4. after = [st |-> [st EXCEPT !.size = SegLen(f.of), !.rows = rows, !.done = @ \/ full,
                              !.delivered = @ \cup fresh \cup missing],
            out |-> own \o rest]
  BY <1>3 DEF AfterFrame
<1>5. /\ after.out = own \o rest
      /\ DOMAIN after.st = {"k", "n", "size", "rows", "delivered", "done"}
      /\ after.st.k = k /\ after.st.n = n /\ after.st.size = SegLen(of) /\ after.st.rows = rows
      /\ after.st.done = (st.done \/ full) /\ after.st.delivered = st.delivered \cup fresh \cup missing
  <2> HIDE DEF own, rest, full, fresh, missing, rows
  <2>1. after.st = [st EXCEPT !.size = SegLen(f.of), !.rows = rows, !.done = @ \/ full,
                              !.delivered = @ \cup fresh \cup missing] /\ after.out = own \o rest
    BY <1>4
  <2> HIDE DEF after
  <2> QED BY <1>1, <1>2, <2>1
<1>6. IsFiniteSet(0 .. n - 1) /\ IsFiniteSet(H) /\ IsFiniteSet(DOMAIN st.rows) /\ Cardinality(DOMAIN st.rows) \in Nat
      /\ i0 \in Nat
  <2>1. IsFiniteSet(0 .. n - 1)
    BY <1>1, FS_Interval
  <2>2. IsFiniteSet(H) /\ IsFiniteSet(DOMAIN st.rows)
    BY <1>2, <2>1, FS_Subset
  <2> QED BY <1>1, <2>1, <2>2, FS_CardinalityType
<1> HIDE DEF after
<1>7. CASE Cardinality(DOMAIN st.rows) = k
  <2>1. st.done = TRUE /\ st.delivered = 0 .. k - 1
    BY <1>2, <1>7
  <2>2. full = FALSE /\ missing = {}
    BY <2>1
  <2>3. rows = st.rows
    BY <1>2, <1>7 DEF Rows
  <2>4. fresh = {}
    <3>1. i0 < k => i0 \in st.delivered
      BY <1>1, <1>6, <2>1
    <3> QED BY <1>1, <3>1 DEF Fresh
  <2>5. own \o rest = << >>
    <3>1. own = << >>
      BY <2>4
    <3>2. Cardinality(missing) = 0
      BY <2>2, FS_EmptySet
    <3>3. rest = << >>
      <4> DEFINE c == Cardinality(missing)
                 F(j) == Recovered(rows, Rising(missing)[j])
      <4>1. rest = [j \in 1 .. c |-> F(j)]
        OBVIOUS
      <4>2. c = 0
        BY <3>2
      <4> HIDE DEF rest, c, F
      <4>3. rest \in Seq({F(j) : j \in 1 .. c}) /\ Len(rest) = 0
        BY <4>1, <4>2
      <4> QED BY <4>3
    <3> HIDE DEF own, rest
    <3> QED BY <3>1, <3>3
  <2> HIDE DEF own, rest, full, fresh, missing, rows
  <2>6. after.st.delivered = 0 .. k - 1 /\ after.st.done = TRUE /\ new = {} /\ after.out = << >>
    BY <1>5, <2>1, <2>2, <2>4, <2>5
  <2>7. Rowed(after.st, of, n, H \cup {f.index})
    <3>1. after.st.rows = st.rows /\ after.st.delivered = 0 .. k - 1 /\ after.st.done = TRUE
      BY <1>5, <2>3, <2>6
    <3>2. Cardinality(DOMAIN after.st.rows) = k
      BY <1>7, <3>1
    <3>3. DOMAIN after.st.rows \subseteq H \cup {f.index} /\ \A i \in DOMAIN after.st.rows : after.st.rows[i] = of
      BY <1>2, <3>1
    <3> HIDE DEF k
    <3>5. Cardinality(DOMAIN after.st.rows) <= k
      BY <1>1, <3>2
    <3>6. after.st.done = (Cardinality(DOMAIN after.st.rows) = k)
      BY <3>1, <3>2, Zenon
    <3>4. after.st.done = (Cardinality(DOMAIN after.st.rows) = Len(of)) /\ Cardinality(DOMAIN after.st.rows) <= Len(of)
      BY <3>5, <3>6 DEF k
    <3> USE DEF k
    <3> QED BY <1>5, <3>1, <3>3, <3>4 DEF Rowed
  <2>8. Makes(after.out, of, new)
    <3>1. after.out \in Seq(Ids) /\ DOMAIN after.out = {}
      BY <2>6
    <3> QED BY <2>6, <3>1 DEF Makes
  <2> QED BY <2>1, <2>6, <2>7, <2>8 DEF after, new
<1>8. CASE Cardinality(DOMAIN st.rows) # k
  <2> DEFINE G == H \cup {i0}
  <2>1. st.done = FALSE /\ DOMAIN st.rows = H /\ st.delivered = H \cap (0 .. k - 1)
    <3>1. st.done = FALSE
      BY <1>2, <1>8
    <3> QED BY <1>2, <3>1
  <2>2. rows = [i \in G |-> IF i \in DOMAIN st.rows THEN st.rows[i] ELSE f.of]
    BY <1>2, <1>8, <2>1 DEF Rows
  <2>3. DOMAIN rows = G /\ \A i \in G : rows[i] = of
    <3> HIDE DEF rows
    <3> QED BY <1>1, <1>2, <2>2
  <2>4. IsFiniteSet(G) /\ Cardinality(G) \in Nat /\ Cardinality(G) <= k
    <3>1. Cardinality(H) \in Nat /\ Cardinality(H) < k
      BY <1>1, <1>2, <1>6, <1>8, <2>1
    <3>2. IsFiniteSet(G) /\ Cardinality(G) = (IF i0 \in H THEN Cardinality(H) ELSE Cardinality(H) + 1)
      BY <1>6, FS_AddElement
    <3> HIDE DEF G
    <3> QED BY <1>1, <3>1, <3>2
  <2>5. full = (Cardinality(G) = k)
    BY <1>2, <2>1, <2>3
  <2>6. fresh = (IF i0 < k /\ i0 \notin H THEN {i0} ELSE {})
    <3>1. i0 < k => (i0 \in st.delivered <=> i0 \in H)
      BY <1>1, <1>6, <2>1
    <3> QED BY <1>1, <1>2, <3>1 DEF Fresh
  <2>7. st.delivered \cup fresh = G \cap (0 .. k - 1)
    <3>1. i0 < k <=> i0 \in 0 .. k - 1
      BY <1>1, <1>6
    <3> HIDE DEF fresh
    <3> QED BY <2>1, <2>6, <3>1
  <2>8. missing = IF full THEN (0 .. k - 1) \ G ELSE {}
    <3> HIDE DEF full, fresh
    <3>1. missing = IF full THEN (0 .. k - 1) \ (G \cap (0 .. k - 1)) ELSE {}
      BY <1>2, <2>7
    <3> QED BY <3>1
  <2> HIDE DEF fresh, full, rows
  <2>9. missing \in SUBSET Nat /\ missing \subseteq 0 .. k - 1 /\ IsFiniteSet(missing)
        /\ missing \cap (st.delivered \cup fresh) = {}
    <3>1. missing \subseteq 0 .. k - 1 /\ missing \cap G = {}
      BY <2>8
    <3>2. IsFiniteSet(0 .. k - 1)
      BY <1>1, FS_Interval
    <3> HIDE DEF missing
    <3>3. IsFiniteSet(missing)
      BY <3>1, <3>2, FS_Subset
    <3>4. \A i \in 0 .. k - 1 : i \in Nat
      BY <1>1
    <3> QED BY <2>7, <3>1, <3>3, <3>4
  <2> DEFINE c == Cardinality(missing)
             R == Rising(missing)
  <2>10. /\ c \in Nat /\ R \in [1 .. c -> missing]
         /\ \A i, j \in 1 .. c : R[i] = R[j] => i = j
         /\ \A x \in missing : \E j \in 1 .. c : R[j] = x
    <3> HIDE DEF missing
    <3> QED BY <2>9, RisingIs
  <2>11. \A i \in missing : Recovered(rows, i) = of[i + 1]
    <3> SUFFICES ASSUME NEW i \in missing PROVE Recovered(rows, i) = of[i + 1]
      OBVIOUS
    <3>1. i \notin G /\ i \in 0 .. k - 1
      BY <2>8
    <3>2. \A a, b \in DOMAIN rows : rows[a] = rows[b]
      BY <2>3
    <3>3. rows[CHOOSE a \in DOMAIN rows : TRUE] = of
      BY <2>3
    <3>4. Body(of, i) = of[i + 1]
      <4>1. i < Len(of)
        BY <1>1, <3>1
      <4> QED BY <4>1 DEF Body
    <3> QED BY <2>3, <3>1, <3>2, <3>3, <3>4 DEF Recovered
  <2>12. rest \in Seq(Ids) /\ Len(rest) = c /\ DOMAIN rest = 1 .. c /\ \A j \in 1 .. c : rest[j] = of[R[j] + 1]
    <3> HIDE DEF missing, c, R
    <3>1. rest = [j \in 1 .. c |-> Recovered(rows, R[j])]
      BY DEF c, R
    <3>2. \A j \in 1 .. c : Recovered(rows, R[j]) = of[R[j] + 1] /\ R[j] \in 0 .. k - 1
      BY <2>9, <2>10, <2>11
    <3>3. \A j \in 1 .. c : Recovered(rows, R[j]) \in Ids
      BY <1>1, <3>2, SMTT(30)
    <3> HIDE DEF rest
    <3> QED BY <2>10, <3>1, <3>2, <3>3
  <2>13. own \in Seq(Ids) /\ (IF fresh = {} THEN own = << >> ELSE fresh = {i0} /\ own = <<of[i0 + 1]>> /\ i0 \in 0 .. k - 1)
    <3>1. CASE fresh = {}
      BY <3>1
    <3>2. CASE fresh # {}
      <4>1. fresh = {i0} /\ i0 < k
        BY <2>6, <3>2
      <4>2. i0 \in 0 .. k - 1
        BY <1>1, <1>6, <4>1
      <4>3. Body(f.of, f.index) = of[i0 + 1]
        BY <1>1, <4>1 DEF Body
      <4>4. own = <<Body(f.of, f.index)>>
        BY <3>2
      <4>5. own = <<of[i0 + 1]>> /\ of[i0 + 1] \in Ids
        BY <1>1, <4>2, <4>3, <4>4
      <4> HIDE DEF own
      <4> DEFINE x == of[i0 + 1]
      <4> HIDE DEF x
      <4>6. x \in Ids /\ own = <<x>>
        BY <4>5 DEF x
      <4>7. own \in Seq(Ids)
        BY <4>6
      <4> QED BY <3>2, <4>1, <4>2, <4>6, <4>7 DEF x
    <3> QED BY <3>1, <3>2
  <2> HIDE DEF own, rest
  <2>14. after.out = own \o rest /\ new = fresh \cup missing /\ after.st.delivered = (G \cap (0 .. k - 1)) \cup missing
    <3>1. fresh \cap st.delivered = {}
      BY <2>1, <2>6
    <3> HIDE DEF missing, G
    <3> QED BY <1>5, <2>7, <2>9, <3>1
  <2> HIDE DEF new
  <2>15. Makes(after.out, of, new)
    <3>1. CASE fresh = {}
      <4>1. after.out = rest /\ new = missing
        <5>1. own = << >> /\ << >> \o rest = rest
          BY <2>12, <2>13, <3>1
        <5> HIDE DEF missing
        <5> QED BY <2>14, <3>1, <5>1
      <4> HIDE DEF missing, c, R
      <4>2. \A j \in 1 .. c : R[j] \in missing /\ R[j] \in 0 .. k - 1
        BY <2>9, <2>10
      <4>3. \A i, j \in DOMAIN rest : rest[i] = rest[j] => i = j
        <5> SUFFICES ASSUME NEW i \in 1 .. c, NEW j \in 1 .. c, rest[i] = rest[j] PROVE i = j
          BY <2>12
        <5>1. of[R[i] + 1] = of[R[j] + 1]
          BY <2>12
        <5>2. R[i] = R[j]
          BY <1>1, <4>2, <5>1
        <5> QED BY <2>10, <5>2
      <4>4. \A j \in DOMAIN rest : \E i \in missing : rest[j] = of[i + 1]
        BY <2>12, <4>2
      <4>5. \A i \in missing : \E j \in DOMAIN rest : rest[j] = of[i + 1]
        <5> SUFFICES ASSUME NEW i \in missing PROVE \E j \in DOMAIN rest : rest[j] = of[i + 1]
          OBVIOUS
        <5>1. PICK j \in 1 .. c : R[j] = i
          BY <2>10
        <5> QED BY <2>12, <5>1
      <4> QED BY <2>12, <4>1, <4>3, <4>4, <4>5 DEF Makes
    <3>2. CASE fresh # {}
      <4> DEFINE out == after.out
      <4>1. fresh = {i0} /\ own = <<of[i0 + 1]>> /\ i0 \in 0 .. k - 1 /\ new = {i0} \cup missing /\ of[i0 + 1] \in Ids
        <5> HIDE DEF missing
        <5> QED BY <1>1, <2>13, <2>14, <3>2
      <4>2. i0 \notin missing
        BY <2>9, <4>1
      <4> HIDE DEF missing, c, R
      <4>3. /\ out \in Seq(Ids) /\ DOMAIN out = 1 .. c + 1 /\ out[1] = of[i0 + 1]
            /\ \A j \in 2 .. c + 1 : out[j] = rest[j - 1] /\ j - 1 \in 1 .. c
        <5>1. out = <<of[i0 + 1]>> \o rest
          BY <2>14, <4>1
        <5> HIDE DEF out
        <5> DEFINE x == of[i0 + 1]
        <5> HIDE DEF x
        <5>2. x \in Ids /\ out = <<x>> \o rest /\ rest \in Seq(Ids) /\ Len(rest) = c
          BY <2>12, <4>1, <5>1 DEF x
        <5>3. out \in Seq(Ids) /\ Len(out) = c + 1 /\ out[1] = x /\ \A j \in 2 .. c + 1 : out[j] = rest[j - 1]
          BY <5>2, Prefixed
        <5>5. DOMAIN out = 1 .. c + 1
          BY <5>3
        <5>6. 1 \in 1 .. c + 1 /\ \A j \in 2 .. c + 1 : j \in 1 .. c + 1 /\ ~(j <= 1) /\ j - 1 \in 1 .. c
          BY <2>10
        <5> QED BY <5>3, <5>5, <5>6 DEF x
      <4>4. \A j \in 2 .. c + 1 : out[j] = of[R[j - 1] + 1] /\ R[j - 1] \in missing /\ R[j - 1] \in 0 .. k - 1
        <5> HIDE DEF out
        <5>1. \A j \in 1 .. c : R[j] \in missing /\ R[j] \in 0 .. k - 1
          BY <2>9, <2>10
        <5> QED BY <2>12, <4>3, <5>1
      <4>5. \A j \in 2 .. c + 1 : out[j] # out[1]
        <5> HIDE DEF out
        <5> SUFFICES ASSUME NEW j \in 2 .. c + 1, out[j] = out[1] PROVE FALSE
          OBVIOUS
        <5>1. of[R[j - 1] + 1] = of[i0 + 1] /\ R[j - 1] \in 0 .. k - 1
          BY <4>3, <4>4
        <5>2. R[j - 1] = i0
          BY <1>1, <4>1, <5>1
        <5> QED BY <4>2, <4>4, <5>2
      <4>6. \A i, j \in DOMAIN out : out[i] = out[j] => i = j
        <5> HIDE DEF out
        <5>1. \A i \in DOMAIN out : i = 1 \/ i \in 2 .. c + 1
          BY <2>10, <4>3
        <5>2. ASSUME NEW i \in 2 .. c + 1, NEW j \in 2 .. c + 1, out[i] = out[j] PROVE i = j
          <6>1. of[R[i - 1] + 1] = of[R[j - 1] + 1] /\ R[i - 1] \in 0 .. k - 1 /\ R[j - 1] \in 0 .. k - 1
            BY <4>4, <5>2
          <6>2. R[i - 1] = R[j - 1]
            BY <1>1, <6>1
          <6>3. i - 1 \in 1 .. c /\ j - 1 \in 1 .. c
            BY <4>3
          <6>4. i - 1 = j - 1
            BY <2>10, <6>2, <6>3
          <6> QED BY <6>4
        <5> QED BY <4>5, <5>1, <5>2
      <4>7. \A j \in DOMAIN out : \E i \in new : out[j] = of[i + 1]
        <5> HIDE DEF out
        <5>1. \A i \in DOMAIN out : i = 1 \/ i \in 2 .. c + 1
          BY <2>10, <4>3
        <5> QED BY <4>1, <4>3, <4>4, <5>1
      <4>8. \A i \in new : \E j \in DOMAIN out : out[j] = of[i + 1]
        <5> HIDE DEF out
        <5>1. 1 \in DOMAIN out
          BY <2>10, <4>3
        <5>2. ASSUME NEW i \in missing PROVE \E j \in DOMAIN out : out[j] = of[i + 1]
          <6>1. PICK j \in 1 .. c : R[j] = i
            BY <2>10
          <6>2. j + 1 \in 2 .. c + 1 /\ j + 1 \in DOMAIN out /\ (j + 1) - 1 = j
            BY <2>10, <4>3
          <6>3. out[j + 1] = of[i + 1]
            BY <4>4, <6>1, <6>2
          <6> QED BY <6>2, <6>3
        <5> QED BY <4>1, <4>3, <5>1, <5>2
      <4> QED BY <4>3, <4>6, <4>7, <4>8 DEF Makes
    <3> QED BY <3>1, <3>2
  <2>16. after.st.delivered \subseteq 0 .. k - 1
    BY <2>9, <2>14
  <2>17. Rowed(after.st, of, n, H \cup {f.index})
    <3>1. DOMAIN after.st.rows = G /\ \A i \in DOMAIN after.st.rows : after.st.rows[i] = of
      BY <1>5, <2>3
    <3>2. after.st.done = (Cardinality(G) = k)
      BY <1>5, <2>1, <2>5
    <3>3. after.st.done = FALSE => after.st.delivered = G \cap (0 .. k - 1)
      <4>1. after.st.done = FALSE => missing = {}
        BY <2>5, <2>8, <3>2
      <4> HIDE DEF missing, G
      <4> QED BY <2>14, <4>1
    <3>4. after.st.done = TRUE => after.st.delivered = 0 .. k - 1
      <4>1. after.st.done = TRUE => missing = (0 .. k - 1) \ G
        BY <2>5, <2>8, <3>2
      <4> HIDE DEF missing, G
      <4> QED BY <2>14, <4>1
    <3> QED BY <1>1, <1>5, <2>4, <3>1, <3>2, <3>3, <3>4 DEF Rowed
  <2>18. st.delivered \subseteq after.st.delivered
    BY <1>5
  <2>19. \A i \in new : \E j \in G : i <= j
    <3> SUFFICES ASSUME NEW i \in new, \A j \in G : ~(i <= j) PROVE FALSE
      OBVIOUS
    <3>1. i \in 0 .. k - 1
      BY <2>9, <2>13, <2>14
    <3>2. \A j \in G : j \in 0 .. n - 1
      BY <1>1
    <3>3. i \notin G
      BY <3>1
    <3>4. i \in missing
      BY <2>6, <2>14, <3>3
    <3>5. Cardinality(G) = k
      BY <2>5, <2>8, <3>4
    <3>0. i \in Nat
      BY <1>1, <3>1
    <3>6. G \subseteq 0 .. i - 1
      <4> SUFFICES ASSUME NEW j \in G PROVE j \in 0 .. i - 1
        OBVIOUS
      <4>1. j \in 0 .. n - 1 /\ ~(i <= j) /\ n \in Nat
        BY <1>1, <3>2
      <4> HIDE DEF G
      <4> QED BY <3>0, <4>1
    <3>7. IsFiniteSet(0 .. i - 1) /\ Cardinality(0 .. i - 1) = i
      <4>1. IsFiniteSet(0 .. i - 1) /\ Cardinality(0 .. i - 1) = IF 0 > i - 1 THEN 0 ELSE i - 1 - 0 + 1
        BY <3>0, FS_Interval
      <4> QED BY <3>0, <4>1
    <3>8. Cardinality(G) <= i
      <4> HIDE DEF G
      <4>1. Cardinality(G) <= Cardinality(0 .. i - 1)
        BY <3>6, <3>7, FS_Subset
      <4> QED BY <3>7, <4>1
    <3> QED BY <1>1, <3>1, <3>5, <3>8
  <2> QED BY <2>15, <2>16, <2>17, <2>18, <2>19 DEF after, new
<1> QED BY <1>7, <1>8

(* A generation the receiver has just heard of. *)
LEMMA Opening ==
  ASSUME NEW of, NEW n, Generation(of, n), NEW f, OfGeneration(f, of, n)
  PROVE  Rowed(NewGen(f), of, n, {}) /\ NewGen(f).delivered = {}
<1> DEFINE st == NewGen(f)
<1>1. /\ st = [k |-> Len(of), n |-> n, size |-> None, rows |-> << >>, delivered |-> {}, done |-> FALSE]
  BY DEF NewGen, OfGeneration
<1>2. Len(of) \in Nat /\ Len(of) >= 1
  BY DEF Generation
<1>3. DOMAIN st = {"k", "n", "size", "rows", "delivered", "done"} /\ st.k = Len(of) /\ st.n = n
      /\ st.size = None /\ DOMAIN st.rows = {} /\ st.delivered = {} /\ st.done = FALSE
  BY <1>1
<1>4. Cardinality(DOMAIN st.rows) = 0
  BY <1>3, FS_EmptySet
<1> HIDE DEF st
<1>5. Rowed(st, of, n, {})
  <2> DEFINE c == Cardinality(DOMAIN st.rows)
             k == Len(of)
  <2> HIDE DEF c, k
  <2>0. c = 0 /\ k \in Nat /\ k >= 1
    BY <1>2, <1>4 DEF c, k
  <2>2. c # k /\ c <= k
    BY <2>0
  <2>3. st.done = (c = k)
    BY <1>3, <2>2, Zenon
  <2>1. (st.done = (Cardinality(DOMAIN st.rows) = Len(of))) /\ Cardinality(DOMAIN st.rows) <= Len(of)
    BY <2>2, <2>3 DEF c, k
  <2> QED BY <1>2, <1>3, <2>1 DEF Rowed
<1> QED BY <1>3, <1>5 DEF st

(* A frame of a generation has one number, and the generation one code.         *)
LEMMA OneGeneration ==
  ASSUME NEW s, NEW C, NEW P, Coding(s, C, P), NEW g \in DOMAIN C, NEW h \in DOMAIN C, C[g].of = C[h].of
  PROVE  g = h
<1>1. Generation(C[g].of, C[g].n) /\ Generation(C[h].of, C[h].n)
  BY DEF Coding
<1>2. 1 \in DOMAIN C[g].of
  BY <1>1 DEF Generation
<1> QED BY <1>2 DEF Coding, Sources

(* What is handed up is counted once each, and nothing in it is invented. *)
LEMMA Delivering ==
  ASSUME NEW out \in Seq(Ids), \A i, j \in DOMAIN out : out[i] = out[j] => i = j,
         Deliver(out), invented = FALSE, got \in [Ids -> {0, 1}]
  PROVE  /\ invented' = FALSE
         /\ got' = [id \in Ids |-> got[id] + IF \E j \in DOMAIN out : out[j] = id THEN 1 ELSE 0]
<1>1. Garbage \notin Ids
  BY DEF Garbage, Ids
<1>2. Garbage \notin ToSet(out)
  BY <1>1 DEF ToSet
<1>3. invented' = FALSE
  BY <1>2 DEF Deliver
<1>4. got' = [id \in Ids |-> got[id] + Cardinality({j \in DOMAIN out : out[j] = id})]
  BY DEF Deliver
<1>5. \A id \in Ids : Cardinality({j \in DOMAIN out : out[j] = id}) = IF \E j \in DOMAIN out : out[j] = id THEN 1 ELSE 0
  BY OnceIn
<1> QED BY <1>3, <1>4, <1>5

(* The decoder a coded frame meets: the one it has, or a new one.               *)
Meets(f) == IF f.gen \in DOMAIN gens THEN gens[f.gen] ELSE NewGen(f)

(* The generations that stay: the oldest is evicted when there is no room. *)
Kept(f) ==
  IF f.gen \notin DOMAIN gens /\ Cardinality(DOMAIN gens) >= Cap THEN DOMAIN gens \ {Head(order)} ELSE DOMAIN gens

(* The frame is on its way, and its generation is neither settled nor unknown.   *)
Comes(f, s, C, P) ==
  /\ \E i \in DOMAIN link[s] : link[s][i] = f
  /\ FrameIs(f, C, P)

(* The decoder a coded frame meets, held or opened for it. *)
LEMMA MeetsIs ==
  ASSUME NEW s, NEW C, NEW P, NEW f, Coding(s, C, P), Decoded(s, C), Comes(f, s, C, P), f.coded = TRUE
  PROVE  /\ Rowed(Meets(f), C[f.gen].of, C[f.gen].n, HeardOf(C, f.gen))
         /\ \A i \in 0 .. Len(C[f.gen].of) - 1 : got[C[f.gen].of[i + 1]] = IF i \in Meets(f).delivered THEN 1 ELSE 0
<1> DEFINE g == f.gen
           of == C[g].of
           n == C[g].n
<1>1. g \in DOMAIN C /\ OfGeneration(f, of, n) /\ Generation(of, n)
  BY DEF Comes, FrameIs, Coding
<1>2. CASE g \in DOMAIN gens
  <2>1. Held(gens[g], C, g)
    BY <1>1, <1>2 DEF Decoded
  <2> QED BY <1>2, <2>1 DEF Held, Meets
<1>3. CASE g \notin DOMAIN gens
  <2>1. ~Over(s, C, g)
    BY DEF Comes, Over
  <2>2. Untouched(C, g)
    BY <1>1, <1>3, <2>1 DEF Decoded
  <2>3. Rowed(NewGen(f), of, n, {}) /\ NewGen(f).delivered = {}
    BY <1>1, Opening
  <2>4. \A i \in 0 .. Len(of) - 1 : i + 1 \in DOMAIN of
    BY <1>1 DEF Generation
  <2> QED BY <1>3, <2>2, <2>3, <2>4 DEF Meets, Untouched, Sources
<1> QED BY <1>2, <1>3

(* What absorbing a coded frame comes to. *)
Absorbed(f, C, P) ==
  /\ f.gen \in DOMAIN C /\ heard' = heard \cup {<<C[f.gen].of, f.index>>}
  /\ DOMAIN gens' = Kept(f) \cup {f.gen} /\ \A h \in Kept(f) \ {f.gen} : gens'[h] = gens[h]
  /\ Held(gens[f.gen], C, f.gen)'
  /\ HeardOf(C, f.gen)' = HeardOf(C, f.gen) \cup {f.index}
  /\ \A h \in DOMAIN C : h # f.gen => HeardOf(C, h)' = HeardOf(C, h)
  /\ invented' = FALSE /\ got' \in [Ids -> {0, 1}]
  /\ \A h \in DOMAIN C : h # f.gen => \A i \in Sources(C, h) : got'[C[h].of[i]] = got[C[h].of[i]]
  /\ \A id \in P : got'[id] = got[id]
  /\ \A id \in Ids : got[id] = 1 => got'[id] = 1
  /\ \A id \in Ids : got'[id] = 1 /\ got[id] # 1 =>
       \E i \in 0 .. Len(C[f.gen].of) - 1 : id = C[f.gen].of[i + 1] /\ \E j \in HeardOf(C, f.gen) \cup {f.index} : i <= j

(* A coded frame is absorbed by the decoder of its generation. *)
LEMMA AbsorbedCoded ==
  ASSUME FecAssumption, NEW s, NEW C, NEW P, NEW f,
         Coding(s, C, P), Decoded(s, C), GotIs(s, C, P), Comes(f, s, C, P), f.coded = TRUE, Absorb(f)
  PROVE  Absorbed(f, C, P)
<1> DEFINE g == f.gen
           of == C[g].of
           n == C[g].n
           H == HeardOf(C, g)
           st == Meets(f)
           after == AfterFrame(st, f)
           out == after.out
           new == after.st.delivered \ st.delivered
<1>1. g \in DOMAIN C /\ OfGeneration(f, of, n) /\ Generation(of, n) /\ f.of = of /\ f.index \in 0 .. n - 1
  BY DEF Comes, FrameIs, Coding, OfGeneration
<1>2. H \in SUBSET (0 .. n - 1)
  BY DEF HeardOf
<1>3. /\ Rowed(st, of, n, H)
      /\ \A i \in 0 .. Len(of) - 1 : got[of[i + 1]] = IF i \in st.delivered THEN 1 ELSE 0
  BY MeetsIs
<1>4. /\ Rowed(after.st, of, n, H \cup {f.index})
      /\ st.delivered \subseteq after.st.delivered
      /\ after.st.delivered \subseteq 0 .. Len(of) - 1
      /\ Makes(out, of, new)
      /\ \A i \in new : \E j \in H \cup {f.index} : i <= j
  <2> HIDE DEF st, H, of, n
  <2>1. Generation(of, n) /\ H \in SUBSET (0 .. n - 1) /\ Rowed(st, of, n, H) /\ OfGeneration(f, of, n)
    BY <1>1, <1>2, <1>3
  <2> QED BY ONLY FecAssumption, <2>1, Absorbing
<1>5. /\ gens' = [h \in Kept(f) \cup {g} |-> IF h = g THEN after.st ELSE gens[h]]
      /\ heard' = heard \cup {<<f.of, f.index>>} /\ Deliver(out)
  BY DEF Absorb, Kept, Meets
<1> HIDE DEF st, after
<1>6. heard' = heard \cup {<<of, f.index>>}
  BY <1>1, <1>5
<1>7. HeardOf(C, g)' = H \cup {f.index}
  BY <1>1, <1>6 DEF HeardOf
<1>8. \A h \in DOMAIN C : h # g => HeardOf(C, h)' = HeardOf(C, h)
  <2> SUFFICES ASSUME NEW h \in DOMAIN C, h # g PROVE HeardOf(C, h)' = HeardOf(C, h)
    OBVIOUS
  <2>1. C[h].of # of
    BY <1>1, OneGeneration
  <2> QED BY <1>6, <2>1 DEF HeardOf
<1> DEFINE made(id) == \E j \in DOMAIN out : out[j] = id
<1>9. invented' = FALSE /\ got' = [id \in Ids |-> got[id] + IF made(id) THEN 1 ELSE 0]
  <2>1. out \in Seq(Ids) /\ \A i, j \in DOMAIN out : out[i] = out[j] => i = j
    BY <1>4 DEF Makes
  <2>2. Deliver(out) /\ invented = FALSE /\ got \in [Ids -> {0, 1}]
    BY <1>5 DEF GotIs
  <2> HIDE DEF out
  <2> QED BY <2>1, <2>2, Delivering
<1>10. \A i \in 0 .. Len(of) - 1 : i + 1 \in DOMAIN of /\ of[i + 1] \in Ids
  <2>1. of \in Seq(Ids) /\ Len(of) \in Nat /\ DOMAIN of = 1 .. Len(of)
    BY <1>1 DEF Generation
  <2>2. \A i \in 0 .. Len(of) - 1 : i + 1 \in 1 .. Len(of)
    BY <2>1
  <2> HIDE DEF of
  <2> QED BY <2>1, <2>2
<1>11. \A id : made(id) <=> \E i \in new : id = of[i + 1]
  <2> HIDE DEF out, new
  <2>1. /\ \A j \in DOMAIN out : \E i \in new : out[j] = of[i + 1]
        /\ \A i \in new : \E j \in DOMAIN out : out[j] = of[i + 1]
    BY <1>4 DEF Makes
  <2> HIDE DEF of
  <2> QED BY <2>1, Zenon
<1>12. \A i \in new : i \in 0 .. Len(of) - 1 /\ got[of[i + 1]] = 0
  BY <1>3, <1>4
<1> HIDE DEF made, new
<1>13. got' \in [Ids -> {0, 1}]
  <2> SUFFICES ASSUME NEW id \in Ids PROVE got'[id] \in {0, 1}
    BY <1>9
  <2>1. got'[id] = got[id] + IF made(id) THEN 1 ELSE 0
    BY <1>9
  <2>2. got[id] \in {0, 1}
    BY DEF GotIs
  <2>3. made(id) => got[id] = 0
    BY <1>11, <1>12
  <2> QED BY <2>1, <2>2, <2>3
<1>14. \A id \in Ids : ~made(id) => got'[id] = got[id]
  <2> SUFFICES ASSUME NEW id \in Ids, ~made(id) PROVE got'[id] = got[id]
    OBVIOUS
  <2>1. got[id] \in {0, 1}
    BY DEF GotIs
  <2> QED BY <1>9, <2>1
<1>15. \A id \in Ids : made(id) => got'[id] = 1
  <2> SUFFICES ASSUME NEW id \in Ids, made(id) PROVE got'[id] = 1
    OBVIOUS
  <2>1. got[id] = 0
    BY <1>11, <1>12
  <2> QED BY <1>9, <2>1
<1>16. \A h \in DOMAIN C : h # g => \A i \in Sources(C, h) : got'[C[h].of[i]] = got[C[h].of[i]]
  <2> SUFFICES ASSUME NEW h \in DOMAIN C, h # g, NEW i \in Sources(C, h) PROVE got'[C[h].of[i]] = got[C[h].of[i]]
    OBVIOUS
  <2>1. C[h].of[i] \in Ids
    BY DEF Coding, Sources, Generation
  <2>2. \A j \in Sources(C, g) : C[h].of[i] # C[g].of[j]
    BY <1>1 DEF Coding
  <2>3. ~made(C[h].of[i])
    BY <1>10, <1>11, <1>12, <2>2 DEF Sources
  <2> QED BY <1>14, <2>1, <2>3
<1>17. \A id \in P : got'[id] = got[id]
  <2> SUFFICES ASSUME NEW id \in P PROVE got'[id] = got[id]
    OBVIOUS
  <2>1. id \in Ids /\ \A j \in Sources(C, g) : id # C[g].of[j]
    BY <1>1 DEF Coding
  <2>2. ~made(id)
    BY <1>10, <1>11, <1>12, <2>1 DEF Sources
  <2> QED BY <1>14, <2>1, <2>2
<1>18. \A id \in Ids : got[id] = 1 => got'[id] = 1
  BY <1>14, <1>15
<1>19. \A id \in Ids : got'[id] = 1 /\ got[id] # 1 =>
              \E i \in 0 .. Len(of) - 1 : id = of[i + 1] /\ \E j \in H \cup {f.index} : i <= j
  <2> SUFFICES ASSUME NEW id \in Ids, got'[id] = 1, got[id] # 1
               PROVE  \E i \in 0 .. Len(of) - 1 : id = of[i + 1] /\ \E j \in H \cup {f.index} : i <= j
    OBVIOUS
  <2>1. made(id)
    BY <1>14
  <2>2. PICK i \in new : id = of[i + 1]
    BY <1>11, <2>1
  <2> QED BY <1>4, <1>12, <2>2 DEF new
<1>20. Held(gens[g], C, g)'
  <2>1. gens'[g] = after.st
    BY <1>5
  <2>2. Rowed(gens'[g], C[g].of, C[g].n, HeardOf(C, g)')
    BY <1>4, <1>7, <2>1
  <2>3. ASSUME NEW i \in 0 .. Len(of) - 1
        PROVE  got'[of[i + 1]] = IF i \in after.st.delivered THEN 1 ELSE 0
    <3> DEFINE id == of[i + 1]
    <3>0. id \in Ids
      BY <1>10
    <3>1. made(id) <=> i \in new
      <4>1. \A j \in new : j \in 0 .. Len(of) - 1 /\ of[j + 1] = of[i + 1] => j = i
        <5> SUFFICES ASSUME NEW j \in new, of[j + 1] = of[i + 1] PROVE j \in 0 .. Len(of) - 1 /\ j = i
          BY <1>12
        <5>1. j \in 0 .. Len(of) - 1 /\ j + 1 \in DOMAIN of /\ i + 1 \in DOMAIN of
          BY <1>10, <1>12
        <5>2. j + 1 = i + 1
          BY <1>1, <5>1 DEF Generation
        <5>3. Len(of) \in Nat
          BY <1>1 DEF Generation
        <5> HIDE DEF of
        <5> QED BY <5>1, <5>2, <5>3
      <4> QED BY <1>11, <1>12, <4>1
    <3>2. CASE i \in new
      <4>1. got'[id] = 1
        BY <1>15, <3>0, <3>1, <3>2
      <4> QED BY <3>2, <4>1 DEF new
    <3>3. CASE i \notin new
      <4>1. got'[id] = got[id]
        BY <1>14, <3>0, <3>1, <3>3
      <4>2. got[id] = IF i \in st.delivered THEN 1 ELSE 0
        BY <1>3
      <4>3. i \in st.delivered <=> i \in after.st.delivered
        BY <1>4, <3>3 DEF new
      <4> QED BY <4>1, <4>2, <4>3
    <3> QED BY <3>2, <3>3
  <2> QED BY <2>1, <2>2, <2>3 DEF Held
<1>21. DOMAIN gens' = Kept(f) \cup {g} /\ \A h \in Kept(f) \ {g} : gens'[h] = gens[h]
  BY <1>5
<1> QED BY <1>1, <1>6, <1>7, <1>8, <1>9, <1>13, <1>16, <1>17, <1>18, <1>19, <1>20, <1>21 DEF Absorbed

(* What a frame that is overtaken keeps. *)
Alike(f, h) ==
  /\ h.coded = f.coded /\ h.of = f.of
  /\ f.coded = TRUE => h.gen = f.gen /\ h.k = f.k /\ h.n = f.n /\ h.index = f.index

(* Where on the link a frame was, before frame p of the link was taken from it. *)
Was(p, j) == IF p = 2 /\ j = 1 THEN 1 ELSE j + 1

(* Frame p has left the link: the first, or the second, which overtakes it.      *)
Parted(s, p) ==
  /\ p \in {1, 2} /\ p \in DOMAIN link[s]
  /\ DOMAIN link'[s] = 1 .. Len(link[s]) - 1
  /\ \A j \in DOMAIN link'[s] :
       /\ Was(p, j) \in DOMAIN link[s] /\ Was(p, j) # p
       /\ Alike(link[s][Was(p, j)], link'[s][j])
       /\ IF p = 2 /\ j = 1 THEN link'[s][j].late = TRUE ELSE link'[s][j].late = link[s][Was(p, j)].late

(* The first frame leaves the link when it is received or lost. *)
LEMMA FirstParts ==
  ASSUME NEW s \in Tx, ParityInv, link[s] # << >>, link' = [link EXCEPT ![s] = Tail(@)]
  PROVE  Parted(s, 1)
<1> DEFINE q == link[s]
<1>1. q \in Seq(AskedFrame) /\ link'[s] = Tail(q) /\ q # << >>
  BY DEF ParityInv
<1> HIDE DEF q
<1>2. /\ Len(q) \in Nat /\ Len(q) >= 1 /\ DOMAIN q = 1 .. Len(q) /\ DOMAIN link'[s] = 1 .. Len(q) - 1
      /\ \A j \in 1 .. Len(q) - 1 : link'[s][j] = q[j + 1]
  <2> DEFINE t == Tail(q)
  <2>1. t \in Seq(AskedFrame) /\ Len(t) = Len(q) - 1 /\ Len(q) \in Nat /\ Len(q) >= 1 /\ DOMAIN q = 1 .. Len(q)
        /\ \A j \in 1 .. Len(q) - 1 : t[j] = q[j + 1]
    BY <1>1
  <2> HIDE DEF t
  <2>2. DOMAIN t = 1 .. Len(t)
    BY <2>1
  <2>3. link'[s] = t
    BY <1>1 DEF t
  <2> QED BY <2>1, <2>2, <2>3
<1>3. 1 \in DOMAIN q
  BY <1>2
<1>4. ASSUME NEW j \in 1 .. Len(q) - 1 PROVE Was(1, j) = j + 1 /\ j + 1 \in DOMAIN q /\ j + 1 # 1
  BY <1>2 DEF Was
<1>5. \A f : Alike(f, f)
  BY DEF Alike
<1> QED BY <1>2, <1>3, <1>4, <1>5 DEF Parted, q

(* The second leaves when it overtakes the first. *)
LEMMA SecondParts ==
  ASSUME NEW s \in Tx, ParityInv, Len(link[s]) >= 2,
         link' = [link EXCEPT ![s] = <<[@[1] EXCEPT !.late = TRUE]>> \o Tail(Tail(@))]
  PROVE  Parted(s, 2)
<1> DEFINE q == link[s]
           f == q[1]
           h == [f EXCEPT !.late = TRUE]
           r == Tail(Tail(q))
<1>1. q \in Seq(AskedFrame) /\ link'[s] = <<h>> \o r /\ Len(q) >= 2
  BY DEF ParityInv
<1>2. f \in AskedFrame
  BY <1>1
<1>3. Alike(f, h) /\ h.late = TRUE /\ h \in AskedFrame
  <2>1. CASE f \in PlainFrame
    <3>1. f.coded = FALSE /\ h.coded = FALSE /\ h.of = f.of /\ h.late = TRUE /\ h \in PlainFrame
      BY <2>1 DEF PlainFrame
    <3> QED BY <3>1 DEF Alike, AskedFrame
  <2>2. CASE f \in CodedFrame /\ f.n - f.k = Adopted(f.asked)
    <3>1. h.coded = f.coded /\ h.of = f.of /\ h.gen = f.gen /\ h.k = f.k /\ h.n = f.n /\ h.index = f.index
          /\ h.late = TRUE /\ h \in CodedFrame /\ h.asked = f.asked
      BY <2>2 DEF CodedFrame
    <3> QED BY <2>2, <3>1 DEF Alike, AskedFrame
  <2> QED BY <1>2, <2>1, <2>2 DEF AskedFrame
<1> HIDE DEF q, h, f
<1>4. /\ Len(q) \in Nat /\ DOMAIN q = 1 .. Len(q) /\ r \in Seq(AskedFrame) /\ Len(r) = Len(q) - 2
      /\ \A j \in 1 .. Len(q) - 2 : r[j] = q[j + 2]
  <2>1. Tail(q) \in Seq(AskedFrame) /\ Len(Tail(q)) = Len(q) - 1 /\ Len(q) \in Nat /\ DOMAIN q = 1 .. Len(q)
        /\ \A j \in 1 .. Len(q) - 1 : Tail(q)[j] = q[j + 1]
    BY <1>1
  <2> DEFINE t == Tail(q)
  <2> HIDE DEF t
  <2>2. t \in Seq(AskedFrame) /\ Len(t) = Len(q) - 1 /\ Len(q) - 1 >= 1 /\ r = Tail(t)
    BY <1>1, <2>1 DEF t
  <2>3. Tail(t) \in Seq(AskedFrame) /\ Len(Tail(t)) = Len(t) - 1 /\ \A j \in 1 .. Len(t) - 1 : Tail(t)[j] = t[j + 1]
    BY <2>2
  <2>a. Len(q) \in Nat /\ Len(t) = Len(q) - 1
    BY <2>1, <2>2
  <2>4. \A j \in 1 .. Len(q) - 2 : j \in 1 .. Len(t) - 1 /\ j + 1 \in 1 .. Len(q) - 1 /\ (j + 1) + 1 = j + 2
    <3> DEFINE n == Len(q)
               m == Len(t)
    <3> HIDE DEF n, m
    <3>1. n \in Nat /\ m = n - 1
      BY <2>a DEF n, m
    <3>2. \A j \in 1 .. n - 2 : j \in 1 .. m - 1 /\ j + 1 \in 1 .. n - 1 /\ (j + 1) + 1 = j + 2
      BY <3>1
    <3> QED BY <3>2 DEF n, m
  <2>5. Len(t) - 1 = Len(q) - 2
    BY <2>a
  <2>6. \A j \in 1 .. Len(q) - 2 : Tail(t)[j] = q[j + 2]
    BY <2>1, <2>3, <2>4 DEF t
  <2> HIDE DEF r
  <2> QED BY <2>1, <2>2, <2>3, <2>5, <2>6
<1> HIDE DEF r
<1>5. /\ DOMAIN link'[s] = 1 .. Len(q) - 1 /\ link'[s][1] = h
      /\ \A j \in 2 .. Len(q) - 1 : link'[s][j] = q[j + 1]
  <2> DEFINE w == <<h>> \o r
  <2>1. /\ w \in Seq(AskedFrame) /\ Len(w) = Len(r) + 1 /\ w[1] = h
        /\ \A j \in 2 .. Len(r) + 1 : w[j] = r[j - 1]
    <3>1. h \in AskedFrame /\ r \in Seq(AskedFrame)
      BY <1>3, <1>4
    <3> QED BY <3>1, Prefixed
  <2> HIDE DEF w
  <2>2. DOMAIN w = 1 .. Len(q) - 1 /\ Len(r) + 1 = Len(q) - 1
    BY <1>4, <2>1
  <2>3. \A j \in 2 .. Len(q) - 1 : j - 1 \in 1 .. Len(q) - 2 /\ (j - 1) + 2 = j + 1
    BY <1>4
  <2>4. \A j \in 2 .. Len(q) - 1 : w[j] = q[j + 1]
    BY <1>4, <2>1, <2>2, <2>3
  <2>5. link'[s] = w
    BY <1>1 DEF w
  <2> QED BY <2>1, <2>2, <2>4, <2>5
<1>6. \A x : Alike(x, x)
  BY DEF Alike
<1>7. ASSUME NEW j \in 1 .. Len(q) - 1
      PROVE  /\ Was(2, j) \in DOMAIN q /\ Was(2, j) # 2 /\ Alike(q[Was(2, j)], link'[s][j])
             /\ IF j = 1 THEN link'[s][j].late = TRUE ELSE link'[s][j].late = q[Was(2, j)].late
  <2>1. CASE j = 1
    <3>1. Was(2, j) = 1 /\ 1 \in DOMAIN q
      BY <1>1, <1>4, <2>1 DEF Was
    <3>2. link'[s][j] = h /\ q[Was(2, j)] = f
      BY <1>5, <2>1, <3>1 DEF f
    <3>3. Alike(q[Was(2, j)], link'[s][j]) /\ link'[s][j].late = TRUE
      BY <1>3, <3>2
    <3> QED BY <2>1, <3>1, <3>3
  <2>2. CASE j # 1
    <3>1. Was(2, j) = j + 1 /\ j + 1 \in DOMAIN q /\ j + 1 # 2 /\ j \in 2 .. Len(q) - 1
      BY <1>4, <2>2 DEF Was
    <3>2. link'[s][j] = q[j + 1]
      BY <1>5, <3>1
    <3> QED BY <1>6, <2>2, <3>1, <3>2
  <2> QED BY <2>1, <2>2
<1>8. 2 \in DOMAIN q
  BY <1>1, <1>4
<1> QED BY <1>5, <1>7, <1>8 DEF Parted, q

(* The frames that stay on the link stay in their order.                        *)
LEMMA StayInOrder ==
  ASSUME NEW s, NEW p, Parted(s, p), NEW i \in DOMAIN link'[s], NEW j \in DOMAIN link'[s], i < j, Len(link[s]) \in Nat
  PROVE  Was(p, i) < Was(p, j) /\ Was(p, j) > p /\ ~(p = 2 /\ j = 1)
<1>1. i \in Nat /\ j \in Nat /\ i >= 1 /\ j > 1 /\ p \in {1, 2}
  BY DEF Parted
<1>2. Was(p, j) = j + 1 /\ Was(p, i) \in {1, i + 1}
  BY <1>1 DEF Was
<1> QED BY <1>1, <1>2

(* To be late changes nothing of what a frame is. *)
LEMMA AlikeIs ==
  ASSUME NEW f, NEW h, NEW C, NEW P, Alike(f, h), FrameIs(f, C, P)
  PROVE  FrameIs(h, C, P)
BY DEF Alike, FrameIs, OfGeneration

(* What stays on the link is still as it should be. *)
LEMMA LinkKeeps ==
  ASSUME NEW s, NEW p, NEW C, NEW P, LinkIs(s, C, P), Parted(s, p), Len(link[s]) \in Nat,
         sink'[s] = sink[s], generation'[s] = generation[s],
         \A j \in DOMAIN link'[s] : link'[s][j].coded = FALSE => got'[link'[s][j].of[1]] = 0
  PROVE  LinkIs(s, C, P)'
<1> DEFINE LeftNow(g, i) == g < generation'[s] - 1 \/ i < C[g].n - Len(sink'[s])
<1>1. ASSUME NEW i \in DOMAIN link'[s]
      PROVE  LET f == link'[s][i] IN
             /\ FrameIs(f, C, P) /\ (f.coded = TRUE => LeftNow(f.gen, f.index))
             /\ (i > 1 => f.late = FALSE)
             /\ f.coded = FALSE => got'[f.of[1]] = 0
  <2> DEFINE w == Was(p, i)
             f == link'[s][i]
             h == link[s][w]
  <2>1. w \in DOMAIN link[s] /\ Alike(h, f) /\ (IF p = 2 /\ i = 1 THEN f.late = TRUE ELSE f.late = h.late)
    BY DEF Parted
  <2>2. FrameIs(h, C, P) /\ (h.coded = TRUE => Left(s, C, h.gen, h.index)) /\ (w > 1 => h.late = FALSE)
    BY <2>1 DEF LinkIs
  <2>3. FrameIs(f, C, P)
    BY <2>1, <2>2, AlikeIs
  <2>4. f.coded = TRUE => LeftNow(f.gen, f.index)
    <3> SUFFICES ASSUME f.coded = TRUE PROVE LeftNow(f.gen, f.index)
      OBVIOUS
    <3> HIDE DEF f, h
    <3>1. h.coded = TRUE /\ f.gen = h.gen /\ f.index = h.index
      BY <2>1 DEF Alike
    <3>2. Left(s, C, h.gen, h.index)
      BY <2>2, <3>1
    <3> QED BY <3>1, <3>2 DEF Left
  <2>5. i > 1 => f.late = FALSE
    <3>1. i > 1 => w = i + 1 /\ w > 1
      BY DEF Parted, Was
    <3> HIDE DEF w
    <3>2. i > 1 => f.late = h.late
      BY <2>1
    <3> QED BY <2>2, <3>1, <3>2
  <2> QED BY <2>3, <2>4, <2>5
<1>2. ASSUME NEW i \in DOMAIN link'[s], NEW j \in DOMAIN link'[s], i < j
      PROVE  IF link'[s][i].coded = TRUE /\ link'[s][j].coded = TRUE THEN link'[s][i].gen <= link'[s][j].gen
             ELSE link'[s][i].coded = FALSE /\ link'[s][j].coded = FALSE => link'[s][i].of # link'[s][j].of
  <2>1. Was(p, i) \in DOMAIN link[s] /\ Was(p, j) \in DOMAIN link[s] /\ Was(p, i) < Was(p, j)
    BY <1>2, StayInOrder DEF Parted
  <2>2. Alike(link[s][Was(p, i)], link'[s][i]) /\ Alike(link[s][Was(p, j)], link'[s][j])
    BY DEF Parted
  <2> DEFINE a == link[s][Was(p, i)]
             b == link[s][Was(p, j)]
  <2>3. IF a.coded = TRUE /\ b.coded = TRUE THEN a.gen <= b.gen
        ELSE a.coded = FALSE /\ b.coded = FALSE => a.of # b.of
    BY <2>1 DEF LinkIs
  <2> HIDE DEF a, b
  <2>4. Alike(a, link'[s][i]) /\ Alike(b, link'[s][j])
    BY <2>2 DEF a, b
  <2> DEFINE x == link'[s][i]
             y == link'[s][j]
  <2> HIDE DEF x, y
  <2>5. /\ x.coded = a.coded /\ y.coded = b.coded /\ x.of = a.of /\ y.of = b.of
        /\ a.coded = TRUE => x.gen = a.gen
        /\ b.coded = TRUE => y.gen = b.gen
    BY <2>4 DEF Alike, x, y
  <2>6. IF x.coded = TRUE /\ y.coded = TRUE THEN x.gen <= y.gen
        ELSE x.coded = FALSE /\ y.coded = FALSE => x.of # y.of
    BY <2>3, <2>5
  <2> QED BY <2>6 DEF x, y
<1> QED BY <1>1, <1>2 DEF LinkIs, Left

(* A generation that is over stays over. *)
LEMMA OverKeeps ==
  ASSUME NEW s, NEW p, NEW C, NEW h \in DOMAIN C, Over(s, C, h), Parted(s, p),
         sink'[s] = sink[s], generation'[s] = generation[s],
         HeardOf(C, h)' = HeardOf(C, h), \A i \in Sources(C, h) : got'[C[h].of[i]] = got[C[h].of[i]],
         Generation(C[h].of, C[h].n)
  PROVE  Over(s, C, h)'
<1>1. ASSUME NEW j \in DOMAIN link'[s], link'[s][j].coded = TRUE PROVE link'[s][j].gen # h
  <2>1. Was(p, j) \in DOMAIN link[s] /\ Alike(link[s][Was(p, j)], link'[s][j])
    BY DEF Parted
  <2>2. link[s][Was(p, j)].coded = TRUE /\ link'[s][j].gen = link[s][Was(p, j)].gen
    BY <1>1, <2>1 DEF Alike
  <2> QED BY <2>1, <2>2 DEF Over
<1>2. \A i \in HeardOf(C, h) : i < Len(C[h].of) => i + 1 \in Sources(C, h)
  <2> SUFFICES ASSUME NEW i \in HeardOf(C, h), i < Len(C[h].of) PROVE i + 1 \in Sources(C, h)
    OBVIOUS
  <2>1. i \in Nat
    BY DEF HeardOf, Generation
  <2>2. Sources(C, h) = 1 .. Len(C[h].of) /\ Len(C[h].of) \in Nat
    BY DEF Sources, Generation
  <2> QED BY <2>1, <2>2
<1> QED BY <1>1, <1>2 DEF Over

(* The numbers of the generations held, each once. *)
LEMMA OrderCounts ==
  ASSUME NEW q \in Seq(Nat), \A i, j \in DOMAIN q : q[i] = q[j] => i = j
  PROVE  IsFiniteSet(ToSet(q)) /\ Cardinality(ToSet(q)) = Len(q)
<1> DEFINE n == Len(q)
<1>1. n \in Nat /\ DOMAIN q = 1 .. n
  OBVIOUS
<1> HIDE DEF n
<1>2. q \in [1 .. n -> ToSet(q)] /\ \A x \in ToSet(q) : \E j \in 1 .. n : q[j] = x
  BY <1>1 DEF ToSet
<1>3. q \in Injection(1 .. n, ToSet(q)) /\ q \in Surjection(1 .. n, ToSet(q))
  BY <1>1, <1>2 DEF Injection, IsInjective, Surjection
<1>4. IsFiniteSet(1 .. n) /\ Cardinality(1 .. n) = n
  <2>1. IsFiniteSet(1 .. n) /\ Cardinality(1 .. n) = IF 1 > n THEN 0 ELSE n - 1 + 1
    BY <1>1, FS_Interval
  <2> QED BY <1>1, <2>1
<1>5. q \in Bijection(1 .. n, ToSet(q))
  BY <1>3 DEF Bijection
<1>6. IsFiniteSet(ToSet(q)) /\ Cardinality(ToSet(q)) = Cardinality(1 .. n)
  <2>1. Cardinality(1 .. n) = n /\ IsFiniteSet(1 .. n) /\ \E f : f \in Bijection(1 .. n, ToSet(q))
    BY <1>4, <1>5
  <2>2. ExistsBijection(1 .. n, ToSet(q))
    BY <2>1 DEF ExistsBijection
  <2> QED BY <2>1, <2>2, FS_Bijection
<1> QED BY <1>4, <1>6 DEF n

(* The order of the generations held, after a coded frame has been absorbed.    *)
OrderAfter(f) ==
  IF f.gen \in DOMAIN gens THEN order
  ELSE Append(IF Cardinality(DOMAIN gens) >= Cap THEN Tail(order) ELSE order, f.gen)

(* What frame p may be, when it is the one to leave the link.                    *)
MayLeave(s, p) ==
  p = 2 => Close(link[s][1], link[s][2]) /\ link[s][1].late = FALSE

(* An evicted generation has nothing left on the link. *)
LEMMA OrderKept ==
  ASSUME FecAssumption, MaxFrames < GenSpace, NEW s \in Tx, NEW p, NEW C, NEW P,
         ParityInv, Coding(s, C, P), LinkIs(s, C, P), DOMAIN gens \subseteq DOMAIN C, InOrder(s),
         generation[s] <= MaxFrames,
         Parted(s, p), MayLeave(s, p), NEW f, f = link[s][p], f.coded = TRUE,
         order' = OrderAfter(f), DOMAIN gens' = Kept(f) \cup {f.gen}
  PROVE  /\ InOrder(s)'
         /\ \A e \in DOMAIN gens : e \notin DOMAIN gens' =>
              /\ \A j \in DOMAIN link'[s] : link'[s][j].coded = TRUE => link'[s][j].gen # e
              /\ e # generation[s] - 1
<1> DEFINE g == f.gen
           m == Len(order)
           q == order
           G == DOMAIN gens
<1>0. /\ generation[s] \in Nat /\ link[s] \in Seq(AskedFrame) /\ Len(link[s]) \in Nat
      /\ MaxFrames \in Nat /\ GenSpace \in Nat /\ Cap \in Nat /\ Cap >= 1
  BY FecAssumption DEF ParityInv
<1>1. DOMAIN C = 0 .. generation[s] - 1
  BY DEF Coding
<1>2. p \in {1, 2} /\ p \in DOMAIN link[s]
  BY DEF Parted
<1>3. \A i \in DOMAIN link[s] : link[s][i].coded = TRUE => link[s][i].gen \in DOMAIN C
  BY DEF LinkIs, FrameIs
<1>4. g \in DOMAIN C /\ g \in Nat /\ g <= generation[s] - 1 /\ g < GenSpace
  <2>1. g \in DOMAIN C
    BY <1>2, <1>3
  <2> HIDE DEF g
  <2> QED BY <1>0, <1>1, <2>1
<1>5. /\ q \in Seq(Nat) /\ m \in Nat /\ DOMAIN q = 1 .. m /\ m <= Cap
      /\ \A i, j \in 1 .. m : q[i] = q[j] => i = j
      /\ \A i, j \in 1 .. m : i + 2 <= j => q[i] < q[j]
      /\ \A i \in 1 .. m : q[i] \in Nat /\ q[i] \in G
      /\ \A h \in G : \E i \in 1 .. m : q[i] = h
  <2>1. q \in Seq(Nat) /\ m \in Nat /\ DOMAIN q = 1 .. m /\ \A i \in 1 .. m : q[i] \in Nat
    BY DEF InOrder
  <2>2. ToSet(q) = G /\ m <= Cap
    BY DEF InOrder
  <2>3. /\ \A i, j \in DOMAIN q : q[i] = q[j] => i = j
        /\ \A i, j \in DOMAIN q : i + 2 <= j => q[i] < q[j]
    BY DEF InOrder
  <2> QED BY <2>1, <2>2, <2>3 DEF ToSet
<1>6. Cardinality(G) = m
  <2>1. Cardinality(ToSet(q)) = m
    BY <1>5, OrderCounts
  <2> QED BY <2>1 DEF InOrder
<1>7. \A h \in G : h \in Nat /\ h <= generation[s] - 1
  <2>1. \A h \in 0 .. generation[s] - 1 : h \in Nat /\ h <= generation[s] - 1
    BY <1>0
  <2> QED BY <1>1, <2>1
<1> HIDE DEF q, m, G

(* What is left on the link, and the frame that was first when p is second. *)
<1> DEFINE F(j) == link'[s][j]
           first(j) == p = 2 /\ j = 1
           a == link[s][1]
<1>8. ASSUME NEW j \in DOMAIN link'[s], F(j).coded = TRUE, ~first(j)
      PROVE  /\ F(j).gen \in Nat /\ g <= F(j).gen /\ F(j).late = FALSE
             /\ \A h \in G : h <= F(j).gen
  <2> DEFINE w == Was(p, j)
             b == link[s][w]
  <2>1. w \in DOMAIN link[s] /\ Alike(b, F(j)) /\ F(j).late = b.late /\ w > p /\ w > 1
    <3>1. w \in DOMAIN link[s] /\ Alike(b, F(j)) /\ F(j).late = b.late
      BY <1>8 DEF Parted
    <3>2. j \in 1 .. Len(link[s]) - 1
      BY DEF Parted
    <3>3. w = j + 1 /\ j >= 1 /\ (p = 2 => j >= 2) /\ j \in Nat
      BY <1>0, <1>8, <1>2, <3>2 DEF Was
    <3>4. w > p /\ w > 1
      <4> HIDE DEF w
      <4> QED BY <1>2, <3>3
    <3> QED BY <3>1, <3>4
  <2> HIDE DEF w
  <2>2. b.coded = TRUE /\ F(j).gen = b.gen
    BY <1>8, <2>1 DEF Alike
  <2>3. b.late = FALSE
    BY <2>1 DEF LinkIs
  <2>4. g <= b.gen
    BY <1>2, <2>1, <2>2 DEF LinkIs
  <2>5. \A h \in DOMAIN gens : h <= b.gen
    BY <2>1, <2>2, <2>3 DEF InOrder
  <2>6. b.gen \in Nat
    BY <1>0, <1>1, <1>3, <2>1, <2>2
  <2> QED BY <2>1, <2>2, <2>3, <2>4, <2>5, <2>6 DEF G
<1>9. ASSUME NEW j \in DOMAIN link'[s], F(j).coded = TRUE, first(j)
      PROVE  /\ F(j).late = TRUE /\ F(j).gen = a.gen /\ a.gen \in Nat /\ a.coded = TRUE
             /\ \A h \in G : h <= a.gen
             /\ a.gen <= g
             /\ a.gen < g => Cap >= 3
  <2>1. 1 \in DOMAIN link[s] /\ Alike(a, F(j)) /\ F(j).late = TRUE /\ 2 \in DOMAIN link[s] /\ f = link[s][2]
    BY <1>2, <1>9 DEF Parted, Was
  <2>2. a.coded = TRUE /\ F(j).gen = a.gen
    BY <1>9, <2>1 DEF Alike
  <2>3. a.gen \in Nat /\ a.gen < GenSpace
    <3>1. a.gen \in DOMAIN C
      BY <1>3, <2>1, <2>2
    <3> HIDE DEF a
    <3> QED BY <1>0, <1>1, <3>1
  <2>4. \A h \in G : h <= a.gen
    <3>1. a.late = FALSE
      BY <1>9 DEF MayLeave
    <3> QED BY <2>1, <2>2, <3>1 DEF InOrder, G
  <2>5. a.gen <= g
    BY <2>1, <2>2 DEF LinkIs
  <2>6. a.gen < g => Cap >= 3
    <3>1. (g - a.gen) % GenSpace < Cap - 1
      BY <1>9, <2>1, <2>2 DEF MayLeave, Close
    <3> DEFINE x == a.gen
               y == g
               N == GenSpace
    <3>2. x \in Nat /\ y \in Nat /\ N \in Nat /\ x < N /\ y < N /\ Cap \in Nat /\ (y - x) % N < Cap - 1
      BY <1>0, <1>4, <2>3, <3>1
    <3> HIDE DEF x, y, N
    <3>3. ASSUME x < y PROVE Cap >= 3
      <4> DEFINE z == y - x
      <4>1. z \in 1 .. N - 1
        BY <3>2, <3>3
      <4>2. z % N < Cap - 1
        BY <3>2
      <4> HIDE DEF z
      <4>3. z % N = z
        BY <3>2, <4>1
      <4> QED BY <3>2, <4>1, <4>2, <4>3
    <3> QED BY <3>3 DEF x, y
  <2> QED BY <2>1, <2>2, <2>3, <2>4, <2>5, <2>6
<1>10. CASE g \in G
  <2>1. order' = q /\ DOMAIN gens' = G
    BY <1>10 DEF OrderAfter, Kept, q, G
  <2>2. ASSUME NEW j \in DOMAIN link'[s], F(j).coded = TRUE
        PROVE  IF F(j).late = TRUE
               THEN \A i \in 1 .. m : q[i] > F(j).gen => i = m /\ Cap >= 2
               ELSE \A h \in G : h <= F(j).gen
    <3>1. CASE ~first(j)
      BY <1>8, <2>2, <3>1
    <3>2. CASE first(j)
      <4>1. F(j).late = TRUE /\ F(j).gen = a.gen /\ a.gen \in Nat /\ \A h \in G : h <= a.gen
        BY <1>9, <2>2, <3>2
      <4>2. \A i \in 1 .. m : q[i] \in G /\ q[i] \in Nat
        BY <1>5
      <4>3. \A i \in 1 .. m : ~(q[i] > F(j).gen)
        BY <4>1, <4>2
      <4> QED BY <4>1, <4>3
    <3> QED BY <3>1, <3>2
  <2>3. InOrder(s)'
    <3>1. ToSet(order') = DOMAIN gens' /\ Len(order') <= Cap
      BY <2>1 DEF InOrder, q, G
    <3> DEFINE r == order'
    <3>2. r \in Seq(Nat) /\ DOMAIN r = 1 .. m /\ Len(r) = m
      BY <1>5, <2>1 DEF m, q
    <3>3. /\ \A i, j \in 1 .. m : r[i] = r[j] => i = j
          /\ \A i, j \in 1 .. m : i + 2 <= j => r[i] < r[j]
      BY <1>5, <2>1
    <3>4. \A j \in DOMAIN link'[s] : F(j).coded = TRUE =>
            IF F(j).late = TRUE THEN \A i \in 1 .. m : r[i] > F(j).gen => i = m /\ Cap >= 2
            ELSE \A h \in DOMAIN gens' : h <= F(j).gen
      BY <2>1, <2>2
    <3>5. ToSet(r) = DOMAIN gens' /\ Len(r) <= Cap
      BY <3>1
    <3> HIDE DEF r
    <3> QED BY <3>2, <3>3, <3>4, <3>5, SMTT(30) DEF InOrder, r
  <2> QED BY <2>1, <2>3 DEF G
<1>11. CASE g \notin G
  <2> DEFINE full == m >= Cap
             d == IF full THEN 1 ELSE 0
             L == m + 1 - d
             r == order'
             e == q[1]
  <2>1. /\ r = Append(IF full THEN Tail(q) ELSE q, g)
        /\ DOMAIN gens' = (IF full THEN G \ {Head(q)} ELSE G) \cup {g}
    BY <1>6, <1>11 DEF OrderAfter, Kept, q, G
  <2>2. full => m >= 1 /\ m = Cap /\ 1 \in 1 .. m /\ Head(q) = e
    BY <1>0, <1>5
  <2>3. /\ r \in Seq(Nat) /\ L \in Nat /\ L >= 1 /\ Len(r) = L /\ DOMAIN r = 1 .. L /\ L <= Cap
        /\ \A i \in 1 .. L - 1 : r[i] = q[i + d] /\ i + d \in 1 .. m
        /\ r[L] = g
    <3>1. CASE full
      <4> DEFINE t == Tail(q)
      <4>1. t \in Seq(Nat) /\ Len(t) = m - 1 /\ \A i \in 1 .. m - 1 : t[i] = q[i + 1]
        <5>1. q \in Seq(Nat) /\ Len(q) = m /\ q # << >> /\ m \in Nat
          BY <1>5, <2>2, <3>1 DEF m, q
        <5> QED BY <5>1
      <4> HIDE DEF t
      <4>2. r = Append(t, g)
        BY <2>1, <3>1 DEF t
      <4> HIDE DEF r
      <4>3. r \in Seq(Nat) /\ Len(r) = m /\ r[m] = g /\ \A i \in 1 .. m - 1 : r[i] = t[i]
        BY <1>4, <1>5, <2>2, <3>1, <4>1, <4>2
      <4>4. DOMAIN r = 1 .. m
        BY <4>3
      <4>5. d = 1 /\ L = m /\ m >= 1 /\ m = Cap
        BY <1>5, <2>2, <3>1
      <4>6. \A i \in 1 .. m - 1 : i + 1 \in 1 .. m
        BY <1>5
      <4> HIDE DEF L, d
      <4> QED BY <1>5, <4>1, <4>3, <4>4, <4>5, <4>6
    <3>2. CASE ~full
      <4>1. r = Append(q, g) /\ q \in Seq(Nat) /\ Len(q) = m
        BY <1>5, <2>1, <3>2 DEF m, q
      <4> HIDE DEF r
      <4>2. r \in Seq(Nat) /\ Len(r) = m + 1 /\ r[m + 1] = g /\ \A i \in 1 .. m : r[i] = q[i]
        BY <1>4, <1>5, <4>1
      <4>3. DOMAIN r = 1 .. m + 1
        BY <4>2
      <4>4. d = 0 /\ L = m + 1 /\ L - 1 = m /\ L <= Cap /\ L \in Nat /\ L >= 1
        BY <1>0, <1>5, <3>2
      <4>5. \A i \in 1 .. m : i + 0 = i
        BY <1>5
      <4> HIDE DEF L, d
      <4> QED BY <4>2, <4>3, <4>4, <4>5
    <3> QED BY <3>1, <3>2
  <2>4. d \in {0, 1} /\ (full => d = 1) /\ (~full => d = 0) /\ L = m + 1 - d /\ L - 1 + d = m
    BY <1>5
  <2> HIDE DEF r, L, d
  <2>5. \A i \in 1 .. m : q[i] # g
    BY <1>5, <1>11
  (* Every generation held is older, but the last may be newer than a late frame. *)
  <2>6. \A i \in 1 .. m : q[i] < g \/ (i = m /\ Cap >= 2)
    <3> SUFFICES ASSUME NEW i \in 1 .. m PROVE q[i] < g \/ (i = m /\ Cap >= 2)
      OBVIOUS
    <3>1. q[i] \in Nat /\ q[i] \in G /\ q[i] # g
      BY <1>5, <2>5
    <3>2. CASE f.late = TRUE
      <4>1. q[i] > g => i = m /\ Cap >= 2
        BY <1>2, <1>5, <3>2 DEF InOrder, q, m
      <4> QED BY <1>4, <3>1, <4>1
    <3>3. CASE f.late # TRUE
      <4>1. \A h \in G : h <= g
        BY <1>2, <3>3 DEF InOrder, G
      <4>2. q[i] <= g
        BY <3>1, <4>1
      <4> HIDE DEF g
      <4> QED BY <1>4, <3>1, <4>2
    <3> QED BY <3>2, <3>3
  <2>7. ToSet(r) = DOMAIN gens'
    <3>1. ToSet(r) = {r[i] : i \in 1 .. L}
      BY <2>3 DEF ToSet
    <3>2. \A i \in 1 .. L : i = L \/ i \in 1 .. L - 1
      BY <2>3
    <3>3. \A i \in 1 .. L - 1 : i \in 1 .. L
      BY <2>3
    <3>4. CASE full
      <4>1. DOMAIN gens' = (G \ {e}) \cup {g}
        BY <2>1, <2>2, <3>4
      <4>2. ASSUME NEW x \in ToSet(r) PROVE x \in DOMAIN gens'
        <5>1. PICK i \in 1 .. L : x = r[i]
          BY <3>1
        <5>2. CASE i = L
          BY <2>3, <4>1, <5>1, <5>2
        <5>3. CASE i \in 1 .. L - 1
          <6>1. x = q[i + 1] /\ i + 1 \in 1 .. m /\ i + 1 # 1
            BY <2>3, <2>4, <3>4, <5>1, <5>3
          <6>2. x \in G /\ x # e
            BY <1>5, <2>2, <3>4, <6>1
          <6> QED BY <4>1, <6>2
        <5> QED BY <3>2, <5>2, <5>3
      <4>3. ASSUME NEW x \in DOMAIN gens' PROVE x \in ToSet(r)
        <5>1. CASE x = g
          <6>1. L \in 1 .. L
            BY <2>3
          <6> QED BY <2>3, <3>1, <5>1, <6>1
        <5>2. CASE x # g
          <6>1. x \in G /\ x # e
            BY <4>1, <5>2
          <6>2. PICK i \in 1 .. m : q[i] = x
            BY <1>5, <6>1
          <6>3. i # 1 /\ i - 1 \in 1 .. L - 1 /\ (i - 1) + 1 = i
            BY <1>5, <2>4, <3>4, <6>1, <6>2
          <6>4. r[i - 1] = x
            BY <2>3, <2>4, <3>4, <6>2, <6>3
          <6> QED BY <3>1, <3>3, <6>3, <6>4
        <5> QED BY <5>1, <5>2
      <4> QED BY <4>2, <4>3
    <3>5. CASE ~full
      <4>1. DOMAIN gens' = G \cup {g}
        BY <2>1, <3>5
      <4>0. L - 1 = m /\ d = 0
        BY <1>5, <2>4, <3>5
      <4>2. ASSUME NEW x \in ToSet(r) PROVE x \in DOMAIN gens'
        <5>1. PICK i \in 1 .. L : x = r[i]
          BY <3>1
        <5>2. CASE i = L
          BY <2>3, <4>1, <5>1, <5>2
        <5>3. CASE i \in 1 .. L - 1
          <6>1. x = q[i] /\ i \in 1 .. m
            BY <2>3, <4>0, <5>1, <5>3
          <6> QED BY <1>5, <4>1, <6>1
        <5> QED BY <3>2, <5>2, <5>3
      <4>3. ASSUME NEW x \in DOMAIN gens' PROVE x \in ToSet(r)
        <5>1. CASE x = g
          <6>1. L \in 1 .. L
            BY <2>3
          <6> QED BY <2>3, <3>1, <5>1, <6>1
        <5>2. CASE x # g
          <6>1. x \in G
            BY <4>1, <5>2
          <6>2. PICK i \in 1 .. m : q[i] = x
            BY <1>5, <6>1
          <6>3. i \in 1 .. L - 1 /\ i + d = i
            BY <4>0, <6>2
          <6>4. r[i] = x
            BY <2>3, <6>2, <6>3
          <6> QED BY <3>1, <3>3, <6>3, <6>4
        <5> QED BY <5>1, <5>2
      <4> QED BY <4>2, <4>3
    <3> QED BY <3>4, <3>5
  <2>8. ASSUME NEW i \in 1 .. L, NEW j \in 1 .. L, r[i] = r[j] PROVE i = j
    <3>1. \A k \in 1 .. L : k = L \/ k \in 1 .. L - 1
      BY <2>3
    <3>2. \A k \in 1 .. L - 1 : r[k] # r[L]
      BY <2>3, <2>5
    <3>3. CASE i \in 1 .. L - 1 /\ j \in 1 .. L - 1
      <4>1. q[i + d] = q[j + d] /\ i + d \in 1 .. m /\ j + d \in 1 .. m
        BY <2>3, <2>8, <3>3
      <4>2. i + d = j + d
        BY <1>5, <4>1
      <4> QED BY <2>4, <4>2
    <3> QED BY <2>8, <3>1, <3>2, <3>3
  <2>9. ASSUME NEW i \in 1 .. L, NEW j \in 1 .. L, i + 2 <= j PROVE r[i] < r[j]
    <3>1. i \in 1 .. L - 1 /\ r[i] = q[i + d] /\ i + d \in 1 .. m
      <4>1. i \in 1 .. L - 1
        BY <2>3, <2>9
      <4> QED BY <2>3, <4>1
    <3>2. CASE j = L
      <4>1. i + d # m
        BY <2>4, <2>9, <3>1, <3>2
      <4>2. q[i + d] < g
        BY <2>6, <3>1, <4>1
      <4> QED BY <2>3, <3>1, <3>2, <4>2
    <3>3. CASE j # L
      <4>1. j \in 1 .. L - 1
        BY <2>3, <3>3
      <4>2. r[j] = q[j + d] /\ j + d \in 1 .. m
        BY <2>3, <4>1
      <4>3. (i + d) + 2 <= j + d
        BY <2>4, <2>9
      <4> QED BY <1>5, <3>1, <4>2, <4>3
    <3> QED BY <3>2, <3>3
  <2>10. ASSUME NEW j \in DOMAIN link'[s], F(j).coded = TRUE
        PROVE  IF F(j).late = TRUE
               THEN \A i \in 1 .. L : r[i] > F(j).gen => i = L /\ Cap >= 2
               ELSE \A h \in DOMAIN gens' : h <= F(j).gen
    <3>1. CASE ~first(j)
      <4>1. F(j).late = FALSE /\ g <= F(j).gen /\ \A h \in G : h <= F(j).gen
        BY <1>8, <2>10, <3>1
      <4>2. \A h \in DOMAIN gens' : h \in G \/ h = g
        BY <2>1
      <4> QED BY <4>1, <4>2
    <3>2. CASE first(j)
      <4>1. /\ F(j).late = TRUE /\ F(j).gen = a.gen /\ a.gen \in Nat /\ \A h \in G : h <= a.gen
            /\ a.gen < g => Cap >= 3
        BY <1>9, <2>10, <3>2
      <4>2. ASSUME NEW i \in 1 .. L, r[i] > a.gen PROVE i = L /\ Cap >= 2
        <5>1. CASE i = L
          <6>1. a.gen < g
            BY <1>4, <2>3, <4>1, <4>2, <5>1
          <6> QED BY <1>0, <4>1, <5>1, <6>1
        <5>2. CASE i # L
          <6>1. i \in 1 .. L - 1
            BY <2>3, <5>2
          <6>2. r[i] \in G /\ r[i] \in Nat
            BY <1>5, <2>3, <6>1
          <6>3. r[i] <= a.gen
            BY <4>1, <6>2
          <6> HIDE DEF a
          <6> QED BY <4>1, <4>2, <6>2, <6>3
        <5> QED BY <5>1, <5>2
      <4> QED BY <4>1, <4>2
    <3> QED BY <3>1, <3>2
  <2>11. InOrder(s)'
    <3>1. r \in Seq(Nat) /\ DOMAIN r = 1 .. L /\ Len(r) = L /\ L <= Cap
      BY <2>3
    <3>2. /\ \A i, j \in 1 .. L : r[i] = r[j] => i = j
          /\ \A i, j \in 1 .. L : i + 2 <= j => r[i] < r[j]
      BY <2>8, <2>9
    <3> QED BY <2>7, <2>10, <3>1, <3>2 DEF InOrder, r
  <2>12. ASSUME NEW x \in G, x \notin DOMAIN gens'
         PROVE  /\ \A j \in DOMAIN link'[s] : F(j).coded = TRUE => F(j).gen # x
                /\ x # generation[s] - 1
    <3>1. full /\ x = e /\ m >= 1 /\ m = Cap /\ 1 \in 1 .. m
      BY <2>1, <2>2, <2>12
    <3>2. e \in Nat /\ e < g
      <4>1. e \in Nat
        BY <1>5, <3>1
      <4>2. e < g \/ (1 = m /\ Cap >= 2)
        BY <2>6, <3>1
      <4> QED BY <1>0, <3>1, <4>1, <4>2
    <3>3. x # generation[s] - 1
      <4> HIDE DEF g, e
      <4> QED BY <1>0, <1>4, <3>1, <3>2
    <3>4. ASSUME NEW j \in DOMAIN link'[s], F(j).coded = TRUE, ~first(j) PROVE F(j).gen # x
      <4>1. g <= F(j).gen /\ F(j).gen \in Nat
        BY <1>8, <3>4
      <4> HIDE DEF g, e, F
      <4> QED BY <1>4, <3>1, <3>2, <4>1
    <3>5. ASSUME NEW j \in DOMAIN link'[s], F(j).coded = TRUE, first(j), F(j).gen = x PROVE FALSE
      <4>1. /\ F(j).gen = a.gen /\ a.gen \in Nat /\ \A h \in G : h <= a.gen
            /\ a.gen <= g /\ (a.gen < g => Cap >= 3)
        BY <1>9, <3>5
      <4>2. a.gen = e /\ m >= 3
        BY <3>1, <3>2, <3>5, <4>1
      <4>3. 3 \in 1 .. m /\ 1 + 2 <= 3
        BY <1>5, <4>2
      <4>4. q[1] < q[3] /\ q[3] \in G /\ q[3] \in Nat
        BY <1>5, <3>1, <4>3
      <4>5. q[3] <= a.gen
        BY <4>1, <4>4
      <4> HIDE DEF a
      <4> QED BY <3>2, <4>2, <4>4, <4>5
    <3> QED BY <3>3, <3>4, <3>5
  <2> QED BY <2>11, <2>12 DEF G
<1> QED BY <1>10, <1>11

(* With k of its frames a generation is out; a source frame is out at once.      *)
LEMMA HeldSettles ==
  ASSUME NEW st, NEW C, NEW g \in DOMAIN C, Held(st, C, g), Generation(C[g].of, C[g].n)
  PROVE  /\ Cardinality(HeardOf(C, g)) >= Len(C[g].of) => \A i \in Sources(C, g) : got[C[g].of[i]] = 1
         /\ \A i \in HeardOf(C, g) : i < Len(C[g].of) => got[C[g].of[i + 1]] = 1
<1> DEFINE k == Len(C[g].of)
           H == HeardOf(C, g)
<1>1. /\ Cardinality(DOMAIN st.rows) <= k /\ (st.done = (Cardinality(DOMAIN st.rows) = k))
      /\ st.done = FALSE => DOMAIN st.rows = H /\ st.delivered = H \cap (0 .. k - 1)
      /\ st.done = TRUE => st.delivered = 0 .. k - 1
      /\ DOMAIN st.rows \subseteq H
  BY DEF Held, Rowed
<1>2. k \in Nat /\ Sources(C, g) = 1 .. k /\ H \subseteq Nat /\ H \subseteq 0 .. C[g].n - 1 /\ C[g].n \in Nat
  BY DEF Generation, Sources, HeardOf
<1>3. \A i \in 0 .. k - 1 : i \in st.delivered => got[C[g].of[i + 1]] = 1
  BY DEF Held
<1> HIDE DEF k, H
<1>4. Cardinality(H) >= k => st.done = TRUE
  <2> SUFFICES ASSUME Cardinality(H) >= k, st.done # TRUE PROVE FALSE
    OBVIOUS
  <2>1. Cardinality(DOMAIN st.rows) # k
    BY <1>1
  <2>2. st.done = FALSE
    BY <1>1, <2>1
  <2>3. DOMAIN st.rows = H
    BY <1>1, <2>2
  <2>4. IsFiniteSet(0 .. C[g].n - 1)
    BY <1>2, FS_Interval
  <2>5. IsFiniteSet(H) /\ Cardinality(H) \in Nat
    BY <1>2, <2>4, FS_Subset, FS_CardinalityType
  <2> QED BY <1>1, <1>2, <2>1, <2>3, <2>5
<1>5. st.done = TRUE => \A i \in Sources(C, g) : got[C[g].of[i]] = 1
  <2> SUFFICES ASSUME st.done = TRUE, NEW i \in 1 .. k PROVE got[C[g].of[i]] = 1
    BY <1>2
  <2>1. i - 1 \in 0 .. k - 1 /\ (i - 1) + 1 = i
    BY <1>2
  <2>2. got[C[g].of[(i - 1) + 1]] = 1
    BY <1>1, <1>3, <2>1
  <2> QED BY <2>1, <2>2
<1>6. ASSUME NEW i \in H, i < k PROVE got[C[g].of[i + 1]] = 1
  <2>1. i \in 0 .. k - 1
    BY <1>2, <1>6
  <2>2. i \in st.delivered
    <3>1. st.done \in BOOLEAN
      BY <1>1
    <3> QED BY <1>1, <2>1, <3>1
  <2> QED BY <1>3, <2>1, <2>2
<1> QED BY <1>4, <1>5, <1>6 DEF k, H

(* What nothing has been delivered or heard of stays as it is. *)
LEMMA HeldKeeps ==
  ASSUME NEW C, NEW g \in DOMAIN C, Held(gens[g], C, g), Generation(C[g].of, C[g].n), gens'[g] = gens[g],
         HeardOf(C, g)' = HeardOf(C, g), \A i \in Sources(C, g) : got'[C[g].of[i]] = got[C[g].of[i]]
  PROVE  Held(gens[g], C, g)'
<1>1. \A i \in 0 .. Len(C[g].of) - 1 : i + 1 \in Sources(C, g)
  <2> DEFINE k == Len(C[g].of)
  <2>1. k \in Nat /\ Sources(C, g) = 1 .. k
    BY DEF Generation, Sources
  <2> HIDE DEF k
  <2>2. \A i \in 0 .. k - 1 : i + 1 \in Sources(C, g)
    BY <2>1
  <2> QED BY <2>2 DEF k
<1>2. Rowed(gens[g], C[g].of, C[g].n, HeardOf(C, g))'
  <2>1. Rowed(gens'[g], C[g].of, C[g].n, HeardOf(C, g)')
    BY DEF Held
  <2> QED BY <2>1
<1> QED BY <1>1, <1>2 DEF Held

(* A frame sent plain leaves the order of the generations alone. *)
LEMMA OrderPlain ==
  ASSUME NEW s, NEW p, InOrder(s), Parted(s, p), MayLeave(s, p), UNCHANGED <<gens, order>>, Len(link[s]) \in Nat,
         \A i \in DOMAIN link[s] : link[s][i].coded = TRUE => link[s][i].gen \in Nat
  PROVE  InOrder(s)'
<1> SUFFICES ASSUME NEW j \in DOMAIN link'[s], link'[s][j].coded = TRUE
             PROVE  IF link'[s][j].late = TRUE
                    THEN \A i \in DOMAIN order : order[i] > link'[s][j].gen => i = Len(order) /\ Cap >= 2
                    ELSE \A g \in DOMAIN gens : g <= link'[s][j].gen
  BY DEF InOrder
<1> DEFINE f == link'[s][j]
           h == link[s][Was(p, j)]
<1>1. Was(p, j) \in DOMAIN link[s] /\ Alike(h, f) /\ (IF p = 2 /\ j = 1 THEN f.late = TRUE ELSE f.late = h.late)
  BY DEF Parted
<1>2. h.coded = TRUE /\ f.gen = h.gen
  BY <1>1 DEF Alike
<1>3. IF h.late = TRUE
      THEN \A i \in DOMAIN order : order[i] > h.gen => i = Len(order) /\ Cap >= 2
      ELSE \A g \in DOMAIN gens : g <= h.gen
  BY <1>1, <1>2 DEF InOrder
<1>4. CASE ~(p = 2 /\ j = 1)
  BY <1>1, <1>2, <1>3, <1>4
<1>5. CASE p = 2 /\ j = 1
  <2>1. h.late = FALSE /\ f.late = TRUE
    BY <1>1, <1>5 DEF MayLeave, Was
  <2>2. \A i \in DOMAIN order : order[i] \in DOMAIN gens
    BY DEF InOrder, ToSet
  <2>3. DOMAIN gens \subseteq Nat
    BY DEF InOrder, ToSet
  <2>4. \A g \in DOMAIN gens : g <= h.gen
    BY <1>3, <2>1
  <2>5. ASSUME NEW i \in DOMAIN order, order[i] > h.gen PROVE i = Len(order) /\ Cap >= 2
    <3> DEFINE x == order[i]
               y == h.gen
    <3>1. x \in Nat /\ y \in Nat /\ x <= y /\ x > y
      BY <1>1, <1>2, <2>2, <2>3, <2>4, <2>5
    <3> HIDE DEF x, y
    <3> QED BY <3>1
  <2> QED BY <1>2, <2>1, <2>5
<1> QED BY <1>4, <1>5

(* The generation of a coded frame is a number. *)
LEMMA GenNumbers ==
  ASSUME NEW s \in Tx, NEW C, NEW P, ParityInv, Coding(s, C, P), LinkIs(s, C, P)
  PROVE  \A i \in DOMAIN link[s] : link[s][i].coded = TRUE => link[s][i].gen \in Nat
<1> SUFFICES ASSUME NEW i \in DOMAIN link[s], link[s][i].coded = TRUE PROVE link[s][i].gen \in Nat
  OBVIOUS
<1>1. link[s][i].gen \in DOMAIN C
  BY DEF LinkIs, FrameIs
<1>2. DOMAIN C \subseteq Nat
  BY DEF Coding, ParityInv
<1> QED BY <1>1, <1>2

(* What the receiver does leaves the sender as it was. *)
LEMMA SenderKeeps ==
  ASSUME NEW s, NEW C, NEW P, Coding(s, C, P), Waits(s, C, P), SinkIs(s, C), UNCHANGED <<now, txVars>>
  PROVE  Coding(s, C, P)' /\ Waits(s, C, P)' /\ SinkIs(s, C)'
<1> USE DEF txVars, taskVars
<1>1. Coding(s, C, P)'
  BY DEF Coding
<1>2. Waits(s, C, P)'
  BY DEF Waits, Waiting
<1>3. SinkIs(s, C)'
  BY DEF SinkIs
<1> QED BY <1>1, <1>2, <1>3

(* A frame sent plain is received. *)
LEMMA ReceivedPlain ==
  ASSUME FecAssumption, NEW s \in Tx, NEW p, NEW C, NEW P, ParityInv, FecInv(s, C, P),
         Parted(s, p), MayLeave(s, p), NEW f, f = link[s][p], f.coded = FALSE,
         Deliver(f.of), UNCHANGED <<gens, order, heard, now, txVars>>
  PROVE  FecInv(s, C, P)'
<1>0. /\ Coding(s, C, P) /\ Waits(s, C, P) /\ SinkIs(s, C) /\ LinkIs(s, C, P)
      /\ SentIs(s, C, P) /\ Decoded(s, C) /\ GotIs(s, C, P) /\ InOrder(s)
      /\ Len(link[s]) \in Nat /\ DOMAIN link[s] = 1 .. Len(link[s])
  BY DEF FecInv, ParityInv
<1>1. p \in DOMAIN link[s]
  BY DEF Parted
<1>2. PICK id \in P : f.of = <<id>>
  BY <1>0, <1>1 DEF LinkIs, FrameIs
<1>3. id \in Ids /\ got[id] = 0
  <2>1. got[f.of[1]] = 0
    BY <1>0, <1>1 DEF LinkIs
  <2> QED BY <1>0, <1>2, <2>1 DEF Coding
<1>4. invented' = FALSE /\ got' = [x \in Ids |-> got[x] + IF x = id THEN 1 ELSE 0]
  <2> DEFINE out == <<id>>
  <2>1. out \in Seq(Ids) /\ DOMAIN out = {1} /\ out[1] = id
    BY <1>3
  <2>2. invented = FALSE /\ got \in [Ids -> {0, 1}] /\ Deliver(out)
    BY <1>0, <1>2 DEF GotIs
  <2> HIDE DEF out
  <2>3. \A i, j \in DOMAIN out : out[i] = out[j] => i = j
    BY <2>1
  <2>4. invented' = FALSE /\ got' = [x \in Ids |-> got[x] + IF \E j \in DOMAIN out : out[j] = x THEN 1 ELSE 0]
    BY <2>1, <2>2, <2>3, Delivering
  <2>5. \A x \in Ids : (\E j \in DOMAIN out : out[j] = x) <=> x = id
    BY <2>1
  <2> QED BY <2>4, <2>5
<1>5. /\ got'[id] = 1 /\ \A x \in Ids : x # id => got'[x] = got[x]
      /\ got' \in [Ids -> {0, 1}]
  <2>1. \A x \in Ids : got[x] \in {0, 1}
    BY <1>0 DEF GotIs
  <2>2. got'[id] = 1 /\ \A x \in Ids : x # id => got'[x] = got[x]
    BY <1>3, <1>4, <2>1
  <2>3. \A x \in Ids : got'[x] \in {0, 1}
    BY <2>1, <2>2
  <2> QED BY <1>4, <2>2, <2>3
<1>6. \A g \in DOMAIN C : \A i \in Sources(C, g) : got'[C[g].of[i]] = got[C[g].of[i]]
  <2> SUFFICES ASSUME NEW g \in DOMAIN C, NEW i \in Sources(C, g) PROVE got'[C[g].of[i]] = got[C[g].of[i]]
    OBVIOUS
  <2>1. C[g].of[i] \in Ids /\ C[g].of[i] # id
    BY <1>0, <1>2 DEF Coding, Sources, Generation
  <2> QED BY <1>5, <2>1
<1>7. \A g \in DOMAIN C : HeardOf(C, g)' = HeardOf(C, g) /\ Generation(C[g].of, C[g].n)
  BY <1>0 DEF HeardOf, Coding
<1>8. UNCHANGED <<sink, generation, emitted>>
  BY DEF txVars, taskVars
<1>9. Coding(s, C, P)' /\ Waits(s, C, P)' /\ SinkIs(s, C)'
  BY <1>0, SenderKeeps
<1>10. LinkIs(s, C, P)'
  <2>1. ASSUME NEW j \in DOMAIN link'[s], link'[s][j].coded = FALSE PROVE got'[link'[s][j].of[1]] = 0
    <3> DEFINE w == Was(p, j)
               h == link[s][w]
    <3>1. w \in DOMAIN link[s] /\ w # p /\ Alike(h, link'[s][j])
      BY DEF Parted
    <3>2. h.coded = FALSE /\ link'[s][j].of = h.of
      BY <2>1, <3>1 DEF Alike
    <3>3. h.of # f.of
      <4>1. w < p \/ p < w
        <5> HIDE DEF w
        <5> QED BY <1>0, <1>1, <3>1
      <4> QED BY <1>0, <1>1, <3>1, <3>2, <4>1 DEF LinkIs
    <3>4. PICK x \in P : h.of = <<x>>
      BY <1>0, <3>1, <3>2 DEF LinkIs, FrameIs
    <3>5. x # id /\ x \in Ids
      BY <1>0, <1>2, <3>3, <3>4 DEF Coding
    <3>6. got[h.of[1]] = 0
      BY <1>0, <3>1, <3>2 DEF LinkIs
    <3> QED BY <1>5, <3>2, <3>4, <3>5, <3>6
  <2> QED BY <1>0, <1>8, <2>1, LinkKeeps
<1>11. SentIs(s, C, P)'
  BY <1>0, <1>8 DEF SentIs, Left
<1>12. Decoded(s, C)'
  <2>1. ASSUME NEW g \in DOMAIN C, g \in DOMAIN gens PROVE Held(gens[g], C, g)'
    <3>1. Held(gens[g], C, g)
      BY <1>0, <2>1 DEF Decoded
    <3> QED BY <1>6, <1>7, <3>1, HeldKeeps
  <2>2. ASSUME NEW g \in DOMAIN C, Untouched(C, g) PROVE Untouched(C, g)'
    BY <1>6, <1>7, <2>2 DEF Untouched
  <2>3. ASSUME NEW g \in DOMAIN C, Over(s, C, g) PROVE Over(s, C, g)'
    BY <1>6, <1>7, <1>8, <2>3, OverKeeps
  <2>4. DOMAIN gens' \subseteq DOMAIN C /\ DOMAIN gens' = DOMAIN gens
    BY <1>0 DEF Decoded
  <2> QED BY <1>0, <2>1, <2>2, <2>3, <2>4 DEF Decoded
<1>13. GotIs(s, C, P)'
  <2>1. id \in emitted /\ id \in P
    BY <1>0 DEF SentIs
  <2>2. \A x \in Ids : got'[x] = 1 => x = id \/ got[x] = 1
    BY <1>5
  <2> QED BY <1>0, <1>4, <1>5, <1>8, <2>1, <2>2 DEF GotIs
<1>14. InOrder(s)'
  BY <1>0, OrderPlain, GenNumbers
<1> QED BY <1>9, <1>10, <1>11, <1>12, <1>13, <1>14 DEF FecInv

(* A coded frame is received. *)
LEMMA ReceivedCoded ==
  ASSUME FecAssumption, MaxFrames < GenSpace, NEW s \in Tx, NEW p, NEW C, NEW P, ParityInv, FecInv(s, C, P),
         generation[s] <= MaxFrames,
         Parted(s, p), MayLeave(s, p), NEW f, f = link[s][p], f.coded = TRUE,
         Absorb(f), UNCHANGED <<now, txVars>>
  PROVE  FecInv(s, C, P)'
<1> DEFINE g == f.gen
           of == C[g].of
<1>0. /\ Coding(s, C, P) /\ Waits(s, C, P) /\ SinkIs(s, C) /\ LinkIs(s, C, P)
      /\ SentIs(s, C, P) /\ Decoded(s, C) /\ GotIs(s, C, P) /\ InOrder(s)
      /\ Len(link[s]) \in Nat /\ DOMAIN link[s] = 1 .. Len(link[s])
  BY DEF FecInv, ParityInv
<1>1. p \in DOMAIN link[s] /\ FrameIs(f, C, P) /\ Left(s, C, g, f.index) /\ Comes(f, s, C, P)
  BY <1>0 DEF Parted, LinkIs, Comes
<1>2. /\ g \in DOMAIN C /\ heard' = heard \cup {<<of, f.index>>}
      /\ DOMAIN gens' = Kept(f) \cup {g} /\ \A h \in Kept(f) \ {g} : gens'[h] = gens[h]
      /\ Held(gens[g], C, g)'
      /\ HeardOf(C, g)' = HeardOf(C, g) \cup {f.index}
      /\ \A h \in DOMAIN C : h # g => HeardOf(C, h)' = HeardOf(C, h)
      /\ invented' = FALSE /\ got' \in [Ids -> {0, 1}]
      /\ \A h \in DOMAIN C : h # g => \A i \in Sources(C, h) : got'[C[h].of[i]] = got[C[h].of[i]]
      /\ \A id \in P : got'[id] = got[id]
      /\ \A id \in Ids : got'[id] = 1 /\ got[id] # 1 =>
           \E i \in 0 .. Len(of) - 1 : id = of[i + 1] /\ \E j \in HeardOf(C, g) \cup {f.index} : i <= j
  <2>1. Absorbed(f, C, P)
    BY <1>0, <1>1, AbsorbedCoded
  <2> QED BY ONLY <2>1 DEF Absorbed
<1>3. f.index \in 0 .. C[g].n - 1 /\ Generation(of, C[g].n)
  BY <1>0, <1>1, <1>2 DEF FrameIs, OfGeneration, Coding
<1>4. UNCHANGED <<sink, generation, emitted, now, txVars>>
  BY DEF txVars, taskVars
<1>5. order' = OrderAfter(f)
  BY DEF Absorb, OrderAfter
<1>6. /\ InOrder(s)'
      /\ \A e \in DOMAIN gens : e \notin DOMAIN gens' =>
              /\ \A j \in DOMAIN link'[s] : link'[s][j].coded = TRUE => link'[s][j].gen # e
              /\ e # generation[s] - 1
  <2>1. DOMAIN gens \subseteq DOMAIN C /\ DOMAIN gens' = Kept(f) \cup {f.gen}
    BY <1>0, <1>2 DEF Decoded
  <2> QED BY <1>0, <1>5, <2>1, OrderKept
<1> HIDE DEF g
<1>7. Coding(s, C, P)' /\ Waits(s, C, P)' /\ SinkIs(s, C)'
  BY <1>0, <1>4, SenderKeeps
<1>8. LinkIs(s, C, P)'
  <2>1. ASSUME NEW j \in DOMAIN link'[s], link'[s][j].coded = FALSE PROVE got'[link'[s][j].of[1]] = 0
    <3> DEFINE w == Was(p, j)
               h == link[s][w]
    <3>1. w \in DOMAIN link[s] /\ Alike(h, link'[s][j])
      BY DEF Parted
    <3>2. h.coded = FALSE /\ link'[s][j].of = h.of
      BY <2>1, <3>1 DEF Alike
    <3>3. PICK x \in P : h.of = <<x>>
      BY <1>0, <3>1, <3>2 DEF LinkIs, FrameIs
    <3>4. got[h.of[1]] = 0
      BY <1>0, <3>1, <3>2 DEF LinkIs
    <3> QED BY <1>2, <3>2, <3>3, <3>4
  <2> QED BY <1>0, <1>4, <2>1, LinkKeeps
<1>9. SentIs(s, C, P)'
  <2>1. \A h \in DOMAIN C : \A i : Left(s, C, h, i)' <=> Left(s, C, h, i)
    BY <1>4 DEF Left
  <2>2. \A h \in heard' : \E e \in DOMAIN C : \E i \in 0 .. C[e].n - 1 : h = <<C[e].of, i>> /\ Left(s, C, e, i)'
    <3> SUFFICES ASSUME NEW h \in heard'
                 PROVE  \E e \in DOMAIN C : \E i \in 0 .. C[e].n - 1 : h = <<C[e].of, i>> /\ Left(s, C, e, i)'
      OBVIOUS
    <3>1. CASE h \in heard
      <4>1. PICK e \in DOMAIN C : \E i \in 0 .. C[e].n - 1 : h = <<C[e].of, i>> /\ Left(s, C, e, i)
        BY <1>0, <3>1 DEF SentIs
      <4> QED BY <2>1, <4>1
    <3>2. CASE h = <<of, f.index>>
      BY <1>1, <1>2, <1>3, <2>1, <3>2 DEF g
    <3> QED BY <1>2, <3>1, <3>2
  <2>3. P \subseteq emitted' /\ \A h \in DOMAIN C : \A i \in 0 .. Len(C[h].of) - 1 : Left(s, C, h, i)' => C[h].of[i + 1] \in emitted'
    BY <1>0, <1>4, <2>1 DEF SentIs
  <2> QED BY <2>2, <2>3 DEF SentIs
<1>10. GotIs(s, C, P)'
  <2>1. ASSUME NEW id \in Ids, got'[id] = 1
        PROVE  id \in emitted /\ (id \in P \/ \E h \in DOMAIN C : \E i \in Sources(C, h) : id = C[h].of[i])
    <3>1. CASE got[id] = 1
      BY <1>0, <3>1 DEF GotIs
    <3>2. CASE got[id] # 1
      <4>1. PICK i \in 0 .. Len(of) - 1 : id = of[i + 1] /\ \E j \in HeardOf(C, g) \cup {f.index} : i <= j
        BY <1>2, <2>1, <3>2
      <4>2. PICK j \in HeardOf(C, g) \cup {f.index} : i <= j
        BY <4>1
      <4>3. Left(s, C, g, j) /\ j \in 0 .. C[g].n - 1
        <5>1. CASE j = f.index
          BY <1>1, <1>3, <5>1
        <5>2. CASE j \in HeardOf(C, g)
          <6>1. <<of, j>> \in heard /\ j \in 0 .. C[g].n - 1
            BY <5>2 DEF HeardOf
          <6>2. PICK e \in DOMAIN C : \E x \in 0 .. C[e].n - 1 : <<of, j>> = <<C[e].of, x>> /\ Left(s, C, e, x)
            BY <1>0, <6>1 DEF SentIs
          <6>3. e = g
            BY <1>0, <1>2, <6>2, OneGeneration
          <6> QED BY <6>1, <6>2, <6>3
        <5> QED BY <5>1, <5>2
      <4>4. Left(s, C, g, i)
        <5>1. CASE g < generation[s] - 1
          BY <5>1 DEF Left
        <5>2. CASE ~(g < generation[s] - 1)
          <6> DEFINE b == C[g].n - Len(sink[s])
          <6>1. j < b /\ b \in Int /\ j \in Int /\ i \in Int
            <7>1. C[g].n \in Nat /\ Len(of) \in Nat
              BY <1>3 DEF Generation
            <7>2. Len(sink[s]) \in Nat
              BY DEF ParityInv
            <7>3. j < b
              BY <4>3, <5>2 DEF Left
            <7>4. i \in Int /\ j \in Int
              BY <4>3, <7>1
            <7> QED BY <7>1, <7>2, <7>3, <7>4
          <6> HIDE DEF b
          <6>2. i < b
            BY <4>2, <6>1
          <6> QED BY <6>2 DEF Left, b
        <5> QED BY <5>1, <5>2
      <4>5. id \in emitted
        BY <1>0, <1>2, <4>1, <4>4 DEF SentIs
      <4>6. i + 1 \in Sources(C, g)
        <5> DEFINE k == Len(of)
        <5>1. k \in Nat /\ Sources(C, g) = 1 .. k
          BY <1>3 DEF Generation, Sources
        <5> HIDE DEF k
        <5>2. \A x \in 0 .. k - 1 : x + 1 \in Sources(C, g)
          BY <5>1
        <5> QED BY <5>2 DEF k
      <4> QED BY <1>2, <4>1, <4>5, <4>6
    <3> QED BY <3>1, <3>2
  <2> QED BY <1>2, <1>4, <2>1 DEF GotIs
<1>11. Decoded(s, C)'
  <2>0. Kept(f) \subseteq DOMAIN gens /\ DOMAIN gens \subseteq DOMAIN C /\ \A e \in DOMAIN C : Generation(C[e].of, C[e].n)
    BY <1>0 DEF Kept, Decoded, Coding
  <2>1. ASSUME NEW e \in DOMAIN C, e \in DOMAIN gens' PROVE Held(gens[e], C, e)'
    <3>1. CASE e = g
      BY <1>2, <3>1
    <3>2. CASE e # g
      <4>1. e \in Kept(f) \ {g} /\ gens'[e] = gens[e] /\ e \in DOMAIN gens
        BY <1>2, <2>0, <2>1, <3>2
      <4>2. Held(gens[e], C, e)
        BY <1>0, <4>1 DEF Decoded
      <4>3. HeardOf(C, e)' = HeardOf(C, e) /\ \A i \in Sources(C, e) : got'[C[e].of[i]] = got[C[e].of[i]]
        BY <1>2, <3>2
      <4>4. Generation(C[e].of, C[e].n)
        BY <2>0
      <4> QED BY <4>1, <4>2, <4>3, <4>4, HeldKeeps
    <3> QED BY <3>1, <3>2
  <2>2. ASSUME NEW e \in DOMAIN C, e \notin DOMAIN gens' PROVE Untouched(C, e)' \/ Over(s, C, e)'
    <3>0. e # g /\ Generation(C[e].of, C[e].n)
      BY <1>2, <2>0, <2>2
    <3>1. HeardOf(C, e)' = HeardOf(C, e) /\ \A i \in Sources(C, e) : got'[C[e].of[i]] = got[C[e].of[i]]
      BY <1>2, <3>0
    <3>2. CASE e \in DOMAIN gens
      <4>1. Held(gens[e], C, e)
        BY <1>0, <3>2 DEF Decoded
      <4>2. /\ Cardinality(HeardOf(C, e)) >= Len(C[e].of) => \A i \in Sources(C, e) : got[C[e].of[i]] = 1
            /\ \A i \in HeardOf(C, e) : i < Len(C[e].of) => got[C[e].of[i + 1]] = 1
        <5> DEFINE st == gens[e]
        <5>1. Held(st, C, e)
          BY <4>1
        <5> HIDE DEF st
        <5> QED BY <3>0, <5>1, HeldSettles
      <4>3. /\ \A j \in DOMAIN link'[s] : link'[s][j].coded = TRUE => link'[s][j].gen # e
            /\ e # generation'[s] - 1
        BY <1>4, <1>6, <2>2, <3>2
      <4>4. \A i \in HeardOf(C, e) : i < Len(C[e].of) => i + 1 \in Sources(C, e)
        <5> SUFFICES ASSUME NEW i \in HeardOf(C, e), i < Len(C[e].of) PROVE i + 1 \in Sources(C, e)
          OBVIOUS
        <5> DEFINE k == Len(C[e].of)
        <5>1. k \in Nat /\ Sources(C, e) = 1 .. k /\ i < k /\ i \in Nat
          BY <3>0 DEF Generation, Sources, HeardOf
        <5> HIDE DEF k
        <5> QED BY <5>1
      <4> QED BY <3>1, <4>2, <4>3, <4>4 DEF Over
    <3>3. CASE e \notin DOMAIN gens
      <4>1. Untouched(C, e) \/ Over(s, C, e)
        BY <1>0, <3>3 DEF Decoded
      <4>2. Untouched(C, e) => Untouched(C, e)'
        BY <3>1 DEF Untouched
      <4>3. Over(s, C, e) => Over(s, C, e)'
        BY <1>4, <3>0, <3>1, OverKeeps
      <4> QED BY <4>1, <4>2, <4>3
    <3> QED BY <3>2, <3>3
  <2>3. DOMAIN gens' \subseteq DOMAIN C
    BY <1>2, <2>0
  <2> QED BY <2>1, <2>2, <2>3 DEF Decoded
<1> QED BY <1>6, <1>7, <1>8, <1>9, <1>10, <1>11 DEF FecInv

(* What is lost on the link disturbs nothing. *)
LEMMA LostFrame ==
  ASSUME NEW s \in Tx, NEW C, NEW P, ParityInv, FecInv(s, C, P), Lose(s)
  PROVE  FecInv(s, C, P)'
<1>0. /\ Coding(s, C, P) /\ Waits(s, C, P) /\ SinkIs(s, C) /\ LinkIs(s, C, P)
      /\ SentIs(s, C, P) /\ Decoded(s, C) /\ GotIs(s, C, P) /\ InOrder(s)
      /\ Len(link[s]) \in Nat
  BY DEF FecInv, ParityInv
<1>1. Parted(s, 1)
  BY FirstParts DEF Lose
<1>2. UNCHANGED <<now, txVars>> /\ UNCHANGED rxVars
  BY DEF Lose
<1>3. UNCHANGED <<sink, generation, emitted, gens, order, got, invented, heard>>
  BY <1>2 DEF txVars, taskVars, rxVars
<1>4. Coding(s, C, P)' /\ Waits(s, C, P)' /\ SinkIs(s, C)'
  BY <1>0, <1>2, SenderKeeps
<1>5. LinkIs(s, C, P)'
  <2>1. ASSUME NEW j \in DOMAIN link'[s], link'[s][j].coded = FALSE PROVE got'[link'[s][j].of[1]] = 0
    <3> DEFINE w == Was(1, j)
               h == link[s][w]
    <3>1. w \in DOMAIN link[s] /\ Alike(h, link'[s][j])
      BY <1>1 DEF Parted
    <3>2. h.coded = FALSE /\ link'[s][j].of = h.of
      BY <2>1, <3>1 DEF Alike
    <3>3. got[h.of[1]] = 0
      BY <1>0, <3>1, <3>2 DEF LinkIs
    <3> QED BY <1>3, <3>2, <3>3
  <2> QED BY <1>0, <1>1, <1>3, <2>1, LinkKeeps
<1>6. SentIs(s, C, P)'
  BY <1>0, <1>3 DEF SentIs, Left
<1>7. GotIs(s, C, P)'
  BY <1>0, <1>3 DEF GotIs
<1>8. InOrder(s)'
  <2>1. MayLeave(s, 1)
    BY DEF MayLeave
  <2> QED BY <1>0, <1>1, <1>3, <2>1, OrderPlain, GenNumbers
<1>9. Decoded(s, C)'
  <2>0. \A e \in DOMAIN C : HeardOf(C, e)' = HeardOf(C, e) /\ Generation(C[e].of, C[e].n)
    BY <1>0, <1>3 DEF HeardOf, Coding
  <2>1. ASSUME NEW e \in DOMAIN C, Held(gens[e], C, e) PROVE Held(gens[e], C, e)'
    BY <1>3, <2>0, <2>1, HeldKeeps
  <2>2. ASSUME NEW e \in DOMAIN C, Untouched(C, e) PROVE Untouched(C, e)'
    BY <1>3, <2>0, <2>2 DEF Untouched
  <2>3. ASSUME NEW e \in DOMAIN C, Over(s, C, e) PROVE Over(s, C, e)'
    BY <1>1, <1>3, <2>0, <2>3, OverKeeps
  <2>4. DOMAIN gens' = DOMAIN gens
    BY <1>3
  <2> QED BY <1>0, <2>1, <2>2, <2>3, <2>4 DEF Decoded
<1> QED BY <1>4, <1>5, <1>6, <1>7, <1>8, <1>9 DEF FecInv

(* A frame is received, in its turn or ahead of the one before. *)
LEMMA ReceivedFrame ==
  ASSUME FecAssumption, MaxFrames < GenSpace, NEW s \in Tx, NEW C, NEW P, WindowInv, ParityInv, FecInv(s, C, P),
         Receive(s) \/ Overtake(s)
  PROVE  FecInv(s, C, P)'
<1>0. generation[s] <= MaxFrames
  <2>1. /\ generation[s] + Len(pending[s]) + Len(inbox[s]) <= offered[s] /\ offered[s] <= MaxFrames
    BY DEF FecInv, Waits
  <2>2. /\ generation[s] \in Nat /\ Len(pending[s]) \in Nat /\ Len(inbox[s]) \in Nat /\ offered[s] \in Nat
        /\ MaxFrames \in Nat
    BY FecAssumption DEF ParityInv, WindowInv, WindowTypes
  <2> QED BY <2>1, <2>2
<1>1. link[s] \in Seq(AskedFrame) /\ UNCHANGED <<now, txVars>>
  BY DEF ParityInv, Receive, Overtake
<1>2. ASSUME NEW p \in {1, 2}, Parted(s, p), MayLeave(s, p), Absorb(link[s][p]) PROVE FecInv(s, C, P)'
  <2> DEFINE f == link[s][p]
  <2>1. f.coded \in BOOLEAN
    <3>1. f \in AskedFrame
      BY <1>1, <1>2 DEF Parted
    <3> QED BY <3>1 DEF AskedFrame, PlainFrame, CodedFrame
  <2>2. Absorb(f)
    BY <1>2
  <2>3. PICK h : h = f
    OBVIOUS
  <2>4. CASE f.coded = FALSE
    <3>1. Deliver(h.of) /\ UNCHANGED <<gens, order, heard>>
      BY <2>2, <2>3, <2>4 DEF Absorb
    <3> QED BY <1>1, <1>2, <2>3, <2>4, <3>1, ReceivedPlain
  <2>5. CASE f.coded = TRUE
    <3>1. Absorb(h)
      BY <2>2, <2>3
    <3> QED BY <1>0, <1>1, <1>2, <2>3, <2>5, <3>1, ReceivedCoded
  <2> QED BY <2>1, <2>4, <2>5
<1>3. CASE Receive(s)
  <2>1. Parted(s, 1)
    BY <1>3, FirstParts DEF Receive
  <2>2. Head(link[s]) = link[s][1]
    BY <1>1, <1>3 DEF Receive
  <2>3. Absorb(link[s][1]) /\ MayLeave(s, 1)
    BY <1>3, <2>2 DEF Receive, MayLeave
  <2> QED BY <1>2, <2>1, <2>3
<1>4. CASE Overtake(s)
  <2>1. Parted(s, 2)
    BY <1>4, SecondParts DEF Overtake
  <2>2. link[s][1].late = FALSE
    <3>1. link[s][1] \in AskedFrame /\ ~link[s][1].late
      BY <1>1, <1>4 DEF Overtake
    <3> QED BY <3>1 DEF AskedFrame, PlainFrame, CodedFrame
  <2>3. Absorb(link[s][2]) /\ MayLeave(s, 2)
    BY <1>4, <2>2 DEF Overtake, MayLeave
  <2> QED BY <1>2, <2>1, <2>3
<1> QED BY <1>3, <1>4

(* A sequence with one more element. *)
LEMMA Appended ==
  ASSUME NEW S, NEW q \in Seq(S), NEW x \in S
  PROVE  /\ Append(q, x) \in Seq(S) /\ Len(q) \in Nat /\ DOMAIN q = 1 .. Len(q)
         /\ Len(Append(q, x)) = Len(q) + 1 /\ DOMAIN Append(q, x) = 1 .. Len(q) + 1
         /\ \A i \in 1 .. Len(q) : Append(q, x)[i] = q[i]
         /\ Append(q, x)[Len(q) + 1] = x
         /\ \A i \in 1 .. Len(q) + 1 : i \in 1 .. Len(q) \/ i = Len(q) + 1
<1> DEFINE r == Append(q, x)
<1>1. r \in Seq(S) /\ Len(q) \in Nat /\ DOMAIN q = 1 .. Len(q) /\ Len(r) = Len(q) + 1
      /\ \A i \in 1 .. Len(q) : r[i] = q[i]
  OBVIOUS
<1>2. r[Len(q) + 1] = x
  OBVIOUS
<1> HIDE DEF r
<1>3. DOMAIN r = 1 .. Len(q) + 1
  BY <1>1
<1>4. \A i \in 1 .. Len(q) + 1 : i \in 1 .. Len(q) \/ i = Len(q) + 1
  BY <1>1
<1> QED BY <1>1, <1>2, <1>3, <1>4 DEF r

(* A number that has not been offered yet is nowhere. *)
LEMMA Unoffered ==
  ASSUME NEW s, NEW C, NEW P, Coding(s, C, P), Waits(s, C, P), GotIs(s, C, P), offered[s] \in Nat,
         NEW id \in Ids, id[2] = offered[s] + 1
  PROVE  /\ id \notin P /\ \A g \in DOMAIN C : \A i \in Sources(C, g) : C[g].of[i] # id
         /\ \A i \in DOMAIN inbox[s] : Id(inbox[s][i]) # id /\ inbox[s][i].seq # id[2]
         /\ \A i \in DOMAIN pending[s] : Id(pending[s][i]) # id /\ pending[s][i].seq # id[2]
         /\ got[id] = 0
<1>0. ~(offered[s] + 1 <= offered[s]) /\ offered[s] + 1 \notin 1 .. offered[s]
  OBVIOUS
<1>1. id \notin P
  BY <1>0 DEF Coding
<1>2. \A g \in DOMAIN C : \A i \in Sources(C, g) : C[g].of[i] # id
  BY <1>0 DEF Coding
<1>3. \A i \in DOMAIN inbox[s] : Id(inbox[s][i]) # id /\ inbox[s][i].seq # id[2]
  <2> SUFFICES ASSUME NEW i \in DOMAIN inbox[s] PROVE Id(inbox[s][i]) # id /\ inbox[s][i].seq # id[2]
    OBVIOUS
  <2>1. inbox[s][i].seq \in 1 .. offered[s]
    BY DEF Waits, Waiting
  <2>2. inbox[s][i].seq # id[2]
    BY <1>0, <2>1
  <2>3. Id(inbox[s][i])[2] = inbox[s][i].seq
    BY DEF Id
  <2> QED BY <2>2, <2>3
<1>4. \A i \in DOMAIN pending[s] : Id(pending[s][i]) # id /\ pending[s][i].seq # id[2]
  <2> SUFFICES ASSUME NEW i \in DOMAIN pending[s] PROVE Id(pending[s][i]) # id /\ pending[s][i].seq # id[2]
    OBVIOUS
  <2>1. pending[s][i].seq \in 1 .. offered[s]
    BY DEF Waits, Waiting
  <2>2. pending[s][i].seq # id[2]
    BY <1>0, <2>1
  <2>3. Id(pending[s][i])[2] = pending[s][i].seq
    BY DEF Id
  <2> QED BY <2>2, <2>3
<1>5. got[id] = 0
  BY <1>1, <1>2 DEF GotIs
<1> QED BY <1>1, <1>2, <1>3, <1>4, <1>5

(* A frame is offered when no parity is wanted: it is sent as it is. *)
LEMMA OfferedPlain ==
  ASSUME FecAssumption, NEW s \in Tx, NEW C, NEW P, WindowInv, ParityInv, FecInv(s, C, P), Offer(s, 0)
  PROVE  \E Q : FecInv(s, C, Q)'
<1> DEFINE p == [src |-> s, seq |-> offered[s] + 1, asked |-> 0, at |-> now]
           x == Plain(p)
<1>0. /\ Coding(s, C, P) /\ Waits(s, C, P) /\ SinkIs(s, C) /\ LinkIs(s, C, P)
      /\ SentIs(s, C, P) /\ Decoded(s, C) /\ GotIs(s, C, P) /\ InOrder(s)
      /\ link[s] \in Seq(AskedFrame) /\ offered[s] \in Nat /\ MaxFrames \in Nat
  BY FecAssumption DEF FecInv, ParityInv, WindowInv, WindowTypes
<1>1. PICK id : id = <<s, offered[s] + 1>>
  OBVIOUS
<1>2. id \in Ids /\ id[2] = offered[s] + 1 /\ Id(p) = id /\ offered[s] < MaxFrames
  BY <1>0, <1>1 DEF Offer, Ids, Id
<1>3. /\ offered'[s] = offered[s] + 1 /\ link'[s] = Append(link[s], x) /\ emitted' = emitted \cup {id}
      /\ UNCHANGED <<inbox, pending, deadline, parity, generation, sink, now, gens, order, got, invented, heard>>
  BY <1>2 DEF Offer, WindowInv, WindowTypes, ParityInv, taskVars, rxVars
<1>4. x.coded = FALSE /\ x.of = <<id>> /\ x.late = FALSE /\ x \in AskedFrame
  <2>1. x = [coded |-> FALSE, of |-> <<id>>, late |-> FALSE]
    BY <1>2 DEF Plain
  <2>2. id \in Tx \X Nat
    BY <1>2 DEF Ids
  <2>3. <<id>> \in Seq(Tx \X Nat)
    BY <2>2
  <2> HIDE DEF x
  <2> QED BY <2>1, <2>3 DEF AskedFrame, PlainFrame
<1> HIDE DEF x, p
<1>5. /\ id \notin P /\ \A g \in DOMAIN C : \A i \in Sources(C, g) : C[g].of[i] # id
      /\ \A i \in DOMAIN inbox[s] : Id(inbox[s][i]) # id /\ inbox[s][i].seq # id[2]
      /\ \A i \in DOMAIN pending[s] : Id(pending[s][i]) # id /\ pending[s][i].seq # id[2]
      /\ got[id] = 0
  BY <1>0, <1>2, Unoffered
<1>6. PICK Q : Q = P \cup {id}
  OBVIOUS
<1> DEFINE n == Len(link[s])
<1>7. /\ n \in Nat /\ DOMAIN link[s] = 1 .. n /\ DOMAIN link'[s] = 1 .. n + 1
      /\ \A i \in 1 .. n : link'[s][i] = link[s][i]
      /\ link'[s][n + 1] = x
      /\ \A i \in 1 .. n + 1 : i \in 1 .. n \/ i = n + 1
  BY <1>0, <1>3, <1>4, Appended
<1> HIDE DEF n
<1>8. \A k : k <= offered[s] /\ k \in Nat => k <= offered[s] + 1
  BY <1>0
<1>9. Coding(s, C, Q)'
  <2>1. \A y \in Q : y \in Ids /\ y[2] <= offered'[s]
    <3> SUFFICES ASSUME NEW y \in Q PROVE y \in Ids /\ y[2] <= offered'[s]
      OBVIOUS
    <3>1. CASE y = id
      BY <1>0, <1>2, <1>3, <3>1
    <3>2. CASE y \in P
      <4>1. y \in Ids /\ y[2] <= offered[s] /\ y[2] \in Nat
        BY <1>0, <3>2 DEF Coding, Ids
      <4> QED BY <1>3, <1>8, <4>1
    <3> QED BY <1>6, <3>1, <3>2
  <2>2. \A g \in DOMAIN C : \A i \in Sources(C, g) : C[g].of[i] \notin Q /\ C[g].of[i][2] <= offered'[s]
    <3> SUFFICES ASSUME NEW g \in DOMAIN C, NEW i \in Sources(C, g) PROVE C[g].of[i] \notin Q /\ C[g].of[i][2] <= offered'[s]
      OBVIOUS
    <3>1. C[g].of[i] \in Ids /\ C[g].of[i] \notin P /\ C[g].of[i][2] <= offered[s]
      BY <1>0 DEF Coding, Sources, Generation
    <3>2. C[g].of[i][2] \in Nat
      BY <3>1 DEF Ids
    <3> QED BY <1>3, <1>5, <1>6, <1>8, <3>1, <3>2
  <2>3. Q \subseteq Ids
    BY <2>1
  <2> QED BY <1>0, <1>3, <2>1, <2>2, <2>3 DEF Coding
<1>10. Waits(s, C, Q)'
  <2>1. ASSUME NEW y, Waiting(y, s, C, P), Id(y) # id PROVE Waiting(y, s, C, Q)'
    <3>1. y.src = s /\ y.seq \in 1 .. offered'[s]
      BY <1>0, <1>3, <2>1 DEF Waiting
    <3>2. Id(y) \notin Q /\ \A g \in DOMAIN C : \A i \in Sources(C, g) : C[g].of[i] # Id(y)
      BY <1>6, <2>1 DEF Waiting
    <3> QED BY <3>1, <3>2 DEF Waiting
  <2>2. \A i \in DOMAIN inbox[s] : Waiting(inbox[s][i], s, C, Q)'
    <3> SUFFICES ASSUME NEW i \in DOMAIN inbox[s] PROVE Waiting(inbox[s][i], s, C, Q)'
      BY <1>3
    <3>1. PICK y : y = inbox[s][i]
      OBVIOUS
    <3>2. Waiting(y, s, C, P) /\ Id(y) # id
      BY <1>0, <1>5, <3>1 DEF Waits
    <3>3. Waiting(y, s, C, Q)'
      BY <2>1, <3>2
    <3> QED BY <1>3, <3>1, <3>3
  <2>3. \A i \in DOMAIN pending[s] : Waiting(pending[s][i], s, C, Q)'
    <3> SUFFICES ASSUME NEW i \in DOMAIN pending[s] PROVE Waiting(pending[s][i], s, C, Q)'
      BY <1>3
    <3>1. PICK y : y = pending[s][i]
      OBVIOUS
    <3>2. Waiting(y, s, C, P) /\ Id(y) # id
      BY <1>0, <1>5, <3>1 DEF Waits
    <3>3. Waiting(y, s, C, Q)'
      BY <2>1, <3>2
    <3> QED BY <1>3, <3>1, <3>3
  <2>4. generation[s] + Len(pending[s]) + Len(inbox[s]) <= offered[s] + 1 /\ offered[s] + 1 <= MaxFrames
    <3>1. generation[s] + Len(pending[s]) + Len(inbox[s]) <= offered[s]
      BY <1>0 DEF Waits
    <3>2. generation[s] \in Nat /\ Len(pending[s]) \in Nat /\ Len(inbox[s]) \in Nat
      BY DEF WindowInv, WindowTypes, ParityInv
    <3> QED BY <1>0, <1>2, <3>1, <3>2
  <2> QED BY <1>0, <1>3, <2>2, <2>3, <2>4 DEF Waits
<1>11. SinkIs(s, C)'
  BY <1>0, <1>3 DEF SinkIs
<1>12. \A f : FrameIs(f, C, P) => FrameIs(f, C, Q)
  BY <1>6 DEF FrameIs
<1>13. LinkIs(s, C, Q)'
  <2>1. ASSUME NEW i \in 1 .. n + 1
        PROVE  LET f == link'[s][i] IN
               /\ FrameIs(f, C, Q) /\ (f.coded = TRUE => Left(s, C, f.gen, f.index))
               /\ (i > 1 => f.late = FALSE)
               /\ f.coded = FALSE => got'[f.of[1]] = 0
    <3>1. CASE i \in 1 .. n
      <4>1. LET f == link[s][i] IN
               /\ FrameIs(f, C, P) /\ (f.coded = TRUE => Left(s, C, f.gen, f.index))
               /\ (i > 1 => f.late = FALSE)
               /\ f.coded = FALSE => got[f.of[1]] = 0
        BY <1>0, <1>7, <3>1 DEF LinkIs
      <4> QED BY <1>3, <1>7, <1>12, <3>1, <4>1
    <3>2. CASE i = n + 1
      <4>1. FrameIs(x, C, Q) /\ x.coded = FALSE /\ x.late = FALSE /\ got'[x.of[1]] = 0
        BY <1>3, <1>4, <1>5, <1>6 DEF FrameIs
      <4> QED BY <1>7, <3>2, <4>1
    <3> QED BY <1>7, <3>1, <3>2
  <2>2. ASSUME NEW i \in 1 .. n + 1, NEW j \in 1 .. n + 1, i < j
        PROVE  IF link'[s][i].coded = TRUE /\ link'[s][j].coded = TRUE THEN link'[s][i].gen <= link'[s][j].gen
               ELSE link'[s][i].coded = FALSE /\ link'[s][j].coded = FALSE => link'[s][i].of # link'[s][j].of
    <3>0. i \in 1 .. n
      BY <1>7, <2>2
    <3>1. CASE j \in 1 .. n
      <4>1. IF link[s][i].coded = TRUE /\ link[s][j].coded = TRUE THEN link[s][i].gen <= link[s][j].gen
            ELSE link[s][i].coded = FALSE /\ link[s][j].coded = FALSE => link[s][i].of # link[s][j].of
        BY <1>0, <1>7, <2>2, <3>0, <3>1 DEF LinkIs
      <4>2. link'[s][i] = link[s][i] /\ link'[s][j] = link[s][j]
        BY <1>7, <3>0, <3>1
      <4> QED BY <4>1, <4>2
    <3>2. CASE j = n + 1
      <4>1. link'[s][j].coded = FALSE /\ link'[s][j].of = <<id>>
        BY <1>4, <1>7, <3>2
      <4>2. link[s][i].coded = FALSE => \E y \in P : link[s][i].of = <<y>>
        BY <1>0, <1>7, <3>0 DEF LinkIs, FrameIs
      <4>3. \A y \in P : <<y>> # <<id>>
        BY <1>5
      <4> QED BY <1>7, <3>0, <4>1, <4>2, <4>3
    <3> QED BY <1>7, <3>1, <3>2
  <2>3. \A g, i : Left(s, C, g, i)' <=> Left(s, C, g, i)
    BY <1>3 DEF Left
  <2> QED BY <1>3, <1>7, <2>1, <2>2 DEF LinkIs, Left
<1>14. SentIs(s, C, Q)'
  BY <1>0, <1>3, <1>6 DEF SentIs, Left
<1>15. Decoded(s, C)'
  <2>0. \A e \in DOMAIN C : HeardOf(C, e)' = HeardOf(C, e) /\ Generation(C[e].of, C[e].n)
    BY <1>0, <1>3 DEF HeardOf, Coding
  <2>1. ASSUME NEW e \in DOMAIN C, Held(gens[e], C, e) PROVE Held(gens[e], C, e)'
    BY <1>3, <2>0, <2>1, HeldKeeps
  <2>2. ASSUME NEW e \in DOMAIN C, Untouched(C, e) PROVE Untouched(C, e)'
    BY <1>3, <2>0, <2>2 DEF Untouched
  <2>3. ASSUME NEW e \in DOMAIN C, Over(s, C, e) PROVE Over(s, C, e)'
    <3>1. \A i \in DOMAIN link'[s] : link'[s][i].coded = TRUE => link'[s][i].gen # e
      BY <1>4, <1>7, <2>3 DEF Over
    <3> QED BY <1>3, <2>0, <2>3, <3>1 DEF Over
  <2>4. DOMAIN gens' = DOMAIN gens
    BY <1>3
  <2> QED BY <1>0, <2>1, <2>2, <2>3, <2>4 DEF Decoded
<1>16. GotIs(s, C, Q)'
  BY <1>0, <1>3, <1>6 DEF GotIs
<1>17. InOrder(s)'
  <2>1. \A i \in DOMAIN link'[s] : link'[s][i].coded = TRUE => i \in DOMAIN link[s] /\ link'[s][i] = link[s][i]
    BY <1>4, <1>7
  <2> QED BY <1>0, <1>3, <2>1 DEF InOrder
<1>18. FecInv(s, C, Q)'
  BY <1>9, <1>10, <1>11, <1>13, <1>14, <1>15, <1>16, <1>17 DEF FecInv
<1> QED BY <1>18

(* What rests on the link and the receiver alone stays when they are left alone. *)
LEMMA RestKeeps ==
  ASSUME NEW s, NEW C, NEW P, SinkIs(s, C), LinkIs(s, C, P), SentIs(s, C, P), Decoded(s, C), GotIs(s, C, P), InOrder(s),
         link'[s] = link[s], sink'[s] = sink[s], generation'[s] = generation[s],
         UNCHANGED <<gens, order, got, invented, heard, emitted>>
  PROVE  /\ SinkIs(s, C)' /\ LinkIs(s, C, P)' /\ SentIs(s, C, P)' /\ Decoded(s, C)' /\ GotIs(s, C, P)' /\ InOrder(s)'
<1>1. SinkIs(s, C)'
  BY DEF SinkIs
<1>2. LinkIs(s, C, P)'
  BY DEF LinkIs, Left
<1>3. SentIs(s, C, P)'
  BY DEF SentIs, Left
<1>4. GotIs(s, C, P)'
  BY DEF GotIs
<1>5. InOrder(s)'
  BY DEF InOrder
<1>6. Decoded(s, C)'
  <2>1. ASSUME NEW g \in DOMAIN C, Held(gens[g], C, g) PROVE Held(gens[g], C, g)'
    <3>1. gens'[g] = gens[g] /\ HeardOf(C, g)' = HeardOf(C, g)
      BY DEF HeardOf
    <3> QED BY <2>1, <3>1 DEF Held, Rowed
  <2>2. ASSUME NEW g \in DOMAIN C, Untouched(C, g) PROVE Untouched(C, g)'
    BY <2>2 DEF Untouched, HeardOf
  <2>3. ASSUME NEW g \in DOMAIN C, Over(s, C, g) PROVE Over(s, C, g)'
    BY <2>3 DEF Over, HeardOf
  <2>4. DOMAIN gens' = DOMAIN gens
    OBVIOUS
  <2> QED BY <2>1, <2>2, <2>3, <2>4 DEF Decoded
<1> QED BY <1>1, <1>2, <1>3, <1>4, <1>5, <1>6

(* A frame is offered when parity is wanted: it waits for the task. *)
LEMMA OfferedCoded ==
  ASSUME FecAssumption, NEW s \in Tx, NEW C, NEW P, WindowInv, ParityInv, FecInv(s, C, P),
         NEW r \in Parities, r # 0, Offer(s, r)
  PROVE  FecInv(s, C, P)'
<1> DEFINE p == [src |-> s, seq |-> offered[s] + 1, asked |-> r, at |-> now]
<1>0. /\ Coding(s, C, P) /\ Waits(s, C, P) /\ SinkIs(s, C) /\ LinkIs(s, C, P)
      /\ SentIs(s, C, P) /\ Decoded(s, C) /\ GotIs(s, C, P) /\ InOrder(s)
      /\ offered[s] \in Nat /\ MaxFrames \in Nat /\ now \in Nat /\ r \in Nat
      /\ inbox[s] \in Seq(Payload) /\ pending[s] \in Seq(Payload) /\ generation[s] \in Nat
  BY FecAssumption DEF FecInv, ParityInv, WindowInv, WindowTypes
<1>1. PICK id : id = <<s, offered[s] + 1>>
  OBVIOUS
<1>2. id \in Ids /\ id[2] = offered[s] + 1 /\ Id(p) = id /\ offered[s] < MaxFrames /\ now + Window < MaxTime
      /\ p.src = s /\ p.seq = offered[s] + 1 /\ p \in Payload
  <2>1. offered[s] < MaxFrames /\ now + Window < MaxTime
    BY DEF Offer
  <2>2. p.src = s /\ p.seq = offered[s] + 1 /\ Id(p) = id
    BY <1>1 DEF Id
  <2>3. p \in Payload
    <3>1. offered[s] + 1 \in Nat
      BY <1>0
    <3> QED BY <1>0, <3>1 DEF Payload
  <2>4. id \in Ids /\ id[2] = offered[s] + 1
    <3>1. offered[s] + 1 \in 1 .. MaxFrames
      BY <1>0, <2>1
    <3> QED BY <1>1, <3>1 DEF Ids
  <2> QED BY <2>1, <2>2, <2>3, <2>4
<1>3. /\ offered'[s] = offered[s] + 1 /\ inbox'[s] = Append(inbox[s], p)
      /\ UNCHANGED <<pending, deadline, parity, generation, sink, link, emitted, now, gens, order, got, invented, heard>>
  BY DEF Offer, WindowInv, WindowTypes, ParityInv, taskVars, rxVars
<1>4. /\ id \notin P /\ \A g \in DOMAIN C : \A i \in Sources(C, g) : C[g].of[i] # id
      /\ \A i \in DOMAIN inbox[s] : Id(inbox[s][i]) # id /\ inbox[s][i].seq # id[2]
      /\ \A i \in DOMAIN pending[s] : Id(pending[s][i]) # id /\ pending[s][i].seq # id[2]
      /\ got[id] = 0
  BY <1>0, <1>2, Unoffered
<1> HIDE DEF p
<1> DEFINE n == Len(inbox[s])
<1>5. /\ n \in Nat /\ DOMAIN inbox[s] = 1 .. n /\ DOMAIN inbox'[s] = 1 .. n + 1 /\ Len(inbox'[s]) = n + 1
      /\ \A i \in 1 .. n : inbox'[s][i] = inbox[s][i]
      /\ inbox'[s][n + 1] = p
      /\ \A i \in 1 .. n + 1 : i \in 1 .. n \/ i = n + 1
  BY <1>0, <1>2, <1>3, Appended
<1> HIDE DEF n
<1>6. \A k : k <= offered[s] /\ k \in Nat => k <= offered[s] + 1
  BY <1>0
<1>7. Coding(s, C, P)'
  <2>1. \A y \in P : y[2] <= offered'[s]
    <3> SUFFICES ASSUME NEW y \in P PROVE y[2] <= offered'[s]
      OBVIOUS
    <3>1. y \in Ids /\ y[2] <= offered[s] /\ y[2] \in Nat
      BY <1>0 DEF Coding, Ids
    <3> QED BY <1>3, <1>6, <3>1
  <2>2. \A g \in DOMAIN C : \A i \in Sources(C, g) : C[g].of[i] \notin P /\ C[g].of[i][2] <= offered'[s]
    <3> SUFFICES ASSUME NEW g \in DOMAIN C, NEW i \in Sources(C, g) PROVE C[g].of[i] \notin P /\ C[g].of[i][2] <= offered'[s]
      OBVIOUS
    <3>1. C[g].of[i] \in Ids /\ C[g].of[i] \notin P /\ C[g].of[i][2] <= offered[s]
      BY <1>0 DEF Coding, Sources, Generation
    <3>2. C[g].of[i][2] \in Nat
      BY <3>1 DEF Ids
    <3> QED BY <1>3, <1>6, <3>1, <3>2
  <2> QED BY <1>0, <1>3, <2>1, <2>2 DEF Coding
<1>8. Waits(s, C, P)'
  <2>1. ASSUME NEW y, Waiting(y, s, C, P) PROVE Waiting(y, s, C, P)'
    BY <1>0, <1>3, <2>1 DEF Waiting
  <2>3. ASSUME NEW i \in 1 .. n + 1 PROVE Waiting(inbox[s][i], s, C, P)'
    <3>1. CASE i \in 1 .. n
      <4>1. PICK y : y = inbox[s][i]
        OBVIOUS
      <4>2. Waiting(y, s, C, P)'
        BY <1>0, <1>5, <2>1, <3>1, <4>1 DEF Waits
      <4>3. inbox'[s][i] = y
        BY <1>5, <3>1, <4>1
      <4> QED BY <4>2, <4>3 DEF Waiting
    <3>2. CASE i = n + 1
      <4>1. inbox'[s][i] = p
        BY <1>5, <3>2
      <4>2. PICK y : y = p
        OBVIOUS
      <4>3. Waiting(y, s, C, P)'
        <5>1. y.src = s /\ y.seq \in 1 .. offered'[s]
          BY <1>0, <1>2, <1>3, <4>2
        <5> QED BY <1>2, <1>4, <4>2, <5>1 DEF Waiting
      <4> QED BY <4>1, <4>2, <4>3 DEF Waiting
    <3> QED BY <1>5, <3>1, <3>2
  <2>4. ASSUME NEW i \in DOMAIN pending[s] PROVE Waiting(pending[s][i], s, C, P)'
    <3>1. PICK y : y = pending[s][i]
      OBVIOUS
    <3>2. Waiting(y, s, C, P)'
      BY <1>0, <2>1, <3>1 DEF Waits
    <3> QED BY <1>3, <3>1, <3>2
  <2>5. \A i, j \in 1 .. n + 1 : inbox'[s][i].seq = inbox'[s][j].seq => i = j
    <3>1. \A i, j \in 1 .. n : inbox[s][i].seq = inbox[s][j].seq => i = j
      BY <1>0, <1>5 DEF Waits
    <3>2. \A i \in 1 .. n : inbox[s][i].seq # p.seq
      BY <1>2, <1>4, <1>5
    <3> QED BY <1>5, <3>1, <3>2
  <2>6. \A i \in 1 .. n + 1, j \in DOMAIN pending[s] : inbox'[s][i].seq # pending[s][j].seq
    <3>1. \A i \in 1 .. n, j \in DOMAIN pending[s] : inbox[s][i].seq # pending[s][j].seq
      BY <1>0, <1>5 DEF Waits
    <3>2. \A j \in DOMAIN pending[s] : pending[s][j].seq # p.seq
      BY <1>2, <1>4
    <3> QED BY <1>5, <3>1, <3>2
  <2>7. generation[s] + Len(pending[s]) + (n + 1) <= offered[s] + 1 /\ offered[s] + 1 <= MaxFrames
    <3>1. generation[s] + Len(pending[s]) + n <= offered[s]
      BY <1>0 DEF Waits, n
    <3>2. Len(pending[s]) \in Nat
      BY <1>0
    <3> DEFINE a == generation[s]
               b == Len(pending[s])
               c == offered[s]
    <3>3. a \in Nat /\ b \in Nat /\ c \in Nat /\ n \in Nat /\ a + b + n <= c /\ c < MaxFrames /\ MaxFrames \in Nat
      BY <1>0, <1>2, <1>5, <3>1, <3>2
    <3> HIDE DEF a, b, c
    <3>4. a + b + (n + 1) <= c + 1 /\ c + 1 <= MaxFrames
      BY <3>3
    <3> QED BY <3>4 DEF a, b, c
  <2>8. /\ offered'[s] <= MaxFrames /\ now' <= MaxTime /\ parity'[s] <= MaxN - K
        /\ deadline'[s] # None => deadline'[s] <= MaxTime
        /\ Len(pending'[s]) < K
        /\ generation'[s] + Len(pending'[s]) + Len(inbox'[s]) <= offered'[s]
    BY <1>0, <1>3, <1>5, <2>7 DEF Waits
  <2>9. \A i \in DOMAIN inbox'[s] : Waiting(inbox[s][i], s, C, P)' /\ now' + Window < MaxTime
    BY <1>2, <1>3, <1>5, <2>3
  <2>10. \A i \in DOMAIN pending'[s] : Waiting(pending[s][i], s, C, P)'
    BY <1>3, <2>4
  <2>11. /\ \A i, j \in DOMAIN inbox'[s] : inbox'[s][i].seq = inbox'[s][j].seq => i = j
         /\ \A i, j \in DOMAIN pending'[s] : pending'[s][i].seq = pending'[s][j].seq => i = j
         /\ \A i \in DOMAIN inbox'[s], j \in DOMAIN pending'[s] : inbox'[s][i].seq # pending'[s][j].seq
    BY <1>0, <1>3, <1>5, <2>5, <2>6 DEF Waits
  <2> QED BY <2>8, <2>9, <2>10, <2>11 DEF Waits
<1>9. /\ SinkIs(s, C)' /\ LinkIs(s, C, P)' /\ SentIs(s, C, P)' /\ Decoded(s, C)' /\ GotIs(s, C, P)' /\ InOrder(s)'
  BY <1>0, <1>3, RestKeeps
<1> QED BY <1>7, <1>8, <1>9 DEF FecInv

(* A generation on the way out, of frames that wait, before those of q.          *)
Ready(gen, q, s, C, P) ==
  /\ gen \in Seq(Payload) /\ q \in Seq(Payload) /\ Len(gen) >= 1 /\ Len(gen) <= K
  /\ \A i \in DOMAIN q : Waiting(q[i], s, C, P) /\ now + Window < MaxTime
  /\ \A i \in DOMAIN gen : Waiting(gen[i], s, C, P)
  /\ \A i, j \in DOMAIN q : q[i].seq = q[j].seq => i = j
  /\ \A i, j \in DOMAIN gen : gen[i].seq = gen[j].seq => i = j
  /\ \A i \in DOMAIN q, j \in DOMAIN gen : q[i].seq # gen[j].seq
  /\ generation[s] + Len(gen) + Len(q) <= offered[s]

(* A sequence without its first element. *)
LEMMA TailIs ==
  ASSUME NEW S, NEW q \in Seq(S), q # << >>
  PROVE  /\ Head(q) = q[1] /\ Head(q) \in S /\ Tail(q) \in Seq(S) /\ Len(q) \in Nat /\ Len(q) >= 1
         /\ DOMAIN q = 1 .. Len(q) /\ 1 \in DOMAIN q
         /\ Len(Tail(q)) = Len(q) - 1 /\ DOMAIN Tail(q) = 1 .. Len(q) - 1
         /\ \A i \in DOMAIN Tail(q) : i + 1 \in DOMAIN q /\ i + 1 # 1 /\ Tail(q)[i] = q[i + 1]
<1> DEFINE t == Tail(q)
<1>1. /\ Head(q) = q[1] /\ Head(q) \in S /\ t \in Seq(S) /\ Len(q) \in Nat /\ Len(q) >= 1
      /\ DOMAIN q = 1 .. Len(q) /\ Len(t) = Len(q) - 1 /\ \A i \in 1 .. Len(q) - 1 : t[i] = q[i + 1]
  OBVIOUS
<1> HIDE DEF t
<1>2. DOMAIN t = 1 .. Len(q) - 1
  BY <1>1
<1> DEFINE n == Len(q)
<1> HIDE DEF n
<1>3. n \in Nat /\ n >= 1
  BY <1>1 DEF n
<1>4. 1 \in 1 .. n /\ \A i \in 1 .. n - 1 : i + 1 \in 1 .. n /\ i + 1 # 1
  BY <1>3
<1> QED BY <1>1, <1>2, <1>4 DEF t, n

(* The frame taken joins what is pending. *)
LEMMA TakenIsReady ==
  ASSUME FecAssumption, NEW s \in Tx, NEW C, NEW P, WindowInv, ParityInv, Waits(s, C, P), inbox[s] # << >>
  PROVE  Ready(Append(pending[s], Head(inbox[s])), Tail(inbox[s]), s, C, P) /\ now + Window < MaxTime
<1> DEFINE x == inbox[s]
           y == pending[s]
           p == Head(x)
           t == Tail(x)
           gen == Append(y, p)
           n == Len(y)
<1>1. /\ x \in Seq(Payload) /\ y \in Seq(Payload) /\ generation[s] \in Nat /\ offered[s] \in Nat /\ K \in Nat
  BY FecAssumption DEF ParityInv, WindowInv, WindowTypes
<1>2. /\ p = x[1] /\ p \in Payload /\ t \in Seq(Payload) /\ Len(x) \in Nat /\ Len(x) >= 1 /\ 1 \in DOMAIN x
      /\ Len(t) = Len(x) - 1
      /\ \A i \in DOMAIN t : i + 1 \in DOMAIN x /\ i + 1 # 1 /\ t[i] = x[i + 1] /\ i \in Nat
  BY <1>1, TailIs
<1>3. /\ \A i \in DOMAIN x : Waiting(x[i], s, C, P) /\ now + Window < MaxTime
      /\ \A i \in DOMAIN y : Waiting(y[i], s, C, P)
      /\ \A i, j \in DOMAIN x : x[i].seq = x[j].seq => i = j
      /\ \A i, j \in DOMAIN y : y[i].seq = y[j].seq => i = j
      /\ \A i \in DOMAIN x, j \in DOMAIN y : x[i].seq # y[j].seq
      /\ Len(y) < K
      /\ generation[s] + Len(y) + Len(x) <= offered[s]
  BY DEF Waits
<1> HIDE DEF x, y, p, t
<1>4. /\ gen \in Seq(Payload) /\ n \in Nat /\ DOMAIN y = 1 .. n /\ DOMAIN gen = 1 .. n + 1 /\ Len(gen) = n + 1
      /\ \A i \in 1 .. n : gen[i] = y[i]
      /\ gen[n + 1] = p
      /\ \A i \in 1 .. n + 1 : i \in 1 .. n \/ i = n + 1
  BY <1>1, <1>2, Appended
<1> HIDE DEF gen, n
<1>5. Len(gen) >= 1 /\ Len(gen) <= K
  BY <1>1, <1>3, <1>4 DEF n
<1>6. \A i \in DOMAIN t : Waiting(t[i], s, C, P) /\ now + Window < MaxTime
  BY <1>2, <1>3
<1>7. \A i \in DOMAIN gen : Waiting(gen[i], s, C, P)
  BY <1>2, <1>3, <1>4
<1>8. \A i, j \in DOMAIN t : t[i].seq = t[j].seq => i = j
  <2> SUFFICES ASSUME NEW i \in DOMAIN t, NEW j \in DOMAIN t, t[i].seq = t[j].seq PROVE i = j
    OBVIOUS
  <2>1. i + 1 = j + 1
    BY <1>2, <1>3
  <2> QED BY <1>2, <2>1
<1>9. \A i \in DOMAIN t : t[i].seq # p.seq
  BY <1>2, <1>3
<1>10. \A i \in DOMAIN y : y[i].seq # p.seq
  BY <1>2, <1>3
<1>11. \A i, j \in DOMAIN gen : gen[i].seq = gen[j].seq => i = j
  BY <1>3, <1>4, <1>10
<1>12. \A i \in DOMAIN t, j \in DOMAIN gen : t[i].seq # gen[j].seq
  <2>1. \A i \in DOMAIN t, j \in DOMAIN y : t[i].seq # y[j].seq
    BY <1>2, <1>3
  <2> QED BY <1>4, <1>9, <2>1
<1>13. generation[s] + Len(gen) + Len(t) <= offered[s]
  <2>1. Len(gen) = Len(y) + 1 /\ Len(y) \in Nat
    BY <1>4 DEF n
  <2> QED BY <1>1, <1>2, <1>3, <2>1
<1>14. now + Window < MaxTime
  BY <1>2, <1>3
<1>15. Ready(gen, t, s, C, P)
  BY <1>2, <1>4, <1>5, <1>6, <1>7, <1>8, <1>11, <1>12, <1>13 DEF Ready
<1> QED BY <1>14, <1>15 DEF gen, t, x, y, p

(* The frames of a complete generation: each of its rows, in their order.        *)
Encoded(g, gen, r, s, n, ids) ==
  /\ n \in Nat /\ n >= 1 /\ Generation(ids, n) /\ Len(ids) = Len(gen) /\ DOMAIN ids = DOMAIN gen
  /\ \A j \in DOMAIN gen : ids[j] = Id(gen[j]) /\ ids[j] = <<s, gen[j].seq>>
  /\ Len(Encode(g, gen, r)) = n /\ Encode(g, gen, r) # << >>
  /\ \A j \in 1 .. n : LET f == Encode(g, gen, r)[j] IN
       /\ f.coded = TRUE /\ f.late = FALSE /\ f.gen = g /\ OfGeneration(f, ids, n) /\ f.index = j - 1

(* The frames that a generation is encoded into. *)
LEMMA EncodedIs ==
  ASSUME FecAssumption, NEW s, NEW C, NEW P, NEW g, NEW gen, NEW q, Ready(gen, q, s, C, P),
         offered[s] \in Nat, offered[s] <= MaxFrames, s \in Tx,
         NEW r \in Nat, r <= MaxN - K,
         NEW n, n = Len(gen) + r, NEW ids, ids = [j \in DOMAIN gen |-> Id(gen[j])]
  PROVE  Encoded(g, gen, r, s, n, ids)
<1>1. /\ gen \in Seq(Payload) /\ Len(gen) \in Nat /\ Len(gen) >= 1 /\ Len(gen) <= K /\ DOMAIN gen = 1 .. Len(gen)
      /\ K \in Nat /\ MaxN \in Nat /\ MaxFrames \in Nat
  BY FecAssumption DEF Ready
<1>2. n \in Nat /\ n >= 1 /\ n >= Len(gen) /\ ~(n > MaxN)
  BY <1>1
<1>3. \A j \in DOMAIN gen : Id(gen[j]) = <<s, gen[j].seq>> /\ Id(gen[j]) \in Ids
  <2> SUFFICES ASSUME NEW j \in DOMAIN gen PROVE Id(gen[j]) = <<s, gen[j].seq>> /\ Id(gen[j]) \in Ids
    OBVIOUS
  <2>1. gen[j].src = s /\ gen[j].seq \in 1 .. offered[s]
    BY DEF Ready, Waiting
  <2>2. gen[j].seq \in 1 .. MaxFrames
    BY <1>1, <2>1
  <2> QED BY <2>1, <2>2 DEF Id, Ids
<1>4. ids \in Seq(Ids) /\ Len(ids) = Len(gen) /\ DOMAIN ids = 1 .. Len(gen)
  BY <1>1, <1>3
<1>5. \A i, j \in DOMAIN ids : ids[i] = ids[j] => i = j
  <2> SUFFICES ASSUME NEW i \in DOMAIN gen, NEW j \in DOMAIN gen, ids[i] = ids[j] PROVE i = j
    BY <1>1, <1>4
  <2>1. gen[i].seq = gen[j].seq
    BY <1>3
  <2> QED BY <2>1 DEF Ready
<1>6. Generation(ids, n)
  BY <1>1, <1>2, <1>4, <1>5 DEF Generation
<1> DEFINE fs == Encode(g, gen, r)
<1>7. fs = [j \in 1 .. n |-> Coded(g, gen, n, j - 1)]
  BY <1>2 DEF Encode
<1> HIDE DEF fs
<1>8. \A j \in 1 .. n : fs[j] = Coded(g, gen, n, j - 1)
  BY <1>7
<1>9. Len(fs) = n /\ DOMAIN fs = 1 .. n
  <2> DEFINE F(j) == Coded(g, gen, n, j - 1)
             S == {F(j) : j \in 1 .. n}
  <2>1. fs = [j \in 1 .. n |-> F(j)] /\ \A j \in 1 .. n : F(j) \in S
    BY <1>7
  <2> HIDE DEF F, S
  <2>2. fs \in Seq(S) /\ Len(fs) = n
    BY <1>2, <2>1
  <2> QED BY <2>1, <2>2
<1>10. fs # << >>
  BY <1>2, <1>9
<1>11. ASSUME NEW j \in 1 .. n
       PROVE  /\ fs[j].coded = TRUE /\ fs[j].late = FALSE /\ fs[j].gen = g /\ OfGeneration(fs[j], ids, n) /\ fs[j].index = j - 1
  <2>1. fs[j] = [coded |-> TRUE, of |-> ids, asked |-> gen[1].asked,
                 gen |-> g, k |-> Len(gen), n |-> n, index |-> j - 1, late |-> FALSE]
    BY <1>8 DEF Coded
  <2>2. j - 1 \in 0 .. n - 1
    BY <1>2
  <2>3. fs[j].of = ids /\ fs[j].k = Len(gen) /\ fs[j].n = n /\ fs[j].index = j - 1
    BY <2>1
  <2> QED BY <1>4, <2>1, <2>2, <2>3 DEF OfGeneration
<1> QED BY <1>1, <1>2, <1>3, <1>4, <1>6, <1>9, <1>10, <1>11 DEF fs, Encoded

(* A complete generation goes to the sink, under the number that was next.       *)
LEMMA FlushedGeneration ==
  ASSUME FecAssumption, MaxFrames < GenSpace, NEW s \in Tx, NEW C, NEW P, WindowInv, ParityInv, FecInv(s, C, P),
         sink[s] = << >>, NEW gen, NEW q, Ready(gen, q, s, C, P), inbox'[s] = q,
         NEW r \in Nat, r <= MaxN - K, parity'[s] <= MaxN - K, Flush(s, gen, r),
         UNCHANGED <<now, offered, link, rxVars, emitted>>
  PROVE  \E D : FecInv(s, D, P)'
<1>0. /\ Coding(s, C, P) /\ Waits(s, C, P) /\ SinkIs(s, C) /\ LinkIs(s, C, P)
      /\ SentIs(s, C, P) /\ Decoded(s, C) /\ GotIs(s, C, P) /\ InOrder(s)
      /\ offered[s] \in Nat /\ MaxFrames \in Nat /\ GenSpace \in Nat /\ generation[s] \in Nat /\ offered[s] <= MaxFrames
      /\ K \in Nat /\ K >= 1
      /\ UNCHANGED <<gens, order, got, invented, heard, emitted>>
  BY FecAssumption DEF FecInv, ParityInv, WindowInv, WindowTypes, Waits, rxVars
<1>1. PICK g : g = generation[s]
  OBVIOUS
<1>2. PICK n : n = Len(gen) + r
  OBVIOUS
<1>3. PICK ids : ids = [j \in DOMAIN gen |-> Id(gen[j])]
  OBVIOUS
<1> DEFINE fs == Encode(g, gen, r)
<1>4. /\ n \in Nat /\ n >= 1 /\ Generation(ids, n) /\ Len(ids) = Len(gen) /\ DOMAIN ids = DOMAIN gen
      /\ \A j \in DOMAIN gen : ids[j] = Id(gen[j]) /\ ids[j] = <<s, gen[j].seq>>
      /\ Len(fs) = n /\ fs # << >>
      /\ \A j \in 1 .. n : LET f == fs[j] IN
           /\ f.coded = TRUE /\ f.late = FALSE /\ f.gen = g /\ OfGeneration(f, ids, n) /\ f.index = j - 1
  <2>1. Encoded(g, gen, r, s, n, ids)
    BY <1>0, <1>2, <1>3, EncodedIs
  <2> QED BY ONLY <2>1 DEF Encoded
<1> HIDE DEF fs
<1>5. /\ Len(gen) \in Nat /\ Len(gen) >= 1 /\ gen \in Seq(Payload) /\ q \in Seq(Payload) /\ Len(q) \in Nat
      /\ \A i \in DOMAIN q : Waiting(q[i], s, C, P) /\ now + Window < MaxTime
      /\ \A i \in DOMAIN gen : Waiting(gen[i], s, C, P)
      /\ \A i, j \in DOMAIN q : q[i].seq = q[j].seq => i = j
      /\ \A i \in DOMAIN q, j \in DOMAIN gen : q[i].seq # gen[j].seq
      /\ g + Len(gen) + Len(q) <= offered[s]
  BY <1>1 DEF Ready
<1>6. g \in Nat /\ g + 1 < GenSpace /\ (g + 1) % GenSpace = g + 1
  <2>1. g \in Nat
    BY <1>0, <1>1
  <2> DEFINE a == Len(gen)
             b == Len(q)
             c == offered[s]
             N == GenSpace
             M == MaxFrames
  <2>2. a \in Nat /\ b \in Nat /\ c \in Nat /\ N \in Nat /\ M \in Nat /\ a >= 1 /\ g + a + b <= c /\ c <= M /\ M < N
    BY <1>0, <1>5
  <2> HIDE DEF a, b, c, N, M
  <2>3. g + 1 \in 0 .. N - 1
    BY <2>1, <2>2
  <2>4. (g + 1) % N = g + 1
    <3> DEFINE z == g + 1
    <3>1. z \in 0 .. N - 1 /\ N \in Nat
      BY <2>2, <2>3
    <3> HIDE DEF z
    <3>2. z % N = z
      BY <3>1
    <3> QED BY <3>2 DEF z
  <2> QED BY <2>1, <2>2, <2>3, <2>4 DEF N
<1>7. /\ sink'[s] = fs /\ generation'[s] = g + 1 /\ pending'[s] = << >> /\ deadline'[s] = None
  <2>1. fs = Encode(generation[s], gen, r)
    BY <1>1 DEF fs
  <2>2. /\ sink' = [sink EXCEPT ![s] = fs] /\ pending' = [pending EXCEPT ![s] = << >>] /\ deadline' = [deadline EXCEPT ![s] = None]
        /\ generation' = [generation EXCEPT ![s] = IF fs = << >> THEN @ ELSE (@ + 1) % GenSpace]
    BY <2>1 DEF Flush
  <2> QED BY <1>1, <1>4, <1>6, <2>2 DEF ParityInv, WindowInv, WindowTypes
<1>8. PICK D : D = [h \in 0 .. g |-> IF h < g THEN C[h] ELSE [of |-> ids, n |-> n]]
  OBVIOUS
<1>9. /\ DOMAIN C = 0 .. g - 1 /\ DOMAIN D = 0 .. g
      /\ \A h \in DOMAIN C : h \in DOMAIN D /\ D[h] = C[h] /\ h < g /\ h # g
      /\ g \in DOMAIN D /\ D[g].of = ids /\ D[g].n = n
      /\ \A h \in DOMAIN D : h \in DOMAIN C \/ h = g
  <2>1. DOMAIN C = 0 .. g - 1 /\ DOMAIN D = 0 .. g
    BY <1>0, <1>1, <1>8 DEF Coding
  <2>2. \A h \in 0 .. g - 1 : h \in 0 .. g /\ h < g /\ h # g
    BY <1>6
  <2>3. g \in 0 .. g /\ ~(g < g) /\ \A h \in 0 .. g : h \in 0 .. g - 1 \/ h = g
    BY <1>6
  <2>4. D[g] = [of |-> ids, n |-> n]
    BY <1>8, <2>3
  <2> QED BY <1>8, <2>1, <2>2, <2>3, <2>4

(* The frames of the generation are in none before it, nor sent plain. *)
<1>10. \A j \in DOMAIN ids : /\ ids[j] \in Ids /\ ids[j] \notin P /\ ids[j][2] <= offered[s]
                             /\ \A h \in DOMAIN C : \A i \in Sources(C, h) : C[h].of[i] # ids[j]
  <2> SUFFICES ASSUME NEW j \in DOMAIN gen
               PROVE  /\ ids[j] \in Ids /\ ids[j] \notin P /\ ids[j][2] <= offered[s]
                      /\ \A h \in DOMAIN C : \A i \in Sources(C, h) : C[h].of[i] # ids[j]
    BY <1>4
  <2>1. Waiting(gen[j], s, C, P) /\ ids[j] = Id(gen[j]) /\ ids[j] = <<s, gen[j].seq>>
    BY <1>4, <1>5
  <2>2. gen[j].seq \in 1 .. offered[s]
    BY <2>1 DEF Waiting
  <2>3. ids[j][2] <= offered[s]
    BY <1>0, <2>1, <2>2
  <2>4. ids[j] \in Ids
    BY <1>4 DEF Generation
  <2> QED BY <2>1, <2>3, <2>4 DEF Waiting
<1>11. \A h \in DOMAIN C : Sources(D, h) = Sources(C, h) /\ HeardOf(D, h) = HeardOf(C, h)
  BY <1>9 DEF Sources, HeardOf
<1>12. Sources(D, g) = DOMAIN ids
  BY <1>9 DEF Sources
<1>13. Coding(s, D, P)'
  <2>1. DOMAIN D = 0 .. generation'[s] - 1
    <3>1. g + 1 - 1 = g
      BY <1>6
    <3> QED BY <1>7, <1>9, <3>1
  <2>2. \A h \in DOMAIN D : Generation(D[h].of, D[h].n)
    BY <1>0, <1>4, <1>9 DEF Coding
  <2>3. ASSUME NEW h \in DOMAIN D, NEW e \in DOMAIN D, NEW i \in Sources(D, h), NEW j \in Sources(D, e), D[h].of[i] = D[e].of[j]
        PROVE  h = e /\ i = j
    <3>1. CASE h \in DOMAIN C /\ e \in DOMAIN C
      BY <1>0, <1>9, <1>11, <2>3, <3>1 DEF Coding
    <3>2. CASE h = g /\ e = g
      BY <1>4, <1>9, <1>12, <2>3, <3>2 DEF Generation
    <3>3. CASE h \in DOMAIN C /\ e = g
      BY <1>9, <1>10, <1>11, <1>12, <2>3, <3>3
    <3>4. CASE h = g /\ e \in DOMAIN C
      BY <1>9, <1>10, <1>11, <1>12, <2>3, <3>4
    <3> QED BY <1>9, <3>1, <3>2, <3>3, <3>4
  <2>4. \A h \in DOMAIN D : \A i \in Sources(D, h) : D[h].of[i] \notin P /\ D[h].of[i][2] <= offered'[s]
    <3>1. \A h \in DOMAIN C : \A i \in Sources(C, h) : C[h].of[i] \notin P /\ C[h].of[i][2] <= offered[s]
      BY <1>0 DEF Coding
    <3> QED BY <1>9, <1>10, <1>11, <1>12, <3>1
  <2> QED BY <1>0, <2>1, <2>2, <2>3, <2>4 DEF Coding
<1>14. Waits(s, D, P)'
  <2>1. ASSUME NEW i \in DOMAIN q PROVE Waiting(inbox[s][i], s, D, P)'
    <3>1. PICK y : y = q[i]
      OBVIOUS
    <3>2. Waiting(y, s, C, P) /\ y.src = s
      BY <1>5, <3>1 DEF Waiting
    <3>3. \A j \in DOMAIN ids : ids[j] # Id(y)
      <4> SUFFICES ASSUME NEW j \in DOMAIN gen, ids[j] = Id(y) PROVE FALSE
        BY <1>4
      <4>1. y.seq = gen[j].seq
        BY <1>4 DEF Id
      <4> QED BY <1>5, <3>1, <4>1
    <3>4. \A h \in DOMAIN D : \A j \in Sources(D, h) : D[h].of[j] # Id(y)
      BY <1>9, <1>11, <1>12, <3>2, <3>3 DEF Waiting
    <3>5. Waiting(y, s, D, P)'
      BY <3>2, <3>4 DEF Waiting
    <3>6. inbox'[s][i] = y
      BY <3>1
    <3> QED BY <3>5, <3>6 DEF Waiting
  <2>2. /\ offered'[s] <= MaxFrames /\ now' <= MaxTime /\ parity'[s] <= MaxN - K
        /\ deadline'[s] # None => deadline'[s] <= MaxTime
    BY <1>0, <1>7 DEF Waits
  <2>3. Len(pending'[s]) < K /\ DOMAIN pending'[s] = {}
    BY <1>0, <1>7
  <2>4. generation'[s] + Len(pending'[s]) + Len(inbox'[s]) <= offered'[s]
    <3> DEFINE a == Len(gen)
               b == Len(q)
               c == offered[s]
    <3>1. a \in Nat /\ b \in Nat /\ c \in Nat /\ g \in Nat /\ a >= 1 /\ g + a + b <= c
      BY <1>0, <1>5, <1>6
    <3>2. Len(pending'[s]) = 0 /\ Len(inbox'[s]) = b /\ offered'[s] = c
      BY <1>7
    <3> HIDE DEF a, b, c
    <3>3. (g + 1) + 0 + b <= c
      BY <3>1
    <3> QED BY <1>7, <3>2, <3>3
  <2>5. \A i, j \in DOMAIN inbox'[s] : inbox'[s][i].seq = inbox'[s][j].seq => i = j
    BY <1>5
  <2> QED BY <1>5, <2>1, <2>2, <2>3, <2>4, <2>5 DEF Waits
<1>15. SinkIs(s, D)'
  <2> SUFFICES ASSUME NEW j \in 1 .. Len(sink'[s])
               PROVE  LET f == sink'[s][j] IN
                        /\ f.coded = TRUE /\ f.late = FALSE /\ f.gen = generation'[s] - 1 /\ FrameIs(f, D, {})
                        /\ f.index = f.n - Len(sink'[s]) + j - 1
    BY DEF SinkIs
  <2> DEFINE f == sink'[s][j]
  <2>1. j \in 1 .. n /\ f = fs[j] /\ Len(sink'[s]) = n
    BY <1>4, <1>7
  <2>2. f.coded = TRUE /\ f.late = FALSE /\ f.gen = g /\ OfGeneration(f, ids, n) /\ f.index = j - 1
    BY <1>4, <2>1
  <2>3. f.n = n
    BY <2>2 DEF OfGeneration
  <2> HIDE DEF f
  <2>4. n - n + j - 1 = j - 1
    BY <1>4, <2>1
  <2>5. g + 1 - 1 = g
    BY <1>6
  <2>6. FrameIs(f, D, {})
    BY <1>9, <2>2 DEF FrameIs
  <2>7. f.index = f.n - Len(sink'[s]) + j - 1
    BY <2>1, <2>2, <2>3, <2>4
  <2>8. f.gen = generation'[s] - 1
    <3>1. generation'[s] = g + 1
      BY <1>7
    <3>2. generation'[s] - 1 = g
      BY <1>6, <3>1
    <3> QED BY <2>2, <3>2
  <2> QED BY <2>2, <2>6, <2>7, <2>8 DEF f
<1>16. \A h \in DOMAIN C : \A i : h < generation'[s] - 1
  <2>1. g + 1 - 1 = g
    BY <1>6
  <2> QED BY <1>7, <1>9, <2>1
<1>17. \A f : FrameIs(f, C, P) => FrameIs(f, D, P)
  BY <1>9 DEF FrameIs
<1>18. LinkIs(s, D, P)'
  <2>1. ASSUME NEW i \in DOMAIN link[s]
        PROVE  LET f == link[s][i] IN
               /\ FrameIs(f, D, P) /\ (f.coded = TRUE => f.gen < generation'[s] - 1)
               /\ (i > 1 => f.late = FALSE)
               /\ f.coded = FALSE => got[f.of[1]] = 0
    <3>1. LET f == link[s][i] IN
               /\ FrameIs(f, C, P)
               /\ (i > 1 => f.late = FALSE)
               /\ f.coded = FALSE => got[f.of[1]] = 0
      BY <1>0 DEF LinkIs
    <3>2. link[s][i].coded = TRUE => link[s][i].gen \in DOMAIN C
      BY <3>1 DEF FrameIs
    <3> QED BY <1>16, <1>17, <3>1, <3>2
  <2>2. \A i, j \in DOMAIN link[s] : i < j =>
       IF link[s][i].coded = TRUE /\ link[s][j].coded = TRUE THEN link[s][i].gen <= link[s][j].gen
       ELSE link[s][i].coded = FALSE /\ link[s][j].coded = FALSE => link[s][i].of # link[s][j].of
    BY <1>0 DEF LinkIs
  <2>3. link' = link /\ got' = got
    BY <1>0
  <2> QED BY <2>1, <2>2, <2>3 DEF LinkIs, Left
<1>19. SentIs(s, D, P)'
  <2>1. ASSUME NEW h \in DOMAIN D, NEW i \in 0 .. Len(D[h].of) - 1, Left(s, D, h, i)' PROVE D[h].of[i + 1] \in emitted
    <3>1. CASE h \in DOMAIN C
      <4>1. i \in 0 .. Len(C[h].of) - 1 /\ D[h] = C[h] /\ Generation(C[h].of, C[h].n)
        BY <1>0, <1>9, <3>1 DEF Coding
      <4>2. Left(s, C, h, i)
        <5>1. Len(sink[s]) = 0
          OBVIOUS
        <5> DEFINE a == Len(C[h].of)
                   b == C[h].n
        <5>2. a \in Nat /\ b \in Nat /\ a <= b /\ i \in 0 .. a - 1
          BY <4>1 DEF Generation
        <5> HIDE DEF a, b
        <5>3. i < b - 0
          BY <5>2
        <5> QED BY <5>1, <5>3 DEF Left, b
      <4> QED BY <1>0, <3>1, <4>1, <4>2 DEF SentIs
    <3>2. CASE h = g
      <4>1. ~(g < g + 1 - 1) /\ ~(i < n - n)
        <5>1. i \in 0 .. Len(gen) - 1
          BY <1>4, <1>9, <3>2
        <5> QED BY <1>4, <1>5, <1>6, <5>1
      <4>2. g < g + 1 - 1 \/ i < n - n
        BY <1>4, <1>7, <1>9, <2>1, <3>2 DEF Left
      <4> QED BY <4>1, <4>2
    <3> QED BY <1>9, <3>1, <3>2
  <2>2. ASSUME NEW x \in heard PROVE \E e \in DOMAIN D : \E i \in 0 .. D[e].n - 1 : x = <<D[e].of, i>> /\ Left(s, D, e, i)'
    <3>1. PICK e \in DOMAIN C : \E i \in 0 .. C[e].n - 1 : x = <<C[e].of, i>>
      BY <1>0 DEF SentIs
    <3>2. PICK i \in 0 .. C[e].n - 1 : x = <<C[e].of, i>>
      BY <3>1
    <3>3. e \in DOMAIN D /\ D[e] = C[e] /\ Left(s, D, e, i)'
      BY <1>9, <1>16 DEF Left
    <3> QED BY <3>2, <3>3
  <2>3. P \subseteq emitted /\ emitted' = emitted /\ heard' = heard
    BY <1>0 DEF SentIs
  <2> QED BY <2>1, <2>2, <2>3 DEF SentIs
<1>20. \A h \in DOMAIN D : HeardOf(D, h)' = HeardOf(D, h)
  BY <1>0 DEF HeardOf
<1>21. Decoded(s, D)'
  <2>1. ASSUME NEW h \in DOMAIN C, Held(gens[h], C, h) PROVE Held(gens[h], D, h)'
    <3>1. HeardOf(D, h)' = HeardOf(C, h) /\ D[h] = C[h] /\ gens' = gens /\ got' = got
      BY <1>0, <1>9, <1>11, <1>20
    <3>2. Rowed(gens'[h], D[h].of, D[h].n, HeardOf(D, h)')
      BY <2>1, <3>1 DEF Held
    <3>3. \A i \in 0 .. Len(D[h].of) - 1 : got'[D[h].of[i + 1]] = IF i \in gens'[h].delivered THEN 1 ELSE 0
      BY <2>1, <3>1 DEF Held
    <3> QED BY <3>2, <3>3 DEF Held
  <2>2. ASSUME NEW h \in DOMAIN C, Untouched(C, h) PROVE Untouched(D, h)'
    <3>1. HeardOf(D, h)' = HeardOf(C, h) /\ D[h] = C[h] /\ got' = got /\ Sources(D, h) = Sources(C, h)
      BY <1>0, <1>9, <1>11, <1>20
    <3> QED BY <2>2, <3>1 DEF Untouched
  <2>3. ASSUME NEW h \in DOMAIN C, Over(s, C, h) PROVE Over(s, D, h)'
    <3>1. HeardOf(D, h)' = HeardOf(C, h) /\ D[h] = C[h] /\ got' = got /\ Sources(D, h) = Sources(C, h) /\ link' = link
      BY <1>0, <1>9, <1>11, <1>20
    <3>2. h # generation'[s] - 1
      <4>1. g + 1 - 1 = g
        BY <1>6
      <4> QED BY <1>7, <1>9, <4>1
    <3> QED BY <2>3, <3>1, <3>2 DEF Over
  <2>4. Untouched(D, g)'
    <3>1. HeardOf(D, g) = {}
      <4> SUFFICES ASSUME NEW i \in HeardOf(D, g) PROVE FALSE
        OBVIOUS
      <4>1. <<ids, i>> \in heard
        BY <1>9 DEF HeardOf
      <4>2. PICK e \in DOMAIN C : ids = C[e].of
        BY <1>0, <4>1 DEF SentIs
      <4>3. 1 \in DOMAIN ids
        BY <1>4 DEF Generation
      <4> QED BY <1>10, <4>2, <4>3 DEF Sources
    <3>2. ASSUME NEW j \in DOMAIN ids PROVE got[ids[j]] = 0
      <4>1. got[ids[j]] \in {0, 1}
        BY <1>0, <1>10 DEF GotIs
      <4>2. got[ids[j]] # 1
        BY <1>0, <1>10 DEF GotIs
      <4> QED BY <4>1, <4>2
    <3>3. HeardOf(D, g)' = {} /\ got' = got
      BY <1>0, <1>9, <1>20, <3>1
    <3> QED BY <1>9, <1>12, <3>2, <3>3 DEF Untouched
  <2>5. DOMAIN gens' = DOMAIN gens /\ DOMAIN gens \subseteq DOMAIN C
    BY <1>0 DEF Decoded
  <2>6. DOMAIN gens' \subseteq DOMAIN D /\ g \notin DOMAIN gens'
    BY <1>9, <2>5
  <2> QED BY <1>0, <1>9, <2>1, <2>2, <2>3, <2>4, <2>5, <2>6 DEF Decoded
<1>22. GotIs(s, D, P)'
  <2>1. \A id \in Ids : got[id] = 1 => id \in P \/ \E h \in DOMAIN D : \E i \in Sources(D, h) : id = D[h].of[i]
    <3> SUFFICES ASSUME NEW id \in Ids, got[id] = 1, id \notin P PROVE \E h \in DOMAIN D : \E i \in Sources(D, h) : id = D[h].of[i]
      OBVIOUS
    <3>1. PICK h \in DOMAIN C : \E i \in Sources(C, h) : id = C[h].of[i]
      BY <1>0 DEF GotIs
    <3> QED BY <1>9, <1>11, <3>1
  <2> QED BY <1>0, <2>1 DEF GotIs
<1>23. InOrder(s)'
  BY <1>0 DEF InOrder
<1>24. FecInv(s, D, P)'
  BY <1>13, <1>14, <1>15, <1>18, <1>19, <1>21, <1>22, <1>23 DEF FecInv
<1> QED BY <1>24

(* A frame joins the generation that fills, and completes it or not.            *)
LEMMA BufferedFrame ==
  ASSUME FecAssumption, MaxFrames < GenSpace, NEW s \in Tx, NEW C, NEW P, WindowInv, ParityInv, FecInv(s, C, P),
         sink[s] = << >>, NEW gen, NEW q, Ready(gen, q, s, C, P), inbox'[s] = q,
         NEW r \in Nat, r <= MaxN - K, parity'[s] <= MaxN - K, NEW due \in Nat, due <= MaxTime,
         Buffer(s, gen, r, due),
         UNCHANGED <<now, offered, link, rxVars, emitted>>
  PROVE  \E D : FecInv(s, D, P)'
<1>1. CASE Len(gen) >= K
  <2>1. Flush(s, gen, r)
    BY <1>1 DEF Buffer
  <2> QED BY <2>1, FlushedGeneration
<1>2. CASE ~(Len(gen) >= K)
  <2>0. /\ Coding(s, C, P) /\ Waits(s, C, P) /\ SinkIs(s, C) /\ LinkIs(s, C, P)
        /\ SentIs(s, C, P) /\ Decoded(s, C) /\ GotIs(s, C, P) /\ InOrder(s)
        /\ UNCHANGED <<gens, order, got, invented, heard, emitted>>
    BY DEF FecInv, rxVars
  <2>1. /\ pending'[s] = gen /\ deadline'[s] = due /\ UNCHANGED <<generation, sink>>
    BY <1>2 DEF Buffer, WindowInv, WindowTypes
  <2>2. /\ gen \in Seq(Payload) /\ q \in Seq(Payload) /\ Len(gen) \in Nat /\ K \in Nat
        /\ \A i \in DOMAIN q : Waiting(q[i], s, C, P) /\ now + Window < MaxTime
        /\ \A i \in DOMAIN gen : Waiting(gen[i], s, C, P)
        /\ \A i, j \in DOMAIN q : q[i].seq = q[j].seq => i = j
        /\ \A i, j \in DOMAIN gen : gen[i].seq = gen[j].seq => i = j
        /\ \A i \in DOMAIN q, j \in DOMAIN gen : q[i].seq # gen[j].seq
        /\ generation[s] + Len(gen) + Len(q) <= offered[s]
    BY FecAssumption DEF Ready
  <2>3. Coding(s, C, P)'
    BY <2>0, <2>1 DEF Coding
  <2>4. ASSUME NEW y, Waiting(y, s, C, P) PROVE Waiting(y, s, C, P)'
    BY <2>4 DEF Waiting
  <2>5. ASSUME NEW i \in DOMAIN q PROVE Waiting(inbox[s][i], s, C, P)'
    <3>1. PICK y : y = q[i]
      OBVIOUS
    <3>2. Waiting(y, s, C, P)'
      BY <2>2, <2>4, <3>1
    <3>3. inbox'[s][i] = y
      BY <3>1
    <3> QED BY <3>2, <3>3 DEF Waiting
  <2>6. ASSUME NEW i \in DOMAIN gen PROVE Waiting(pending[s][i], s, C, P)'
    <3>1. PICK y : y = gen[i]
      OBVIOUS
    <3>2. Waiting(y, s, C, P)'
      BY <2>2, <2>4, <3>1
    <3>3. pending'[s][i] = y
      BY <2>1, <3>1
    <3> QED BY <3>2, <3>3 DEF Waiting
  <2>7. /\ offered'[s] <= MaxFrames /\ now' <= MaxTime /\ parity'[s] <= MaxN - K
        /\ deadline'[s] # None => deadline'[s] <= MaxTime
    BY <2>0, <2>1 DEF Waits
  <2>8. Len(pending'[s]) < K
    BY <1>2, <2>1, <2>2
  <2>9. generation'[s] + Len(pending'[s]) + Len(inbox'[s]) <= offered'[s]
    BY <2>1, <2>2
  <2>10. Waits(s, C, P)'
    <3>1. /\ \A i, j \in DOMAIN inbox'[s] : inbox'[s][i].seq = inbox'[s][j].seq => i = j
          /\ \A i, j \in DOMAIN pending'[s] : pending'[s][i].seq = pending'[s][j].seq => i = j
          /\ \A i \in DOMAIN inbox'[s], j \in DOMAIN pending'[s] : inbox'[s][i].seq # pending'[s][j].seq
      BY <2>1, <2>2
    <3>2. \A i \in DOMAIN inbox'[s] : Waiting(inbox[s][i], s, C, P)' /\ now' + Window < MaxTime
      BY <2>2, <2>5
    <3>3. \A i \in DOMAIN pending'[s] : Waiting(pending[s][i], s, C, P)'
      BY <2>1, <2>6
    <3> QED BY <2>7, <2>8, <2>9, <3>1, <3>2, <3>3 DEF Waits
  <2>11. /\ SinkIs(s, C)' /\ LinkIs(s, C, P)' /\ SentIs(s, C, P)' /\ Decoded(s, C)' /\ GotIs(s, C, P)' /\ InOrder(s)'
    BY <2>0, <2>1, RestKeeps
  <2>12. FecInv(s, C, P)'
    BY <2>3, <2>10, <2>11 DEF FecInv
  <2> QED BY <2>12
<1> QED BY <1>1, <1>2

(* The parity adopted leaves room for the source frames. *)
LEMMA AdoptedBound ==
  ASSUME FecAssumption, NEW r \in Nat
  PROVE  Adopted(r) \in Nat /\ Adopted(r) <= MaxN - K
<1>1. MaxN \in Nat /\ K \in Nat /\ K < MaxN
  BY FecAssumption
<1> QED BY <1>1 DEF Adopted

(* A step of the batching task. *)
LEMMA BatchedFrame ==
  ASSUME FecAssumption, MaxFrames < GenSpace, NEW s \in Tx, NEW C, NEW P, WindowInv, ParityInv, FecInv(s, C, P),
         Open(s) \/ Fill(s) \/ TailFlush(s)
  PROVE  \E D : FecInv(s, D, P)'
<1>0. /\ Waits(s, C, P) /\ InWindow(s)
      /\ inbox[s] \in Seq(Payload) /\ pending[s] \in Seq(Payload) /\ parity[s] \in Nat /\ deadline[s] \in Nat \cup {None}
      /\ OpenersParity(s) /\ now \in Nat /\ Window \in Nat /\ MaxTime \in Nat
  BY FecAssumption DEF FecInv, WindowInv, WindowTypes, ParityInv
<1>1. CASE Open(s) \/ Fill(s)
  <2>1. Takes(s)
    BY <1>1 DEF Open, Fill
  <2>2. /\ sink[s] = << >> /\ inbox[s] # << >> /\ inbox' = [inbox EXCEPT ![s] = Tail(@)]
        /\ UNCHANGED <<now, offered, link, rxVars, emitted>>
    BY <2>1 DEF Takes
  <2>3. inbox'[s] = Tail(inbox[s])
    BY <2>2 DEF WindowInv, WindowTypes
  <2>4. PICK gen : gen = Append(pending[s], Head(inbox[s]))
    OBVIOUS
  <2>5. PICK q : q = Tail(inbox[s])
    OBVIOUS
  <2>6. Ready(gen, q, s, C, P) /\ now + Window < MaxTime
    BY <1>0, <2>2, <2>4, <2>5, TakenIsReady
  <2>7. CASE Open(s)
    <3>1. pending[s] = << >>
      BY <1>0, <2>7 DEF InWindow, Open
    <3>2. PICK r : r = Adopted(Head(inbox[s]).asked)
      OBVIOUS
    <3>3. PICK due : due = now + Window
      OBVIOUS
    <3>4. gen = <<Head(inbox[s])>>
      BY <2>4, <3>1
    <3>5. parity' = [parity EXCEPT ![s] = r] /\ Buffer(s, gen, r, due)
      BY <2>7, <3>2, <3>3, <3>4 DEF Open
    <3>6. r \in Nat /\ r <= MaxN - K
      <4>1. Head(inbox[s]) \in Payload
        BY <1>0, <2>2
      <4>2. Head(inbox[s]).asked \in Nat
        BY <4>1 DEF Payload
      <4> QED BY <3>2, <4>2, AdoptedBound
    <3>7. parity'[s] = r
      BY <3>5 DEF ParityInv
    <3>8. due \in Nat /\ due <= MaxTime
      BY <1>0, <2>6, <3>3
    <3> QED BY <2>2, <2>3, <2>5, <2>6, <3>5, <3>6, <3>7, <3>8, BufferedFrame
  <2>8. CASE Fill(s)
    <3>1. PICK r : r = parity[s]
      OBVIOUS
    <3>2. PICK due : due = deadline[s]
      OBVIOUS
    <3>3. Buffer(s, gen, r, due) /\ parity' = parity /\ deadline[s] # None
      BY <2>4, <2>8, <3>1, <3>2 DEF Fill
    <3>4. due \in Nat /\ due <= MaxTime /\ r \in Nat /\ r <= MaxN - K /\ parity'[s] <= MaxN - K
      BY <1>0, <3>1, <3>2, <3>3 DEF Waits
    <3> QED BY <2>2, <2>3, <2>5, <2>6, <3>3, <3>4, BufferedFrame
  <2> QED BY <1>1, <2>7, <2>8
<1>2. CASE TailFlush(s)
  <2>1. /\ sink[s] = << >> /\ deadline[s] # None /\ inbox[s] = << >> /\ Flush(s, pending[s], parity[s])
        /\ UNCHANGED <<now, offered, inbox, parity, link, rxVars, emitted>>
    BY <1>2 DEF TailFlush
  <2>2. PICK gen : gen = pending[s]
    OBVIOUS
  <2>3. PICK q : q = inbox[s]
    OBVIOUS
  <2>4. PICK r : r = parity[s]
    OBVIOUS
  <2>5. Ready(gen, q, s, C, P)
    <3>1. gen \in Seq(Payload) /\ q \in Seq(Payload)
      BY <1>0, <2>2, <2>3
    <3>2. Len(gen) >= 1 /\ Len(gen) <= K
      <4>1. pending[s] # << >> /\ Len(pending[s]) < K /\ K \in Nat
        BY <1>0, <2>1, FecAssumption DEF OpenersParity, Waits
      <4> QED BY <2>2, <3>1, <4>1
    <3>3. /\ \A i \in DOMAIN q : Waiting(q[i], s, C, P) /\ now + Window < MaxTime
          /\ \A i \in DOMAIN gen : Waiting(gen[i], s, C, P)
          /\ \A i, j \in DOMAIN q : q[i].seq = q[j].seq => i = j
          /\ \A i, j \in DOMAIN gen : gen[i].seq = gen[j].seq => i = j
          /\ \A i \in DOMAIN q, j \in DOMAIN gen : q[i].seq # gen[j].seq
          /\ generation[s] + Len(gen) + Len(q) <= offered[s]
      BY <1>0, <2>2, <2>3 DEF Waits
    <3> QED BY <3>1, <3>2, <3>3 DEF Ready
  <2>6. Flush(s, gen, r) /\ inbox'[s] = q
    BY <2>1, <2>2, <2>3, <2>4
  <2>7. r \in Nat /\ r <= MaxN - K /\ parity'[s] <= MaxN - K
    BY <1>0, <2>1, <2>4 DEF Waits
  <2>8. UNCHANGED <<now, offered, link, rxVars, emitted>>
    BY <2>1
  <2> QED BY <2>1, <2>5, <2>6, <2>7, <2>8, FlushedGeneration
<1> QED BY <1>1, <1>2

(* The sink injects the next row of the generation. *)
LEMMA EmittedFrame ==
  ASSUME FecAssumption, NEW s \in Tx, NEW C, NEW P, WindowInv, ParityInv, FecInv(s, C, P), Emit(s)
  PROVE  FecInv(s, C, P)'
<1>0. /\ Coding(s, C, P) /\ Waits(s, C, P) /\ SinkIs(s, C) /\ LinkIs(s, C, P)
      /\ SentIs(s, C, P) /\ Decoded(s, C) /\ GotIs(s, C, P) /\ InOrder(s)
      /\ link[s] \in Seq(AskedFrame) /\ sink[s] \in Seq(AskedFrame) /\ sink[s] # << >> /\ generation[s] \in Nat
  BY DEF FecInv, ParityInv, Emit
<1> DEFINE f == Head(sink[s])
           t == Tail(sink[s])
           m == Len(sink[s])
           g == f.gen
<1>1. /\ link'[s] = Append(link[s], f) /\ sink'[s] = t
      /\ emitted' = emitted \cup (IF f.index < f.k THEN {f.of[f.index + 1]} ELSE {})
      /\ UNCHANGED <<now, offered, inbox, pending, deadline, parity, generation, gens, order, got, invented, heard>>
  BY DEF Emit, ParityInv, rxVars
<1>2. /\ f = sink[s][1] /\ f \in AskedFrame /\ t \in Seq(AskedFrame) /\ m \in Nat /\ m >= 1 /\ Len(t) = m - 1
      /\ \A j \in 1 .. m - 1 : t[j] = sink[s][j + 1] /\ j + 1 \in 1 .. m
  <2>1. /\ f = sink[s][1] /\ f \in AskedFrame /\ t \in Seq(AskedFrame) /\ m \in Nat /\ m >= 1
        /\ DOMAIN sink[s] = 1 .. m /\ Len(t) = m - 1 /\ DOMAIN t = 1 .. m - 1
        /\ \A i \in DOMAIN t : i + 1 \in DOMAIN sink[s] /\ i + 1 # 1 /\ t[i] = sink[s][i + 1]
    BY <1>0, TailIs
  <2> QED BY <2>1
<1> HIDE DEF t, m, f
<1>3. /\ f.coded = TRUE /\ f.late = FALSE /\ g = generation[s] - 1 /\ FrameIs(f, C, {}) /\ f.index = f.n - m
  <2>1. 1 \in 1 .. m
    BY <1>2
  <2>2. f.coded = TRUE /\ f.late = FALSE /\ f.gen = generation[s] - 1 /\ FrameIs(f, C, {}) /\ f.index = f.n - m + 1 - 1
    BY <1>0, <1>2, <2>1 DEF SinkIs, m
  <2>3. f.n \in Int
    BY <1>0, <2>2 DEF FrameIs, OfGeneration, Coding, Generation
  <2>4. f.n - m + 1 - 1 = f.n - m
    BY <1>2, <2>3
  <2> QED BY <2>2, <2>4
<1>4. /\ g \in DOMAIN C /\ OfGeneration(f, C[g].of, C[g].n) /\ Generation(C[g].of, C[g].n)
      /\ f.of = C[g].of /\ f.k = Len(C[g].of) /\ f.n = C[g].n /\ C[g].n \in Nat /\ f.index = C[g].n - m
      /\ f.index \in 0 .. C[g].n - 1
  BY <1>0, <1>3 DEF FrameIs, Coding, OfGeneration, Generation
<1>5. \A h \in DOMAIN C : h \in Nat /\ h <= g
  BY <1>0, <1>3 DEF Coding

(* What has left is now this row too. *)
<1>6. \A h \in DOMAIN C : \A i \in Int : Left(s, C, h, i)' <=> Left(s, C, h, i) \/ (h = g /\ i = f.index)
  <2> SUFFICES ASSUME NEW h \in DOMAIN C, NEW i \in Int
               PROVE  Left(s, C, h, i)' <=> Left(s, C, h, i) \/ (h = g /\ i = f.index)
    OBVIOUS
  <2>1. Left(s, C, h, i)' <=> (h < generation[s] - 1 \/ i < C[h].n - (m - 1))
    BY <1>1, <1>2 DEF Left
  <2>2. Left(s, C, h, i) <=> (h < generation[s] - 1 \/ i < C[h].n - m)
    BY DEF Left, m
  <2>3. CASE h = g
    <3> DEFINE n == C[g].n
               x == f.index
    <3>1. n \in Nat /\ m \in Nat /\ x = n - m
      BY <1>2, <1>4
    <3> HIDE DEF n, x
    <3>2. i < n - (m - 1) <=> (i < n - m \/ i = x)
      BY <3>1
    <3> QED BY <2>1, <2>2, <2>3, <3>2 DEF n, x
  <2>4. CASE h # g
    <3>1. h < generation[s] - 1
      <4>1. h \in Nat /\ h <= g /\ g \in Nat
        BY <1>4, <1>5
      <4>2. h < g
        <5> HIDE DEF g
        <5> QED BY <2>4, <4>1
      <4> QED BY <1>3, <4>2
    <3> QED BY <2>1, <2>2, <2>4, <3>1
  <2> QED BY <2>3, <2>4
<1> DEFINE n == Len(link[s])
<1>8. /\ n \in Nat /\ DOMAIN link[s] = 1 .. n /\ DOMAIN link'[s] = 1 .. n + 1
      /\ \A i \in 1 .. n : link'[s][i] = link[s][i]
      /\ link'[s][n + 1] = f
      /\ \A i \in 1 .. n + 1 : i \in 1 .. n \/ i = n + 1
  BY <1>0, <1>1, <1>2, Appended
<1> HIDE DEF n, g
<1>9. Coding(s, C, P)'
  BY <1>0, <1>1 DEF Coding
<1>10. Waits(s, C, P)'
  BY <1>0, <1>1 DEF Waits, Waiting
<1>11. SinkIs(s, C)'
  <2> SUFFICES ASSUME NEW j \in 1 .. m - 1
               PROVE  /\ t[j].coded = TRUE /\ t[j].late = FALSE /\ t[j].gen = generation[s] - 1 /\ FrameIs(t[j], C, {})
                      /\ t[j].index = t[j].n - (m - 1) + j - 1
    BY <1>1, <1>2 DEF SinkIs
  <2> DEFINE h == t[j]
  <2>1. h = sink[s][j + 1] /\ j + 1 \in 1 .. m
    BY <1>2
  <2> HIDE DEF h
  <2>2. h.coded = TRUE /\ h.late = FALSE /\ h.gen = generation[s] - 1 /\ FrameIs(h, C, {}) /\ h.index = h.n - m + (j + 1) - 1
    BY <1>0, <2>1 DEF SinkIs, m
  <2>3. h.n \in Int
    BY <1>0, <2>2 DEF FrameIs, OfGeneration, Coding, Generation
  <2>4. h.n - m + (j + 1) - 1 = h.n - (m - 1) + j - 1
    <3>1. \A x, y, z \in Int : x - y + (z + 1) - 1 = x - (y - 1) + z - 1
      OBVIOUS
    <3>2. m \in Int /\ j \in Int
      BY <1>2
    <3> QED BY <2>3, <3>1, <3>2
  <2> QED BY <2>2, <2>4 DEF h
<1>12. LinkIs(s, C, P)'
  <2> DEFINE LeftNow(h, i) == h < generation'[s] - 1 \/ i < C[h].n - Len(sink'[s])
  <2>1. ASSUME NEW i \in 1 .. n + 1
        PROVE  LET b == link'[s][i] IN
               /\ FrameIs(b, C, P) /\ (b.coded = TRUE => LeftNow(b.gen, b.index))
               /\ (i > 1 => b.late = FALSE)
               /\ b.coded = FALSE => got'[b.of[1]] = 0
    <3>1. CASE i \in 1 .. n
      <4> DEFINE b == link[s][i]
      <4>1. /\ FrameIs(b, C, P) /\ (b.coded = TRUE => Left(s, C, b.gen, b.index))
            /\ (i > 1 => b.late = FALSE)
            /\ b.coded = FALSE => got[b.of[1]] = 0
        BY <1>0, <1>8, <3>1 DEF LinkIs
      <4>2. b.coded = TRUE => b.gen \in DOMAIN C /\ b.index \in Int
        BY <1>0, <4>1 DEF FrameIs, OfGeneration, Coding, Generation
      <4>3. PICK x, y : x = b.gen /\ y = b.index
        OBVIOUS
      <4>4. b.coded = TRUE => Left(s, C, x, y)'
        BY <1>6, <4>1, <4>2, <4>3
      <4>5. b.coded = TRUE => LeftNow(x, y)
        BY <4>4 DEF Left
      <4>6. link'[s][i] = b
        BY <1>8, <3>1
      <4> HIDE DEF b, LeftNow
      <4> QED BY <1>1, <4>1, <4>3, <4>5, <4>6
    <3>2. CASE i = n + 1
      <4>1. FrameIs(f, C, P)
        BY <1>3 DEF FrameIs
      <4>2. PICK x, y : x = f.gen /\ y = f.index
        OBVIOUS
      <4>3. Left(s, C, x, y)'
        BY <1>4, <1>6, <4>2 DEF g
      <4>4. LeftNow(x, y)
        BY <4>3 DEF Left
      <4> HIDE DEF LeftNow
      <4> QED BY <1>3, <1>8, <3>2, <4>1, <4>2, <4>4
    <3> QED BY <1>8, <3>1, <3>2
  <2>2. ASSUME NEW i \in 1 .. n + 1, NEW j \in 1 .. n + 1, i < j
        PROVE  IF link'[s][i].coded = TRUE /\ link'[s][j].coded = TRUE THEN link'[s][i].gen <= link'[s][j].gen
               ELSE link'[s][i].coded = FALSE /\ link'[s][j].coded = FALSE => link'[s][i].of # link'[s][j].of
    <3>0. i \in 1 .. n
      BY <1>8, <2>2
    <3>1. CASE j \in 1 .. n
      <4>1. IF link[s][i].coded = TRUE /\ link[s][j].coded = TRUE THEN link[s][i].gen <= link[s][j].gen
            ELSE link[s][i].coded = FALSE /\ link[s][j].coded = FALSE => link[s][i].of # link[s][j].of
        BY <1>0, <1>8, <2>2, <3>0, <3>1 DEF LinkIs
      <4>2. link'[s][i] = link[s][i] /\ link'[s][j] = link[s][j]
        BY <1>8, <3>0, <3>1
      <4> QED BY <4>1, <4>2
    <3>2. CASE j = n + 1
      <4>1. link'[s][j] = f /\ link'[s][i] = link[s][i]
        BY <1>8, <3>0, <3>2
      <4>2. link[s][i].coded = TRUE => link[s][i].gen \in DOMAIN C
        BY <1>0, <1>8, <3>0 DEF LinkIs, FrameIs
      <4> QED BY <1>3, <1>5, <4>1, <4>2 DEF g
    <3> QED BY <1>8, <3>1, <3>2
  <2> QED BY <1>8, <2>1, <2>2 DEF LinkIs, Left
<1>13. SentIs(s, C, P)'
  <2>1. ASSUME NEW h \in DOMAIN C, NEW i \in 0 .. Len(C[h].of) - 1, Left(s, C, h, i)' PROVE C[h].of[i + 1] \in emitted'
    <3>0. i \in Int /\ Len(C[h].of) \in Nat /\ i < Len(C[h].of)
      BY <1>0 DEF Coding, Generation
    <3>1. CASE Left(s, C, h, i)
      BY <1>0, <1>1, <3>1 DEF SentIs
    <3>2. CASE h = g /\ i = f.index
      <4>1. f.index < f.k /\ f.of[f.index + 1] = C[h].of[i + 1]
        BY <1>4, <3>0, <3>2
      <4> QED BY <1>1, <4>1
    <3> QED BY <1>6, <2>1, <3>0, <3>1, <3>2
  <2>2. ASSUME NEW x \in heard PROVE \E e \in DOMAIN C : \E i \in 0 .. C[e].n - 1 : x = <<C[e].of, i>> /\ Left(s, C, e, i)'
    <3>1. PICK e \in DOMAIN C : \E i \in 0 .. C[e].n - 1 : x = <<C[e].of, i>> /\ Left(s, C, e, i)
      BY <1>0 DEF SentIs
    <3>2. PICK i \in 0 .. C[e].n - 1 : x = <<C[e].of, i>> /\ Left(s, C, e, i)
      BY <3>1
    <3>3. i \in Int
      BY <1>0 DEF Coding, Generation
    <3> QED BY <1>6, <3>2, <3>3
  <2>3. P \subseteq emitted' /\ heard' = heard
    BY <1>0, <1>1 DEF SentIs
  <2> QED BY <2>1, <2>2, <2>3 DEF SentIs
<1>14. GotIs(s, C, P)'
  BY <1>0, <1>1 DEF GotIs
<1>15. Decoded(s, C)'
  <2>0. \A e \in DOMAIN C : HeardOf(C, e)' = HeardOf(C, e) /\ Generation(C[e].of, C[e].n)
    BY <1>0, <1>1 DEF HeardOf, Coding
  <2>1. ASSUME NEW e \in DOMAIN C, Held(gens[e], C, e) PROVE Held(gens[e], C, e)'
    BY <1>1, <2>0, <2>1, HeldKeeps
  <2>2. ASSUME NEW e \in DOMAIN C, Untouched(C, e) PROVE Untouched(C, e)'
    BY <1>1, <2>0, <2>2 DEF Untouched
  <2>3. ASSUME NEW e \in DOMAIN C, Over(s, C, e) PROVE Over(s, C, e)'
    <3>1. e # g
      BY <1>0, <1>3, <2>3 DEF Over
    <3>2. \A i \in DOMAIN link'[s] : link'[s][i].coded = TRUE => link'[s][i].gen # e
      BY <1>8, <2>3, <3>1 DEF Over, g
    <3>3. e # generation'[s] - 1
      BY <1>1, <1>3, <3>1
    <3> QED BY <1>1, <2>0, <2>3, <3>2, <3>3 DEF Over
  <2>4. DOMAIN gens' = DOMAIN gens
    BY <1>1
  <2> QED BY <1>0, <2>1, <2>2, <2>3, <2>4 DEF Decoded
<1>16. InOrder(s)'
  <2>1. ASSUME NEW i \in DOMAIN link'[s], link'[s][i].coded = TRUE
        PROVE  IF link'[s][i].late = TRUE
               THEN \A j \in DOMAIN order : order[j] > link'[s][i].gen => j = Len(order) /\ Cap >= 2
               ELSE \A h \in DOMAIN gens : h <= link'[s][i].gen
    <3>1. CASE i \in 1 .. n
      BY <1>0, <1>8, <2>1, <3>1 DEF InOrder
    <3>2. CASE i = n + 1
      <4>1. \A h \in DOMAIN gens : h <= f.gen
        BY <1>0, <1>5 DEF Decoded, g
      <4> QED BY <1>3, <1>8, <3>2, <4>1
    <3> QED BY <1>8, <3>1, <3>2
  <2> QED BY <1>0, <1>1, <2>1 DEF InOrder
<1> QED BY <1>9, <1>10, <1>11, <1>12, <1>13, <1>14, <1>15, <1>16 DEF FecInv

(* Time passes, or nothing does. *)
LEMMA PassedTime ==
  ASSUME FecAssumption, NEW s \in Tx, NEW C, NEW P, WindowInv, FecInv(s, C, P), Tick \/ UNCHANGED vars
  PROVE  FecInv(s, C, P)'
<1>0. /\ Coding(s, C, P) /\ Waits(s, C, P) /\ SinkIs(s, C) /\ LinkIs(s, C, P)
      /\ SentIs(s, C, P) /\ Decoded(s, C) /\ GotIs(s, C, P) /\ InOrder(s)
      /\ now \in Nat /\ MaxTime \in Nat
  BY FecAssumption DEF FecInv, WindowInv, WindowTypes
<1>1. /\ UNCHANGED <<offered, inbox, pending, deadline, parity, generation, sink, emitted, link, gens, order, got, invented, heard>>
      /\ now' = now \/ (now < MaxTime /\ now' = now + 1 /\ inbox[s] = << >>)
  BY DEF Tick, vars, txVars, taskVars, rxVars
<1>2. Coding(s, C, P)'
  BY <1>0, <1>1 DEF Coding
<1>3. now' <= MaxTime
  BY <1>0, <1>1 DEF Waits
<1>4. \A i \in DOMAIN inbox[s] : now' + Window < MaxTime
  <2>1. CASE now' = now
    BY <1>0, <2>1 DEF Waits
  <2>2. CASE inbox[s] = << >>
    BY <2>2
  <2> QED BY <1>1, <2>1, <2>2
<1>5. Waits(s, C, P)'
  BY <1>0, <1>1, <1>3, <1>4 DEF Waits, Waiting
<1>6. /\ SinkIs(s, C)' /\ LinkIs(s, C, P)' /\ SentIs(s, C, P)' /\ Decoded(s, C)' /\ GotIs(s, C, P)' /\ InOrder(s)'
  BY <1>0, <1>1, RestKeeps
<1> QED BY <1>2, <1>5, <1>6 DEF FecInv

(***************************************************************************)
(* There is a history of the generations made and of the frames sent plain *)
(* that the sender, the link and the decoder agree with.                   *)
(***************************************************************************)
FecHolds(s) == \E C, P : FecInv(s, C, P)

(* No step of the one sender, of the link or of the receiver breaks that. *)
LEMMA FecStep ==
  ASSUME FecAssumption, MaxFrames < GenSpace, NEW s, Tx = {s}, WindowInv, ParityInv, FecHolds(s), [Next]_vars
  PROVE  FecHolds(s)'
<1>0. s \in Tx
  OBVIOUS
<1>1. PICK C, P : FecInv(s, C, P)
  BY DEF FecHolds
<1>2. ASSUME NEW r \in Parities, Offer(s, r) PROVE FecHolds(s)'
  <2>1. CASE r = 0
    <3>1. Offer(s, 0)
      BY <1>2, <2>1
    <3> QED BY <1>0, <1>1, <3>1, OfferedPlain DEF FecHolds
  <2>2. CASE r # 0
    <3>1. FecInv(s, C, P)'
      BY <1>0, <1>1, <1>2, <2>2, OfferedCoded
    <3> QED BY <3>1 DEF FecHolds
  <2> QED BY <2>1, <2>2
<1>3. CASE Open(s) \/ Fill(s) \/ TailFlush(s)
  BY <1>0, <1>1, <1>3, BatchedFrame DEF FecHolds
<1>4. CASE Emit(s)
  <2>1. FecInv(s, C, P)'
    BY <1>0, <1>1, <1>4, EmittedFrame
  <2> QED BY <2>1 DEF FecHolds
<1>5. CASE Receive(s) \/ Overtake(s)
  <2>1. FecInv(s, C, P)'
    BY <1>0, <1>1, <1>5, ReceivedFrame
  <2> QED BY <2>1 DEF FecHolds
<1>6. CASE Lose(s)
  <2>1. FecInv(s, C, P)'
    BY <1>0, <1>1, <1>6, LostFrame
  <2> QED BY <2>1 DEF FecHolds
<1>7. CASE Tick \/ UNCHANGED vars
  <2>1. FecInv(s, C, P)'
    BY <1>0, <1>1, <1>7, PassedTime
  <2> QED BY <2>1 DEF FecHolds
<1>8. Quiet => UNCHANGED vars
  BY DEF Quiet
<1> QED BY <1>2, <1>3, <1>4, <1>5, <1>6, <1>7, <1>8 DEF Next

(* At the start nothing has been made and nothing sent. *)
LEMMA FecStart ==
  ASSUME FecAssumption, NEW s \in Tx, Init
  PROVE  FecHolds(s)
<1>0. /\ now = 0 /\ offered[s] = 0 /\ inbox[s] = << >> /\ pending[s] = << >> /\ deadline[s] = None /\ parity[s] = 0
      /\ generation[s] = 0 /\ sink[s] = << >> /\ link[s] = << >> /\ gens = << >> /\ order = << >>
      /\ got = [id \in Ids |-> 0] /\ invented = FALSE /\ heard = {} /\ emitted = {}
  BY DEF Init
<1>1. /\ K \in Nat /\ K >= 1 /\ MaxN \in Nat /\ K < MaxN /\ MaxFrames \in Nat /\ MaxTime \in Nat /\ Cap \in Nat
      /\ Len(<< >>) = 0 /\ DOMAIN << >> = {} /\ << >> \in Seq(Nat) /\ 0 .. 0 - 1 = {} /\ 1 .. 0 = {}
  BY FecAssumption
<1>2. PICK C, P : C = [g \in {} |-> 0] /\ P = {}
  OBVIOUS
<1>3. DOMAIN C = {} /\ P = {}
  BY <1>2
<1>4. Coding(s, C, P)
  BY <1>0, <1>1, <1>3 DEF Coding
<1>5. Waits(s, C, P)
  BY <1>0, <1>1 DEF Waits
<1>6. SinkIs(s, C) /\ LinkIs(s, C, P)
  BY <1>0, <1>1 DEF SinkIs, LinkIs
<1>7. SentIs(s, C, P)
  BY <1>0, <1>3 DEF SentIs
<1>8. Decoded(s, C)
  BY <1>0, <1>1, <1>3 DEF Decoded
<1>9. GotIs(s, C, P)
  BY <1>0 DEF GotIs
<1>10. InOrder(s)
  <2>1. ToSet(order) = {}
    BY <1>0, <1>1 DEF ToSet
  <2> QED BY <1>0, <1>1, <2>1 DEF InOrder
<1> QED BY <1>4, <1>5, <1>6, <1>7, <1>8, <1>9, <1>10 DEF FecInv, FecHolds

(* What the decoder has heard of a generation, counted in either way. *)
LEMMA HeardCounts ==
  ASSUME NEW s, NEW C, NEW P, Coding(s, C, P), SentIs(s, C, P), NEW g \in DOMAIN C
  PROVE  Cardinality({h \in heard : h[1] = C[g].of}) = Cardinality(HeardOf(C, g))
<1> DEFINE gen == C[g].of
           A == {h \in heard : h[1] = gen}
           B == HeardOf(C, g)
           f == [i \in B |-> <<gen, i>>]
<1>1. \A i \in B : <<gen, i>> \in A
  BY DEF HeardOf
<1>2. ASSUME NEW h \in A PROVE \E i \in B : h = <<gen, i>>
  <2>1. PICK e \in DOMAIN C : \E i \in 0 .. C[e].n - 1 : h = <<C[e].of, i>> /\ Left(s, C, e, i)
    BY DEF SentIs
  <2>2. PICK i \in 0 .. C[e].n - 1 : h = <<C[e].of, i>>
    BY <2>1
  <2>3. C[e].of = C[g].of
    BY <2>2
  <2>4. e = g
    BY <2>3, OneGeneration
  <2> QED BY <2>2, <2>4 DEF HeardOf
<1>3. \A i, j \in B : <<gen, i>> = <<gen, j>> => i = j
  OBVIOUS
<1>4. IsFiniteSet(B)
  <2>1. C[g].n \in Nat
    BY DEF Coding, Generation
  <2>2. IsFiniteSet(0 .. C[g].n - 1) /\ B \subseteq 0 .. C[g].n - 1
    BY <2>1, FS_Interval DEF HeardOf
  <2> QED BY <2>2, FS_Subset
<1> HIDE DEF A, B, gen
<1>5. f \in Bijection(B, A)
  BY <1>1, <1>2, <1>3 DEF Bijection, Injection, IsInjective, Surjection
<1>6. Cardinality(A) = Cardinality(B)
  <2>1. ExistsBijection(B, A)
    BY <1>5 DEF ExistsBijection
  <2> QED BY <1>4, <2>1, FS_Bijection
<1> QED BY <1>6 DEF A, B, gen

(* What is known of a generation of which something has been heard. *)
LEMMA HeardSettles ==
  ASSUME NEW s, NEW C, NEW P, Coding(s, C, P), Decoded(s, C), NEW g \in DOMAIN C, NEW x \in HeardOf(C, g)
  PROVE  /\ Cardinality(HeardOf(C, g)) >= Len(C[g].of) => \A i \in Sources(C, g) : got[C[g].of[i]] = 1
         /\ x < Len(C[g].of) => got[C[g].of[x + 1]] = 1
<1>1. Generation(C[g].of, C[g].n)
  BY DEF Coding
<1>2. CASE g \in DOMAIN gens
  <2>1. Held(gens[g], C, g)
    BY <1>2 DEF Decoded
  <2> QED BY <1>1, <2>1, HeldSettles
<1>3. CASE g \notin DOMAIN gens
  <2>1. Over(s, C, g)
    BY <1>3 DEF Decoded, Untouched
  <2> QED BY <2>1 DEF Over
<1> QED BY <1>2, <1>3

(* The state of one sender and its receiver is what it should be. *)
LEMMA FecTypes ==
  ASSUME FecAssumption, MaxFrames < GenSpace, NEW s, Tx = {s}, WindowInv, ParityInv, FecHolds(s)
  PROVE  TypeOK
<1>0. s \in Tx
  OBVIOUS
<1>1. PICK C, P : FecInv(s, C, P)
  BY DEF FecHolds
<1>2. /\ Coding(s, C, P) /\ Waits(s, C, P) /\ Decoded(s, C) /\ GotIs(s, C, P) /\ InOrder(s)
      /\ InWindow(s) /\ OpenersParity(s)
  BY <1>0, <1>1 DEF FecInv, WindowInv, ParityInv
<1>3. /\ now \in Nat /\ offered \in [Tx -> Nat] /\ inbox[s] \in Seq(Payload) /\ pending[s] \in Seq(Payload)
      /\ deadline[s] \in Nat \cup {None} /\ parity \in [Tx -> Nat] /\ generation \in [Tx -> Nat]
      /\ MaxTime \in Nat /\ MaxFrames \in Nat /\ GenSpace \in Nat /\ K \in Nat /\ MaxN \in Nat
  BY <1>0, FecAssumption DEF WindowInv, WindowTypes, ParityInv
<1>4. /\ now <= MaxTime /\ offered[s] <= MaxFrames /\ parity[s] <= MaxN - K /\ Len(pending[s]) < K
      /\ deadline[s] # None => deadline[s] <= MaxTime
      /\ generation[s] + Len(pending[s]) + Len(inbox[s]) <= offered[s]
  BY <1>2 DEF Waits
<1>5. \A t \in Tx : t = s
  OBVIOUS
<1>6. now \in 0 .. MaxTime /\ offered \in [Tx -> 0 .. MaxFrames]
  BY <1>3, <1>4, <1>5
<1>7. parity \in [Tx -> 0 .. MaxN - K]
  <2>1. parity[s] \in 0 .. MaxN - K
    BY <1>0, <1>3, <1>4
  <2> QED BY <1>3, <1>5, <2>1
<1>8. generation[s] <= MaxFrames /\ generation[s] \in 0 .. GenSpace - 1
  <2>1. Len(pending[s]) \in Nat /\ Len(inbox[s]) \in Nat /\ generation[s] \in Nat /\ offered[s] \in Nat
    BY <1>0, <1>3
  <2> QED BY <1>3, <1>4, <2>1
<1>9. generation \in [Tx -> 0 .. GenSpace - 1]
  BY <1>3, <1>5, <1>8
<1>10. \A t \in Tx : Len(pending[t]) < K /\ deadline[t] \in {None} \cup 0 .. MaxTime
  <2>1. deadline[s] \in {None} \cup 0 .. MaxTime
    BY <1>3, <1>4
  <2> QED BY <1>4, <1>5, <2>1
<1>11. \A t \in Tx : (deadline[t] = None) = (pending[t] = << >>)
  <2>1. (deadline[s] = None) = (pending[s] = << >>)
    BY <1>2 DEF InWindow, OpenersParity
  <2> QED BY <1>5, <2>1
<1>12. DOMAIN gens \subseteq 0 .. GenSpace - 1
  <2>1. DOMAIN gens \subseteq 0 .. generation[s] - 1
    BY <1>2 DEF Decoded, Coding
  <2> QED BY <1>3, <1>8, <2>1
<1>13. ToSet(order) = DOMAIN gens /\ Len(order) = Cardinality(DOMAIN gens) /\ Cardinality(DOMAIN gens) <= Cap
  <2>1. /\ order \in Seq(Nat) /\ ToSet(order) = DOMAIN gens /\ Len(order) <= Cap
        /\ \A i, j \in DOMAIN order : order[i] = order[j] => i = j
    BY <1>2 DEF InOrder
  <2>2. Cardinality(ToSet(order)) = Len(order)
    BY <2>1, OrderCounts
  <2> QED BY <2>1, <2>2
<1>14. got \in [Ids -> Nat] /\ invented \in BOOLEAN
  <2>1. got \in [Ids -> {0, 1}] /\ invented = FALSE
    BY <1>2 DEF GotIs
  <2>2. {0, 1} \subseteq Nat
    OBVIOUS
  <2>3. got \in [Ids -> Nat]
    BY <2>1, <2>2
  <2> QED BY <2>1, <2>3
<1> QED BY <1>6, <1>7, <1>9, <1>10, <1>11, <1>12, <1>13, <1>14 DEF TypeOK

(* What has been heard has been handed up: source frames, and all after k.  *)
LEMMA FecDecodes ==
  ASSUME NEW s, FecHolds(s)
  PROVE  AnyKRecoverAll /\ ArrivedSourcesAreDelivered
<1>1. PICK C, P : FecInv(s, C, P)
  BY DEF FecHolds
<1>2. Coding(s, C, P) /\ Decoded(s, C) /\ SentIs(s, C, P)
  BY <1>1 DEF FecInv
<1>3. ASSUME NEW h \in heard
      PROVE  \E g \in DOMAIN C : h[1] = C[g].of /\ h[2] \in HeardOf(C, g)
  <2>1. PICK g \in DOMAIN C : \E i \in 0 .. C[g].n - 1 : h = <<C[g].of, i>> /\ Left(s, C, g, i)
    BY <1>2 DEF SentIs
  <2>2. PICK i \in 0 .. C[g].n - 1 : h = <<C[g].of, i>>
    BY <2>1
  <2>3. h[1] = C[g].of /\ h[2] = i
    BY <2>2
  <2> QED BY <2>2, <2>3 DEF HeardOf
<1>4. AnyKRecoverAll
  <2> SUFFICES ASSUME NEW x \in heard, NEW gen, gen = x[1],
                      Cardinality({h \in heard : h[1] = gen}) >= Len(gen)
               PROVE  \A j \in DOMAIN gen : got[gen[j]] = 1
    BY DEF AnyKRecoverAll
  <2>1. PICK g \in DOMAIN C : gen = C[g].of /\ x[2] \in HeardOf(C, g)
    BY <1>3
  <2>2. Cardinality({h \in heard : h[1] = C[g].of}) = Cardinality(HeardOf(C, g))
    BY <1>2, HeardCounts
  <2>3. Cardinality(HeardOf(C, g)) >= Len(C[g].of)
    BY <2>1, <2>2
  <2>4. \A i \in Sources(C, g) : got[C[g].of[i]] = 1
    BY <1>2, <2>1, <2>3, HeardSettles
  <2> QED BY <2>1, <2>4 DEF Sources
<1>5. ArrivedSourcesAreDelivered
  <2> SUFFICES ASSUME NEW h \in heard, h[2] < Len(h[1]) PROVE got[h[1][h[2] + 1]] >= 1
    BY DEF ArrivedSourcesAreDelivered
  <2>1. PICK g \in DOMAIN C : h[1] = C[g].of /\ h[2] \in HeardOf(C, g)
    BY <1>3
  <2>2. got[C[g].of[h[2] + 1]] = 1
    BY <1>2, <2>1, HeardSettles
  <2> QED BY <2>1, <2>2
<1> QED BY <1>4, <1>5

(***************************************************************************)
(* LinkFecRx's promise, for one sender whose generation counter does not   *)
(* turn: each payload is handed up at most once and only after it has left *)
(* its sender, and nothing is handed up that was never sent.               *)
(***************************************************************************)
THEOREM DeliveredOnce ==
  ASSUME NEW s, Tx = {s}, MaxFrames < GenSpace
  PROVE  Spec => []EachDeliveredOnce
<1>1. Init => ParityInv /\ FecHolds(s)
  <2>1. Init => ParityInv
    BY ParityStart
  <2> QED BY <2>1, FecStart, FecAssumption
<1>2. WindowInv /\ ParityInv /\ FecHolds(s) /\ [Next]_vars => ParityInv' /\ FecHolds(s)'
  BY FecStep, ParityStep, FecAssumption
<1>3. FecHolds(s) => EachDeliveredOnce
  <2> SUFFICES ASSUME FecHolds(s) PROVE EachDeliveredOnce
    OBVIOUS
  <2>1. PICK C, P : FecInv(s, C, P)
    BY DEF FecHolds
  <2>2. GotIs(s, C, P)
    BY <2>1 DEF FecInv
  <2> QED BY <2>2 DEF GotIs, EachDeliveredOnce
<1> QED BY <1>1, <1>2, <1>3, WindowInvariant, PTL DEF Spec

(***************************************************************************)
(* What the decoder promises of the frames it has absorbed, for one sender *)
(* whose generation counter does not turn: a source frame is handed up the *)
(* instant it arrives, and the whole generation with its k-th frame.       *)
(***************************************************************************)
THEOREM DecoderKeepsItsPromises ==
  ASSUME NEW s, Tx = {s}, MaxFrames < GenSpace
  PROVE  Spec => []DecoderInv
<1>1. Init => ParityInv /\ FecHolds(s)
  <2>1. Init => ParityInv
    BY ParityStart
  <2> QED BY <2>1, FecStart, FecAssumption
<1>2. WindowInv /\ ParityInv /\ FecHolds(s) /\ [Next]_vars => ParityInv' /\ FecHolds(s)'
  BY FecStep, ParityStep, FecAssumption
<1>3. WindowInv /\ ParityInv /\ FecHolds(s) => DecoderInv
  BY FecTypes, FecDecodes, FecAssumption DEF DecoderInv
<1> QED BY <1>1, <1>2, <1>3, WindowInvariant, PTL DEF Spec

=============================================================================
