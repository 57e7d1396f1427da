--------------------------- MODULE Bearers_proofs ---------------------------
(* The radio face implements the promise of RecentOnce: whatever phys a packet *)
(* takes, however often it is sent, lost, delayed or repeated, the forwarder   *)
(* of a node is given only what was sent, and a packet again only after Cap    *)
(* others.  The duplicate ring is the tail of what was given: that is the      *)
(* inductive invariant.  And a LoRa face keeps its word: what its senders push *)
(* is what its chip runs, and no frame leaves early (LfIndInv, LtIndInv).      *)
(* And the BLE bearer hands up what was sent: between what a reader has of a   *)
(* task and what the task sends next, what waits is each fragment in its turn  *)
(* (AirIndInv); and what a reader of the dongle's line holds is what is left,  *)
(* its frames taken away, of all that it has read (LineIndInv).  And the reach *)
(* strategy's memory errs on the side of forwarding: at their own time, which  *)
(* a clock set back does not take from them, the cells of a prefix cover what  *)
(* is left of its weight (MemoryIInv).                                         *)
EXTENDS RadioFace, LoraFace, Ble, ReachPrior, SequenceTheorems, FiniteSetTheorems,
        WellFoundedInduction, TLAPS

(* q is, in order, the last c elements of g, or all of them while there are   *)
(* fewer.                                                                     *)
IsTail(q, g, c) ==
  /\ Len(q) <= c /\ Len(q) <= Len(g)
  /\ Len(q) < c => Len(q) = Len(g)
  /\ \A i \in 1 .. Len(q) : q[i] = g[Len(g) - Len(q) + i]

(* The duplicate ring of n is the tail of what its forwarder was given.       *)
RingIsTheTail(n) == IsTail(ring[n], got[n], Cap)

(* Whatever is on its way to a forwarder has been put on the air.             *)
WaysAreOfTheSent ==
  /\ rfAir \in [Nodes -> [Phys -> Seq(sent)]]
  /\ rfQueue \in [Nodes -> Seq(Phys \X sent)]

OnceInv ==
  /\ DOMAIN sending = Nodes
  /\ \A n \in Nodes : "pkt" \in DOMAIN sending[n] /\ sending[n].pkt \in Packets \cup {RfNone}
  /\ sent \subseteq Wires
  /\ WaysAreOfTheSent
  /\ ring \in [Nodes -> Seq(Wires)] /\ got \in [Nodes -> Seq(Wires)]
  /\ \A n \in Nodes : RingIsTheTail(n)

---------------------------------------------------------------------------
(* A sequence over a set is one over a larger set. *)
LEMMA SeqGrows ==
  ASSUME NEW S, NEW T, S \subseteq T, NEW q \in Seq(S)
  PROVE  q \in Seq(T)
<1>1. Len(q) \in Nat /\ \A i \in 1 .. Len(q) : q[i] \in T
  OBVIOUS
<1> QED BY <1>1

(* The ways stay what they are when more has been sent. *)
LEMMA WaysGrow ==
  ASSUME WaysAreOfTheSent, sent \subseteq sent', UNCHANGED <<rfAir, rfQueue>>
  PROVE  WaysAreOfTheSent'
<1>1. ASSUME NEW n \in Nodes, NEW p \in Phys PROVE rfAir[n][p] \in Seq(sent')
  BY SeqGrows DEF WaysAreOfTheSent
<1>2. ASSUME NEW n \in Nodes PROVE rfQueue[n] \in Seq(Phys \X sent')
  <2>1. rfQueue[n] \in Seq(Phys \X sent) /\ Phys \X sent \subseteq Phys \X sent'
    BY DEF WaysAreOfTheSent
  <2> QED BY <2>1, SeqGrows
<1> QED BY <1>1, <1>2 DEF WaysAreOfTheSent

(* A ring with room takes what has been given. *)
LEMMA TailGrows ==
  ASSUME NEW g \in Seq(Wires), NEW r \in Seq(Wires), NEW x \in Wires, NEW c \in Nat,
         IsTail(r, g, c), Len(r) < c
  PROVE  IsTail(Append(r, x), Append(g, x), c)
<1>1. PICK m, k \in Nat :
        /\ Len(g) = m /\ Len(r) = k /\ k <= c /\ k <= m /\ (k < c => k = m)
        /\ \A i \in 1 .. k : r[i] = g[m - k + i]
  <2>1. Len(g) \in Nat /\ Len(r) \in Nat
    OBVIOUS
  <2> QED BY <2>1 DEF IsTail
<1> DEFINE h == Append(g, x)
           q == Append(r, x)
<1>2. Len(h) = m + 1 /\ h[m + 1] = x /\ \A i \in 1 .. m : h[i] = g[i]
  BY <1>1
<1>3. Len(q) = k + 1 /\ q[k + 1] = x /\ \A i \in 1 .. k : q[i] = r[i]
  BY <1>1
<1>4. k = m /\ k < c
  BY <1>1
<1> HIDE DEF h, q
<1>5. ASSUME NEW i \in 1 .. m + 1 PROVE q[i] = h[(m + 1) - (m + 1) + i]
  <2>1. (m + 1) - (m + 1) + i = i
    OBVIOUS
  <2>2. CASE i = m + 1
    BY <1>2, <1>3, <1>4, <2>1, <2>2
  <2>3. CASE i # m + 1
    <3>1. i \in 1 .. m /\ m - m + i = i
      BY <2>3
    <3>2. q[i] = g[i] /\ h[i] = g[i]
      BY <1>1, <1>2, <1>3, <1>4, <3>1
    <3> QED BY <2>1, <3>2
  <2> QED BY <2>2, <2>3
<1>6. Len(q) = m + 1 /\ m + 1 <= c /\ Len(h) = m + 1
  BY <1>2, <1>3, <1>4
<1>7. IsTail(q, h, c)
  BY <1>5, <1>6 DEF IsTail
<1> QED BY <1>7 DEF h, q

(* A full ring gives up its oldest entry for it. *)
LEMMA TailMoves ==
  ASSUME NEW g \in Seq(Wires), NEW r \in Seq(Wires), NEW x \in Wires, NEW c \in Nat,
         IsTail(r, g, c), Len(r) = c
  PROVE  IsTail(Tail(Append(r, x)), Append(g, x), c)
<1>1. PICK m, k \in Nat :
        /\ Len(g) = m /\ Len(r) = k /\ k <= c /\ k <= m /\ (k < c => k = m)
        /\ \A i \in 1 .. k : r[i] = g[m - k + i]
  <2>1. Len(g) \in Nat /\ Len(r) \in Nat
    OBVIOUS
  <2> QED BY <2>1 DEF IsTail
<1> DEFINE h == Append(g, x)
           a == Append(r, x)
           q == Tail(a)
<1>2. Len(h) = m + 1 /\ h[m + 1] = x /\ \A i \in 1 .. m : h[i] = g[i]
  BY <1>1
<1>3. a \in Seq(Wires) /\ Len(a) = k + 1 /\ a[k + 1] = x /\ \A i \in 1 .. k : a[i] = r[i]
  BY <1>1
<1>4. k = c
  BY <1>1
<1> HIDE DEF h, a
<1>5. Len(q) = k /\ \A i \in 1 .. k : q[i] = a[i + 1]
  <2>1. Len(a) # 0 /\ Len(<< >>) = 0
    BY <1>3
  <2>2. a # << >>
    BY <2>1
  <2> QED BY <1>3, <2>2
<1> HIDE DEF q
<1>6. ASSUME NEW i \in 1 .. k PROVE q[i] = h[(m + 1) - k + i]
  <2>1. q[i] = a[i + 1]
    BY <1>5
  <2>2. CASE i = k
    <3>1. (m + 1) - k + i = m + 1
      BY <2>2
    <3> QED BY <1>2, <1>3, <2>1, <2>2, <3>1
  <2>3. CASE i # k
    <3>1. i + 1 \in 1 .. k
      BY <2>3
    <3>2. a[i + 1] = r[i + 1] /\ r[i + 1] = g[m - k + (i + 1)]
      BY <1>1, <1>3, <3>1
    <3>3. m - k + (i + 1) \in 1 .. m
      BY <1>1, <3>1
    <3>4. h[m - k + (i + 1)] = g[m - k + (i + 1)]
      BY <1>2, <3>3
    <3>5. (m + 1) - k + i = m - k + (i + 1)
      OBVIOUS
    <3> QED BY <2>1, <3>2, <3>4, <3>5
  <2> QED BY <2>2, <2>3
<1>7. k <= m + 1
  BY <1>1
<1>8. IsTail(q, h, c)
  BY <1>2, <1>4, <1>5, <1>6, <1>7 DEF IsTail
<1> QED BY <1>8 DEF h, a, q

(* What is remembered when x has been given: the ring is the tail again. *)
LEMMA RememberedIsTheTail ==
  ASSUME NEW n \in Nodes, NEW w \in Wires, got[n] \in Seq(Wires), ring[n] \in Seq(Wires),
         RingIsTheTail(n)
  PROVE  /\ Remembered(n, w) \in Seq(Wires)
         /\ IsTail(Remembered(n, w), Append(got[n], w), Cap)
<1>0. IsTail(ring[n], got[n], Cap)
  BY DEF RingIsTheTail
<1>1. Cap \in Nat /\ Len(ring[n]) \in Nat
  BY RadioAssumption
<1>2. Append(ring[n], w) \in Seq(Wires) /\ Len(Append(ring[n], w)) = Len(ring[n]) + 1
  OBVIOUS
<1>3. CASE Len(ring[n]) + 1 > Cap
  <2>1. Len(ring[n]) = Cap
    BY <1>0, <1>1, <1>3 DEF IsTail
  <2>2. Remembered(n, w) = Tail(Append(ring[n], w))
    BY <1>3 DEF Remembered
  <2>3. Tail(Append(ring[n], w)) \in Seq(Wires)
    <3>1. Len(Append(ring[n], w)) # 0 /\ Len(<< >>) = 0
      BY <1>1, <1>2
    <3> QED BY <1>2, <3>1
  <2>4. IsTail(Tail(Append(ring[n], w)), Append(got[n], w), Cap)
    BY <1>0, <1>1, <2>1, TailMoves
  <2> QED BY <2>2, <2>3, <2>4
<1>4. CASE ~(Len(ring[n]) + 1 > Cap)
  <2>1. Len(ring[n]) < Cap /\ Remembered(n, w) = Append(ring[n], w)
    BY <1>1, <1>4 DEF Remembered
  <2>2. IsTail(Append(ring[n], w), Append(got[n], w), Cap)
    BY <1>0, <1>1, <2>1, TailGrows
  <2> QED BY <1>2, <2>1, <2>2
<1> QED BY <1>3, <1>4

(* A node that has not seen a wire was not given it lately. *)
LEMMA UnseenIsNotRecent ==
  ASSUME OnceInv, NEW n \in Nodes, NEW w, ~Seen(n, w)
  PROVE  w \notin Once!Recent(n)
<1>1. got[n] \in Seq(Wires) /\ ring[n] \in Seq(Wires) /\ RingIsTheTail(n)
  BY DEF OnceInv
<1>2. Len(got[n]) \in Nat /\ Len(ring[n]) \in Nat /\ Cap \in Nat
  BY <1>1, RadioAssumption
<1> SUFFICES ASSUME NEW j \in DOMAIN got[n], j + Cap > Len(got[n]), w = got[n][j]
             PROVE  Seen(n, w)
  BY DEF Once!Recent
<1>3. PICK m, k \in Nat :
        /\ Len(got[n]) = m /\ Len(ring[n]) = k /\ k <= Cap /\ k <= m /\ (k < Cap => k = m)
        /\ \A i \in 1 .. k : ring[n][i] = got[n][m - k + i]
  <2>1. IsTail(ring[n], got[n], Cap)
    BY <1>1 DEF RingIsTheTail
  <2> QED BY <1>2, <2>1 DEF IsTail
<1>4. j \in 1 .. m /\ j + Cap > m
  BY <1>1, <1>3
<1> DEFINE i == j - (m - k)
<1>5. i \in 1 .. k /\ m - k + i = j
  BY <1>2, <1>3, <1>4
<1> HIDE DEF i
<1>6. ring[n][i] = got[n][m - k + i]
  BY <1>3, <1>5
<1>7. i \in DOMAIN ring[n]
  BY <1>1, <1>3, <1>5
<1>8. ring[n][i] = w
  BY <1>5, <1>6
<1> QED BY <1>7, <1>8 DEF Seen
---------------------------------------------------------------------------
(* Nothing has been sent, given or remembered at first. *)
LEMMA OnceInit == RadioInit => OnceInv
<1> SUFFICES ASSUME RadioInit PROVE OnceInv
  OBVIOUS
<1>1. /\ << >> \in Seq(Wires) /\ << >> \in Seq(sent) /\ << >> \in Seq(Phys \X sent)
      /\ Len(<< >>) = 0
  OBVIOUS
<1>2. WaysAreOfTheSent
  BY <1>1 DEF RadioInit, WaysAreOfTheSent
<1>3. \A n \in Nodes : "pkt" \in DOMAIN sending[n] /\ sending[n].pkt = RfNone
  BY DEF RadioInit, RfIdle
<1>4. ASSUME NEW n \in Nodes PROVE RingIsTheTail(n)
  <2>1. ring[n] = << >> /\ got[n] = << >> /\ Cap \in Nat
    BY RadioAssumption DEF RadioInit
  <2> QED BY <1>1, <2>1 DEF RingIsTheTail, IsTail
<1> QED BY <1>1, <1>2, <1>3, <1>4 DEF RadioInit, OnceInv

(* What OnceInv says of the calls under way. *)
CallsAreOfPackets ==
  /\ DOMAIN sending = Nodes
  /\ \A n \in Nodes : "pkt" \in DOMAIN sending[n] /\ sending[n].pkt \in Packets \cup {RfNone}

(* One call changes, the others stay. *)
LEMMA CallChanges ==
  ASSUME CallsAreOfPackets, NEW n \in Nodes, NEW c, "pkt" \in DOMAIN c,
         c.pkt \in Packets \cup {RfNone}, sending' = [sending EXCEPT ![n] = c]
  PROVE  CallsAreOfPackets'
BY DEF CallsAreOfPackets

(* What the receiving side keeps while it has nothing to do. *)
LEMMA ReceiverStays ==
  ASSUME OnceInv, UNCHANGED <<ring, got>>
  PROVE  /\ ring' \in [Nodes -> Seq(Wires)] /\ got' \in [Nodes -> Seq(Wires)]
         /\ \A n \in Nodes : RingIsTheTail(n)'
BY DEF OnceInv, RingIsTheTail

(* A send that reaches the air, and one that fails. *)
LEMMA PhySendOnce ==
  ASSUME OnceInv, NEW n \in Nodes, PhySend(n)
  PROVE  OnceInv'
<1> DEFINE p == CHOOSE i \in sending[n].left : \A j \in sending[n].left : i <= j
           w == Wire(sending[n].pkt)
<1>1. CallsAreOfPackets /\ w \in Wires /\ UNCHANGED <<rfQueue, ring, got>>
  BY DEF OnceInv, PhySend, CallsAreOfPackets, Wires
<1>2. CallsAreOfPackets'
  <2>1. \/ sending' = [sending EXCEPT ![n] = [sending[n] EXCEPT !.left = @ \ {p}]]
        \/ sending' = [sending EXCEPT ![n] = [sending[n] EXCEPT !.left = @ \ {p}, !.err = TRUE]]
    BY DEF PhySend
  <2>2. "pkt" \in DOMAIN sending[n] /\ sending[n].pkt \in Packets \cup {RfNone}
    BY <1>1 DEF CallsAreOfPackets
  <2> HIDE DEF p
  <2>3. \/ sending' = [sending EXCEPT ![n] = [sending[n] EXCEPT !.left = @ \ {p}]]
        \/ sending' = [sending EXCEPT ![n] = [[sending[n] EXCEPT !.left = @ \ {p}] EXCEPT !.err = TRUE]]
    BY <2>1
  <2>4. /\ "pkt" \in DOMAIN [sending[n] EXCEPT !.left = @ \ {p}]
        /\ [sending[n] EXCEPT !.left = @ \ {p}].pkt \in Packets \cup {RfNone}
    BY <2>2
  <2>5. /\ "pkt" \in DOMAIN [[sending[n] EXCEPT !.left = @ \ {p}] EXCEPT !.err = TRUE]
        /\ [[sending[n] EXCEPT !.left = @ \ {p}] EXCEPT !.err = TRUE].pkt \in Packets \cup {RfNone}
    BY <2>4
  <2> QED BY <1>1, <2>3, <2>4, <2>5, CallChanges
<1>3. CASE /\ rfAir' = [m \in Nodes |-> IF m \in Reach[n] THEN [rfAir[m] EXCEPT ![p] = Append(@, w)] ELSE rfAir[m]]
           /\ sent' = sent \cup {w}
  <2> HIDE DEF p, w
  <2>1. ASSUME NEW m \in Nodes PROVE rfAir'[m] \in [Phys -> Seq(sent')]
    <3>1. rfAir[m] \in [Phys -> Seq(sent)]
      BY DEF OnceInv, WaysAreOfTheSent
    <3>2. \A i \in Phys : rfAir[m][i] \in Seq(sent')
      BY <1>3, <3>1, SeqGrows
    <3>3. rfAir[m] \in [Phys -> Seq(sent')]
      BY <3>1, <3>2
    <3>4. CASE m \in Reach[n] /\ p \in Phys
      <4>1. rfAir[m][p] \in Seq(sent') /\ w \in sent'
        BY <1>3, <3>3, <3>4
      <4>2. Append(rfAir[m][p], w) \in Seq(sent')
        BY <4>1
      <4> QED BY <1>3, <3>3, <3>4, <4>2
    <3>5. CASE ~(m \in Reach[n] /\ p \in Phys)
      BY <1>3, <3>3, <3>5
    <3> QED BY <3>4, <3>5
  <2>2. ASSUME NEW m \in Nodes PROVE rfQueue'[m] \in Seq(Phys \X sent')
    <3>1. rfQueue[m] \in Seq(Phys \X sent) /\ Phys \X sent \subseteq Phys \X sent'
      BY <1>3 DEF OnceInv, WaysAreOfTheSent
    <3> QED BY <1>1, <3>1, SeqGrows
  <2>3. WaysAreOfTheSent'
    <3>1. DOMAIN rfAir' = Nodes /\ rfAir' = [m \in Nodes |-> rfAir'[m]]
      BY <1>3
    <3>2. rfQueue' = [m \in Nodes |-> rfQueue'[m]]
      BY <1>1 DEF OnceInv, WaysAreOfTheSent
    <3> QED BY <2>1, <2>2, <3>1, <3>2 DEF WaysAreOfTheSent
  <2>4. sent' \subseteq Wires
    BY <1>1, <1>3 DEF OnceInv
  <2> QED BY <1>1, <1>2, <2>3, <2>4, ReceiverStays DEF OnceInv, CallsAreOfPackets
<1>4. CASE UNCHANGED <<rfAir, sent>>
  <2>1. WaysAreOfTheSent'
    BY <1>1, <1>4 DEF OnceInv, WaysAreOfTheSent
  <2> QED BY <1>1, <1>2, <1>4, <2>1, ReceiverStays DEF OnceInv, CallsAreOfPackets
<1> QED BY <1>3, <1>4 DEF PhySend

(* A wire leaves the air for the merged queue. *)
LEMMA PumpOnce ==
  ASSUME OnceInv, NEW n \in Nodes, NEW p \in Phys, Pump(n, p)
  PROVE  OnceInv'
<1>1. UNCHANGED <<sending, ring, got, sent>>
  BY DEF Pump
<1>2. /\ rfAir \in [Nodes -> [Phys -> Seq(sent)]] /\ rfQueue \in [Nodes -> Seq(Phys \X sent)]
      /\ rfAir[n][p] \in Seq(sent) /\ rfAir[n][p] # << >> /\ rfQueue[n] \in Seq(Phys \X sent)
  BY DEF OnceInv, WaysAreOfTheSent, Pump
<1>3. Head(rfAir[n][p]) \in sent /\ Tail(rfAir[n][p]) \in Seq(sent)
  BY <1>2
<1>4. <<p, Head(rfAir[n][p])>> \in Phys \X sent
  BY <1>3
<1>5. Append(rfQueue[n], <<p, Head(rfAir[n][p])>>) \in Seq(Phys \X sent)
  BY <1>2, <1>4
<1>6. rfQueue' \in [Nodes -> Seq(Phys \X sent)]
  BY <1>2, <1>5 DEF Pump
<1>7. rfAir' \in [Nodes -> [Phys -> Seq(sent)]]
  BY <1>2, <1>3 DEF Pump
<1>8. WaysAreOfTheSent'
  BY <1>1, <1>6, <1>7 DEF WaysAreOfTheSent
<1> QED BY <1>1, <1>8, ReceiverStays DEF OnceInv

(* A wire on the air is lost. *)
LEMMA LoseOnce ==
  ASSUME OnceInv, NEW n \in Nodes, NEW p \in Phys, Lose(n, p)
  PROVE  OnceInv'
<1>1. UNCHANGED <<sending, ring, got, sent, rfQueue>>
  BY DEF Lose
<1>2. /\ rfAir \in [Nodes -> [Phys -> Seq(sent)]]
      /\ rfAir[n][p] \in Seq(sent) /\ rfAir[n][p] # << >>
  BY DEF OnceInv, WaysAreOfTheSent, Lose
<1>3. Tail(rfAir[n][p]) \in Seq(sent)
  BY <1>2
<1>4. rfAir' \in [Nodes -> [Phys -> Seq(sent)]]
  BY <1>2, <1>3 DEF Lose
<1>5. WaysAreOfTheSent'
  BY <1>1, <1>4 DEF OnceInv, WaysAreOfTheSent
<1> QED BY <1>1, <1>5, ReceiverStays DEF OnceInv

(* A turn of the receive loop: dropped, or given and remembered. *)
LEMMA RecvOnce ==
  ASSUME OnceInv, NEW n \in Nodes, Recv(n)
  PROVE  /\ OnceInv'
         /\ UNCHANGED sent
         /\ \/ UNCHANGED got
            \/ \E w \in sent : w \notin Once!Recent(n) /\ got' = [got EXCEPT ![n] = Append(@, w)]
<1> DEFINE w == Head(rfQueue[n])[2]
<1>1. /\ UNCHANGED <<sending, rfAir, sent>> /\ rfQueue[n] # << >>
      /\ rfQueue' = [rfQueue EXCEPT ![n] = Tail(@)]
  BY DEF Recv
<1>2. rfQueue \in [Nodes -> Seq(Phys \X sent)] /\ rfQueue[n] \in Seq(Phys \X sent)
  BY DEF OnceInv, WaysAreOfTheSent
<1>3. Head(rfQueue[n]) \in Phys \X sent /\ Tail(rfQueue[n]) \in Seq(Phys \X sent)
  BY <1>1, <1>2
<1>4. w \in sent /\ w \in Wires
  BY <1>3 DEF OnceInv
<1>5. WaysAreOfTheSent'
  BY <1>1, <1>2, <1>3 DEF OnceInv, WaysAreOfTheSent
<1>6. CASE UNCHANGED <<ring, got>>
  <2>1. OnceInv'
    BY <1>1, <1>5, <1>6, ReceiverStays DEF OnceInv
  <2> QED BY <1>1, <1>6, <2>1
<1>7. CASE /\ ~Seen(n, w)
           /\ ring' = [ring EXCEPT ![n] = Remembered(n, w)]
           /\ got' = [got EXCEPT ![n] = Append(@, w)]
  <2> HIDE DEF w
  <2>1. /\ ring \in [Nodes -> Seq(Wires)] /\ got \in [Nodes -> Seq(Wires)]
        /\ got[n] \in Seq(Wires) /\ ring[n] \in Seq(Wires) /\ RingIsTheTail(n)
    BY DEF OnceInv
  <2>2. /\ Remembered(n, w) \in Seq(Wires) /\ Append(got[n], w) \in Seq(Wires)
        /\ IsTail(Remembered(n, w), Append(got[n], w), Cap)
    BY <1>4, <2>1, RememberedIsTheTail
  <2>3. ring' \in [Nodes -> Seq(Wires)] /\ got' \in [Nodes -> Seq(Wires)]
    BY <1>7, <2>1, <2>2
  <2>4. ring'[n] = Remembered(n, w) /\ got'[n] = Append(got[n], w)
    BY <1>7, <2>1
  <2>5. \A m \in Nodes \ {n} : ring'[m] = ring[m] /\ got'[m] = got[m]
    BY <1>7, <2>1
  <2>6. ASSUME NEW m \in Nodes PROVE RingIsTheTail(m)'
    <3>1. CASE m = n
      BY <2>2, <2>4, <3>1 DEF RingIsTheTail
    <3>2. CASE m # n
      BY <2>5, <3>2 DEF OnceInv, RingIsTheTail
    <3> QED BY <3>1, <3>2
  <2>7. OnceInv'
    BY <1>1, <1>5, <2>3, <2>6 DEF OnceInv
  <2>8. w \notin Once!Recent(n)
    BY <1>7, UnseenIsNotRecent
  <2> QED BY <1>1, <1>4, <1>7, <2>7, <2>8
<1> QED BY <1>6, <1>7 DEF Recv

(* Every step keeps the invariant, and is one the promise allows. *)
LEMMA OnceStep ==
  ASSUME OnceInv, [RadioNext]_radioVars
  PROVE  OnceInv' /\ [Once!Next]_<<sent, got>>
<1>1. ASSUME NEW n \in Nodes, NEW o \in Packets, Begin(n, o) PROVE OnceInv' /\ UNCHANGED <<sent, got>>
  <2>1. UNCHANGED <<rfAir, rfQueue, ring, sent, got>>
    BY <1>1 DEF Begin
  <2>2. CallsAreOfPackets'
    <3> DEFINE S == select(n, o.name)
               c == [pkt |-> o, left |-> S, err |-> FALSE, chosen |-> S, at |-> now, after |-> Len(got[n])]
    <3>1. sending' = [sending EXCEPT ![n] = c]
      BY <1>1 DEF Begin
    <3> HIDE DEF S
    <3>2. "pkt" \in DOMAIN c /\ c.pkt \in Packets \cup {RfNone} /\ CallsAreOfPackets
      BY DEF OnceInv, CallsAreOfPackets
    <3> HIDE DEF c
    <3> QED BY <3>1, <3>2, CallChanges
  <2> QED BY <2>1, <2>2 DEF OnceInv, CallsAreOfPackets, WaysAreOfTheSent, RingIsTheTail
<1>2. ASSUME NEW n \in Nodes, Return(n) PROVE OnceInv' /\ UNCHANGED <<sent, got>>
  <2>1. UNCHANGED <<rfAir, rfQueue, ring, sent, got>> /\ sending' = [sending EXCEPT ![n] = RfIdle]
    BY <1>2 DEF Return
  <2>2. "pkt" \in DOMAIN RfIdle /\ RfIdle.pkt \in Packets \cup {RfNone} /\ CallsAreOfPackets
    BY DEF OnceInv, CallsAreOfPackets, RfIdle
  <2>3. CallsAreOfPackets'
    BY <2>1, <2>2, CallChanges
  <2> QED BY <2>1, <2>3 DEF OnceInv, CallsAreOfPackets, WaysAreOfTheSent, RingIsTheTail
<1>3. ASSUME NEW n \in Nodes, PhySend(n) PROVE OnceInv' /\ [Once!Next]_<<sent, got>>
  <2>1. OnceInv'
    BY <1>3, PhySendOnce
  <2>2. UNCHANGED got /\ sent \subseteq sent' /\ sent' \subseteq Wires
    BY <1>3, <2>1 DEF PhySend, OnceInv
  <2>3. Once!Send
    <3>1. sent' \in SUBSET Wires /\ sent' = sent \cup sent' /\ UNCHANGED got
      BY <2>2
    <3> QED BY <3>1 DEF Once!Send
  <2> QED BY <2>1, <2>3 DEF Once!Next
<1>4. ASSUME NEW n \in Nodes, Recv(n) PROVE OnceInv' /\ [Once!Next]_<<sent, got>>
  <2>1. /\ OnceInv' /\ UNCHANGED sent
        /\ \/ UNCHANGED got
           \/ \E w \in sent : w \notin Once!Recent(n) /\ got' = [got EXCEPT ![n] = Append(@, w)]
    BY <1>4, RecvOnce
  <2>2. CASE UNCHANGED got
    BY <2>1, <2>2
  <2>3. ASSUME NEW w \in sent, w \notin Once!Recent(n), got' = [got EXCEPT ![n] = Append(@, w)]
        PROVE  Once!Next
    <3>1. Once!Deliver(n, w)
      BY <2>1, <2>3 DEF Once!Deliver
    <3> QED BY <3>1 DEF Once!Next
  <2> QED BY <2>1, <2>2, <2>3
<1>5. ASSUME NEW n \in Nodes, NEW p \in Phys, Pump(n, p) \/ Lose(n, p)
      PROVE  OnceInv' /\ UNCHANGED <<sent, got>>
  BY <1>5, PumpOnce, LoseOnce DEF Pump, Lose
<1>6. ASSUME UNCHANGED <<sending, rfAir, rfQueue, ring, sent, got>>
      PROVE  OnceInv' /\ UNCHANGED <<sent, got>>
  BY <1>6 DEF OnceInv, WaysAreOfTheSent, RingIsTheTail
<1>7. ASSUME NEW n \in Nodes, NEW p \in Phys, PumpFails(n, p)
      PROVE  UNCHANGED <<sending, rfAir, rfQueue, ring, sent, got>>
  BY <1>7 DEF PumpFails
<1>8. RadioTick \/ UNCHANGED radioVars => UNCHANGED <<sending, rfAir, rfQueue, ring, sent, got>>
  BY DEF RadioTick, radioVars
<1> QED BY <1>1, <1>2, <1>3, <1>4, <1>5, <1>6, <1>7, <1>8 DEF RadioNext

(***************************************************************************)
(* Over any phys, policies and faults the face gives its forwarder only    *)
(* what was sent, and a packet again only after Cap others: it implements  *)
(* the abstract receiver.                                                  *)
(***************************************************************************)
THEOREM FaceReceivesOnce == RadioSpec => ReceivesOnce
<1>1. RadioInit => Once!Init
  BY DEF RadioInit, Once!Init
<1> QED BY <1>1, OnceInit, OnceStep, PTL DEF RadioSpec, ReceivesOnce, Once!Spec

---------------------------------------------------------------------------
(* The state one knob is pushed in: the chip, the cache and what the driver    *)
(* was asked.                                                                  *)
Pushable(st) ==
  /\ DOMAIN st = {"radio", "cache", "asked", "failed"}
  /\ Shaped(st.radio, st.cache) /\ Truthful(st.radio, st.cache)
  /\ st.cache.no \subseteq LfKnob /\ st.radio.phy \in LfMode
  /\ st.asked \in BOOLEAN /\ st.failed \in BOOLEAN

(* Of st the driver has been told v of knob k. *)
Knows(st, k, v) == Told(st.radio, st.cache, k, v)

(* t is st after the knobs of K have been pushed: nothing else has changed, of a *)
(* knob that the driver had been told it still has, and a call that failed is    *)
(* told.                                                                         *)
PushedFrom(t, st, K) ==
  /\ Pushable(t)
  /\ t.radio.phy = st.radio.phy /\ t.cache.phy = st.cache.phy /\ t.cache.noPhy = st.cache.noPhy
  /\ \A j \in LfKnob : \A w : Knows(st, j, w) => Knows(t, j, w) \/ j \in K
  /\ st.failed => t.failed

(* A driver takes again what it has taken. *)
LEMMA TakenTwice ==
  ASSUME LfDescribed, NEW m \in LfMode, NEW k, NEW v, k = "dbm" => v \in Int
  PROVE  Taken(m, k, Taken(m, k, v)) = Taken(m, k, v)
<1>1. CASE k = "dbm"
  <2>1. /\ LfDriver[m][1] \in Int /\ LfDriver[m][2] \in Int /\ LfDriver[m][1] <= LfDriver[m][2]
        /\ v \in Int
    BY <1>1 DEF LfDescribed
  <2> QED BY <2>1, <1>1 DEF Taken, Clamped
<1>2. CASE k # "dbm"
  BY <1>2 DEF Taken
<1> QED BY <1>1, <1>2

LEMMA PushKeeps ==
  ASSUME LfDescribed, NEW st, Pushable(st), NEW k \in LfKnob, NEW v, NEW bad, k = "dbm" => v \in Int
  PROVE  /\ PushedFrom(Pushed(st, k, v, bad), st, {k})
         /\ ~Pushed(st, k, v, bad).failed => Knows(Pushed(st, k, v, bad), k, v)
         /\ Knows(st, k, v) => Knows(Pushed(st, k, v, bad), k, v)
         /\ ~Asks(st, k, v) => Pushed(st, k, v, bad) = st
<1> DEFINE t == Pushed(st, k, v, bad)
           took == Taken(st.radio.phy, k, v)
<1>1. CASE ~Asks(st, k, v)
  <2>1. t = st  BY <1>1 DEF Pushed
  <2>2. Knows(st, k, v)
    <3>1. CASE v = LfNone \/ k \in st.cache.no  BY <3>1 DEF Knows, Told
    <3>2. CASE v # LfNone /\ k \notin st.cache.no
      <4>1. st.cache.knob[k] = v  BY <3>2, <1>1 DEF Asks
      <4>2. Taken(st.radio.phy, k, v) = v  BY <4>1, <3>2 DEF Pushable, Truthful
      <4> QED BY <4>1, <4>2 DEF Knows, Told
    <3> QED BY <3>1, <3>2
  <2> QED BY <2>1, <2>2 DEF PushedFrom
<1>2. CASE Asks(st, k, v) /\ k \in LfRefuses[st.radio.phy]
  <2>1. t = Latched(st, k)  BY <1>2 DEF Pushed
  <2>2. /\ DOMAIN t = DOMAIN st /\ t.radio = st.radio /\ t.asked = TRUE /\ t.failed = st.failed
        /\ DOMAIN t.cache = DOMAIN st.cache /\ t.cache.no = st.cache.no \cup {k}
        /\ t.cache.phy = st.cache.phy /\ t.cache.knob = st.cache.knob /\ t.cache.noPhy = st.cache.noPhy
    BY <2>1 DEF Latched, Pushable, Shaped
  <2> HIDE DEF t
  <2>a. Shaped(t.radio, t.cache) /\ t.cache.no \subseteq LfRefuses[t.radio.phy] /\ t.cache.no \subseteq LfKnob
    BY <2>2, <1>2 DEF Pushable, Shaped, Truthful
  <2>b. Truthful(t.radio, t.cache)  BY <2>2, <2>a DEF Pushable, Truthful
  <2>3. Pushable(t)  BY <2>2, <2>a, <2>b DEF Pushable
  <2>4. Knows(t, k, v)  BY <2>2 DEF Knows, Told
  <2>5. \A j \in LfKnob : \A w : Knows(st, j, w) => Knows(t, j, w)  BY <2>2 DEF Knows, Told
  <2> QED BY <2>2, <2>3, <2>4, <2>5, <1>2 DEF PushedFrom, t
<1>3. CASE Asks(st, k, v) /\ k \notin LfRefuses[st.radio.phy] /\ k = bad
  <2>1. t = [st EXCEPT !.asked = TRUE, !.failed = TRUE]  BY <1>3 DEF Pushed
  <2>2. /\ DOMAIN t = DOMAIN st /\ t.radio = st.radio /\ t.cache = st.cache
        /\ t.asked = TRUE /\ t.failed = TRUE
    BY <2>1 DEF Pushable
  <2>3. Pushable(t)  BY <2>2 DEF Pushable
  <2>4. \A j \in LfKnob : \A w : Knows(st, j, w) => Knows(t, j, w)  BY <2>2 DEF Knows
  <2> HIDE DEF t
  <2> QED BY <2>2, <2>3, <2>4, <1>3 DEF PushedFrom, t
<1>4. CASE Asks(st, k, v) /\ k \notin LfRefuses[st.radio.phy] /\ k # bad
  <2>1. t = [st EXCEPT !.radio.knob[k] = took, !.cache.knob[k] = took, !.asked = TRUE]  BY <1>4 DEF Pushed
  <2>0. Taken(st.radio.phy, k, took) = took  BY TakenTwice DEF Pushable
  <2> HIDE DEF took
  <2>2. /\ DOMAIN t = DOMAIN st /\ t.asked = TRUE /\ t.failed = st.failed
        /\ DOMAIN t.radio = DOMAIN st.radio /\ t.radio.phy = st.radio.phy
        /\ t.radio.knob = [st.radio.knob EXCEPT ![k] = took]
        /\ DOMAIN t.cache = DOMAIN st.cache /\ t.cache.no = st.cache.no
        /\ t.cache.phy = st.cache.phy /\ t.cache.noPhy = st.cache.noPhy
        /\ t.cache.knob = [st.cache.knob EXCEPT ![k] = took]
    BY <2>1 DEF Pushable, Shaped
  <2>3. \A j \in LfKnob : /\ t.radio.knob[j] = IF j = k THEN took ELSE st.radio.knob[j]
                          /\ t.cache.knob[j] = IF j = k THEN took ELSE st.cache.knob[j]
    BY <2>2 DEF Pushable, Shaped
  <2>4. Shaped(t.radio, t.cache)  BY <2>2 DEF Pushable, Shaped
  <2> HIDE DEF t
  <2>5. Truthful(t.radio, t.cache)
    <3>1. \A j \in LfKnob : t.cache.knob[j] # LfNone =>
            /\ t.cache.knob[j] = t.radio.knob[j] /\ j \notin LfRefuses[t.radio.phy]
            /\ Taken(t.radio.phy, j, t.cache.knob[j]) = t.cache.knob[j]
      BY <2>0, <2>2, <2>3, <1>4 DEF Pushable, Truthful
    <3> QED BY <3>1, <2>2 DEF Pushable, Truthful
  <2>6. Pushable(t)  BY <2>2, <2>4, <2>5 DEF Pushable
  <2>7. Knows(t, k, v)  BY <2>2, <2>3 DEF Knows, Told, took
  <2>8. \A j \in LfKnob \ {k} : \A w : Knows(st, j, w) => Knows(t, j, w)  BY <2>2, <2>3 DEF Knows, Told
  <2> QED BY <2>2, <2>6, <2>7, <2>8, <1>4 DEF PushedFrom, t
<1> QED BY <1>1, <1>2, <1>3, <1>4

(* Two pushes make one. *)
LEMMA PushesCompose ==
  ASSUME NEW st, NEW t, NEW u, NEW k, NEW l, PushedFrom(t, st, {k}), PushedFrom(u, t, {l})
  PROVE  PushedFrom(u, st, {k, l})
BY DEF PushedFrom

(* Other knobs than power are told when they need not be asked for. *)
LEMMA ToldIsUnasked ==
  ASSUME NEW st, NEW k, NEW v, k # "dbm", Knows(st, k, v)
  PROVE  ~Asks(st, k, v)
BY DEF Knows, Told, Asks, Taken

(* The rate and the bandwidth, then the power and carrier sense. *)
LEMMA ClampedIsANumber ==
  ASSUME NEW x \in Int, NEW span \in Int \X Int
  PROVE  Clamped(x, span) \in Int
BY DEF Clamped

LEMMA RatePushed ==
  ASSUME LfDescribed, NEW st, Pushable(st), NEW p, NEW held, NEW bad
  PROVE  LET u == RateAt(st, p, held, bad) IN
         /\ PushedFrom(u, st, {"sf", "bw"})
         /\ ~u.failed => RateTold(u.radio, u.cache, p, held)
         /\ RateTold(st.radio, st.cache, p, held) => u = st
<1> DEFINE skip == LfSpan[held] = LfNone \/ p.sf = LfNone
           v == Clamped(p.sf, LfSpan[held])
           t == IF skip THEN st ELSE Pushed(st, "sf", v, bad)
           u == Pushed(t, "bw", p.bw, bad)
<1>1. RateAt(st, p, held, bad) = u  BY DEF RateAt
<1>2. /\ "sf" \in LfKnob /\ "bw" \in LfKnob /\ "sf" # "bw"
      /\ "sf" # "dbm" /\ "bw" # "dbm"
  BY DEF LfKnob
<1>3. /\ PushedFrom(t, st, {"sf"})
      /\ (~t.failed /\ ~skip) => Knows(t, "sf", v)
      /\ (skip \/ Knows(st, "sf", v)) => t = st
  <2>1. CASE skip
    <3>1. t = st  BY <2>1
    <3> QED BY <3>1, <2>1 DEF PushedFrom
  <2>2. CASE ~skip
    <3>1. t = Pushed(st, "sf", v, bad)  BY <2>2
    <3> HIDE DEF t, v
    <3>2. Knows(st, "sf", v) => ~Asks(st, "sf", v)  BY <1>2, ToldIsUnasked
    <3> QED BY <3>1, <3>2, <2>2, <1>2, PushKeeps
  <2> QED BY <2>1, <2>2
<1>4. Pushable(t)  BY <1>3 DEF PushedFrom
<1> HIDE DEF t, skip, v
<1>5. /\ PushedFrom(u, t, {"bw"})
      /\ ~u.failed => Knows(u, "bw", p.bw)
      /\ Knows(t, "bw", p.bw) => u = t
  <2>1. Knows(t, "bw", p.bw) => ~Asks(t, "bw", p.bw)  BY <1>2, ToldIsUnasked
  <2> QED BY <2>1, <1>4, <1>2, PushKeeps
<1> HIDE DEF u
<1>6. PushedFrom(u, st, {"sf", "bw"})
  BY <1>3, <1>5, PushesCompose
<1>7. ASSUME ~u.failed PROVE RateTold(u.radio, u.cache, p, held)
  <2>1. ~t.failed /\ Knows(u, "bw", p.bw)  BY <1>5, <1>7 DEF PushedFrom
  <2>2. ~skip => Knows(u, "sf", v)  BY <2>1, <1>3, <1>5, <1>2 DEF PushedFrom
  <2> QED BY <2>1, <2>2 DEF RateTold, Knows, skip, v
<1>8. ASSUME RateTold(st.radio, st.cache, p, held) PROVE u = st
  <2>1. (skip \/ Knows(st, "sf", v)) /\ Knows(st, "bw", p.bw)
    BY <1>8 DEF RateTold, Knows, skip, v
  <2>2. t = st  BY <2>1, <1>3
  <2> QED BY <2>1, <2>2, <1>5
<1> QED BY <1>1, <1>6, <1>7, <1>8

LEMMA PowerPushed ==
  ASSUME LfDescribed, NEW st, Pushable(st), NEW p \in LfPlanned, NEW held \in LfMode, NEW bad
  PROVE  LET u == PowerAt(st, p, held, bad)
             v == Clamped(p.dbm, LfPower[held]) IN
         /\ PushedFrom(u, st, {"dbm", "edcca"})
         /\ ~u.failed \/ PowerTold(st.radio, st.cache, p, held) => PowerTold(u.radio, u.cache, p, held)
         /\ PowerTold(st.radio, st.cache, p, held) /\ (p.dbm = LfNone \/ ~Asks(st, "dbm", v)) => u = st
<1> DEFINE skip == p.dbm = LfNone
           v == Clamped(p.dbm, LfPower[held])
           t == IF skip THEN st ELSE Pushed(st, "dbm", v, bad)
           u == Pushed(t, "edcca", p.edcca, bad)
<1>1. PowerAt(st, p, held, bad) = u  BY DEF PowerAt
<1>2. "dbm" \in LfKnob /\ "edcca" \in LfKnob /\ "dbm" # "edcca"  BY DEF LfKnob
<1>v. ~skip => v \in Int
  BY ClampedIsANumber DEF LfPlanned, LfDescribed
<1>3. /\ PushedFrom(t, st, {"dbm"})
      /\ ~skip /\ (~t.failed \/ Knows(st, "dbm", v)) => Knows(t, "dbm", v)
      /\ (skip \/ ~Asks(st, "dbm", v)) => t = st
  <2>1. CASE skip
    <3>1. t = st  BY <2>1
    <3> QED BY <3>1, <2>1 DEF PushedFrom
  <2>2. CASE ~skip
    <3>1. t = Pushed(st, "dbm", v, bad)  BY <2>2
    <3>2. v \in Int  BY <1>v, <2>2
    <3> HIDE DEF t, v
    <3> QED BY <3>1, <3>2, <2>2, <1>2, PushKeeps
  <2> QED BY <2>1, <2>2
<1>4. Pushable(t)  BY <1>3 DEF PushedFrom
<1> HIDE DEF t, skip, v
<1>5. /\ PushedFrom(u, t, {"edcca"})
      /\ ~u.failed \/ Knows(t, "edcca", p.edcca) => Knows(u, "edcca", p.edcca)
      /\ Knows(t, "edcca", p.edcca) => u = t
  <2>1. Knows(t, "edcca", p.edcca) => ~Asks(t, "edcca", p.edcca)  BY <1>2, ToldIsUnasked
  <2> QED BY <2>1, <1>4, <1>2, PushKeeps
<1> HIDE DEF u
<1>6. PushedFrom(u, st, {"dbm", "edcca"})
  BY <1>3, <1>5, PushesCompose
<1>7. ASSUME ~u.failed \/ PowerTold(st.radio, st.cache, p, held) PROVE PowerTold(u.radio, u.cache, p, held)
  <2>1. PowerTold(st.radio, st.cache, p, held) =>
          (skip \/ Knows(st, "dbm", v)) /\ Knows(st, "edcca", p.edcca)
    BY DEF PowerTold, Knows, skip, v
  <2>2. ~u.failed => ~t.failed  BY <1>5 DEF PushedFrom
  <2>3. ~skip => Knows(t, "dbm", v)  BY <2>1, <2>2, <1>3, <1>7
  <2>4. ~skip => Knows(u, "dbm", v)  BY <2>3, <1>5, <1>2 DEF PushedFrom
  <2>5. PowerTold(st.radio, st.cache, p, held) => Knows(t, "edcca", p.edcca)
    BY <2>1, <1>3, <1>2 DEF PushedFrom
  <2>6. Knows(u, "edcca", p.edcca)  BY <2>5, <1>5, <1>7
  <2> QED BY <2>4, <2>6 DEF PowerTold, Knows, skip, v
<1>8. ASSUME PowerTold(st.radio, st.cache, p, held), p.dbm = LfNone \/ ~Asks(st, "dbm", v) PROVE u = st
  <2>1. Knows(st, "edcca", p.edcca)
    BY <1>8 DEF PowerTold, Knows
  <2>2. t = st  BY <1>3, <1>8 DEF skip
  <2> QED BY <2>1, <2>2, <1>5
<1> QED BY <1>1, <1>6, <1>7, <1>8 DEF v

LEMMA LandsReachable ==
  /\ Reachable \subseteq LfMode
  /\ \A m \in LfAdvertised : LfLands[m] \in Reachable /\ LfLands[m] \in LfMode
BY LfAssumption DEF Reachable

LEMMA FrameSizeIsOne ==
  ASSUME NEW m \in LfMode
  PROVE  recompute(m) \in 1 .. LoraMtu
BY LfAssumption DEF recompute, LeastOf

LEMMA ChipIsPushable ==
  ASSUME LfTyped, Truthful(lfRadio, lfCache), NEW s \in LfSender
  PROVE  /\ Pushable(Chip(FALSE))
         /\ Pushable([Chip(FALSE) EXCEPT !.cache = NotesLanding(s, lfCache)])
<1>1. Pushable(Chip(FALSE))
  BY LandsReachable DEF Chip, Pushable, LfTyped, LfTypeOK
<1> DEFINE c == NotesLanding(s, lfCache)
<1>2. /\ DOMAIN c = DOMAIN lfCache /\ c.phy = lfCache.phy /\ c.knob = lfCache.knob /\ c.no = lfCache.no
  BY DEF NotesLanding, LfTyped, Shaped
<1>3. Shaped(lfRadio, c) /\ Truthful(lfRadio, c) /\ c.no \subseteq LfKnob
  BY <1>2 DEF LfTyped, LfTypeOK, Shaped, Truthful
<1> HIDE DEF c
<1>4. Pushable([Chip(FALSE) EXCEPT !.cache = c])
  <2> DEFINE u == [Chip(FALSE) EXCEPT !.cache = c]
  <2>1. /\ DOMAIN u = {"radio", "cache", "asked", "failed"}
        /\ u.radio = lfRadio /\ u.cache = c /\ u.asked = FALSE /\ u.failed = FALSE
    BY DEF Chip
  <2> QED BY <2>1, <1>3, LandsReachable DEF Pushable, LfTyped, LfTypeOK
<1> QED BY <1>1, <1>4 DEF c

---------------------------------------------------------------------------
LEMMA LfInitInv ==
  ASSUME LfInit
  PROVE  LfIndInv
<1> USE DEF LfInit
<1>1. LfTyped
  <2>1. LfTypeOK
    <3>1. lfMtu \in 1 .. LoraMtu  BY LfAssumption, FrameSizeIsOne
    <3> QED BY <3>1 DEF LfTypeOK, Reachable, NothingApplied
  <2>2. Shaped(lfRadio, lfCache)
    BY DEF Shaped, NothingApplied, Forgotten, AtReset, LfKnob
  <2> QED BY <2>1, <2>2 DEF LfTyped
<1>2. Truthful(lfRadio, lfCache)
  BY DEF Truthful, NothingApplied, Forgotten
<1>3. SizeInv
  BY DEF SizeInv, Sizing
<1> QED BY <1>1, <1>2, <1>3 DEF LfIndInv, HeldIsOfTheMode, LockInv, SettledInv

LEMMA ReadPlanKeeps ==
  ASSUME LfDescribed, LfIndInv, NEW s \in LfSender, ReadPlan(s)
  PROVE  LfIndInv'
<1> USE DEF ReadPlan, Go, lfChip, LfIndInv
<1>1. /\ lfPc' = [lfPc EXCEPT ![s] = "lock"] /\ lfTp' = [lfTp EXCEPT ![s] = lfPlan]
      /\ \A o \in LfSender : /\ lfPc'[o] = IF o = s THEN "lock" ELSE lfPc[o]
                             /\ lfTp'[o] = IF o = s THEN lfPlan ELSE lfTp[o]
  BY DEF LfTyped, LfTypeOK
<1>2. LfTyped'
  BY <1>1 DEF LfTyped, LfTypeOK, Shaped
<1>3. HeldIsOfTheMode'
  BY <1>1 DEF HeldIsOfTheMode, Refreshed
<1>4. LockInv'
  BY <1>1 DEF LockInv, Unasked, Refreshing
<1>5. SettledInv'
  BY <1>1 DEF SettledInv, Unasked
<1>6. SizeInv'
  BY <1>1 DEF SizeInv, Sizing
<1> QED BY <1>2, <1>3, <1>4, <1>5, <1>6 DEF Truthful, Clipped

LEMMA RefreshKeeps ==
  ASSUME LfDescribed, LfIndInv, NEW s \in LfSender, RefreshCapability(s)
  PROVE  LfIndInv'
<1> USE DEF RefreshCapability, Go, lfChip, LfIndInv
<1>1. \A o \in LfSender : lfPc'[o] = IF o = s THEN "declared" ELSE lfPc[o]
  BY DEF LfTyped, LfTypeOK
<1>2. LfTyped'
  BY <1>1 DEF LfTyped, LfTypeOK, Shaped, Described
<1>3. HeldIsOfTheMode'
  BY DEF HeldIsOfTheMode, Described
<1>4. LockInv'
  BY <1>1 DEF LockInv, Unasked, Refreshing
<1>5. ~lfSettled
  BY DEF SettledInv
<1>6. SizeInv'
  BY <1>1 DEF SizeInv, Sizing
<1> QED BY <1>2, <1>3, <1>4, <1>5, <1>6 DEF Truthful, SettledInv

LEMMA ReadDeclaredKeeps ==
  ASSUME LfDescribed, LfIndInv, NEW s \in LfSender, ReadDeclared(s)
  PROVE  LfIndInv'
<1> USE DEF ReadDeclared, Go, lfChip, LfIndInv
<1>1. \A o \in LfSender : lfPc'[o] = IF o = s THEN "store" ELSE lfPc[o]
  BY DEF LfTyped, LfTypeOK
<1>2. recompute(lfHeld) \in 1 .. LoraMtu
  BY LandsReachable, FrameSizeIsOne DEF LfTyped, LfTypeOK
<1>3. LfTyped'
  BY <1>1, <1>2, LfAssumption DEF LfTyped, LfTypeOK, Shaped
<1>4. HeldIsOfTheMode'
  BY <1>1 DEF HeldIsOfTheMode, Refreshed
<1>5. LockInv'
  BY <1>1 DEF LockInv, Unasked, Refreshing
<1>6. ~lfSettled
  BY DEF SettledInv
<1>7. SizeInv'
  <2>1. \A o \in LfSender : lfRead'[o] = IF o = s THEN recompute(lfHeld) ELSE lfRead[o]
    BY DEF LfTyped
  <2> QED BY <1>1, <2>1 DEF SizeInv, Sizing
<1> QED BY <1>3, <1>4, <1>5, <1>6, <1>7 DEF Truthful, SettledInv

LEMMA StoreMtuKeeps ==
  ASSUME LfDescribed, LfIndInv, NEW s \in LfSender, StoreMtu(s)
  PROVE  LfIndInv'
<1> USE DEF StoreMtu, Go, lfChip, LfIndInv
<1>1. \A o \in LfSender : lfPc'[o] = IF o = s THEN "relock" ELSE lfPc[o]
  BY DEF LfTyped, LfTypeOK
<1>2. LfTyped'
  BY <1>1 DEF LfTyped, LfTypeOK, Shaped
<1>3. HeldIsOfTheMode'
  BY <1>1 DEF HeldIsOfTheMode, Refreshed
<1>4. LockInv'
  BY <1>1 DEF LockInv, Unasked, Refreshing
<1>5. ~lfSettled
  BY DEF SettledInv
<1>6. SizeInv'
  <2>1. \A o \in LfSender : lfRead'[o] = IF o = s THEN 0 ELSE lfRead[o]
    BY DEF LfTyped
  <2> QED BY <1>1, <2>1 DEF SizeInv, Sizing
<1> QED BY <1>2, <1>3, <1>4, <1>5, <1>6 DEF Truthful, SettledInv

LEMMA InjectKeeps ==
  ASSUME LfDescribed, LfIndInv, NEW s \in LfSender, Inject(s)
  PROVE  LfIndInv'
<1> USE DEF Inject, Go, lfChip, LfIndInv
<1>1. \A o \in LfSender : lfPc'[o] = IF o = s THEN "idle" ELSE lfPc[o]
  BY DEF LfTyped, LfTypeOK
<1>2. LfTyped'
  BY <1>1 DEF LfTyped, LfTypeOK, Shaped
<1>3. HeldIsOfTheMode'
  BY <1>1 DEF HeldIsOfTheMode, Refreshed
<1>4. LockInv'
  BY <1>1 DEF LockInv, Unasked, Refreshing
<1>5. SettledInv'
  BY <1>1 DEF SettledInv, Unasked
<1>6. SizeInv'
  BY <1>1 DEF SizeInv, Sizing
<1> QED BY <1>2, <1>3, <1>4, <1>5, <1>6 DEF Truthful, Clipped

LEMMA WritePlanKeeps ==
  ASSUME LfDescribed, LfIndInv, WritePlan
  PROVE  LfIndInv'
<1> USE DEF WritePlan, LfIndInv
<1>1. LfTyped'
  BY DEF LfTyped, LfTypeOK, Shaped
<1>2. HeldIsOfTheMode'
  BY DEF HeldIsOfTheMode, Refreshed
<1>3. LockInv'
  BY DEF LockInv, Unasked, Refreshing
<1>4. SizeInv'
  BY DEF SizeInv, Sizing
<1> QED BY <1>1, <1>2, <1>3, <1>4 DEF Truthful, SettledInv

LEMMA SwitchPhyKeeps ==
  ASSUME LfDescribed, LfIndInv, NEW s \in LfSender, SwitchPhy(s)
  PROVE  LfIndInv'
<1> DEFINE want == lfTp[s].phy
           landed == LfLands[want]
<1> USE DEF LfIndInv
<1>1. /\ lfPc[s] = "lock" /\ LockFree /\ lfTp[s] \in LfPlan /\ want \in LfMode \cup {LfNone}
      /\ UNCHANGED <<lfPlan, lfHeld, lfMtu, lfTp, lfRead, lfRaced>>
  BY DEF SwitchPhy, LfTyped, LfDescribed, LfPlanned
<1>2. lfSettled => Unasked(want)
  BY <1>1 DEF SettledInv
<1>3. CASE Unasked(want) /\ lfPc' = [lfPc EXCEPT ![s] = "rate"] /\ lfFailed' = FALSE
           /\ UNCHANGED <<lfRadio, lfCache, lfSettled, lfWasted>>
  <2>1. \A o \in LfSender : lfPc'[o] = IF o = s THEN "rate" ELSE lfPc[o]
    BY <1>3 DEF LfTyped, LfTypeOK
  <2>2. LfTyped'
    BY <1>1, <1>3, <2>1 DEF LfTyped, LfTypeOK, Shaped
  <2>3. HeldIsOfTheMode'
    BY <1>1, <1>3, <2>1 DEF HeldIsOfTheMode, Refreshed
  <2>4. LockInv'
    BY <1>1, <1>3, <2>1 DEF LockInv, Unasked, Refreshing, LockFree
  <2>5. SettledInv'
    BY <1>1, <1>3, <2>1 DEF SettledInv, Unasked
  <2>6. SizeInv'
    BY <1>1, <2>1 DEF SizeInv, Sizing
  <2> QED BY <1>1, <1>3, <2>2, <2>3, <2>4, <2>5, <2>6 DEF Truthful, Clipped
<1>4. CASE ~Unasked(want) /\ lfCache' = [lfCache EXCEPT !.noPhy = want]
           /\ lfPc' = [lfPc EXCEPT ![s] = "rate"]
           /\ lfFailed' = FALSE /\ UNCHANGED lfRadio /\ UNCHANGED lfSettled
           /\ (lfWasted' = lfWasted \/ lfWasted' = (lfWasted \/ lfSettled))
  <2>1. /\ \A o \in LfSender : lfPc'[o] = IF o = s THEN "rate" ELSE lfPc[o]
        /\ ~lfSettled /\ ~lfWasted'
    BY <1>2, <1>4 DEF LfTyped, LfTypeOK
  <2>2. /\ DOMAIN lfCache' = DOMAIN lfCache /\ lfCache'.phy = lfCache.phy /\ lfCache'.no = lfCache.no
        /\ lfCache'.knob = lfCache.knob /\ lfCache'.noPhy = want
    BY <1>4 DEF LfTyped, Shaped
  <2>3. LfTyped'
    BY <1>1, <1>4, <2>1, <2>2 DEF LfTyped, LfTypeOK, Shaped
  <2>4. HeldIsOfTheMode'
    BY <1>1, <1>4, <2>1 DEF HeldIsOfTheMode, Refreshed
  <2>5. LockInv'
    BY <1>1, <2>1, <2>2 DEF LockInv, Unasked, Refreshing, LockFree
  <2>6. Truthful(lfRadio, lfCache)'
    BY <1>4, <2>2 DEF Truthful
  <2>7. SizeInv'
    BY <1>1, <2>1 DEF SizeInv, Sizing
  <2> QED BY <1>4, <2>1, <2>3, <2>4, <2>5, <2>6, <2>7 DEF SettledInv
<1>5. CASE /\ ~Unasked(want) /\ phy_switch_allowed(want)
           /\ lfWasted' = (lfWasted \/ lfSettled) /\ UNCHANGED lfSettled
           /\ lfFailed' = TRUE /\ lfPc' = [lfPc EXCEPT ![s] = "rate"] /\ UNCHANGED <<lfRadio, lfCache>>
  <2>1. /\ \A o \in LfSender : lfPc'[o] = IF o = s THEN "rate" ELSE lfPc[o]
        /\ ~lfSettled /\ ~lfWasted'
    BY <1>2, <1>5 DEF LfTyped, LfTypeOK
  <2>3. LfTyped'
    BY <1>1, <1>5, <2>1 DEF LfTyped, LfTypeOK, Shaped
  <2>4. HeldIsOfTheMode'
    BY <1>1, <1>5, <2>1 DEF HeldIsOfTheMode, Refreshed
  <2>5. LockInv'
    BY <1>1, <1>5, <2>1 DEF LockInv, LockFree
  <2>6. SizeInv'
    BY <1>1, <2>1 DEF SizeInv, Sizing
  <2> QED BY <1>5, <2>1, <2>3, <2>4, <2>5, <2>6 DEF SettledInv, Truthful
<1>6. CASE /\ ~Unasked(want) /\ phy_switch_allowed(want)
           /\ lfWasted' = (lfWasted \/ lfSettled) /\ UNCHANGED lfSettled
           /\ lfFailed' = FALSE
           /\ lfRadio' = (IF landed = lfRadio.phy THEN lfRadio ELSE [phy |-> landed, knob |-> AtReset])
           /\ lfCache.phy # landed /\ lfCache' = Renewed(landed)
           /\ lfPc' = [lfPc EXCEPT ![s] = "refresh"]
  <2>1. /\ \A o \in LfSender : lfPc'[o] = IF o = s THEN "refresh" ELSE lfPc[o]
        /\ ~lfSettled /\ ~lfWasted'
    BY <1>2, <1>6 DEF LfTyped, LfTypeOK
  <2>2. want \in LfAdvertised /\ landed \in Reachable /\ landed \in LfMode
    BY <1>6, LandsReachable DEF phy_switch_allowed
  <2>3. /\ DOMAIN lfCache' = {"phy", "knob", "noPhy", "no"} /\ lfCache'.phy = landed /\ lfCache'.no = {}
        /\ lfCache'.knob = Forgotten
    BY <1>6 DEF Renewed, NothingApplied
  <2>4. /\ DOMAIN lfRadio' = {"phy", "knob"} /\ DOMAIN lfRadio'.knob = LfKnob /\ lfRadio'.phy = landed
    <3>1. CASE landed = lfRadio.phy  BY <3>1, <1>6 DEF LfTyped, Shaped
    <3>2. CASE landed # lfRadio.phy  BY <3>2, <1>6 DEF AtReset, LfKnob
    <3> QED BY <3>1, <3>2
  <2>5. LfTyped'
    <3>1. Shaped(lfRadio, lfCache)'  BY <2>3, <2>4 DEF Shaped, Forgotten
    <3> QED BY <1>1, <1>6, <2>1, <2>2, <2>3, <2>4, <3>1 DEF LfTyped, LfTypeOK
  <2>6. HeldIsOfTheMode'
    BY <2>1 DEF HeldIsOfTheMode, Refreshed
  <2>7. LockInv'
    BY <1>1, <2>1 DEF LockInv, LockFree
  <2>8. Truthful(lfRadio, lfCache)'
    BY <2>2, <2>3, <2>4 DEF Truthful, Forgotten
  <2>9. SizeInv'
    BY <1>1, <2>1 DEF SizeInv, Sizing
  <2> QED BY <1>6, <2>1, <2>5, <2>6, <2>7, <2>8, <2>9 DEF SettledInv
<1>7. CASE /\ ~Unasked(want) /\ phy_switch_allowed(want)
           /\ lfWasted' = (lfWasted \/ lfSettled) /\ UNCHANGED lfSettled
           /\ lfFailed' = FALSE
           /\ lfRadio' = (IF landed = lfRadio.phy THEN lfRadio ELSE [phy |-> landed, knob |-> AtReset])
           /\ lfCache.phy = landed /\ lfCache' = [lfCache EXCEPT !.noPhy = want]
           /\ lfPc' = [lfPc EXCEPT ![s] = "rate"]
  <2>1. landed \in LfMode /\ landed # LfNone
    BY <1>7, LandsReachable DEF phy_switch_allowed, LfDescribed
  <2>2. lfRadio' = lfRadio
    BY <1>7, <2>1 DEF Truthful
  <2> QED BY <1>7, <2>2, <1>4
<1> QED
  <2> HIDE DEF LfIndInv
  <2>1. \/ Unasked(want) /\ Go(s, "rate") /\ lfFailed' = FALSE /\ UNCHANGED <<lfRadio, lfCache, lfSettled, lfWasted>>
        \/ /\ ~Unasked(want) /\ ~phy_switch_allowed(want)
           /\ lfCache' = [lfCache EXCEPT !.noPhy = want]
           /\ Go(s, "rate") /\ lfFailed' = FALSE /\ UNCHANGED <<lfRadio, lfSettled, lfWasted>>
        \/ /\ ~Unasked(want) /\ phy_switch_allowed(want)
           /\ lfWasted' = (lfWasted \/ lfSettled) /\ UNCHANGED lfSettled
           /\ \E bad \in Fallible \ LfKnob :
                IF bad = "phy" THEN lfFailed' = TRUE /\ Go(s, "rate") /\ UNCHANGED <<lfRadio, lfCache>>
                ELSE /\ lfFailed' = FALSE
                     /\ lfRadio' = IF landed = lfRadio.phy THEN lfRadio ELSE [phy |-> landed, knob |-> AtReset]
                     /\ lfCache' = IF lfCache.phy # landed THEN Renewed(landed) ELSE [lfCache EXCEPT !.noPhy = want]
                     /\ Go(s, IF lfCache.phy # landed THEN "refresh" ELSE "rate")
    BY DEF SwitchPhy
  <2> QED BY <2>1, <1>3, <1>4, <1>5, <1>6, <1>7 DEF Go

(* What a push leaves of the invariant's part about the chip.                  *)
LEMMA PushedChip ==
  ASSUME LfDescribed, LfTyped, NEW st, NEW t, NEW K, PushedFrom(t, st, K),
         st.radio = lfRadio, st.cache.phy = lfCache.phy,
         lfRadio' = t.radio, lfCache' = t.cache
  PROVE  /\ Truthful(lfRadio, lfCache)' /\ Shaped(lfRadio, lfCache)'
         /\ lfRadio'.phy = lfRadio.phy /\ lfCache'.phy = lfCache.phy
         /\ lfCache'.no \subseteq LfKnob
BY DEF PushedFrom, Pushable, Truthful, Shaped

LEMMA PushRateKeeps ==
  ASSUME LfDescribed, LfIndInv, NEW s \in LfSender, PushRate(s)
  PROVE  LfIndInv'
<1> DEFINE p == lfTp[s]
           c == NotesLanding(s, lfCache)
           chip == [Chip(FALSE) EXCEPT !.cache = c]
<1> USE DEF LfIndInv
<1>1. /\ lfPc[s] = "rate" \/ (lfPc[s] = "relock" /\ LockFree)
      /\ lfPc' = [lfPc EXCEPT ![s] = "power"]
      /\ UNCHANGED <<lfPlan, lfHeld, lfMtu, lfTp, lfSettled, lfRead, lfRaced>>
  BY DEF PushRate, Go
<1>2. PICK bad \in Fallible \ {"phy"} :
        \E st \in {RateAt(chip, p, lfHeld, bad)} :
          /\ Takes(st)
          /\ lfFailed' = (lfFailed \/ st.failed \/ Overtaken(s))
          /\ lfWasted' = (lfWasted \/ (lfSettled /\ st.asked))
  BY DEF PushRate
<1> DEFINE st == RateAt(chip, p, lfHeld, bad)
<1>3. /\ lfRadio' = st.radio /\ lfCache' = st.cache
      /\ lfFailed' = (lfFailed \/ st.failed \/ Overtaken(s))
      /\ lfWasted' = (lfWasted \/ (lfSettled /\ st.asked))
  BY <1>2 DEF Takes
<1>4. Pushable(chip)
  BY ChipIsPushable
<1>5. /\ chip.radio = lfRadio /\ chip.cache = c /\ chip.asked = FALSE
      /\ c.phy = lfCache.phy /\ c.noPhy \in {lfCache.noPhy, p.phy}
      /\ lfPc[s] = "rate" => c = lfCache
      /\ (lfPc[s] = "relock" /\ ~Overtaken(s)) => c.phy = p.phy \/ c.noPhy = p.phy
  BY DEF Chip, NotesLanding, Overtaken, LfTyped, Shaped
<1> HIDE DEF chip, c
<1>6. /\ PushedFrom(st, chip, {"sf", "bw"})
      /\ ~st.failed => RateTold(st.radio, st.cache, p, lfHeld)
      /\ RateTold(chip.radio, chip.cache, p, lfHeld) => st = chip
  BY <1>4, RatePushed
<1> HIDE DEF st
<1>7. /\ Truthful(lfRadio, lfCache)' /\ Shaped(lfRadio, lfCache)'
      /\ lfRadio'.phy = lfRadio.phy /\ lfCache'.phy = lfCache.phy
      /\ lfCache'.no \subseteq LfKnob /\ lfCache'.noPhy = c.noPhy
  <2>1. lfCache'.noPhy = c.noPhy  BY <1>3, <1>5, <1>6 DEF PushedFrom
  <2> QED BY <2>1, <1>3, <1>5, <1>6, PushedChip
<1>8. \A o \in LfSender : lfPc'[o] = IF o = s THEN "power" ELSE lfPc[o]
  BY <1>1 DEF LfTyped, LfTypeOK
<1>9. st.failed \in BOOLEAN /\ st.asked \in BOOLEAN /\ Overtaken(s) \in BOOLEAN
  BY <1>6 DEF PushedFrom, Pushable, Overtaken
<1>10. LfTyped'
  BY <1>1, <1>3, <1>7, <1>8, <1>9 DEF LfTyped, LfTypeOK
<1>11. HeldIsOfTheMode'
  BY <1>1, <1>7, <1>8 DEF HeldIsOfTheMode, Refreshed
<1>12. LockInv'
  <2>1. \A q, o \in LfSender : lfPc'[q] \in {"rate", "power"} /\ lfPc'[o] \in {"rate", "power"} => q = o
    BY <1>1, <1>8 DEF LockInv, LockFree
  <2>2. ASSUME ~lfFailed' PROVE Unasked(p.phy)' /\ RateTold(lfRadio', lfCache', p, lfHeld)
    <3>1. ~lfFailed /\ ~st.failed /\ ~Overtaken(s)  BY <1>3, <1>9, <2>2
    <3>2. p.phy = LfNone \/ c.phy = p.phy \/ c.noPhy = p.phy
      BY <3>1, <1>1, <1>5 DEF LockInv, Unasked
    <3>3. Unasked(p.phy)'
      BY <3>2, <1>1, <1>5, <1>7 DEF Unasked
    <3> QED BY <3>1, <3>3, <1>3, <1>6
  <2>3. \A o \in LfSender \ {s} : lfPc'[o] \notin {"rate", "power"}
    BY <2>1, <1>8
  <2> QED BY <2>1, <2>2, <2>3, <1>1, <1>8 DEF LockInv
<1>13. ASSUME lfSettled PROVE lfPc[s] = "rate" /\ p = lfPlan /\ UNCHANGED <<lfRadio, lfCache>> /\ ~st.asked
  <2>1. lfPc[s] = "rate" /\ p = lfPlan  BY <1>13, <1>1 DEF SettledInv
  <2>2. RateTold(chip.radio, chip.cache, p, lfHeld)  BY <1>13, <2>1, <1>5 DEF SettledInv
  <2>3. st = chip  BY <2>2, <1>6
  <2> QED BY <2>1, <2>3, <1>3, <1>5
<1>14. SettledInv'
  BY <1>13, <1>1, <1>8 DEF SettledInv, Unasked
<1>15. (lfWasted => lfSettled /\ Clipped(lfPlan))'
  <2>1. lfWasted' => lfWasted  BY <1>13, <1>3, <1>9
  <2> QED BY <2>1, <1>1, <1>13 DEF Clipped
<1>16. SizeInv'
  BY <1>1, <1>8 DEF SizeInv, Sizing
<1> QED BY <1>7, <1>10, <1>11, <1>12, <1>14, <1>15, <1>16

(* A settled power is asked for again only where the driver clamps it: it has been *)
(* told, so it is either refused or what the driver made of it.                   *)
LEMMA AskedIsClipped ==
  ASSUME LfDescribed, Truthful(lfRadio, lfCache), lfPlan \in LfPlanned, lfRadio.phy \in LfMode,
         NEW chip, chip.cache = lfCache, chip.radio = lfRadio,
         PowerTold(lfRadio, lfCache, lfPlan, lfRadio.phy), lfPlan.dbm # LfNone,
         Asks(chip, "dbm", Clamped(lfPlan.dbm, LfPower[lfRadio.phy]))
  PROVE  Clipped(lfPlan)
<1> DEFINE m == lfRadio.phy
           v == Clamped(lfPlan.dbm, LfPower[m])
<1>1. v # LfNone /\ lfCache.knob["dbm"] # v /\ "dbm" \notin lfCache.no
  BY DEF Asks
<1>2. lfCache.knob["dbm"] = Taken(m, "dbm", v)
  BY <1>1 DEF PowerTold, Told
<1>3. Taken(m, "dbm", v) # LfNone
  <2>1. v \in Int  BY ClampedIsANumber DEF LfPlanned, LfDescribed
  <2>2. Taken(m, "dbm", v) \in Int  BY <2>1, ClampedIsANumber DEF Taken, LfDescribed
  <2> QED BY <2>2 DEF LfDescribed
<1>4. "dbm" \notin LfRefuses[m]
  BY <1>2, <1>3 DEF Truthful, LfKnob
<1> QED BY <1>1, <1>2, <1>4 DEF Clipped

(* A settled plan is one everybody under way has, and all of it has been told.  *)
LEMMA SettledSays ==
  ASSUME LfIndInv, lfSettled
  PROVE  /\ Unasked(lfPlan.phy)
         /\ RateTold(lfRadio, lfCache, lfPlan, lfHeld) /\ PowerTold(lfRadio, lfCache, lfPlan, lfHeld)
         /\ \A o \in LfSender : \/ lfPc[o] \in {"idle", "inject"}
                                \/ lfPc[o] \in {"lock", "rate", "power"} /\ lfTp[o] = lfPlan
BY DEF LfIndInv, SettledInv

LEMMA PushPowerKeeps ==
  ASSUME LfDescribed, LfIndInv, NEW s \in LfSender, PushPower(s)
  PROVE  LfIndInv'
<1> DEFINE p == lfTp[s]
           chip == Chip(FALSE)
<1> USE DEF LfIndInv
<1>1. /\ lfPc[s] = "power" /\ lfPc' = [lfPc EXCEPT ![s] = "inject"]
      /\ UNCHANGED <<lfPlan, lfHeld, lfMtu, lfTp, lfRead, lfRaced>>
      /\ p \in LfPlanned /\ lfHeld \in LfMode /\ lfRadio.phy \in LfMode
  BY LandsReachable DEF PushPower, Go, LfTyped, LfTypeOK, LfDescribed
<1>2. PICK bad \in Fallible \ {"phy"} :
        \E st \in {PowerAt(chip, p, lfHeld, bad)} :
          /\ Takes(st)
          /\ lfFailed' = (lfFailed \/ st.failed)
          /\ lfWasted' = (lfWasted \/ (lfSettled /\ st.asked))
          /\ lfSettled' = (lfSettled \/ (~st.failed /\ ~lfFailed /\ p = lfPlan /\ OthersFollow(s)))
  BY DEF PushPower
<1> DEFINE st == PowerAt(chip, p, lfHeld, bad)
<1>3. /\ lfRadio' = st.radio /\ lfCache' = st.cache
      /\ lfFailed' = (lfFailed \/ st.failed)
      /\ lfWasted' = (lfWasted \/ (lfSettled /\ st.asked))
      /\ lfSettled' = (lfSettled \/ (~st.failed /\ ~lfFailed /\ p = lfPlan /\ OthersFollow(s)))
  BY <1>2 DEF Takes
<1>4. Pushable(chip)
  BY ChipIsPushable
<1>5. chip.radio = lfRadio /\ chip.cache = lfCache /\ chip.asked = FALSE
  BY DEF Chip
<1> HIDE DEF chip
<1>6. /\ PushedFrom(st, chip, {"dbm", "edcca"})
      /\ ~st.failed \/ PowerTold(chip.radio, chip.cache, p, lfHeld) => PowerTold(st.radio, st.cache, p, lfHeld)
      /\ PowerTold(chip.radio, chip.cache, p, lfHeld)
           /\ (p.dbm = LfNone \/ ~Asks(chip, "dbm", Clamped(p.dbm, LfPower[lfHeld]))) => st = chip
  BY <1>1, <1>4, PowerPushed
<1> HIDE DEF st
<1>7. /\ Truthful(lfRadio, lfCache)' /\ Shaped(lfRadio, lfCache)'
      /\ lfRadio'.phy = lfRadio.phy /\ lfCache'.phy = lfCache.phy
      /\ lfCache'.no \subseteq LfKnob /\ lfCache'.noPhy = lfCache.noPhy
  <2>1. lfCache'.noPhy = lfCache.noPhy  BY <1>3, <1>5, <1>6 DEF PushedFrom
  <2> QED BY <2>1, <1>3, <1>5, <1>6, PushedChip
<1>8. \A o \in LfSender : lfPc'[o] = IF o = s THEN "inject" ELSE lfPc[o]
  BY <1>1 DEF LfTyped, LfTypeOK
<1>9. st.failed \in BOOLEAN /\ st.asked \in BOOLEAN /\ OthersFollow(s) \in BOOLEAN
  BY <1>6 DEF PushedFrom, Pushable, OthersFollow
<1>10. LfTyped'
  <2>1. {lfFailed', lfSettled', lfWasted'} \subseteq BOOLEAN
    BY <1>3, <1>9 DEF LfTyped
  <2> QED BY <1>1, <1>7, <1>8, <2>1 DEF LfTyped, LfTypeOK
<1>11. HeldIsOfTheMode'
  BY <1>1, <1>7, <1>8 DEF HeldIsOfTheMode, Refreshed
<1>12. LockInv'
  BY <1>1, <1>8 DEF LockInv
<1>13. ASSUME RateTold(lfRadio, lfCache, p, lfHeld) PROVE RateTold(lfRadio', lfCache', p, lfHeld)
  <2>1. \A j \in {"sf", "bw"} : \A w : Knows(chip, j, w) => Knows(st, j, w)
    BY <1>6 DEF PushedFrom, LfKnob
  <2>2. \A j \in {"sf", "bw"} : \A w : Told(lfRadio, lfCache, j, w) => Told(lfRadio', lfCache', j, w)
    BY <2>1, <1>3, <1>5 DEF Knows
  <2> QED BY <2>2, <1>13 DEF RateTold
<1>14. SettledInv'
  <2>1. CASE lfSettled
    <3>1. /\ p = lfPlan /\ Unasked(p.phy)
          /\ RateTold(lfRadio, lfCache, p, lfHeld) /\ PowerTold(chip.radio, chip.cache, p, lfHeld)
          /\ \A o \in LfSender : \/ lfPc[o] \in {"idle", "inject"}
                                 \/ lfPc[o] \in {"lock", "rate", "power"} /\ lfTp[o] = lfPlan
      <4>1. /\ Unasked(lfPlan.phy)
            /\ RateTold(lfRadio, lfCache, lfPlan, lfHeld) /\ PowerTold(lfRadio, lfCache, lfPlan, lfHeld)
            /\ \A o \in LfSender : \/ lfPc[o] \in {"idle", "inject"}
                                   \/ lfPc[o] \in {"lock", "rate", "power"} /\ lfTp[o] = lfPlan
        BY <2>1, SettledSays
      <4>2. p = lfPlan  BY <4>1, <1>1
      <4> HIDE DEF p
      <4> QED BY <4>1, <4>2, <1>5
    <3>2. Unasked(p.phy)' /\ RateTold(lfRadio', lfCache', p, lfHeld) /\ PowerTold(lfRadio', lfCache', p, lfHeld)
      BY <3>1, <1>1, <1>3, <1>6, <1>7, <1>13 DEF Unasked
    <3>3. \A o \in LfSender : \/ lfPc'[o] \in {"idle", "inject"}
                              \/ lfPc'[o] \in {"lock", "rate", "power"} /\ lfTp'[o] = lfPlan'
      BY <3>1, <1>1, <1>8
    <3> QED BY <3>1, <3>2, <3>3, <1>1 DEF SettledInv
  <2>2. CASE ~st.failed /\ ~lfFailed /\ p = lfPlan /\ OthersFollow(s)
    <3>1. \A o \in LfSender \ {s} : ~Refreshing(o)
      BY <2>2 DEF OthersFollow, Refreshing
    <3>2. Unasked(p.phy) /\ RateTold(lfRadio, lfCache, p, lfHeld)
      BY <2>2, <3>1, <1>1 DEF LockInv
    <3>3. Unasked(p.phy)' /\ RateTold(lfRadio', lfCache', p, lfHeld) /\ PowerTold(lfRadio', lfCache', p, lfHeld)
      BY <3>2, <2>2, <1>1, <1>3, <1>6, <1>7, <1>13 DEF Unasked
    <3>4. \A o \in LfSender : \/ lfPc'[o] \in {"idle", "inject"}
                              \/ lfPc'[o] \in {"lock", "rate", "power"} /\ lfTp'[o] = lfPlan'
      BY <2>2, <1>1, <1>8 DEF OthersFollow
    <3> QED BY <2>2, <3>3, <3>4, <1>1 DEF SettledInv
  <2>3. CASE ~lfSettled'
    BY <2>3 DEF SettledInv
  <2> QED BY <2>1, <2>2, <2>3, <1>3, <1>9
<1>15. (lfWasted => lfSettled /\ Clipped(lfPlan))'
  <2>1. lfRadio'.phy = lfRadio.phy /\ lfPlan' = lfPlan  BY <1>1, <1>7
  <2>2. CASE lfWasted
    <3>1. lfSettled' /\ Clipped(lfPlan)  BY <2>2, <1>3, <1>9
    <3> QED BY <3>1, <2>1 DEF Clipped
  <2>3. CASE lfSettled /\ st.asked
    <3>1. p = lfPlan /\ PowerTold(chip.radio, chip.cache, p, lfHeld)  BY <2>3, <1>1, <1>5 DEF SettledInv
    <3>a. st # chip  BY <2>3, <1>5, <1>9
    <3>2. p.dbm # LfNone /\ Asks(chip, "dbm", Clamped(p.dbm, LfPower[lfHeld]))
      BY <3>1, <3>a, <1>6
    <3>3. lfHeld = lfRadio.phy
      <4>1. Refreshed  BY <2>3 DEF SettledInv, Refreshed
      <4> QED BY <4>1 DEF HeldIsOfTheMode
    <3>4. Clipped(lfPlan)  BY <3>1, <3>2, <3>3, <1>1, <1>5, AskedIsClipped
    <3>5. lfSettled'  BY <2>3, <1>3, <1>9
    <3> QED BY <3>4, <3>5, <2>1 DEF Clipped
  <2>4. lfWasted' => lfWasted \/ (lfSettled /\ st.asked)  BY <1>3
  <2> QED BY <2>2, <2>3, <2>4
<1>16. SizeInv'
  BY <1>1, <1>8 DEF SizeInv, Sizing
<1> QED BY <1>7, <1>10, <1>11, <1>12, <1>14, <1>15, <1>16

LEMMA LfStepInv ==
  ASSUME LfDescribed, LfIndInv, [LfNext]_lfVars
  PROVE  LfIndInv'
<1>1. CASE UNCHANGED lfVars
  BY <1>1 DEF lfVars, LfIndInv, LfTyped, LfTypeOK, Shaped, Truthful, HeldIsOfTheMode, Refreshed,
     LockInv, SettledInv, Unasked, Refreshing, Clipped, SizeInv, Sizing
<1>2. CASE WritePlan  BY <1>2, WritePlanKeeps
<1>3. CASE \E s \in LfSender : \/ ReadPlan(s) \/ SwitchPhy(s) \/ RefreshCapability(s) \/ ReadDeclared(s)
                               \/ StoreMtu(s) \/ PushRate(s) \/ PushPower(s) \/ Inject(s)
  BY <1>3, ReadPlanKeeps, SwitchPhyKeeps, RefreshKeeps, ReadDeclaredKeeps, StoreMtuKeeps,
     PushRateKeeps, PushPowerKeeps, InjectKeeps
<1> QED BY <1>1, <1>2, <1>3 DEF LfNext

(* A clipped power of a settled plan is still to be asked for.                    *)
LEMMA ClippedIsAsked ==
  ASSUME LfDescribed, LfIndInv, lfSettled, Clipped(lfPlan)
  PROVE  Asks([cache |-> lfCache], "dbm", Clamped(lfPlan.dbm, LfPower[lfRadio.phy]))
<1> DEFINE m == lfRadio.phy
           v == Clamped(lfPlan.dbm, LfPower[m])
<1> USE DEF LfIndInv
<1>1. /\ lfPlan \in LfPlanned /\ m \in LfMode /\ lfHeld = m /\ PowerTold(lfRadio, lfCache, lfPlan, m)
  <2>1. Refreshed  BY DEF SettledInv, Refreshed
  <2> QED BY <2>1, LandsReachable DEF SettledInv, HeldIsOfTheMode, LfTyped, LfTypeOK, LfDescribed
<1>2. lfPlan.dbm # LfNone /\ "dbm" \notin LfRefuses[m] /\ Taken(m, "dbm", v) # v
  BY DEF Clipped
<1>3. v \in Int /\ v # LfNone
  BY <1>1, <1>2, ClampedIsANumber DEF LfPlanned, LfDescribed
<1>4. "dbm" \notin lfCache.no
  BY <1>2 DEF Truthful
<1>5. lfCache.knob["dbm"] = Taken(m, "dbm", v)
  BY <1>1, <1>2, <1>3, <1>4 DEF PowerTold, Told
<1> QED BY <1>2, <1>3, <1>4, <1>5 DEF Asks

(* Of a told plan the chip runs every knob that its mode has.                  *)
LEMMA ToldIsRun ==
  ASSUME LfDescribed, LandingStays, LfIndInv, lfSettled
  PROVE  Runs(lfPlan)
<1> DEFINE p == lfPlan
           m == lfRadio.phy
<1> USE DEF LfIndInv
<1>1. /\ p \in LfPlanned /\ m \in LfMode /\ lfHeld = m
      /\ Unasked(p.phy) /\ RateTold(lfRadio, lfCache, p, m) /\ PowerTold(lfRadio, lfCache, p, m)
  <2>1. Refreshed  BY DEF SettledInv, Refreshed
  <2> QED BY <2>1, LandsReachable DEF SettledInv, HeldIsOfTheMode, LfTyped, LfTypeOK, LfDescribed
<1>2. /\ p.phy \in {LfNone} \cup LfMode /\ p.sf \in {LfNone} \cup Int /\ p.dbm \in {LfNone} \cup Int
      /\ LfSpan[m] \in {LfNone} \cup (Int \X Int) /\ LfPower[m] \in Int \X Int
  BY <1>1 DEF LfPlanned, LfDescribed
<1>3. ASSUME p.phy # LfNone, phy_switch_allowed(p.phy), lfCache.noPhy # p.phy
      PROVE  m = LfLands[p.phy]
  <2>1. lfCache.phy = p.phy /\ m = p.phy
    BY <1>1, <1>3 DEF Unasked, Truthful
  <2>2. PICK w \in LfAdvertised : p.phy = LfLands[w]
    BY <2>1, <1>3 DEF Truthful
  <2>3. LfLands[w] \in LfAdvertised
    BY <2>2, <1>3 DEF phy_switch_allowed
  <2>4. LfLands[LfLands[w]] = LfLands[w]
    BY <2>3 DEF LandingStays
  <2> QED BY <2>1, <2>2, <2>4
<1>4. ASSUME NEW k \in LfKnob, NEW v, v # LfNone, Taken(m, k, v) # LfNone, k \notin LfRefuses[m],
             Told(lfRadio, lfCache, k, v)
      PROVE  lfRadio.knob[k] = Taken(m, k, v)
  BY <1>4 DEF Told, Truthful
<1>5. (p.sf # LfNone /\ LfSpan[m] # LfNone /\ "sf" \notin LfRefuses[m]) =>
        lfRadio.knob.sf = Clamped(p.sf, LfSpan[m])
  <2>1. "sf" \in LfKnob /\ \A v : Taken(m, "sf", v) = v  BY DEF LfKnob, Taken
  <2>2. (p.sf # LfNone /\ LfSpan[m] # LfNone) => Clamped(p.sf, LfSpan[m]) # LfNone
    BY <1>2, ClampedIsANumber DEF LfDescribed
  <2> QED BY <1>1, <1>4, <2>1, <2>2 DEF RateTold
<1>6. (p.dbm # LfNone /\ "dbm" \notin LfRefuses[m]) =>
        lfRadio.knob.dbm = Taken(m, "dbm", Clamped(p.dbm, LfPower[m]))
  <2>1. "dbm" \in LfKnob  BY DEF LfKnob
  <2>2. p.dbm # LfNone => Clamped(p.dbm, LfPower[m]) \in Int
    BY <1>2, ClampedIsANumber
  <2>3. p.dbm # LfNone => Taken(m, "dbm", Clamped(p.dbm, LfPower[m])) \in Int
    BY <1>1, <2>2, ClampedIsANumber DEF Taken, LfDescribed
  <2> QED BY <1>1, <1>4, <2>1, <2>2, <2>3 DEF PowerTold, LfDescribed
<1>7. \A k \in {"bw", "edcca"} : (p[k] # LfNone /\ k \notin LfRefuses[m]) => lfRadio.knob[k] = p[k]
  <2>1. "bw" \in LfKnob /\ "edcca" \in LfKnob /\ \A v : Taken(m, "bw", v) = v /\ Taken(m, "edcca", v) = v
    BY DEF LfKnob, Taken
  <2>2. Told(lfRadio, lfCache, "bw", p["bw"]) /\ Told(lfRadio, lfCache, "edcca", p["edcca"])
    BY <1>1 DEF RateTold, PowerTold
  <2> QED BY <1>4, <2>1, <2>2
<1> QED BY <1>3, <1>5, <1>6, <1>7 DEF Runs

---------------------------------------------------------------------------
LEMMA DivIsClose ==
  ASSUME NEW a \in Nat, NEW u \in Nat \ {0}
  PROVE  /\ a \div u \in Nat /\ u * (a \div u) <= a /\ a < u * (a \div u) + u
OBVIOUS

LEMMA LtInitInv ==
  ASSUME LtInit
  PROVE  LtIndInv
BY DEF LtInit, LtIndInv, NothingLeavesEarly

(* What is left to sleep of an instant, as Sleep computes it.                   *)
RestOf(tick, r) == IF tick > r THEN (((tick - r) * LtTick) \div LtUs) * LtUs ELSE 0

(* A counter read at an instant had not gone past it, and what is left to sleep *)
(* falls short of what is wanted by less than a microsecond.                    *)
LEMMA SleepIsLongEnough ==
  ASSUME NEW at \in Nat, NEW r \in Nat, NEW tick \in Nat, r * LtTick <= at
  PROVE  at + RestOf(tick, r) \in Nat /\ at + RestOf(tick, r) + LtUs > LtTick * tick
<1> DEFINE rest == RestOf(tick, r)
<1>1. LtUs \in Nat \ {0} /\ LtTick \in Nat \ {0}  BY LtAssumption
<1>2. CASE tick > r
  <2> DEFINE units == (tick - r) * LtTick
             whole == (units \div LtUs) * LtUs
  <2>1. tick - r \in Nat  BY <1>2
  <2>2. units \in Nat /\ units = LtTick * tick - r * LtTick
    BY <2>1, <1>1
  <2>3. LtTick * tick \in Nat /\ r * LtTick \in Nat  BY <1>1
  <2> HIDE DEF units
  <2>4. units \div LtUs \in Nat /\ LtUs * (units \div LtUs) <= units /\ units < LtUs * (units \div LtUs) + LtUs
    BY <2>2, <1>1, DivIsClose
  <2>5. whole \in Nat /\ whole = LtUs * (units \div LtUs)
    BY <2>4, <1>1
  <2>6. rest = whole  BY <1>2 DEF units, RestOf
  <2> HIDE DEF whole, rest
  <2>7. units < whole + LtUs  BY <2>4, <2>5
  <2>8. \A a, b \in Nat : units = a - b /\ b <= at => at + whole + LtUs > a
    BY <2>2, <2>5, <2>7, <1>1
  <2>9. at + whole + LtUs > LtTick * tick  BY <2>2, <2>3, <2>8
  <2> QED BY <2>5, <2>6, <2>9 DEF rest
<1>3. CASE ~(tick > r)
  <2>1. tick <= r  BY <1>3
  <2>2. tick * LtTick <= r * LtTick
    <3>1. PICK d \in Nat : r = tick + d  BY <2>1
    <3>2. r * LtTick = tick * LtTick + d * LtTick  BY <3>1, <1>1
    <3>3. d * LtTick \in Nat /\ tick * LtTick \in Nat  BY <1>1
    <3> QED BY <3>2, <3>3
  <2>3. LtTick * tick = tick * LtTick /\ tick * LtTick \in Nat /\ r * LtTick \in Nat  BY <1>1
  <2>4. rest = 0  BY <1>3 DEF RestOf
  <2>5. \A a, b \in Nat : a <= b /\ b <= at => at + LtUs > a
    BY <1>1
  <2>6. at + LtUs > LtTick * tick  BY <2>2, <2>3, <2>5
  <2> QED BY <2>4, <2>6, <1>1 DEF rest
<1> QED BY <1>2, <1>3

LEMMA LtStepInv ==
  ASSUME LtTimed, LtIndInv, [LtNext]_ltVars
  PROVE  LtIndInv'
<1> USE LtAssumption DEF LtIndInv
<1>0. LtUs \in Nat \ {0} /\ LtTick \in Nat \ {0}  BY DEF LtAssumption
<1>1. CASE UNCHANGED ltVars
  BY <1>1 DEF ltVars, NothingLeavesEarly
<1>2. CASE TimePasses
  <2>1. \A f \in LtFrame : ltPc[f] = "reading" /\ ltRead[f] > 0 => (ltRead[f] - 1) * LtTick <= ltNow + 1
    <3>1. ASSUME NEW f \in LtFrame, ltPc[f] = "reading", ltRead[f] > 0
          PROVE  (ltRead[f] - 1) * LtTick <= ltNow + 1
      <4>1. (ltRead[f] - 1) * LtTick <= ltNow /\ ltRead[f] - 1 \in Nat  BY <3>1
      <4>2. (ltRead[f] - 1) * LtTick \in Nat  BY <4>1, <1>0
      <4> QED BY <4>1, <4>2
    <3> QED BY <3>1
  <2> QED BY <1>2, <2>1 DEF TimePasses, NothingLeavesEarly
<1>3. ASSUME NEW f \in LtFrame,
             SendNow(f) \/ SendAfter(f) \/ SendAt(f) \/ Reply(f) \/ ReadFails(f) \/ Sleep(f) \/ Inject_at(f)
      PROVE  LtIndInv'
  <2>0. /\ ltTiming[f] \in LtTiming
        /\ (ltTiming[f].kind = "after" => LtUs * ltTiming[f].us \in Nat)
        /\ (ltTiming[f].kind = "at" => ltTiming[f].tick \in Nat /\ LtTick * ltTiming[f].tick \in Nat)
    BY <1>0 DEF LtTimed
  <2>1. CASE SendNow(f)
    BY <2>1, <1>0 DEF SendNow, Leaves, Goes, Fixed, NothingLeavesEarly
  <2>2. CASE SendAfter(f)
    <3>1. PICK late \in 0 .. 1, pc \in {"armed", "asleep"} :
            /\ ltPc' = [ltPc EXCEPT ![f] = pc]
            /\ ltDue' = [ltDue EXCEPT ![f] = ltNow + LtUs * ltTiming[f].us]
            /\ ltWake' = [ltWake EXCEPT ![f] = ltNow + LtUs * ltTiming[f].us + late]
            /\ UNCHANGED <<ltRadio, ltNow, ltTiming, ltRead, ltLeft>>
      <4>1. CASE schedules_tx_in_hardware
        BY <4>1, <2>2 DEF SendAfter, schedules_tx_in_hardware, Goes, Wanted, Wakes, Fixed
      <4>2. CASE ~schedules_tx_in_hardware
        <5>1. 0 \in 0 .. 1 /\ ltNow + LtUs * ltTiming[f].us + 0 = ltNow + LtUs * ltTiming[f].us
          BY <2>0, <2>2 DEF SendAfter
        <5> QED BY <4>2, <5>1, <2>2 DEF SendAfter, Goes, Wanted, Wakes, Fixed
      <4> QED BY <4>1, <4>2
    <3> DEFINE due == ltNow + LtUs * ltTiming[f].us
    <3>2. due \in Nat /\ due + late \in Nat /\ due + late + LtUs > due
      BY <2>0, <2>2, <1>0 DEF SendAfter
    <3> HIDE DEF due
    <3>3. ltDue' = [ltDue EXCEPT ![f] = due] /\ ltWake' = [ltWake EXCEPT ![f] = due + late]
      BY <3>1 DEF due
    <3> QED BY <3>1, <3>2, <3>3 DEF NothingLeavesEarly
  <2>3. CASE SendAt(f)
    <3> DEFINE due == LtTick * ltTiming[f].tick
    <3>0. ltTiming[f].kind = "at" /\ ltPc[f] = "idle" /\ ltRadio' = ltRadio /\ ltNow' = ltNow
          /\ ltTiming' = ltTiming /\ ltRead' = ltRead /\ ltLeft' = ltLeft /\ due \in Nat
      BY <2>3, <2>0 DEF SendAt, Fixed
    <3>1. CASE /\ ltPc' = [ltPc EXCEPT ![f] = "armed"]
               /\ \E w \in {due, ltNow}, d \in {due, 0} :
                    /\ w = due \/ d = 0
                    /\ ltDue' = [ltDue EXCEPT ![f] = d] /\ ltWake' = [ltWake EXCEPT ![f] = w]
      <4> HIDE DEF due
      <4> QED BY <3>0, <3>1, <1>0 DEF NothingLeavesEarly
    <3>2. CASE ltPc' = [ltPc EXCEPT ![f] = "reading"] /\ ltDue' = [ltDue EXCEPT ![f] = due] /\ ltWake' = ltWake
               /\ ltRead[f] = 0
      BY <3>0, <3>2, <1>0 DEF NothingLeavesEarly
    <3>3. CASE ltPc' = [ltPc EXCEPT ![f] = "refused"] /\ ltDue' = ltDue /\ ltWake' = ltWake
      BY <3>0, <3>3, <1>0 DEF NothingLeavesEarly
    <3> QED BY <3>0, <3>1, <3>2, <3>3, <2>3 DEF SendAt, Goes, Wanted, Wakes
  <2>4. CASE Reply(f)
    <3>1. Counter \in Nat /\ Counter * LtTick <= ltNow
      <4>1. ltNow \div LtTick \in Nat /\ LtTick * (ltNow \div LtTick) <= ltNow  BY <1>0, DivIsClose
      <4>2. Counter * LtTick = LtTick * (ltNow \div LtTick)  BY <4>1, <1>0 DEF Counter
      <4> QED BY <4>1, <4>2 DEF Counter
    <3>2. Counter + 1 \in Nat /\ (Counter + 1) - 1 = Counter  BY <3>1
    <3> QED BY <2>4, <3>1, <3>2 DEF Reply, Fixed, NothingLeavesEarly
  <2>5. CASE ReadFails(f)
    BY <2>5, <1>0 DEF ReadFails, Leaves, Goes, Wanted, Fixed, NothingLeavesEarly
  <2>6. CASE Sleep(f)
    <3> DEFINE r == ltRead[f] - 1
               rest == IF ltTiming[f].tick > r THEN Remaining(f) ELSE 0
    <3>1. /\ ltPc[f] = "reading" /\ ltPc' = [ltPc EXCEPT ![f] = "asleep"]
          /\ ltWake' = [ltWake EXCEPT ![f] = ltNow + rest]
          /\ UNCHANGED <<ltRadio, ltNow, ltTiming, ltRead, ltDue, ltLeft>>
      BY <2>6 DEF Sleep, Goes, Wakes, Fixed
    <3>2. r \in Nat /\ r * LtTick <= ltNow /\ ltTiming[f].tick \in Nat
      BY <2>0, <2>6 DEF Sleep
    <3>3. rest = RestOf(ltTiming[f].tick, r)
      BY DEF Remaining, RestOf
    <3> HIDE DEF rest, r
    <3>4. ltNow + rest \in Nat /\ ltNow + rest + LtUs > LtTick * ltTiming[f].tick
      BY <3>2, <3>3, SleepIsLongEnough
    <3> DEFINE w == ltNow + rest
    <3>5. w \in Nat /\ w + LtUs > ltDue[f] /\ ltWake' = [ltWake EXCEPT ![f] = w]
      BY <3>1, <3>4
    <3> HIDE DEF w
    <3> QED BY <3>1, <3>5 DEF NothingLeavesEarly
  <2>7. CASE Inject_at(f)
    BY <2>7, <1>0 DEF Inject_at, Leaves, Goes, Fixed, NothingLeavesEarly
  <2> QED BY <1>3, <2>1, <2>2, <2>3, <2>4, <2>5, <2>6, <2>7
<1> QED BY <1>1, <1>2, <1>3 DEF LtNext

---------------------------------------------------------------------------
(* What the senders of a LoRa face push is what its chip runs, power as the     *)
(* driver clamps it, whoever of them switches the mode and however they         *)
(* interleave.  A pushed plan is pushed again only for a power the driver       *)
(* clamps, and that with every frame; the frame size is the description's       *)
(* unless two refreshes have crossed; and no frame leaves early (push_plan,     *)
(* refresh_capability, inject_scheduled of ndn-phy-lora).  For any senders,     *)
(* modes, plans, radios and timings, any failures of the driver, and modes that *)
(* land on themselves once landed on (LandingStays).                            *)
THEOREM LoraKeepsItsWord ==
  ASSUME LandingStays
  PROVE  LfSpec /\ LtSpec => []LoraInv
<1>1. LfInit => LfIndInv  BY LfInitInv
<1>2. LfIndInv /\ [LfNext]_lfVars => LfIndInv'  BY LfTypesAssumption, LfStepInv
<1>3. LtInit => LtIndInv  BY LtInitInv
<1>4. LtIndInv /\ [LtNext]_ltVars => LtIndInv'  BY LfTypesAssumption, LtStepInv
<1>5. LfIndInv /\ LtIndInv => LoraInv
  <2>1. LfIndInv => MtuIsTheCaps
    BY DEF LfIndInv, SizeInv, MtuIsTheCaps
  <2>2. LfIndInv => UnchangedPlanIsFree
    BY LfTypesAssumption, ClippedIsAsked DEF LfIndInv, UnchangedPlanIsFree
  <2> QED BY <2>1, <2>2, LfTypesAssumption, ToldIsRun
          DEF LfIndInv, LtIndInv, LoraInv, LfTyped, AppliedIsTheRadio, Truthful, SettledIsThePlan
<1> QED BY <1>1, <1>2, <1>3, <1>4, <1>5, PTL DEF LfSpec, LtSpec

---------------------------------------------------------------------------
(* ---------------------------------- Ble ---------------------------------- *)

(* ----------------------------- advertisements ---------------------------- *)
(* An advert has the address of the node that its task sends on. *)
BaAdvert == {a \in [addr : BaKey, packet : BaTask \X Nat, i : Nat] : a.addr = BaAddr[BaAt[a.packet[1]]]}
OfKey(k) == {a \in BaAdvert : a.addr = k}

AirTypes ==
  /\ baFraming \in {"ndnlpv2", "ndnts"} /\ baFaults \in Nat
  /\ baSent \in [BaTask -> Nat] /\ baNext \in [BaTask -> Nat]
  /\ baWaiting \in [BaNode -> Seq(BaAdvert)]
  /\ baPartial \in [BaNode -> [BaKey -> Seq(BaAdvert)]]
  /\ baGot \in [BaNode -> [BaKey -> Seq(Seq(BaAdvert))]]
  /\ \A n \in BaNode, k \in BaKey : baPartial[n][k] \in Seq(OfKey(k)) /\ baGot[n][k] \in Seq(Seq(OfKey(k)))

(* The adverts of a task among those that wait, from the fragment its reader is *)
(* to take next to the one before what it sends next, each after the other.     *)
Onward(l, all) == IF l[2] = all THEN <<l[1] + 1, 1>> ELSE <<l[1], l[2] + 1>>
Label(a) == <<a.packet[2], a.i>>
Chain(w, t, all, first, last) ==
  \A p \in 0 .. Len(w), q \in 1 .. Len(w) + 1 :
     /\ p < q /\ (p = 0 \/ w[p].packet[1] = t) /\ (q = Len(w) + 1 \/ w[q].packet[1] = t)
     /\ \A r \in 1 .. Len(w) : p < r /\ r < q => w[r].packet[1] # t
     => (IF q = Len(w) + 1 THEN last ELSE Label(w[q])) = (IF p = 0 THEN first ELSE Onward(Label(w[p]), all))

ToSend(t) == IF baNext[t] = 0 THEN <<baSent[t] + 1, 1>> ELSE <<baSent[t], baNext[t]>>
Expected(n, k) == <<Len(baGot[n][k]) + 1, Len(baPartial[n][k]) + 1>>
Arrived(n, t, k) ==
  /\ \A j \in 1 .. Len(baGot[n][k]) : Len(baGot[n][k][j]) = Adverts
       /\ \A i \in 1 .. Adverts : baGot[n][k][j][i].packet = <<t, j>> /\ baGot[n][k][j][i].i = i
  /\ \A i \in 1 .. Len(baPartial[n][k]) :
       baPartial[n][k][i].packet = <<t, Len(baGot[n][k]) + 1>> /\ baPartial[n][k][i].i = i
  /\ Len(baPartial[n][k]) < Adverts
Follows(n, t, k) == Chain(baWaiting[n], t, Adverts, Expected(n, k), ToSend(t)) /\ Arrived(n, t, k)

NotItsOwn == \A n \in BaNode : \A p \in 1 .. Len(baWaiting[n]) : BaAt[baWaiting[n][p].packet[1]] # n
AirOrder == baFaults = 0 => \A n \in BaReader, t \in BaTask :
  Alone(t) => IF BaAt[t] = n THEN baGot[n][BaAddr[BaAt[t]]] = << >> ELSE Follows(n, t, BaAddr[BaAt[t]])
AirIndInv == AirTypes /\ NotItsOwn /\ AirOrder

LEMMA AppendAt ==
  ASSUME NEW S, NEW w \in Seq(S), NEW a \in S
  PROVE  /\ Len(w) \in Nat /\ Append(w, a) \in Seq(S) /\ Len(Append(w, a)) = Len(w) + 1
         /\ \A i \in 1 .. Len(w) : Append(w, a)[i] = w[i]
         /\ Append(w, a)[Len(w) + 1] = a
  BY LenProperties, AppendProperties
LEMMA TailAt ==
  ASSUME NEW S, NEW w \in Seq(S), w # << >>
  PROVE  /\ Len(w) \in Nat \ {0} /\ Head(w) = w[1] /\ Head(w) \in S /\ Tail(w) \in Seq(S) /\ Len(Tail(w)) = Len(w) - 1
         /\ \A i \in 1 .. Len(w) - 1 : Tail(w)[i] = w[i + 1]
  BY LenProperties, HeadTailProperties

LEMMA ChainOfNone ==
  ASSUME NEW t, NEW all, NEW first
  PROVE  Chain(<< >>, t, all, first, first)
<1>1. Len(<< >>) = 0
  OBVIOUS
<1> QED BY <1>1 DEF Chain

LEMMA ChainAppendOther ==
  ASSUME NEW S, NEW w \in Seq(S), NEW a \in S, NEW t, NEW all, NEW first, NEW last,
         Chain(w, t, all, first, last), a.packet[1] # t
  PROVE  Chain(Append(w, a), t, all, first, last)
<1> DEFINE v == Append(w, a)
<1>1. /\ Len(w) \in Nat /\ Len(v) = Len(w) + 1
      /\ \A i \in 1 .. Len(w) : v[i] = w[i]
      /\ v[Len(w) + 1] = a
  BY AppendAt
<1> HIDE DEF v
<1>2. ASSUME NEW p \in 0 .. Len(v), NEW q \in 1 .. Len(v) + 1,
             p < q, p = 0 \/ v[p].packet[1] = t, q = Len(v) + 1 \/ v[q].packet[1] = t,
             \A r \in 1 .. Len(v) : p < r /\ r < q => v[r].packet[1] # t
      PROVE  (IF q = Len(v) + 1 THEN last ELSE Label(v[q])) = (IF p = 0 THEN first ELSE Onward(Label(v[p]), all))
  <2> DEFINE o == IF q = Len(v) + 1 THEN Len(w) + 1 ELSE q
  <2>1. p # Len(w) + 1 /\ q # Len(w) + 1
    BY <1>1, <1>2
  <2>2. p \in 0 .. Len(w) /\ o \in 1 .. Len(w) + 1 /\ p < o /\ (q # Len(v) + 1 => q \in 1 .. Len(w)) /\ (p # 0 => p \in 1 .. Len(w))
    BY <1>1, <1>2, <2>1
  <2>3. p = 0 \/ w[p].packet[1] = t
    BY <1>1, <1>2, <2>2
  <2>4. o = Len(w) + 1 \/ w[o].packet[1] = t
    BY <1>1, <1>2, <2>2
  <2>5. ASSUME NEW r \in 1 .. Len(w), p < r, r < o PROVE w[r].packet[1] # t
    <3>1. r \in 1 .. Len(v) /\ r < q
      BY <1>1, <1>2, <2>5
    <3> QED BY <1>1, <1>2, <2>5, <3>1
  <2>6. (IF o = Len(w) + 1 THEN last ELSE Label(w[o])) = (IF p = 0 THEN first ELSE Onward(Label(w[p]), all))
    <3> HIDE DEF o
    <3> QED BY <2>2, <2>3, <2>4, <2>5 DEF Chain
  <2>7. (o = Len(w) + 1) = (q = Len(v) + 1)
    BY <1>1, <2>2
  <2>8. q # Len(v) + 1 => v[q] = w[o]
    BY <1>1, <2>2
  <2>9. p # 0 => v[p] = w[p]
    BY <1>1, <2>2
  <2> HIDE DEF o
  <2> QED BY <2>6, <2>7, <2>8, <2>9
<1> QED BY <1>2 DEF Chain, v

LEMMA ChainAppendOwn ==
  ASSUME NEW S, NEW w \in Seq(S), NEW a \in S, NEW t, NEW all, NEW first, NEW last,
         Chain(w, t, all, first, last), a.packet[1] = t, Label(a) = last
  PROVE  Chain(Append(w, a), t, all, first, Onward(last, all))
<1> DEFINE v == Append(w, a)
<1>1. /\ Len(w) \in Nat /\ Len(v) = Len(w) + 1
      /\ \A i \in 1 .. Len(w) : v[i] = w[i]
      /\ v[Len(w) + 1] = a
  BY AppendAt
<1> HIDE DEF v
<1>2. ASSUME NEW p \in 0 .. Len(v), NEW q \in 1 .. Len(v) + 1,
             p < q, p = 0 \/ v[p].packet[1] = t, q = Len(v) + 1 \/ v[q].packet[1] = t,
             \A r \in 1 .. Len(v) : p < r /\ r < q => v[r].packet[1] # t
      PROVE  (IF q = Len(v) + 1 THEN Onward(last, all) ELSE Label(v[q])) = (IF p = 0 THEN first ELSE Onward(Label(v[p]), all))
  <2>1. CASE q = Len(v) + 1
    <3>1. p = Len(w) + 1 /\ p # 0
      BY <1>1, <1>2, <2>1
    <3>2. v[p] = a
      BY <1>1, <3>1
    <3> QED BY <2>1, <3>1, <3>2
  <2>2. CASE q # Len(v) + 1
    <3>1. p \in 0 .. Len(w) /\ q \in 1 .. Len(w) + 1 /\ (q # Len(w) + 1 => q \in 1 .. Len(w)) /\ (p # 0 => p \in 1 .. Len(w))
      BY <1>1, <1>2, <2>2
    <3>2. p = 0 \/ w[p].packet[1] = t
      BY <1>1, <1>2, <3>1
    <3>3. q = Len(w) + 1 \/ w[q].packet[1] = t
      BY <1>1, <1>2, <2>2, <3>1
    <3>4. ASSUME NEW r \in 1 .. Len(w), p < r, r < q PROVE w[r].packet[1] # t
      <4>1. r \in 1 .. Len(v)
        BY <1>1
      <4> QED BY <1>1, <1>2, <3>4, <4>1
    <3>5. (IF q = Len(w) + 1 THEN last ELSE Label(w[q])) = (IF p = 0 THEN first ELSE Onward(Label(w[p]), all))
      BY <1>2, <3>1, <3>2, <3>3, <3>4 DEF Chain
    <3>6. Label(v[q]) = IF q = Len(w) + 1 THEN last ELSE Label(w[q])
      BY <1>1, <3>1
    <3>7. p # 0 => v[p] = w[p]
      BY <1>1, <3>1
    <3> QED BY <2>2, <3>5, <3>6, <3>7
  <2> QED BY <2>1, <2>2
<1> QED BY <1>2 DEF Chain, v

LEMMA ChainTail ==
  ASSUME NEW S, NEW w \in Seq(S), w # << >>, NEW t, NEW all, NEW first, NEW last,
         Chain(w, t, all, first, last)
  PROVE  /\ w[1].packet[1] # t => Chain(Tail(w), t, all, first, last)
         /\ w[1].packet[1] = t => Label(w[1]) = first /\ Chain(Tail(w), t, all, Onward(first, all), last)
<1> DEFINE v == Tail(w)
           own == w[1].packet[1] = t
           begin == IF own THEN Onward(first, all) ELSE first
<1>1. /\ Len(w) \in Nat /\ Len(w) >= 1 /\ Len(v) = Len(w) - 1
      /\ \A i \in 1 .. Len(w) - 1 : v[i] = w[i + 1]
  BY TailAt
<1> HIDE DEF v
<1>0. own => Label(w[1]) = first
  <2> SUFFICES ASSUME own PROVE Label(w[1]) = first
    OBVIOUS
  <2>1. 0 \in 0 .. Len(w) /\ 1 \in 1 .. Len(w) + 1 /\ 0 < 1 /\ 1 # Len(w) + 1 /\ \A r \in 1 .. Len(w) : ~(0 < r /\ r < 1)
    BY <1>1
  <2> QED BY <2>1 DEF Chain
<1>2. ASSUME NEW p \in 0 .. Len(v), NEW q \in 1 .. Len(v) + 1,
             p < q, p = 0 \/ v[p].packet[1] = t, q = Len(v) + 1 \/ v[q].packet[1] = t,
             \A r \in 1 .. Len(v) : p < r /\ r < q => v[r].packet[1] # t
      PROVE  (IF q = Len(v) + 1 THEN last ELSE Label(v[q])) = (IF p = 0 THEN begin ELSE Onward(Label(v[p]), all))
  <2> DEFINE o == IF p = 0 /\ ~own THEN 0 ELSE p + 1
             u == q + 1
  <2> HIDE DEF own
  <2>1. /\ o \in 0 .. Len(w) /\ u \in 1 .. Len(w) + 1 /\ o < u
        /\ (q = Len(v) + 1) = (u = Len(w) + 1)
        /\ (p # 0 => p \in 1 .. Len(w) - 1 /\ o = p + 1) /\ (q # Len(v) + 1 => q \in 1 .. Len(w) - 1)
    BY <1>1, <1>2
  <2>2. o = 0 \/ w[o].packet[1] = t
    BY <1>1, <1>2, <2>1 DEF own
  <2>3. u = Len(w) + 1 \/ w[u].packet[1] = t
    BY <1>1, <1>2, <2>1
  <2>4. ASSUME NEW r \in 1 .. Len(w), o < r, r < u PROVE w[r].packet[1] # t
    <3>1. CASE r = 1
      BY <1>2, <2>4, <3>1 DEF own
    <3>2. CASE r # 1
      <4>1. r - 1 \in 1 .. Len(v) /\ p < r - 1 /\ r - 1 < q /\ r - 1 \in 1 .. Len(w) - 1 /\ (r - 1) + 1 = r
        BY <1>1, <1>2, <2>4, <3>2
      <4>2. v[r - 1] = w[r]
        BY <1>1, <4>1
      <4> QED BY <1>2, <4>1, <4>2
    <3> QED BY <3>1, <3>2
  <2>5. (IF u = Len(w) + 1 THEN last ELSE Label(w[u])) = (IF o = 0 THEN first ELSE Onward(Label(w[o]), all))
    <3> HIDE DEF o, u
    <3> QED BY <2>1, <2>2, <2>3, <2>4 DEF Chain
  <2>6. q # Len(v) + 1 => v[q] = w[u]
    BY <1>1, <2>1
  <2>7. p # 0 => v[p] = w[o] /\ o # 0
    BY <1>1, <2>1
  <2>8. p = 0 => begin = IF o = 0 THEN first ELSE Onward(Label(w[o]), all)
    BY <1>0, <1>2 DEF own
  <2> HIDE DEF o, u, begin
  <2> QED BY <2>1, <2>5, <2>6, <2>7, <2>8
<1>3. Chain(v, t, all, begin, last)
  BY <1>2 DEF Chain
<1> QED BY <1>0, <1>3 DEF v

LEMMA AirFacts ==
  /\ Adverts' = IF baFraming' = "ndnts" THEN BaFragments ELSE 1
  /\ Adverts \in Nat \ {0}
  /\ \A t \in BaTask : BaAt[t] \in BaNode /\ BaAddr[BaAt[t]] \in BaKey
  /\ \A n \in BaReader : n \in BaNode
BY BaAssumption DEF Adverts, BaKey

LEMMA AirInit == BaInit => AirIndInv
<1> SUFFICES ASSUME BaInit PROVE AirIndInv
  OBVIOUS
<1>1. AirTypes /\ NotItsOwn
  BY BaAssumption DEF BaInit, AirTypes, NotItsOwn
<1>2. ASSUME NEW n \in BaReader, NEW t \in BaTask, NEW k \in BaKey PROVE baGot[n][k] = << >> /\ Follows(n, t, k)
  <2>1. /\ baGot[n][k] = << >> /\ baPartial[n][k] = << >> /\ baWaiting[n] = << >>
        /\ baSent[t] = 0 /\ baNext[t] = 0 /\ Len(<< >>) = 0
    BY <1>2, AirFacts DEF BaInit
  <2>2. Expected(n, k) = <<1, 1>> /\ ToSend(t) = <<1, 1>>
    BY <2>1 DEF Expected, ToSend
  <2>3. Arrived(n, t, k)
    BY <2>1, AirFacts DEF Arrived
  <2> QED BY <2>1, <2>2, <2>3, ChainOfNone DEF Follows
<1>3. AirOrder
  BY <1>2, AirFacts DEF AirOrder
<1> QED BY <1>1, <1>3 DEF AirIndInv

(* What every action but a reception leaves of the order. *)
LEMMA AirBegin ==
  ASSUME NEW t \in BaTask, AirIndInv, BeginPacket(t)
  PROVE  AirIndInv'
<1>1. /\ baSent' = [baSent EXCEPT ![t] = @ + 1] /\ baNext' = [baNext EXCEPT ![t] = 1] /\ baNext[t] = 0
      /\ UNCHANGED <<baFraming, baWaiting, baPartial, baGot, baFaults>>
  BY DEF BeginPacket
<1>2. AirTypes'
  BY <1>1 DEF AirTypes, AirIndInv
<1>3. ASSUME NEW u \in BaTask PROVE ToSend(u)' = ToSend(u)
  <2>1. baSent[u] \in Nat /\ baSent'[u] = (IF u = t THEN baSent[u] + 1 ELSE baSent[u]) /\ baNext'[u] = IF u = t THEN 1 ELSE baNext[u]
    BY <1>1 DEF AirIndInv, AirTypes
  <2> QED BY <1>1, <2>1 DEF ToSend
<1>4. NotItsOwn'
  BY <1>1 DEF NotItsOwn, AirIndInv
<1>5. Adverts' = Adverts
  BY <1>1 DEF Adverts
<1>6. \A n, u, k : Arrived(n, u, k)' = Arrived(n, u, k) /\ Expected(n, k)' = Expected(n, k)
  BY <1>1, <1>5 DEF Arrived, Expected
<1>7. ASSUME NEW n \in BaReader, NEW u \in BaTask, NEW k, Follows(n, u, k) PROVE Follows(n, u, k)'
  BY <1>1, <1>3, <1>5, <1>6, <1>7 DEF Follows
<1>8. AirOrder'
  BY <1>1, <1>7 DEF AirOrder, AirIndInv
<1> QED BY <1>2, <1>4, <1>8 DEF AirIndInv

LEMMA AirBroadcast ==
  ASSUME NEW t \in BaTask, AirIndInv, Broadcast(t)
  PROVE  AirIndInv'
<1> DEFINE a == Advert(t)
           m == BaAt[t]
<1>1. /\ baNext[t] > 0
      /\ baWaiting' = [o \in BaNode |-> IF Hears(m, o) THEN Append(baWaiting[o], a) ELSE baWaiting[o]]
      /\ baNext' = [baNext EXCEPT ![t] = IF @ = Adverts THEN 0 ELSE @ + 1]
      /\ UNCHANGED <<baFraming, baSent, baPartial, baGot, baFaults>>
  BY DEF Broadcast
<1>2. baSent[t] \in Nat /\ baNext[t] \in Nat /\ m \in BaNode /\ BaAddr[m] \in BaKey
  BY AirFacts DEF AirIndInv, AirTypes
<1>3. a \in BaAdvert /\ a.packet[1] = t /\ a.addr = BaAddr[m] /\ Label(a) = <<baSent[t], baNext[t]>>
  BY <1>2 DEF Advert, BaAdvert, Label
<1> HIDE DEF a, m
<1>4. ASSUME NEW o \in BaNode
      PROVE  /\ baWaiting[o] \in Seq(BaAdvert)
             /\ baWaiting'[o] = (IF Hears(m, o) THEN Append(baWaiting[o], a) ELSE baWaiting[o])
             /\ baWaiting'[o] \in Seq(BaAdvert)
  BY <1>1, <1>3, AppendAt DEF AirIndInv, AirTypes
<1>5. AirTypes'
  <2>1. baWaiting' \in [BaNode -> Seq(BaAdvert)]
    BY <1>1, <1>4
  <2>2. baNext' \in [BaTask -> Nat]
    BY <1>1, <1>2 DEF AirIndInv, AirTypes
  <2> QED BY <1>1, <2>1, <2>2 DEF AirIndInv, AirTypes
<1>6. NotItsOwn'
  <2>1. ASSUME NEW n \in BaNode, NEW p \in 1 .. Len(baWaiting'[n]) PROVE BaAt[baWaiting'[n][p].packet[1]] # n
    <3>1. CASE ~Hears(m, n)
      BY <1>4, <2>1, <3>1 DEF AirIndInv, NotItsOwn
    <3>2. CASE Hears(m, n)
      <4>1. /\ Len(baWaiting[n]) \in Nat /\ Len(Append(baWaiting[n], a)) = Len(baWaiting[n]) + 1
            /\ \A i \in 1 .. Len(baWaiting[n]) : Append(baWaiting[n], a)[i] = baWaiting[n][i]
            /\ Append(baWaiting[n], a)[Len(baWaiting[n]) + 1] = a
        BY <1>3, <1>4, AppendAt
      <4>2. CASE p \in 1 .. Len(baWaiting[n])
        BY <1>4, <3>2, <4>1, <4>2 DEF AirIndInv, NotItsOwn
      <4>3. CASE p \notin 1 .. Len(baWaiting[n])
        <5>1. p = Len(baWaiting[n]) + 1
          <6>1. Len(baWaiting'[n]) = Len(baWaiting[n]) + 1
            BY <1>4, <3>2, <4>1
          <6>2. p \in 1 .. Len(baWaiting[n]) + 1
            BY <2>1, <6>1
          <6> QED BY <4>1, <4>3, <6>2
        <5>2. n # BaAt[t]
          BY <3>2 DEF Hears, m
        <5> QED BY <1>3, <1>4, <3>2, <4>1, <5>1, <5>2
      <4> QED BY <4>2, <4>3
    <3> QED BY <3>1, <3>2
  <2> QED BY <2>1 DEF NotItsOwn
<1>7. Adverts' = Adverts
  BY <1>1 DEF Adverts
<1>8. \A n, u, k : Arrived(n, u, k)' = Arrived(n, u, k) /\ Expected(n, k)' = Expected(n, k)
  BY <1>1, <1>7 DEF Arrived, Expected
<1>9. ASSUME NEW n \in BaReader, NEW u \in BaTask, NEW k, BaAt[u] # n, Follows(n, u, k) PROVE Follows(n, u, k)'
  <2>0. n \in BaNode
    BY AirFacts
  <2>1. Chain(baWaiting[n], u, Adverts, Expected(n, k), ToSend(u))
    BY <1>9 DEF Follows
  <2>2. CASE u = t
    <3>1. Hears(m, n)
      BY <1>9, <2>2 DEF Hears, m
    <3>2. ToSend(u) = Label(a) /\ ToSend(u)' = Onward(ToSend(u), Adverts)
      <4>1. ToSend(u) = <<baSent[t], baNext[t]>>
        BY <1>1, <1>2, <2>2 DEF ToSend
      <4>2. baNext'[t] = IF baNext[t] = Adverts THEN 0 ELSE baNext[t] + 1
        BY <1>1 DEF AirIndInv, AirTypes
      <4>3. ToSend(u)' = Onward(<<baSent[t], baNext[t]>>, Adverts)
        BY <1>1, <1>2, <2>2, <4>2 DEF ToSend, Onward
      <4> QED BY <1>3, <4>1, <4>3
    <3>3. Chain(baWaiting'[n], u, Adverts, Expected(n, k), Onward(ToSend(u), Adverts))
      BY <1>3, <1>4, <2>0, <2>1, <2>2, <3>1, <3>2, ChainAppendOwn
    <3> QED BY <1>7, <1>8, <1>9, <3>2, <3>3 DEF Follows
  <2>3. CASE u # t
    <3>1. ToSend(u)' = ToSend(u)
      BY <1>1, <2>3 DEF ToSend, AirIndInv, AirTypes
    <3>2. Chain(baWaiting'[n], u, Adverts, Expected(n, k), ToSend(u))
      BY <1>3, <1>4, <2>0, <2>1, <2>3, ChainAppendOther
    <3> QED BY <1>7, <1>8, <1>9, <3>1, <3>2 DEF Follows
  <2> QED BY <2>2, <2>3
<1>10. AirOrder'
  BY <1>1, <1>9 DEF AirOrder, AirIndInv
<1> QED BY <1>5, <1>6, <1>10 DEF AirIndInv

(* An advert refused or lost. *)
LEMMA AirFault ==
  ASSUME AirIndInv, (\E t \in BaTask : BroadcastFails(t)) \/ (\E n \in BaNode : Lagged(n))
  PROVE  AirIndInv'
<1>1. baFaults' = baFaults + 1 /\ UNCHANGED <<baFraming, baSent, baPartial, baGot>>
  BY DEF BroadcastFails, Lagged
<1>2. AirOrder'
  BY <1>1 DEF AirOrder, AirIndInv, AirTypes
<1>3. ASSUME NEW t \in BaTask, BroadcastFails(t) PROVE AirIndInv'
  <2>1. baNext' = [baNext EXCEPT ![t] = 0] /\ UNCHANGED baWaiting
    BY <1>3 DEF BroadcastFails
  <2>2. AirTypes'
    BY <1>1, <2>1 DEF AirIndInv, AirTypes
  <2>3. NotItsOwn'
    BY <2>1 DEF AirIndInv, NotItsOwn
  <2> QED BY <1>2, <2>2, <2>3 DEF AirIndInv
<1>4. ASSUME NEW n \in BaNode, Lagged(n) PROVE AirIndInv'
  <2>1. baWaiting[n] # << >> /\ baWaiting' = [baWaiting EXCEPT ![n] = Tail(@)] /\ UNCHANGED baNext
    BY <1>4 DEF Lagged
  <2>2. baWaiting[n] \in Seq(BaAdvert)
    BY DEF AirIndInv, AirTypes
  <2>3. /\ Len(baWaiting[n]) \in Nat \ {0} /\ Tail(baWaiting[n]) \in Seq(BaAdvert) /\ Len(Tail(baWaiting[n])) = Len(baWaiting[n]) - 1
        /\ \A i \in 1 .. Len(baWaiting[n]) - 1 : Tail(baWaiting[n])[i] = baWaiting[n][i + 1]
    BY <2>1, <2>2, TailAt
  <2>4. AirTypes'
    BY <1>1, <2>1, <2>3 DEF AirIndInv, AirTypes
  <2>5. NotItsOwn'
    <3>1. \A o \in BaNode : baWaiting'[o] = IF o = n THEN Tail(baWaiting[n]) ELSE baWaiting[o]
      BY <2>1 DEF AirIndInv, AirTypes
    <3>2. \A p \in 1 .. Len(baWaiting[n]) : BaAt[baWaiting[n][p].packet[1]] # n
      BY DEF AirIndInv, NotItsOwn
    <3>3. \A p \in 1 .. Len(Tail(baWaiting[n])) : BaAt[Tail(baWaiting[n])[p].packet[1]] # n
      BY <2>3, <3>2
    <3> QED BY <3>1, <3>3 DEF AirIndInv, NotItsOwn
  <2> QED BY <1>2, <2>4, <2>5 DEF AirIndInv
<1> QED BY <1>3, <1>4

(* A reader takes a fragment. *)
LEMMA AirReceive ==
  ASSUME NEW m \in BaNode, AirIndInv, recv_bytes_with_addr(m)
  PROVE  AirIndInv'
<1> DEFINE w == baWaiting[m]
           s == Head(w)
           key == s.addr
           held == baPartial[m][key]
           took == Fed(held, s)
           ends == baFraming = "ndnlpv2" \/ Whole(took)
           whole == IF baFraming = "ndnlpv2" THEN <<s>> ELSE took
           keeps == IF baFraming = "ndnlpv2" THEN held ELSE IF Whole(took) THEN << >> ELSE took
<1>1. /\ w # << >> /\ baWaiting' = [baWaiting EXCEPT ![m] = Tail(@)]
      /\ UNCHANGED <<baFraming, baSent, baNext, baFaults>>
  BY DEF recv_bytes_with_addr, recv_inner
<1>2. w \in Seq(BaAdvert)
  BY DEF AirIndInv, AirTypes
<1>3. /\ Len(w) \in Nat \ {0} /\ s = w[1] /\ s \in BaAdvert /\ Tail(w) \in Seq(BaAdvert) /\ Len(Tail(w)) = Len(w) - 1
      /\ \A i \in 1 .. Len(w) - 1 : Tail(w)[i] = w[i + 1]
  BY <1>1, <1>2, TailAt
<1>4. key \in BaKey /\ s \in OfKey(key) /\ s.i \in Nat /\ s.packet[1] \in BaTask /\ key = BaAddr[BaAt[s.packet[1]]]
  BY <1>3 DEF BaAdvert, OfKey
<1>5. /\ baGot' = IF ends THEN [baGot EXCEPT ![m][key] = Append(@, whole)] ELSE baGot
      /\ baPartial' = IF baFraming = "ndnlpv2" THEN baPartial ELSE [baPartial EXCEPT ![m][key] = keeps]
  BY DEF recv_bytes_with_addr, HandUp, KeyOf
<1>6. held \in Seq(OfKey(key)) /\ baGot[m][key] \in Seq(Seq(OfKey(key)))
  BY <1>4 DEF AirIndInv, AirTypes
<1>7. took \in Seq(OfKey(key)) /\ whole \in Seq(OfKey(key)) /\ keeps \in Seq(OfKey(key))
  <2>1. took \in Seq(OfKey(key))
    <3>1. Append(held, s) \in Seq(OfKey(key)) /\ <<s>> \in Seq(OfKey(key)) /\ << >> \in Seq(OfKey(key))
      BY <1>4, <1>6
    <3> QED BY <3>1 DEF Fed
  <2>2. <<s>> \in Seq(OfKey(key)) /\ << >> \in Seq(OfKey(key))
    BY <1>4
  <2> HIDE DEF took, key, s
  <2> QED BY <1>6, <2>1, <2>2
<1> HIDE DEF w, s, key, held, took, whole, keeps, ends
<1>8. ASSUME NEW n \in BaNode, NEW k \in BaKey
      PROVE  /\ baGot'[n][k] = (IF n = m /\ k = key /\ ends THEN Append(baGot[n][k], whole) ELSE baGot[n][k])
             /\ baPartial'[n][k] = (IF n = m /\ k = key THEN keeps ELSE baPartial[n][k])
  <2>1. baGot'[n][k] = (IF n = m /\ k = key /\ ends THEN Append(baGot[n][k], whole) ELSE baGot[n][k])
    BY <1>4, <1>5 DEF AirIndInv, AirTypes
  <2>2. baPartial'[n][k] = (IF n = m /\ k = key THEN keeps ELSE baPartial[n][k])
    BY <1>4, <1>5 DEF AirIndInv, AirTypes, keeps, held
  <2> QED BY <2>1, <2>2
<1>9. \A n \in BaNode : baWaiting'[n] = IF n = m THEN Tail(w) ELSE baWaiting[n]
  BY <1>1 DEF AirIndInv, AirTypes, w
<1>10. AirTypes'
  <2>1. baWaiting' \in [BaNode -> Seq(BaAdvert)]
    BY <1>1, <1>3 DEF AirIndInv, AirTypes, w
  <2>2. ASSUME NEW n \in BaNode, NEW k \in BaKey
        PROVE  baPartial'[n][k] \in Seq(OfKey(k)) /\ baGot'[n][k] \in Seq(Seq(OfKey(k)))
    <3>1. baPartial[n][k] \in Seq(OfKey(k)) /\ baGot[n][k] \in Seq(Seq(OfKey(k)))
      BY DEF AirIndInv, AirTypes
    <3>2. CASE n = m /\ k = key
      <4>1. Append(baGot[n][k], whole) \in Seq(Seq(OfKey(k)))
        <5> DEFINE B == Seq(OfKey(k))
        <5>1. baGot[n][k] \in Seq(B) /\ whole \in B
          BY <1>7, <3>1, <3>2
        <5> HIDE DEF B
        <5>2. Append(baGot[n][k], whole) \in Seq(B)
          BY <5>1, AppendAt
        <5> QED BY <5>2 DEF B
      <4> QED BY <1>7, <1>8, <3>1, <3>2, <4>1
    <3>3. CASE ~(n = m /\ k = key)
      BY <1>8, <3>1, <3>3
    <3> QED BY <3>2, <3>3
  <2>3. \A k \in BaKey : OfKey(k) \subseteq BaAdvert
    BY DEF OfKey
  <2>4. keeps \in Seq(BaAdvert) /\ whole \in Seq(BaAdvert)
    BY <1>4, <1>7, <2>3
  <2>5. baPartial' \in [BaNode -> [BaKey -> Seq(BaAdvert)]]
    <3>1. baPartial \in [BaNode -> [BaKey -> Seq(BaAdvert)]]
      BY DEF AirIndInv, AirTypes
    <3> DEFINE B == Seq(BaAdvert)
    <3> HIDE DEF B
    <3>2. ASSUME baPartial \in [BaNode -> [BaKey -> B]], keeps \in B PROVE baPartial' \in [BaNode -> [BaKey -> B]]
      BY <1>4, <1>5, <3>2
    <3> QED BY <2>4, <3>1, <3>2 DEF B
  <2>6. baGot' \in [BaNode -> [BaKey -> Seq(Seq(BaAdvert))]]
    <3>1. baGot \in [BaNode -> [BaKey -> Seq(Seq(BaAdvert))]]
      BY DEF AirIndInv, AirTypes
    <3> DEFINE B == Seq(BaAdvert)
    <3> HIDE DEF B
    <3>2. ASSUME baGot \in [BaNode -> [BaKey -> Seq(B)]], whole \in B PROVE baGot' \in [BaNode -> [BaKey -> Seq(B)]]
      <4>1. Append(baGot[m][key], whole) \in Seq(B)
        BY <1>4, <3>2, AppendAt
      <4> QED BY <1>4, <1>5, <3>2, <4>1
    <3> QED BY <2>4, <3>1, <3>2 DEF B
  <2> QED BY <1>1, <2>1, <2>2, <2>5, <2>6 DEF AirIndInv, AirTypes
<1>11. NotItsOwn'
  <2>1. \A p \in 1 .. Len(w) : BaAt[w[p].packet[1]] # m
    BY DEF AirIndInv, NotItsOwn, w
  <2>2. \A p \in 1 .. Len(Tail(w)) : BaAt[Tail(w)[p].packet[1]] # m
    BY <1>3, <2>1
  <2> QED BY <1>9, <2>2 DEF AirIndInv, NotItsOwn
<1>12. Adverts' = Adverts
  BY <1>1 DEF Adverts
<1>13. ASSUME NEW n \in BaReader, NEW t \in BaTask, Alone(t), baFaults = 0
       PROVE  IF BaAt[t] = n THEN baGot'[n][BaAddr[BaAt[t]]] = << >> ELSE Follows(n, t, BaAddr[BaAt[t]])'
  <2> DEFINE k == BaAddr[BaAt[t]]
  <2>0. n \in BaNode /\ k \in BaKey
    BY AirFacts
  <2>1. s.packet[1] = t <=> key = k
    BY <1>4, <1>13 DEF Alone
  <2>2. IF BaAt[t] = n THEN baGot[n][k] = << >> ELSE Follows(n, t, k)
    BY <1>13 DEF AirIndInv, AirOrder
  <2> HIDE DEF k
  <2>3. CASE BaAt[t] = n
    <3>1. ~(n = m /\ k = key)
      <4> SUFFICES ASSUME n = m, k = key PROVE FALSE
        OBVIOUS
      <4>1. BaAt[w[1].packet[1]] # m
        BY <1>3 DEF AirIndInv, NotItsOwn, w
      <4> QED BY <1>3, <2>1, <2>3, <4>1
    <3> QED BY <1>8, <2>0, <2>2, <2>3, <3>1 DEF k
  <2>4. CASE BaAt[t] # n
    <3>1. Follows(n, t, k) /\ ToSend(t)' = ToSend(t)
      BY <1>1, <2>2, <2>4 DEF ToSend
    <3>2. CASE n # m
      <4>1. Arrived(n, t, k)' = Arrived(n, t, k) /\ Expected(n, k)' = Expected(n, k) /\ baWaiting'[n] = baWaiting[n]
        <5>1. baGot'[n][k] = baGot[n][k] /\ baPartial'[n][k] = baPartial[n][k] /\ baWaiting'[n] = baWaiting[n]
          BY <1>8, <1>9, <2>0, <3>2
        <5> QED BY <1>12, <5>1 DEF Arrived, Expected
      <4> QED BY <1>12, <2>4, <3>1, <4>1 DEF Follows, k
    <3>3. CASE n = m /\ k # key
      <4>1. Arrived(n, t, k)' = Arrived(n, t, k) /\ Expected(n, k)' = Expected(n, k) /\ baWaiting'[n] = Tail(w)
        <5>1. baGot'[n][k] = baGot[n][k] /\ baPartial'[n][k] = baPartial[n][k] /\ baWaiting'[n] = Tail(w)
          BY <1>8, <1>9, <2>0, <3>3
        <5> QED BY <1>12, <5>1 DEF Arrived, Expected
      <4>2. Chain(Tail(w), t, Adverts, Expected(n, k), ToSend(t))
        BY <1>1, <1>2, <1>3, <2>1, <3>1, <3>3, ChainTail DEF Follows, w
      <4> QED BY <1>12, <2>4, <3>1, <4>1, <4>2 DEF Follows, k
    <3>4. CASE n = m /\ k = key
      <4> DEFINE has == baGot[n][k]
      <4>1. Chain(w, t, Adverts, Expected(n, k), ToSend(t)) /\ Arrived(n, t, k)
        BY <3>1, <3>4 DEF Follows, w
      <4>2. Label(s) = Expected(n, k) /\ Chain(Tail(w), t, Adverts, Onward(Expected(n, k), Adverts), ToSend(t))
        BY <1>1, <1>2, <1>3, <2>1, <3>4, <4>1, ChainTail
      <4>3. held = baPartial[n][k] /\ Expected(n, k) = <<Len(has) + 1, Len(held) + 1>>
        BY <3>4 DEF held, Expected
      <4>4. /\ \A j \in 1 .. Len(has) : Len(has[j]) = Adverts /\ \A i \in 1 .. Adverts : has[j][i].packet = <<t, j>> /\ has[j][i].i = i
            /\ \A i \in 1 .. Len(held) : held[i].packet = <<t, Len(has) + 1>> /\ held[i].i = i
            /\ Len(held) < Adverts
        BY <4>1, <4>3 DEF Arrived
      <4>5. has \in Seq(Seq(OfKey(k))) /\ held \in Seq(OfKey(k)) /\ s \in OfKey(k) /\ whole \in Seq(OfKey(k))
        BY <1>4, <1>6, <1>7, <3>4
      <4>6. Len(has) \in Nat /\ Len(held) \in Nat
        BY <4>5, LenProperties
      <4>7. s.packet = <<t, Len(has) + 1>> /\ s.i = Len(held) + 1
        <5>1. s.packet \in BaTask \X Nat /\ s.packet[1] = t
          BY <1>3, <2>1, <3>4 DEF BaAdvert
        <5>2. s.packet[2] = Len(has) + 1 /\ s.i = Len(held) + 1
          BY <4>2, <4>3 DEF Label
        <5> QED BY <5>1, <5>2
      <4>8. took = Append(held, s)
        BY <4>7 DEF took, Fed
      <4>9. /\ Len(took) = Len(held) + 1
            /\ \A i \in 1 .. Len(took) : took[i].packet = <<t, Len(has) + 1>> /\ took[i].i = i
        <5>1. /\ Len(took) = Len(held) + 1 /\ took[Len(held) + 1] = s
              /\ \A i \in 1 .. Len(held) : took[i] = held[i]
          BY <4>5, <4>8, AppendAt
        <5>2. ASSUME NEW i \in 1 .. Len(took) PROVE took[i].packet = <<t, Len(has) + 1>> /\ took[i].i = i
          <6>1. i \in 1 .. Len(held) \/ i = Len(held) + 1
            BY <4>6, <5>1
          <6> QED BY <4>4, <4>7, <5>1, <6>1
        <5> QED BY <5>1, <5>2
      <4>10. baFraming = "ndnlpv2" => Adverts = 1 /\ held = << >> /\ took = <<s>> /\ Whole(took)
        <5> SUFFICES ASSUME baFraming = "ndnlpv2" PROVE Adverts = 1 /\ held = << >> /\ took = <<s>> /\ Whole(took)
          OBVIOUS
        <5>1. Adverts = 1
          BY DEF Adverts
        <5>2. Len(held) = 0
          BY <4>4, <4>6, <5>1
        <5>3. held = << >>
          BY <4>5, <5>2, EmptySeq
        <5>4. took = <<s>>
          BY <4>8, <5>3
        <5> QED BY <4>9, <5>1, <5>2, <5>3, <5>4 DEF Whole
      <4>11. whole = took /\ (ends <=> Whole(took)) /\ keeps = IF Whole(took) THEN << >> ELSE took
        BY <4>10 DEF whole, ends, keeps
      <4>12. CASE Whole(took)
        <5>1. baGot'[n][k] = Append(has, took) /\ baPartial'[n][k] = << >>
          BY <1>8, <2>0, <3>4, <4>11, <4>12
        <5>2. Len(took) = Adverts
          BY <4>12 DEF Whole
        <5> DEFINE more == Append(has, took)
        <5>3. Len(more) = Len(has) + 1 /\ more[Len(has) + 1] = took /\ \A j \in 1 .. Len(has) : more[j] = has[j]
          <6> DEFINE B == Seq(OfKey(k))
          <6>1. has \in Seq(B) /\ took \in B
            BY <4>5, <4>11
          <6> HIDE DEF B, has
          <6> QED BY <6>1, AppendAt
        <5> HIDE DEF more, has
        <5>4. ASSUME NEW j \in 1 .. Len(more)
              PROVE  Len(more[j]) = Adverts /\ \A i \in 1 .. Adverts : more[j][i].packet = <<t, j>> /\ more[j][i].i = i
          <6>1. j \in 1 .. Len(has) \/ j = Len(has) + 1
            BY <4>6, <5>3
          <6> QED BY <4>4, <4>9, <5>2, <5>3, <6>1
        <5>5. Len(<< >>) = 0 /\ Adverts \in Nat \ {0}
          BY AirFacts
        <5>6. Arrived(n, t, k)'
          BY <1>12, <5>1, <5>4, <5>5 DEF Arrived, more
        <5>7. Expected(n, k)' = Onward(Expected(n, k), Adverts)
          <6>1. Expected(n, k)' = <<Len(has) + 2, 1>>
            BY <4>6, <5>1, <5>3, <5>5 DEF Expected, more
          <6>2. Onward(<<Len(has) + 1, Len(held) + 1>>, Adverts) = <<Len(has) + 2, 1>>
            BY <4>6, <4>9, <5>2 DEF Onward
          <6> QED BY <4>3, <6>1, <6>2 DEF has
        <5> QED BY <1>9, <1>12, <2>0, <2>4, <3>1, <3>4, <4>2, <5>6, <5>7 DEF Follows, k
      <4>13. CASE ~Whole(took)
        <5>1. baGot'[n][k] = has /\ baPartial'[n][k] = took
          BY <1>8, <2>0, <3>4, <4>11, <4>13
        <5>2. Len(took) # Adverts /\ Len(took) < Adverts
          BY <4>4, <4>6, <4>9, <4>13, AirFacts DEF Whole
        <5>3. Arrived(n, t, k)'
          BY <1>12, <4>4, <4>9, <5>1, <5>2 DEF Arrived
        <5>4. Expected(n, k)' = Onward(Expected(n, k), Adverts)
          <6>1. Expected(n, k)' = <<Len(has) + 1, Len(held) + 2>>
            BY <4>6, <4>9, <5>1 DEF Expected
          <6> HIDE DEF has
          <6>2. Onward(<<Len(has) + 1, Len(held) + 1>>, Adverts) = <<Len(has) + 1, Len(held) + 2>>
            BY <4>6, <4>9, <5>2 DEF Onward
          <6> QED BY <4>3, <6>1, <6>2 DEF has
        <5> QED BY <1>9, <1>12, <2>0, <2>4, <3>1, <3>4, <4>2, <5>3, <5>4 DEF Follows, k
      <4> QED BY <4>12, <4>13
    <3> QED BY <3>2, <3>3, <3>4
  <2> QED BY <2>3, <2>4
<1>14. AirOrder'
  BY <1>1, <1>13 DEF AirOrder
<1> QED BY <1>10, <1>11, <1>14 DEF AirIndInv

LEMMA AirStep == AirIndInv /\ [BaNext]_baVars => AirIndInv'
<1> SUFFICES ASSUME AirIndInv, [BaNext]_baVars PROVE AirIndInv'
  OBVIOUS
<1>1. CASE UNCHANGED baVars
  <2>1. \A n, t, k : Follows(n, t, k)' = Follows(n, t, k)
    BY <1>1 DEF baVars, Follows, Arrived, Expected, ToSend, Adverts
  <2>2. AirOrder'
    BY <1>1, <2>1 DEF AirIndInv, AirOrder, baVars
  <2> QED BY <1>1, <2>2 DEF AirIndInv, AirTypes, NotItsOwn, baVars
<1>2. CASE BaNext
  BY <1>2, AirBegin, AirBroadcast, AirFault, AirReceive DEF BaNext
<1> QED BY <1>1, <1>2

LEMMA AirHolds == AirIndInv => WholeIsOfOneSender /\ EveryPacketArrives
<1> SUFFICES ASSUME AirIndInv PROVE WholeIsOfOneSender /\ EveryPacketArrives
  OBVIOUS
<1>1. ASSUME NEW n \in BaNode, NEW k \in BaKey, NEW j \in DOMAIN baGot[n][k], NEW i \in DOMAIN baGot[n][k][j]
      PROVE  BaAddr[BaAt[baGot[n][k][j][i].packet[1]]] = k
  <2>1. baGot[n][k] \in Seq(Seq(OfKey(k)))
    BY DEF AirIndInv, AirTypes
  <2> DEFINE B == Seq(OfKey(k))
  <2>2. baGot[n][k][j] \in B
    <3>1. baGot[n][k] \in Seq(B)
      BY <2>1
    <3> HIDE DEF B
    <3> QED BY <3>1
  <2>3. baGot[n][k][j][i] \in OfKey(k)
    BY <2>2
  <2> QED BY <2>3 DEF OfKey, BaAdvert
<1>2. WholeIsOfOneSender
  BY <1>1 DEF WholeIsOfOneSender
<1>4. EveryPacketArrives
  <2> SUFFICES ASSUME baFaults = 0, NEW n \in BaReader, NEW t \in BaTask, Alone(t) /\ baWaiting[n] = << >>
               PROVE  LET has == baGot[n][BaAddr[BaAt[t]]] IN
                      /\ Len(has) = IF BaAt[t] = n THEN 0 ELSE Begun(t)
                      /\ \A j \in DOMAIN has :
                           Len(has[j]) = Adverts /\ \A i \in DOMAIN has[j] : has[j][i].packet = <<t, j>> /\ has[j][i].i = i
    BY DEF EveryPacketArrives
  <2> DEFINE k == BaAddr[BaAt[t]]
             has == baGot[n][k]
  <2>0. n \in BaNode /\ k \in BaKey
    BY AirFacts
  <2>1. IF BaAt[t] = n THEN has = << >> ELSE Follows(n, t, k)
    BY DEF AirIndInv, AirOrder
  <2>2. has \in Seq(Seq(OfKey(k))) /\ baPartial[n][k] \in Seq(OfKey(k)) /\ baSent[t] \in Nat /\ baNext[t] \in Nat
    BY <2>0 DEF AirIndInv, AirTypes
  <2>3. Len(has) \in Nat /\ DOMAIN has = 1 .. Len(has) /\ Len(baPartial[n][k]) \in Nat
    BY <2>2, LenProperties
  <2>4. CASE BaAt[t] = n
    <3>1. Len(has) = 0 /\ DOMAIN has = {}
      BY <2>1, <2>4
    <3> QED BY <2>4, <3>1
  <2>5. CASE BaAt[t] # n
    <3> HIDE DEF k
    <3>1. Chain(<< >>, t, Adverts, <<Len(has) + 1, Len(baPartial[n][k]) + 1>>, ToSend(t)) /\ Arrived(n, t, k)
      BY <2>1, <2>5 DEF Follows, Expected
    <3>2. ToSend(t) = <<Len(has) + 1, Len(baPartial[n][k]) + 1>>
      <4>1. Len(<< >>) = 0 /\ 0 \in 0 .. 0 /\ 1 \in 1 .. 0 + 1 /\ 1 = 0 + 1 /\ \A r \in 1 .. 0 : FALSE
        OBVIOUS
      <4> HIDE DEF has
      <4> QED BY <3>1, <4>1 DEF Chain
    <3>3. Len(has) = Begun(t)
      <4> HIDE DEF has
      <4> QED BY <2>2, <2>3, <3>2 DEF ToSend, Begun
    <3>4. ASSUME NEW j \in DOMAIN has
          PROVE  Len(has[j]) = Adverts /\ \A i \in DOMAIN has[j] : has[j][i].packet = <<t, j>> /\ has[j][i].i = i
      <4>1. Len(has[j]) = Adverts /\ \A i \in 1 .. Adverts : has[j][i].packet = <<t, j>> /\ has[j][i].i = i
        BY <2>3, <3>1, <3>4 DEF Arrived
      <4>2. has[j] \in Seq(OfKey(k))
        <5> DEFINE B == Seq(OfKey(k))
        <5>1. has \in Seq(B)
          BY <2>2
        <5> HIDE DEF B, has
        <5>2. has[j] \in B
          BY <3>4, <5>1
        <5> QED BY <5>2 DEF B, has
      <4>3. DOMAIN has[j] = 1 .. Adverts
        BY <4>1, <4>2, LenProperties
      <4> QED BY <4>1, <4>3
    <3> QED BY <2>5, <3>3, <3>4 DEF k
  <2> QED BY <2>4, <2>5
<1> QED BY <1>2, <1>4

(* ----------------------- the serial line of a dongle --------------------- *)

(* A non-empty set of naturals has a least element. *)
LEMMA LeastExists ==
  ASSUME NEW T \in SUBSET Nat, T # {}
  PROVE  \E x \in T : \A y \in T : x <= y
<1> DEFINE R == {p \in Nat \X Nat : p[1] < p[2]}
<1>1. IsWellFoundedOn(OpToRel(<, Nat), Nat)
  BY NatLessThanWellFounded
<1>2. OpToRel(<, Nat) = R
  BY DEF OpToRel
<1>3. IsWellFoundedOn(R, Nat)
  BY <1>1, <1>2
<1> HIDE DEF R
<1>4. \E x \in T : \A y \in T : <<y, x>> \notin R
  BY <1>3, WFMin
<1>5. ASSUME NEW x \in T, NEW y \in T, <<y, x>> \notin R
      PROVE  x <= y
  BY <1>5 DEF R
<1> QED BY <1>4, <1>5

(* Bytes of which none is bad for want of a shorter bad one. *)
LEMMA ShortestOf ==
  ASSUME NEW Bad \in SUBSET Seq(Nat), Bad # {}
  PROVE  \E a \in Bad : \A b \in Bad : Len(a) <= Len(b)
<1> DEFINE T == {Len(a) : a \in Bad}
<1>0. \A a \in Bad : a \in Seq(Nat) /\ Len(a) \in Nat
  BY LenProperties
<1>1. T \in SUBSET Nat /\ T # {}
  BY <1>0
<1>2. PICK n \in T : \A m \in T : n <= m
  BY <1>1, LeastExists
<1> QED BY <1>2

LEMMA JoinsOf ==
  ASSUME NEW S, NEW s \in Seq(S), NEW t \in Seq(S), NEW u \in Seq(S)
  PROVE  (s \o t) \o u = s \o (t \o u)
  BY ConcatAssociative
LEMMA Joins ==
  /\ \A s, t, u \in Seq(Nat) : (s \o t) \o u = s \o (t \o u)
  /\ \A s, t, u \in Seq(Seq(Nat)) : (s \o t) \o u = s \o (t \o u)
<1>1. ASSUME NEW s \in Seq(Nat), NEW t \in Seq(Nat), NEW u \in Seq(Nat)
      PROVE  (s \o t) \o u = s \o (t \o u)
  BY JoinsOf
<1> DEFINE B == Seq(Nat)
<1> HIDE DEF B
<1>2. ASSUME NEW s \in Seq(B), NEW t \in Seq(B), NEW u \in Seq(B)
      PROVE  (s \o t) \o u = s \o (t \o u)
  BY JoinsOf
<1> USE DEF B
<1> QED BY <1>1, <1>2

(* Where a sync is, if there is one. *)
Syncs(a) == {i \in 1 .. Len(a) - 1 : a[i] = Sync0 /\ a[i + 1] = Sync1}
LEMMA SyncIsFirst ==
  ASSUME NEW a \in Seq(Nat)
  PROVE  /\ Syncs(a) = {} => SyncAt(a) = 0
         /\ Syncs(a) # {} => SyncAt(a) \in Syncs(a) /\ \A i \in Syncs(a) : SyncAt(a) <= i
<1>1. SyncAt(a) = IF Syncs(a) = {} THEN 0 ELSE CHOOSE i \in Syncs(a) : \A j \in Syncs(a) : i <= j
  BY DEF SyncAt, Syncs
<1>2. Len(a) \in Nat /\ Syncs(a) \in SUBSET Nat
  BY LenProperties DEF Syncs
<1> HIDE DEF Syncs
<1>3. Syncs(a) # {} => \E i \in Syncs(a) : \A j \in Syncs(a) : i <= j
  BY <1>2, LeastExists
<1> QED BY <1>1, <1>3

(* A frame that is there in full, and what is left when it is taken away. *)
LEMMA ReadyIsThere ==
  ASSUME NEW a \in Seq(Nat), Ready(a)
  PROVE  /\ SyncAt(a) \in Syncs(a) /\ SyncAt(a) \in Nat \ {0}
         /\ LengthAt(a, SyncAt(a)) \in Nat
         /\ SyncAt(a) + 4 + LengthAt(a, SyncAt(a)) <= Len(a)
         /\ After(a) \in Seq(Nat) /\ Len(After(a)) < Len(a)
         /\ Advertised(a) \in Seq(Seq(Nat))
<1> DEFINE p == SyncAt(a)
           n == LengthAt(a, p)
<1>1. Len(a) \in Nat /\ Syncs(a) \subseteq 1 .. Len(a) - 1
  BY LenProperties DEF Syncs
<1>2. p \in Syncs(a) /\ p \in Nat \ {0} /\ p + 4 <= Len(a) /\ p + 4 + n <= Len(a)
  BY <1>1, SyncIsFirst DEF Ready
<1>3. \A i \in 1 .. Len(a) : a[i] \in Nat
  OBVIOUS
<1>4. a[p + 3] \in Nat /\ a[p + 4] \in Nat
  <2>1. p + 3 \in 1 .. Len(a) /\ p + 4 \in 1 .. Len(a)
    BY <1>1, <1>2
  <2> HIDE DEF p
  <2> QED BY <2>1, <1>3
<1>5. n \in Nat
  BY <1>4 DEF LengthAt
<1> HIDE DEF p, n
<1>6. After(a) = SubSeq(a, p + 5 + n, Len(a))
  BY DEF After, p, n
<1>7. After(a) \in Seq(Nat) /\ Len(After(a)) < Len(a)
  <2>1. p + 5 + n \in Nat /\ p + 5 + n >= 1 /\ p + 5 + n <= Len(a) + 1
    BY <1>1, <1>2, <1>5
  <2>2. \A i \in p + 5 + n .. Len(a) : a[i] \in Nat
    BY <1>1, <1>2, <1>3, <1>5
  <2>3. SubSeq(a, p + 5 + n, Len(a)) \in Seq(Nat)
        /\ Len(SubSeq(a, p + 5 + n, Len(a))) = IF p + 5 + n <= Len(a) THEN Len(a) - (p + 5 + n) + 1 ELSE 0
    BY <1>1, <2>1, <2>2, SubSeqProperties
  <2>4. (IF p + 5 + n <= Len(a) THEN Len(a) - (p + 5 + n) + 1 ELSE 0) < Len(a)
    BY <1>1, <1>2, <1>5, <2>1
  <2> QED BY <1>6, <2>3, <2>4
<1>8. Advertised(a) \in Seq(Seq(Nat))
  <2> DEFINE pay == SubSeq(a, p + 5, p + 4 + n)
  <2>1. pay \in Seq(Nat)
    <3>1. p + 5 \in Nat /\ p + 4 + n \in Nat /\ \A i \in p + 5 .. p + 4 + n : a[i] \in Nat
      BY <1>1, <1>2, <1>3, <1>5
    <3> QED BY <3>1, SubSeqProperties
  <2>2. Advertised(a) = IF a[p + 2] = RxType /\ Len(pay) >= HeadLen THEN << SubSeq(pay, HeadLen + 1, Len(pay)) >> ELSE << >>
    BY DEF Advertised, p, n
  <2> HIDE DEF pay
  <2>3. Len(pay) \in Nat /\ HeadLen \in Nat
    BY <2>1, LenProperties, BsAssumption
  <2>4. SubSeq(pay, HeadLen + 1, Len(pay)) \in Seq(Nat)
    <3>1. HeadLen + 1 \in Nat /\ \A i \in HeadLen + 1 .. Len(pay) : i \in 1 .. Len(pay) /\ pay[i] \in Nat
      BY <2>1, <2>3
    <3> QED BY <2>3, <3>1, SubSeqProperties
  <2> HIDE DEF pay
  <2> QED BY <2>2, <2>4
<1> QED BY <1>2, <1>5, <1>7, <1>8 DEF p, n

(* More bytes do not change a frame that is there in full. *)
LEMMA ReadyStays ==
  ASSUME NEW a \in Seq(Nat), NEW x \in Seq(Nat), Ready(a)
  PROVE  /\ Ready(a \o x) /\ After(a \o x) = After(a) \o x
         /\ Advertised(a \o x) = Advertised(a)
<1> DEFINE w == a \o x
           p == SyncAt(a)
           n == LengthAt(a, p)
<1>1. /\ w \in Seq(Nat) /\ Len(a) \in Nat /\ Len(x) \in Nat /\ Len(w) = Len(a) + Len(x)
      /\ \A i \in 1 .. Len(a) + Len(x) : w[i] = IF i <= Len(a) THEN a[i] ELSE x[i - Len(a)]
  BY ConcatProperties, LenProperties
<1>2. /\ p \in Syncs(a) /\ p \in Nat \ {0} /\ n \in Nat /\ p + 4 + n <= Len(a)
  BY ReadyIsThere
<1>a. \A i \in Syncs(a) : p <= i
  BY <1>2, SyncIsFirst
<1>b. Len(a) \in Nat /\ Len(x) \in Nat /\ Len(w) = Len(a) + Len(x)
  BY <1>1
<1>c. p \in Nat /\ p >= 1 /\ n \in Nat /\ p + 4 + n <= Len(a)
  BY <1>2
<1> HIDE DEF w, p, n
<1>3. ASSUME NEW i \in 1 .. Len(a) PROVE w[i] = a[i]
  <2>1. i \in 1 .. Len(a) + Len(x) /\ i <= Len(a)
    BY <1>b
  <2> QED BY <1>1, <2>1
<1>4. p \in Syncs(w) /\ \A i \in Syncs(w) : p <= i
  <2>0. p \in 1 .. Len(a) - 1
    BY <1>2 DEF Syncs
  <2>1. p \in 1 .. Len(a) - 1 /\ p + 1 \in 1 .. Len(a) /\ p \in 1 .. Len(w) - 1
    BY <1>b, <1>c, <2>0
  <2>2. w[p] = a[p] /\ w[p + 1] = a[p + 1]
    BY <1>3, <2>1
  <2>3. p \in Syncs(w)
    BY <1>2, <2>1, <2>2 DEF Syncs
  <2>4. ASSUME NEW i \in Syncs(w), i < p PROVE FALSE
    <3>0. i \in 1 .. Len(w) - 1
      BY <2>4 DEF Syncs
    <3>1. i \in 1 .. Len(a) /\ i + 1 \in 1 .. Len(a) /\ i \in 1 .. Len(a) - 1 /\ i \in Nat
      BY <1>b, <1>c, <2>1, <2>4, <3>0
    <3>2. i \in Syncs(a)
      BY <1>3, <2>4, <3>1 DEF Syncs
    <3> QED BY <1>a, <1>2, <2>4, <3>1, <3>2
  <2>5. \A i \in Syncs(w) : i \in Nat
    BY <1>1 DEF Syncs
  <2> QED BY <1>2, <2>3, <2>4, <2>5
<1>5. SyncAt(w) = p
  <2>1. SyncAt(w) \in Syncs(w) /\ \A i \in Syncs(w) : SyncAt(w) <= i
    BY <1>1, <1>4, SyncIsFirst
  <2>2. SyncAt(w) \in Nat
    BY <1>1, <2>1 DEF Syncs
  <2> QED BY <1>2, <1>4, <2>1, <2>2
<1>6. LengthAt(w, p) = n
  <2>1. p + 3 \in 1 .. Len(a) /\ p + 4 \in 1 .. Len(a)
    BY <1>b, <1>c
  <2>2. w[p + 3] = a[p + 3] /\ w[p + 4] = a[p + 4]
    BY <1>3, <2>1
  <2> QED BY <2>2 DEF LengthAt, n
<1>7. Ready(w)
  BY <1>b, <1>c, <1>5, <1>6 DEF Ready
<1>8. SubSeq(w, p + 5 + n, Len(w)) = SubSeq(a, p + 5 + n, Len(a)) \o x
  <2> DEFINE m == p + 5 + n
             s == SubSeq(w, m, Len(w))
             t == SubSeq(a, m, Len(a))
             k == Len(a) - (p + 4 + n)
  <2>1. k \in Nat /\ m \in Nat /\ m >= 1 /\ Len(w) - m + 1 = k + Len(x) /\ Len(a) - m + 1 = k /\ m + k = Len(a) + 1
    BY <1>b, <1>c
  <2> HIDE DEF m, k
  <2>2. s \in Seq(Nat) /\ Len(s) = (IF m <= Len(w) THEN Len(w) - m + 1 ELSE 0)
        /\ \A i \in 1 .. Len(w) - m + 1 : s[i] = w[m + i - 1]
    <3>0. \A i \in m .. Len(w) : i \in 1 .. Len(w)
      BY <1>b, <2>1
    <3>1. \A i \in m .. Len(w) : w[i] \in Nat
      BY <1>1, <3>0
    <3> QED BY <1>b, <2>1, <3>1, SubSeqProperties
  <2>3. t \in Seq(Nat) /\ Len(t) = (IF m <= Len(a) THEN Len(a) - m + 1 ELSE 0)
        /\ \A i \in 1 .. Len(a) - m + 1 : t[i] = a[m + i - 1]
    <3>0. \A i \in m .. Len(a) : i \in 1 .. Len(a)
      BY <1>b, <2>1
    <3>1. \A i \in m .. Len(a) : a[i] \in Nat
      BY <3>0
    <3>2. m \in Int /\ Len(a) \in Int
      BY <1>b, <2>1
    <3> HIDE DEF m
    <3> QED BY <3>1, <3>2, SubSeqProperties
  <2> HIDE DEF s, t, k
  <2>4. Len(s) = k + Len(x) /\ Len(t) = k
    <3>1. (m <= Len(w)) <=> (k + Len(x) > 0)
      BY <1>b, <2>1
    <3>2. (m <= Len(a)) <=> (k > 0)
      BY <1>b, <2>1
    <3> QED BY <1>b, <2>1, <2>2, <2>3, <3>1, <3>2
  <2>5. /\ t \o x \in Seq(Nat) /\ Len(t \o x) = k + Len(x)
        /\ \A i \in 1 .. k + Len(x) : (t \o x)[i] = IF i <= k THEN t[i] ELSE x[i - k]
    BY <2>3, <2>4, ConcatProperties
  <2>6. ASSUME NEW i \in 1 .. k + Len(x) PROVE s[i] = (t \o x)[i]
    <3>1. s[i] = w[m + i - 1] /\ m + i - 1 \in 1 .. Len(a) + Len(x)
      <4>1. m + i - 1 \in 1 .. Len(a) + Len(x)
        BY <1>b, <2>1
      <4> QED BY <2>1, <2>2, <4>1
    <3>2. CASE i <= k
      <4>1. m + i - 1 <= Len(a) /\ m + i - 1 \in 1 .. Len(a) /\ i \in 1 .. k
        BY <1>b, <2>1, <3>2
      <4>2. t[i] = a[m + i - 1]
        BY <2>1, <2>3, <3>1, <4>1
      <4> QED BY <1>3, <2>5, <3>1, <3>2, <4>1, <4>2
    <3>3. CASE ~(i <= k)
      <4>1. ~(m + i - 1 <= Len(a)) /\ (m + i - 1) - Len(a) = i - k
        <5>1. i \in Int /\ k \in Nat /\ m \in Nat /\ i > k /\ m + k = Len(a) + 1 /\ Len(a) \in Nat
          BY <1>b, <2>1, <3>3
        <5> HIDE DEF k, m
        <5>2. ASSUME NEW j \in Int, NEW h \in Nat, NEW l \in Nat, NEW g \in Nat, j > h, l + h = g + 1
              PROVE  ~(l + j - 1 <= g) /\ (l + j - 1) - g = j - h
          BY <5>2
        <5> QED BY <5>1, <5>2
      <4>2. w[m + i - 1] = x[i - k]
        BY <1>1, <3>1, <4>1
      <4> QED BY <2>5, <3>1, <3>3, <4>2
    <3> QED BY <3>2, <3>3
  <2>7. s = t \o x
    BY <2>2, <2>4, <2>5, <2>6, SeqEqual
  <2> QED BY <2>7 DEF s, t, m
<1>9. SubSeq(w, p + 5, p + 4 + n) = SubSeq(a, p + 5, p + 4 + n) /\ w[p + 2] = a[p + 2]
  <2>1. p + 5 \in Int /\ p + 4 + n \in Int /\ p + 2 \in 1 .. Len(a)
        /\ \A i \in p + 5 .. p + 4 + n : i \in 1 .. Len(a) /\ w[i] = a[i] /\ a[i] \in Nat
    <3>1. p + 5 \in Int /\ p + 4 + n \in Int /\ p + 2 \in 1 .. Len(a)
          /\ \A i \in p + 5 .. p + 4 + n : i \in 1 .. Len(a)
      BY <1>b, <1>c
    <3> QED BY <1>3, <3>1
  <2> DEFINE s == SubSeq(w, p + 5, p + 4 + n)
             t == SubSeq(a, p + 5, p + 4 + n)
  <2>2. s \in Seq(Nat) /\ t \in Seq(Nat) /\ Len(s) = Len(t) /\ Len(s) = (IF p + 5 <= p + 4 + n THEN (p + 4 + n) - (p + 5) + 1 ELSE 0)
        /\ \A i \in 1 .. (p + 4 + n) - (p + 5) + 1 : s[i] = w[p + 5 + i - 1] /\ t[i] = a[p + 5 + i - 1]
    <3>1. \A i \in p + 5 .. p + 4 + n : w[i] \in Nat
      BY <2>1
    <3> QED BY <2>1, <3>1, SubSeqProperties
  <2> HIDE DEF s, t
  <2>3. Len(s) = n /\ (p + 4 + n) - (p + 5) + 1 = n
    <3>1. (p + 5 <= p + 4 + n <=> n > 0) /\ (p + 4 + n) - (p + 5) + 1 = n
      BY <1>c
    <3> QED BY <1>c, <2>2, <3>1
  <2>4. ASSUME NEW i \in 1 .. Len(s) PROVE s[i] = t[i]
    <3>1. p + 5 + i - 1 \in p + 5 .. p + 4 + n
      BY <1>c, <2>3
    <3> QED BY <2>1, <2>2, <2>3, <3>1
  <2>5. s = t
    BY <2>2, <2>4, SeqEqual
  <2> QED BY <1>3, <2>1, <2>5 DEF s, t
<1>10. After(w) = After(a) \o x
  BY <1>5, <1>6, <1>8 DEF After, p, n
<1>11. Advertised(w) = Advertised(a)
  BY <1>5, <1>6, <1>9 DEF Advertised, p, n
<1> QED BY <1>7, <1>10, <1>11 DEF w

(* Found is defined: what is left of a run of bytes is shorter. *)
Frames(f, a) ==
  IF ~Ready(a) THEN [out |-> << >>, left |-> a]
  ELSE [out |-> Advertised(a) \o f[After(a)].out, left |-> f[After(a)].left]
UpTo(n) == {a \in Seq(Nat) : Len(a) <= n}
FindsUpTo(f, n) == f = [a \in UpTo(n) |-> Frames(f, a)]

LEMMA FindsAlike ==
  ASSUME NEW f, NEW g, NEW n, NEW m, FindsUpTo(f, n), FindsUpTo(g, m),
         NEW a \in Seq(Nat), a \in UpTo(n), a \in UpTo(m), n \in Nat, m \in Nat
  PROVE  f[a] = g[a]
<1> DEFINE Bad == {b \in Seq(Nat) : b \in UpTo(n) /\ b \in UpTo(m) /\ f[b] # g[b]}
<1> SUFFICES ASSUME Bad # {} PROVE FALSE
  OBVIOUS
<1>1. PICK b \in Bad : \A c \in Bad : Len(b) <= Len(c)
  BY ShortestOf
<1>2. b \in Seq(Nat) /\ b \in UpTo(n) /\ b \in UpTo(m) /\ f[b] = Frames(f, b) /\ g[b] = Frames(g, b) /\ f[b] # g[b]
  BY DEF FindsUpTo
<1>3. Ready(b)
  BY <1>2 DEF Frames
<1>4. After(b) \in Seq(Nat) /\ Len(After(b)) < Len(b) /\ Len(b) \in Nat /\ Len(After(b)) \in Nat
  BY <1>2, <1>3, ReadyIsThere, LenProperties
<1>5. After(b) \in UpTo(n) /\ After(b) \in UpTo(m)
  BY <1>2, <1>4 DEF UpTo
<1>6. After(b) \notin Bad
  BY <1>1, <1>4
<1>7. f[After(b)] = g[After(b)]
  BY <1>4, <1>5, <1>6
<1> QED BY <1>2, <1>7 DEF Frames

LEMMA FindsSomewhere == \A n \in Nat : \E f : FindsUpTo(f, n)
<1> DEFINE T == {n \in Nat : ~\E f : FindsUpTo(f, n)}
<1> SUFFICES ASSUME T # {} PROVE FALSE
  OBVIOUS
<1>1. PICK n \in T : \A m \in T : n <= m
  BY LeastExists
<1>2. n \in Nat /\ ~\E f : FindsUpTo(f, n)
  OBVIOUS
<1>3. PICK g : n > 0 => FindsUpTo(g, n - 1)
  <2>1. CASE n = 0
    BY <2>1
  <2>2. CASE n > 0
    <3>1. n - 1 \in Nat /\ n - 1 \notin T
      BY <1>1, <1>2, <2>2
    <3> QED BY <3>1
  <2> QED BY <1>2, <2>1, <2>2
<1> DEFINE f == [a \in UpTo(n) |-> Frames(g, a)]
<1>4. ASSUME NEW a \in UpTo(n) PROVE Frames(g, a) = Frames(f, a)
  <2>1. a \in Seq(Nat) /\ Len(a) \in Nat /\ Len(a) <= n
    BY LenProperties DEF UpTo
  <2>2. CASE ~Ready(a)
    BY <2>2 DEF Frames
  <2>3. CASE Ready(a)
    <3>1. After(a) \in Seq(Nat) /\ Len(After(a)) < Len(a) /\ Len(After(a)) \in Nat
      BY <2>1, <2>3, ReadyIsThere, LenProperties
    <3>2. n > 0 /\ After(a) \in UpTo(n - 1) /\ After(a) \in UpTo(n)
      BY <1>2, <2>1, <3>1 DEF UpTo
    <3>3. g[After(a)] = Frames(g, After(a)) /\ f[After(a)] = Frames(g, After(a))
      BY <1>3, <3>2 DEF FindsUpTo
    <3> QED BY <3>3 DEF Frames
  <2> QED BY <2>2, <2>3
<1>5. FindsUpTo(f, n)
  <2>1. f = [a \in UpTo(n) |-> Frames(f, a)]
    BY <1>4
  <2> QED BY <2>1 DEF FindsUpTo
<1> QED BY <1>2, <1>5

LEMMA FoundUnfolds == \A a \in Seq(Nat) : Found[a] = Frames(Found, a)
<1> DEFINE Upto[n \in Nat] == CHOOSE f : FindsUpTo(f, n)
<1> DEFINE F == [a \in Seq(Nat) |-> Upto[Len(a)][a]]
<1>1. \A n \in Nat : FindsUpTo(Upto[n], n)
  BY FindsSomewhere
<1> HIDE DEF Upto
<1>2. ASSUME NEW a \in Seq(Nat) PROVE F[a] = Frames(F, a)
  <2>1. Len(a) \in Nat /\ a \in UpTo(Len(a)) /\ FindsUpTo(Upto[Len(a)], Len(a))
    BY <1>1, LenProperties DEF UpTo
  <2>2. F[a] = Upto[Len(a)][a] /\ Upto[Len(a)][a] = Frames(Upto[Len(a)], a)
    BY <2>1 DEF FindsUpTo
  <2>3. CASE ~Ready(a)
    BY <2>2, <2>3 DEF Frames
  <2>4. CASE Ready(a)
    <3> DEFINE b == After(a)
    <3>1. b \in Seq(Nat) /\ Len(b) < Len(a) /\ Len(b) \in Nat
      BY <2>4, ReadyIsThere, LenProperties
    <3> HIDE DEF b
    <3>2. b \in UpTo(Len(a)) /\ b \in UpTo(Len(b)) /\ FindsUpTo(Upto[Len(b)], Len(b))
      BY <1>1, <2>1, <3>1 DEF UpTo
    <3>3. Upto[Len(a)][b] = Upto[Len(b)][b]
      BY <2>1, <3>1, <3>2, FindsAlike
    <3>4. F[b] = Upto[Len(b)][b]
      BY <3>1
    <3> HIDE DEF F
    <3> QED BY <2>2, <3>3, <3>4 DEF Frames, b
  <2> QED BY <2>3, <2>4
<1>3. F = [a \in Seq(Nat) |-> Frames(F, a)]
  <2>1. F = [a \in Seq(Nat) |-> F[a]]
    OBVIOUS
  <2> HIDE DEF F
  <2> QED BY <1>2, <2>1
<1> HIDE DEF F
<1>4. F = [a \in Seq(Nat) |-> IF ~Ready(a) THEN [out |-> << >>, left |-> a]
                             ELSE [out |-> Advertised(a) \o F[After(a)].out, left |-> F[After(a)].left]]
  BY <1>3 DEF Frames
<1>5. Found = [a \in Seq(Nat) |-> IF ~Ready(a) THEN [out |-> << >>, left |-> a]
                             ELSE [out |-> Advertised(a) \o Found[After(a)].out, left |-> Found[After(a)].left]]
  BY <1>4 DEF Found
<1> QED BY <1>5 DEF Frames

(* What is found is a sequence of adverts, and what is left is bytes. *)
LEMMA FoundType ==
  \A a \in Seq(Nat) :
     /\ Found[a].out \in Seq(Seq(Nat)) /\ Found[a].left \in Seq(Nat)
     /\ Found[a] = [out |-> Found[a].out, left |-> Found[a].left]
<1> DEFINE Ok(a) == /\ Found[a].out \in Seq(Seq(Nat)) /\ Found[a].left \in Seq(Nat)
                    /\ Found[a] = [out |-> Found[a].out, left |-> Found[a].left]
           Bad == {a \in Seq(Nat) : ~Ok(a)}
<1> SUFFICES ASSUME Bad # {} PROVE FALSE
  OBVIOUS
<1>1. PICK a \in Bad : \A b \in Bad : Len(a) <= Len(b)
  BY ShortestOf
<1>2. a \in Seq(Nat) /\ ~Ok(a) /\ Found[a] = Frames(Found, a)
  BY FoundUnfolds
<1>3. CASE ~Ready(a)
  <2>1. Found[a] = [out |-> << >>, left |-> a] /\ << >> \in Seq(Seq(Nat))
    BY <1>2, <1>3 DEF Frames
  <2> QED BY <1>2, <2>1
<1>4. CASE Ready(a)
  <2> DEFINE b == After(a)
  <2>1. b \in Seq(Nat) /\ Len(b) < Len(a) /\ Len(a) \in Nat /\ Len(b) \in Nat /\ Advertised(a) \in Seq(Seq(Nat))
    BY <1>2, <1>4, ReadyIsThere, LenProperties
  <2> HIDE DEF b
  <2>2. Ok(b)
    BY <1>1, <2>1
  <2>3. Found[a] = [out |-> Advertised(a) \o Found[b].out, left |-> Found[b].left]
    BY <1>2, <1>4 DEF Frames, b
  <2>4. Advertised(a) \o Found[b].out \in Seq(Seq(Nat))
    BY <2>1, <2>2, ConcatProperties
  <2> QED BY <1>2, <2>2, <2>3, <2>4
<1> QED BY <1>3, <1>4

(* What is found in one run of bytes and then in what is left of it with the   *)
(* next, is what is found in both at once.                                     *)
Rest(a, x) == Found[Found[a].left \o x]
InParts(a, x) == Found[a \o x] = [out |-> Found[a].out \o Rest(a, x).out, left |-> Rest(a, x).left]

LEMMA RestType ==
  ASSUME NEW a \in Seq(Nat), NEW x \in Seq(Nat)
  PROVE  /\ Rest(a, x).out \in Seq(Seq(Nat)) /\ Rest(a, x).left \in Seq(Nat)
         /\ Rest(a, x) = [out |-> Rest(a, x).out, left |-> Rest(a, x).left]
<1> DEFINE y == Found[a].left \o x
<1>1. Found[a].left \in Seq(Nat)
  BY FoundType
<1>2. y \in Seq(Nat)
  BY <1>1, ConcatProperties
<1>3. Rest(a, x) = Found[y]
  BY DEF Rest
<1> HIDE DEF y
<1> QED BY <1>2, <1>3, FoundType

LEMMA FoundInParts == \A a, x \in Seq(Nat) : InParts(a, x)
<1> SUFFICES ASSUME NEW x \in Seq(Nat), {a \in Seq(Nat) : ~InParts(a, x)} # {} PROVE FALSE
  OBVIOUS
<1>1. PICK a \in Seq(Nat) : ~InParts(a, x) /\ \A b \in Seq(Nat) : ~InParts(b, x) => Len(a) <= Len(b)
  <2> DEFINE Bad == {a \in Seq(Nat) : ~InParts(a, x)}
  <2>1. PICK a \in Bad : \A b \in Bad : Len(a) <= Len(b)
    BY ShortestOf
  <2> QED BY <2>1
<1>2. /\ Found[a] = Frames(Found, a) /\ a \o x \in Seq(Nat) /\ Found[a \o x] = Frames(Found, a \o x)
  <2>1. a \o x \in Seq(Nat)
    BY ConcatProperties
  <2> QED BY <2>1, FoundUnfolds
<1> DEFINE r == Rest(a, x)
<1>0. r.out \in Seq(Seq(Nat)) /\ r = [out |-> r.out, left |-> r.left]
  BY RestType
<1>3. CASE ~Ready(a)
  <2>1. Found[a] = [out |-> << >>, left |-> a]
    BY <1>2, <1>3 DEF Frames
  <2>2. Found[a].out = << >> /\ Found[a].left = a
    BY <2>1
  <2>3. r = Found[a \o x]
    BY <2>2 DEF Rest
  <2> HIDE DEF r
  <2>4. << >> \o r.out = r.out
    BY <1>0, ConcatEmptySeq
  <2>5. Found[a].out \o r.out = r.out
    BY <2>2, <2>4
  <2>6. Found[a \o x] = [out |-> Found[a].out \o r.out, left |-> r.left]
    BY <1>0, <2>3, <2>5
  <2> QED BY <1>1, <2>6 DEF InParts, r
<1>4. CASE Ready(a)
  <2> DEFINE b == After(a)
             q == Rest(b, x)
  <2>1. b \in Seq(Nat) /\ Len(b) < Len(a) /\ Len(a) \in Nat /\ Len(b) \in Nat /\ Advertised(a) \in Seq(Seq(Nat))
    BY <1>4, ReadyIsThere, LenProperties
  <2>2. Ready(a \o x) /\ After(a \o x) = b \o x /\ Advertised(a \o x) = Advertised(a)
    BY <1>4, ReadyStays
  <2>4. Found[a] = [out |-> Advertised(a) \o Found[b].out, left |-> Found[b].left]
    BY <1>2, <1>4 DEF Frames
  <2>5. Found[a \o x] = [out |-> Advertised(a) \o Found[b \o x].out, left |-> Found[b \o x].left]
    BY <1>2, <2>2 DEF Frames
  <2> HIDE DEF b
  <2>3. InParts(b, x)
    BY <1>1, <2>1
  <2>6. r = q
    BY <2>4 DEF Rest
  <2>7. q.out \in Seq(Seq(Nat)) /\ Found[b].out \in Seq(Seq(Nat))
    BY <2>1, FoundType, RestType
  <2> DEFINE w == b \o x
  <2>8. Found[w] = [out |-> Found[b].out \o q.out, left |-> q.left]
    BY <2>3 DEF InParts
  <2>a. Found[a \o x] = [out |-> Advertised(a) \o Found[w].out, left |-> Found[w].left]
    BY <2>5
  <2> HIDE DEF q, r, w
  <2>9. (Advertised(a) \o Found[b].out) \o q.out = Advertised(a) \o (Found[b].out \o q.out)
    BY <2>1, <2>7, Joins
  <2>10. Found[w].out = Found[b].out \o q.out /\ Found[w].left = q.left /\ Found[a].out = Advertised(a) \o Found[b].out
    <3> DEFINE g == Found[w] h == Found[b].out \o q.out
               v == Found[a] z == Advertised(a) \o Found[b].out
    <3>1. g = [out |-> h, left |-> q.left] /\ v = [out |-> z, left |-> Found[b].left]
      BY <2>4, <2>8
    <3> HIDE DEF g, h, v, z
    <3>2. g.out = h /\ g.left = q.left /\ v.out = z
      BY <3>1
    <3> QED BY <3>2 DEF g, h, v, z
  <2>11. Found[a].out \o r.out = Advertised(a) \o Found[w].out
    BY <2>6, <2>9, <2>10
  <2>12. Found[a \o x] = [out |-> Found[a].out \o r.out, left |-> r.left]
    BY <2>a, <2>6, <2>10, <2>11
  <2> QED BY <1>1, <2>12 DEF InParts, r
<1> QED BY <1>3, <1>4

(* The bytes that a reader holds are what is left of all that it has read. *)
LineIndInv ==
  /\ bsLine \in Seq(Nat) /\ bsAcc \in Seq(Nat) /\ bsWhole \in Seq(Nat)
  /\ bsOut \in Seq(Seq(Nat)) /\ bsTaken \in Seq(Seq(Nat))
  /\ ~bsCleared /\ bsHeld => bsTaken \o bsOut = Found[bsWhole].out
  /\ ~bsCleared /\ bsHeld /\ bsReading => bsAcc = Found[bsWhole].left
  /\ bsClosed => ~bsReading /\ bsOut = << >>

LEMMA LineInit == BsInit => LineIndInv
<1> SUFFICES ASSUME BsInit PROVE LineIndInv
  OBVIOUS
<1>1. << >> \in Seq(Nat) /\ << >> \in Seq(Seq(Nat)) /\ Len(<< >>) = 0 /\ << >> \o << >> = << >>
  OBVIOUS
<1>2. ~Ready(<< >>)
  <2>1. Syncs(<< >>) = {}
    BY <1>1 DEF Syncs
  <2>2. SyncAt(<< >>) = 0
    BY <1>1, <2>1, SyncIsFirst
  <2> QED BY <2>2 DEF Ready
<1>3. Found[<< >>] = [out |-> << >>, left |-> << >>]
  BY <1>1, <1>2, FoundUnfolds DEF Frames
<1> QED BY <1>1, <1>3 DEF BsInit, LineIndInv

LEMMA LineReads == LineIndInv /\ Reads => LineIndInv'
<1> SUFFICES ASSUME LineIndInv, Reads PROVE LineIndInv'
  OBVIOUS
<1>1. PICK n \in 1 .. BsChunk :
        /\ n <= Len(bsLine)
        /\ bsLine' = SubSeq(bsLine, n + 1, Len(bsLine)) /\ bsWhole' = bsWhole \o SubSeq(bsLine, 1, n)
        /\ LET f == Found[bsAcc \o SubSeq(bsLine, 1, n)]
           IN  IF bsHeld \/ f.out = << >> THEN HandsOn(f) ELSE GivesUp
  BY DEF Reads
<1>2. UNCHANGED <<bsHeld, bsTaken, bsClosed>> /\ bsReading
  BY DEF Reads
<1> DEFINE x == SubSeq(bsLine, 1, n)
           y == bsAcc \o x
           f == Found[y]
<1>3. n \in Nat /\ n >= 1 /\ Len(bsLine) \in Nat /\ \A i \in 1 .. Len(bsLine) : bsLine[i] \in Nat
  <2>1. bsLine \in Seq(Nat)
    BY DEF LineIndInv
  <2>2. n \in Nat /\ n >= 1
    BY BsAssumption
  <2> QED BY <2>1, <2>2
<1>4. x \in Seq(Nat) /\ bsLine' \in Seq(Nat)
  <2>1. \A i \in 1 .. n : bsLine[i] \in Nat
    BY <1>1, <1>3
  <2>2. \A i \in n + 1 .. Len(bsLine) : bsLine[i] \in Nat
    BY <1>1, <1>3
  <2> QED BY <1>1, <1>3, <2>1, <2>2, SubSeqProperties
<1> HIDE DEF x
<1>5. y \in Seq(Nat) /\ bsWhole' \in Seq(Nat) /\ bsWhole' = bsWhole \o x
  BY <1>1, <1>4, ConcatProperties DEF LineIndInv, x
<1>7. IF bsHeld \/ f.out = << >> THEN HandsOn(f) ELSE GivesUp
  BY <1>1 DEF x
<1> HIDE DEF y
<1>6. f.out \in Seq(Seq(Nat)) /\ f.left \in Seq(Nat) /\ << >> \in Seq(Nat)
  <2>1. Found[y].out \in Seq(Seq(Nat)) /\ Found[y].left \in Seq(Nat)
    BY <1>5, FoundType
  <2> QED BY <2>1
<1> HIDE DEF f
<1>8. CASE bsHeld \/ f.out = << >>
  <2>1. bsOut' = bsOut \o f.out /\ bsAcc' = BsKept(f.left) /\ bsCleared' = (bsCleared \/ Len(f.left) > AccLimit) /\ bsReading' = bsReading
    BY <1>7, <1>8 DEF HandsOn
  <2>2. bsOut' \in Seq(Seq(Nat)) /\ bsAcc' \in Seq(Nat)
    BY <1>6, <2>1, ConcatProperties DEF BsKept, LineIndInv
  <2>3. ~bsClosed
    BY <1>2 DEF LineIndInv
  <2>4. ASSUME ~bsCleared', bsHeld' PROVE bsTaken' \o bsOut' = Found[bsWhole'].out /\ bsAcc' = Found[bsWhole'].left
    <3>1. ~bsCleared /\ bsHeld /\ bsAcc' = f.left
      BY <1>2, <2>1, <2>4 DEF BsKept
    <3>2. bsTaken \o bsOut = Found[bsWhole].out /\ f = Rest(bsWhole, x)
      BY <1>2, <3>1 DEF LineIndInv, Rest, f, y
    <3>3. Found[bsWhole'] = [out |-> Found[bsWhole].out \o f.out, left |-> f.left]
      <4>1. InParts(bsWhole, x)
        BY <1>4, FoundInParts DEF LineIndInv
      <4> QED BY <1>5, <3>2, <4>1 DEF InParts
    <3>4. (bsTaken \o bsOut) \o f.out = bsTaken \o (bsOut \o f.out)
      <4>1. bsTaken \in Seq(Seq(Nat)) /\ bsOut \in Seq(Seq(Nat)) /\ f.out \in Seq(Seq(Nat))
        BY <1>6 DEF LineIndInv
      <4> QED BY <4>1, Joins
    <3>5. Found[bsWhole'].out = Found[bsWhole].out \o f.out /\ Found[bsWhole'].left = f.left
      <4> DEFINE g == Found[bsWhole'] h == Found[bsWhole].out \o f.out
      <4>1. g = [out |-> h, left |-> f.left]
        BY <3>3
      <4> HIDE DEF g, h
      <4>2. g.out = h /\ g.left = f.left
        BY <4>1
      <4> QED BY <4>2 DEF g, h
    <3> QED BY <1>2, <2>1, <3>1, <3>2, <3>4, <3>5
  <2> QED BY <1>2, <1>4, <1>5, <2>2, <2>3, <2>4 DEF LineIndInv
<1>9. CASE ~(bsHeld \/ f.out = << >>)
  <2>1. bsReading' = FALSE /\ bsAcc' = << >> /\ UNCHANGED <<bsOut, bsCleared>> /\ ~bsHeld /\ ~bsClosed
    BY <1>2, <1>7, <1>9 DEF GivesUp, LineIndInv
  <2> QED BY <1>2, <1>4, <1>5, <1>6, <2>1 DEF LineIndInv
<1> QED BY <1>8, <1>9

LEMMA LineStep == LineIndInv /\ [BsNext]_bsVars => LineIndInv'
<1> SUFFICES ASSUME LineIndInv, [BsNext]_bsVars PROVE LineIndInv'
  OBVIOUS
<1>0. << >> \in Seq(Nat) /\ << >> \in Seq(Seq(Nat))
  OBVIOUS
<1>1. CASE UNCHANGED bsVars
  BY <1>1 DEF LineIndInv, bsVars
<1>2. CASE DongleWrites
  <2>1. PICK item \in BsItem : bsLine' = bsLine \o item
    BY <1>2 DEF DongleWrites
  <2>2. bsLine' \in Seq(Nat)
    BY <2>1, BsAssumption, ConcatProperties DEF LineIndInv
  <2> QED BY <1>2, <2>2 DEF LineIndInv, DongleWrites
<1>3. CASE Reads
  BY <1>3, LineReads
<1>4. CASE PortFails
  BY <1>0, <1>4 DEF LineIndInv, PortFails
<1>5. CASE next_scanned
  <2>1. /\ bsOut # << >> /\ bsTaken' = Append(bsTaken, Head(bsOut)) /\ bsOut' = Tail(bsOut)
        /\ UNCHANGED <<bsLine, bsReading, bsAcc, bsHeld, bsClosed, bsWhole, bsCleared>>
    BY <1>5 DEF next_scanned
  <2>2. bsOut \in Seq(Seq(Nat)) /\ bsTaken \in Seq(Seq(Nat))
    BY DEF LineIndInv
  <2>3. /\ Head(bsOut) \in Seq(Nat) /\ bsOut' \in Seq(Seq(Nat)) /\ <<Head(bsOut)>> \in Seq(Seq(Nat))
        /\ <<Head(bsOut)>> \o Tail(bsOut) = bsOut
    BY <2>1, <2>2
  <2>4. bsTaken' \in Seq(Seq(Nat)) /\ bsTaken' = bsTaken \o <<Head(bsOut)>>
    BY <2>1, <2>2, <2>3, AppendIsConcat, AppendProperties
  <2>5. bsTaken' \o bsOut' = bsTaken \o bsOut
    BY <2>1, <2>2, <2>3, <2>4, ConcatAssociative
  <2> QED BY <2>1, <2>3, <2>4, <2>5 DEF LineIndInv
<1>6. CASE next_scanned_closed
  BY <1>6 DEF LineIndInv, next_scanned_closed
<1>7. CASE FaceDropped
  BY <1>0, <1>7 DEF LineIndInv, FaceDropped
<1> QED BY <1>1, <1>2, <1>3, <1>4, <1>5, <1>6, <1>7 DEF BsNext

LEMMA LineIsUncut == LineIndInv => CutsDoNotMatter
<1> SUFFICES ASSUME LineIndInv PROVE CutsDoNotMatter
  OBVIOUS
<1>1. bsTaken \o << >> = bsTaken
  BY ConcatEmptySeq DEF LineIndInv
<1> QED BY <1>1 DEF CutsDoNotMatter, LineIndInv

(* The frame that is being written is the one asked for last. *)
DownIndInv ==
  /\ bdLeft \in Seq(Nat) /\ bdDown \in Seq(Nat) /\ bdAsked \in Seq(Nat)
  /\ bdHeld = BdNone => bdLeft = << >>
  /\ ~bdBroken => bdAsked = bdDown \o bdLeft

LEMMA FramesAreBytes == DownFrame \subseteq Seq(Nat)
<1>1. ASSUME NEW ty \in Nat, NEW q \in Seq(Nat) PROVE Framed(ty, q) \in Seq(Nat)
  <2>1. Len(q) \in Nat
    BY LenProperties
  <2> DEFINE h == <<Sync0, Sync1, ty, Len(q) % 256, (Len(q) \div 256) % 256>>
  <2>2. h \in Seq(Nat)
    <3>1. Sync0 \in Nat /\ Sync1 \in Nat /\ Len(q) % 256 \in Nat /\ (Len(q) \div 256) % 256 \in Nat
      BY <2>1, BdAssumption
    <3> QED BY <3>1
  <2> HIDE DEF h
  <2>3. h \o q \in Seq(Nat)
    BY <2>2, ConcatProperties
  <2> QED BY <2>3 DEF Framed, h
<1>2. ASSUME NEW s \in BdShare PROVE ShareFrame(s) \in Seq(Nat)
  <2>1. s \in Nat /\ CoexItvl \in Nat /\ CoexType \in Nat
    BY BdAssumption
  <2>2. s * CoexItvl \in Nat
    BY <2>1
  <2>3. ScanWindow(s) \in Nat
    <3> DEFINE u == s * CoexItvl
    <3>1. u \div 100 \in Nat
      BY <2>2
    <3> QED BY <2>1, <3>1 DEF ScanWindow
  <2>4. ScanWindow(s) % 256 \in Nat /\ ScanWindow(s) \div 256 \in Nat /\ CoexItvl % 256 \in Nat /\ CoexItvl \div 256 \in Nat
    BY <2>1, <2>3
  <2>5. <<ScanWindow(s) % 256, ScanWindow(s) \div 256, CoexItvl % 256, CoexItvl \div 256>> \in Seq(Nat)
    BY <2>4
  <2> QED BY <1>1, <2>1, <2>5 DEF ShareFrame
<1> QED BY <1>1, <1>2, BdAssumption DEF DownFrame

LEMMA DownStep == DownIndInv /\ [BdNext]_bdVars => DownIndInv'
<1> SUFFICES ASSUME DownIndInv, [BdNext]_bdVars PROVE DownIndInv'
  OBVIOUS
<1>1. CASE UNCHANGED bdVars
  BY <1>1 DEF DownIndInv, bdVars
<1>2. ASSUME NEW c \in BdCaller, send_framed(c) PROVE DownIndInv'
  <2>1. PICK frame \in DownFrame : bdLeft' = frame /\ bdAsked' = bdAsked \o frame
    BY <1>2 DEF send_framed
  <2>2. frame \in Seq(Nat) /\ c # BdNone
    BY FramesAreBytes, BdAssumption
  <2>3. bdLeft = << >> /\ bdDown \o << >> = bdDown
    BY <1>2, ConcatEmptySeq DEF send_framed, PortIsFree, DownIndInv
  <2>4. bdAsked' \in Seq(Nat)
    BY <2>1, <2>2, ConcatProperties DEF DownIndInv
  <2> QED BY <1>2, <2>1, <2>2, <2>3, <2>4 DEF DownIndInv, send_framed
<1>3. CASE write_all
  <2>1. PICK n \in 1 .. Len(bdLeft) :
          /\ bdDown' = bdDown \o SubSeq(bdLeft, 1, n) /\ bdLeft' = SubSeq(bdLeft, n + 1, Len(bdLeft))
          /\ bdHeld' = IF n = Len(bdLeft) THEN BdNone ELSE bdHeld
    BY <1>3 DEF write_all
  <2> DEFINE x == SubSeq(bdLeft, 1, n)
             y == SubSeq(bdLeft, n + 1, Len(bdLeft))
  <2>2. n \in Nat /\ n >= 1 /\ Len(bdLeft) \in Nat /\ n <= Len(bdLeft) /\ \A i \in 1 .. Len(bdLeft) : bdLeft[i] \in Nat
    BY DEF DownIndInv
  <2>3. x \in Seq(Nat) /\ y \in Seq(Nat)
    <3>1. \A i \in 1 .. n : bdLeft[i] \in Nat
      BY <2>2
    <3>2. \A i \in n + 1 .. Len(bdLeft) : bdLeft[i] \in Nat
      BY <2>2
    <3> QED BY <2>2, <3>1, <3>2, SubSeqProperties
  <2>4. x \o y = bdLeft
    BY <2>2 DEF DownIndInv
  <2>5. n = Len(bdLeft) => y = << >>
    BY <2>2
  <2> HIDE DEF x, y
  <2>6. (bdDown \o x) \o y = bdDown \o bdLeft
    <3>1. bdDown \in Seq(Nat)
      BY DEF DownIndInv
    <3>2. (bdDown \o x) \o y = bdDown \o (x \o y)
      BY <2>3, <3>1, Joins
    <3> QED BY <2>4, <3>2
  <2>7. bdDown' = bdDown \o x /\ bdLeft' = y /\ bdDown' \in Seq(Nat) /\ bdHeld # BdNone /\ UNCHANGED <<bdAsked, bdBroken>>
    BY <1>3, <2>1, <2>3, ConcatProperties DEF x, y, DownIndInv, write_all
  <2> QED BY <2>1, <2>3, <2>5, <2>6, <2>7 DEF DownIndInv
<1>4. CASE WriteFails
  <2>1. << >> \in Seq(Nat)
    OBVIOUS
  <2> QED BY <1>4, <2>1 DEF DownIndInv, WriteFails
<1> QED BY <1>1, <1>2, <1>3, <1>4 DEF BdNext

LEMMA DownInit == BdInit => DownIndInv
<1>1. << >> \in Seq(Nat) /\ << >> \o << >> = << >>
  OBVIOUS
<1> QED BY <1>1 DEF BdInit, DownIndInv


(* Whatever the adverts, the reads and the callers of the port interleave to,    *)
(* and whatever is refused or lost: a packet handed up by the BLE bearer is made  *)
(* of the adverts of the one address it is given; with nothing lost every packet *)
(* of a task alone on its address is handed up once, whole and in order; a read  *)
(* of the dongle's line that cuts a frame changes nothing; and the frames sent   *)
(* to it are each whole.  For any tasks, addresses, fragments, bytes and reads.  *)
THEOREM WhatIsHandedUpWasSent == BaSpec /\ BsSpec /\ BdSpec => []BleInv
<1>1. BaSpec => []AirIndInv
  BY AirInit, AirStep, PTL DEF BaSpec
<1>2. BsSpec => []LineIndInv
  BY LineInit, LineStep, PTL DEF BsSpec
<1>3. BdSpec => []DownIndInv
  BY DownInit, DownStep, PTL DEF BdSpec
<1>4. AirIndInv /\ LineIndInv /\ DownIndInv => BleInv
  BY AirHolds, LineIsUncut DEF DownIndInv, CallsDoNotMix, BleInv
<1> QED BY <1>1, <1>2, <1>3, <1>4, PTL

(* ---------------------- the reach strategy: ReachPrior ---------------------- *)
(* Induction over a set of numbers. *)
LEMMA FromNought ==
  ASSUME NEW G, 0 \in G, \A i \in Nat : i \in G => i + 1 \in G
  PROVE  \A n \in Nat : n \in G
<1> SUFFICES ASSUME NEW n \in Nat, n \notin G PROVE FALSE
  OBVIOUS
<1> DEFINE T == {i \in Nat : i \notin G}
<1>1. T \in SUBSET Nat /\ T # {}
  OBVIOUS
<1>2. PICK x \in T : \A y \in T : x <= y
  BY <1>1, LeastExists
<1>3. x \in Nat /\ x # 0
  BY <1>2
<1>4. x - 1 \in Nat /\ ~(x <= x - 1) /\ (x - 1) + 1 = x
  BY <1>3
<1>5. x - 1 \in G
  BY <1>2, <1>4
<1> QED BY <1>2, <1>4, <1>5

Halving(h, w, n) == h = [i \in 0 .. n |-> IF i = 0 THEN w ELSE h[i - 1] \div 2]

LEMMA HalvingsExist == ASSUME NEW w PROVE \A n \in Nat : \E h : Halving(h, w, n)
<1> DEFINE G == {n \in Nat : \E h : Halving(h, w, n)}
<1>1. 0 \in G
  <2> DEFINE h == [i \in 0 .. 0 |-> w]
  <2>1. h = [i \in 0 .. 0 |-> IF i = 0 THEN w ELSE h[i - 1] \div 2]
    OBVIOUS
  <2> HIDE DEF h
  <2>2. Halving(h, w, 0)
    BY <2>1 DEF Halving
  <2> QED BY <2>2
<1>2. ASSUME NEW n \in Nat, n \in G PROVE n + 1 \in G
  <2>1. PICK g : Halving(g, w, n)
    BY <1>2
  <2> DEFINE h == [i \in 0 .. n + 1 |-> IF i = 0 THEN w ELSE g[i - 1] \div 2]
  <2>2. g = [i \in 0 .. n |-> IF i = 0 THEN w ELSE g[i - 1] \div 2]
    BY <2>1 DEF Halving
  <2>3. \A i \in 0 .. n : h[i] = g[i]
    <3> SUFFICES ASSUME NEW i \in 0 .. n PROVE h[i] = g[i]
      OBVIOUS
    <3>1. i \in 0 .. n + 1
      OBVIOUS
    <3>2. h[i] = IF i = 0 THEN w ELSE g[i - 1] \div 2
      BY <3>1
    <3>3. g[i] = IF i = 0 THEN w ELSE g[i - 1] \div 2
      BY <2>2
    <3> QED BY <3>2, <3>3
  <2>4. \A i \in 0 .. n + 1 : h[i] = IF i = 0 THEN w ELSE h[i - 1] \div 2
    <3> SUFFICES ASSUME NEW i \in 0 .. n + 1 PROVE h[i] = IF i = 0 THEN w ELSE h[i - 1] \div 2
      OBVIOUS
    <3>1. i # 0 => i - 1 \in 0 .. n
      OBVIOUS
    <3>2. h[i] = IF i = 0 THEN w ELSE g[i - 1] \div 2
      OBVIOUS
    <3> HIDE DEF h
    <3> QED BY <2>3, <3>1, <3>2
  <2>5. h = [i \in 0 .. n + 1 |-> h[i]]
    OBVIOUS
  <2> HIDE DEF h
  <2>6. h = [i \in 0 .. n + 1 |-> IF i = 0 THEN w ELSE h[i - 1] \div 2]
    BY <2>4, <2>5
  <2>7. Halving(h, w, n + 1)
    BY <2>6 DEF Halving
  <2> QED BY <2>7
<1> HIDE DEF G
<1>3. \A n \in Nat : n \in G
  BY <1>1, <1>2, FromNought
<1> QED BY <1>3 DEF G

LEMMA HalvingOf ==
  ASSUME NEW w, NEW n \in Nat
  PROVE  \E h : Halving(h, w, n) /\ Halved(w, n) = h[n]
<1> DEFINE h == CHOOSE h : h = [i \in 0 .. n |-> IF i = 0 THEN w ELSE h[i - 1] \div 2]
<1>1. \E g : g = [i \in 0 .. n |-> IF i = 0 THEN w ELSE g[i - 1] \div 2]
  BY HalvingsExist DEF Halving
<1>2. h = [i \in 0 .. n |-> IF i = 0 THEN w ELSE h[i - 1] \div 2]
  BY <1>1
<1>3. Halved(w, n) = h[n]
  BY DEF Halved
<1> HIDE DEF h
<1> QED BY <1>2, <1>3 DEF Halving

(* Halvings of one weight agree as far as both go. *)
LEMMA HalvingsAgree ==
  ASSUME NEW w, NEW n \in Nat, NEW m \in Nat, NEW g, NEW h, Halving(g, w, n), Halving(h, w, m), n <= m
  PROVE  \A i \in 0 .. n : g[i] = h[i]
<1> DEFINE G == {i \in Nat : i <= n => g[i] = h[i]}
<1>1. \A i \in 0 .. n : g[i] = IF i = 0 THEN w ELSE g[i - 1] \div 2
  BY DEF Halving
<1>2. \A i \in 0 .. m : h[i] = IF i = 0 THEN w ELSE h[i - 1] \div 2
  BY DEF Halving
<1>3. 0 \in G
  BY <1>1, <1>2
<1>4. ASSUME NEW i \in Nat, i \in G PROVE i + 1 \in G
  <2> SUFFICES ASSUME i + 1 <= n PROVE g[i + 1] = h[i + 1]
    OBVIOUS
  <2>1. i + 1 \in 0 .. n /\ i + 1 \in 0 .. m /\ (i + 1) - 1 = i /\ i + 1 # 0
    OBVIOUS
  <2>2. g[i] = h[i]
    BY <1>4
  <2> QED BY <1>1, <1>2, <2>1, <2>2
<1> HIDE DEF G
<1>5. \A i \in Nat : i \in G
  BY <1>3, <1>4, FromNought
<1> QED BY <1>5 DEF G

LEMMA HalvedNone == ASSUME NEW w PROVE Halved(w, 0) = w
<1>1. PICK h : Halving(h, w, 0) /\ Halved(w, 0) = h[0]
  BY HalvingOf
<1>2. h = [i \in 0 .. 0 |-> IF i = 0 THEN w ELSE h[i - 1] \div 2]
  BY <1>1 DEF Halving
<1> QED BY <1>1, <1>2

LEMMA HalvedMore ==
  ASSUME NEW w, NEW n \in Nat PROVE Halved(w, n + 1) = Halved(w, n) \div 2
<1>1. PICK g : Halving(g, w, n) /\ Halved(w, n) = g[n]
  BY HalvingOf
<1>2. PICK h : Halving(h, w, n + 1) /\ Halved(w, n + 1) = h[n + 1]
  BY HalvingOf
<1>3. h = [i \in 0 .. n + 1 |-> IF i = 0 THEN w ELSE h[i - 1] \div 2]
  BY <1>2 DEF Halving
<1>4. n + 1 \in 0 .. n + 1 /\ n + 1 # 0 /\ (n + 1) - 1 = n /\ n \in 0 .. n /\ n <= n + 1
  OBVIOUS
<1>5. h[n + 1] = h[n] \div 2
  BY <1>3, <1>4
<1>6. g[n] = h[n]
  BY <1>1, <1>2, <1>4, HalvingsAgree
<1> QED BY <1>1, <1>2, <1>5, <1>6

(* What is left is no more than there was. *)
LEMMA HalvedType ==
  ASSUME NEW w \in Nat PROVE \A n \in Nat : Halved(w, n) \in 0 .. w
<1> DEFINE G == {n \in Nat : Halved(w, n) \in 0 .. w}
<1>1. 0 \in G
  BY HalvedNone
<1>2. ASSUME NEW n \in Nat, n \in G PROVE n + 1 \in G
  <2>1. \A x \in 0 .. w : x \div 2 \in 0 .. w
    OBVIOUS
  <2> QED BY <1>2, <2>1, HalvedMore
<1> HIDE DEF G
<1>3. \A n \in Nat : n \in G
  BY <1>1, <1>2, FromNought
<1> QED BY <1>3 DEF G

LEMMA HalvedMono ==
  ASSUME NEW v \in Nat, NEW w \in Nat, v <= w PROVE \A n \in Nat : Halved(v, n) <= Halved(w, n)
<1> DEFINE G == {n \in Nat : Halved(v, n) <= Halved(w, n)}
<1>1. 0 \in G
  BY HalvedNone
<1>2. ASSUME NEW n \in Nat, n \in G PROVE n + 1 \in G
  <2>1. \A x, y \in Nat : x <= y => x \div 2 <= y \div 2
    OBVIOUS
  <2>2. Halved(v, n) \in 0 .. v /\ Halved(w, n) \in 0 .. w
    BY HalvedType
  <2>3. Halved(v, n) \in Nat /\ Halved(w, n) \in Nat
    BY <2>2
  <2> QED BY <1>2, <2>1, <2>3, HalvedMore
<1> HIDE DEF G
<1>3. \A n \in Nat : n \in G
  BY <1>1, <1>2, FromNought
<1> QED BY <1>3 DEF G

(* Halved for a, then for b units, is halved for both. *)
LEMMA HalvedTwice ==
  ASSUME NEW w, NEW a \in Nat PROVE \A b \in Nat : Halved(w, a + b) = Halved(Halved(w, a), b)
<1> DEFINE G == {b \in Nat : Halved(w, a + b) = Halved(Halved(w, a), b)}
<1>1. 0 \in G
  <2>1. a + 0 = a
    OBVIOUS
  <2> QED BY <2>1, HalvedNone
<1>2. ASSUME NEW b \in Nat, b \in G PROVE b + 1 \in G
  <2>1. a + b \in Nat /\ a + (b + 1) = (a + b) + 1
    OBVIOUS
  <2>2. Halved(w, (a + b) + 1) = Halved(w, a + b) \div 2
    BY <2>1, HalvedMore
  <2>3. Halved(Halved(w, a), b + 1) = Halved(Halved(w, a), b) \div 2
    BY HalvedMore
  <2> QED BY <1>2, <2>1, <2>2, <2>3
<1> HIDE DEF G
<1>3. \A b \in Nat : b \in G
  BY <1>1, <1>2, FromNought
<1> QED BY <1>3 DEF G

(* More units leave no more. *)
LEMMA HalvedLess ==
  ASSUME NEW w \in Nat, NEW a \in Nat, NEW b \in Nat, a <= b PROVE Halved(w, b) <= Halved(w, a)
<1>1. PICK d \in Nat : b = a + d
  OBVIOUS
<1>2. Halved(w, b) = Halved(Halved(w, a), d)
  BY <1>1, HalvedTwice
<1>3. Halved(w, a) \in Nat
  BY HalvedType
<1>4. Halved(Halved(w, a), d) \in 0 .. Halved(w, a)
  BY <1>3, HalvedType
<1> QED BY <1>2, <1>3, <1>4

(* What is added before is worth no more than what is added after. *)
LEMMA HalvedAdded ==
  ASSUME NEW w \in Nat, NEW r \in Nat PROVE \A n \in Nat : Halved(w + r, n) <= Halved(w, n) + r
<1> DEFINE u == w + r
<1> DEFINE G == {n \in Nat : Halved(u, n) <= Halved(w, n) + r}
<1>0. u \in Nat
  OBVIOUS
<1>1. 0 \in G
  BY HalvedNone
<1> HIDE DEF u
<1>2. ASSUME NEW n \in Nat, n \in G PROVE n + 1 \in G
  <2>1. \A x, y \in Nat : x <= y + r => x \div 2 <= (y \div 2) + r
    OBVIOUS
  <2>2. Halved(u, n) \in 0 .. u /\ Halved(w, n) \in 0 .. w
    BY <1>0, HalvedType
  <2>3. Halved(u, n) \in Nat /\ Halved(w, n) \in Nat
    BY <1>0, <2>2
  <2> QED BY <1>2, <2>1, <2>3, HalvedMore
<1> HIDE DEF G
<1>3. \A n \in Nat : n \in G
  BY <1>1, <1>2, FromNought
<1> QED BY <1>3 DEF G, u

(* Weights and cells stay within their types, whatever time has passed. *)
Memory == [cell : [RpCell -> 0 .. WMax], at : Nat]
Weighed == [w : 0 .. WMax, at : Nat]

LEMMA SinceType == ASSUME rpClock \in Nat, NEW t \in Nat
  PROVE Since(t) \in Nat /\ (rpClock > t => Since(t) = rpClock - t) /\ (rpClock <= t => Since(t) = 0)
BY DEF Since

LEMMA CappedFacts == ASSUME NEW x \in Nat
  PROVE /\ Capped(x) \in 0 .. WMax /\ Capped(x) <= x
        /\ \A y \in Nat : y <= x => Capped(y) <= Capped(x)
        /\ x <= WMax => Capped(x) = x
BY RpAssumption DEF Capped

LEMMA CellOfKey == ASSUME NEW k \in RpKey, NEW i \in DOMAIN RpCells[k] PROVE RpCells[k][i] \in RpCell
BY DEF RpCell

LEMMA Decayed ==
  ASSUME NEW b \in Memory, rpClock \in Nat
  PROVE  /\ decay_to(b) \in Memory
         /\ decay_to(b).at = IF rpClock > b.at THEN rpClock ELSE b.at
         /\ \A c \in RpCell : decay_to(b).cell[c] = Halved(b.cell[c], decay_to(b).at - b.at)
<1>1. b.at \in Nat /\ b.cell \in [RpCell -> 0 .. WMax]
  BY DEF Memory
<1>2. \A c \in RpCell : b.cell[c] \in Nat /\ b.cell[c] <= WMax
  BY <1>1, RpAssumption
<1>3. CASE rpClock > b.at
  <2>1. Since(b.at) = rpClock - b.at /\ Since(b.at) \in Nat /\ Since(b.at) # 0
    BY <1>1, <1>3 DEF Since
  <2>2. decay_to(b) = [cell |-> [c \in RpCell |-> Halved(b.cell[c], Since(b.at))], at |-> rpClock]
    BY <2>1 DEF decay_to
  <2>3. \A c \in RpCell : Halved(b.cell[c], Since(b.at)) \in 0 .. WMax
    <3> SUFFICES ASSUME NEW c \in RpCell PROVE Halved(b.cell[c], Since(b.at)) \in 0 .. WMax
      OBVIOUS
    <3>1. Halved(b.cell[c], Since(b.at)) \in 0 .. b.cell[c]
      BY <1>2, <2>1, HalvedType
    <3> QED BY <1>2, <3>1, RpAssumption
  <2>4. decay_to(b) \in Memory
    BY <2>2, <2>3 DEF Memory
  <2> QED BY <1>3, <2>1, <2>2, <2>4
<1>4. CASE ~(rpClock > b.at)
  <2>1. Since(b.at) = 0
    BY <1>4 DEF Since
  <2>2. decay_to(b) = b
    BY <2>1 DEF decay_to
  <2>3. b.at - b.at = 0
    BY <1>1
  <2>4. \A c \in RpCell : Halved(b.cell[c], 0) = b.cell[c]
    BY HalvedNone
  <2> QED BY <1>4, <2>2, <2>3, <2>4
<1> QED BY <1>3, <1>4

(* Decaying a cell keeps it above what is left of a weight it was above. *)
LEMMA DecayedAbove ==
  ASSUME NEW b \in Memory, rpClock \in Nat, NEW c \in RpCell, NEW w \in Nat, NEW t \in Nat, t <= b.at,
         b.cell[c] >= Halved(w, b.at - t)
  PROVE  decay_to(b).cell[c] >= Halved(w, decay_to(b).at - t)
<1> DEFINE B == decay_to(b).at
<1> DEFINE e == B - b.at
<1> DEFINE d == b.at - t
<1>1. b.at \in Nat /\ b.cell[c] \in Nat
  BY RpAssumption DEF Memory
<1>2. decay_to(b).cell[c] = Halved(b.cell[c], e)
  BY Decayed
<1>3. B = IF rpClock > b.at THEN rpClock ELSE b.at
  BY Decayed
<1> HIDE DEF B
<1>4. e \in Nat /\ d \in Nat /\ B - t = d + e
  BY <1>1, <1>3
<1>5. Halved(w, d) <= b.cell[c]
  <2>1. Halved(w, d) \in 0 .. w
    BY <1>4, HalvedType
  <2> QED BY <1>1, <2>1
<1> HIDE DEF d, e
<1>6. Halved(w, d + e) = Halved(Halved(w, d), e)
  BY <1>4, HalvedTwice
<1>7. Halved(w, d) \in Nat
  <2>1. Halved(w, d) \in 0 .. w
    BY <1>4, HalvedType
  <2> QED BY <2>1
<1>8. Halved(Halved(w, d), e) <= Halved(b.cell[c], e)
  BY <1>1, <1>4, <1>5, <1>7, HalvedMono
<1>9. Halved(Halved(w, d), e) \in Nat /\ Halved(b.cell[c], e) \in Nat
  <2>1. Halved(Halved(w, d), e) \in 0 .. Halved(w, d) /\ Halved(b.cell[c], e) \in 0 .. b.cell[c]
    BY <1>1, <1>4, <1>7, HalvedType
  <2> QED BY <1>1, <1>7, <2>1
<1>10. decay_to(b).cell[c] >= Halved(w, d + e)
  BY <1>2, <1>6, <1>8, <1>9
<1> QED BY <1>4, <1>10 DEF B

(* An insertion raises every cell of the key, lowers none and keeps the time. *)
LEMMA InsertRaises ==
  ASSUME NEW b \in Memory, NEW k \in RpKey
  PROVE  /\ insert(b, k) \in Memory /\ insert(b, k).at = b.at
         /\ \A c \in RpCell : insert(b, k).cell[c] >= b.cell[c]
         /\ \A i \in DOMAIN RpCells[k] :
              insert(b, k).cell[RpCells[k][i]] >= Capped(b.cell[RpCells[k][i]] + Reinforce)
<1> DEFINE At(c) == {i \in DOMAIN RpCells[k] : RpCells[k][i] = c}
<1> DEFINE times(c) == Cardinality(At(c))
<1> DEFINE new == [c \in RpCell |-> IF times(c) = 0 THEN b.cell[c] ELSE Capped(b.cell[c] + times(c) * Reinforce)]
<1>1. insert(b, k) = [b EXCEPT !.cell = new]
  BY DEF insert
<1>2. \A c : IsFiniteSet(At(c)) /\ times(c) \in Nat /\ (At(c) # {} => times(c) >= 1)
  <2> SUFFICES ASSUME NEW c PROVE IsFiniteSet(At(c)) /\ times(c) \in Nat /\ (At(c) # {} => times(c) >= 1)
    OBVIOUS
  <2>1. IsFiniteSet(1 .. Len(RpCells[k])) /\ DOMAIN RpCells[k] = 1 .. Len(RpCells[k])
    BY RpAssumption, FS_Interval
  <2>2. IsFiniteSet(At(c))
    BY <2>1, FS_Subset
  <2>3. times(c) \in Nat /\ (times(c) = 0 <=> At(c) = {})
    BY <2>2, FS_CardinalityType, FS_EmptySet
  <2> QED BY <2>2, <2>3
<1>3. b.cell \in [RpCell -> 0 .. WMax] /\ b.at \in Nat /\ b = [cell |-> b.cell, at |-> b.at]
  BY DEF Memory
<1>4. \A c \in RpCell : b.cell[c] \in Nat /\ b.cell[c] <= WMax
  BY <1>3, RpAssumption
<1>5. \A c \in RpCell : new[c] = IF times(c) = 0 THEN b.cell[c] ELSE Capped(b.cell[c] + times(c) * Reinforce)
  OBVIOUS
<1>6. new = [c \in RpCell |-> new[c]]
  OBVIOUS
<1>7. \A i \in DOMAIN RpCells[k] : times(RpCells[k][i]) >= 1
  <2> SUFFICES ASSUME NEW i \in DOMAIN RpCells[k] PROVE times(RpCells[k][i]) >= 1
    OBVIOUS
  <2>1. i \in At(RpCells[k][i])
    OBVIOUS
  <2> HIDE DEF At
  <2> QED BY <1>2, <2>1
<1>8. \A c : times(c) \in Nat
  BY <1>2
<1> HIDE DEF new, times, At
<1>9. \A t \in Nat : t * Reinforce \in Nat /\ (t >= 1 => t * Reinforce >= Reinforce)
  BY RpAssumption
<1>10. \A c \in RpCell : /\ new[c] \in 0 .. WMax /\ new[c] >= b.cell[c]
                         /\ (times(c) >= 1 => new[c] >= Capped(b.cell[c] + Reinforce))
  <2> SUFFICES ASSUME NEW c \in RpCell
               PROVE  /\ new[c] \in 0 .. WMax /\ new[c] >= b.cell[c]
                      /\ (times(c) >= 1 => new[c] >= Capped(b.cell[c] + Reinforce))
    OBVIOUS
  <2> DEFINE v == b.cell[c]
  <2> DEFINE t == times(c)
  <2> DEFINE x == t * Reinforce
  <2>1. t \in Nat /\ v \in Nat /\ v <= WMax
    BY <1>4, <1>8
  <2>2. new[c] = IF t = 0 THEN v ELSE Capped(v + x)
    BY <1>5
  <2>3. x \in Nat /\ (t >= 1 => x >= Reinforce)
    BY <1>9, <2>1
  <2> HIDE DEF v, t, x
  <2>4. v + x \in Nat /\ v + Reinforce \in Nat
    BY <2>1, <2>3, RpAssumption
  <2>5. Capped(v + x) \in 0 .. WMax /\ Capped(v + x) >= v /\ (t >= 1 => Capped(v + x) >= Capped(v + Reinforce))
    BY <2>1, <2>3, <2>4, RpAssumption DEF Capped
  <2>6. new[c] \in 0 .. WMax /\ new[c] >= v /\ (t >= 1 => new[c] >= Capped(v + Reinforce))
    BY <2>1, <2>2, <2>5, RpAssumption
  <2> QED BY <2>6 DEF v, t
<1>11. new \in [RpCell -> 0 .. WMax]
  BY <1>6, <1>10
<1>12. insert(b, k) = [cell |-> new, at |-> b.at]
  BY <1>1, <1>3
<1>13. insert(b, k) \in Memory
  BY <1>3, <1>11, <1>12 DEF Memory
<1>14. \A i \in DOMAIN RpCells[k] : RpCells[k][i] \in RpCell
  BY CellOfKey
<1> QED BY <1>7, <1>10, <1>12, <1>13, <1>14

(* What is read of a key is one of its cells. *)
LEMMA QueryReads ==
  ASSUME NEW b \in Memory, NEW k \in RpKey
  PROVE  \E i \in DOMAIN RpCells[k] : query(b, k) = b.cell[RpCells[k][i]]
<1> DEFINE S == {b.cell[RpCells[k][i]] : i \in DOMAIN RpCells[k]}
<1>1. b.cell \in [RpCell -> 0 .. WMax]
  BY DEF Memory
<1>2. S \in SUBSET Nat
  <2>1. \A i \in DOMAIN RpCells[k] : b.cell[RpCells[k][i]] \in 0 .. WMax
    BY <1>1, CellOfKey
  <2> QED BY <2>1, RpAssumption
<1>3. 1 \in DOMAIN RpCells[k]
  BY RpAssumption
<1>3a. S # {}
  BY <1>3
<1>4. PICK x \in S : \A y \in S : x <= y
  <2> HIDE DEF S
  <2> QED BY <1>2, <1>3a, LeastExists
<1>5. \A i \in DOMAIN RpCells[k] : x <= b.cell[RpCells[k][i]]
  BY <1>4
<1> DEFINE Least(w) == \A i \in DOMAIN RpCells[k] : w <= b.cell[RpCells[k][i]]
<1>6. query(b, k) = CHOOSE w \in S : Least(w)
  BY DEF query
<1>7. \E w \in S : Least(w)
  BY <1>4, <1>5
<1> HIDE DEF Least
<1>8. query(b, k) \in S
  BY <1>6, <1>7
<1> QED BY <1>8

(* The inductive invariant of the reach strategy. *)
ReachTypes ==
  /\ rpClock \in Nat /\ furthest \in Nat /\ rpClock <= furthest
  /\ prior \in [RpKey -> Weighed] /\ exact \in [RpKey -> Weighed]
  /\ bloom \in Memory
  /\ bandit \in [RpKey -> [a : Nat, b : Nat, at : Nat]]
  /\ unanswered \in [RpKey -> Nat]
  /\ \A k \in RpKey : exact[k].at <= furthest
  /\ decided \in {"nothing", "nack", "forward", "suppress", "unlucky", "defer"}
PriorIsExact == rpMode \in {"probabilistic", "defer"} => prior = exact
WeightWasHeard == \A k \in RpKey : exact[k].w > 0 => \E n \in heardOf : RpKeyOf[n] = k
Covers(b, x, k) == x.w > 0 =>
  /\ x.at <= b.at
  /\ \A i \in DOMAIN RpCells[k] : b.cell[RpCells[k][i]] >= Halved(x.w, b.at - x.at)
CellsCover == rpMode = "bloom" => bloom.at <= furthest /\ \A k \in RpKey : Covers(bloom, exact[k], k)
OnlyItsMode == rpMode # "bandit" => \A k \in RpKey : bandit[k].b = 0
MemoryIInv == ReachTypes /\ PriorIsExact /\ WeightWasHeard /\ OnlyItsMode /\ CellsCover
              /\ ColdIsNeverHeldBack /\ FailuresAreUnanswered

(* One reinforcement of a weight: its type and what it leaves. *)
LEMMA ReinforcedType ==
  ASSUME rpClock \in Nat, NEW r \in Weighed PROVE Reinforced(r) \in Weighed /\ Reinforced(r).at = rpClock
<1>1. r.w \in Nat /\ r.at \in Nat
  BY RpAssumption DEF Weighed
<1>2. Since(r.at) \in Nat
  BY <1>1, SinceType
<1> DEFINE h == Halved(r.w, Since(r.at))
<1>3. h \in 0 .. r.w
  BY <1>1, <1>2, HalvedType
<1>4. h \in Nat
  BY <1>1, <1>3
<1>5. Reinforced(r) = [w |-> Capped(h + Reinforce), at |-> rpClock]
  BY DEF Reinforced
<1> HIDE DEF h
<1>6. h + Reinforce \in Nat
  BY <1>4, RpAssumption
<1>7. Capped(h + Reinforce) \in 0 .. WMax
  BY <1>6, CappedFacts
<1> QED BY <1>5, <1>7 DEF Weighed

(* Decay keeps what covered a weight covering it. *)
LEMMA DecayCovers ==
  ASSUME rpClock \in Nat, NEW b \in Memory, NEW k \in RpKey, NEW x \in Weighed, Covers(b, x, k)
  PROVE  Covers(decay_to(b), x, k)
<1> SUFFICES ASSUME x.w > 0
             PROVE  /\ x.at <= decay_to(b).at
                    /\ \A i \in DOMAIN RpCells[k] : decay_to(b).cell[RpCells[k][i]] >= Halved(x.w, decay_to(b).at - x.at)
  BY DEF Covers
<1>1. x.w \in Nat /\ x.at \in Nat /\ b.at \in Nat
  BY RpAssumption DEF Weighed, Memory
<1>2. x.at <= b.at /\ \A i \in DOMAIN RpCells[k] : b.cell[RpCells[k][i]] >= Halved(x.w, b.at - x.at)
  BY DEF Covers
<1>3. decay_to(b).at = IF rpClock > b.at THEN rpClock ELSE b.at
  BY Decayed
<1>4. x.at <= decay_to(b).at
  BY <1>1, <1>2, <1>3
<1>5. ASSUME NEW i \in DOMAIN RpCells[k]
      PROVE  decay_to(b).cell[RpCells[k][i]] >= Halved(x.w, decay_to(b).at - x.at)
  <2>1. RpCells[k][i] \in RpCell
    BY CellOfKey
  <2> QED BY <1>1, <1>2, <2>1, DecayedAbove
<1> QED BY <1>4, <1>5

(* Cells raised for a key cover the weight raised for it, also when the cells  *)
(* are of a later time than the clock now shows.                               *)
LEMMA InsertCovers ==
  ASSUME rpClock \in Nat, NEW b \in Memory, NEW k \in RpKey, NEW x \in Weighed, Covers(b, x, k)
  PROVE  Covers(insert(decay_to(b), k), Reinforced(x), k)
<1> DEFINE d == decay_to(b)
<1> DEFINE n == d.at - rpClock
<1> DEFINE h == Halved(x.w, Since(x.at))
<1> DEFINE R == Capped(h + Reinforce)
<1>1. x.w \in Nat /\ x.at \in Nat /\ b.at \in Nat
  BY RpAssumption DEF Weighed, Memory
<1>2. Covers(d, x, k) /\ d \in Memory /\ d.at = IF rpClock > b.at THEN rpClock ELSE b.at
  BY DecayCovers, Decayed
<1>3. insert(d, k).at = d.at /\ insert(d, k) \in Memory
      /\ \A i \in DOMAIN RpCells[k] : insert(d, k).cell[RpCells[k][i]] >= Capped(d.cell[RpCells[k][i]] + Reinforce)
  BY <1>2, InsertRaises
<1>4. Reinforced(x).at = rpClock /\ Reinforced(x).w = R
  BY DEF Reinforced
<1>5. Since(x.at) \in Nat /\ (rpClock > x.at => Since(x.at) = rpClock - x.at) /\ (rpClock <= x.at => Since(x.at) = 0)
  BY <1>1, SinceType
<1>6. h \in Nat
  <2>1. h \in 0 .. x.w
    BY <1>1, <1>5, HalvedType
  <2> QED BY <1>1, <2>1
<1> HIDE DEF d
<1>7. d.at \in Nat /\ n \in Nat /\ rpClock <= d.at
  BY <1>1, <1>2
<1>8. h + Reinforce \in Nat /\ R \in 0 .. WMax /\ R <= h + Reinforce
  <2> HIDE DEF h
  <2>1. h + Reinforce \in Nat
    BY <1>6, RpAssumption
  <2> QED BY <2>1, CappedFacts
<1>9. R \in Nat
  BY <1>8, RpAssumption
\* What is left of the old weight after both waits is in the cells.
<1>10. \A i \in DOMAIN RpCells[k] : Halved(h, n) <= d.cell[RpCells[k][i]]
  <2> SUFFICES ASSUME NEW i \in DOMAIN RpCells[k] PROVE Halved(h, n) <= d.cell[RpCells[k][i]]
    OBVIOUS
  <2> DEFINE c == d.cell[RpCells[k][i]]
  <2>1. c \in Nat
    <3>1. d.cell \in [RpCell -> 0 .. WMax]
      BY <1>2 DEF Memory
    <3>2. c \in 0 .. WMax
      BY <3>1, CellOfKey
    <3> QED BY <3>2, RpAssumption
  <2>2. Halved(h, n) = Halved(x.w, Since(x.at) + n)
    BY <1>5, <1>7, HalvedTwice
  <2>3. CASE x.w > 0
    <3> DEFINE e == d.at - x.at
    <3> DEFINE m == Since(x.at) + n
    <3>1. x.at <= d.at /\ c >= Halved(x.w, e)
      BY <1>2, <2>3 DEF Covers
    <3>2. e \in Nat /\ m \in Nat /\ e <= m
      BY <1>1, <1>5, <1>7, <3>1
    <3> HIDE DEF e, m, c
    <3>3. Halved(x.w, m) <= Halved(x.w, e)
      BY <1>1, <3>2, HalvedLess
    <3>4. Halved(x.w, m) \in 0 .. x.w /\ Halved(x.w, e) \in 0 .. x.w
      BY <1>1, <3>2, HalvedType
    <3>5. Halved(x.w, m) <= c
      BY <1>1, <2>1, <3>1, <3>3, <3>4
    <3> QED BY <2>2, <3>5 DEF m, c
  <2>4. CASE ~(x.w > 0)
    <3>1. x.w = 0
      BY <1>1, <2>4
    <3> DEFINE m == Since(x.at) + n
    <3>2. m \in Nat
      BY <1>5, <1>7
    <3>3. Halved(x.w, m) \in 0 .. x.w
      <4> HIDE DEF m
      <4> QED BY <1>1, <3>2, HalvedType
    <3> HIDE DEF c
    <3>4. Halved(h, n) \in 0 .. 0
      BY <2>2, <3>1, <3>3
    <3>5. Halved(h, n) <= c
      BY <2>1, <3>4
    <3> QED BY <3>5 DEF c
  <2> QED BY <2>3, <2>4
<1> HIDE DEF h, n
<1>11. Halved(h, n) \in Nat /\ Halved(R, n) \in 0 .. R
  <2>1. Halved(h, n) \in 0 .. h
    BY <1>6, <1>7, HalvedType
  <2> QED BY <1>6, <1>7, <1>9, <2>1, HalvedType
<1>12. Halved(R, n) <= Halved(h, n) + Reinforce
  <2> DEFINE s == h + Reinforce
  <2>1. Halved(s, n) <= Halved(h, n) + Reinforce
    BY <1>6, <1>7, RpAssumption, HalvedAdded
  <2>2. s \in Nat /\ R <= s
    BY <1>8
  <2> HIDE DEF s, R
  <2>3. Halved(R, n) <= Halved(s, n) /\ Halved(s, n) \in 0 .. s
    BY <1>7, <1>9, <2>2, HalvedMono, HalvedType
  <2> QED BY <1>9, <1>11, <2>1, <2>2, <2>3, RpAssumption
<1>13. \A i \in DOMAIN RpCells[k] : insert(d, k).cell[RpCells[k][i]] >= Halved(R, n)
  <2> SUFFICES ASSUME NEW i \in DOMAIN RpCells[k] PROVE insert(d, k).cell[RpCells[k][i]] >= Halved(R, n)
    OBVIOUS
  <2> DEFINE c == d.cell[RpCells[k][i]]
  <2> DEFINE v == insert(d, k).cell[RpCells[k][i]]
  <2> DEFINE q == Halved(R, n)
  <2> DEFINE o == Halved(h, n)
  <2>1. c \in Nat /\ v \in Nat
    <3>1. d.cell \in [RpCell -> 0 .. WMax] /\ insert(d, k).cell \in [RpCell -> 0 .. WMax]
      BY <1>2, <1>3 DEF Memory
    <3>2. c \in 0 .. WMax /\ v \in 0 .. WMax
      BY <3>1, CellOfKey
    <3> QED BY <3>2, RpAssumption
  <2>2. v >= Capped(c + Reinforce) /\ o <= c
    BY <1>3, <1>10
  <2>3. q \in 0 .. R /\ q <= o + Reinforce /\ o \in Nat
    BY <1>11, <1>12
  <2>4. R \in 0 .. WMax
    BY <1>8
  <2> HIDE DEF c, v, q, o, R
  <2>5. q \in Nat /\ q <= WMax /\ q <= c + Reinforce
    BY <2>1, <2>2, <2>3, <2>4, RpAssumption
  <2>6. q <= Capped(c + Reinforce) /\ Capped(c + Reinforce) \in Nat
    BY <2>1, <2>5, RpAssumption DEF Capped
  <2>7. v >= q
    BY <2>1, <2>2, <2>5, <2>6
  <2> QED BY <2>7 DEF v, q
<1>14. rpClock <= insert(d, k).at /\ insert(d, k).at - rpClock = n
  BY <1>3, <1>7 DEF n
<1> QED BY <1>4, <1>13, <1>14 DEF Covers, d

(* Raising one key's cells takes nothing from another's. *)
LEMMA InsertKeeps ==
  ASSUME NEW d \in Memory, NEW k \in RpKey, NEW l \in RpKey, NEW x \in Weighed, Covers(d, x, l)
  PROVE  Covers(insert(d, k), x, l)
<1> SUFFICES ASSUME x.w > 0
             PROVE  /\ x.at <= insert(d, k).at
                    /\ \A i \in DOMAIN RpCells[l] : insert(d, k).cell[RpCells[l][i]] >= Halved(x.w, insert(d, k).at - x.at)
  BY DEF Covers
<1>1. insert(d, k).at = d.at /\ insert(d, k) \in Memory /\ \A c \in RpCell : insert(d, k).cell[c] >= d.cell[c]
  BY InsertRaises
<1>2. x.at <= d.at /\ \A i \in DOMAIN RpCells[l] : d.cell[RpCells[l][i]] >= Halved(x.w, d.at - x.at)
  BY DEF Covers
<1>3. ASSUME NEW i \in DOMAIN RpCells[l] PROVE insert(d, k).cell[RpCells[l][i]] >= Halved(x.w, d.at - x.at)
  <2> DEFINE c == RpCells[l][i]
  <2> DEFINE v == insert(d, k).cell[c]
  <2> DEFINE o == d.cell[c]
  <2> DEFINE q == Halved(x.w, d.at - x.at)
  <2>1. c \in RpCell
    BY CellOfKey
  <2>2. v \in 0 .. WMax /\ o \in 0 .. WMax
    <3>1. d.cell \in [RpCell -> 0 .. WMax] /\ insert(d, k).cell \in [RpCell -> 0 .. WMax]
      BY <1>1 DEF Memory
    <3> HIDE DEF c
    <3> QED BY <2>1, <3>1
  <2>3. q \in 0 .. x.w
    <3>1. x.w \in Nat /\ x.at \in Nat /\ d.at \in Nat
      BY RpAssumption DEF Weighed, Memory
    <3>2. d.at - x.at \in Nat
      BY <1>2, <3>1
    <3> QED BY <3>1, <3>2, HalvedType
  <2>4. v >= o /\ o >= q
    BY <1>1, <1>2, <2>1
  <2>5. x.w \in Nat
    BY RpAssumption DEF Weighed
  <2> HIDE DEF v, o, q
  <2>6. v >= q
    BY <2>2, <2>3, <2>4, <2>5, RpAssumption
  <2> QED BY <2>6 DEF v, q
<1> QED BY <1>1, <1>2, <1>3

(* ------------------------- the actions of the strategy ------------------------ *)
LEMMA MemoryHoldsAtFirst == RpInit => MemoryIInv
<1> SUFFICES ASSUME RpInit PROVE MemoryIInv
  OBVIOUS
<1>1. ReachTypes
  <2>1. [w |-> 0, at |-> 1] \in Weighed
    BY RpAssumption DEF Weighed
  <2>2. prior \in [RpKey -> Weighed] /\ exact \in [RpKey -> Weighed]
    BY <2>1 DEF RpInit
  <2>3. bloom \in Memory
    BY RpAssumption DEF RpInit, Memory
  <2> QED BY <2>2, <2>3 DEF RpInit, ReachTypes
<1>2. PriorIsExact
  BY DEF RpInit, PriorIsExact
<1>3. \A k \in RpKey : exact[k].w = 0
  BY DEF RpInit
<1>4. WeightWasHeard /\ CellsCover
  BY <1>3 DEF WeightWasHeard, CellsCover, Covers, RpInit
<1>5. ColdIsNeverHeldBack /\ FailuresAreUnanswered /\ OnlyItsMode
  BY DEF RpInit, ColdIsNeverHeldBack, FailuresAreUnanswered, OnlyItsMode
<1> QED BY <1>1, <1>2, <1>4, <1>5 DEF MemoryIInv

(* Nothing an Interest that is refused or sent on touches.                      *)
LEMMA UntouchedMemory ==
  ASSUME MemoryIInv, UNCHANGED <<rpMode, rpShown, memory, exact, heardOf, unanswered>>,
         decided' \in {"nothing", "nack", "forward", "unlucky", "suppress", "defer"}, ColdIsNeverHeldBack'
  PROVE  MemoryIInv'
<1>1. /\ rpMode' = rpMode /\ rpClock' = rpClock /\ furthest' = furthest /\ prior' = prior /\ bloom' = bloom
      /\ bandit' = bandit /\ exact' = exact /\ heardOf' = heardOf /\ unanswered' = unanswered
  BY DEF rpShown, memory
<1>2. ReachTypes'
  BY <1>1 DEF MemoryIInv, ReachTypes
<1>3. PriorIsExact' /\ WeightWasHeard' /\ FailuresAreUnanswered' /\ OnlyItsMode'
  BY <1>1 DEF MemoryIInv, OnlyItsMode, PriorIsExact, WeightWasHeard, FailuresAreUnanswered
<1>4. CellsCover'
  BY <1>1 DEF MemoryIInv, CellsCover
<1> QED BY <1>2, <1>3, <1>4 DEF MemoryIInv

(* The gate holds an Interest back only where weight is left.                   *)
LEMMA GateKeepsMemory ==
  ASSUME MemoryIInv, NEW n \in RpName, Gate(n)
  PROVE  MemoryIInv'
<1> DEFINE k == RpKeyOf[n]
<1> DEFINE v == Weight(k)
<1>1. k \in RpKey /\ rpMode = "probabilistic" /\ UNCHANGED <<rpMode, rpShown, memory, exact, heardOf, unanswered>>
  BY RpAssumption DEF Gate, Counts
<1>2. PICK x \in 1 .. DrawMax : decided' = IF Passes(x, v) THEN "forward" ELSE IF x = DrawMax THEN "unlucky" ELSE "suppress"
  BY DEF Gate
<1>3. v = Halved(exact[k].w, Since(exact[k].at)) /\ v \in Nat /\ (v > 0 => exact[k].w > 0)
  <2>1. prior = exact
    BY <1>1 DEF MemoryIInv, PriorIsExact
  <2>2. exact[k] \in Weighed /\ rpClock \in Nat
    BY <1>1 DEF MemoryIInv, ReachTypes
  <2>3. exact[k].w \in Nat /\ exact[k].at \in Nat
    BY <2>2, RpAssumption DEF Weighed
  <2>4. Since(exact[k].at) \in Nat
    BY <2>2, <2>3, SinceType
  <2>5. Halved(exact[k].w, Since(exact[k].at)) \in 0 .. exact[k].w
    BY <2>3, <2>4, HalvedType
  <2>6. v = Halved(exact[k].w, Since(exact[k].at))
    BY <2>1 DEF Weight
  <2> HIDE DEF v
  <2>7. v \in 0 .. exact[k].w
    BY <2>5, <2>6
  <2> QED BY <2>3, <2>6, <2>7
<1>4. decided' = "suppress" => v > 0
  <2> SUFFICES ASSUME decided' = "suppress", v = 0 PROVE FALSE
    BY <1>3
  <2>1. ~Passes(x, v) /\ x # DrawMax
    BY <1>2
  <2>2. x \in Nat /\ x < DrawMax
    BY <2>1, RpAssumption
  <2>3. x * WMax < DrawMax * WMax
    BY <2>2, RpAssumption
  <2>4. GateShare(0) = DrawMax * WMax
    BY RpAssumption DEF GateShare
  <2> HIDE DEF v
  <2> QED BY <2>1, <2>3, <2>4 DEF Passes
<1>5. ColdIsNeverHeldBack'
  <2> SUFFICES ASSUME decided' = "suppress" PROVE ColdIsNeverHeldBack'
    BY DEF ColdIsNeverHeldBack
  <2>1. v > 0 /\ exact[k].w > 0
    BY <1>3, <1>4
  <2>2. PICK m \in heardOf : RpKeyOf[m] = k
    BY <1>1, <2>1 DEF MemoryIInv, WeightWasHeard
  <2>3. Halved(exact[RpKeyOf[m]].w, Since(exact[RpKeyOf[m]].at)) > 0
    BY <1>3, <2>1, <2>2
  <2>4. heardOf' = heardOf /\ exact' = exact /\ rpClock' = rpClock
    BY <1>1 DEF rpShown
  <2>5. Since(exact[RpKeyOf[m]].at)' = Since(exact[RpKeyOf[m]].at)
    BY <2>4 DEF Since
  <2>6. Halved(exact[RpKeyOf[m]].w, Since(exact[RpKeyOf[m]].at))' = Halved(exact[RpKeyOf[m]].w, Since(exact[RpKeyOf[m]].at))
    BY <2>4, <2>5
  <2> QED BY <2>2, <2>3, <2>4, <2>6 DEF ColdIsNeverHeldBack
<1>6. decided' \in {"nothing", "nack", "forward", "unlucky", "suppress", "defer"}
  BY <1>2
<1> QED BY <1>1, <1>5, <1>6, UntouchedMemory

(* What is left of a posterior's count. *)
LEMMA LeftOfCount ==
  ASSUME rpClock \in Nat, NEW x \in Nat, NEW t \in Nat
  PROVE  Halved(x, Since(t)) \in Nat /\ Halved(x, Since(t)) <= x
<1>1. Since(t) \in Nat
  BY SinceType
<1>2. Halved(x, Since(t)) \in 0 .. x
  BY <1>1, HalvedType
<1> QED BY <1>2

Posterior == [a : Nat, b : Nat, at : Nat]

LEMMA AttemptCounts ==
  ASSUME rpClock \in Nat, NEW p \in Posterior
  PROVE  note_attempt(p) \in Posterior /\ note_attempt(p).b <= p.b + 2
<1>1. p.a \in Nat /\ p.b \in Nat /\ p.at \in Nat
  BY DEF Posterior
<1> DEFINE l == Halved(p.b, Since(p.at))
<1> DEFINE m == Halved(p.a, Since(p.at))
<1>2. l \in Nat /\ l <= p.b /\ m \in Nat
  BY <1>1, LeftOfCount
<1>3. note_attempt(p) = [a |-> m, b |-> l + 2, at |-> rpClock]
  BY DEF note_attempt
<1> HIDE DEF l, m
<1>4. l + 2 \in Nat /\ l + 2 <= p.b + 2
  BY <1>1, <1>2
<1> QED BY <1>2, <1>3, <1>4 DEF Posterior

LEMMA SuccessCounts ==
  ASSUME rpClock \in Nat, NEW p \in Posterior
  PROVE  note_success(p) \in Posterior /\ note_success(p).b <= Removed(p.b)
<1>1. p.a \in Nat /\ p.b \in Nat /\ p.at \in Nat
  BY DEF Posterior
<1> DEFINE l == Halved(p.b, Since(p.at))
<1> DEFINE m == Halved(p.a, Since(p.at))
<1>2. l \in Nat /\ l <= p.b /\ m \in Nat
  BY <1>1, LeftOfCount
<1>3. note_success(p) = [a |-> m + 2, b |-> Removed(l), at |-> rpClock]
  BY DEF note_success
<1> HIDE DEF l, m
<1>4. Removed(l) \in Nat /\ Removed(l) <= Removed(p.b) /\ m + 2 \in Nat
  BY <1>1, <1>2 DEF Removed
<1> QED BY <1>2, <1>3, <1>4 DEF Posterior

(* An Interest put off: the cells decay, or the attempt is counted.             *)
LEMMA DeferKeepsMemory ==
  ASSUME MemoryIInv, NEW n \in RpName, DeferOn(n)
  PROVE  MemoryIInv'
<1> DEFINE k == RpKeyOf[n]
<1>1. /\ k \in RpKey /\ rpMode' = rpMode /\ rpClock' = rpClock /\ furthest' = furthest
      /\ prior' = prior /\ exact' = exact /\ heardOf' = heardOf /\ decided' = "defer"
      /\ bloom' = (IF rpMode = "bloom" THEN decay_to(bloom) ELSE bloom)
      /\ bandit' = (IF rpMode = "bandit" THEN [bandit EXCEPT ![k] = note_attempt(@)] ELSE bandit)
      /\ unanswered' = [unanswered EXCEPT ![k] = @ + 1]
  BY RpAssumption DEF DeferOn, Counts, rpShown
<1>2. /\ rpClock \in Nat /\ furthest \in Nat /\ rpClock <= furthest
      /\ prior \in [RpKey -> Weighed] /\ exact \in [RpKey -> Weighed]
      /\ bloom \in Memory
      /\ bandit \in [RpKey -> Posterior]
      /\ unanswered \in [RpKey -> Nat]
  BY DEF MemoryIInv, ReachTypes, Posterior
<1> HIDE DEF k
<1>3. bloom' \in Memory
  BY <1>1, <1>2, Decayed
<1>4. bandit' \in [RpKey -> Posterior]
  <2>1. bandit[k] \in Posterior
    BY <1>1, <1>2
  <2>2. note_attempt(bandit[k]) \in Posterior
    BY <1>2, <2>1, AttemptCounts
  <2> QED BY <1>1, <1>2, <2>2
<1>5. unanswered' \in [RpKey -> Nat]
  BY <1>1, <1>2
<1>6. ReachTypes'
  <2>1. \A l \in RpKey : exact'[l].at <= furthest'
    BY <1>1 DEF MemoryIInv, ReachTypes
  <2> QED BY <2>1, <1>1, <1>2, <1>3, <1>4, <1>5 DEF ReachTypes, Posterior
<1>7. PriorIsExact' /\ WeightWasHeard' /\ ColdIsNeverHeldBack' /\ OnlyItsMode'
  BY <1>1 DEF MemoryIInv, PriorIsExact, WeightWasHeard, ColdIsNeverHeldBack, OnlyItsMode
<1>8. FailuresAreUnanswered'
  <2> SUFFICES ASSUME NEW l \in RpKey PROVE bandit'[l].b <= 2 * unanswered'[l]
    BY DEF FailuresAreUnanswered
  <2>1. bandit[l] \in Posterior /\ unanswered[l] \in Nat /\ bandit[l].b <= 2 * unanswered[l]
    BY <1>2 DEF MemoryIInv, FailuresAreUnanswered
  <2>2. bandit[l].b \in Nat
    BY <2>1 DEF Posterior
  <2>3. unanswered'[l] \in Nat /\ unanswered'[l] >= unanswered[l] /\ (l = k => unanswered'[l] = unanswered[l] + 1)
    BY <1>1, <1>2
  <2>4. CASE rpMode = "bandit" /\ l = k
    <3>1. bandit'[l] = note_attempt(bandit[l])
      BY <1>1, <1>2, <2>4
    <3>2. note_attempt(bandit[l]) \in Posterior /\ note_attempt(bandit[l]).b <= bandit[l].b + 2
      BY <1>2, <2>1, AttemptCounts
    <3>3. note_attempt(bandit[l]).b \in Nat
      BY <3>2 DEF Posterior
    <3> QED BY <2>1, <2>2, <2>3, <2>4, <3>1, <3>2, <3>3
  <2>5. CASE ~(rpMode = "bandit" /\ l = k)
    <3>1. bandit'[l] = bandit[l]
      BY <1>1, <1>2, <2>5
    <3> QED BY <2>1, <2>2, <2>3, <3>1
  <2> QED BY <2>4, <2>5
<1>9. CellsCover'
  <2> SUFFICES ASSUME rpMode = "bloom" PROVE bloom'.at <= furthest' /\ \A l \in RpKey : Covers(bloom', exact'[l], l)
    BY <1>1 DEF CellsCover
  <2>1. bloom' = decay_to(bloom) /\ bloom.at <= furthest /\ \A l \in RpKey : Covers(bloom, exact[l], l)
    BY <1>1 DEF MemoryIInv, CellsCover
  <2>2. bloom.at \in Nat /\ decay_to(bloom).at = IF rpClock > bloom.at THEN rpClock ELSE bloom.at
    BY <1>2, Decayed DEF Memory
  <2>3. bloom'.at <= furthest'
    BY <1>1, <1>2, <2>1, <2>2
  <2>4. ASSUME NEW l \in RpKey PROVE Covers(decay_to(bloom), exact[l], l)
    <3>1. exact[l] \in Weighed
      BY <1>2
    <3> QED BY <1>2, <2>1, <3>1, DecayCovers
  <2> QED BY <1>1, <2>1, <2>3, <2>4
<1> QED BY <1>6, <1>7, <1>8, <1>9 DEF MemoryIInv

(* Data: the weight, the cells and the posterior of its prefix are raised.      *)
LEMMA DataKeepsMemory ==
  ASSUME MemoryIInv, NEW n \in RpName, after_receive_data(n)
  PROVE  MemoryIInv'
<1> DEFINE k == RpKeyOf[n]
<1>1. /\ k \in RpKey /\ rpMode' = rpMode /\ rpClock' = rpClock /\ furthest' = furthest
      /\ prior' = (IF rpMode \in {"probabilistic", "defer"} THEN [prior EXCEPT ![k] = Reinforced(@)] ELSE prior)
      /\ bloom' = (IF rpMode = "bloom" THEN insert(decay_to(bloom), k) ELSE bloom)
      /\ bandit' = (IF rpMode = "bandit" THEN [bandit EXCEPT ![k] = note_success(@)] ELSE bandit)
      /\ exact' = [exact EXCEPT ![k] = Reinforced(@)]
      /\ heardOf' = heardOf \cup {n}
      /\ unanswered' = [unanswered EXCEPT ![k] = IF @ > 0 THEN @ - 1 ELSE 0]
      /\ decided' = "nothing"
  BY RpAssumption DEF after_receive_data, Counts, rpShown
<1>2. /\ rpClock \in Nat /\ furthest \in Nat /\ rpClock <= furthest
      /\ prior \in [RpKey -> Weighed] /\ exact \in [RpKey -> Weighed]
      /\ bloom \in Memory
      /\ bandit \in [RpKey -> Posterior]
      /\ unanswered \in [RpKey -> Nat]
  BY DEF MemoryIInv, ReachTypes, Posterior
<1>3. RpKeyOf[n] = k
  OBVIOUS
<1> HIDE DEF k
<1>4. exact[k] \in Weighed /\ prior[k] \in Weighed /\ bandit[k] \in Posterior /\ unanswered[k] \in Nat
  BY <1>1, <1>2
<1>5. Reinforced(exact[k]) \in Weighed /\ Reinforced(prior[k]) \in Weighed
  BY <1>2, <1>4, ReinforcedType
<1>6. prior' \in [RpKey -> Weighed] /\ exact' \in [RpKey -> Weighed]
  BY <1>1, <1>2, <1>5
<1>7. decay_to(bloom) \in Memory
  BY <1>2, Decayed
<1>8. bloom' \in Memory
  BY <1>1, <1>2, <1>7, InsertRaises
<1>9. bandit' \in [RpKey -> Posterior]
  <2>1. note_success(bandit[k]) \in Posterior
    BY <1>2, <1>4, SuccessCounts
  <2> QED BY <1>1, <1>2, <2>1
<1>10. unanswered' \in [RpKey -> Nat]
  BY <1>1, <1>2, <1>4
<1>11. ReachTypes'
  <2>1. \A l \in RpKey : exact'[l].at <= furthest'
    <3> SUFFICES ASSUME NEW l \in RpKey PROVE exact'[l].at <= furthest'
      OBVIOUS
    <3>1. Reinforced(exact[k]).at = rpClock /\ exact[l].at <= furthest
      BY <1>2, <1>4, ReinforcedType DEF MemoryIInv, ReachTypes
    <3>2. exact'[l] = IF l = k THEN Reinforced(exact[k]) ELSE exact[l]
      BY <1>1, <1>2
    <3> QED BY <1>1, <1>2, <3>1, <3>2
  <2> QED BY <2>1, <1>1, <1>2, <1>6, <1>8, <1>9, <1>10 DEF ReachTypes, Posterior
<1>12. PriorIsExact'
  BY <1>1, <1>2 DEF MemoryIInv, PriorIsExact
<1>13. WeightWasHeard'
  <2> SUFFICES ASSUME NEW l \in RpKey, exact'[l].w > 0 PROVE \E m \in heardOf' : RpKeyOf[m] = l
    BY DEF WeightWasHeard
  <2>1. CASE l = k
    BY <1>1, <1>3, <2>1
  <2>2. CASE l # k
    <3>1. exact'[l] = exact[l]
      BY <1>1, <1>2, <2>2
    <3>2. PICK m \in heardOf : RpKeyOf[m] = l
      BY <3>1 DEF MemoryIInv, WeightWasHeard
    <3> QED BY <1>1, <3>2
  <2> QED BY <2>1, <2>2
<1>14. ColdIsNeverHeldBack'
  BY <1>1 DEF ColdIsNeverHeldBack
<1>15. FailuresAreUnanswered'
  <2> SUFFICES ASSUME NEW l \in RpKey PROVE bandit'[l].b <= 2 * unanswered'[l]
    BY DEF FailuresAreUnanswered
  <2>1. bandit[l] \in Posterior /\ unanswered[l] \in Nat /\ bandit[l].b <= 2 * unanswered[l]
    BY <1>2 DEF MemoryIInv, FailuresAreUnanswered
  <2>2. bandit[l].b \in Nat
    BY <2>1 DEF Posterior
  <2>3. l # k => bandit'[l] = bandit[l] /\ unanswered'[l] = unanswered[l]
    BY <1>1, <1>2
  <2>4. CASE l = k
    <3>1. unanswered'[l] = IF unanswered[l] > 0 THEN unanswered[l] - 1 ELSE 0
      BY <1>1, <1>2, <2>4
    <3>2. bandit'[l] = IF rpMode = "bandit" THEN note_success(bandit[l]) ELSE bandit[l]
      BY <1>1, <1>2, <2>4
    <3>3. rpMode # "bandit" => bandit[l].b = 0
      BY DEF MemoryIInv, OnlyItsMode
    <3>4. note_success(bandit[l]) \in Posterior /\ note_success(bandit[l]).b <= Removed(bandit[l].b)
      BY <1>2, <2>1, SuccessCounts
    <3>5. note_success(bandit[l]).b \in Nat
      BY <3>4 DEF Posterior
    <3>6. Removed(bandit[l].b) <= 2 * (IF unanswered[l] > 0 THEN unanswered[l] - 1 ELSE 0) /\ Removed(bandit[l].b) \in Nat
      BY <2>1, <2>2 DEF Removed
    <3>7. CASE rpMode = "bandit"
      <4>1. bandit'[l].b <= Removed(bandit[l].b) /\ bandit'[l].b \in Nat
        BY <3>2, <3>4, <3>5, <3>7
      <4> QED BY <2>1, <3>1, <3>6, <4>1
    <3>8. CASE rpMode # "bandit"
      <4>1. bandit'[l].b = 0
        BY <3>2, <3>3, <3>8
      <4> QED BY <2>1, <3>1, <4>1
    <3> QED BY <3>7, <3>8
  <2> QED BY <2>1, <2>3, <2>4
<1>16. OnlyItsMode'
  BY <1>1, <1>2 DEF MemoryIInv, OnlyItsMode
<1>17. CellsCover'
  <2> SUFFICES ASSUME rpMode = "bloom" PROVE bloom'.at <= furthest' /\ \A l \in RpKey : Covers(bloom', exact'[l], l)
    BY <1>1 DEF CellsCover
  <2>1. bloom' = insert(decay_to(bloom), k) /\ bloom.at <= furthest /\ \A l \in RpKey : Covers(bloom, exact[l], l)
    BY <1>1 DEF MemoryIInv, CellsCover
  <2>2. bloom.at \in Nat /\ decay_to(bloom).at = IF rpClock > bloom.at THEN rpClock ELSE bloom.at
    BY <1>2, Decayed DEF Memory
  <2>3. bloom'.at = decay_to(bloom).at
    BY <1>1, <1>7, <2>1, InsertRaises
  <2>4. bloom'.at <= furthest'
    BY <1>1, <1>2, <2>1, <2>2, <2>3
  <2>5. ASSUME NEW l \in RpKey PROVE Covers(insert(decay_to(bloom), k), exact'[l], l)
    <3>1. exact[l] \in Weighed /\ Covers(bloom, exact[l], l)
      BY <1>2, <2>1
    <3>2. CASE l = k
      <4>1. exact'[l] = Reinforced(exact[l])
        BY <1>1, <1>2, <3>2
      <4> QED BY <1>2, <3>1, <3>2, <4>1, InsertCovers
    <3>3. CASE l # k
      <4>1. exact'[l] = exact[l]
        BY <1>1, <1>2, <3>3
      <4>2. Covers(decay_to(bloom), exact[l], l)
        BY <1>2, <3>1, DecayCovers
      <4> QED BY <1>1, <1>7, <3>1, <4>1, <4>2, InsertKeeps
    <3> QED BY <3>2, <3>3
  <2> QED BY <2>1, <2>4, <2>5
<1> QED BY <1>11, <1>12, <1>13, <1>14, <1>15, <1>16, <1>17 DEF MemoryIInv

(* The clock shows another time: the cells are of no later time than the latest. *)
LEMMA ClockKeepsMemory ==
  ASSUME MemoryIInv, WallClock
  PROVE  MemoryIInv'
<1>1. PICK t \in 1 .. RpMaxClock :
        /\ rpClock' = t /\ furthest' = (IF t > furthest THEN t ELSE furthest) /\ rpMode' = rpMode /\ decided' = "nothing"
        /\ UNCHANGED <<memory, exact, heardOf, unanswered>>
  BY DEF WallClock, Counts
<1>2. prior' = prior /\ bloom' = bloom /\ bandit' = bandit /\ exact' = exact /\ heardOf' = heardOf
      /\ unanswered' = unanswered /\ rpMode' = rpMode
  BY <1>1 DEF memory
<1>3. rpClock' \in Nat /\ furthest' \in Nat /\ rpClock' <= furthest' /\ furthest <= furthest' /\ furthest \in Nat
  BY <1>1, RpAssumption DEF MemoryIInv, ReachTypes
<1>4. ReachTypes'
  <2>1. \A l \in RpKey : exact'[l].at <= furthest'
    <3> SUFFICES ASSUME NEW l \in RpKey PROVE exact'[l].at <= furthest'
      OBVIOUS
    <3>1. exact[l] \in Weighed /\ exact[l].at <= furthest
      BY DEF MemoryIInv, ReachTypes
    <3>2. exact[l].at \in Nat
      BY <3>1 DEF Weighed
    <3> QED BY <1>2, <1>3, <3>1, <3>2
  <2> QED BY <2>1, <1>1, <1>2, <1>3 DEF MemoryIInv, ReachTypes
<1>5. PriorIsExact' /\ WeightWasHeard' /\ FailuresAreUnanswered' /\ OnlyItsMode'
  BY <1>2 DEF MemoryIInv, PriorIsExact, WeightWasHeard, FailuresAreUnanswered, OnlyItsMode
<1>6. ColdIsNeverHeldBack'
  BY <1>1 DEF ColdIsNeverHeldBack
<1>7. CellsCover'
  <2>1. bloom.at \in Nat
    BY DEF MemoryIInv, ReachTypes, Memory
  <2> QED BY <1>2, <1>3, <2>1 DEF MemoryIInv, CellsCover
<1> QED BY <1>4, <1>5, <1>6, <1>7 DEF MemoryIInv

LEMMA MemoryIsKept == MemoryIInv /\ [RpNext]_rpVars => MemoryIInv'
<1> SUFFICES ASSUME MemoryIInv, [RpNext]_rpVars PROVE MemoryIInv'
  OBVIOUS
<1>1. CASE WallClock
  BY <1>1, ClockKeepsMemory
<1>2. ASSUME NEW n \in RpName, Refused(n) PROVE MemoryIInv'
  <2>1. decided' = "nack" /\ UNCHANGED <<rpMode, rpShown, memory, exact, heardOf, unanswered>>
    BY <1>2 DEF Refused, Counts
  <2>2. ColdIsNeverHeldBack'
    BY <2>1 DEF ColdIsNeverHeldBack
  <2> QED BY <2>1, <2>2, UntouchedMemory
<1>3. ASSUME NEW n \in RpName, ForwardOn(n) PROVE MemoryIInv'
  <2>1. decided' = "forward" /\ UNCHANGED <<rpMode, rpShown, memory, exact, heardOf, unanswered>>
    BY <1>3 DEF ForwardOn, Counts
  <2>2. ColdIsNeverHeldBack'
    BY <2>1 DEF ColdIsNeverHeldBack
  <2> QED BY <2>1, <2>2, UntouchedMemory
<1>4. ASSUME NEW n \in RpName, Gate(n) PROVE MemoryIInv'
  BY <1>4, GateKeepsMemory
<1>5. ASSUME NEW n \in RpName, DeferOn(n) PROVE MemoryIInv'
  BY <1>5, DeferKeepsMemory
<1>6. ASSUME NEW n \in RpName, after_receive_data(n) PROVE MemoryIInv'
  BY <1>6, DataKeepsMemory
<1>7. CASE UNCHANGED rpVars
  <2>1. decided' = decided /\ UNCHANGED <<rpMode, rpShown, memory, exact, heardOf, unanswered>>
    BY <1>7 DEF rpVars, rpShown, memory
  <2>2. rpClock' = rpClock /\ exact' = exact /\ heardOf' = heardOf
    BY <1>7 DEF rpVars
  <2>3. ColdIsNeverHeldBack'
    BY <2>1, <2>2 DEF MemoryIInv, ColdIsNeverHeldBack, Since
  <2>4. decided' \in {"nothing", "nack", "forward", "unlucky", "suppress", "defer"}
    BY <2>1 DEF MemoryIInv, ReachTypes
  <2> QED BY <2>1, <2>3, <2>4, UntouchedMemory
<1> QED BY <1>1, <1>2, <1>3, <1>4, <1>5, <1>6, <1>7 DEF RpNext

(* The cells that are read are of no later time than the latest shown, so what  *)
(* covers a weight at their time covers it at that one.                         *)
LEMMA CellsAreNoLess == MemoryIInv => BloomIsNoLess
<1> SUFFICES ASSUME MemoryIInv, rpMode = "bloom", NEW k \in RpKey
             PROVE  query(decay_to(bloom), k) >= Halved(exact[k].w, furthest - exact[k].at)
  BY DEF BloomIsNoLess
<1> DEFINE d == decay_to(bloom)
<1> DEFINE x == exact[k]
<1>1. x \in Weighed /\ bloom \in Memory /\ rpClock \in Nat /\ furthest \in Nat /\ rpClock <= furthest
  BY DEF MemoryIInv, ReachTypes
<1>2. bloom.at <= furthest /\ Covers(bloom, x, k)
  BY DEF MemoryIInv, CellsCover
<1>3. d \in Memory /\ d.at = IF rpClock > bloom.at THEN rpClock ELSE bloom.at
  BY <1>1, Decayed
<1>4. Covers(d, x, k)
  BY <1>1, <1>2, DecayCovers
<1>5. PICK i \in DOMAIN RpCells[k] : query(d, k) = d.cell[RpCells[k][i]]
  BY <1>3, QueryReads
<1> HIDE DEF d, x
<1>6. x.w \in Nat /\ x.at \in Nat /\ bloom.at \in Nat /\ d.at \in Nat /\ d.at <= furthest
  BY <1>1, <1>2, <1>3, RpAssumption DEF Weighed, Memory
<1>7. query(d, k) \in Nat
  <2>1. d.cell \in [RpCell -> 0 .. WMax] /\ RpCells[k][i] \in RpCell
    BY <1>3, CellOfKey DEF Memory
  <2>2. query(d, k) \in 0 .. WMax
    BY <1>5, <2>1
  <2> QED BY <2>2, RpAssumption
<1>8. CASE x.w > 0
  <2> DEFINE p == d.at - x.at
  <2> DEFINE q == furthest - x.at
  <2>1. x.at <= d.at /\ query(d, k) >= Halved(x.w, p)
    BY <1>4, <1>5, <1>8 DEF Covers
  <2>2. p \in Nat /\ q \in Nat /\ p <= q
    BY <1>1, <1>6, <2>1
  <2> HIDE DEF p, q
  <2>3. Halved(x.w, q) <= Halved(x.w, p) /\ Halved(x.w, q) \in 0 .. x.w /\ Halved(x.w, p) \in 0 .. x.w
    BY <1>6, <2>2, HalvedLess, HalvedType
  <2>4. query(d, k) >= Halved(x.w, q)
    BY <1>6, <1>7, <2>1, <2>3
  <2> QED BY <2>4 DEF q, d, x
<1>9. CASE ~(x.w > 0)
  <2>1. x.w = 0
    BY <1>6, <1>9
  <2> DEFINE q == furthest - x.at
  <2>2. x.at <= furthest
    BY DEF MemoryIInv, ReachTypes, x
  <2>3. q \in Nat
    BY <1>1, <1>6, <2>2
  <2> HIDE DEF q
  <2>4. Halved(x.w, q) \in 0 .. 0
    BY <1>6, <2>1, <2>3, HalvedType
  <2>5. query(d, k) >= Halved(x.w, q)
    BY <1>7, <2>4
  <2> QED BY <2>5 DEF q, d, x
<1> QED BY <1>8, <1>9

(* What is remembered of a prefix errs on the side of forwarding: the Bloom     *)
(* memory keeps what the scalar one would, a cold prefix is not held back and a *)
(* posterior's failures are attempts not yet answered (ndn-strategy-reach).     *)
THEOREM MemoryErrsOnForwarding == RpSpec => []ReachInv
<1>1. MemoryIInv => ReachInv
  <2> SUFFICES ASSUME MemoryIInv PROVE ReachInv
    OBVIOUS
  <2>1. RpTypeOK
    <3>1. \A k \in RpKey : prior[k] \in Weighed /\ bandit[k] \in Posterior
      BY DEF MemoryIInv, ReachTypes, Posterior
    <3>2. bloom.cell \in [RpCell -> 0 .. WMax]
      BY DEF MemoryIInv, ReachTypes, Memory
    <3>3. decided \in {"nothing", "nack", "forward", "suppress", "unlucky", "defer"}
      BY DEF MemoryIInv, ReachTypes
    <3> QED BY <3>1, <3>2, <3>3 DEF RpTypeOK, Weighed, Posterior
  <2> QED BY <2>1, CellsAreNoLess DEF MemoryIInv, ReachInv
<1> QED BY <1>1, MemoryHoldsAtFirst, MemoryIsKept, PTL DEF RpSpec
===========================================================================
