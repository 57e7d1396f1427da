----------------------------- MODULE RadioFace -----------------------------
(* One face over several phys (ndn-radio/src/lib.rs): the policy picks the    *)
(* phys a packet leaves on, each phy's pump feeds one merged rfQueue, and the   *)
(* receiver drops what it has delivered lately and learns from what it has    *)
(* not.  Every node runs the same code; phys lose, delay and fail.            *)
EXTENDS Arith, Sequences, FiniteSets

CONSTANTS
  Nodes,        \* the radios
  Reach,        \* Reach[n]: the nodes in range of n
  Phy,          \* Phy[n][i], a phy of n: rank (range), mtu, mcs (highest received), bit (its kind)
  Packets,      \* the packets there are: records of name, interest
  From,         \* From[o]: the node whose forwarder sends packet o
  PolicyOf,     \* PolicyOf[n] \in {"all", "class", "learned"}
  Rules,        \* NameReachClassifier: sequence of <<prefix, class>>
  DefaultClass,
  Depth,        \* LearnedPhyPolicy: components of a name that make its key
  Stale,        \* ticks a capability heard stays fresh
  Cap,          \* entries of the duplicate ring
  RfNone,
  Calls,        \* Calls[o]: bound on the calls made for packet o
  MaxFaults,    \* bound on sends that fail, packets lost and pumps that end
  MaxTime

Phys  == UNION {DOMAIN Phy[n] : n \in Nodes}
Floor == [rate |-> RfNone, phys |-> {}]

ASSUME RadioAssumption == Cap \in Nat \ {0} /\ Depth \in Nat \ {0} /\ Stale \in Nat /\ MaxTime \in Nat

VARIABLES
  now,          \* ticks; a tick halves a learned weight
  sending,      \* sending[n]: the send_bytes call under way
  tries,        \* tries[o]: calls made for packet o
  faults,       \* faults so far
  rfAir,          \* rfAir[n][p]: wires on the way to n over p
  pump,         \* pump[n][p]: the receive task of the phy still runs
  rfQueue,        \* rfQueue[n]: the merged channel, <<phy, wire>>
  ring,         \* ring[n]: Dedup.order; Dedup.seen is its range
  rfPrior,        \* rfPrior[n][key]: learned weights of a prefix, and when they were touched
  peer,         \* peer[n][p]: capability last heard over p, and when
  sent,         \* history: wires some phy has put on the air
  got,          \* history: wires given to the forwarder of n
  heard,        \* history: <<key, phy, time>> of first arrivals at n
  rxCap         \* history: <<phy, capability, time>> of every Interest taken off the queue

radioVars == <<now, sending, tries, faults, rfAir, pump, rfQueue, ring, rfPrior, peer, sent, got, heard, rxCap>>

(* ---------------------------- capability -------------------------------- *)
Largest(S) == CHOOSE x \in S : \A y \in S : y <= x

default_capability(n) ==
  LET mcs == {Phy[n][p].mcs : p \in Phys} \ {RfNone}
  IN [rate |-> IF mcs = {} THEN RfNone ELSE Largest(mcs), phys |-> {Phy[n][p].bit : p \in Phys}]

\* The wire of a packet: its sender's capability rides on Interests.
Wire(o) == [pkt |-> o, cap |-> IF o.interest THEN default_capability(From[o]) ELSE Floor]
Wires   == {Wire(o) : o \in Packets}

RfFresh(n, p) == peer[n][p] # RfNone /\ now - peer[n][p].at <= Stale
link_rate_hint(n, p) ==
  LET our == default_capability(n).rate
  IN IF our = RfNone \/ ~RfFresh(n, p) THEN RfNone
     ELSE IF peer[n][p].cap.rate = RfNone THEN our
     ELSE Smaller(our, peer[n][p].cap.rate)

(* ------------------------------ policies -------------------------------- *)
\* max_by_key keeps the last of equals.
LastBest(S, Key(_)) == CHOOSE i \in S : \A j \in S : Key(j) < Key(i) \/ (Key(j) = Key(i) /\ j <= i)

HasPrefix(name, prefix) == Len(prefix) <= Len(name) /\ SubSeq(name, 1, Len(prefix)) = prefix
classify(name) ==
  LET hits == {i \in DOMAIN Rules : HasPrefix(name, Rules[i][1])}
      Length(i) == Len(Rules[i][1])
  IN IF hits = {} THEN DefaultClass ELSE Rules[LastBest(hits, Length)][2]

ByClass(n, name) ==
  LET Rank(p) == Phy[n][p].rank
      Mtu(p)  == Phy[n][p].mtu
  IN CASE classify(name) = "redundant"  -> Phys
       [] classify(name) = "robust"     -> {LastBest(Phys, Rank)}
       [] classify(name) = "throughput" -> {LastBest(Phys, Mtu)}

\* Weights are counted in units of 2^-MaxTime, so halving by the tick is exact.
RfReinforce == 2 ^ MaxTime
Threshold == RfReinforce \div 2
RfKeyOf(name) == SubSeq(name, 1, Smaller(Depth, Len(name)))
decay(r) == [w |-> [p \in DOMAIN r.w |-> r.w[p] \div 2 ^ (now - r.last)], last |-> now]

Known(n, k) == k \in DOMAIN rfPrior[n]
\* A fresh entry starts as if trusted.
LearnedStale(n, k) ==
  IF Cardinality(Phys) <= 1 \/ ~Known(n, k) THEN Phys
  ELSE LET W(p) == rfPrior[n][k].w[p]
           best == LastBest(DOMAIN rfPrior[n][k].w, W)
       IN IF W(best) >= Threshold THEN {best} ELSE Phys
Learned(n, k) ==
  IF Cardinality(Phys) <= 1 \/ ~Known(n, k) THEN Phys
  ELSE LET r == decay(rfPrior[n][k])
           W(p) == r.w[p]
           best == LastBest(DOMAIN r.w, W)
       IN IF r.w[best] >= Threshold THEN {best} ELSE Phys

select(n, name) ==
  CASE PolicyOf[n] = "all"     -> Phys
    [] PolicyOf[n] = "class"   -> ByClass(n, name)
    [] PolicyOf[n] = "learned" -> Learned(n, RfKeyOf(name))

\* A selection of the learned policy decays what it reads.
Touched(n, k) == IF Cardinality(Phys) > 1 /\ Known(n, k) THEN [rfPrior[n] EXCEPT ![k] = decay(@)] ELSE rfPrior[n]

observe_delivery(n, k, p) ==
  LET r == IF Known(n, k) THEN decay(rfPrior[n][k]) ELSE [w |-> <<>>, last |-> now]
      v == [i \in 1 .. (IF Len(r.w) < p THEN p ELSE Len(r.w)) |-> IF i \in DOMAIN r.w THEN r.w[i] ELSE 0]
      s == [w |-> [v EXCEPT ![p] = @ + RfReinforce], last |-> now]
  IN [x \in DOMAIN rfPrior[n] \cup {k} |-> IF x = k THEN s ELSE rfPrior[n][x]]

(* -------------------------------- send ---------------------------------- *)
RfIdle == [pkt |-> RfNone, left |-> {}, err |-> FALSE, chosen |-> {}, at |-> 0, after |-> 0]

RadioInit ==
  /\ now = 0
  /\ sending = [n \in Nodes |-> RfIdle]
  /\ tries = [o \in Packets |-> 0] /\ faults = 0
  /\ rfAir = [n \in Nodes |-> [p \in Phys |-> <<>>]]
  /\ pump = [n \in Nodes |-> [p \in Phys |-> TRUE]]
  /\ rfQueue = [n \in Nodes |-> <<>>]
  /\ ring = [n \in Nodes |-> <<>>]
  /\ rfPrior = [n \in Nodes |-> <<>>]
  /\ peer = [n \in Nodes |-> [p \in Phys |-> RfNone]]
  /\ sent = {} /\ got = [n \in Nodes |-> <<>>] /\ heard = [n \in Nodes |-> <<>>]
  /\ rxCap = [n \in Nodes |-> {}]

\* send_bytes up to the first await: the phys are chosen now.
Begin(n, o) ==
  /\ From[o] = n /\ sending[n].pkt = RfNone /\ tries[o] < Calls[o]
  /\ LET S == select(n, o.name)
     IN sending' = [sending EXCEPT ![n] = [pkt |-> o, left |-> S, err |-> FALSE, chosen |-> S, at |-> now, after |-> Len(got[n])]]
  /\ tries' = [tries EXCEPT ![o] = @ + 1]
  /\ rfPrior' = [rfPrior EXCEPT ![n] = IF PolicyOf[n] = "learned" THEN Touched(n, RfKeyOf(o.name)) ELSE @]
  /\ UNCHANGED <<now, faults, rfAir, pump, rfQueue, ring, peer, sent, got, heard, rxCap>>

\* One phy's send returns: phys are tried in index order, an error does not stop the loop.
PhySend(n) ==
  /\ sending[n].pkt # RfNone /\ sending[n].left # {}
  /\ LET p == CHOOSE i \in sending[n].left : \A j \in sending[n].left : i <= j
         w == Wire(sending[n].pkt)
     IN \/ /\ rfAir' = [m \in Nodes |-> IF m \in Reach[n] THEN [rfAir[m] EXCEPT ![p] = Append(@, w)] ELSE rfAir[m]]
           /\ sent' = sent \cup {w}
           /\ sending' = [sending EXCEPT ![n].left = @ \ {p}]
           /\ UNCHANGED faults
        \/ /\ sending' = [sending EXCEPT ![n].left = @ \ {p}, ![n].err = TRUE]
           /\ faults < MaxFaults /\ faults' = faults + 1
           /\ UNCHANGED <<rfAir, sent>>
  /\ UNCHANGED <<now, tries, pump, rfQueue, ring, rfPrior, peer, got, heard, rxCap>>

\* The call returns; after an error the forwarder may call again.
Return(n) ==
  /\ sending[n].pkt # RfNone /\ sending[n].left = {}
  /\ tries' = [tries EXCEPT ![sending[n].pkt] = IF sending[n].err THEN @ ELSE Calls[sending[n].pkt]]
  /\ sending' = [sending EXCEPT ![n] = RfIdle]
  /\ UNCHANGED <<now, faults, rfAir, pump, rfQueue, ring, rfPrior, peer, sent, got, heard, rxCap>>

(* ------------------------------- receive -------------------------------- *)
\* The receive task of a phy moves a packet to the merged channel.
Pump(n, p) ==
  /\ pump[n][p] /\ rfAir[n][p] # <<>>
  /\ rfQueue' = [rfQueue EXCEPT ![n] = Append(@, <<p, Head(rfAir[n][p])>>)]
  /\ rfAir' = [rfAir EXCEPT ![n][p] = Tail(@)]
  /\ UNCHANGED <<now, sending, tries, faults, pump, ring, rfPrior, peer, sent, got, heard, rxCap>>

\* recv fails once, and the phy's receive task ends for good.
PumpFails(n, p) ==
  /\ pump[n][p] /\ rfAir[n][p] # <<>>
  /\ pump' = [pump EXCEPT ![n][p] = FALSE]
  /\ faults < MaxFaults /\ faults' = faults + 1
  /\ UNCHANGED <<now, sending, tries, rfAir, rfQueue, ring, rfPrior, peer, sent, got, heard, rxCap>>

Lose(n, p) ==
  /\ rfAir[n][p] # <<>>
  /\ rfAir' = [rfAir EXCEPT ![n][p] = Tail(@)]
  /\ faults < MaxFaults /\ faults' = faults + 1
  /\ UNCHANGED <<now, sending, tries, pump, rfQueue, ring, rfPrior, peer, sent, got, heard, rxCap>>

Seen(n, w) == \E i \in DOMAIN ring[n] : ring[n][i] = w
\* The ring gives up an entry one early.
RememberedShort(n, w) == IF Len(ring[n]) + 1 >= Cap THEN Tail(Append(ring[n], w)) ELSE Append(ring[n], w)
Remembered(n, w) == IF Len(ring[n]) + 1 > Cap THEN Tail(Append(ring[n], w)) ELSE Append(ring[n], w)

\* One turn of the loop in recv_bytes.
Recv(n) ==
  /\ rfQueue[n] # <<>>
  /\ rfQueue' = [rfQueue EXCEPT ![n] = Tail(@)]
  /\ LET p == Head(rfQueue[n])[1]
         w == Head(rfQueue[n])[2]
         k == RfKeyOf(w.pkt.name)
     IN /\ IF w.pkt.interest /\ w.cap # Floor
           THEN /\ peer' = [peer EXCEPT ![n][p] = [cap |-> w.cap, at |-> now]]
                /\ rxCap' = [rxCap EXCEPT ![n] = @ \cup {<<p, w.cap, now>>}]
           ELSE UNCHANGED <<peer, rxCap>>
        /\ IF Seen(n, w) THEN UNCHANGED <<ring, rfPrior, got, heard>>
           ELSE /\ ring' = [ring EXCEPT ![n] = Remembered(n, w)]
                /\ rfPrior' = [rfPrior EXCEPT ![n] = IF PolicyOf[n] = "learned" THEN observe_delivery(n, k, p) ELSE @]
                /\ got' = [got EXCEPT ![n] = Append(@, w)]
                /\ heard' = [heard EXCEPT ![n] = Append(@, <<k, p, now>>)]
  /\ UNCHANGED <<now, sending, tries, faults, rfAir, pump, sent>>

RadioTick ==
  /\ now < MaxTime
  /\ now' = now + 1
  /\ UNCHANGED <<sending, tries, faults, rfAir, pump, rfQueue, ring, rfPrior, peer, sent, got, heard, rxCap>>

RadioNext ==
  \/ \E n \in Nodes, o \in Packets : Begin(n, o)
  \/ \E n \in Nodes : PhySend(n) \/ Return(n) \/ Recv(n)
  \/ \E n \in Nodes, p \in Phys : Pump(n, p) \/ PumpFails(n, p) \/ Lose(n, p)
  \/ RadioTick

RadioSpec == RadioInit /\ [][RadioNext]_radioVars

\* A call under way is polled until it returns, and so is the receive loop.
RadioFair == \A n \in Nodes : WF_radioVars(PhySend(n)) /\ WF_radioVars(Return(n)) /\ WF_radioVars(Recv(n))

(* ------------------------------ properties ------------------------------ *)
\* Types of the state.
RadioTypeOK ==
  /\ now \in 0 .. MaxTime
  /\ \A o \in Packets : tries[o] \in 0 .. Calls[o]
  /\ \A n \in Nodes :
       /\ sending[n].pkt \in Packets \cup {RfNone} /\ sending[n].left \subseteq sending[n].chosen
       /\ \A p \in Phys : rfAir[n][p] \in Seq(Wires)
       /\ ring[n] \in Seq(Wires) /\ Len(ring[n]) <= Cap
       /\ rfQueue[n] \in Seq(Phys \X Wires)
       /\ \A k \in DOMAIN rfPrior[n] : Len(rfPrior[n][k].w) <= Cardinality(Phys)
  /\ sent \subseteq Wires

\* Several phys, several calls for one packet and the duplicate ring together:
\* the forwarder of each node sees a packet again only when Cap others have
\* come in between.
Once == INSTANCE RecentOnce WITH Node <- Nodes, Thing <- Wires, Window <- Cap
ReceivesOnce == Once!Spec

\* The weight the deliveries of the history give a phy at time t.
Score(n, k, p, m, t) ==
  LET Sum[i \in 0 .. m] ==
        IF i = 0 THEN 0
        ELSE Sum[i - 1] + (IF heard[n][i][1] = k /\ heard[n][i][2] = p
                           THEN RfReinforce \div 2 ^ (t - heard[n][i][3]) ELSE 0)
  IN Sum[m]

\* The learned policy leaves a phy out only when another has lately been first
\* to deliver packets of the prefix: however often the weights were read and
\* decayed on the way, they are those of the deliveries themselves.
NarrowedOnEvidence ==
  \A n \in Nodes :
    LET s == sending[n]
    IN s.pkt # RfNone /\ PolicyOf[n] = "learned" /\ s.chosen # Phys =>
         LET k == RfKeyOf(s.pkt.name)
             best == CHOOSE p \in s.chosen : TRUE
         IN /\ s.chosen = {best}
            /\ Score(n, k, best, s.after, s.at) >= Threshold
            /\ \A p \in Phys : Score(n, k, p, s.after, s.at) <= Score(n, k, best, s.after, s.at)

\* A phy over which a neighbour has lately been heard has a rate both can
\* receive, also when every packet came over another phy first.
HeardPhyHasARate ==
  \A n \in Nodes : \A r \in rxCap[n] :
    now - r[3] <= Stale /\ r[2].rate # RfNone /\ default_capability(n).rate # RfNone =>
      /\ link_rate_hint(n, r[1]) # RfNone
      /\ link_rate_hint(n, r[1]) <= default_capability(n).rate
      /\ \E c \in rxCap[n] : c[1] = r[1] /\ c[3] >= r[3] /\ link_rate_hint(n, r[1]) <= c[2].rate

\* Failed sends, lost packets and ended pumps hold nothing up: again and again
\* every call has returned and everything handed over has been dealt with.
NothingIsStuck == []<>(\A n \in Nodes : rfQueue[n] = <<>> /\ sending[n].pkt = RfNone)
============================================================================
