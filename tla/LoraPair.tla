------------------------------ MODULE LoraPair ------------------------------
(* Two nodes with a LoRa dongle each that fetch each other's names             *)
(* (lora_cognition.rs): one Interest a tick, half a tick apart, an answer after *)
(* a delay, and the spreading factor each dials by what it hears.  A node hears *)
(* a frame only at the factor and the bandwidth it is itself set to, so that   *)
(* what it sends also decides what it can hear.  Time is in half ticks of 2 s. *)
EXTENDS Arith, FiniteSets, Sequences

CONSTANTS
  LpNone,
  LpLevels,      \* levels the air carries between them
  LpBulk,        \* classes: the last of three is bulk
  LpWidens,      \* whether the dongle takes another bandwidth
  RendezvousSf, RendezvousAge, StaleAfter,      \* RENDEZVOUS_SF, RENDEZVOUS_MS, stale_ms
  RetryAge, GiveUpAge,                          \* RETX_MS, GIVEUP_MS
  Margin4,       \* SF_HYST_DB
  LpFaults       \* bound: outages, level changes

ASSUME LpAssumption ==
  /\ RendezvousSf \in 7 .. 12 /\ RendezvousAge \in Nat /\ RetryAge < GiveUpAge /\ LpBulk \subseteq 1 .. 3

VARIABLES
  lora,       \* Node: the modem, what is known of the peer, pending, pending_replies
  turn,       \* which of the two ticks next
  lpAir,      \* level of the air, LpNone while nothing gets through
  lpFaults,
  idleFor     \* history: half ticks since each class was last expressed

lpVars == <<lora, turn, lpAir, lpFaults, idleFor>>

Ids == {1, 2}
Peer(n) == 3 - n
Class == 1 .. 3

LpInit ==
  /\ lora = [n \in Ids |-> [sf |-> 7, wide |-> FALSE, peerSf |-> 7, heard |-> 0, rssi |-> LpNone, cursor |-> 0,
                            pending |-> [c \in Class |-> LpNone], seq |-> [c \in Class |-> 0], replies |-> <<>>]]
  /\ turn = 1 /\ lpAir \in LpLevels /\ lpFaults = 0
  /\ idleFor = [n \in Ids |-> [c \in Class |-> 0]]

(* -------------------------------- transmit -------------------------------- *)
\* The factor of the next frame: after a long silence the agreed one, or else
\* what the link needs and at least what the peer last said.
Dialled_held(d) ==
  Larger(IF d.rssi = LpNone THEN d.sf ELSE pick_sf_hysteretic(d.rssi, d.sf, NeedsSf, Margin4), d.peerSf)
Dialled(d) ==
  IF d.heard > RendezvousAge THEN RendezvousSf
  ELSE Larger(IF d.rssi = LpNone THEN d.sf ELSE pick_sf_hysteretic(d.rssi, d.sf, NeedsSf, Margin4), d.peerSf)
Widened(d, c) == LpWidens /\ c \in LpBulk /\ d.rssi # LpNone /\ d.rssi >= -85

\* One queued reply for a name, however often it is asked for.
Queued(replies, name) ==
  IF \E i \in DOMAIN replies : replies[i].name = name THEN replies ELSE Append(replies, [name |-> name, age |-> 0])

\* on_rx at d of an Interest or a Data from its peer, sent at sf.
on_rx(d, kind, name, sf) ==
  LET now == [d EXCEPT !.peerSf = sf, !.heard = 0, !.rssi = lpAir] IN
  IF kind = "I" THEN [now EXCEPT !.replies = Queued(@, name)]
  ELSE IF d.pending[name.class] # LpNone /\ d.pending[name.class].name = name
       THEN [now EXCEPT !.pending[name.class] = LpNone] ELSE now

\* Carried by the air, and decoded with the same settings.
Decodes(d, sf, wide) == lpAir # LpNone /\ lpAir >= NeedsSf[sf - 6] /\ d.sf = sf /\ d.wide = wide

\* pump_replies: a reply is due between two half ticks, the next one if a frame
\* is being sent.  It is dialled (transmit) as an Interest is.
pump_replies(n) ==
  /\ lora[n].replies # <<>>
  /\ \E name \in {Head(lora[n].replies).name} :
     \E d \in {[lora[n] EXCEPT !.replies = Tail(@), !.sf = Dialled(lora[n]), !.wide = Widened(lora[n], name.class)]} :
       lora' = [k \in Ids |-> IF k = n THEN d
                  ELSE IF Decodes(lora[k], d.sf, d.wide) THEN on_rx(lora[k], "D", name, d.sf) ELSE lora[k]]
  /\ UNCHANGED <<turn, lpAir, lpFaults, idleFor>>

(* ---------------------------------- tick ---------------------------------- *)
Overdue(p) == p # LpNone /\ p.first >= GiveUpAge
LpAged(d) ==
  [d EXCEPT !.heard = Smaller(@ + 1, RendezvousAge + 1),
            !.pending = [c \in Class |-> IF @[c] = LpNone THEN LpNone ELSE [@[c] EXCEPT !.expressed = Smaller(@ + 1, RetryAge), !.first = @ + 1]],
            !.replies = [i \in DOMAIN @ |-> [@[i] EXCEPT !.age = @ + 1]]]
Forgotten(d) == [d EXCEPT !.pending = [c \in Class |-> IF Overdue(@[c]) THEN LpNone ELSE @[c]]]
LpPruned(d) == [d EXCEPT !.rssi = IF d.heard > StaleAfter THEN LpNone ELSE @]

\* The first class that is due, from a cursor that moves on each tick.
DueFrom(d) == d.cursor
IsDue(p) == p = LpNone \/ p.expressed >= RetryAge
Due(d) ==
  LET order == [i \in 1 .. 3 |-> ((DueFrom(d) + i - 1) % 3) + 1]
      due   == {i \in 1 .. 3 : IsDue(d.pending[order[i]])}
  IN IF due = {} THEN LpNone ELSE order[CHOOSE i \in due : \A j \in due : i <= j]

Expressed(d, c) ==
  LET fresh == d.pending[c] = LpNone
      name  == IF fresh THEN [class |-> c, seq |-> 1 - d.seq[c]] ELSE d.pending[c].name
  IN [d EXCEPT !.seq[c] = name.seq,
               !.pending[c] = [name |-> name, expressed |-> 0, first |-> IF fresh THEN 0 ELSE @.first]]

\* Half a tick goes by and the node whose turn it is ticks.
Settled == \A n \in Ids : \A i \in DOMAIN lora[n].replies : lora[n].replies[i].age = 0
tick ==
  /\ Settled /\ turn' = Peer(turn) /\ UNCHANGED <<lpAir, lpFaults>>
  /\ \E d \in {Forgotten(LpAged(lora[turn]))}, was \in {LpAged(lora[Peer(turn)])} : \E c \in {Due(d)} :
       /\ idleFor' = [n \in Ids |-> [k \in Class |-> IF n = turn /\ k = c THEN 0 ELSE Smaller(idleFor[n][k] + 1, 12)]]
       /\ IF c = LpNone
          THEN lora' = [n \in Ids |-> IF n = turn THEN LpPruned([d EXCEPT !.cursor = (@ + 1) % 3]) ELSE was]
          ELSE \E e \in {Expressed([d EXCEPT !.cursor = (@ + 1) % 3], c)} :
               \E sent \in {[e EXCEPT !.sf = Dialled(e), !.wide = Widened(e, c)]} :
                 lora' = [n \in Ids |-> IF n = turn THEN LpPruned(sent)
                            ELSE IF Decodes(was, sent.sf, sent.wide) THEN on_rx(was, "I", e.pending[c].name, sent.sf) ELSE was]

\* The level changes.
Weather ==
  /\ lpFaults < LpFaults /\ lpFaults' = lpFaults + 1
  /\ \E l \in LpLevels \cup {LpNone} : l # lpAir /\ lpAir' = l
  /\ UNCHANGED <<lora, turn, idleFor>>

LpNext == tick \/ Weather \/ \E n \in Ids : pump_replies(n)

\* The loop selects among what is ready: the pump and the ticker keep being served.
LpFair == WF_lpVars(tick) /\ \A n \in Ids : WF_lpVars(pump_replies(n))
LpSpec == LpInit /\ [][LpNext]_lpVars /\ LpFair

(* ------------------------------- properties ------------------------------- *)
\* Types of the state; no name is asked for beyond the time to give up.
LpTypeOK ==
  \A n \in Ids : LET d == lora[n] IN
    /\ d.sf \in 7 .. 12 /\ d.peerSf \in 7 .. 12 /\ d.heard \in 0 .. RendezvousAge + 1 /\ d.rssi \in LpLevels \cup {LpNone}
    /\ \A c \in Class : d.pending[c] # LpNone => d.pending[c].first < GiveUpAge + 2

\* "At 4 s/tick a class is serviced every ~12 s": each class of each node is
\* expressed at least every third tick or, when it was answered at once, fourth.
EveryClassIsServed == \A n \in Ids : \A c \in Class : idleFor[n][c] <= 8

PairInv == LpTypeOK /\ EveryClassIsServed

\* Two nodes that lost each other meet again, at a factor that carries, whoever
\* had climbed and whatever was lost.
LostPairMeets ==
  (<>[](lpAir # LpNone /\ lpAir >= NeedsSf[RendezvousSf - 6])) => []<>(lora[1].heard = 0) /\ []<>(lora[2].heard = 0)

=============================================================================
