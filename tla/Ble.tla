--------------------------------- MODULE Ble ---------------------------------
(* The BLE bearer: packets as advertisements, and the serial line of a dongle. *)
EXTENDS Naturals, Sequences, FiniteSets

(* BLE advertisements as a bearer (BlePhy of ndn-phy-ble, over the loopback bus *)
(* of its tests): a packet is one advert, or under the one-byte framing several *)
(* numbered from 0 in every packet; a receiver puts them together again by the  *)
(* address each was scanned from.  Every node hears every other and not itself; *)
(* a receiver that lags loses the adverts it had waiting, and the advertiser    *)
(* may refuse one.  A face is sent on by tasks that do not wait for each other. *)
CONSTANTS
  BaNode, BaAddr,     \* BaAddr: Node -> the address its adverts are scanned with
  BaTask, BaAt,       \* BaAt: Task -> the node on whose face it sends
  BaReader,           \* nodes whose face is read
  BaSink,             \* nodes whose face was given a signal sink
  BaPacket,           \* bound: Task -> packets it sends
  BaFragments,        \* adverts to a packet under the one-byte framing
  BaNoAddr,           \* the address of a backend that reports none
  BaMaxFaults         \* bound: adverts refused, adverts lost

ASSUME BaAssumption ==
  BaFragments \in Nat \ {0} /\ BaMaxFaults \in Nat /\ BaAt \in [BaTask -> BaNode] /\ BaReader \subseteq BaNode

VARIABLES
  baFraming,  \* what the faces were built with
  baSent,     \* Task -> packets it has begun
  baNext,     \* Task -> the fragment it is about to advertise, 0 between packets
  baWaiting,  \* Node -> adverts scanned and not yet read
  baPartial,  \* Node -> key -> fragments held by its reassembler
  baGot,      \* Node -> address -> packets handed up with it
  baRssi,     \* Node -> whose signal its sink shows
  baFaults
baVars == <<baFraming, baSent, baNext, baWaiting, baPartial, baGot, baRssi, baFaults>>

BaKey == {BaAddr[n] : n \in BaNode} \cup {BaNoAddr}
\* The reassembler's key: the address, or one common key.
KeyOf_common(addr) == BaNoAddr
KeyOf(addr) == addr

BaInit ==
  /\ baFraming \in {"ndnlpv2", "ndnts"}
  /\ baSent = [t \in BaTask |-> 0] /\ baNext = [t \in BaTask |-> 0]
  /\ baWaiting = [n \in BaNode |-> <<>>]
  /\ baPartial = [n \in BaNode |-> [k \in BaKey |-> <<>>]]
  /\ baGot = [n \in BaNode |-> [k \in BaKey |-> <<>>]]
  /\ baRssi = [n \in BaNode |-> BaNoAddr] /\ baFaults = 0

(* -------------------------------- sending --------------------------------- *)
\* The link service has cut the packet already, or the face cuts it.
Adverts == IF baFraming = "ndnts" THEN BaFragments ELSE 1

BeginPacket(t) ==
  /\ baNext[t] = 0 /\ baSent[t] < BaPacket[t]
  /\ baSent' = [baSent EXCEPT ![t] = @ + 1] /\ baNext' = [baNext EXCEPT ![t] = 1]
  /\ UNCHANGED <<baFraming, baWaiting, baPartial, baGot, baRssi, baFaults>>

\* Heard by all others; it is not an error to have none.
Hears(n, o) == o \in BaReader /\ o # n
Advert(t) == [addr |-> BaAddr[BaAt[t]], packet |-> <<t, baSent[t]>>, i |-> baNext[t]]
Broadcast(t) ==
  /\ baNext[t] > 0
  /\ baWaiting' = [o \in BaNode |-> IF Hears(BaAt[t], o) THEN Append(baWaiting[o], Advert(t)) ELSE baWaiting[o]]
  /\ baNext' = [baNext EXCEPT ![t] = IF @ = Adverts THEN 0 ELSE @ + 1]
  /\ UNCHANGED <<baFraming, baSent, baPartial, baGot, baRssi, baFaults>>
\* An error of the advertiser ends the packet where it is.
BroadcastFails(t) ==
  /\ baNext[t] > 0 /\ baFaults < BaMaxFaults
  /\ baFaults' = baFaults + 1 /\ baNext' = [baNext EXCEPT ![t] = 0]
  /\ UNCHANGED <<baFraming, baSent, baWaiting, baPartial, baGot, baRssi>>

(* ------------------------------- receiving -------------------------------- *)
\* The channel to a reader that has lagged drops what is oldest.
Lagged(n) ==
  /\ baWaiting[n] # <<>> /\ baFaults < BaMaxFaults
  /\ baFaults' = baFaults + 1 /\ baWaiting' = [baWaiting EXCEPT ![n] = Tail(@)]
  /\ UNCHANGED <<baFraming, baSent, baNext, baPartial, baGot, baRssi>>

\* The reassembler takes a fragment that continues what it holds, starts anew at
\* the first of a packet, and drops the rest.
Fed(held, f) == IF f.i = Len(held) + 1 THEN Append(held, f) ELSE IF f.i = 1 THEN <<f>> ELSE <<>>
Whole(held) == Len(held) = Adverts

recv_inner(n) ==
  /\ baWaiting[n] # <<>>
  /\ baWaiting' = [baWaiting EXCEPT ![n] = Tail(@)]
  /\ baRssi' = IF n \in BaSink THEN [baRssi EXCEPT ![n] = Head(baWaiting[n]).addr] ELSE baRssi
HandUp(n, addr, whole) == baGot' = [baGot EXCEPT ![n][addr] = Append(@, whole)]

recv_bytes_with_addr(n) ==
  /\ recv_inner(n)
  /\ LET s == Head(baWaiting[n])  k == KeyOf(s.addr)  now == Fed(baPartial[n][k], s) IN
     IF baFraming = "ndnlpv2" THEN HandUp(n, s.addr, <<s>>) /\ UNCHANGED baPartial
     ELSE IF Whole(now) THEN HandUp(n, s.addr, now) /\ baPartial' = [baPartial EXCEPT ![n][k] = <<>>]
     ELSE baPartial' = [baPartial EXCEPT ![n][k] = now] /\ UNCHANGED baGot
  /\ UNCHANGED <<baFraming, baSent, baNext, baFaults>>

BaNext ==
  \/ \E t \in BaTask : BeginPacket(t) \/ Broadcast(t) \/ BroadcastFails(t)
  \/ \E n \in BaNode : Lagged(n) \/ recv_bytes_with_addr(n)
BaSpec == BaInit /\ [][BaNext]_baVars

(* ------------------------------- properties ------------------------------- *)
\* A packet handed up is made of adverts of the one address it is given, however
\* the adverts of several interleave, are refused or lost (lib.rs:192: the
\* one-byte header carries no sender).
WholeIsOfOneSender == \A n \in BaNode, k \in BaKey :
  \A j \in DOMAIN baGot[n][k] : \A i \in DOMAIN baGot[n][k][j] : BaAddr[BaAt[baGot[n][k][j][i].packet[1]]] = k

\* With no advert refused or lost every packet of an address on which one task
\* sends is handed up once, whole and in the order it was sent, to each of the
\* others, and to none its own.  (Two that send on one face at a time number their
\* fragments alike, and lose packets to each other.)
Alone(t) == \A u \in BaTask \ {t} : BaAddr[BaAt[u]] # BaAddr[BaAt[t]]
Begun(t) == IF baNext[t] = 0 THEN baSent[t] ELSE baSent[t] - 1
EveryPacketArrives == baFaults = 0 => \A n \in BaReader, t \in BaTask :
  Alone(t) /\ baWaiting[n] = <<>> =>
    LET got == baGot[n][BaAddr[BaAt[t]]] IN
    /\ Len(got) = IF BaAt[t] = n THEN 0 ELSE Begun(t)
    /\ \A j \in DOMAIN got :
         Len(got[j]) = Adverts /\ \A i \in DOMAIN got[j] : got[j][i].packet = <<t, j>> /\ got[j][i].i = i

----------------------------------------------------------------------------
(* The serial line of a BLE dongle (Esp32BleBackend of ndn-phy-ble): frames of  *)
(* two sync bytes, a type, a length and a payload, among whatever else the      *)
(* dongle prints.  The reader thread takes bytes as they come, in pieces of any *)
(* size, and finds the frames; what it cannot complete it keeps, up to a limit. *)
(* It ends with the port, or at the first advert it finds for a face dropped.   *)

CONSTANTS
  Sync0, Sync1,     \* SYNC0, SYNC1
  RxType,           \* T_BLE_RX
  HeadLen,          \* level and address: 7 bytes, the least an advert has
  AccLimit,         \* 8192
  BsItem,           \* what the dongle may put on the line: frames and other output
  BsItems,          \* bound: bytes in all
  BsChunk           \* bound: bytes to a read

ASSUME BsAssumption == Sync0 # Sync1 /\ HeadLen \in Nat /\ AccLimit \in Nat /\ BsChunk \in Nat \ {0}
  /\ BsItem \subseteq Seq(Nat)

VARIABLES
  bsLine,     \* bytes the dongle has written and the host has not read
  bsReading,  \* the reader thread runs
  bsAcc,      \* acc
  bsHeld,     \* the face holds the backend, and with it the end of the channel
  bsOut,      \* payloads in the channel
  bsTaken,    \* payloads the face has taken
  bsClosed,   \* the face was told Closed
  bsWhole,    \* history: all the bytes read
  bsCleared   \* history: the limit was met
bsVars == <<bsLine, bsReading, bsAcc, bsHeld, bsOut, bsTaken, bsClosed, bsWhole, bsCleared>>

\* A frame on the line, and where the first sync is (0 if there is none).
Framed(ty, payload) == <<Sync0, Sync1, ty, Len(payload) % 256, (Len(payload) \div 256) % 256>> \o payload
SyncAt(a) ==
  LET at == {i \in 1 .. Len(a) - 1 : a[i] = Sync0 /\ a[i + 1] = Sync1} IN
  IF at = {} THEN 0 ELSE CHOOSE i \in at : \A j \in at : i <= j
LengthAt(a, p) == a[p + 3] + 256 * a[p + 4]
\* A frame is there in full, its header included.
Ready(a) == LET p == SyncAt(a) IN p > 0 /\ Len(a) >= p + 4 /\ Len(a) >= p + 4 + LengthAt(a, p)
After(a) == SubSeq(a, SyncAt(a) + 5 + LengthAt(a, SyncAt(a)), Len(a))
Advertised(a) ==
  LET p == SyncAt(a)  payload == SubSeq(a, p + 5, p + 4 + LengthAt(a, p)) IN
  IF a[p + 2] = RxType /\ Len(payload) >= HeadLen THEN <<SubSeq(payload, HeadLen + 1, Len(payload))>> ELSE <<>>

\* The frames in a run of bytes, in order, and what is left.
Found[a \in Seq(Nat)] ==
  IF ~Ready(a) THEN [out |-> <<>>, left |-> a]
  ELSE [out |-> Advertised(a) \o Found[After(a)].out, left |-> Found[After(a)].left]

BsInit ==
  /\ bsLine = <<>> /\ bsReading = TRUE /\ bsAcc = <<>>
  /\ bsHeld = TRUE /\ bsOut = <<>> /\ bsTaken = <<>> /\ bsClosed = FALSE
  /\ bsWhole = <<>> /\ bsCleared = FALSE

DongleWrites ==
  /\ \E item \in BsItem : Len(bsWhole) + Len(bsLine) + Len(item) <= BsItems /\ bsLine' = bsLine \o item
  /\ UNCHANGED <<bsReading, bsAcc, bsHeld, bsOut, bsTaken, bsClosed, bsWhole, bsCleared>>

\* One read of the port and the frames it completes.
BsKept(left) == IF Len(left) > AccLimit THEN <<>> ELSE left
HandsOn(f) ==
  /\ bsOut' = bsOut \o f.out
  /\ bsAcc' = BsKept(f.left) /\ bsCleared' = (bsCleared \/ Len(f.left) > AccLimit)
  /\ UNCHANGED bsReading
\* The channel has lost its other end.
GivesUp == bsReading' = FALSE /\ bsAcc' = <<>> /\ UNCHANGED <<bsOut, bsCleared>>
Reads ==
  /\ bsReading /\ bsLine # <<>>
  /\ \E n \in {i \in 1 .. BsChunk : i <= Len(bsLine)} : \E chunk \in {SubSeq(bsLine, 1, n)} : \E f \in {Found[bsAcc \o chunk]} :
       /\ bsLine' = SubSeq(bsLine, n + 1, Len(bsLine))
       /\ bsWhole' = bsWhole \o chunk
       /\ IF bsHeld \/ f.out = <<>> THEN HandsOn(f) ELSE GivesUp
  /\ UNCHANGED <<bsHeld, bsTaken, bsClosed>>
\* Any error of the port but a timeout.
PortFails ==
  /\ bsReading /\ bsReading' = FALSE /\ bsAcc' = <<>>
  /\ UNCHANGED <<bsLine, bsHeld, bsOut, bsTaken, bsClosed, bsWhole, bsCleared>>

next_scanned ==
  /\ bsHeld /\ bsOut # <<>>
  /\ bsTaken' = Append(bsTaken, Head(bsOut)) /\ bsOut' = Tail(bsOut)
  /\ UNCHANGED <<bsLine, bsReading, bsAcc, bsHeld, bsClosed, bsWhole, bsCleared>>
next_scanned_closed ==
  /\ bsHeld /\ bsOut = <<>> /\ ~bsReading /\ bsClosed' = TRUE
  /\ UNCHANGED <<bsLine, bsReading, bsAcc, bsHeld, bsOut, bsTaken, bsWhole, bsCleared>>
FaceDropped ==
  /\ bsHeld /\ bsHeld' = FALSE /\ bsOut' = <<>>
  /\ UNCHANGED <<bsLine, bsReading, bsAcc, bsTaken, bsClosed, bsWhole, bsCleared>>

BsNext == DongleWrites \/ Reads \/ PortFails \/ next_scanned \/ next_scanned_closed \/ FaceDropped
BsSpec == BsInit /\ [][BsNext]_bsVars

(* ------------------------------- properties ------------------------------- *)
\* However the line is cut into reads, the adverts handed on are those of all the
\* bytes taken at once, through other output, other types and payloads that hold
\* the sync bytes, as long as the limit is not met (serial.rs:122); and a face is
\* told that there are no more only when it has had them all (serial.rs:110).
CutsDoNotMatter == ~bsCleared =>
  /\ bsHeld => bsTaken \o bsOut = Found[bsWhole].out
  /\ bsHeld /\ bsClosed => bsTaken = Found[bsWhole].out

----------------------------------------------------------------------------
(* The other direction of that line: adverts to send and the share of the air   *)
(* that scanning may have, written to the port by callers that hold its lock.   *)

CONSTANTS
  BdCaller, BdNone,
  AdvType, CoexType,  \* T_BLE_ADV, T_COEX
  CoexItvl,           \* COEX_ITVL
  BdPayload,          \* what is advertised
  BdShare,            \* shares asked for, in percent
  BdFrames            \* bound: calls

ASSUME BdAssumption ==
  /\ BdPayload \subseteq Seq(Nat) /\ BdNone \notin BdCaller
  /\ {Sync0, Sync1, AdvType, CoexType, CoexItvl} \cup BdShare \subseteq Nat

VARIABLES
  bdHeld,    \* the caller that holds the lock of the port
  bdLeft,    \* bytes of its frame still to write
  bdDown,    \* bytes that went to the dongle
  bdAsked,   \* history: the frames of the calls that had the lock, end to end
  bdCalls,
  bdBroken   \* a write has failed
bdVars == <<bdHeld, bdLeft, bdDown, bdAsked, bdCalls, bdBroken>>

\* set_ble_share: between 4 of the interval's units and all of them.
ScanWindow(share) ==
  LET units == (share * CoexItvl) \div 100 IN IF units < 4 THEN 4 ELSE IF units > CoexItvl THEN CoexItvl ELSE units
ShareFrame(share) == Framed(CoexType, <<ScanWindow(share) % 256, ScanWindow(share) \div 256, CoexItvl % 256, CoexItvl \div 256>>)
DownFrame == {Framed(AdvType, p) : p \in BdPayload} \cup {ShareFrame(s) : s \in BdShare}

BdInit == bdHeld = BdNone /\ bdLeft = <<>> /\ bdDown = <<>> /\ bdAsked = <<>> /\ bdCalls = 0 /\ bdBroken = FALSE

PortIsFree == bdHeld = BdNone
send_framed(c) ==
  /\ PortIsFree /\ bdCalls < BdFrames /\ bdCalls' = bdCalls + 1
  /\ bdHeld' = c
  /\ \E frame \in DownFrame : bdLeft' = frame /\ bdAsked' = bdAsked \o frame
  /\ UNCHANGED <<bdDown, bdBroken>>
\* The port takes what it can of write_all; its error lets go of the lock.
write_all ==
  /\ bdHeld # BdNone
  /\ \E n \in 1 .. Len(bdLeft) :
       /\ bdDown' = bdDown \o SubSeq(bdLeft, 1, n) /\ bdLeft' = SubSeq(bdLeft, n + 1, Len(bdLeft))
       /\ bdHeld' = IF n = Len(bdLeft) THEN BdNone ELSE bdHeld
  /\ UNCHANGED <<bdAsked, bdCalls, bdBroken>>
WriteFails ==
  /\ bdHeld # BdNone /\ bdHeld' = BdNone /\ bdLeft' = <<>> /\ bdBroken' = TRUE
  /\ UNCHANGED <<bdDown, bdAsked, bdCalls>>

BdNext == (\E c \in BdCaller : send_framed(c)) \/ write_all \/ WriteFails
BdSpec == BdInit /\ [][BdNext]_bdVars

\* Until a write fails the dongle is sent the frames of the calls one after the
\* other, each whole, whoever calls at a time (serial.rs:90).
CallsDoNotMix == ~bdBroken => bdAsked = bdDown \o bdLeft

\* What is handed up was sent, by the one it is credited to, in whatever pieces it
\* came, and what is sent is not mixed.
BleInv == WholeIsOfOneSender /\ EveryPacketArrives /\ CutsDoNotMatter /\ CallsDoNotMix
=============================================================================
