----------------------------- MODULE MCBearers -----------------------------
(* What carries a packet, one part to a behaviour: a face over two phys; the   *)
(* Wi-Fi medium around its slot gate (plans on their way to the radio, frames  *)
(* on theirs to the air, the reader tasks) and how it is built; a LoRa face    *)
(* under its control plane and when its frames leave; BLE advertisements and   *)
(* the serial line of a dongle; and the prefixes a node has learned to reach.  *)
EXTENDS RadioFace, RadioKnobs, MediumPath, LoraFace, ReachPrior, Ble, MediumBuild

CONSTANTS Parts, fa, fb, s1, s2, q1, q2, r1, n1, n2, n3, b1, b4
VARIABLE part

(* Node fa sends, node fb answers under the learned policy. *)
Interest1 == [name |-> <<"x", "1">>, interest |-> TRUE]
Data1     == [name |-> <<"x", "2">>, interest |-> FALSE]
Answer    == [name |-> <<"x">>, interest |-> FALSE]

MCNodes   == {fa, fb}
MCReach   == [n \in MCNodes |-> IF n = fa THEN {fb} ELSE {}]
MCPhy     == [n \in MCNodes |->
               << [rank |-> 1, mtu |-> 2, mcs |-> IF n = fa THEN 7 ELSE 4, bit |-> "wifi"],
                  [rank |-> 3, mtu |-> 1, mcs |-> RfNone, bit |-> "ble"] >>]
MCPackets == {Interest1, Data1, Answer}
MCFrom    == [o \in MCPackets |-> IF o = Answer THEN fb ELSE fa]
MCCalls   == [o \in MCPackets |-> IF o = Interest1 THEN 2 ELSE 1]
MCPolicy  == [n \in MCNodes |-> IF n = fa THEN "class" ELSE "learned"]
MCRules   == << << <<"x">>, "robust" >>, << <<"x", "1">>, "throughput" >>, << <<"x", "1">>, "redundant" >> >>

MCNonce == [n \in Sender |-> IF n = s1 THEN q1 ELSE q2]
MCPlanSizes == {NoRate, 0, 1}

\* Four modulations, one not described, one whose driver lands on another, one
\* whose driver puts on less power than it describes; plans
\* that are out of range, that ask for nothing of a knob, that are refused.
MCLfPayload == [m \in LfMode |-> IF m = "lora" THEN 3 ELSE 1]
MCLfSpan == [m \in LfMode |-> IF m = "lora" THEN <<7, 9>> ELSE LfNone]
MCLfPower == [m \in LfMode |-> IF m = "lora" THEN <<0, 5>> ELSE <<2, 3>>]
MCLfDriver == [m \in LfMode |-> IF m = "lora" THEN <<0, 4>> ELSE <<2, 3>>]
MCLfRefuses == [m \in LfMode |-> IF m = "lora" THEN {"edcca"} ELSE {"sf"}]
MCLfLands == [m \in LfMode |-> IF m = "gfsk" THEN "flrc" ELSE m]
MCLfPlan == {[phy |-> "lora", sf |-> 12, bw |-> 250, dbm |-> 9, edcca |-> TRUE],
             [phy |-> "gfsk", sf |-> 8, bw |-> LfNone, dbm |-> 0, edcca |-> FALSE],
             [phy |-> "ook", sf |-> LfNone, bw |-> 125, dbm |-> 1, edcca |-> TRUE]}

\* Two prefixes that share cells, one of whose positions fall on the same cell.
MCRpKeyOf == [n \in RpName |-> IF n \in {1, 2} THEN 1 ELSE 2]
MCRpCells == [k \in RpKey |-> IF k = 1 THEN <<1, 2, 2>> ELSE <<2, 3, 1>>]
MCRpNexthops == {NoEntry, {}, {In}, {In, 7}}

\* Frames with and without sync bytes inside, another type, other output, a
\* header whose frame never comes.
MCBaAddr == [n \in BaNode |-> n]
MCBaAt == [t \in BaTask |-> IF t = b1 THEN n1 ELSE IF t = b4 THEN n3 ELSE n2]
MCBaPacket == [t \in BaTask |-> IF t = b1 THEN 2 ELSE 1]
MCBsItem == {Framed(RxType, <<1, 2, 3>>), Framed(RxType, <<1, Sync0, Sync1>>), Framed(9, <<Sync0>>),
             <<Sync0>>, <<5, 6>>, <<Sync0, Sync1, RxType, 200, 0>>}
MCBdPayload == {<<>>, <<1, Sync0, Sync1>>}

\* A radio that schedules, one that only says so, one that does not and is read; an
\* instant already past and one ahead, on the radio's counter and on no counter.
MCLtRadio == {[schedules |-> TRUE, label |-> TRUE, owns |-> "tsf", reads |-> {}],
              [schedules |-> FALSE, label |-> TRUE, owns |-> "tsf", reads |-> {"tsf"}],
              [schedules |-> FALSE, label |-> FALSE, owns |-> "tsf", reads |-> {"tsf"}]}
MCLtTiming == {[kind |-> "now"], [kind |-> "after", us |-> 2], [kind |-> "at", tick |-> 1, domain |-> "tsf"],
               [kind |-> "at", tick |-> 3, domain |-> "tsf"], [kind |-> "at", tick |-> 3, domain |-> "gps"]}

\* A dongle of two channels that says so; a board with a profile besides; two that
\* repeat what they are told, one of them with a scale of power; one that says nothing.
MCMbHw(rate, switch, tunes, scale) == [mcs |-> rate, retune |-> switch, channels |-> tunes, dbm |-> scale]
MCMbDriver == [d \in Drivers |->
  CASE d = "rtl8822e" -> [hw |-> MCMbHw(7, 16, {6, 36}, FALSE), describes |-> TRUE, echoes |-> FALSE, handles |-> {"knobs"}]
    [] d = "esp32c5" -> [hw |-> MCMbHw(7, 2, {1, 36}, TRUE), describes |-> TRUE, echoes |-> FALSE, handles |-> {"knobs", "profile"}]
    [] OTHER -> [hw |-> MCMbHw(7, MbNone, {6}, d = "halow"), describes |-> d # "loopback", echoes |-> d # "loopback",
                 handles |-> IF d = "loopback" THEN {} ELSE {"knobs"}]]
MCMbPreset == [k \in {"5ghz", "s1g", "dual"} |-> [mcs |-> IF k = "dual" THEN 7 ELSE 9, retune |-> IF k = "s1g" THEN MbNone ELSE 1]]

Init ==
  /\ part \in Parts
  /\ RadioInit /\ KnobsInit /\ TxInit /\ ReceiveInit /\ BsInit /\ BdInit
  /\ BaInit /\ (part # "adverts" => baFraming = "ndnts")
  /\ LfInit /\ (part # "lora" => lfPlan.phy = "lora")
  /\ RpInit /\ (part # "reach" => rpMode = "bloom")
  /\ LtInit /\ (part # "timing" => (\A f \in LtFrame : ltTiming[f].kind = "now") /\ ltRadio.label /\ ltRadio.schedules)
  /\ MbInit /\ (part # "build" => mbPath = "phy")

wifiVars == <<radioVars, knobVars, txVars, rxVars, mbVars>>
otherVars == <<lfVars, ltVars, rpVars, baVars, bsVars, bdVars>>

Next ==
  /\ UNCHANGED part
  /\ \/ part = "face" /\ RadioNext /\ UNCHANGED <<knobVars, txVars, rxVars, mbVars, otherVars>>
     \/ part = "knobs" /\ KnobsNext /\ UNCHANGED <<radioVars, txVars, rxVars, mbVars, otherVars>>
     \/ part = "tx" /\ TxNext /\ UNCHANGED <<radioVars, knobVars, rxVars, mbVars, otherVars>>
     \/ part = "rx" /\ ReceiveNext /\ UNCHANGED <<radioVars, knobVars, txVars, mbVars, otherVars>>
     \/ part = "build" /\ MbNext /\ UNCHANGED <<radioVars, knobVars, txVars, rxVars, otherVars>>
     \/ part = "lora" /\ LfNext /\ UNCHANGED <<ltVars, rpVars, baVars, bsVars, bdVars, wifiVars>>
     \/ part = "timing" /\ LtNext /\ UNCHANGED <<lfVars, rpVars, baVars, bsVars, bdVars, wifiVars>>
     \/ part = "reach" /\ RpNext /\ UNCHANGED <<lfVars, ltVars, baVars, bsVars, bdVars, wifiVars>>
     \/ part = "adverts" /\ BaNext /\ UNCHANGED <<lfVars, ltVars, rpVars, bsVars, bdVars, wifiVars>>
     \/ part = "down" /\ BdNext /\ UNCHANGED <<lfVars, ltVars, rpVars, baVars, bsVars, wifiVars>>
     \/ part = "serial" /\ BsNext /\ UNCHANGED <<lfVars, ltVars, rpVars, baVars, bdVars, wifiVars>>

vars == <<part, wifiVars, otherVars>>
Safe == Init /\ [][Next]_vars

\* BatcherFair, in the behaviours of the batcher.
Spec ==
  /\ Safe
  /\ WF_txVars(part = "tx" /\ Open) /\ WF_txVars(part = "tx" /\ Join) /\ WF_txVars(part = "tx" /\ Flush)
  /\ WF_txVars(part = "tx" /\ (Injected(TRUE) \/ Injected(FALSE))) /\ WF_txVars(part = "tx" /\ TxTick)

\* RadioFair, in the behaviours of the face.
FaceSpec ==
  /\ Safe
  /\ \A n \in Nodes :
       /\ WF_radioVars(part = "face" /\ PhySend(n)) /\ WF_radioVars(part = "face" /\ Return(n))
       /\ WF_radioVars(part = "face" /\ Recv(n))


\* MediumPath's and RadioFace's liveness, in the behaviours that run them.
AcceptedLeavesHere == part = "tx" => AcceptedLeaves
NothingIsStuckHere == part = "face" => NothingIsStuck

\* The Wi-Fi medium between the gate and the air: the batcher keeps its promises
\* whatever the knobs do, a frame accepted leaves, and what is received is
\* credited to its source.
PathHolds == [](BatcherInv /\ ReceiveInv) /\ AcceptedLeavesHere

\* The radio face: it narrows only on evidence, never without a rate to narrow
\* to, and a packet accepted is sent whatever phy fails.
FaceHolds ==
  /\ [](RadioTypeOK /\ NarrowedOnEvidence /\ HeardPhyHasARate)
  /\ NothingIsStuckHere
=============================================================================
