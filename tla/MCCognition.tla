---------------------------- MODULE MCCognition ----------------------------
(* The cognition of a node, one part to a behaviour: what it knows of its      *)
(* neighbours, the loop from demand to the radios, the plan for a name, the    *)
(* modulation dial; and what it learns or agrees on without a word: the        *)
(* thresholds of its rates, the hops of a name, the activity of the air, the   *)
(* spreading factor of a pair of LoRa nodes, the arms of a bandit above a plan. *)
EXTENDS Neighbourhood, ControlLoop, RadioPlan, PhyDial, RateLearning, Carriers, LoraPair

CONSTANTS Parts, p1, p2, k1, k2, w1, l1
VARIABLE part

(* Plans on one radio or on both; contexts by hand with p2 the more urgent. *)
MCSpreads   == {<<>>, <<k1>>, <<k1, k2>>}
ByHand      == << [of |-> p2, class |-> 2, rank |-> 0, tracked |-> FALSE],
                  [of |-> p1, class |-> 0, rank |-> 0, tracked |-> FALSE] >>
MCFallbacks == {<<>>, ByHand}

(* A Wi-Fi radio with a power index and a LoRa radio with a power in dBm. *)
MCRadios == <<w1, l1>>
MCCap == [r \in {w1, l1} |->
  IF r = l1
  THEN [kind |-> "lora", rxOnly |-> FALSE, channels |-> <<1>>, duty |-> 1, range |-> 4, speed |-> 5,
        sf |-> <<7, 12>>, dbm |-> 12, index |-> RpNone, band |-> "sub"]
  ELSE [kind |-> "wifi", rxOnly |-> FALSE, channels |-> <<6, 11>>, duty |-> 100, range |-> 2, speed |-> 70,
        mcs |-> 9, nss |-> 2, he |-> TRUE, width |-> 80, widthActuated |-> TRUE,
        dbm |-> RpNone, index |-> [step |-> 2, steps |-> 20], band |-> "5"]]
MCLevels == {-95, -72, -55, -30}

MCMargins     == {-1, 0, 2, 3}
MCActiveNames == {<<>>, <<"bulk">>, <<"normal">>}

\* Two levels well inside a rung, one on each side of some threshold and margin.
MCLrLevels == {-120, -112, -101, -99, -92, -88, -85, -75}
MCHpLists  == {<<1, 2, 3, 4>>, <<3, 1, 4, 2>>, <<4, 4, 3, 2, 1, 1>>}
MCLpLevels == {-60, -96}
\* One end of the levels is met, beside every other bin; the plan has the rate and
\* the power in the middle, or none but the lowest.
MCAcPart      == [maxMcs |-> 2, maxPower |-> 10, floor |-> 2, step |-> 4]
MCAcSituation == [rssi : {-95 + 5 * i : i \in 0 .. 15}, busy : {0, 30, 60, 90}, recv : {1, 2, 5}, class : 0 .. 2]
MCAcAsked     == {[rssi |-> -20, busy |-> 0, recv |-> 1, class |-> 0]}
MCAcBase      == {[mcs |-> 2, power |-> 4, fec |-> 0, bw4 |-> 4, nss |-> 1]}

Init ==
  /\ part \in Parts
  /\ CgInit
  /\ ClInit /\ (part # "loop" => learner = "probe")
  /\ PdInit /\ (part # "dial" => \A n \in PdNode : dial[n].mode = "reach")
  /\ LrInit /\ (part # "rates" => sfNow = 7)
  /\ HpInit /\ (part # "hops" => \A n \in HpNode : list[n] = <<1, 2, 3, 4>> /\ \A i \in DOMAIN draw : draw[i] = 0)
  /\ OcInit /\ (part # "occupancy" => counter = 0)
  /\ LpInit /\ (part # "pair" => lpAir = -60)
  /\ AcInit
  /\ RpInit /\ (part # "plan" => ctx = [class |-> "bulk", origin |-> TRUE, generation |-> TRUE])

knowVars == <<cgVars, clVars, rpVars, pdVars>>
learnVars == <<lrVars, hpVars, ocVars, lpVars, acVars>>

Next ==
  /\ UNCHANGED part
  /\ \/ part = "nodes" /\ CgNext /\ UNCHANGED <<clVars, rpVars, pdVars, learnVars>>
     \/ part = "loop" /\ ClNext /\ UNCHANGED <<cgVars, rpVars, pdVars, learnVars>>
     \/ part = "plan" /\ RpNext /\ UNCHANGED <<cgVars, clVars, pdVars, learnVars>>
     \/ part = "dial" /\ PdTick /\ UNCHANGED <<cgVars, clVars, rpVars, learnVars>>
     \/ part = "rates" /\ LrNext /\ UNCHANGED <<hpVars, ocVars, lpVars, acVars, knowVars>>
     \/ part = "hops" /\ HpNext /\ UNCHANGED <<lrVars, ocVars, lpVars, acVars, knowVars>>
     \/ part = "occupancy" /\ OcNext /\ UNCHANGED <<lrVars, hpVars, lpVars, acVars, knowVars>>
     \/ part = "pair" /\ LpNext /\ UNCHANGED <<lrVars, hpVars, ocVars, acVars, knowVars>>
     \/ part = "arms" /\ AcNext /\ UNCHANGED <<lrVars, hpVars, ocVars, lpVars, knowVars>>

vars == <<part, knowVars, learnVars>>
Safe == Init /\ [][Next]_vars

\* CgFair and LpFair, in the behaviours that run their module.
Fair ==
  /\ WF_cgVars(part = "nodes" /\ Interval)
  /\ \A n \in CgNode : WF_cgVars(part = "nodes" /\ Broadcast(n)) /\ WF_cgVars(part = "nodes" /\ CgRestart(n))
  /\ WF_lpVars(part = "pair" /\ tick)
  /\ \A n \in Ids : WF_lpVars(part = "pair" /\ pump_replies(n))

Spec == Safe /\ Fair

\* Neighbourhood's liveness, in the behaviours that run it: once reports arrive,
\* all know how each is heard by the other.
NodesBootstrap == part = "nodes" => CooperationBootstraps

\* LoraPair's liveness, in the behaviours that run it: a pair that lost each
\* other meets again.
PairMeetsAgain == part = "pair" => LostPairMeets

\* Nodes that only overhear each other keep in touch: what each knows of the
\* other is of the right direction and counts no loss that was none, two that
\* report learn how they are heard, and a pair on LoRa that lost each other
\* meets again, serving every class meanwhile.
NodesKeepInTouch ==
  /\ [](NeighbourInv /\ PairInv)
  /\ LossOnlyWhenMissed
  /\ NodesBootstrap /\ PairMeetsAgain
=============================================================================
