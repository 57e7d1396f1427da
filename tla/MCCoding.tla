------------------------------ MODULE MCCoding ------------------------------
(* The coding crate, one part to a behaviour: the field and its tables, the    *)
(* erasure code, an object fetched in coded segments, generations recoded on   *)
(* the way, coding between flows, and the table of what is coded.              *)
EXTENDS Cope, Recoding, ErasureCode, CodedObject, PolicyTable

CONSTANTS Parts, r0, a0, b0, d0, relay, sink, na, nb
VARIABLE part

\* Two frames for two neighbours in every way; and three, one for each neighbour and in one order,
\* under one membership and with no failure.
Two == nextId' # nextId => nextId'[r0] <= 3 /\ Last(pending'[r0]).to # d0
Three ==
  /\ UNCHANGED <<members, cpFailures>>
  /\ nextId' # nextId => Last(pending'[r0]).to = <<a0, b0, d0>>[nextId[r0]]
MCCpMembers == {{a0, b0, d0}, {a0}}

MCRcVectors == {<<1, 0>>, <<0, 1>>, <<2, 0>>}
MCRcDamage == {<<0, 2>>}
MCRcSeeds == {<<1, 3>>}
MCRcLimits ==
  [n \in {relay, sink} |-> IF n = relay THEN [budget |-> 0, threshold |-> 0] ELSE [budget |-> 3, threshold |-> 1]]

MCFcBytes == <<7, 200, 91>>

MCPtNames == {<<>>, <<na>>, <<na, nb>>, <<nb>>}
MCPtPolicies == {[k |-> 1, n |-> 2], [k |-> 2, n |-> 1], [k |-> 255, n |-> 255]}
\* The second entry is not well formed.
MCPtFile ==
  <<[prefix |-> <<na>>, role |-> "consumed", policy |-> [k |-> 1, n |-> 255]],
    [prefix |-> <<nb>>, role |-> "consumed", policy |-> [k |-> 0, n |-> 2]],
    [prefix |-> <<na, nb>>, role |-> "consumed", policy |-> [k |-> 1, n |-> 1]]>>
\* A later block shadows an earlier one.
MCPtAgain ==
  <<[prefix |-> <<na>>, role |-> "produced", policy |-> [k |-> 1, n |-> 255]],
    [prefix |-> <<>>, role |-> "produced", policy |-> [k |-> 2, n |-> 3]],
    [prefix |-> <<na>>, role |-> "produced", policy |-> [k |-> 1, n |-> 1]]>>
MCPtConfigs == {MCPtFile, MCPtAgain}

Init ==
  /\ part \in Parts
  /\ CpInit /\ RcInit /\ GfInit /\ FcInit /\ CoInit /\ PtInit
  /\ part # "cope" => members = [n \in CpSenders |-> CHOOSE m \in CpMembers : \A o \in CpMembers : o \subseteq m]
  /\ part # "recode" => descriptor = CHOOSE d \in Descriptors : TRUE
  /\ part # "object" => size = 0

Next ==
  /\ UNCHANGED part
  /\ \/ part \in {"cope", "three"} /\ CpNext /\ (IF part = "cope" THEN Two ELSE Three) /\ UNCHANGED <<rcVars, gfVars, fcVars, coVars, ptVars>>
     \/ part = "recode" /\ RcNext /\ UNCHANGED <<cpVars, gfVars, fcVars, coVars, ptVars>>
     \/ part = "field" /\ GfNext /\ UNCHANGED <<cpVars, rcVars, fcVars, coVars, ptVars>>
     \/ part = "erasure" /\ FcNext /\ UNCHANGED <<cpVars, rcVars, gfVars, coVars, ptVars>>
     \/ part = "object" /\ CoNext /\ UNCHANGED <<cpVars, rcVars, gfVars, fcVars, ptVars>>
     \/ part = "table" /\ PtNext /\ UNCHANGED <<cpVars, rcVars, gfVars, fcVars, coVars>>

vars == <<part, cpVars, rcVars, gfVars, fcVars, coVars, ptVars>>
Spec == Init /\ [][Next]_vars /\ (part = "object" => CoFair)

\* CodedObject's liveness, in the behaviours that run it: a fetch ends.
FetchesEnd == part = "object" => FetchEnds

\* A fetch ends within its deadline, with all of one object, that of the first
\* segment it took, and fails only where losses and strays account for it.
FetchIsSound == [](CoTypeOK /\ ReturnsOnePayload /\ SurvivesTheLosses) /\ FetchesEnd

\* The code is one: the field's tables agree with its arithmetic, any k rows of
\* the code decode, and what decodes is what was sent.
CodeIsSound == FieldInv /\ ErasureInv

\* Relays that mix, of different flows or of one generation, hand out nothing
\* that those it is meant for cannot decode, or that is not what was sent.
MixesDecode == CopeInv /\ RecodingInv
=============================================================================
