-------------------------------- MODULE Cope --------------------------------
(* Coding between flows on a broadcast medium (cope.rs, cope_face.rs,          *)
(* cope_mesh.rs): a node that has frames queued for several neighbours sends   *)
(* the sum of those that each recipient can take apart with what it overheard. *)
(* A payload is the set of natives summed in it, so that two equal ones cancel. *)
(* What is sent is heard by any of the others, and held under the number its   *)
(* sender gave it.  Each link numbers its own frames, from one, whatever the   *)
(* others number: a number says which frame is meant only to its sender.       *)
EXTENDS FiniteSets, Sequences, SequencesExt

CONSTANTS
  CpNode,
  CpSenders,      \* nodes that forward
  CpOverhear,     \* nodes that come to hold what a forwarder is about to send, as it numbers it
  CpNone,
  CpMembers,      \* memberships that routing reports
  CpIds,          \* bound: frames a node enqueues
  CpFailures      \* bound: sends that return an error

ASSUME CpAssumption == CpSenders \cup CpOverhear \subseteq CpNode /\ CpIds \in Nat /\ CpNone \notin CpNode

VARIABLES
  members,    \* CopeMesh::members of each node
  nextId,     \* next_id
  pending,    \* CopeCoder::pending
  holds,      \* CopeCoder::holds of the nodes that forward
  held,       \* payload held for each id, or CpNone
  out,        \* frames of a flush not sent yet
  up,         \* history: what the last step delivered up at each node, or CpNone
  cpFailures

cpVars == <<members, nextId, pending, holds, held, out, up, cpFailures>>

Id == 1 .. CpIds
Native(n, id) == {<<n, id>>}

Silent == [n \in CpNode |-> CpNone]

CpInit ==
  /\ members \in [CpSenders -> CpMembers] /\ nextId = [n \in CpSenders |-> 1]
  /\ pending = [n \in CpSenders |-> <<>>] /\ out = [n \in CpSenders |-> <<>>]
  /\ holds = [n \in CpSenders |-> [m \in CpNode |-> {}]]
  /\ held = [n \in CpNode |-> [i \in Id |-> CpNone]] /\ up = Silent /\ cpFailures = 0

HeldIds(n) == {i \in Id : held[n][i] # CpNone}
Sum(p, q) == (p \ q) \cup (q \ p)

(* --------------------------------- the mesh ------------------------------- *)
\* sync_neighbors: the frames already queued for one that left stay queued.
sync_neighbors(n, desired) ==
  /\ members[n] # desired /\ members' = [members EXCEPT ![n] = desired]
  /\ up' = Silent /\ UNCHANGED <<nextId, pending, holds, held, out, cpFailures>>

Numbered(n) == nextId[n] + 1
\* CopeMemberFace::send_bytes: numbered, held, and queued for the member.
enqueue(n, m) ==
  /\ m \in members[n] \ {n} /\ nextId[n] \in Id
  /\ nextId' = [nextId EXCEPT ![n] = Numbered(n)]
  /\ held' = [held EXCEPT ![n][nextId[n]] = Native(n, nextId[n])]
  /\ pending' = [pending EXCEPT ![n] = Append(@, [id |-> nextId[n], to |-> m, pay |-> Native(n, nextId[n])])]
  /\ up' = Silent /\ UNCHANGED <<members, holds, out, cpFailures>>

(* --------------------------------- encoding ------------------------------- *)
\* encode_next: a frame joins the chosen ones when its recipient holds all of
\* them, and the recipients of all of them hold it.
Joins_oneway(known, chosen, g) ==
  /\ \A f \in ToSet(chosen) : f.to # g.to
  /\ \A f \in ToSet(chosen) : f.id \in known[g.to]
Joins(known, chosen, g) ==
  /\ \A f \in ToSet(chosen) : f.to # g.to
  /\ \A f \in ToSet(chosen) : f.id \in known[g.to] /\ g.id \in known[f.to]
Chosen(known, queue) ==
  FoldLeft(LAMBDA chosen, g : IF Joins(known, chosen, g) THEN Append(chosen, g) ELSE chosen, <<Head(queue)>>, Tail(queue))
Coded(chosen) ==
  [ members |-> [i \in DOMAIN chosen |-> [id |-> chosen[i].id, to |-> chosen[i].to]],
    pay |-> FoldLeft(LAMBDA sum, f : Sum(sum, f.pay), {}, chosen) ]

\* flush: the whole queue is encoded at once, then sent frame by frame.
Encoded(known, queue) ==
  FoldLeft(LAMBDA acc, i : IF acc.rest = <<>> THEN acc
             ELSE LET chosen == Chosen(known, acc.rest)
                  IN [frames |-> Append(acc.frames, Coded(chosen)),
                      rest |-> SelectSeq(acc.rest, LAMBDA f : f \notin ToSet(chosen))],
           [frames |-> <<>>, rest |-> queue], queue).frames
flush(n) ==
  /\ out[n] = <<>> /\ pending[n] # <<>>
  /\ out' = [out EXCEPT ![n] = Encoded(holds[n], pending[n])] /\ pending' = [pending EXCEPT ![n] = <<>>]
  /\ up' = Silent /\ UNCHANGED <<members, nextId, holds, held, cpFailures>>

(* --------------------------------- receiving ------------------------------ *)
\* decode: the one id that is not held, and the payload less all those that are.
Missing(m, frame) == {f \in ToSet(frame.members) : held[m][f.id] = CpNone}
Rest(m, frame) ==
  FoldLeft(LAMBDA sum, f : IF held[m][f.id] = CpNone THEN sum ELSE Sum(sum, held[m][f.id]), frame.pay, frame.members)

\* recv_event of a native (whoever hears it is told) and of a coded frame: what
\* is recovered is kept, and delivered up if it is for this node.
Undecodable(missing) == Cardinality(missing) # 1
Addressed(m, f) == f.to = m
Got(m, frame) ==
  IF Len(frame.members) = 1 THEN [id |-> frame.members[1].id, pay |-> frame.pay, up |-> TRUE]
  ELSE IF Undecodable(Missing(m, frame)) THEN CpNone
  ELSE LET f == CHOOSE x \in Missing(m, frame) : TRUE IN [id |-> f.id, pay |-> Rest(m, frame), up |-> Addressed(m, f)]
To(frame, id) == (CHOOSE f \in ToSet(frame.members) : f.id = id).to

Sends(n, heard) ==
  /\ out[n] # <<>> /\ out' = [out EXCEPT ![n] = Tail(@)]
  /\ \E got \in {[m \in CpNode |-> IF m \in heard THEN Got(m, Head(out[n])) ELSE CpNone]} :
       /\ held' = [m \in CpNode |-> IF got[m] = CpNone THEN held[m] ELSE [held[m] EXCEPT ![got[m].id] = got[m].pay]]
       /\ up' = [m \in CpNode |-> IF got[m] = CpNone \/ ~got[m].up THEN CpNone
                   ELSE [by |-> n, id |-> got[m].id, pay |-> got[m].pay, to |-> To(Head(out[n]), got[m].id),
                         coded |-> Len(Head(out[n]).members) > 1]]
  /\ UNCHANGED <<members, nextId, pending, holds, cpFailures>>

\* An error ends the flush: the frames it had taken from the coder are gone.
SendFails(n) ==
  /\ cpFailures < CpFailures /\ out[n] # <<>> /\ cpFailures' = cpFailures + 1
  /\ out' = [out EXCEPT ![n] = <<>>] /\ up' = Silent /\ UNCHANGED <<members, nextId, pending, holds, held>>

\* announce, and the report applied by the forwarders that hear it.
Announced(m) == HeldIds(m)
announce(m, heard) ==
  /\ \E n \in heard : ~(Announced(m) \subseteq holds[n][m])
  /\ holds' = [n \in CpSenders |-> IF n \in heard THEN [holds[n] EXCEPT ![m] = @ \cup Announced(m)] ELSE holds[n]]
  /\ up' = Silent /\ UNCHANGED <<members, nextId, pending, held, out, cpFailures>>

\* What the code presumes of its neighbours and none of it does: a node holds
\* frames before the forwarder sends them, under the numbers the forwarder gave
\* them.  The tests put them there by hand.  Bound: a node overhears first of all.
Overhears(m, n, ids) ==
  /\ m \in CpOverhear \ {n} /\ HeldIds(m) = {} /\ ids # {} /\ ids \subseteq {pending[n][i].id : i \in DOMAIN pending[n]}
  /\ held' = [held EXCEPT ![m] = [id \in Id |-> IF id \in ids THEN Native(n, id) ELSE @[id]]]
  /\ up' = Silent /\ UNCHANGED <<members, nextId, pending, holds, out, cpFailures>>

CpNext ==
  \/ \E n \in CpSenders :
       \/ flush(n) \/ SendFails(n)
       \/ \E m \in CpNode : enqueue(n, m) \/ \E ids \in SUBSET Id : Overhears(m, n, ids)
       \/ \E S \in SUBSET (CpNode \ {n}) : Sends(n, S)
       \/ \E desired \in CpMembers : sync_neighbors(n, desired)
  \/ \E m \in CpNode : \E heard \in SUBSET (CpSenders \ {m}) : announce(m, heard)

CpSpec == CpInit /\ [][CpNext]_cpVars

(* ------------------------------- properties ------------------------------- *)
\* Types of the state: the ids in flight are of different frames, in order.
CpTypeOK ==
  \A n \in CpSenders :
    /\ nextId[n] \in 1 .. CpIds + 1
    /\ \A i, j \in DOMAIN pending[n] : i < j => pending[n][i].id < pending[n][j].id
    /\ \A i \in DOMAIN pending[n] : /\ pending[n][i].id < nextId[n] /\ pending[n][i].to # n
         /\ \A j \in DOMAIN out[n] : \A f \in ToSet(out[n][j].members) : f.id < pending[n][i].id

\* "Each recipient, having overheard the other natives, XORs them back out":
\* every recipient of a coded frame holds each of the others of it, and what it
\* holds is the frame that was summed.  True where one link numbers all frames:
\* a node reports the numbers it holds, whoever gave them.
EveryRecipientDecodes ==
  \A n \in CpSenders : \A i \in DOMAIN out[n] : \A f, g \in ToSet(out[n][i].members) :
    f # g => held[g.to][f.id] = Native(n, f.id)

\* The decode gain is no mis-delivery: what is delivered out of a coded frame
\* was for this node.
NoMisdelivery == \A m \in CpNode : up[m] # CpNone => (up[m].coded => up[m].to = m)

\* "The recovered native is whatever signed packet it always was": what is held,
\* delivered up and used to take other sums apart, is a native as it was
\* enqueued, never a sum.  True where one link numbers all frames, and false of
\* two that both send (cope_face.rs:75, 129).
NativesAsEnqueued ==
  \A m \in CpNode : \A id \in Id : held[m][id] # CpNone => \E n \in CpSenders : held[m][id] = Native(n, id)

\* Around one forwarder, sums are made so that they are taken apart, and only
\* natives come out.
CopeInv == CpTypeOK /\ EveryRecipientDecodes /\ NoMisdelivery /\ NativesAsEnqueued
=============================================================================
