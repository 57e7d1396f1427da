----------------------------- MODULE CodedObject -----------------------------
(* An object in K source and N - K parity segments, each a Data of its own, and *)
(* a fetcher that asks for them through a window until any K are in            *)
(* (segmenter.rs, assembler.rs, metadata.rs, endpoint.rs).                     *)
EXTENDS Arith, Sequences, FiniteSets, SequencesExt

CONSTANTS
  CoK, CoN, CoNone, Incomplete,
  CoWindow, CoSegTimeout, CoTotal,   \* FetchConfig, in ticks
  CoLengths,                         \* lengths of payloads
  CoLosses,                          \* bound: Interests or Data lost
  CoRepublishes,                     \* bound: objects published again under the name
  CoStrays,                          \* bound: Data of another object on the connection
  SlowAnswers                        \* answers may take longer than the segment timeout

ASSUME CoAssumption ==
  /\ CoK \in Nat \ {0} /\ CoN \in CoK .. 255 /\ CoWindow \in Nat \ {0}
  /\ CoSegTimeout \in Nat \ {0} /\ CoTotal \in Nat \ {0}

VARIABLES
  size,          \* length of the payload
  gen,           \* generation that the producer serves
  next, outstanding, seen,
  asm,           \* CodedAssembler's State, or CoNone
  asked, flying, \* Interests and Data on their way
  coClock, waited,
  result,        \* what fetch returned, or CoNone
  coLost, strays

coVars == <<size, gen, next, outstanding, seen, asm, asked, flying, coClock, waited, result, coLost, strays>>

Segment == 0 .. CoN - 1

(* -------------------------------- the segments ---------------------------- *)
Bytes8(g, len) == [i \in 1 .. len |-> <<g, i>>]
CeilDiv(a, b) == (a + b - 1) \div b
SegLenOf(len) == IF len = 0 THEN 1 ELSE CeilDiv(len, CoK)
Padding(len) == CoK * SegLenOf(len) - len
\* segment_payload: K segments of one length, filled up with zeros.
Source(g, len, j) == [i \in 1 .. SegLenOf(len) |-> LET at == j * SegLenOf(len) + i IN IF at <= len THEN Bytes8(g, len)[at] ELSE 0]
\* recover_payload: the sources in a row, less the padding.
Joined(g, len, pad) ==
  LET all == FlattenSeq([j \in 1 .. CoK |-> Source(g, len, j - 1)])
  IN IF pad >= Len(all) THEN <<>> ELSE SubSeq(all, 1, Len(all) - pad)

CoInit ==
  /\ size \in CoLengths /\ gen = 1
  /\ next = (IF CoWindow < CoN THEN CoWindow ELSE CoN) /\ outstanding = next /\ seen = {} /\ asm = CoNone
  /\ asked = 0 .. next - 1 /\ flying = {} /\ coClock = 0 /\ waited = 0 /\ result = CoNone /\ coLost = 0 /\ strays = 0

Running == result = CoNone
fetcher == <<next, outstanding, seen, asm, waited, result>>

(* --------------------------- producer and network ------------------------- *)
\* serve_object answers what its table holds, and drops the rest.
Answers(i) ==
  /\ i \in asked /\ asked' = asked \ {i}
  /\ flying' = IF i \in Segment THEN flying \cup {[gen |-> gen, index |-> i]} ELSE flying
  /\ UNCHANGED <<size, gen, fetcher, coClock, coLost, strays>>
\* Another payload, of the same length, served under the name.
Republishes == gen <= CoRepublishes /\ gen' = gen + 1 /\ UNCHANGED <<size, fetcher, asked, flying, coClock, coLost, strays>>
Loses ==
  /\ coLost < CoLosses /\ coLost' = coLost + 1
  /\ \/ \E i \in asked : asked' = asked \ {i} /\ UNCHANGED flying
     \/ \E d \in flying : flying' = flying \ {d} /\ UNCHANGED asked
  /\ UNCHANGED <<size, gen, fetcher, coClock, strays>>
Strays ==
  /\ strays < CoStrays /\ strays' = strays + 1
  /\ \E i \in Segment : flying' = flying \cup {[gen |-> 0, index |-> i]}
  /\ UNCHANGED <<size, gen, fetcher, asked, coClock, coLost>>

(* -------------------------------- the fetcher ----------------------------- *)
\* ensure_state: the first segment says which generation it is.
Agrees_any(d) == TRUE
Agrees(d) == asm = CoNone \/ asm.gen = d.gen
\* absorb_content, of an index not seen before: any K decode (ErasureCode).
Absorbed(d) == IF asm = CoNone THEN [gen |-> d.gen, pad |-> Padding(size), held |-> {d}] ELSE [asm EXCEPT !.held = @ \cup {d}]
Complete(a) == Cardinality(a.held) >= CoK
\* Rows of two objects solve to neither.
Recovers(a) == IF \E d, e \in a.held : d.gen # e.gen THEN <<CoNone>> ELSE Joined((CHOOSE d \in a.held : TRUE).gen, size, a.pad)

\* One more Interest, for an index never asked for before.
Asks(left) ==
  IF next < CoN THEN next' = next + 1 /\ outstanding' = left + 1 /\ asked' = asked \cup {next}
  ELSE UNCHANGED <<next, asked>> /\ outstanding' = left

\* The top of the loop, after what a Data or a timeout changed.
NothingLeft(left, upto) == left = 0 /\ upto >= CoN
GotData(d) ==
  /\ Running /\ d \in flying /\ flying' = flying \ {d} /\ seen' = seen \cup {d.index} /\ waited' = 0
  /\ LET left == IF outstanding = 0 THEN 0 ELSE outstanding - 1
         taken == d.index \notin seen /\ Agrees(d)
     IN /\ asm' = IF taken THEN Absorbed(d) ELSE asm
        /\ IF taken /\ Complete(Absorbed(d))
           THEN result' = Recovers(Absorbed(d)) /\ outstanding' = left /\ UNCHANGED <<next, asked>>
           ELSE /\ Asks(left)
                /\ result' = IF NothingLeft(left, next) THEN Incomplete ELSE CoNone
  /\ UNCHANGED <<size, gen, coClock, coLost, strays>>

\* timeout: the segment's, or what is left to the deadline if that is shorter.
Overfetches == Asks(outstanding)
TimesOut ==
  /\ Running /\ waited >= CoSegTimeout /\ coClock < CoTotal /\ waited' = 0 /\ Overfetches
  /\ result' = IF NothingLeft(outstanding, next) THEN Incomplete ELSE CoNone
  /\ UNCHANGED <<size, gen, seen, asm, flying, coClock, coLost, strays>>
PastDeadline == coClock >= CoTotal
Expires ==
  /\ Running /\ PastDeadline /\ result' = Incomplete
  /\ UNCHANGED <<size, gen, next, outstanding, seen, asm, waited, asked, flying, coClock, coLost, strays>>

CoTick ==
  /\ Running /\ coClock < CoTotal /\ waited < CoSegTimeout
  /\ SlowAnswers \/ (asked = {} /\ flying = {})
  /\ coClock' = coClock + 1 /\ waited' = waited + 1
  /\ UNCHANGED <<size, gen, next, outstanding, seen, asm, result, asked, flying, coLost, strays>>

CoNext ==
  \/ Republishes \/ Loses \/ Strays \/ TimesOut \/ Expires \/ CoTick
  \/ \E i \in asked : Answers(i)
  \/ \E d \in flying : GotData(d)

\* The runtime runs the fetch and its timers.
CoFair == WF_coVars(TimesOut) /\ WF_coVars(Expires) /\ WF_coVars(CoTick) /\ WF_coVars(\E d \in flying : GotData(d)) /\ WF_coVars(\E i \in asked : Answers(i))
CoSpec == CoInit /\ [][CoNext]_coVars

(* ------------------------------- properties ------------------------------- *)
\* Types of the state: each index is asked for at most once, and what is held is
\* of one generation.
CoTypeOK ==
  /\ next \in 0 .. CoN /\ asked \subseteq 0 .. next - 1 /\ outstanding \in 0 .. next
  /\ coClock <= CoTotal /\ waited <= CoSegTimeout
  /\ asm # CoNone => \A d \in asm.held : d.gen = asm.gen

\* "Recover the original payload": what fetch returns is one whole payload, of
\* whatever length, never parts of two: that of the generation whose segment it
\* took first.  Nothing says that this is the object asked for (assembler.rs:67).
ReturnsOnePayload == result \notin {CoNone, Incomplete} => result = Bytes8(asm.gen, size)

\* "Once any K of the N segments decode", and strays are ignored: a fetch that
\* took a segment of the object first succeeds, unless losses and strays leave too
\* little.  A stray takes an index from the object and an answer from the count
\* of those awaited (endpoint.rs:237-240), so each costs as much as two losses.
\* With a stray first it is the object that is ignored, and no bound holds.
Locked == asm # CoNone /\ asm.gen = 0
SurvivesTheLosses ==
  result = Incomplete => Larger(coLost, strays) + strays > CoN - CoK \/ gen > 1 \/ Locked

\* A fetch ends, whatever is lost.
FetchEnds == <>~Running
=============================================================================
