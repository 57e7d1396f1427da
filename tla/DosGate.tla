------------------------------ MODULE DosGate -------------------------------
(* The admission cascade for received Interests (mac/dos.rs): the registered  *)
(* groups, then a token bucket per sender and one per group, in tables of     *)
(* fixed size that keys share by hash.  (Data is admitted by a lookup that    *)
(* changes nothing.)                                                          *)
EXTENDS Arith, Sequences, FiniteSets

CONSTANTS
  Source, Group,
  Served,               \* the registered groups
  SrcSlot, GrpSlot,     \* slot: the bucket a key hashes into
  SrcCap, SrcRefill,    \* tokens a bucket holds, and gains by the ms
  GrpCap, GrpRefill,
  DosMaxMs, DosMaxFrames

ASSUME DosAssumption == SrcCap \in Nat /\ SrcRefill \in Nat /\ GrpCap \in Nat /\ GrpRefill \in Nat

VARIABLES
  dosNow,
  bySrc, byGrp,         \* buckets, NoBucket or [tokens, at]
  dosFrames,            \* frames offered so far
  admitted              \* history: Interests that reached verification, <<source, group, ms>>

dosVars == <<dosNow, bySrc, byGrp, dosFrames, admitted>>

NoBucket == [tokens |-> 0, at |-> -1]
SrcSlots == {SrcSlot[s] : s \in Source}
GrpSlots == {GrpSlot[g] : g \in Group}

\* has_token: a bucket is full when first used, gains with time, and is capped.
\* In FilledOver what is gained is not capped.
FilledOver(b, cap, refill) ==
  IF b = NoBucket THEN [tokens |-> cap, at |-> dosNow]
  ELSE [tokens |-> b.tokens + (dosNow - b.at) * refill, at |-> dosNow]
Filled(b, cap, refill) ==
  IF b = NoBucket THEN [tokens |-> cap, at |-> dosNow]
  ELSE [tokens |-> Smaller(b.tokens + (dosNow - b.at) * refill, cap), at |-> dosNow]
HasToken(b) == b.tokens >= 1
Consume(b) == IF HasToken(b) THEN [b EXCEPT !.tokens = @ - 1] ELSE b

DosInit ==
  /\ dosNow = 0 /\ dosFrames = 0 /\ admitted = <<>>
  /\ bySrc = [k \in SrcSlots |-> NoBucket] /\ byGrp = [k \in GrpSlots |-> NoBucket]

\* Each limit spends its token, whatever the other says.
AdmitSpendingBoth(s, g) ==
  LET b == Filled(bySrc[SrcSlot[s]], SrcCap, SrcRefill)
      c == Filled(byGrp[GrpSlot[g]], GrpCap, GrpRefill)
  IN /\ bySrc' = [bySrc EXCEPT ![SrcSlot[s]] = Consume(b)]
     /\ byGrp' = [byGrp EXCEPT ![GrpSlot[g]] = Consume(c)]
     /\ admitted' = IF HasToken(b) /\ HasToken(c) THEN Append(admitted, <<s, g, dosNow>>) ELSE admitted

\* The group is looked at only when the sender has a token; both are spent or none.
AdmitInterest(s, g) ==
  LET b == Filled(bySrc[SrcSlot[s]], SrcCap, SrcRefill)
      c == Filled(byGrp[GrpSlot[g]], GrpCap, GrpRefill)
      ok == HasToken(b) /\ HasToken(c)
  IN /\ bySrc' = [bySrc EXCEPT ![SrcSlot[s]] = IF ok THEN Consume(b) ELSE b]
     /\ byGrp' = [byGrp EXCEPT ![GrpSlot[g]] = IF ~HasToken(b) THEN @ ELSE IF ok THEN Consume(c) ELSE c]
     /\ admitted' = IF ok THEN Append(admitted, <<s, g, dosNow>>) ELSE admitted

admit(s, g) ==
  /\ dosFrames < DosMaxFrames /\ dosFrames' = dosFrames + 1
  /\ IF g \in Served THEN AdmitInterest(s, g) ELSE UNCHANGED <<bySrc, byGrp, admitted>>
  /\ UNCHANGED dosNow

DosTick == dosNow < DosMaxMs /\ dosNow' = dosNow + 1 /\ UNCHANGED <<bySrc, byGrp, dosFrames, admitted>>

DosNext ==
  \/ \E s \in Source, g \in Group : admit(s, g)
  \/ DosTick
DosSpec == DosInit /\ [][DosNext]_dosVars

(* ------------------------------ properties ------------------------------- *)
\* Types of the state.
DosTypeOK ==
  /\ \A k \in SrcSlots : bySrc[k].tokens \in 0 .. SrcCap /\ bySrc[k].at \in -1 .. dosNow
  /\ \A k \in GrpSlots : byGrp[k].tokens \in 0 .. GrpCap /\ byGrp[k].at \in -1 .. dosNow

\* What a bucket holds after, and when, the last of the Interests of h at the
\* places in `mine`, had it seen no others; it is full before the first.
Ledger(h, mine, cap, refill) ==
  LET L[i \in 0 .. Len(h)] ==
        IF i = 0 THEN [tokens |-> cap, at |-> 0]
        ELSE IF i \notin mine THEN L[i - 1]
        ELSE [tokens |-> Smaller(L[i - 1].tokens + (h[i][3] - L[i - 1].at) * refill, cap) - 1, at |-> h[i][3]]
  IN L[Len(h)]
SrcUses(k) == {i \in DOMAIN admitted : SrcSlot[admitted[i][1]] = k}
GrpUses(k) == {i \in DOMAIN admitted : GrpSlot[admitted[i][2]] = k}

\* A frame that is refused costs nothing: every budget stands where the admitted
\* Interests alone would have left it, however many were refused in between by
\* the other limit and whoever sent them.
StandsAt(b, e, cap, refill) == b # NoBucket => b.tokens = Smaller(e.tokens + (b.at - e.at) * refill, cap)
RefusalsCostNothing ==
  /\ \A k \in SrcSlots : StandsAt(bySrc[k], Ledger(admitted, SrcUses(k), SrcCap, SrcRefill), SrcCap, SrcRefill)
  /\ \A k \in GrpSlots : StandsAt(byGrp[k], Ledger(admitted, GrpUses(k), GrpCap, GrpRefill), GrpCap, GrpRefill)

\* Over any stretch of time a sender, and all senders of a group together, get
\* no more Interests verified than a full bucket and its refill.
WorkIsBounded ==
  \A i, j \in DOMAIN admitted : i <= j =>
    LET span == admitted[j][3] - admitted[i][3]
        Of(f, k) == Cardinality({m \in i .. j : admitted[m][f] = k})
    IN /\ \A s \in Source : Of(1, s) <= SrcCap + span * SrcRefill
       /\ \A g \in Group : Of(2, g) <= GrpCap + span * GrpRefill
       /\ \A m \in i .. j : admitted[m][2] \in Served

\* The gate's whole promise: its budgets are exact and bound the work.
DosInv == DosTypeOK /\ RefusalsCostNothing /\ WorkIsBounded
=============================================================================
