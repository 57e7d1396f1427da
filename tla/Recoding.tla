------------------------------ MODULE Recoding ------------------------------
(* A generation of K source symbols, coded and recoded on the way (recode.rs,  *)
(* recode/linalg.rs, recode/wire.rs, recode_face.rs, recode_compute.rs): what  *)
(* a node holds, what it mints of it, and what it recovers.  The field has     *)
(* four elements instead of 256, K = 2, and the source symbols are the two unit *)
(* vectors, so that a packet says the truth when its payload is its vector.     *)
EXTENDS Integers, Sequences, FiniteSets, SequencesExt

CONSTANTS
  RcNode,
  RcNone,
  RcVectors,       \* coding vectors of what the producer sends
  RcDamage,        \* what an error adds to a payload
  RcSeeds,         \* fingerprint rows r
  RcPolicies,      \* recode policies of the generation
  RcModes,         \* fingerprints: none, shown with the descriptor, or a hash of the row only
  RcHear,          \* nodes that hear the producer; the others hear recoders
  RcLimits,        \* [budget |-> b, threshold |-> t] of each buffer, 0 for none
  RcFaults         \* bound: packets damaged, or of another shape

ASSUME RcAssumption == RcFaults \in Nat /\ RcNone \notin RcNode

(* --------------------------------- the field ------------------------------ *)
GF4 == 0 .. 3
Plus == [a, b \in GF4 |-> IF a = b THEN 0 ELSE IF a = 0 THEN b ELSE IF b = 0 THEN a ELSE 6 - a - b]
Times == [a, b \in GF4 |-> IF a = 0 \/ b = 0 THEN 0 ELSE ((a + b - 2) % 3) + 1]
Inverted(a) == ((4 - a) % 3) + 1
Scaled(c, row) == [i \in DOMAIN row |-> Times[c, row[i]]]
PlusRow(row, other) == [i \in DOMAIN row |-> Plus[row[i], other[i]]]

K == 2
Index == 1 .. K
RowOf == [Index -> GF4]
Zero == [i \in Index |-> 0]
Unit(s) == [i \in Index |-> IF i = s THEN 1 ELSE 0]
Sources == [s \in Index |-> Unit(s)]
\* The sum of c[i] times rows[i], and of c[i] times r[i].
Sigma(c, rows) == LET upto[i \in 0 .. Len(rows)] == IF i = 0 THEN Zero ELSE PlusRow(upto[i - 1], Scaled(c[i], rows[i])) IN upto[Len(rows)]
gf_dot == [c, r \in RowOf |-> LET upto[i \in 0 .. K] == IF i = 0 THEN 0 ELSE Plus[upto[i - 1], Times[c[i], r[i]]] IN upto[K]]

VARIABLES
  descriptor,   \* of the generation: policy, fingerprint mode and row
  installed,    \* nodes that hold a GenerationBuffer
  packets, pivots, attempts, rejected, quarantined,
  sources,      \* the OnceLock: what was recovered, or RcNone
  enabled,      \* the kill switch
  hurt,         \* history: buffers that have met a damaged packet
  rcFaults

bufferVars == <<packets, pivots, attempts, rejected, quarantined>>
rcVars == <<descriptor, installed, bufferVars, sources, enabled, hurt, rcFaults>>

(* ------------------------------- the descriptor --------------------------- *)
\* from_tlv refuses what is not well formed: a delegated policy needs a locator,
\* and a fingerprint has its row, or a hash of the row to be shown later.
WellFormed(d) == d.policy \in {"delegated", "local"} => d.locator
Descriptors ==
  {d \in [policy : RcPolicies, locator : BOOLEAN, mode : RcModes, r : RcSeeds] :
     WellFormed(d) /\ (d.locator => d.policy \in {"delegated", "local"})}

RcInit ==
  /\ descriptor \in Descriptors
  /\ installed = {} /\ enabled = TRUE /\ hurt = {} /\ rcFaults = 0
  /\ packets = [n \in RcNode |-> <<>>] /\ pivots = [n \in RcNode |-> <<>>]
  /\ attempts = [n \in RcNode |-> 0] /\ rejected = [n \in RcNode |-> 0]
  /\ quarantined = [n \in RcNode |-> FALSE] /\ sources = [n \in RcNode |-> RcNone]

\* A fingerprint is the row r and its product with every source.
for_sources == [r \in RowOf |-> [r |-> r, h |-> [s \in Index |-> gf_dot[r, Sources[s]]]]]
Checks(fp, p) == gf_dot[fp.r, p.payload] = gf_dot[p.vector, fp.h]

(* ---------------------------------- a basis ------------------------------- *)
\* RankBasis: a row less its part along each pivot, in the order they came.
Reduced(basis, row) == FoldLeft(LAMBDA x, pivot : PlusRow(x, Scaled(x[pivot.col], pivot.row)), row, basis)
Leading(row) == CHOOSE i \in DOMAIN row : row[i] # 0 /\ \A j \in DOMAIN row : row[j] # 0 => i <= j
Pivot(row) == [col |-> Leading(row), row |-> Scaled(Inverted(row[Leading(row)]), row)]

(* --------------------------------- recovery ------------------------------- *)
\* systematic_sources: K packets, each a unit vector, one for each source.
IsUnit(v) == \E s \in Index : v = Unit(s)
Systematic(held) ==
  IF Len(held) # K \/ (\E i \in DOMAIN held : ~IsUnit(held[i].vector)) THEN RcNone
  ELSE [s \in Index |-> LET i == CHOOSE i \in DOMAIN held : held[i].vector[s] # 0 IN held[i].payload]

\* solve_sources: [vector | payload] brought to the identity, column by column.
Cleared(r, at) == r # at
Swapped2(rows, a, b) == [rows EXCEPT ![a] = rows[b], ![b] = rows[a]]
Eliminated(rows, col) ==
  LET sel == CHOOSE r \in col .. Len(rows) : rows[r][col] # 0 /\ \A q \in col .. Len(rows) : rows[q][col] # 0 => r <= q
      swap == Swapped2(rows, col, sel)
      pivot == Scaled(Inverted(swap[col][col]), swap[col])
  IN [r \in DOMAIN rows |-> IF r = col THEN pivot
        ELSE IF Cleared(r, col) THEN PlusRow(swap[r], Scaled(swap[r][col], pivot)) ELSE swap[r]]
Solved(held) ==
  LET rows == FoldLeft(LAMBDA m, col : Eliminated(m, col), [i \in DOMAIN held |-> held[i].vector \o held[i].payload], [i \in Index |-> i])
  IN [s \in Index |-> SubSeq(rows[s], K + 1, 2 * K)]

Recovered(held) == LET direct == Systematic(held) IN IF direct # RcNone THEN direct ELSE Solved(held)
Decodable(n) == Len(pivots[n]) >= K
\* get_or_init: computed once, and kept.
recovered_sources(n) == IF sources[n] # RcNone THEN sources[n] ELSE Recovered(packets[n])
Remembered(n) == sources' = [sources EXCEPT ![n] = recovered_sources(n)]
\* decode: Ok when what was recovered hashes to the commitment.
Verified(n) == recovered_sources(n) = Sources

(* ---------------------------------- a buffer ------------------------------ *)
Afresh(n) == RcNone
\* install_generation: a buffer afresh, in the place of any other (bound: of none,
\* or of one that is quarantined).
install_generation(n) ==
  /\ (n \notin installed \/ quarantined[n]) /\ installed' = installed \cup {n}
  /\ packets' = [packets EXCEPT ![n] = <<>>] /\ pivots' = [pivots EXCEPT ![n] = <<>>]
  /\ attempts' = [attempts EXCEPT ![n] = 0] /\ rejected' = [rejected EXCEPT ![n] = 0]
  /\ quarantined' = [quarantined EXCEPT ![n] = FALSE] /\ sources' = [sources EXCEPT ![n] = Afresh(n)]
  /\ hurt' = hurt \ {n} /\ UNCHANGED <<descriptor, enabled, rcFaults>>

Exhausted(n) == RcLimits[n].budget # 0 /\ attempts[n] >= RcLimits[n].budget
\* Attempts are only read against a budget.
Attempted(n) == attempts' = [attempts EXCEPT ![n] = IF RcLimits[n].budget = 0 THEN 0 ELSE @ + 1]
Refused(p) == descriptor.mode = "shown" /\ ~Checks(for_sources[descriptor.r], p)
Quarantines(n) == RcLimits[n].threshold # 0 /\ rejected[n] + 1 >= RcLimits[n].threshold
Rejects(n) ==
  /\ rejected' = [rejected EXCEPT ![n] = @ + 1]
  /\ quarantined' = [quarantined EXCEPT ![n] = Quarantines(n)]
  /\ UNCHANGED <<packets, pivots>>
Absorbs(n, p) ==
  /\ \E row \in {Reduced(pivots[n], p.vector)} :
       /\ packets' = IF row = Zero THEN packets ELSE [packets EXCEPT ![n] = Append(@, p)]
       /\ pivots' = IF row = Zero THEN pivots ELSE [pivots EXCEPT ![n] = Append(@, Pivot(row))]
  /\ UNCHANGED <<rejected, quarantined>>

\* feed: absorb, in its order.  A packet of another shape counts as an attempt
\* and not as a rejection.
feed(n, p, fits) ==
  /\ n \in installed
  /\ IF quarantined[n] \/ Exhausted(n) THEN UNCHANGED bufferVars
     ELSE /\ Attempted(n)
          /\ IF ~fits THEN UNCHANGED <<packets, pivots, rejected, quarantined>>
             ELSE IF Refused(p) THEN Rejects(n) ELSE Absorbs(n, p)

Damaged(p, e) == [p EXCEPT !.payload = PlusRow(@, e)]
\* What reaches node n of a packet on the air: itself, damaged, or another shape.
Arrives(n, p) ==
  \/ feed(n, p, TRUE) /\ UNCHANGED rcFaults /\ hurt' = IF p.payload = p.vector THEN hurt ELSE hurt \cup {n}
  \/ /\ rcFaults < RcFaults /\ rcFaults' = rcFaults + 1
     /\ \/ feed(n, p, FALSE) /\ UNCHANGED hurt
        \/ (\E e \in RcDamage : feed(n, Damaged(p, e), TRUE)) /\ hurt' = hurt \cup {n}

FromProducer(n) ==
  /\ n \in RcHear /\ \E v \in RcVectors : Arrives(n, [vector |-> v, payload |-> v])
  /\ UNCHANGED <<descriptor, installed, sources, enabled>>

(* ---------------------------------- minting ------------------------------- *)
MayRecode(n) == enabled /\ n \in installed /\ descriptor.policy # "none"

\* recode_combine: the same coefficients for the vectors and the payloads.
Combined(held, c) ==
  [vector |-> Sigma(c, [i \in DOMAIN held |-> held[i].vector]), payload |-> Sigma(c, [i \in DOMAIN held |-> held[i].payload])]
\* recode_exact: target summed over the sources.
Exactly(target, recovered) == [vector |-> target, payload |-> Sigma(target, recovered)]

\* mint of a request number past K: a sum of all that is held, with coefficients
\* that are not zero.
Sums(n) == IF Len(packets[n]) < 2 THEN {} ELSE {Combined(packets[n], c) : c \in [DOMAIN packets[n] -> GF4 \ {0}]}
\* mint of a request number below K, a source; mint_exact and NcComputeHandler,
\* the very vector asked for.
Exacts(n) == IF Decodable(n) THEN {Exactly(v, recovered) : recovered \in {recovered_sources(n)}, v \in RcVectors \cup {Unit(s) : s \in Index}} ELSE {}

FromRecoder(n, m) ==
  /\ m # n /\ n \notin RcHear /\ MayRecode(m)
  /\ \/ (\E p \in Sums(m) : Arrives(n, p)) /\ UNCHANGED sources
     \/ (\E p \in Exacts(m) : Arrives(n, p)) /\ Remembered(m)
  /\ UNCHANGED <<descriptor, installed, enabled>>

\* decode, and the answer to a challenge, which only a verified node gives.
decode(n) ==
  /\ n \in installed /\ Decodable(n) /\ sources[n] = RcNone /\ Remembered(n)
  /\ UNCHANGED <<descriptor, installed, bufferVars, enabled, hurt, rcFaults>>
answer_challenge(n, r) == IF Decodable(n) /\ Verified(n) THEN for_sources[r] ELSE RcNone

set_enabled ==
  enabled' = ~enabled /\ UNCHANGED <<descriptor, installed, bufferVars, sources, hurt, rcFaults>>

RcNext ==
  \/ \E n \in RcNode :
       install_generation(n) \/ FromProducer(n) \/ decode(n) \/ \E m \in RcNode : FromRecoder(n, m)
  \/ set_enabled

RcSpec == RcInit /\ [][RcNext]_rcVars

(* ------------------------------- properties ------------------------------- *)
\* Types of the state: a pivot for each packet, the limits, the quarantine.
RcTypeOK ==
  \A n \in RcNode :
    /\ Len(pivots[n]) = Len(packets[n]) /\ Len(packets[n]) <= K
    /\ RcLimits[n].budget # 0 => attempts[n] <= RcLimits[n].budget
    /\ quarantined[n] = (RcLimits[n].threshold # 0 /\ rejected[n] >= RcLimits[n].threshold)

\* "rank-aware": what is held is independent, so that K packets decode.
HeldAreIndependent ==
  \A n \in RcNode : \A c \in [DOMAIN packets[n] -> GF4] :
    Combined(packets[n], c).vector = Zero => \A i \in DOMAIN packets[n] : c[i] = 0

\* "Recover via Gauss elimination": what came in undamaged decodes, and without
\* elimination where that is possible, to the same.
CleanDecodes ==
  \A n \in RcNode :
    Decodable(n) => /\ n \notin hurt => Recovered(packets[n]) = Sources
                    /\ Systematic(packets[n]) \in {RcNone, Solved(packets[n])}

\* A recoder that only took what passed the fingerprint mints what passes it;
\* one that only took what is true mints what is true.
MintedAreAccepted ==
  \A n \in RcNode : \A p \in Sums(n) \cup Exacts(n) :
    /\ ~Refused(p)
    /\ n \notin hurt => p.payload = p.vector

\* Undamaged packets are never rejected, in flight, by a challenge or by the row
\* shown afterwards; and damage that is held shows under some challenge.
NoFalseAlarm ==
  \A n \in RcNode :
    LET passes(r) == \A i \in DOMAIN packets[n] : Checks(for_sources[r], packets[n][i])
    IN /\ n \notin hurt => rejected[n] = 0
       /\ packets[n] # <<>> =>
            IF n \notin hurt THEN \A r \in RowOf : passes(r)
            ELSE (\A r \in RowOf : passes(r)) => \A i \in DOMAIN packets[n] : packets[n][i].payload = packets[n][i].vector

\* What was recovered once is what would be recovered now.
CacheIsCurrent == \A n \in RcNode : sources[n] # RcNone => Decodable(n) /\ sources[n] = Recovered(packets[n])

\* A buffer decodes to the sources, mints what others accept, and tells damage.
RecodingInv == RcTypeOK /\ HeldAreIndependent /\ CleanDecodes /\ MintedAreAccepted /\ NoFalseAlarm /\ CacheIsCurrent
=============================================================================
