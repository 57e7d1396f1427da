----------------------------- MODULE ErasureCode -----------------------------
(* The field of 256 elements, and the systematic erasure code over it.          *)
EXTENDS Integers, Sequences, FiniteSets

(* Arithmetic of the field of 256 elements (field.rs): the product by shifts   *)
(* and sums, the tables of logarithms that build_tables fills, the inverse and *)
(* powers read from them, and how each kernel of mul_add goes through a buffer. *)
CONSTANT REDUCE   \* low byte of the polynomial

Byte == 0 .. 255

\* Sum of two elements: the exclusive or, a nibble at a time.
XorBits[a, b \in 0 .. 15] ==
  IF a = 0 THEN b ELSE IF b = 0 THEN a ELSE 2 * XorBits[a \div 2, b \div 2] + ((a + b) % 2)
XorTable == [a, b \in 0 .. 15 |-> XorBits[a, b]]
Xor(a, b) == 16 * XorTable[a \div 16, b \div 16] + XorTable[a % 16, b % 16]

\* a times 2: shifted, and reduced when the high bit falls out.
Doubled(a) == IF a >= 128 THEN Xor((2 * a) % 256, REDUCE) ELSE 2 * a
mul_peasant(a, b) ==
  LET r[i \in 0 .. 8, x \in Byte, y \in Byte] ==
        IF i = 8 THEN 0 ELSE LET rest == r[i + 1, Doubled(x), y \div 2] IN IF y % 2 = 1 THEN Xor(x, rest) ELSE rest
  IN r[0, a, b]

VARIABLES
  slot,         \* the iteration of build_tables
  power,        \* x of that loop
  log, exp      \* Tables

gfVars == <<slot, power, log, exp>>

GfInit == slot = 0 /\ power = 1 /\ log = [x \in Byte |-> 0] /\ exp = [i \in 0 .. 509 |-> 0]

\* build_tables: 255 iterations, then the first half copied after itself.
Fill ==
  /\ slot < 255
  /\ exp' = [exp EXCEPT ![slot] = power] /\ log' = [log EXCEPT ![power] = slot]
  /\ power' = mul_peasant(power, 2) /\ slot' = slot + 1
Copies ==
  /\ slot = 255 /\ slot' = 256 /\ exp' = [i \in 0 .. 509 |-> exp[i % 255]]
  /\ UNCHANGED <<power, log>>

GfNext == Fill \/ Copies
GfSpec == GfInit /\ [][GfNext]_gfVars

inv(a) == IF a = 0 THEN 0 ELSE exp[255 - log[a]]
pow(base, e) == IF e = 0 THEN 1 ELSE IF base = 0 THEN 0 ELSE exp[(log[base] * e) % 255]

\* build_nibble_tables: the products of the low and of the high nibble.
Nibbles(c) == [lo |-> [x \in 0 .. 15 |-> mul_peasant(c, x)], hi |-> [x \in 0 .. 15 |-> mul_peasant(c, 16 * x)]]

(* --------------------------------- the kernels ---------------------------- *)
\* Positions that a kernel reaches, as intervals [from, to), in order.
Chunks(from, len, width) == [i \in 1 .. (len - from) \div width |-> [from |-> from + width * (i - 1), to |-> from + width * i]]
Bytes(from, len) == IF from < len THEN <<[from |-> from, to |-> len]>> ELSE <<>>
Wide(from, len) == Chunks(from, len, 16) \o Bytes(from + 16 * ((len - from) \div 16), len)
\* avx2_inner: chunks of 32, and what is left by the narrower kernel if it has
\* at least one of its chunks.
Widest(len) ==
  LET at == 32 * (len \div 32)
  IN Chunks(0, len, 32) \o (IF len - at >= 16 THEN Wide(at, len) ELSE Bytes(at, len))
Kernels(len) == {Bytes(0, len), Wide(0, len), Widest(len)}

(* ------------------------------- properties ------------------------------- *)
Built == slot = 256

\* "2 is primitive over this polynomial": the loop meets no element twice before
\* the end, and ends at 1, which build_tables asserts.
GeneratorIsPrimitive ==
  /\ slot < 255 => \A i \in 0 .. slot - 1 : exp[i] # power
  /\ slot >= 255 => power = 1 /\ \A x \in Byte \ {0} : exp[log[x]] = x

\* The two tables and the shifts agree: inverses, powers, products.
TablesAgree ==
  Built => \A a \in Byte \ {0} :
    /\ mul_peasant(a, inv(a)) = 1 /\ inv(a) = pow(a, 254)
    /\ \A e \in {1, 2, 3, 254, 255, 256} : pow(a, e + 1) = mul_peasant(a, pow(a, e))

\* The products of the nibble tables are those of the shifts, for the element
\* the loop is at and every other.
NibblesAgree ==
  slot > 0 => \E t \in {Nibbles(power)} : \A b \in Byte :
    Xor(t.lo[b % 16], t.hi[b \div 16]) = mul_peasant(power, b)

\* Every kernel adds to every byte of a buffer of this length exactly once.
EveryByteOnce ==
  \A spans \in Kernels(slot) : \A i \in 0 .. slot - 1 :
    \E s \in DOMAIN spans : /\ i \in spans[s].from .. spans[s].to - 1
                            /\ \A q \in DOMAIN spans : i \in spans[q].from .. spans[q].to - 1 => q = s

\* The tables are the field, and the kernels apply them to every byte.
FieldInv == GeneratorIsPrimitive /\ TablesAgree /\ NibblesAgree /\ EveryByteOnce

----------------------------------------------------------------------------
(* The systematic code of fec.rs: K segments, N - K sums of them with Cauchy   *)
(* coefficients, and a decoder that keeps its rows reduced as they come in.  A *)
(* segment is one byte and a length.                                           *)

CONSTANTS
  FcK, FcN, FcNone,
  FcBytes,      \* FcBytes[j]: the byte of source j
  FcForeign     \* bound: segments of another length that are absorbed

ASSUME FcAssumption == FcK \in Nat \ {0} /\ FcN \in FcK .. 255 /\ FcForeign \in Nat

VARIABLES
  fed,          \* segments fed to the encoder
  segLen,       \* Decoder::seg_len, or FcNone
  rows,         \* Decoder::rows: [coeffs, payload] at its pivot, or FcNone
  rank,
  absorbed,     \* history: indices absorbed
  foreign       \* history: segments of another length

fcVars == <<fed, segLen, rows, rank, absorbed, foreign>>
Column == 0 .. FcK - 1
SegLen == 1

FcInit ==
  /\ fed = 0 /\ segLen = FcNone /\ rank = 0 /\ absorbed = {} /\ foreign = 0
  /\ rows = [c \in Column |-> FcNone]

\* field::inv, as a^254 (which the tables agree with, and cost more to rebuild).
Inverse8 ==
  [a \in Byte |->
     LET square[i \in 0 .. 7] == IF i = 0 THEN a ELSE mul_peasant(square[i - 1], square[i - 1])
         upto[i \in 0 .. 7] == IF i = 0 THEN 1 ELSE mul_peasant(upto[i - 1], square[i])
     IN upto[7]]

\* row_coeffs: a source is itself, a parity the sum of all with inv(index ^ j).
row_coeffs(index) == IF index < FcK THEN [j \in Column |-> IF j = index THEN 1 ELSE 0] ELSE [j \in Column |-> Inverse8[Xor(index, j)]]
\* Encoder::parity, and a source as it was fed.
Payload(index) ==
  LET sum[j \in 0 .. FcK] == IF j = 0 THEN 0 ELSE Xor(sum[j - 1], mul_peasant(row_coeffs(index)[j - 1], FcBytes[j])) IN sum[FcK]

Feeds == fed < FcK /\ fed' = fed + 1 /\ UNCHANGED <<segLen, rows, rank, absorbed, foreign>>

\* mul_add of a row into another.
Plus8(row, other, c) ==
  [coeffs |-> [j \in Column |-> Xor(row.coeffs[j], mul_peasant(c, other.coeffs[j]))], payload |-> Xor(row.payload, mul_peasant(c, other.payload))]
Times8(row, c) == [coeffs |-> [j \in Column |-> mul_peasant(c, row.coeffs[j])], payload |-> mul_peasant(c, row.payload)]

\* absorb_row: reduced by the rows held, scaled to its pivot, and cleared from
\* the rows held.
Less(row) ==
  LET upto[c \in 0 .. FcK] == IF c = 0 THEN row
        ELSE LET r == upto[c - 1] IN IF rows[c - 1] = FcNone THEN r ELSE Plus8(r, rows[c - 1], r.coeffs[c - 1])
  IN upto[FcK]
PivotOf(row) == CHOOSE c \in Column : row.coeffs[c] # 0 /\ \A d \in Column : row.coeffs[d] # 0 => c <= d
ClearedOf_not(old, row, c) == old
ClearedOf(old, row, c) == Plus8(old, row, old.coeffs[c])
absorb_row(row) ==
  \E less \in {Less(row)} :
    IF \A c \in Column : less.coeffs[c] = 0 THEN UNCHANGED <<rows, rank>>
    ELSE \E at \in {PivotOf(less)} : \E new \in {Times8(less, Inverse8[less.coeffs[at]])} :
           /\ rows' = [c \in Column |-> IF c = at THEN new ELSE IF rows[c] = FcNone THEN FcNone ELSE ClearedOf(rows[c], new, at)]
           /\ rank' = rank + 1

\* absorb: the first segment sets the length, of whatever it is.
absorb(index, len, byte) ==
  /\ segLen \in {FcNone, len} /\ segLen' = len
  /\ absorb_row([coeffs |-> row_coeffs(index), payload |-> byte])
Absorbs8(index) ==
  /\ (index >= FcK => fed = FcK) /\ (index < FcK => index < fed)
  /\ absorb(index, SegLen, Payload(index)) /\ absorbed' = absorbed \cup {index} /\ UNCHANGED <<fed, foreign>>
AbsorbsForeign(index) ==
  /\ foreign < FcForeign /\ foreign' = foreign + 1
  /\ absorb(index, SegLen + 1, 0) /\ absorbed' = absorbed \cup {index} /\ UNCHANGED fed

FcNext == Feeds \/ \E index \in 0 .. FcN - 1 : Absorbs8(index) \/ AbsorbsForeign(index)
FcSpec == FcInit /\ [][FcNext]_fcVars

(* ------------------------------- properties ------------------------------- *)
\* "Any k of n": k different segments decode, fewer do not, and a segment heard
\* again adds nothing.
AnyKDecode == rank = IF Cardinality(absorbed) < FcK THEN Cardinality(absorbed) ELSE FcK

\* recover returns the sources; before that, a source that is held is at its row.
RecoversTheSources ==
  foreign = 0 => \A c \in Column :
    (rows[c] # FcNone /\ (rank = FcK \/ \A j \in Column \ {c} : rows[c].coeffs[j] = 0)) => rows[c].payload = FcBytes[c + 1]

\* The rows stay reduced, which is what lets a row be reduced in one pass.
RowsStayReduced ==
  \A c \in Column : rows[c] # FcNone =>
    /\ rows[c].coeffs[c] = 1
    /\ \A d \in Column \ {c} : rows[d] # FcNone => rows[c].coeffs[d] = 0

\* Any K of the N segments are the object.
ErasureInv == AnyKDecode /\ RecoversTheSources /\ RowsStayReduced
=============================================================================
