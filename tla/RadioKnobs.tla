----------------------------- MODULE RadioKnobs -----------------------------
(* How a plan reaches a radio (medium.rs: apply_knobs, MediumActuator): only  *)
(* knobs that changed are written, a refused write is tried again, transmit   *)
(* power has two scales.  `csd` stands for the knobs with a default, `channel`  *)
(* for those that a plan may leave out (gain, carrier sense, MIMO).           *)
EXTENDS Arith, FiniteSets

CONSTANTS
  None,
  KnChannel,                \* values plans ask for
  KnDbm, KnIndex,           \* powers plans ask for, on either scale
  DbmLo, DbmHi,             \* tx_power_dbm of the capability
  IdxLo, IdxHi,             \* min_tx_power, max_tx_power
  HasDbm,                   \* the radio has a dBm scale
  FwDbm,                    \* and applies no more than this
  KnMaxPlans, KnFaults, KnHops  \* bounds on plans, refused writes and hops

ASSUME KnobsAssumption ==
  /\ {DbmLo, DbmHi, IdxLo, IdxHi, FwDbm} \subseteq Int /\ DbmLo <= DbmHi /\ IdxLo <= IdxHi
  /\ KnDbm \cup KnIndex \subseteq Int /\ HasDbm \in BOOLEAN
  /\ None \notin Int /\ None \notin BOOLEAN /\ None \notin {"dbm", "index"} \X Int

VARIABLES
  last,       \* AppliedKnobs
  radio,      \* what the radio is set to
  asked,      \* history: the plan applied last, clamped
  clean,      \* history: no write was refused in it, and no hop since
  scales,     \* history: scales on which power has been written
  plans, knFaults, hops

knobVars == <<last, radio, asked, clean, scales, plans, knFaults, hops>>

Knobs   == {"channel", "csd", "dbm", "index"}
Unset   == [channel |-> None, csd |-> None, dbm |-> None, index |-> None]
Factory == [channel |-> None, csd |-> FALSE, power |-> None]
KnPlans == [channel : KnChannel \cup {None}, csd : BOOLEAN,
            dbm : KnDbm \cup {None}, index : KnIndex \cup {None}]

\* The plan as the capability bounds it.
Bounded(p) == [p EXCEPT !.dbm = IF @ = None THEN @ ELSE Clamp(@, DbmLo, DbmHi),
                        !.index = IF @ = None THEN @ ELSE Clamp(@, IdxLo, IdxHi)]

\* One knob: written when asked for and not the value of last time, kept when
\* the radio takes it.  The variant keeps it whatever the radio says.
Wants(l, p, k) == p[k] # None /\ l[k] # p[k]
Kept_always(l, p, k, no) == IF Wants(l, p, k) THEN p[k] ELSE l[k]
Kept(l, p, k, no) == IF Wants(l, p, k) /\ k \notin no THEN p[k] ELSE l[k]
Set(p, k, no, is) == IF Wants(last, p, k) /\ k \notin no THEN p[k] ELSE is

\* Power in dBm first; the index when that is not asked or not possible.
DbmWorks(p, no) == p.dbm # None /\ (last.dbm = p.dbm \/ (HasDbm /\ "dbm" \notin no))
Written(p, no) ==
  IF DbmWorks(p, no) THEN (IF last.dbm = p.dbm THEN radio.power ELSE <<"dbm", Smaller(p.dbm, FwDbm)>>)
  ELSE IF Wants(last, p, "index") /\ "index" \notin no THEN <<"index", p.index>> ELSE radio.power

KnobsInit ==
  /\ last = Unset /\ radio = Factory /\ asked = Unset /\ clean = FALSE
  /\ scales = {} /\ plans = 0 /\ knFaults = 0 /\ hops = 0

\* apply: the writes that the radio refuses are logged, and the rest goes on.
apply_knobs ==
  /\ plans < KnMaxPlans /\ plans' = plans + 1 /\ UNCHANGED hops
  /\ \E alloc \in KnPlans, no \in SUBSET Knobs :
       LET p  == Bounded(alloc)
           no2 == no \cup (IF HasDbm THEN {} ELSE {"dbm"})
           idx == ~DbmWorks(p, no2) /\ Wants(last, p, "index")
           refused == {k \in no : IF k = "index" THEN idx ELSE IF k = "dbm" THEN HasDbm /\ Wants(last, p, k) ELSE Wants(last, p, k)}
       IN /\ refused = no /\ (no # {} => knFaults < KnFaults)
          /\ knFaults' = knFaults + (IF no = {} THEN 0 ELSE 1)
          /\ last' = [k \in Knobs |-> IF k = "index" /\ ~idx THEN last[k] ELSE Kept(last, p, k, no2)]
          /\ radio' = [channel |-> Set(p, "channel", no, radio.channel), csd |-> Set(p, "csd", no, radio.csd),
                       power |-> Written(p, no2)]
          /\ asked' = p /\ clean' = (no = {})
          /\ scales' = scales \cup (IF radio'.power = radio.power THEN {} ELSE {radio'.power[1]})

\* FaceScheduler::retune writes the channel past the cache.
Hop ==
  /\ hops < KnHops /\ hops' = hops + 1
  /\ \E ch \in KnChannel \ {radio.channel} : radio' = [radio EXCEPT !.channel = ch]
  /\ clean' = FALSE /\ UNCHANGED <<last, asked, scales, plans, knFaults>>

KnobsNext == apply_knobs \/ Hop
KnobsSpec == KnobsInit /\ [][KnobsNext]_knobVars

(* ------------------------------ properties ------------------------------- *)
PowersOf(p) == IF p.dbm # None /\ HasDbm THEN {<<"dbm", Smaller(p.dbm, FwDbm)>>}
               ELSE IF p.index # None THEN {<<"index", p.index>>} ELSE {radio.power}

\* Types of the state: what the cache holds of either power is in its range, and
\* stands for a power the radio has been given.
KnobsTypeOK ==
  /\ last.csd \in BOOLEAN \cup {None} /\ last.channel \in KnChannel \cup {None}
  /\ last.dbm \in {None} \cup DbmLo .. DbmHi /\ last.index \in {None} \cup IdxLo .. IdxHi
  /\ last.dbm # None \/ last.index # None => radio.power # None

\* The cache never claims more than the radio was told: what it holds is what
\* the radio is set to, after any sequence of plans and refused writes (a hop apart).
CacheIsTheRadio ==
  \A k \in {"csd"} \cup (IF hops = 0 THEN {"channel"} ELSE {}) : last[k] # None => radio[k] = last[k]

\* A plan that meets no refusal leaves the radio as it asks, whatever was
\* refused, clamped or written before; power while one scale is used.
APlanTakesEffect ==
  clean =>
    /\ asked.channel # None /\ hops = 0 => radio.channel = asked.channel
    /\ radio.csd = asked.csd
    /\ Cardinality(scales) < 2 => radio.power \in PowersOf(asked)

\* No plan takes the transmit power out of the range the radio declares.
PowerInRange ==
  radio.power # None =>
    IF radio.power[1] = "dbm" THEN radio.power[2] \in DbmLo .. DbmHi ELSE radio.power[2] \in IdxLo .. IdxHi

\* The cache tells the truth of the radio, and plans take effect.
KnobsInv == KnobsTypeOK /\ CacheIsTheRadio /\ APlanTakesEffect /\ PowerInRange

(* ------------------------- inductive invariant --------------------------- *)
\* The firmware's ceiling is a power of the range the radio declares.
CeilingInRange == DbmLo <= FwDbm

\* What either half of the cache says of the power, while only one scale has
\* been used; with both, the half written last would have to be known.
PowerOfTheScale ==
  /\ scales \subseteq {"dbm", "index"}
  /\ radio.power # None => radio.power[1] \in scales
  /\ last.dbm # None => "dbm" \in scales /\ HasDbm
  /\ last.index # None => "index" \in scales
  /\ last.dbm # None /\ "index" \notin scales => radio.power = <<"dbm", Smaller(last.dbm, FwDbm)>>
  /\ last.index # None /\ "dbm" \notin scales => radio.power = <<"index", last.index>>

KnobsIndInv ==
  KnobsInv /\ PowerOfTheScale /\ DOMAIN radio = DOMAIN Factory /\ hops \in Nat

=============================================================================
