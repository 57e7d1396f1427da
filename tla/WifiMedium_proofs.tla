------------------------- MODULE WifiMedium_proofs --------------------------
(* Three parts of the Wi-Fi medium, for any radio, plans and frames.  How a   *)
(* plan reaches the radio: the cache tells the truth of the radio, a plan     *)
(* that meets no refusal takes effect, no plan takes the power out of the     *)
(* declared range.  How frames reach the air: the batcher, which the plan and *)
(* the tear-down of the face interfere with, implements a queue and holds no  *)
(* frame longer than the window and the injections before it.  How it is      *)
(* built: one medium, whoever comes first, as configured and within its radio.*)
EXTENDS RadioKnobs, MediumPath, MediumBuild, FiniteSetTheorems, SequenceTheorems,
        WellFoundedInduction, TLAPS

(* The values a knob is given are those of plans, within the capability. *)
BoundedPlans == [channel : KnChannel \cup {None}, csd : BOOLEAN,
                 dbm : {None} \cup DbmLo .. DbmHi, index : {None} \cup IdxLo .. IdxHi]

(* What is clamped is between the bounds. *)
LEMMA ClampInRange ==
  ASSUME NEW x \in Int, NEW lo \in Int, NEW hi \in Int, lo <= hi
  PROVE  Clamp(x, lo, hi) \in lo .. hi
BY DEF Clamp, Larger, Smaller

(* A plan is within the capability after it has been bounded. *)
LEMMA BoundedInRange ==
  ASSUME NEW p \in KnPlans
  PROVE  Bounded(p) \in BoundedPlans
<1>1. /\ p.channel \in KnChannel \cup {None} /\ p.csd \in BOOLEAN
      /\ p.dbm \in KnDbm \cup {None} /\ p.index \in KnIndex \cup {None}
      /\ p = [channel |-> p.channel, csd |-> p.csd, dbm |-> p.dbm, index |-> p.index]
  BY DEF KnPlans
<1> DEFINE d == IF p.dbm = None THEN None ELSE Clamp(p.dbm, DbmLo, DbmHi)
           i == IF p.index = None THEN None ELSE Clamp(p.index, IdxLo, IdxHi)
<1>2. d \in {None} \cup DbmLo .. DbmHi /\ i \in {None} \cup IdxLo .. IdxHi
  <2>1. p.dbm # None => Clamp(p.dbm, DbmLo, DbmHi) \in DbmLo .. DbmHi
    BY <1>1, ClampInRange, KnobsAssumption
  <2>2. p.index # None => Clamp(p.index, IdxLo, IdxHi) \in IdxLo .. IdxHi
    BY <1>1, ClampInRange, KnobsAssumption
  <2> QED BY <2>1, <2>2
<1>3. Bounded(p) = [channel |-> p.channel, csd |-> p.csd, dbm |-> d, index |-> i]
  <2>1. [p EXCEPT !.dbm = d] = [channel |-> p.channel, csd |-> p.csd, dbm |-> d, index |-> p.index]
    BY <1>1
  <2>2. Bounded(p) = [[p EXCEPT !.dbm = d] EXCEPT !.index = i]
    BY <1>1, <2>1 DEF Bounded
  <2> HIDE DEF d, i
  <2> QED BY <2>1, <2>2
<1> HIDE DEF d, i
<1> QED BY <1>1, <1>2, <1>3 DEF BoundedPlans

(* Fewer than two scales are not both. *)
LEMMA NotBothScales ==
  ASSUME NEW S \in SUBSET {"dbm", "index"}, Cardinality(S) < 2
  PROVE  ~("dbm" \in S /\ "index" \in S)
<1> SUFFICES ASSUME "dbm" \in S, "index" \in S PROVE FALSE
  OBVIOUS
<1>1. IsFiniteSet({"dbm"}) /\ Cardinality({"dbm"}) = 1
  BY FS_Singleton
<1>2. Cardinality({"dbm"} \cup {"index"}) = 2
  BY <1>1, FS_AddElement
<1>3. S = {"dbm"} \cup {"index"}
  OBVIOUS
<1> QED BY <1>2, <1>3
---------------------------------------------------------------------------
(* Before the first plan nothing is known and nothing is claimed. *)
LEMMA KnobsInitInv == KnobsInit => KnobsIndInv
<1> SUFFICES ASSUME KnobsInit PROVE KnobsIndInv
  OBVIOUS
<1>1. /\ last = Unset /\ radio = Factory /\ clean = FALSE /\ scales = {} /\ hops = 0
      /\ last.csd = None /\ last.channel = None /\ last.dbm = None /\ last.index = None
      /\ radio.power = None
  BY DEF KnobsInit, Unset, Factory
<1>2. KnobsTypeOK
  BY <1>1 DEF KnobsTypeOK
<1>3. CacheIsTheRadio
  BY <1>1 DEF CacheIsTheRadio
<1>4. APlanTakesEffect /\ PowerInRange /\ PowerOfTheScale
  BY <1>1 DEF APlanTakesEffect, PowerInRange, PowerOfTheScale
<1> QED BY <1>1, <1>2, <1>3, <1>4 DEF KnobsIndInv, KnobsInv
(* What a plan writes and what the cache keeps of it. *)
LEMMA ApplyInv ==
  ASSUME KnobsIndInv, CeilingInRange, apply_knobs
  PROVE  KnobsIndInv'
<1>1. PICK alloc \in KnPlans, no \in SUBSET Knobs :
        LET p  == Bounded(alloc)
            no2 == no \cup (IF HasDbm THEN {} ELSE {"dbm"})
            idx == ~DbmWorks(p, no2) /\ Wants(last, p, "index")
            refused == {k \in no : IF k = "index" THEN idx ELSE IF k = "dbm" THEN HasDbm /\ Wants(last, p, k) ELSE Wants(last, p, k)}
        IN /\ refused = no /\ (no # {} => knFaults < KnFaults)
           /\ knFaults' = knFaults + (IF no = {} THEN 0 ELSE 1)
           /\ last' = [k \in Knobs |-> IF k = "index" /\ ~idx THEN last[k] ELSE Kept(last, p, k, no2)]
           /\ radio' = [channel |-> Set(p, "channel", no, radio.channel), csd |-> Set(p, "csd", no, radio.csd),
                        power |-> Written(p, no2)]
           /\ asked' = p /\ clean' = (no = {})
           /\ scales' = scales \cup (IF radio'.power = radio.power THEN {} ELSE {radio'.power[1]})
  BY DEF apply_knobs
<1>2. PICK p \in BoundedPlans : p = Bounded(alloc)
  BY BoundedInRange
<1> DEFINE no2 == no \cup (IF HasDbm THEN {} ELSE {"dbm"})
           idx == ~DbmWorks(p, no2) /\ Wants(last, p, "index")
<1>3. /\ last' = [k \in Knobs |-> IF k = "index" /\ ~idx THEN last[k] ELSE Kept(last, p, k, no2)]
      /\ radio' = [channel |-> Set(p, "channel", no, radio.channel), csd |-> Set(p, "csd", no, radio.csd),
                   power |-> Written(p, no2)]
      /\ asked' = p /\ clean' = (no = {}) /\ hops' = hops
      /\ scales' = scales \cup (IF radio'.power = radio.power THEN {} ELSE {radio'.power[1]})
  BY <1>1, <1>2 DEF apply_knobs
<1>4. /\ p.channel \in KnChannel \cup {None} /\ p.csd \in BOOLEAN /\ p.csd # None
      /\ p.dbm \in {None} \cup DbmLo .. DbmHi /\ p.index \in {None} \cup IdxLo .. IdxHi
  BY KnobsAssumption DEF BoundedPlans
<1>5. /\ last'.channel = Kept(last, p, "channel", no2)
      /\ last'.csd = Kept(last, p, "csd", no2)
      /\ last'.dbm = Kept(last, p, "dbm", no2)
      /\ last'.index = IF idx THEN Kept(last, p, "index", no2) ELSE last.index
  BY <1>3 DEF Knobs
<1>6. /\ radio'.channel = Set(p, "channel", no, radio.channel)
      /\ radio'.csd = Set(p, "csd", no, radio.csd)
      /\ radio'.power = Written(p, no2)
  BY <1>3
<1>7. ("channel" \in no2 <=> "channel" \in no) /\ ("csd" \in no2 <=> "csd" \in no)
      /\ (~HasDbm => "dbm" \in no2) /\ (no = {} /\ HasDbm => no2 = {})
      /\ ("index" \in no2 <=> "index" \in no)
  OBVIOUS
<1> HIDE DEF no2, idx
<1>8. CacheIsTheRadio'
  <2>1. last'.csd # None => radio'.csd = last'.csd
    BY <1>5, <1>6, <1>7 DEF KnobsIndInv, KnobsInv, CacheIsTheRadio, Kept, Set, Wants
  <2>2. hops' = 0 /\ last'.channel # None => radio'.channel = last'.channel
    BY <1>3, <1>5, <1>6, <1>7 DEF KnobsIndInv, KnobsInv, CacheIsTheRadio, Kept, Set, Wants
  <2> QED BY <2>1, <2>2 DEF CacheIsTheRadio
(* The three ways power goes: in dBm, by the index, or not at all. *)
<1> DEFINE Dbm == <<"dbm", Smaller(p.dbm, FwDbm)>>
           Index == <<"index", p.index>>
<1>9. /\ KnobsTypeOK /\ PowerInRange /\ PowerOfTheScale
  BY DEF KnobsIndInv, KnobsInv
<1>10. \/ /\ p.dbm # None /\ last.dbm = p.dbm /\ last'.dbm = last.dbm /\ last'.index = last.index
          /\ radio'.power = radio.power
       \/ /\ p.dbm # None /\ HasDbm /\ last'.dbm = p.dbm /\ last'.index = last.index
          /\ radio'.power = Dbm
       \/ /\ ~DbmWorks(p, no2) /\ last'.dbm = last.dbm
          /\ Wants(last, p, "index") /\ last'.index = p.index /\ radio'.power = Index
       \/ /\ ~DbmWorks(p, no2) /\ last'.dbm = last.dbm /\ last'.index = last.index
          /\ ("index" \in no \/ ~Wants(last, p, "index")) /\ radio'.power = radio.power
  BY <1>5, <1>6, <1>7 DEF idx, DbmWorks, Written, Wants, Kept
<1> HIDE DEF Dbm, Index
<1>11. /\ (p.dbm # None => Dbm = <<"dbm", Smaller(p.dbm, FwDbm)>> /\ Smaller(p.dbm, FwDbm) \in DbmLo .. DbmHi)
       /\ (p.index # None => Index = <<"index", p.index>> /\ p.index \in IdxLo .. IdxHi)
  BY <1>4, KnobsAssumption DEF CeilingInRange, Smaller, Dbm, Index
<1>12. /\ (p.dbm # None => Dbm # None /\ Dbm[1] = "dbm" /\ Dbm[2] \in DbmLo .. DbmHi)
       /\ (p.index # None => Index # None /\ Index[1] = "index" /\ Index[2] \in IdxLo .. IdxHi)
  <2>1. DbmLo .. DbmHi \subseteq Int /\ IdxLo .. IdxHi \subseteq Int
    BY KnobsAssumption
  <2>2. p.dbm # None => Dbm \in {"dbm", "index"} \X Int
    BY <1>11, <2>1
  <2>3. p.index # None => Index \in {"dbm", "index"} \X Int
    BY <1>11, <2>1
  <2> QED BY <1>11, <2>2, <2>3, KnobsAssumption
<1>13. Wants(last, p, "index") => p.index # None
  BY DEF Wants
<1>14. PowerOfTheScale'
  <2>1. CASE radio'.power = radio.power /\ last'.dbm = last.dbm /\ last'.index = last.index
    BY <1>3, <1>9, <2>1 DEF PowerOfTheScale
  <2>2. CASE /\ p.dbm # None /\ HasDbm /\ last'.dbm = p.dbm /\ last'.index = last.index
             /\ radio'.power = Dbm
    <3>1. "dbm" \in scales' /\ scales \subseteq scales' /\ scales' \subseteq {"dbm", "index"}
      BY <1>3, <1>9, <1>12, <2>2 DEF PowerOfTheScale
    <3> QED BY <1>9, <1>11, <1>12, <2>2, <3>1 DEF PowerOfTheScale
  <2>3. CASE /\ last'.dbm = last.dbm /\ Wants(last, p, "index") /\ last'.index = p.index
             /\ radio'.power = Index
    <3>1. "index" \in scales' /\ scales \subseteq scales' /\ scales' \subseteq {"dbm", "index"}
      BY <1>3, <1>9, <1>12, <1>13, <2>3 DEF PowerOfTheScale
    <3> QED BY <1>9, <1>11, <1>12, <1>13, <2>3, <3>1 DEF PowerOfTheScale
  <2> QED BY <1>10, <2>1, <2>2, <2>3
<1>15. PowerInRange'
  BY <1>9, <1>10, <1>12, <1>13 DEF PowerInRange
<1>16. KnobsTypeOK'
  <2>1. last'.csd \in BOOLEAN \cup {None} /\ last'.channel \in KnChannel \cup {None}
    BY <1>4, <1>5, <1>9 DEF KnobsTypeOK, Kept, Wants
  <2>2. last'.dbm \in {None} \cup DbmLo .. DbmHi /\ last'.index \in {None} \cup IdxLo .. IdxHi
    BY <1>4, <1>9, <1>10 DEF KnobsTypeOK
  <2>3. last'.dbm # None \/ last'.index # None => radio'.power # None
    BY <1>9, <1>10, <1>12, <1>13 DEF KnobsTypeOK
  <2> QED BY <2>1, <2>2, <2>3 DEF KnobsTypeOK
<1>17. APlanTakesEffect'
  <2> SUFFICES ASSUME no = {} PROVE APlanTakesEffect'
    BY <1>3 DEF APlanTakesEffect
  <2>1. asked'.channel # None /\ hops' = 0 => radio'.channel = asked'.channel
    BY <1>3, <1>6 DEF Set, Wants, KnobsIndInv, KnobsInv, CacheIsTheRadio
  <2>2. radio'.csd = asked'.csd
    BY <1>3, <1>4, <1>6 DEF Set, Wants, KnobsIndInv, KnobsInv, CacheIsTheRadio
  <2>3. ASSUME Cardinality(scales') < 2 PROVE radio'.power \in PowersOf(asked)'
    <3>1. ~("dbm" \in scales' /\ "index" \in scales')
      BY <1>14, <2>3, NotBothScales DEF PowerOfTheScale
    <3>2. CASE p.dbm # None /\ HasDbm
      <4>1. DbmWorks(p, no2)
        BY <1>7, <3>2 DEF DbmWorks
      <4>2. last'.dbm = p.dbm
        BY <1>10, <4>1
      <4>3. radio'.power = <<"dbm", Smaller(p.dbm, FwDbm)>>
        BY <1>14, <3>1, <3>2, <4>2 DEF PowerOfTheScale
      <4> QED BY <1>3, <3>2, <4>3 DEF PowersOf
    <3>3. CASE ~(p.dbm # None /\ HasDbm) /\ p.index # None
      <4>1. last'.index = p.index
        BY <1>9, <1>10, <3>3 DEF Wants, PowerOfTheScale
      <4>2. radio'.power = <<"index", p.index>>
        BY <1>14, <3>1, <3>3, <4>1 DEF PowerOfTheScale
      <4> QED BY <1>3, <3>3, <4>2 DEF PowersOf
    <3>4. CASE ~(p.dbm # None /\ HasDbm) /\ p.index = None
      BY <1>3, <3>4 DEF PowersOf
    <3> QED BY <3>2, <3>3, <3>4
  <2> QED BY <2>1, <2>2, <2>3 DEF APlanTakesEffect
<1>18. DOMAIN radio' = DOMAIN Factory /\ hops' \in Nat
  BY <1>3 DEF Factory, KnobsIndInv
<1> QED BY <1>8, <1>14, <1>15, <1>16, <1>17, <1>18 DEF KnobsIndInv, KnobsInv

(* A hop writes the channel past the cache, and claims nothing. *)
LEMMA HopInv ==
  ASSUME KnobsIndInv, Hop
  PROVE  KnobsIndInv'
<1>1. PICK ch \in KnChannel : radio' = [radio EXCEPT !.channel = ch]
  BY DEF Hop
<1>2. hops' = hops + 1 /\ clean' = FALSE /\ UNCHANGED <<last, asked, scales>>
  BY DEF Hop
<1>3. DOMAIN radio = {"channel", "csd", "power"} /\ hops \in Nat
  BY DEF KnobsIndInv, Factory
<1>4. /\ radio'.csd = radio.csd /\ radio'.power = radio.power
      /\ DOMAIN radio' = DOMAIN Factory /\ hops' \in Nat /\ hops' # 0
  BY <1>1, <1>2, <1>3 DEF Factory
<1>5. KnobsTypeOK' /\ PowerInRange' /\ PowerOfTheScale'
  BY <1>2, <1>4 DEF KnobsIndInv, KnobsInv, KnobsTypeOK, PowerInRange, PowerOfTheScale
<1>6. CacheIsTheRadio' /\ APlanTakesEffect'
  BY <1>2, <1>4 DEF KnobsIndInv, KnobsInv, CacheIsTheRadio, APlanTakesEffect
<1> QED BY <1>4, <1>5, <1>6 DEF KnobsIndInv, KnobsInv

(***************************************************************************)
(* The cache is true of the radio's diversity, and of its channel until    *)
(* the first hop; an unrefused plan takes effect, on the channel until the *)
(* first hop and on the power while one scale is used; and the power stays *)
(* in the declared range: whatever sequence of plans, refused writes and   *)
(* hops, for a radio whose firmware ceiling is in that range.              *)
(***************************************************************************)
THEOREM KnobsKeepTheirWord ==
  ASSUME CeilingInRange
  PROVE  KnobsSpec => []KnobsInv
<1>1. KnobsIndInv /\ [KnobsNext]_knobVars => KnobsIndInv'
  <2> SUFFICES ASSUME KnobsIndInv, [KnobsNext]_knobVars PROVE KnobsIndInv'
    OBVIOUS
  <2>1. CASE apply_knobs
    BY <2>1, ApplyInv
  <2>2. CASE Hop
    BY <2>2, HopInv
  <2>3. CASE UNCHANGED knobVars
    BY <2>3 DEF knobVars, KnobsIndInv, KnobsInv, KnobsTypeOK, CacheIsTheRadio, APlanTakesEffect,
                PowersOf, PowerInRange, PowerOfTheScale
  <2> QED BY <2>1, <2>2, <2>3 DEF KnobsNext
<1>2. KnobsIndInv => KnobsInv
  BY DEF KnobsIndInv
<1> QED BY <1>1, <1>2, KnobsInitInv, PTL DEF KnobsSpec
---------------------------------------------------------------------------
(* The batcher implements FrameQueue. *)

(* A batch is never larger than the plan or the configuration asked for, one  *)
(* that is being injected is not empty, and nobody is on the way to a face    *)
(* that has been dropped.                                                     *)
QueueInv ==
  /\ queue \in Seq(TxFrame) /\ batch \in Seq(TxFrame)
  /\ cap \in 1 .. MaxBatch /\ Len(batch) <= cap
  /\ busy \in Int /\ (busy >= 0 => batch # << >>)
  /\ plan \in {NoRate} \cup 0 .. MaxBatch
  /\ \E S : air \in Seq(S)
  /\ down => \A f \in TxFrame : stage[f] \notin {"intent", "gate"}
  /\ DOMAIN stage = TxFrame

(* The frames of what the radio took. *)
FramesOf(q) == [i \in DOMAIN q |-> q[i].frame]

Delivered == FramesOf(air)
Waiting   == batch \o queue

(* The frames of two bursts are those of the one and those of the other. *)
LEMMA FramesOfConcat ==
  ASSUME NEW S, NEW a \in Seq(S), NEW T, NEW o \in Seq(T), NEW F, NEW b \in Seq(F),
         FramesOf(o) = b
  PROVE  FramesOf(a \o o) = FramesOf(a) \o b
<1> DEFINE R == S \cup T
           G == F \cup {a[i].frame : i \in DOMAIN a}
<1>1. a \in Seq(R) /\ o \in Seq(R) /\ b \in Seq(G)
  BY SeqMonotonic
<1>2. PICK m, k \in Nat : Len(a) = m /\ Len(o) = k /\ DOMAIN a = 1 .. m /\ DOMAIN o = 1 .. k
  BY <1>1, LenProperties
<1>3. /\ a \o o \in Seq(R) /\ Len(a \o o) = m + k /\ DOMAIN (a \o o) = 1 .. m + k
      /\ \A i \in 1 .. m + k : (a \o o)[i] = IF i <= m THEN a[i] ELSE o[i - m]
  <2>1. /\ a \o o \in Seq(R) /\ Len(a \o o) = Len(a) + Len(o)
        /\ \A i \in 1 .. Len(a) + Len(o) : (a \o o)[i] = IF i <= Len(a) THEN a[i] ELSE o[i - Len(a)]
    BY <1>1, ConcatProperties
  <2>2. DOMAIN (a \o o) = 1 .. Len(a \o o)
    BY <2>1, LenProperties
  <2> QED BY <1>2, <2>1, <2>2
<1>4. FramesOf(a) \in Seq(G) /\ Len(FramesOf(a)) = m
  BY <1>2 DEF FramesOf
<1>5. Len(b) = k /\ \A i \in 1 .. k : b[i] = o[i].frame
  BY <1>1, <1>2, LenProperties DEF FramesOf
<1>6. /\ FramesOf(a) \o b \in Seq(G) /\ Len(FramesOf(a) \o b) = m + k
      /\ \A i \in 1 .. m + k : (FramesOf(a) \o b)[i] = IF i <= m THEN FramesOf(a)[i] ELSE b[i - m]
  <2> DEFINE h == FramesOf(a)
  <2> HIDE DEF h
  <2>1. h \in Seq(G) /\ Len(h) = m
    BY <1>4 DEF h
  <2>2. /\ h \o b \in Seq(G) /\ Len(h \o b) = Len(h) + Len(b)
        /\ \A i \in 1 .. Len(h) + Len(b) : (h \o b)[i] = IF i <= Len(h) THEN h[i] ELSE b[i - Len(h)]
    BY <1>1, <2>1, ConcatProperties
  <2>3. /\ h \o b \in Seq(G) /\ Len(h \o b) = m + k
        /\ \A i \in 1 .. m + k : (h \o b)[i] = IF i <= m THEN h[i] ELSE b[i - m]
    BY <1>5, <2>1, <2>2
  <2> QED BY <2>3 DEF h
<1>7. ASSUME NEW i \in 1 .. m + k PROVE FramesOf(a \o o)[i] = (FramesOf(a) \o b)[i]
  <2>1. FramesOf(a \o o)[i] = (a \o o)[i].frame
    BY <1>3 DEF FramesOf
  <2>2. CASE i <= m
    BY <1>2, <1>3, <1>6, <2>1, <2>2 DEF FramesOf
  <2>3. CASE ~(i <= m)
    <3>1. i - m \in 1 .. k
      BY <2>3
    <3> QED BY <1>3, <1>5, <1>6, <2>1, <2>3, <3>1
  <2> QED BY <2>2, <2>3
<1>8. FramesOf(a \o o) \in Seq(G) /\ Len(FramesOf(a \o o)) = m + k
  <2>1. DOMAIN FramesOf(a \o o) = 1 .. m + k
    BY <1>3 DEF FramesOf
  <2>2. \A i \in 1 .. m + k : FramesOf(a \o o)[i] \in G
    BY <1>6, <1>7, ElementOfSeq
  <2>3. FramesOf(a \o o) = [i \in 1 .. m + k |-> FramesOf(a \o o)[i]]
    BY <2>1 DEF FramesOf
  <2> HIDE DEF G
  <2> QED BY <2>2, <2>3
<1> HIDE DEF G
<1> QED BY <1>6, <1>7, <1>8, SeqEqual

(* Nothing waits at first. *)
LEMMA QueueInvInit == TxInit => QueueInv
<1> SUFFICES ASSUME TxInit PROVE QueueInv
  OBVIOUS
<1>1. << >> \in Seq(TxFrame) /\ Len(<< >>) = 0 /\ << >> \in Seq({})
  BY EmptySeq
<1>2. MaxMsdus \in 1 .. MaxBatch
  BY TxAssumption
<1> QED BY <1>1, <1>2, TxAssumption DEF TxInit, QueueInv

(* A step that leaves what waits, the air and the refused alone, and the face *)
(* up or down, is none of the queue's.                                        *)
LEMMA QueueStutters ==
  ASSUME UNCHANGED <<air, failed, down>>, Waiting' = Waiting
  PROVE  UNCHANGED Ordered!queueVars
BY DEF Ordered!queueVars, Waiting

(* A frame past the gate is offered; the face is up, as no frame is on its    *)
(* way to a face that has been dropped.                                       *)
LEMMA SubmitOffers ==
  ASSUME QueueInv, NEW f \in TxFrame, submit(f)
  PROVE  QueueInv' /\ Ordered!Offer(f)
<1>1. /\ stage[f] = "gate" /\ stage' = [stage EXCEPT ![f] = "queued"] /\ queue' = Append(queue, f)
      /\ UNCHANGED <<batch, cap, busy, failed, air, plan, down>>
  BY DEF submit, shared
<1>2. queue \in Seq(TxFrame) /\ batch \in Seq(TxFrame) /\ ~down
  BY <1>1, TxAssumption DEF QueueInv
<1>3. queue' \in Seq(TxFrame)
  BY <1>1, <1>2
<1>4. QueueInv'
  BY <1>1, <1>2, <1>3 DEF QueueInv
<1>5. batch \o Append(queue, f) = Append(batch \o queue, f)
  <2>1. <<f>> \in Seq(TxFrame) /\ batch \o queue \in Seq(TxFrame)
    BY <1>2
  <2>2. Append(queue, f) = queue \o <<f>> /\ Append(batch \o queue, f) = (batch \o queue) \o <<f>>
    BY <1>2, <2>1, AppendIsConcat
  <2> QED BY <1>2, <2>1, <2>2, ConcatAssociative
<1>6. down = FALSE
  BY <1>1, <1>2 DEF QueueInv
<1> QED BY <1>1, <1>2, <1>4, <1>5 DEF Ordered!Offer

(* The head of the channel becomes the tail of the batch. *)
LEMMA HeadJoins ==
  ASSUME NEW b \in Seq(TxFrame), NEW q \in Seq(TxFrame), q # << >>
  PROVE  /\ Append(b, Head(q)) \in Seq(TxFrame) /\ Len(Append(b, Head(q))) = Len(b) + 1
         /\ Tail(q) \in Seq(TxFrame)
         /\ Append(b, Head(q)) \o Tail(q) = b \o q
<1>1. Head(q) \in TxFrame /\ Tail(q) \in Seq(TxFrame) /\ <<Head(q)>> \in Seq(TxFrame)
  OBVIOUS
<1>2. Append(b, Head(q)) = b \o <<Head(q)>>
  BY <1>1, AppendIsConcat
<1>3. <<Head(q)>> \o Tail(q) = q
  OBVIOUS
<1>4. (b \o <<Head(q)>>) \o Tail(q) = b \o (<<Head(q)>> \o Tail(q))
  BY <1>1, ConcatAssociative
<1>5. Append(b, Head(q)) \in Seq(TxFrame) /\ Len(Append(b, Head(q))) = Len(b) + 1
  BY <1>1
<1> QED BY <1>1, <1>2, <1>3, <1>4, <1>5

(* The first frame opens a batch of the size the plan asks for. *)
LEMMA OpenStutters ==
  ASSUME QueueInv, Open
  PROVE  QueueInv' /\ UNCHANGED Ordered!queueVars
<1>1. /\ batch = << >> /\ busy = -1 /\ queue # << >> /\ batch' = <<Head(queue)>> /\ queue' = Tail(queue)
      /\ cap' = IF plan = NoRate THEN MaxMsdus ELSE IF plan = 0 THEN 1 ELSE plan
      /\ UNCHANGED <<stage, busy, failed, air, plan, down>>
  BY DEF Open, Idle, shared
<1>2. queue \in Seq(TxFrame) /\ << >> \in Seq(TxFrame) /\ Len(<< >>) = 0
  BY DEF QueueInv
<1>3. Append(<< >>, Head(queue)) = <<Head(queue)>>
  OBVIOUS
<1>4. /\ batch' \in Seq(TxFrame) /\ Len(batch') = 1 /\ queue' \in Seq(TxFrame)
      /\ batch' \o queue' = batch \o queue
  BY <1>1, <1>2, <1>3, HeadJoins
<1>5. cap' \in 1 .. MaxBatch
  BY <1>1, TxAssumption DEF QueueInv
<1>6. QueueInv'
  BY <1>1, <1>4, <1>5 DEF QueueInv
<1> QED BY <1>1, <1>4, <1>6, QueueStutters DEF Waiting

(* A frame at hand joins the batch that has room. *)
LEMMA JoinStutters ==
  ASSUME QueueInv, Join
  PROVE  QueueInv' /\ UNCHANGED Ordered!queueVars
<1>1. /\ busy = -1 /\ Len(batch) < cap /\ queue # << >>
      /\ batch' = Append(batch, Head(queue)) /\ queue' = Tail(queue)
      /\ UNCHANGED <<stage, cap, busy, failed, air, plan, down>>
  BY DEF Join, Filling, Room, Joined, shared
<1>2. /\ batch' \in Seq(TxFrame) /\ Len(batch') = Len(batch) + 1 /\ queue' \in Seq(TxFrame)
      /\ batch' \o queue' = batch \o queue
  BY <1>1, HeadJoins DEF QueueInv
<1>3. Len(batch') <= cap
  <2>1. cap \in Int /\ Len(batch) \in Int
    BY TxAssumption DEF QueueInv
  <2> QED BY <1>1, <1>2, <2>1
<1>4. QueueInv'
  BY <1>1, <1>2, <1>3 DEF QueueInv
<1> QED BY <1>1, <1>2, <1>4, QueueStutters DEF Waiting

(* inject_batch is called on a batch that has a frame. *)
LEMMA FlushStutters ==
  ASSUME QueueInv, Flush
  PROVE  QueueInv' /\ UNCHANGED Ordered!queueVars
<1>1. batch # << >> /\ busy' = 0 /\ UNCHANGED <<stage, queue, batch, cap, failed, air, plan, down>>
  BY DEF Flush, Filling, shared
<1>2. QueueInv'
  BY <1>1 DEF QueueInv
<1> QED BY <1>1, <1>2, QueueStutters DEF Waiting

(* The batch leaves as a whole, or the radio refuses it as a whole. *)
LEMMA InjectedReleases ==
  ASSUME QueueInv, NEW ok \in BOOLEAN, Injected(ok)
  PROVE  QueueInv' /\ \E n \in 1 .. MaxBatch : n <= Len(Waiting) /\ Ordered!Release(n)
<1> DEFINE out == [i \in DOMAIN batch |-> Frame(batch[i], RateIn(batch, batch[i]), Len(batch))]
<1>1. /\ ~down /\ busy >= 0 /\ busy' = -1 /\ batch' = << >>
      /\ IF ok THEN air' = air \o out /\ UNCHANGED failed
               ELSE failed' = failed \cup ToSet(batch) /\ UNCHANGED air
      /\ stage' = [f \in TxFrame |-> IF f \notin ToSet(batch) THEN stage[f] ELSE IF ok THEN "sent" ELSE "failed"]
      /\ UNCHANGED <<queue, cap, plan, down>>
  BY DEF Injected, shared
<1>2. queue \in Seq(TxFrame) /\ batch \in Seq(TxFrame) /\ batch # << >> /\ << >> \in Seq(TxFrame)
  BY <1>1 DEF QueueInv
<1>3. PICK n \in Nat : n = Len(batch) /\ DOMAIN batch = 1 .. n
  BY <1>2, LenProperties
<1>4. n \in 1 .. MaxBatch
  <2>1. n # 0
    BY <1>2, <1>3, EmptySeq
  <2>2. cap \in 1 .. MaxBatch /\ n <= cap
    BY <1>3 DEF QueueInv
  <2> QED BY <2>1, <2>2, TxAssumption
<1>5. PICK S : air \in Seq(S)
  BY DEF QueueInv
<1>6. out \in Seq({out[i] : i \in 1 .. n}) /\ FramesOf(out) = batch
  <2>1. \A i \in 1 .. n : out[i].frame = batch[i]
    BY <1>3 DEF Frame
  <2>2. DOMAIN out = 1 .. n /\ out = [i \in 1 .. n |-> out[i]]
    BY <1>3
  <2>3. batch = [i \in 1 .. n |-> batch[i]]
    BY <1>2, <1>3, LenProperties
  <2> HIDE DEF out
  <2>4. FramesOf(out) = [i \in 1 .. n |-> out[i].frame]
    BY <2>2 DEF FramesOf
  <2>5. out \in Seq({out[i] : i \in 1 .. n})
    <3> DEFINE T == {out[i] : i \in 1 .. n}
    <3>1. \A i \in 1 .. n : out[i] \in T
      OBVIOUS
    <3> HIDE DEF T
    <3>2. [i \in 1 .. n |-> out[i]] \in [1 .. n -> T]
      BY <3>1
    <3>3. out \in Seq(T)
      BY <2>2, <3>2, SeqDef
    <3> QED BY <3>3 DEF T
  <2>6. [i \in 1 .. n |-> out[i].frame] = [i \in 1 .. n |-> batch[i]]
    BY <2>1
  <2>7. FramesOf(out) = batch
    BY <2>3, <2>4, <2>6
  <2> QED BY <2>5, <2>7
<1> HIDE DEF out
<1>7. \E T : air' \in Seq(T)
  <2>1. CASE ok
    <3> DEFINE T == {out[i] : i \in 1 .. n}
               R == S \cup T
    <3>1. out \in Seq(T) /\ S \subseteq R /\ T \subseteq R
      BY <1>6
    <3> HIDE DEF T, R
    <3>2. air \in Seq(R) /\ out \in Seq(R)
      BY <1>5, <3>1, SeqMonotonic
    <3> QED BY <1>1, <2>1, <3>2, ConcatProperties
  <2>2. CASE ~ok
    BY <1>1, <1>5, <2>2
  <2> QED BY <2>1, <2>2
<1>8. QueueInv'
  <2>1. batch' \in Seq(TxFrame) /\ Len(batch') = 0 /\ cap' = cap /\ cap \in 1 .. MaxBatch
    BY <1>1, <1>2 DEF QueueInv
  <2>2. DOMAIN stage' = TxFrame
    BY <1>1
  <2> QED BY <1>1, <1>7, <2>1, <2>2, TxAssumption DEF QueueInv
<1>9. /\ Waiting \in Seq(TxFrame) /\ n <= Len(Waiting)
      /\ SubSeq(Waiting, 1, n) = batch
      /\ Waiting' = SubSeq(Waiting, n + 1, Len(Waiting))
      /\ {Waiting[i] : i \in 1 .. n} = ToSet(batch)
  <2>1. /\ Waiting \in Seq(TxFrame) /\ Len(Waiting) = n + Len(queue) /\ Len(queue) \in Nat
        /\ \A i \in 1 .. n : Waiting[i] = batch[i]
    <3>1. /\ Waiting \in Seq(TxFrame) /\ Len(Waiting) = Len(batch) + Len(queue) /\ Len(queue) \in Nat
          /\ \A i \in 1 .. Len(batch) + Len(queue) : Waiting[i] = IF i <= Len(batch) THEN batch[i] ELSE queue[i - Len(batch)]
      BY <1>2, ConcatProperties DEF Waiting
    <3> QED BY <1>3, <3>1
  <2>2. SubSeq(Waiting, 1, n) = batch
    <3>1. n \in 1 .. Len(batch) /\ 1 \in 1 .. Len(batch)
      BY <1>3, <1>4
    <3>2. SubSeq(Waiting, 1, n) = SubSeq(batch, 1, n)
      BY <1>2, <3>1, SubSeqOfConcat1 DEF Waiting
    <3>3. SubSeq(batch, 1, Len(batch)) = batch
      BY <1>2, SubSeqFull
    <3> QED BY <1>3, <3>2, <3>3
  <2>3. Waiting' = queue
    BY <1>1, <1>2, ConcatEmptySeq DEF Waiting
  <2>4. queue = SubSeq(Waiting, n + 1, Len(Waiting))
    <3>1. CASE queue = << >>
      <4>1. Len(queue) = 0 /\ n + 1 \in Int /\ Len(Waiting) \in Int /\ Len(Waiting) < n + 1
        BY <2>1, <3>1
      <4> QED BY <3>1, <4>1, SubSeqEmpty
    <3>2. CASE queue # << >>
      <4>1. PICK k \in Nat : k = Len(queue) /\ k # 0
        BY <1>2, <2>1, <3>2, EmptySeq
      <4>2. n + 1 \in n + 1 .. n + k /\ n + k \in n + 1 .. n + k
        BY <4>1
      <4>3. SubSeq(Waiting, n + 1, n + k) = SubSeq(queue, (n + 1) - n, (n + k) - n)
        BY <1>2, <1>3, <4>1, <4>2, SubSeqOfConcat2 DEF Waiting
      <4>4. (n + 1) - n = 1 /\ (n + k) - n = k
        OBVIOUS
      <4>5. SubSeq(queue, 1, Len(queue)) = queue
        BY <1>2, SubSeqFull
      <4> QED BY <2>1, <4>1, <4>3, <4>4, <4>5
    <3> QED BY <3>1, <3>2
  <2>5. {Waiting[i] : i \in 1 .. n} = ToSet(batch)
    BY <1>3, <2>1 DEF ToSet
  <2>6. n <= Len(Waiting)
    BY <2>1
  <2> QED BY <2>1, <2>2, <2>3, <2>4, <2>5, <2>6
<1>10. Ordered!Release(n)
  <2>1. CASE ok
    <3>1. FramesOf(air') = FramesOf(air) \o SubSeq(Waiting, 1, n)
      <4> DEFINE T == {out[i] : i \in 1 .. n}
      <4>1. out \in Seq(T)
        BY <1>6
      <4> HIDE DEF T
      <4>2. FramesOf(air \o out) = FramesOf(air) \o batch
        BY <1>2, <1>5, <1>6, <4>1, FramesOfConcat
      <4>3. air' = air \o out
        BY <1>1, <2>1
      <4>4. SubSeq(Waiting, 1, n) = batch
        BY <1>9
      <4> QED BY <4>2, <4>3, <4>4
    <3> QED BY <1>1, <1>9, <2>1, <3>1 DEF Ordered!Release, Waiting, FramesOf
  <2>2. CASE ~ok
    BY <1>1, <1>9, <2>2 DEF Ordered!Release, Waiting
  <2> QED BY <2>1, <2>2
<1> QED BY <1>4, <1>8, <1>9, <1>10

(* The other steps: frames on their way to the batcher, time, and changes. *)
LEMMA OthersStutter ==
  ASSUME QueueInv,
         \/ \E f \in TxFrame : (\E k \in Kinds : inject(f, k)) \/ inject_with_intent(f) \/ Direct(f)
         \/ Change \/ TxTick \/ UNCHANGED txVars
  PROVE  QueueInv' /\ UNCHANGED Ordered!queueVars
<1>1. UNCHANGED <<queue, batch, cap, air, failed, down>>
  BY DEF inject, inject_with_intent, Direct, Change, TxTick, batcher, shared, txVars
<1>2. UNCHANGED Ordered!queueVars
  BY <1>1, QueueStutters DEF Waiting
<1>3. busy' \in Int /\ (busy' >= 0 => batch # << >>)
  <2>1. busy' = busy \/ (busy >= 0 /\ busy' = busy + 1)
    BY DEF inject, inject_with_intent, Direct, Change, TxTick, batcher, shared, txVars
  <2> QED BY <2>1 DEF QueueInv
<1>4. plan' \in {NoRate} \cup 0 .. MaxBatch
  <2>1. plan' = plan \/ plan' \in PlanSizes
    BY DEF inject, inject_with_intent, Direct, Change, TxTick, batcher, shared, txVars
  <2> QED BY <2>1, TxAssumption DEF QueueInv
<1>5. /\ DOMAIN stage' = TxFrame
      /\ down => \A f \in TxFrame : stage'[f] \notin {"intent", "gate"}
  <2>1. ASSUME NEW f \in TxFrame, NEW k \in Kinds, inject(f, k)
        PROVE  ~down /\ DOMAIN stage' = TxFrame
    BY <2>1 DEF inject, QueueInv
  <2>2. ASSUME NEW f \in TxFrame, inject_with_intent(f)
        PROVE  ~down /\ DOMAIN stage' = TxFrame
    BY <2>2 DEF inject_with_intent, QueueInv
  <2>3. ASSUME NEW f \in TxFrame, Direct(f)
        PROVE  ~down /\ DOMAIN stage' = TxFrame
    BY <2>3 DEF Direct, QueueInv
  <2>4. CASE Change \/ TxTick \/ UNCHANGED txVars
    BY <2>4 DEF Change, TxTick, txVars, QueueInv
  <2> QED BY <2>1, <2>2, <2>3, <2>4
<1> QED BY <1>1, <1>2, <1>3, <1>4, <1>5 DEF QueueInv

(* Dropping the face shuts the queue. *)
LEMMA TearDownShuts ==
  ASSUME QueueInv, TearDown
  PROVE  QueueInv' /\ Ordered!Shut
<1>1. /\ down' = TRUE /\ \A f \in TxFrame : stage[f] \notin {"intent", "gate"}
      /\ UNCHANGED <<stage, queue, batch, cap, busy, failed, air, plan>>
  BY DEF TearDown, batcher
<1>2. QueueInv'
  BY <1>1 DEF QueueInv
<1> QED BY <1>1, <1>2 DEF Ordered!Shut

(***************************************************************************)
(* The batcher is a queue, whatever the plan does to the size of a batch   *)
(* and whenever the face is dropped: frames leave in the order they were   *)
(* submitted, none twice, each burst as a whole or refused as a whole, and *)
(* none after the face is gone.                                            *)
(***************************************************************************)
THEOREM BatcherImplementsQueue == TxSpec => BatcherIsAQueue
<1>1. TxInit => Ordered!QueueInit
  <2> SUFFICES ASSUME TxInit PROVE Ordered!QueueInit
    OBVIOUS
  <2>1. batch \o queue = << >> /\ [i \in DOMAIN air |-> air[i].frame] = << >>
    BY DEF TxInit
  <2> QED BY <2>1 DEF TxInit, Ordered!QueueInit
<1>2. QueueInv /\ [TxNext]_txVars => QueueInv' /\ [Ordered!QueueNext]_Ordered!queueVars
  <2> SUFFICES ASSUME QueueInv, [TxNext]_txVars
               PROVE  QueueInv' /\ [Ordered!QueueNext]_Ordered!queueVars
    OBVIOUS
  <2>1. ASSUME NEW f \in TxFrame, submit(f)
        PROVE  QueueInv' /\ Ordered!QueueNext
    BY <2>1, SubmitOffers DEF Ordered!QueueNext
  <2>2. ASSUME NEW ok \in BOOLEAN, Injected(ok)
        PROVE  QueueInv' /\ Ordered!QueueNext
    BY <2>2, InjectedReleases DEF Ordered!QueueNext, Waiting
  <2>3. CASE TearDown
    BY <2>3, TearDownShuts DEF Ordered!QueueNext
  <2> QED BY <2>1, <2>2, <2>3, OpenStutters, JoinStutters, FlushStutters, OthersStutter DEF TxNext
<1> QED BY <1>1, <1>2, QueueInvInit, PTL DEF TxSpec, BatcherIsAQueue, Ordered!QueueSpec
---------------------------------------------------------------------------
(* What the batcher promises of each frame. *)

(* Of a frame that is held: what it has waited, besides the injections it has *)
(* waited behind, is what has passed of the window of its batch, nothing      *)
(* while it is in the channel.                                                *)
HoldInv ==
  /\ left \in 0 .. Window /\ busy \in -1 .. InjectTime
  /\ waited \in [TxFrame -> Nat] /\ blocked \in [TxFrame -> Nat]
  /\ \A f \in TxFrame \ Held : waited[f] = 0
  /\ \A f \in ToSet(queue) :
       /\ busy = -1 => waited[f] <= InjectTime * blocked[f]
       /\ busy >= 0 => waited[f] + InjectTime <= InjectTime * blocked[f] + busy
  /\ \A f \in ToSet(batch) :
       /\ busy = -1 => waited[f] + left <= InjectTime * blocked[f] + Window
       /\ busy >= 0 => waited[f] + InjectTime <= InjectTime * blocked[f] + busy + Window

(* A frame is held once, nothing robust is, and one of the batcher's for which *)
(* no rate was decided had been capped.                                        *)
PlaceInv ==
  /\ DOMAIN read = TxFrame /\ \A f \in TxFrame : DOMAIN read[f] = {"kind", "robust", "capped", "rate"}
  /\ \A i, j \in 1 .. Len(Waiting) : Waiting[i] = Waiting[j] => i = j
  /\ \A f \in TxFrame : stage[f] = "queued" <=> f \in Held
  /\ RobustGoesAtOnce
  /\ \A f \in TxFrame : stage[f] \in {"queued", "sent", "failed"} /\ read[f].rate = NoRate => read[f].capped

(* What has left has left at its rate, and its rate is no longer decided. *)
RateInv ==
  /\ \A a \in alone : a.frame \in TxFrame /\ stage[a.frame] = "direct"
  /\ \A i \in DOMAIN air : air[i].frame \in TxFrame /\ stage[air[i].frame] = "sent"
  /\ EachAtItsRate

BatchIndInv == QueueInv /\ HoldInv /\ PlaceInv /\ RateInv /\ mcs \in Mcs

(* The frames of a sequence, and of one that has grown or lost its head. *)
LEMMA SetOfSeq ==
  ASSUME NEW q \in Seq(TxFrame)
  PROVE  /\ ToSet(q) \subseteq TxFrame
         /\ \A f : f \in ToSet(q) <=> \E i \in 1 .. Len(q) : f = q[i]
  BY DEF ToSet

LEMMA SetOfConcat ==
  ASSUME NEW b \in Seq(TxFrame), NEW q \in Seq(TxFrame)
  PROVE  ToSet(b \o q) = ToSet(b) \cup ToSet(q)
<1>1. /\ b \o q \in Seq(TxFrame) /\ Len(b \o q) = Len(b) + Len(q)
      /\ \A i \in 1 .. Len(b) + Len(q) : (b \o q)[i] = IF i <= Len(b) THEN b[i] ELSE q[i - Len(b)]
  BY ConcatProperties
<1>2. PICK m, k \in Nat : m = Len(b) /\ k = Len(q)
  BY LenProperties
<1>3. ASSUME NEW f, f \in ToSet(b \o q) PROVE f \in ToSet(b) \cup ToSet(q)
  <2>1. PICK i \in 1 .. m + k : f = (b \o q)[i]
    <3> DEFINE w == b \o q
    <3>0. w \in Seq(TxFrame) /\ f \in ToSet(w)  BY <1>1, <1>3
    <3> HIDE DEF w
    <3>2. \E i \in 1 .. Len(w) : f = w[i]  BY <3>0, SetOfSeq
    <3>1. \E i \in 1 .. Len(b \o q) : f = (b \o q)[i]  BY <3>2 DEF w
    <3> QED BY <3>1, <1>1, <1>2
  <2>2. CASE i <= m
    BY <2>1, <2>2, <1>1, <1>2, SetOfSeq
  <2>3. CASE ~(i <= m)
    <3>1. i - m \in 1 .. k /\ f = q[i - m]  BY <2>1, <2>3, <1>1, <1>2
    <3> QED BY <3>1, <1>2, SetOfSeq
  <2> QED BY <2>2, <2>3
<1>4. ASSUME NEW f, f \in ToSet(b) PROVE f \in ToSet(b \o q)
  <2>1. PICK i \in 1 .. m : f = b[i]  BY <1>2, <1>4, SetOfSeq
  <2>2. i \in 1 .. m + k /\ f = (b \o q)[i]  BY <2>1, <1>1, <1>2
  <2> QED BY <2>2, <1>1, <1>2, SetOfSeq
<1>5. ASSUME NEW f, f \in ToSet(q) PROVE f \in ToSet(b \o q)
  <2>1. PICK i \in 1 .. k : f = q[i]  BY <1>2, <1>5, SetOfSeq
  <2>2. m + i \in 1 .. m + k /\ ~(m + i <= m) /\ (m + i) - m = i  BY <2>1
  <2>3. f = (b \o q)[m + i]  BY <2>1, <2>2, <1>1, <1>2
  <2> QED BY <2>2, <2>3, <1>1, <1>2, SetOfSeq
<1> QED BY <1>3, <1>4, <1>5

LEMMA HeldIsWaiting ==
  ASSUME QueueInv
  PROVE  Held = ToSet(Waiting) /\ Held \subseteq TxFrame /\ Waiting \in Seq(TxFrame)
         /\ ToSet(batch) \subseteq TxFrame /\ ToSet(queue) \subseteq TxFrame
BY SetOfConcat, SetOfSeq, ConcatProperties DEF QueueInv, Held, Waiting

LEMMA HeadAndTail ==
  ASSUME NEW q \in Seq(TxFrame), q # << >>
  PROVE  ToSet(q) = {Head(q)} \cup ToSet(Tail(q))
<1>1. <<Head(q)>> \in Seq(TxFrame) /\ Tail(q) \in Seq(TxFrame) /\ <<Head(q)>> \o Tail(q) = q
  OBVIOUS
<1>2. ToSet(<<Head(q)>>) = {Head(q)}
  BY DEF ToSet
<1> QED BY <1>1, <1>2, SetOfConcat

LEMMA Grown ==
  ASSUME NEW q \in Seq(TxFrame), NEW f \in TxFrame
  PROVE  ToSet(Append(q, f)) = ToSet(q) \cup {f}
<1>1. <<f>> \in Seq(TxFrame) /\ Append(q, f) = q \o <<f>>
  BY AppendIsConcat
<1>2. ToSet(<<f>>) = {f}
  BY DEF ToSet
<1> QED BY <1>1, <1>2, SetOfConcat

(* Two parts of a sequence without repetition have nothing in common. *)
LEMMA PartsApart ==
  ASSUME NEW b \in Seq(TxFrame), NEW q \in Seq(TxFrame),
         \A i, j \in 1 .. Len(b \o q) : (b \o q)[i] = (b \o q)[j] => i = j
  PROVE  /\ ToSet(b) \cap ToSet(q) = {}
         /\ \A i, j \in 1 .. Len(q) : q[i] = q[j] => i = j
<1>1. /\ Len(b \o q) = Len(b) + Len(q)
      /\ \A i \in 1 .. Len(b) + Len(q) : (b \o q)[i] = IF i <= Len(b) THEN b[i] ELSE q[i - Len(b)]
  BY ConcatProperties
<1>2. PICK m, k \in Nat : m = Len(b) /\ k = Len(q)
  BY LenProperties
<1>3. ASSUME NEW i \in 1 .. k PROVE m + i \in 1 .. m + k /\ ~(m + i <= m) /\ q[i] = (b \o q)[m + i]
  <2>1. m + i \in 1 .. m + k /\ ~(m + i <= m) /\ (m + i) - m = i  BY <1>3
  <2> QED BY <2>1, <1>1, <1>2
<1>4. ASSUME NEW f \in ToSet(b), f \in ToSet(q) PROVE FALSE
  <2>1. PICK i \in 1 .. m : f = b[i]  BY <1>2, <1>4, SetOfSeq
  <2>2. PICK j \in 1 .. k : f = q[j]  BY <1>2, <1>4, SetOfSeq
  <2>3. i \in 1 .. m + k /\ f = (b \o q)[i]  BY <2>1, <1>1, <1>2
  <2>4. m + j \in 1 .. m + k /\ f = (b \o q)[m + j]  BY <2>2, <1>3
  <2>5. i = m + j  BY <2>3, <2>4, <1>1, <1>2
  <2> QED BY <2>5, <2>1
<1>5. ASSUME NEW i \in 1 .. k, NEW j \in 1 .. k, q[i] = q[j] PROVE i = j
  <2>0. /\ m + i \in 1 .. Len(b \o q) /\ m + j \in 1 .. Len(b \o q)
        /\ (b \o q)[m + i] = (b \o q)[m + j]
    BY <1>1, <1>2, <1>3, <1>5
  <2>1. m + i = m + j  BY <2>0
  <2> QED BY <2>1
<1> QED BY <1>2, <1>4, <1>5

LEMMA BatchInvInit ==
  ASSUME TxInit
  PROVE  BatchIndInv
<1> USE DEF TxInit
<1>1. QueueInv  BY QueueInvInit
<1>2. Waiting = << >> /\ ToSet(<< >>) = {} /\ Len(<< >>) = 0
  BY EmptySeq DEF Waiting, ToSet
<1>3. HoldInv  BY <1>2, TxAssumption DEF HoldInv
<1>4. PlaceInv  BY <1>2 DEF PlaceInv, Unread, Held, RobustGoesAtOnce
<1>5. RateInv  BY DEF RateInv, EachAtItsRate
<1>6. mcs \in Mcs  BY TxAssumption
<1> QED BY <1>1, <1>3, <1>4, <1>5, <1>6 DEF BatchIndInv

(* Steps of the queue's invariant, which every step keeps.                     *)
LEMMA QueueInvStep ==
  ASSUME QueueInv, [TxNext]_txVars
  PROVE  QueueInv'
<1>1. ASSUME NEW f \in TxFrame, submit(f) PROVE QueueInv'  BY <1>1, SubmitOffers
<1>2. ASSUME NEW ok \in BOOLEAN, Injected(ok) PROVE QueueInv'  BY <1>2, InjectedReleases
<1> QED BY <1>1, <1>2, TearDownShuts, OpenStutters, JoinStutters, FlushStutters, OthersStutter DEF TxNext

(* A frame on its way to the batcher or past it, of those that are not held,   *)
(* leaves the held ones and their times alone.                                *)
LEMMA HeldStay ==
  ASSUME HoldInv, UNCHANGED <<queue, batch, left, busy, waited, blocked>>
  PROVE  HoldInv'
BY DEF HoldInv, Held

LEMMA OfferKeeps ==
  ASSUME QueueInv, HoldInv, PlaceInv, RateInv, NEW f \in TxFrame,
         (\E k \in Kinds : inject(f, k)) \/ inject_with_intent(f)
  PROVE  HoldInv' /\ PlaceInv' /\ RateInv'
<1>1. /\ stage[f] \in {"new", "intent"}
      /\ \E next \in {"intent", "gate"} : stage' = [stage EXCEPT ![f] = next]
      /\ UNCHANGED <<queue, batch, left, busy, waited, blocked, air, alone>>
  BY DEF inject, inject_with_intent, batcher
<1>2. /\ DOMAIN read' = DOMAIN read
      /\ DOMAIN read'[f] = DOMAIN read[f] /\ read'[f].rate = read[f].rate
      /\ \A g \in TxFrame \ {f} : read'[g] = read[g]
  <2>1. CASE \E k \in Kinds : inject(f, k)
    <3>1. PICK k \in Kinds : read' = [read EXCEPT ![f].kind = k, ![f].robust = (k = "control" \/ legacy)]
      BY <2>1 DEF inject
    <3> QED BY <3>1 DEF PlaceInv
  <2>2. CASE inject_with_intent(f)
    <3>1. read' = [read EXCEPT ![f].capped = legacy]
      BY <2>2 DEF inject_with_intent
    <3> QED BY <3>1 DEF PlaceInv
  <2> QED BY <2>1, <2>2
<1>3. /\ DOMAIN stage = TxFrame /\ stage'[f] \in {"intent", "gate"}
      /\ \A g \in TxFrame \ {f} : stage'[g] = stage[g]
  BY <1>1 DEF QueueInv
<1>4. HoldInv'  BY <1>1, HeldStay
<1>5. PlaceInv'
  BY <1>1, <1>2, <1>3 DEF PlaceInv, Waiting, Held, RobustGoesAtOnce
<1>6. RateInv'
  BY <1>1, <1>2, <1>3 DEF RateInv, EachAtItsRate
<1> QED BY <1>4, <1>5, <1>6

LEMMA DirectKeeps ==
  ASSUME QueueInv, HoldInv, PlaceInv, RateInv, NEW f \in TxFrame, Direct(f)
  PROVE  HoldInv' /\ PlaceInv' /\ RateInv'
<1>1. /\ stage[f] = "gate" /\ stage' = [stage EXCEPT ![f] = "direct"]
      /\ read' = [read EXCEPT ![f].rate = Decided(f)]
      /\ alone' = alone \cup {Frame(f, Decided(f), 0)}
      /\ UNCHANGED <<queue, batch, left, busy, waited, blocked, air>>
  BY DEF Direct, batcher
<1>2. /\ DOMAIN read' = DOMAIN read
      /\ DOMAIN read'[f] = DOMAIN read[f] /\ read'[f].rate = Decided(f)
      /\ \A g \in TxFrame \ {f} : read'[g] = read[g]
  BY <1>1 DEF PlaceInv
<1>3. /\ DOMAIN stage = TxFrame /\ stage'[f] = "direct"
      /\ \A g \in TxFrame \ {f} : stage'[g] = stage[g]
  BY <1>1 DEF QueueInv
<1>4. HoldInv'  BY <1>1, HeldStay
<1>5. PlaceInv'
  BY <1>1, <1>2, <1>3 DEF PlaceInv, Waiting, Held, RobustGoesAtOnce
<1>6. RateInv'
  <2>1. Frame(f, Decided(f), 0).frame = f /\ Frame(f, Decided(f), 0).rate = Decided(f)  BY DEF Frame
  <2>2. \A a \in alone' : a.frame \in TxFrame /\ stage'[a.frame] = "direct" /\ a.rate = read'[a.frame].rate
    BY <1>1, <1>2, <1>3, <2>1 DEF RateInv, EachAtItsRate
  <2>3. \A i \in DOMAIN air : air[i].frame \in TxFrame \ {f} /\ stage[air[i].frame] = "sent"
    BY <1>1 DEF RateInv
  <2> QED BY <1>1, <1>2, <1>3, <2>2, <2>3 DEF RateInv, EachAtItsRate
<1> QED BY <1>4, <1>5, <1>6

LEMMA SubmitKeeps ==
  ASSUME QueueInv, HoldInv, PlaceInv, RateInv, mcs \in Mcs, NEW f \in TxFrame, submit(f)
  PROVE  HoldInv' /\ PlaceInv' /\ RateInv'
<1>1. /\ stage[f] = "gate" /\ stage' = [stage EXCEPT ![f] = "queued"] /\ ~read[f].robust
      /\ read' = [read EXCEPT ![f].rate = Decided(f)]
      /\ queue' = Append(queue, f) /\ blocked' = [blocked EXCEPT ![f] = IF busy >= 0 THEN 1 ELSE 0]
      /\ UNCHANGED <<batch, left, busy, waited, alone, air>>
  BY DEF submit, Coalesced
<1>2. /\ DOMAIN read' = DOMAIN read
      /\ DOMAIN read'[f] = DOMAIN read[f] /\ read'[f].robust = read[f].robust
      /\ read'[f].capped = read[f].capped /\ (read'[f].rate = NoRate => read[f].capped)
      /\ \A g \in TxFrame \ {f} : read'[g] = read[g]
  BY <1>1, TxAssumption DEF PlaceInv, Decided
<1>3. /\ DOMAIN stage = TxFrame /\ stage'[f] = "queued"
      /\ \A g \in TxFrame \ {f} : stage'[g] = stage[g]
  BY <1>1 DEF QueueInv
<1>4. /\ queue \in Seq(TxFrame) /\ batch \in Seq(TxFrame) /\ f \notin Held
      /\ ToSet(queue') = ToSet(queue) \cup {f} /\ Held' = Held \cup {f} /\ busy \in Int
  BY <1>1, Grown DEF QueueInv, PlaceInv, Held
<1>5. waited[f] = 0 /\ waited \in [TxFrame -> Nat] /\ blocked \in [TxFrame -> Nat]
  BY <1>4 DEF HoldInv
<1>6. /\ blocked' \in [TxFrame -> Nat] /\ blocked'[f] = (IF busy >= 0 THEN 1 ELSE 0)
      /\ \A g \in TxFrame \ {f} : blocked'[g] = blocked[g]
  BY <1>1, <1>5
<1>7. HoldInv'
  <2>1. /\ busy = -1 => waited[f] <= InjectTime * blocked'[f]
        /\ busy >= 0 => waited[f] + InjectTime <= InjectTime * blocked'[f] + busy
    <3>1. InjectTime * 0 = 0 /\ InjectTime * 1 = InjectTime /\ InjectTime \in Nat  BY TxAssumption
    <3> QED BY <3>1, <1>4, <1>5, <1>6
  <2>2. \A g \in ToSet(queue) \cup ToSet(batch) : g \in TxFrame \ {f}
    BY <1>4, HeldIsWaiting DEF Held
  <2>3. \A g \in TxFrame \ Held' : waited'[g] = 0
    BY <1>1, <1>4 DEF HoldInv
  <2>4. \A g \in ToSet(queue') :
          /\ busy' = -1 => waited'[g] <= InjectTime * blocked'[g]
          /\ busy' >= 0 => waited'[g] + InjectTime <= InjectTime * blocked'[g] + busy'
    BY <1>1, <1>4, <1>6, <2>1, <2>2 DEF HoldInv
  <2>5. \A g \in ToSet(batch') :
          /\ busy' = -1 => waited'[g] + left' <= InjectTime * blocked'[g] + Window
          /\ busy' >= 0 => waited'[g] + InjectTime <= InjectTime * blocked'[g] + busy' + Window
    BY <1>1, <1>6, <2>2 DEF HoldInv
  <2> QED BY <1>1, <1>5, <1>6, <2>3, <2>4, <2>5 DEF HoldInv
<1>8. PlaceInv'
  <2> DEFINE W == Waiting
  <2>1. W \in Seq(TxFrame) /\ f \notin ToSet(W)
    BY <1>4, HeldIsWaiting
  <2>2. Waiting' = Append(W, f)
    <3>1. <<f>> \in Seq(TxFrame)  OBVIOUS
    <3>2. Append(queue, f) = queue \o <<f>> /\ Append(W, f) = W \o <<f>>
      BY <1>4, <2>1, AppendIsConcat
    <3> QED BY <1>1, <1>4, <3>1, <3>2, ConcatAssociative DEF Waiting
  <2>3. \A i, j \in 1 .. Len(W) : W[i] = W[j] => i = j
    BY DEF PlaceInv
  <2> HIDE DEF W
  <2>4. \A i, j \in 1 .. Len(Append(W, f)) : Append(W, f)[i] = Append(W, f)[j] => i = j
    <3>1. PICK n \in Nat : n = Len(W)  BY <2>1
    <3>2. /\ Len(Append(W, f)) = n + 1 /\ Append(W, f)[n + 1] = f
          /\ \A i \in 1 .. n : Append(W, f)[i] = W[i] /\ W[i] # f
      BY <2>1, <3>1, SetOfSeq
    <3>3. \A i \in 1 .. n + 1 : i \in 1 .. n \/ i = n + 1  BY <3>1
    <3> QED BY <2>3, <3>1, <3>2, <3>3
  <2>5. \A g \in TxFrame : stage'[g] = "queued" <=> g \in Held'
    BY <1>3, <1>4 DEF PlaceInv
  <2>6. \A g \in TxFrame :
          stage'[g] \in {"queued", "sent", "failed"} /\ read'[g].rate = NoRate => read'[g].capped
    BY <1>2, <1>3 DEF PlaceInv
  <2> QED BY <1>1, <1>2, <1>3, <2>2, <2>4, <2>5, <2>6 DEF PlaceInv, RobustGoesAtOnce
<1>9. RateInv'
  <2>1. \A a \in alone : a.frame \in TxFrame \ {f}
    BY <1>1 DEF RateInv
  <2>2. \A i \in DOMAIN air : air[i].frame \in TxFrame \ {f}
    BY <1>1 DEF RateInv
  <2> QED BY <1>1, <1>2, <1>3, <2>1, <2>2 DEF RateInv, EachAtItsRate
<1> QED BY <1>7, <1>8, <1>9

(* The batcher's own steps move held frames, and leave stage and rates.        *)
LEMMA MovesKeep ==
  ASSUME QueueInv, PlaceInv, RateInv, Waiting' = Waiting, Held' = Held,
         UNCHANGED <<stage, read, air, alone>>
  PROVE  PlaceInv' /\ RateInv'
BY DEF PlaceInv, RobustGoesAtOnce, RateInv, EachAtItsRate

LEMMA OpenKeeps ==
  ASSUME QueueInv, HoldInv, PlaceInv, RateInv, Open
  PROVE  HoldInv' /\ PlaceInv' /\ RateInv'
<1>1. /\ batch = << >> /\ busy = -1 /\ queue # << >> /\ batch' = <<Head(queue)>> /\ queue' = Tail(queue)
      /\ left' = Window /\ UNCHANGED <<busy, waited, blocked, stage, read, air, alone>>
  BY DEF Open, Idle
<1>2. /\ queue \in Seq(TxFrame) /\ ToSet(queue) = {Head(queue)} \cup ToSet(queue')
      /\ ToSet(batch') = {Head(queue)} /\ ToSet(batch) = {} /\ ToSet(queue) \subseteq TxFrame
  <2>1. ToSet(<<Head(queue)>>) = {Head(queue)} /\ ToSet(<< >>) = {}  BY DEF ToSet
  <2> QED BY <1>1, <2>1, HeadAndTail, HeldIsWaiting DEF QueueInv
<1>3. Held' = Held  BY <1>2 DEF Held
<1>4. Waiting' = Waiting
  BY OpenStutters DEF Ordered!queueVars, Waiting
<1>5. \A f \in TxFrame : waited[f] \in Nat /\ InjectTime * blocked[f] \in Nat
  BY TxAssumption DEF HoldInv
<1>6. HoldInv'
  <2>1. \A f \in ToSet(batch') : waited[f] + Window <= InjectTime * blocked[f] + Window
    BY <1>1, <1>2, <1>5, TxAssumption DEF HoldInv
  <2>2. \A f \in TxFrame \ Held' : waited'[f] = 0  BY <1>1, <1>3 DEF HoldInv
  <2>3. \A f \in ToSet(queue') : waited[f] <= InjectTime * blocked[f]
    BY <1>1, <1>2 DEF HoldInv
  <2> QED BY <1>1, <2>1, <2>2, <2>3, TxAssumption DEF HoldInv
<1> QED BY <1>1, <1>3, <1>4, <1>6, MovesKeep

LEMMA JoinKeeps ==
  ASSUME QueueInv, HoldInv, PlaceInv, RateInv, Join
  PROVE  HoldInv' /\ PlaceInv' /\ RateInv'
<1>1. /\ busy = -1 /\ queue # << >> /\ batch' = Append(batch, Head(queue)) /\ queue' = Tail(queue)
      /\ UNCHANGED <<left, busy, waited, blocked, stage, read, air, alone>>
  BY DEF Join, Filling, Joined
<1>2. /\ queue \in Seq(TxFrame) /\ ToSet(queue) = {Head(queue)} \cup ToSet(queue')
      /\ ToSet(batch') = ToSet(batch) \cup {Head(queue)} /\ ToSet(queue) \subseteq TxFrame
  BY <1>1, HeadAndTail, HeldIsWaiting, Grown DEF QueueInv
<1>3. Held' = Held  BY <1>2 DEF Held
<1>4. Waiting' = Waiting
  BY JoinStutters DEF Ordered!queueVars, Waiting
<1>5. \A f \in TxFrame : waited[f] \in Nat /\ InjectTime * blocked[f] \in Nat
  BY TxAssumption DEF HoldInv
<1>6. HoldInv'
  <2>1. left \in Nat /\ left <= Window /\ Window \in Nat  BY TxAssumption DEF HoldInv
  <2>2. waited[Head(queue)] + left <= InjectTime * blocked[Head(queue)] + Window
    <3>1. waited[Head(queue)] <= InjectTime * blocked[Head(queue)] /\ Head(queue) \in TxFrame
      BY <1>1, <1>2 DEF HoldInv
    <3> QED BY <3>1, <1>5, <2>1
  <2>3. \A f \in ToSet(batch') : waited[f] + left <= InjectTime * blocked[f] + Window
    BY <1>1, <1>2, <2>2 DEF HoldInv
  <2>4. \A f \in TxFrame \ Held' : waited'[f] = 0  BY <1>1, <1>3 DEF HoldInv
  <2>5. \A f \in ToSet(queue') : waited[f] <= InjectTime * blocked[f]
    BY <1>1, <1>2 DEF HoldInv
  <2> QED BY <1>1, <2>3, <2>4, <2>5 DEF HoldInv
<1> QED BY <1>1, <1>3, <1>4, <1>6, MovesKeep

LEMMA FlushKeeps ==
  ASSUME QueueInv, HoldInv, PlaceInv, RateInv, Flush
  PROVE  HoldInv' /\ PlaceInv' /\ RateInv'
<1>1. /\ busy = -1 /\ busy' = 0
      /\ blocked' = [f \in TxFrame |-> IF f \in Held THEN blocked[f] + 1 ELSE blocked[f]]
      /\ UNCHANGED <<left, waited, stage, read, air, alone, queue, batch>>
  BY DEF Flush, Filling
<1>2. \A f \in TxFrame : /\ waited[f] \in Nat /\ blocked[f] \in Nat /\ InjectTime * blocked[f] \in Nat
                         /\ InjectTime * (blocked[f] + 1) = InjectTime * blocked[f] + InjectTime
  BY TxAssumption DEF HoldInv
<1>3. HoldInv'
  <2>1. \A f \in Held : f \in TxFrame /\ blocked'[f] = blocked[f] + 1
    BY <1>1, HeldIsWaiting
  <2>2. left \in Nat /\ Window \in Nat /\ InjectTime \in Nat  BY TxAssumption DEF HoldInv
  <2>3. \A f \in ToSet(queue) : waited[f] + InjectTime <= InjectTime * blocked'[f] + 0
    <3>1. ASSUME NEW f \in ToSet(queue) PROVE waited[f] + InjectTime <= InjectTime * blocked'[f] + 0
      <4>1. waited[f] <= InjectTime * blocked[f]  BY <1>1, <3>1 DEF HoldInv
      <4>2. f \in TxFrame /\ blocked'[f] = blocked[f] + 1  BY <2>1, <3>1 DEF Held
      <4> DEFINE w == waited[f]
                 p == InjectTime * blocked[f]
      <4>3. w \in Nat /\ p \in Nat /\ InjectTime * blocked'[f] = p + InjectTime /\ w <= p
        BY <4>1, <4>2, <1>2
      <4> HIDE DEF w, p
      <4>4. w + InjectTime <= (p + InjectTime) + 0  BY <4>3, <2>2
      <4> QED BY <4>3, <4>4 DEF w
    <3> QED BY <3>1
  <2>4. \A f \in ToSet(batch) : waited[f] + InjectTime <= InjectTime * blocked'[f] + 0 + Window
    <3>1. ASSUME NEW f \in ToSet(batch) PROVE waited[f] + InjectTime <= InjectTime * blocked'[f] + 0 + Window
      <4>1. waited[f] + left <= InjectTime * blocked[f] + Window  BY <1>1, <3>1 DEF HoldInv
      <4>2. f \in TxFrame /\ blocked'[f] = blocked[f] + 1  BY <2>1, <3>1 DEF Held
      <4> DEFINE w == waited[f]
                 p == InjectTime * blocked[f]
      <4>3. w \in Nat /\ p \in Nat /\ InjectTime * blocked'[f] = p + InjectTime /\ w + left <= p + Window
        BY <4>1, <4>2, <1>2
      <4> HIDE DEF w, p
      <4>4. w + InjectTime <= (p + InjectTime) + 0 + Window  BY <4>3, <2>2
      <4> QED BY <4>3, <4>4 DEF w
    <3> QED BY <3>1
  <2>5. blocked' \in [TxFrame -> Nat]  BY <1>1, <1>2
  <2>6. Held' = Held  BY <1>1 DEF Held
  <2> QED BY <1>1, <2>2, <2>3, <2>4, <2>5, <2>6 DEF HoldInv
<1>4. Held' = Held /\ Waiting' = Waiting  BY <1>1 DEF Held, Waiting
<1> QED BY <1>1, <1>3, <1>4, MovesKeep

(* Time passes for the held while the batch fills, or while it is injected:     *)
(* not with a frame in the channel that could join, nor with the window over.   *)
LEMMA TickKeeps ==
  ASSUME QueueInv, HoldInv, PlaceInv, RateInv, TxTick
  PROVE  HoldInv' /\ PlaceInv' /\ RateInv'
<1>1. /\ ~down /\ Prompt /\ batch # << >>
      /\ left' = (IF left > 0 THEN left - 1 ELSE 0) /\ busy' = (IF busy >= 0 THEN busy + 1 ELSE busy)
      /\ waited' = [f \in TxFrame |-> IF f \in Held /\ waited[f] < MaxWait THEN waited[f] + 1 ELSE waited[f]]
      /\ UNCHANGED <<blocked, stage, read, air, alone, queue, batch>>
  BY DEF TxTick
<1>2. \A f \in TxFrame : waited[f] \in Nat /\ InjectTime * blocked[f] \in Nat
  BY TxAssumption DEF HoldInv
<1>3. /\ left \in 0 .. Window /\ busy \in -1 .. InjectTime /\ busy < InjectTime
      /\ Window \in Nat /\ InjectTime \in Nat
  BY <1>1, TxAssumption DEF HoldInv, Prompt
<1>4. busy = -1 => queue = << >> /\ left > 0
  <2>1. ASSUME busy = -1 PROVE queue = << >> /\ left > 0
    <3>1. ~(Full \/ queue # << >>)  BY <2>1, <1>1 DEF Prompt, Filling
    <3> QED BY <3>1, <1>3 DEF Full
  <2> QED BY <2>1
<1>5. \A f \in TxFrame : /\ waited'[f] \in Nat /\ waited'[f] <= waited[f] + 1
                         /\ f \notin Held => waited'[f] = waited[f]
  BY <1>1, <1>2
<1>6. Held' = Held /\ Waiting' = Waiting  BY <1>1 DEF Held, Waiting
<1>7. HoldInv'
  <2>1. left' \in 0 .. Window /\ busy' \in -1 .. InjectTime /\ (busy = -1 <=> busy' = -1)
    BY <1>1, <1>3
  <2>2. \A f \in TxFrame \ Held' : waited'[f] = 0  BY <1>5, <1>6 DEF HoldInv
  <2>3. waited' \in [TxFrame -> Nat] /\ blocked' \in [TxFrame -> Nat]
    BY <1>1, <1>5 DEF HoldInv
  <2>4. ASSUME NEW f \in ToSet(queue)
        PROVE  /\ busy' = -1 => waited'[f] <= InjectTime * blocked[f]
               /\ busy' >= 0 => waited'[f] + InjectTime <= InjectTime * blocked[f] + busy'
    <3>1. f \in TxFrame  BY <2>4, HeldIsWaiting
    <3>2. busy # -1  BY <2>4, <1>4 DEF ToSet
    <3>3. busy >= 0 /\ busy' = busy + 1  BY <3>2, <1>1, <1>3
    <3>4. waited[f] + InjectTime <= InjectTime * blocked[f] + busy  BY <2>4, <3>3 DEF HoldInv
    <3> DEFINE p == InjectTime * blocked[f]
    <3>5. p \in Nat /\ waited[f] \in Nat /\ waited'[f] \in Nat /\ waited'[f] <= waited[f] + 1
          /\ waited[f] + InjectTime <= p + busy
      BY <3>1, <3>4, <1>2, <1>5
    <3> HIDE DEF p
    <3>6. waited'[f] + InjectTime <= p + busy'  BY <3>3, <3>5, <1>3
    <3> QED BY <3>3, <3>6, <1>3 DEF p
  <2>5. ASSUME NEW f \in ToSet(batch)
        PROVE  /\ busy' = -1 => waited'[f] + left' <= InjectTime * blocked[f] + Window
               /\ busy' >= 0 => waited'[f] + InjectTime <= InjectTime * blocked[f] + busy' + Window
    <3>1. f \in TxFrame  BY <2>5, HeldIsWaiting
    <3> DEFINE p == InjectTime * blocked[f]
    <3>2. p \in Nat /\ waited[f] \in Nat /\ waited'[f] \in Nat /\ waited'[f] <= waited[f] + 1
      BY <3>1, <1>2, <1>5
    <3>3. /\ busy = -1 => waited[f] + left <= p + Window
          /\ busy >= 0 => waited[f] + InjectTime <= p + busy + Window
      BY <2>5 DEF HoldInv
    <3> HIDE DEF p
    <3>4. busy' = -1 => waited'[f] + left' <= p + Window
      BY <3>2, <3>3, <2>1, <1>1, <1>3, <1>4
    <3>5. busy' >= 0 => waited'[f] + InjectTime <= p + busy' + Window
      BY <3>2, <3>3, <2>1, <1>1, <1>3
    <3> QED BY <3>4, <3>5 DEF p
  <2> QED BY <1>1, <2>1, <2>2, <2>3, <2>4, <2>5 DEF HoldInv
<1> QED BY <1>1, <1>6, <1>7, MovesKeep

(* Some indices of a sequence have a last one.                                 *)
LEMMA LargestExists ==
  ASSUME NEW n \in Nat, NEW I \in SUBSET (1 .. n), I # {}
  PROVE  \E x \in I : \A y \in I : x >= y
<1> DEFINE T == {n - i : i \in I}
           R == {p \in Nat \X Nat : p[1] < p[2]}
<1>0. IsWellFoundedOn(OpToRel(<, Nat), Nat) /\ OpToRel(<, Nat) = R
  <2>1. OpToRel(<, Nat) = R  BY DEF OpToRel
  <2> HIDE DEF R
  <2> QED BY <2>1, NatLessThanWellFounded
<1>1. IsWellFoundedOn(R, Nat)
  <2> HIDE DEF R
  <2> QED BY <1>0
<1>2. T \subseteq Nat /\ T # {}
  <2>1. \A i \in I : n - i \in Nat  OBVIOUS
  <2>2. PICK i \in I : TRUE  OBVIOUS
  <2>3. n - i \in T  OBVIOUS
  <2> QED BY <2>1, <2>3
<1>3. PICK t \in T : \A u \in T : ~(<<u, t>> \in R)
  <2> HIDE DEF R, T
  <2> QED BY <1>1, <1>2, WFMin
<1>4. PICK x \in I : t = n - x  OBVIOUS
<1>5. ASSUME NEW y \in I PROVE x >= y
  <2>1. n - y \in Nat /\ n - x \in Nat /\ ~(n - y < n - x)  BY <1>2, <1>3, <1>4
  <2> QED BY <2>1
<1> QED BY <1>5

(* The rate of a frame in a burst is the one decided for it, or one decided     *)
(* for another of the burst, which then has two at least.                      *)
LEMMA RateOfTheBurst ==
  ASSUME NEW b \in Seq(TxFrame), NEW k \in 1 .. Len(b), RateIn(b, b[k]) # read[b[k]].rate
  PROVE  /\ read[b[k]].rate = NoRate /\ Len(b) > 1
         /\ \E j \in 1 .. Len(b) : RateIn(b, b[k]) = read[b[j]].rate /\ RateIn(b, b[j]) = read[b[j]].rate
<1> DEFINE I == {i \in 1 .. Len(b) : read[b[i]].rate # NoRate}
           at == SelectLastInSeq(b, LAMBDA g : read[g].rate # NoRate)
<1>1. Len(b) \in Nat  BY LenProperties
<1>2. at = IF I # {} THEN Max(I) ELSE 0
  BY DEF SelectLastInSeq
<1>3. I # {} => Max(I) \in I
  <2> SUFFICES ASSUME I # {} PROVE Max(I) \in I
    OBVIOUS
  <2>1. I \subseteq 1 .. Len(b)  OBVIOUS
  <2> HIDE DEF I
  <2>3. \E x \in I : \A y \in I : x >= y  BY <2>1, <1>1, LargestExists
  <2> QED BY <2>3 DEF Max
<1>4. /\ RateIn(b, b[k]) = IF read[b[k]].rate # NoRate \/ at = 0 THEN read[b[k]].rate ELSE read[b[at]].rate
  BY DEF RateIn
<1>5. read[b[k]].rate = NoRate /\ at # 0 /\ RateIn(b, b[k]) = read[b[at]].rate
  BY <1>4
<1>6. at \in I  BY <1>2, <1>3, <1>5
<1>7. at \in 1 .. Len(b) /\ read[b[at]].rate # NoRate  BY <1>6
<1>8. RateIn(b, b[at]) = read[b[at]].rate  BY <1>7 DEF RateIn
<1> HIDE DEF at, I
<1>9. at # k  BY <1>5, <1>7
<1>10. Len(b) > 1  BY <1>7, <1>9, <1>1
<1> QED BY <1>5, <1>7, <1>8, <1>10

LEMMA InjectedKeeps ==
  ASSUME QueueInv, HoldInv, PlaceInv, RateInv, NEW ok \in BOOLEAN, Injected(ok)
  PROVE  HoldInv' /\ PlaceInv' /\ RateInv'
<1> DEFINE out == [i \in DOMAIN batch |-> Frame(batch[i], RateIn(batch, batch[i]), Len(batch))]
<1>1. /\ busy >= 0 /\ busy' = -1 /\ batch' = << >>
      /\ IF ok THEN air' = air \o out ELSE UNCHANGED air
      /\ stage' = [f \in TxFrame |-> IF f \notin ToSet(batch) THEN stage[f] ELSE IF ok THEN "sent" ELSE "failed"]
      /\ waited' = [f \in TxFrame |-> IF f \in ToSet(batch) THEN 0 ELSE waited[f]]
      /\ blocked' = [f \in TxFrame |-> IF f \in ToSet(batch) THEN 0 ELSE blocked[f]]
      /\ UNCHANGED <<read, queue, left, alone>>
  BY DEF Injected
<1>2. /\ batch \in Seq(TxFrame) /\ queue \in Seq(TxFrame)
      /\ ToSet(batch) \subseteq TxFrame /\ ToSet(queue) \subseteq TxFrame
  BY HeldIsWaiting DEF QueueInv
<1>3. /\ ToSet(batch) \cap ToSet(queue) = {}
      /\ \A i, j \in 1 .. Len(queue) : queue[i] = queue[j] => i = j
  BY <1>2, PartsApart DEF PlaceInv, Waiting
<1>4. ToSet(batch') = {} /\ Held' = ToSet(queue) /\ Waiting' = queue
  <2>1. ToSet(<< >>) = {} /\ << >> \o queue = queue
    BY <1>2, EmptySeq DEF ToSet
  <2> QED BY <1>1, <2>1 DEF Held, Waiting
<1>5. HoldInv'
  <2>1. \A f \in TxFrame : waited[f] \in Nat /\ blocked[f] \in Nat /\ InjectTime * blocked[f] \in Nat
    BY TxAssumption DEF HoldInv
  <2>2. waited' \in [TxFrame -> Nat] /\ blocked' \in [TxFrame -> Nat]
    BY <1>1, <2>1
  <2>3. \A f \in TxFrame \ Held' : waited'[f] = 0
    BY <1>1, <1>4 DEF HoldInv, Held
  <2>4. ASSUME NEW f \in ToSet(queue) PROVE waited'[f] <= InjectTime * blocked'[f]
    <3>1. f \in TxFrame /\ waited'[f] = waited[f] /\ blocked'[f] = blocked[f]
      BY <2>4, <1>1, <1>2, <1>3
    <3>2. waited[f] + InjectTime <= InjectTime * blocked[f] + busy  BY <2>4, <1>1 DEF HoldInv
    <3>3. busy \in Int /\ busy <= InjectTime /\ InjectTime \in Nat  BY TxAssumption DEF HoldInv
    <3> DEFINE p == InjectTime * blocked[f]
               w == waited[f]
    <3>4. p \in Nat /\ w \in Nat /\ w + InjectTime <= p + busy  BY <3>1, <3>2, <2>1
    <3> HIDE DEF p, w
    <3>5. w <= p  BY <3>3, <3>4
    <3> QED BY <3>1, <3>5 DEF p, w
  <2>5. left' \in 0 .. Window /\ busy' \in -1 .. InjectTime
    BY <1>1, TxAssumption DEF HoldInv
  <2>6. \A f \in ToSet(queue') :
          /\ busy' = -1 => waited'[f] <= InjectTime * blocked'[f]
          /\ busy' >= 0 => waited'[f] + InjectTime <= InjectTime * blocked'[f] + busy'
    <3>1. queue' = queue /\ busy' = -1  BY <1>1
    <3>2. ~(busy' >= 0)  BY <3>1
    <3> QED BY <3>1, <3>2, <2>4
  <2>7. \A f \in ToSet(batch') :
          /\ busy' = -1 => waited'[f] + left' <= InjectTime * blocked'[f] + Window
          /\ busy' >= 0 => waited'[f] + InjectTime <= InjectTime * blocked'[f] + busy' + Window
    BY <1>4
  <2> QED BY <2>2, <2>3, <2>5, <2>6, <2>7 DEF HoldInv
<1>6. \A f \in ToSet(batch) : stage[f] = "queued"
  BY <1>2 DEF PlaceInv, Held
<1>7. PlaceInv'
  <2>1. \A f \in TxFrame : stage'[f] = "queued" <=> f \in Held'
    BY <1>1, <1>3, <1>4 DEF PlaceInv, Held
  <2>2. RobustGoesAtOnce'
    BY <1>1, <1>6 DEF PlaceInv, RobustGoesAtOnce
  <2>3. \A f \in TxFrame :
          stage'[f] \in {"queued", "sent", "failed"} /\ read'[f].rate = NoRate => read'[f].capped
    BY <1>1, <1>6 DEF PlaceInv
  <2> QED BY <1>1, <1>3, <1>4, <2>1, <2>2, <2>3 DEF PlaceInv
<1>8. RateInv'
  <2>1. \A a \in alone : a.frame \in TxFrame /\ a.frame \notin ToSet(batch)
    BY <1>6 DEF RateInv
  <2>2. \A i \in DOMAIN air : air[i].frame \in TxFrame /\ air[i].frame \notin ToSet(batch)
    BY <1>6 DEF RateInv
  <2>3. CASE ~ok
    BY <2>1, <2>2, <2>3, <1>1 DEF RateInv, EachAtItsRate
  <2>4. CASE ok
    <3>1. PICK S : air \in Seq(S)  BY DEF QueueInv
    <3>2. PICK m, n \in Nat : m = Len(air) /\ DOMAIN air = 1 .. m /\ n = Len(batch) /\ DOMAIN batch = 1 .. n
      BY <3>1, <1>2, LenProperties
    <3>3. \A i \in 1 .. n : /\ out[i].frame = batch[i] /\ out[i].rate = RateIn(batch, batch[i]) /\ out[i].size = n
                            /\ batch[i] \in ToSet(batch) /\ batch[i] \in TxFrame
      BY <3>2, <1>2 DEF Frame, ToSet
    <3>4. /\ DOMAIN air' = 1 .. m + n
          /\ \A i \in 1 .. m + n : air'[i] = IF i <= m THEN air[i] ELSE out[i - m]
      <4> DEFINE T == {out[i] : i \in 1 .. n}
      <4>1. out = [i \in 1 .. n |-> out[i]]  BY <3>2
      <4> HIDE DEF out
      <4>2. \A i \in 1 .. n : out[i] \in T  OBVIOUS
      <4> HIDE DEF T
      <4>3. out \in Seq(T) /\ Len(out) = n  BY <4>1, <4>2
      <4>4. air \in Seq(S \cup T) /\ out \in Seq(S \cup T)  BY <3>1, <4>3, SeqMonotonic
      <4>5. /\ air \o out \in Seq(S \cup T) /\ Len(air \o out) = m + n
            /\ \A i \in 1 .. m + n : (air \o out)[i] = IF i <= m THEN air[i] ELSE out[i - m]
        <5> DEFINE U == S \cup T
        <5>1. air \in Seq(U) /\ out \in Seq(U)  BY <4>4
        <5> HIDE DEF U
        <5>2. /\ air \o out \in Seq(U) /\ Len(air \o out) = Len(air) + Len(out)
              /\ \A i \in 1 .. Len(air) + Len(out) :
                   (air \o out)[i] = IF i <= Len(air) THEN air[i] ELSE out[i - Len(air)]
          BY <5>1, ConcatProperties
        <5>3. /\ air \o out \in Seq(U) /\ Len(air \o out) = m + n
              /\ \A i \in 1 .. m + n : (air \o out)[i] = IF i <= m THEN air[i] ELSE out[i - m]
          BY <3>2, <4>3, <5>2
        <5> QED BY <5>3 DEF U
      <4>6. DOMAIN (air \o out) = 1 .. m + n  BY <4>5, LenProperties
      <4> QED BY <1>1, <2>4, <4>5, <4>6
    <3> HIDE DEF out
    <3>5. \A i \in 1 .. m : i \in 1 .. m + n /\ air'[i] = air[i]  BY <3>4
    <3>6. \A i \in 1 .. n : m + i \in 1 .. m + n /\ air'[m + i] = out[i]
      <4>1. ASSUME NEW i \in 1 .. n PROVE m + i \in 1 .. m + n /\ ~(m + i <= m) /\ (m + i) - m = i
        BY <4>1
      <4> QED BY <4>1, <3>4
    <3>7. \A i \in DOMAIN air' : i \in 1 .. m \/ \E k \in 1 .. n : i = m + k
      <4>1. ASSUME NEW i \in 1 .. m + n, ~(i \in 1 .. m) PROVE i - m \in 1 .. n /\ i = m + (i - m)
        BY <4>1
      <4> QED BY <4>1, <3>4
    <3>8. \A i \in DOMAIN air' : air'[i].frame \in TxFrame /\ stage'[air'[i].frame] = "sent"
      <4>1. \A i \in 1 .. m : air[i].frame \in TxFrame /\ stage'[air[i].frame] = "sent"
        BY <2>2, <3>2, <1>1 DEF RateInv
      <4>2. \A i \in 1 .. n : out[i].frame \in TxFrame /\ stage'[out[i].frame] = "sent"
        BY <3>3, <2>4, <1>1
      <4> QED BY <4>1, <4>2, <3>5, <3>6, <3>7
    <3>9. ASSUME NEW i \in DOMAIN air', air'[i].rate # read[air'[i].frame].rate
          PROVE  /\ read[air'[i].frame].rate = NoRate /\ read[air'[i].frame].capped
                 /\ \E j \in DOMAIN air' : /\ air'[j].size = air'[i].size /\ air'[j].size > 1
                                           /\ air'[i].rate = read[air'[j].frame].rate
      <4>1. CASE i \in 1 .. m
        <5>1. /\ read[air[i].frame].rate = NoRate /\ read[air[i].frame].capped
              /\ \E j \in 1 .. m : /\ air[j].size = air[i].size /\ air[j].size > 1
                                   /\ air[i].rate = read[air[j].frame].rate
          BY <4>1, <3>2, <3>5, <3>9 DEF RateInv, EachAtItsRate
        <5> QED BY <5>1, <4>1, <3>4, <3>5
      <4>2. CASE \E k \in 1 .. n : i = m + k
        <5>1. PICK k \in 1 .. n : i = m + k  BY <4>2
        <5>2. air'[i] = out[k] /\ RateIn(batch, batch[k]) # read[batch[k]].rate
          BY <5>1, <3>3, <3>6, <3>9
        <5>3. /\ read[batch[k]].rate = NoRate /\ n > 1
              /\ \E j \in 1 .. n : RateIn(batch, batch[k]) = read[batch[j]].rate
          BY <5>2, <3>2, <1>2, RateOfTheBurst
        <5>6. read[batch[k]].capped
          BY <5>3, <3>3, <1>6 DEF PlaceInv
        <5>4. PICK j \in 1 .. n : RateIn(batch, batch[k]) = read[batch[j]].rate  BY <5>3
        <5>5. m + j \in DOMAIN air' /\ air'[m + j] = out[j]  BY <3>4, <3>6
        <5> QED BY <5>2, <5>3, <5>4, <5>5, <5>6, <3>3
      <4> QED BY <4>1, <4>2, <3>7
    <3>10. \A a \in alone' : a.frame \in TxFrame /\ stage'[a.frame] = "direct" /\ a.rate = read'[a.frame].rate
      BY <2>1, <1>1 DEF RateInv, EachAtItsRate
    <3> QED BY <3>8, <3>9, <3>10, <1>1 DEF RateInv, EachAtItsRate
  <2> QED BY <2>3, <2>4
<1> QED BY <1>5, <1>7, <1>8

LEMMA BatchInvStep ==
  ASSUME BatchIndInv, [TxNext]_txVars
  PROVE  BatchIndInv'
<1> USE DEF BatchIndInv
<1>1. QueueInv'  BY QueueInvStep
<1>5. mcs' \in Mcs
  <2>1. CASE Change
    <3>1. UNCHANGED mcs \/ mcs' \in Mcs \ {mcs}  BY <2>1 DEF Change
    <3> QED BY <3>1
  <2>2. ASSUME NEW f \in TxFrame, (\E k \in Kinds : inject(f, k)) \/ inject_with_intent(f) \/ Direct(f) \/ submit(f)
        PROVE  UNCHANGED mcs
    BY <2>2 DEF inject, inject_with_intent, Direct, submit, shared
  <2>3. Open \/ Join \/ Flush \/ TearDown \/ TxTick \/ UNCHANGED txVars => UNCHANGED mcs
    BY DEF Open, Join, Flush, TearDown, TxTick, shared, txVars
  <2>4. ASSUME NEW ok \in BOOLEAN, Injected(ok) PROVE UNCHANGED mcs
    BY <2>4 DEF Injected, shared
  <2> QED BY <2>1, <2>2, <2>3, <2>4 DEF TxNext
<1>2. CASE TearDown \/ Change \/ UNCHANGED txVars
  <2>1. UNCHANGED <<queue, batch, left, busy, waited, blocked, stage, read, air, alone>>
    BY <1>2 DEF TearDown, Change, txVars, batcher
  <2>2. Waiting' = Waiting /\ Held' = Held  BY <2>1 DEF Waiting, Held
  <2> QED BY <1>1, <1>5, <2>1, <2>2, HeldStay, MovesKeep
<1>3. ASSUME NEW f \in TxFrame,
             (\E k \in Kinds : inject(f, k)) \/ inject_with_intent(f) \/ Direct(f) \/ submit(f)
      PROVE  HoldInv' /\ PlaceInv' /\ RateInv'
  BY <1>3, OfferKeeps, DirectKeeps, SubmitKeeps
<1>4. ASSUME NEW ok \in BOOLEAN, Injected(ok)
      PROVE  HoldInv' /\ PlaceInv' /\ RateInv'
  BY <1>4, InjectedKeeps
<1> QED BY <1>1, <1>2, <1>3, <1>4, <1>5, OpenKeeps, JoinKeeps, FlushKeeps, TickKeeps DEF TxNext

(***************************************************************************)
(* Whatever the control loop does to plan, rate and gate meanwhile: each    *)
(* frame is in one place and leaves at the rate decided for it, or, capped  *)
(* after its intent was taken, at that of another of its batch; a robust    *)
(* one is never held, and coalescing costs a frame the window at most,      *)
(* besides the injections it waits behind (MediumBatcher, inject_batch).    *)
(***************************************************************************)
THEOREM BatcherKeepsItsWord == TxSpec => []BatcherInv
<1>1. BatchIndInv => BatcherInv
  <2> SUFFICES ASSUME BatchIndInv PROVE BatcherInv
    OBVIOUS
  <2> USE DEF BatchIndInv
  <2>1. TxTypeOK  BY DEF TxTypeOK, QueueInv, HoldInv, PlaceInv
  <2>2. HeldNoLongerThanTheWindow
    <3>1. ASSUME NEW f \in Held PROVE waited[f] <= Window + InjectTime * blocked[f]
      <4>1. f \in TxFrame  BY <3>1, HeldIsWaiting
      <4> DEFINE p == InjectTime * blocked[f]
                 w == waited[f]
      <4>2. p \in Nat /\ w \in Nat /\ Window \in Nat /\ InjectTime \in Nat
        BY <4>1, TxAssumption DEF HoldInv
      <4>3. left \in Nat /\ busy \in Int /\ busy <= InjectTime /\ (busy = -1 \/ busy >= 0)
        BY TxAssumption DEF HoldInv
      <4>4. \/ w <= p
            \/ w + InjectTime <= p + busy
            \/ w + left <= p + Window
            \/ w + InjectTime <= p + busy + Window
        BY <3>1, <4>3 DEF HoldInv, Held
      <4> HIDE DEF p, w
      <4>5. w <= Window + p  BY <4>2, <4>3, <4>4
      <4> QED BY <4>5 DEF p, w
    <3> QED BY <3>1 DEF HeldNoLongerThanTheWindow
  <2> QED BY <2>1, <2>2 DEF BatcherInv, PlaceInv, RateInv
<1> QED BY <1>1, BatchInvInit, BatchInvStep, PTL DEF TxSpec

---------------------------------------------------------------------------
(* What a medium is built of, in whatever order. *)

(* A radio that tells what it is, is described as it tells, unless a caller was *)
(* taken at its word.                                                          *)
CapIsTold(b) ==
  /\ b.driver \in Drivers
  /\ ~b.guess /\ SelfDescribed(b) =>
       LET hw == Hw(b.driver)
       IN  /\ b.cap.mcs = hw.mcs /\ b.cap.retune = hw.retune /\ b.cap.dbm = hw.dbm
           /\ b.cap.channels \subseteq hw.channels

(* What the control plane was told is what the radio is taken for, or says. *)
Told(c, b) == c = effective_cap(b) \/ (c = b.cap /\ ~b.guess)
ControlIsTold ==
  /\ \A i \in DOMAIN mbControl : i \in DOMAIN mbBearers /\ Told(mbControl[i], mbBearers[i])
  /\ mbPhase \in {"opening", "refused"} => mbControl = << >>

(* The medium that runs is the one configured, and there is at most one task   *)
(* about to start it.                                                          *)
OneIsStarted ==
  /\ mbTaken \in BOOLEAN
  /\ mbRunning = IF mbTaken THEN << [bearers |-> Spawned, mtu |-> mbSize] >> ELSE << >>
  /\ mbTaken => mbPhase \notin {"opening", "refused"}
  /\ DOMAIN mbTasks = MbTask
  /\ \A t \in MbTask :
       /\ mbTasks[t] # "panicked"
       /\ mbTasks[t] = "in" => mbTaken
       /\ mbTasks[t] # "idle" => mbPath = "phy" /\ mbPhase \notin {"opening", "refused"}
       /\ mbTasks[t] = "first" => ~mbTaken /\ \A o \in MbTask \ {t} : mbTasks[o] # "first"
       /\ mbTasks[t] \in {"asked", "first"} => mbPhase = "building"

FaceAsMedium == mbPath = "phy" => mbFaceRate = mbRate /\ mbFaceSize = mbSize

BuildIndInv ==
  /\ \E S : mbBearers \in Seq(S)
  /\ \A i \in DOMAIN mbBearers : CapIsTold(mbBearers[i])
  /\ mbPath = "factory" => \A i \in DOMAIN mbBearers : ~mbBearers[i].guess
  /\ ControlIsTold /\ OneIsStarted /\ FaceAsMedium

(* What a bearer is said to be able to do when the radio itself tells. *)
LEMMA RadioOutranks ==
  ASSUME NEW d \in Drivers, NEW told, MbDriver[d].describes, ~MbDriver[d].echoes
  PROVE  LET made == effective_hw_cap(d, told)  hw == Hw(d)
         IN  /\ made.mcs = hw.mcs /\ made.retune = hw.retune /\ made.dbm = hw.dbm
             /\ made.channels \subseteq hw.channels
             /\ made = [mcs |-> hw.mcs, retune |-> hw.retune, channels |-> made.channels, dbm |-> hw.dbm]
<1> DEFINE hw == MbDriver[d].hw
           ch == IF told.channels \cap hw.channels = {} THEN hw.channels ELSE told.channels \cap hw.channels
<1>1. hw = [mcs |-> hw.mcs, retune |-> hw.retune, channels |-> hw.channels, dbm |-> hw.dbm]
  BY MbAssumption
<1>2. effective_hw_cap(d, told) = [hw EXCEPT !.channels = ch]
  BY DEF effective_hw_cap, Hw
<1>3. ch \subseteq hw.channels
  OBVIOUS
<1> HIDE DEF ch
<1>4. [hw EXCEPT !.channels = ch] = [mcs |-> hw.mcs, retune |-> hw.retune, channels |-> ch, dbm |-> hw.dbm]
  BY <1>1
<1> QED BY <1>2, <1>3, <1>4 DEF Hw

LEMMA NewBearerIsTold ==
  ASSUME NEW d \in Drivers, NEW asserted, NEW handles, NEW pin
  PROVE  CapIsTold(NewBearer(d, asserted, handles, pin)) /\ ~NewBearer(d, asserted, handles, pin).guess
<1> DEFINE b == NewBearer(d, asserted, handles, pin)
<1>1. b.driver = d /\ b.cap = effective_hw_cap(d, asserted) /\ b.guess = FALSE
  BY DEF NewBearer, Bearer
<1> HIDE DEF b
<1>2. SelfDescribed(b) => MbDriver[d].describes /\ ~MbDriver[d].echoes
  BY <1>1 DEF SelfDescribed
<1>3. CapIsTold(b)
  BY <1>1, <1>2, RadioOutranks DEF CapIsTold
<1> QED BY <1>1, <1>3 DEF b

LEMMA FactoryBearerIsTold ==
  ASSUME NEW spec, spec.driver \in Drivers
  PROVE  CapIsTold(build_bearer(spec)) /\ ~build_bearer(spec).guess
<1> DEFINE d == spec.driver
           b == NewBearer(d, Asserted(spec), Attached(d), spec.channel)
           c == [b EXCEPT !.cap = [@ EXCEPT !.dbm = Hw(d).dbm]]
<1>1. CapIsTold(b) /\ ~b.guess
  BY NewBearerIsTold
<1>2. build_bearer(spec) = IF d \in {"af-packet", "halow"} THEN c ELSE b
  BY DEF build_bearer
<1>3. /\ c.driver = d /\ c.guess = FALSE
      /\ c.cap = [effective_hw_cap(d, Asserted(spec)) EXCEPT !.dbm = Hw(d).dbm]
  BY DEF NewBearer, Bearer
<1>4. ASSUME MbDriver[d].describes, ~MbDriver[d].echoes
      PROVE  /\ c.cap.mcs = Hw(d).mcs /\ c.cap.retune = Hw(d).retune /\ c.cap.dbm = Hw(d).dbm
             /\ c.cap.channels \subseteq Hw(d).channels
  <2> DEFINE e == effective_hw_cap(d, Asserted(spec))
  <2>1. e = [mcs |-> Hw(d).mcs, retune |-> Hw(d).retune, channels |-> e.channels, dbm |-> Hw(d).dbm]
        /\ e.channels \subseteq Hw(d).channels
    BY <1>4, RadioOutranks
  <2>2. c.cap = [e EXCEPT !.dbm = Hw(d).dbm]
    BY <1>3
  <2> HIDE DEF e, c, b
  <2> QED BY <2>1, <2>2
<1> HIDE DEF b, c
<1>5. CapIsTold(c)
  BY <1>3, <1>4 DEF CapIsTold, SelfDescribed
<1> QED BY <1>1, <1>2, <1>3, <1>5

(* Nothing is brought up at first. *)
LEMMA BuildInit == MbInit => BuildIndInv
<1> SUFFICES ASSUME MbInit PROVE BuildIndInv
  OBVIOUS
<1>1. << >> \in Seq({}) /\ DOMAIN mbBearers = {} /\ DOMAIN mbControl = {}
  BY DEF MbInit
<1>2. \E S : mbBearers \in Seq(S)
  BY <1>1 DEF MbInit
<1> QED BY <1>1, <1>2 DEF MbInit, BuildIndInv, ControlIsTold, OneIsStarted, FaceAsMedium

(* One more radio, whoever opens it. *)
LEMMA OneMoreTold ==
  ASSUME BuildIndInv, NEW b, CapIsTold(b), mbPath = "factory" => ~b.guess, mbPhase = "opening",
         mbBearers' = Append(mbBearers, b),
         UNCHANGED <<mbPath, mbControl, mbPhase, mbConfig, mbUse>>
  PROVE  BuildIndInv'
<1>1. PICK S : mbBearers \in Seq(S)
  BY DEF BuildIndInv
<1> DEFINE R == S \cup {b}
<1>2. mbBearers \in Seq(R) /\ b \in R
  BY <1>1, SeqMonotonic
<1> HIDE DEF R
<1>3. PICK n \in Nat : n = Len(mbBearers) /\ DOMAIN mbBearers = 1 .. n
  BY <1>1, LenProperties
<1>4. /\ mbBearers' \in Seq(R) /\ DOMAIN mbBearers' = 1 .. n + 1
      /\ \A i \in 1 .. n : mbBearers'[i] = mbBearers[i]
      /\ mbBearers'[n + 1] = b
  BY <1>2, <1>3, AppendProperties, LenProperties
<1>5. \A i \in DOMAIN mbBearers' : CapIsTold(mbBearers'[i])
  BY <1>3, <1>4 DEF BuildIndInv
<1>6. (\A i \in DOMAIN mbBearers : CapIsTold(mbBearers[i]))'
  BY <1>5 DEF CapIsTold, SelfDescribed, effective_cap
<1>7. (mbPath = "factory" => \A i \in DOMAIN mbBearers : ~mbBearers[i].guess)'
  BY <1>3, <1>4 DEF BuildIndInv
<1>8. mbControl = << >> /\ DOMAIN mbControl = {} /\ ~mbTaken
  BY DEF BuildIndInv, ControlIsTold, OneIsStarted
<1>9. ControlIsTold'
  BY <1>8 DEF ControlIsTold
<1>10. OneIsStarted' /\ FaceAsMedium'
  BY <1>8 DEF BuildIndInv, OneIsStarted, FaceAsMedium, mbConfig, mbUse
<1> QED BY <1>4, <1>6, <1>7, <1>9, <1>10 DEF BuildIndInv

(* The radio that a caller wraps in a face. *)
LEMMA WrappedAsTold ==
  ASSUME BuildIndInv, NEW b, CapIsTold(b), Wrapped(b)
  PROVE  BuildIndInv'
<1>1. /\ mbPath = "phy" /\ mbPhase = "opening" /\ mbPhase' = "building" /\ mbPath' = mbPath
      /\ mbBearers' = << b >> /\ mbRate' = mbFaceRate'
      /\ UNCHANGED <<mbControl, mbSize, mbFaceSize, mbTasks, mbTaken, mbRunning>>
  BY DEF Wrapped, mbUse
<1>2. mbControl = << >> /\ mbTaken = FALSE /\ mbRunning = << >> /\ DOMAIN mbTasks = MbTask
      /\ \A t \in MbTask : mbTasks[t] = "idle"
  BY <1>1 DEF BuildIndInv, ControlIsTold, OneIsStarted
<1>3. mbBearers' \in Seq({b}) /\ DOMAIN mbBearers' = {1} /\ mbBearers'[1] = b
  BY <1>1
<1>4. (\A i \in DOMAIN mbBearers : CapIsTold(mbBearers[i]))'
  BY <1>3 DEF CapIsTold, SelfDescribed
<1>5. ControlIsTold' /\ OneIsStarted' /\ FaceAsMedium'
  BY <1>1, <1>2 DEF BuildIndInv, ControlIsTold, OneIsStarted, FaceAsMedium
<1> QED BY <1>1, <1>3, <1>4, <1>5 DEF BuildIndInv

(* A radio is opened, or is one that a caller hands over. *)
LEMMA OpenedAsTold ==
  ASSUME BuildIndInv, OpenNext \/ OpenFails \/ NewPhy \/ Halow \/ OpenPhy \/ AddBearer
  PROVE  BuildIndInv'
<1>1. CASE OpenNext
  <2>1. PICK spec \in SpecOf : Complete(spec) /\ mbBearers' = Append(mbBearers, build_bearer(spec))
    BY <1>1 DEF OpenNext
  <2>2. spec.driver \in Drivers
    BY <2>1, MbAssumption DEF Complete
  <2> DEFINE b == build_bearer(spec)
  <2>3. CapIsTold(b) /\ ~b.guess
    BY <2>2, FactoryBearerIsTold
  <2>4. mbBearers' = Append(mbBearers, b)
    BY <2>1
  <2> HIDE DEF b
  <2> QED BY <1>1, <2>3, <2>4, OneMoreTold DEF OpenNext
<1>2. CASE OpenFails
  <2>1. /\ mbPath' = mbPath /\ mbPath = "factory" /\ mbBearers' = << >> /\ mbPhase = "opening" /\ mbPhase' = "refused"
        /\ UNCHANGED <<mbControl, mbTasks, mbTaken, mbRunning>>
    BY <1>2 DEF OpenFails, mbUse
  <2>2. mbControl = << >> /\ mbTaken = FALSE /\ mbRunning = << >> /\ DOMAIN mbTasks = MbTask
        /\ \A t \in MbTask : mbTasks[t] = "idle"
    BY <2>1 DEF BuildIndInv, ControlIsTold, OneIsStarted
  <2>3. << >> \in Seq({}) /\ DOMAIN mbBearers' = {} /\ DOMAIN mbControl' = {}
    BY <2>1, <2>2
  <2>4. ControlIsTold' /\ OneIsStarted' /\ FaceAsMedium'
    BY <2>1, <2>2, <2>3 DEF ControlIsTold, OneIsStarted, FaceAsMedium
  <2> QED BY <2>1, <2>3, <2>4 DEF BuildIndInv
<1>3. ASSUME NEW d \in Drivers, NEW c, NEW handles, NEW pin
      PROVE  /\ CapIsTold(NewBearer(d, c, handles, pin)) /\ CapIsTold(FromOpen(d, c, pin))
             /\ ~NewBearer(d, c, handles, pin).guess
  BY NewBearerIsTold DEF CapIsTold, FromOpen, Bearer
<1>4. MbBuilt \subseteq Drivers /\ "halow" \in Drivers
  BY MbAssumption DEF Drivers
<1>5. CASE NewPhy
  <2>1. PICK d \in MbBuilt : Wrapped(NewBearer(d, Preset("5ghz", {}), {}, MbNone))
    BY <1>5 DEF NewPhy
  <2> QED BY <2>1, <1>3, <1>4, WrappedAsTold
<1>6. CASE Halow
  <2>1. PICK c \in MbChannel : Wrapped(NewBearer("halow", [Preset("s1g", {c}) EXCEPT !.dbm = Hw("halow").dbm], {}, MbNone))
    BY <1>6 DEF Halow
  <2> QED BY <2>1, <1>3, <1>4, WrappedAsTold
<1>7. CASE OpenPhy
  <2>1. PICK d \in MbBuilt, kind \in DOMAIN MbPreset : Wrapped(FromOpen(d, Preset(kind, {}), MbNone))
    BY <1>7 DEF OpenPhy
  <2> QED BY <2>1, <1>3, <1>4, WrappedAsTold
<1>8. CASE AddBearer
  <2>1. PICK d \in MbBuilt, pin \in MbChannel \cup {MbNone} :
          LET guess == Preset("5ghz", IF pin = MbNone THEN {} ELSE {pin})
          IN  mbBearers' \in {Append(mbBearers, NewBearer(d, guess, {}, pin)), Append(mbBearers, FromOpen(d, guess, pin))}
    BY <1>8 DEF AddBearer
  <2>2. PICK b : CapIsTold(b) /\ mbBearers' = Append(mbBearers, b)
    BY <2>1, <1>3, <1>4
  <2>3. mbPath # "factory"
    BY <1>8 DEF AddBearer
  <2> QED BY <1>8, <2>2, <2>3, OneMoreTold DEF AddBearer
<1> QED BY <1>1, <1>2, <1>5, <1>6, <1>7, <1>8

(* What is not brought up or configured stays told. *)
LEMMA ToldStays ==
  ASSUME BuildIndInv, UNCHANGED mbRadiosUp, mbPhase' \in {"opening", "refused"} => mbPhase \in {"opening", "refused"},
         OneIsStarted', FaceAsMedium'
  PROVE  BuildIndInv'
<1>1. UNCHANGED <<mbPath, mbBearers, mbControl>>
  BY DEF mbRadiosUp
<1>2. (\A i \in DOMAIN mbBearers : CapIsTold(mbBearers[i]))'
  BY <1>1 DEF BuildIndInv, CapIsTold, SelfDescribed
<1>3. ControlIsTold'
  BY <1>1 DEF BuildIndInv, ControlIsTold, Told, effective_cap
<1> QED BY <1>1, <1>2, <1>3 DEF BuildIndInv

(* All the radios are registered with the control plane. *)
LEMMA RegisteredAsTold == ASSUME BuildIndInv, RegisterAll \/ capabilities PROVE BuildIndInv'
<1>1. /\ mbPhase = "opening" /\ mbPhase' = "building"
      /\ UNCHANGED <<mbPath, mbBearers, mbFaceRate, mbRate, mbFaceSize, mbSize, mbTasks, mbTaken, mbRunning>>
      /\ DOMAIN mbControl' = DOMAIN mbBearers
      /\ \A i \in DOMAIN mbBearers :
           \/ mbControl'[i] = effective_cap(mbBearers[i])
           \/ mbControl'[i] = mbBearers[i].cap /\ mbPath = "factory"
  BY DEF RegisterAll, capabilities, mbConfig, mbUse
<1>2. mbTaken = FALSE
  BY <1>1 DEF BuildIndInv, OneIsStarted
<1>3. (\A i \in DOMAIN mbBearers : CapIsTold(mbBearers[i]))'
  BY <1>1 DEF BuildIndInv, CapIsTold, SelfDescribed
<1>4. ControlIsTold'
  BY <1>1 DEF BuildIndInv, ControlIsTold, Told, effective_cap
<1>5. OneIsStarted' /\ FaceAsMedium'
  BY <1>1, <1>2 DEF BuildIndInv, OneIsStarted, FaceAsMedium
<1> QED BY <1>1, <1>3, <1>4, <1>5 DEF BuildIndInv

(* A builder owns the face: nothing runs yet, and it sets both copies. *)
LEMMA BuildersKeepTold ==
  ASSUME BuildIndInv,
         \/ with_link_fec \/ with_fec_eligibility \/ with_amsdu_batching
         \/ with_signal_sink \/ WithRate \/ with_mtu
  PROVE  BuildIndInv'
<1>1. /\ mbPhase = "building" /\ ~mbTaken /\ mbPath' = mbPath
      /\ UNCHANGED <<mbRadiosUp, mbPhase, mbTasks, mbTaken, mbRunning>>
  BY DEF mbRadiosUp, with_link_fec, with_fec_eligibility, with_amsdu_batching, with_signal_sink, WithRate, with_mtu,
         Building, Owned, Built, mbUse
<1>2. FaceAsMedium'
  BY DEF BuildIndInv, FaceAsMedium, with_link_fec, with_fec_eligibility, with_amsdu_batching, with_signal_sink,
         WithRate, with_mtu, OnFace, Built, mbRadiosUp
<1>3. OneIsStarted'
  BY <1>1 DEF BuildIndInv, OneIsStarted
<1> QED BY <1>1, <1>2, <1>3, ToldStays

(* The configuration is taken once, by the one that starts the medium. *)
LEMMA StartTakesAll ==
  ASSUME BuildIndInv, ~mbTaken, Started, UNCHANGED <<mbRadiosUp, mbConfig>>
  PROVE  mbTaken' = TRUE /\ mbRunning' = << [bearers |-> Spawned', mtu |-> mbSize'] >>
<1>1. mbRunning = << >> /\ mbTaken' = TRUE /\ mbRunning' = Append(mbRunning, [bearers |-> Spawned, mtu |-> mbSize])
  BY DEF Started, BuildIndInv, OneIsStarted
<1>2. Spawned' = Spawned /\ mbSize' = mbSize
  BY DEF Spawned, Batches, mbConfig, mbRadiosUp
<1> HIDE DEF Spawned
<1> QED BY <1>1, <1>2

(* Whoever comes first starts it, the others wait and join; once it is used    *)
(* or mounted it cannot be built on.                                           *)
LEMMA StartedOnce ==
  ASSUME BuildIndInv, Mount \/ UsedUp \/ \E t \in MbTask : Ask(t) \/ Permit(t) \/ Start(t) \/ MbJoin(t)
  PROVE  BuildIndInv'
<1>0. UNCHANGED <<mbRadiosUp, mbConfig>> /\ FaceAsMedium'
  BY DEF BuildIndInv, FaceAsMedium, Mount, UsedUp, Ask, Permit, Start, MbJoin, mbConfig, mbRadiosUp
<1>1. Spawned' = Spawned /\ mbSize' = mbSize
  BY <1>0 DEF Spawned, Batches, mbConfig, mbRadiosUp
<1> HIDE DEF Spawned
<1>2. CASE Mount
  <2>1. /\ mbPhase = "building" /\ mbPhase' = "mounted" /\ ~mbTaken /\ Started /\ mbTasks' = mbTasks
        /\ mbPath = "factory" \/ \A t \in MbTask : mbTasks[t] \in {"idle", "in"}
    BY <1>2 DEF Mount, Owned
  <2>2. mbTaken' = TRUE /\ mbRunning' = << [bearers |-> Spawned', mtu |-> mbSize'] >>
    BY <1>0, <2>1, StartTakesAll
  <2>3. \A t \in MbTask : mbTasks[t] = "idle"
    BY <2>1 DEF BuildIndInv, OneIsStarted
  <2>4. OneIsStarted'
    BY <2>1, <2>2, <2>3 DEF BuildIndInv, OneIsStarted
  <2> QED BY <1>0, <2>1, <2>4, ToldStays
<1>3. CASE UsedUp
  <2>1. /\ mbPath' = mbPath /\ mbPhase = "building" /\ mbPhase' = "panicked" /\ mbTaken /\ UNCHANGED <<mbTasks, mbTaken, mbRunning>>
        /\ \A t \in MbTask : mbTasks[t] \in {"idle", "in"}
    BY <1>3 DEF UsedUp, Owned, mbUse, mbRadiosUp
  <2>2. OneIsStarted'
    BY <1>1, <2>1 DEF BuildIndInv, OneIsStarted
  <2> QED BY <1>0, <2>1, <2>2, ToldStays
<1>4. ASSUME NEW t \in MbTask, Ask(t) \/ Permit(t) \/ Start(t) \/ MbJoin(t)
      PROVE  BuildIndInv'
  <2>1. DOMAIN mbTasks = MbTask /\ mbPath = "phy" /\ mbPath' = mbPath /\ mbPhase = "building" /\ mbPhase' = mbPhase
    BY <1>4 DEF BuildIndInv, OneIsStarted, Ask, Permit, Start, MbJoin, mbRadiosUp
  <2>2. CASE Ask(t)
    <3>1. mbTasks' = [mbTasks EXCEPT ![t] = "asked"] /\ UNCHANGED <<mbTaken, mbRunning>>
      BY <2>2 DEF Ask, Steps_on
    <3>2. OneIsStarted'
      BY <1>0, <1>1, <2>1, <3>1 DEF BuildIndInv, OneIsStarted
    <3> QED BY <1>0, <2>1, <3>2, ToldStays
  <2>3. CASE Permit(t)
    <3>1. /\ mbRunning = << >> /\ \A o \in MbTask : mbTasks[o] # "first"
          /\ mbTasks' = [mbTasks EXCEPT ![t] = "first"] /\ UNCHANGED <<mbTaken, mbRunning>>
      BY <2>3 DEF Permit, Steps_on, MayStart
    <3>2. ~mbTaken
      BY <3>1 DEF BuildIndInv, OneIsStarted
    <3>3. OneIsStarted'
      BY <1>0, <2>1, <3>1, <3>2 DEF BuildIndInv, OneIsStarted
    <3> QED BY <1>0, <2>1, <3>3, ToldStays
  <2>4. CASE Start(t)
    <3>1. /\ ~mbTaken /\ \A o \in MbTask \ {t} : mbTasks[o] # "first"
      BY <2>4 DEF Start, BuildIndInv, OneIsStarted
    <3>2. Started /\ mbTasks' = [mbTasks EXCEPT ![t] = "in"]
      BY <2>4, <3>1 DEF Start, Steps_on
    <3>3. mbTaken' = TRUE /\ mbRunning' = << [bearers |-> Spawned', mtu |-> mbSize'] >>
      BY <1>0, <3>1, <3>2, StartTakesAll
    <3>4. OneIsStarted'
      BY <1>0, <2>1, <3>1, <3>2, <3>3 DEF BuildIndInv, OneIsStarted
    <3> QED BY <1>0, <2>1, <3>4, ToldStays
  <2>5. CASE MbJoin(t)
    <3>1. mbRunning # << >> /\ mbTasks' = [mbTasks EXCEPT ![t] = "in"] /\ UNCHANGED <<mbTaken, mbRunning>>
      BY <2>5 DEF MbJoin, Steps_on
    <3>2. mbTaken
      BY <3>1 DEF BuildIndInv, OneIsStarted
    <3>3. OneIsStarted'
      BY <1>0, <1>1, <2>1, <3>1, <3>2 DEF BuildIndInv, OneIsStarted
    <3> QED BY <1>0, <2>1, <3>3, ToldStays
  <2> QED BY <1>4, <2>2, <2>3, <2>4, <2>5
<1> QED BY <1>2, <1>3, <1>4

(* What is configured and told is what runs. *)
LEMMA ToldIsBuilt == BuildIndInv => BuildInv
<1> SUFFICES ASSUME BuildIndInv PROVE BuildInv
  OBVIOUS
<1> DEFINE m == [bearers |-> Spawned, mtu |-> mbSize]
<1>0. /\ mbTaken => mbRunning = << m >>
      /\ ~mbTaken => mbRunning = << >>
  BY DEF BuildIndInv, OneIsStarted
<1>1. /\ m.mtu = mbSize /\ m.bearers = Spawned /\ DOMAIN Spawned = DOMAIN mbBearers
      /\ \A i \in DOMAIN mbBearers : /\ Spawned[i].rate = mbRate /\ Spawned[i].bridge = (mbFec # "off")
                                     /\ Spawned[i].gated = (mbFec = "gated") /\ Spawned[i].batcher = Batches
                                     /\ Spawned[i].hops = vet_hop(mbBearers[i].cap)
  BY DEF Spawned
<1> HIDE DEF m
<1>2. Len(mbRunning) <= 1 /\ (mbTaken => Len(mbRunning) = 1) /\ \A x \in Media : x = m
  BY <1>0 DEF BuildIndInv, OneIsStarted, Media
<1>3. BuiltOnce
  BY <1>2 DEF BuiltOnce, BuildIndInv, OneIsStarted
<1>4. FaceIsItsMedium
  BY <1>1, <1>2 DEF FaceIsItsMedium, BuildIndInv, FaceAsMedium
<1>5. NeverStacked
  <2>1. ~(Batches /\ mbFec # "off")
    BY DEF Batches
  <2> QED BY <1>1, <1>2, <2>1 DEF NeverStacked
<1>6. NothingBeyondTheRadio
  <2> SUFFICES ASSUME NEW i \in DOMAIN mbBearers, SelfDescribed(mbBearers[i])
               PROVE  /\ i \in DOMAIN mbControl => Within(mbControl[i], Hw(mbBearers[i].driver))
                      /\ \A x \in Media : ~mbBearers[i].guess /\ x.bearers[i].hops => vet_hop(Hw(mbBearers[i].driver))
    BY DEF NothingBeyondTheRadio
  <2> DEFINE b == mbBearers[i]
  <2>1. CapIsTold(b) /\ b.driver \in Drivers /\ Hw(b.driver).mcs \in Nat
    BY MbAssumption DEF BuildIndInv, CapIsTold, Hw
  <2>2. Within(Hw(b.driver), Hw(b.driver))
    BY <2>1 DEF Within
  <2>3. ~b.guess => Within(b.cap, Hw(b.driver)) /\ b.cap.retune = Hw(b.driver).retune
    BY <2>1 DEF CapIsTold, Within
  <2>4. b.guess => effective_cap(b) = Hw(b.driver)
    BY DEF SelfDescribed, effective_cap
  <2>5. i \in DOMAIN mbControl => Told(mbControl[i], b)
    BY DEF BuildIndInv, ControlIsTold
  <2>6. i \in DOMAIN mbControl => Within(mbControl[i], Hw(b.driver))
    BY <2>2, <2>3, <2>4, <2>5 DEF Told, effective_cap
  <2>7. ~b.guess => vet_hop(b.cap) = vet_hop(Hw(b.driver))
    BY <2>3 DEF vet_hop
  <2>8. ASSUME NEW x \in Media, ~b.guess, x.bearers[i].hops PROVE vet_hop(Hw(b.driver))
    BY <1>1, <1>2, <2>7, <2>8
  <2> QED BY <2>6, <2>8
<1> QED BY <1>3, <1>4, <1>5, <1>6 DEF BuildInv

(***************************************************************************)
(* However a medium is put together and however many tasks use it first,   *)
(* one is started, as the face was configured; frames are coded or         *)
(* bundled, never both; a radio that tells what it is, is never planned    *)
(* for beyond it.                                                          *)
(***************************************************************************)
THEOREM MediumIsBuiltOnce == MbSpec => []BuildInv
<1>1. BuildIndInv /\ [MbNext]_mbVars => BuildIndInv'
  <2> SUFFICES ASSUME BuildIndInv, [MbNext]_mbVars PROVE BuildIndInv'
    OBVIOUS
  <2>1. CASE UNCHANGED mbVars
    <3>1. /\ UNCHANGED <<mbRadiosUp, mbPhase, mbTasks, mbTaken, mbRunning, mbFec, mbAmsdu, mbRate, mbSize, mbSink>>
          /\ FaceAsMedium'
      BY <2>1 DEF mbVars, mbRadiosUp, mbConfig, mbUse, BuildIndInv, FaceAsMedium
    <3>2. Spawned' = Spawned
      BY <3>1 DEF Spawned, Batches, mbRadiosUp
    <3> HIDE DEF Spawned
    <3>3. OneIsStarted'
      BY <3>1, <3>2 DEF BuildIndInv, OneIsStarted, mbRadiosUp
    <3> QED BY <3>1, <3>3, ToldStays
  <2> QED BY <2>1, OpenedAsTold, RegisteredAsTold, BuildersKeepTold, StartedOnce DEF MbNext
<1> QED BY <1>1, BuildInit, ToldIsBuilt, PTL DEF MbSpec
===========================================================================
