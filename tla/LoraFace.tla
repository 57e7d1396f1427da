------------------------------ MODULE LoraFace ------------------------------
(* A LoRa face whose control plane writes a plan that every send takes to the  *)
(* radio first (LoraPhy of ndn-phy-lora).  The knobs are pushed under one lock, *)
(* except that a change of modulation lets go of it to read the radio's new    *)
(* description, which the frame size, the span of spreading factors and the    *)
(* range of power all come from.  Several tasks send through one face.         *)
EXTENDS Integers, FiniteSets

CONSTANTS
  LfSender,
  LfMode,         \* modulations the radio has
  LfAdvertised,   \* those its description names (phy_modes)
  LfLands,        \* Mode -> Mode: the one set_phy really puts on
  LfPayload,      \* Mode -> Nat: max_payload
  LfSpan,         \* Mode -> <<lo, hi>>: spreading factors, LfNone if it has none
  LfPower,        \* Mode -> <<lo, hi>>: dBm
  LfDriver,       \* Mode -> <<lo, hi>>: dBm its driver puts on, whatever is described and asked
  LfRefuses,      \* Mode -> SUBSET of knobs its driver calls Unsupported
  LfFirst,        \* the modulation the radio is opened in
  LoraMtu,        \* LORA_MTU
  LfPlan,         \* what the control plane may write
  LfNone,
  LfFails         \* bound: the calls of the driver that may fail for once, knobs or "phy"

ASSUME LfAssumption ==
  /\ LfAdvertised \subseteq LfMode /\ LfFirst \in LfMode
  /\ LfLands \in [LfMode -> LfMode] /\ LfPayload \in [LfMode -> Nat]
  /\ LoraMtu \in Nat \ {0}

VARIABLES
  lfPlan,     \* planned: the cell
  lfRadio,    \* what the chip is set to
  lfCache,    \* applied: what was last pushed, and what was refused
  lfHeld,     \* cap: the modulation whose description is held
  lfMtu,      \* mtu
  lfPc, lfTp,   \* of each sender: where it is, the plan it read
  lfRead,     \* of each sender: the frame size it is about to store, 0 otherwise
  lfFailed,   \* history: since the lock was last taken a call failed for once, or a sender was overtaken
  lfSettled,  \* history: the plan in force has been pushed, and nothing had failed
  lfWasted,   \* history: since it was settled, the plan in force made a call of the driver
  lfRaced     \* history: the description was replaced while another sender was between it and its frame size
lfVars == <<lfPlan, lfRadio, lfCache, lfHeld, lfMtu, lfPc, lfTp, lfRead, lfFailed, lfSettled, lfWasted, lfRaced>>
lfChip == <<lfRadio, lfCache, lfFailed, lfSettled, lfWasted>>

LfKnob == {"sf", "bw", "dbm", "edcca"}
Forgotten == [k \in LfKnob |-> LfNone]
AtReset == [sf |-> 7, bw |-> 125, dbm |-> 0, edcca |-> FALSE]
NothingApplied == [phy |-> LfNone, knob |-> Forgotten, noPhy |-> LfNone, no |-> {}]

LeastOf(x, y) == IF x < y THEN x ELSE y
Clamped(x, span) == IF x < span[1] THEN span[1] ELSE IF x > span[2] THEN span[2] ELSE x
recompute(m) == IF LeastOf(LoraMtu, LfPayload[m]) = 0 THEN 1 ELSE LeastOf(LoraMtu, LfPayload[m])

\* from_open: the description is read once before the first frame.
LfInit ==
  /\ lfPlan \in LfPlan
  /\ lfRadio = [phy |-> LfFirst, knob |-> AtReset]
  /\ lfCache = NothingApplied
  /\ lfHeld = LfFirst /\ lfMtu = recompute(LfFirst)
  /\ lfPc = [s \in LfSender |-> "idle"]
  /\ lfTp = [s \in LfSender |-> LfNone]
  /\ lfRead = [s \in LfSender |-> 0]
  /\ lfFailed = FALSE /\ lfSettled = FALSE /\ lfWasted = FALSE /\ lfRaced = FALSE

(* ---------------------------- one knob, one call -------------------------- *)
\* A knob is pushed when it differs from what was last taken.  Of power the driver
\* answers what it has put on, and that is cached; of the rest that it has taken it.
\* Unsupported is remembered; another error leaves the knob for the next frame.
\* st is the chip, the cache and whether the driver was asked or failed.
Taken(m, k, v) == IF k = "dbm" THEN Clamped(v, LfDriver[m]) ELSE v
Asks(st, k, v) == v # LfNone /\ st.cache.knob[k] # v /\ k \notin st.cache.no
Latched(st, k) == [st EXCEPT !.cache.no = @ \cup {k}, !.asked = TRUE]
Pushed(st, k, v, bad) ==
  IF ~Asks(st, k, v) THEN st
  ELSE IF k \in LfRefuses[st.radio.phy] THEN Latched(st, k)
  ELSE IF k = bad THEN [st EXCEPT !.asked = TRUE, !.failed = TRUE]
  ELSE [st EXCEPT !.radio.knob[k] = Taken(st.radio.phy, k, v),
                  !.cache.knob[k] = Taken(st.radio.phy, k, v), !.asked = TRUE]

\* SF and coding rate: not for a radio whose description has no such thing, and
\* clamped to its span.
RateAt(st, p, held, bad) ==
  LET rate == IF LfSpan[held] = LfNone \/ p.sf = LfNone THEN st
              ELSE Pushed(st, "sf", Clamped(p.sf, LfSpan[held]), bad) IN
  Pushed(rate, "bw", p.bw, bad)
\* The power in dBm, clamped to the described range, and carrier sense.
PowerAt(st, p, held, bad) ==
  LET power == IF p.dbm = LfNone THEN st ELSE Pushed(st, "dbm", Clamped(p.dbm, LfPower[held]), bad) IN
  Pushed(power, "edcca", p.edcca, bad)

phy_switch_allowed(want) == Cardinality(LfAdvertised) > 1 /\ want \in LfAdvertised

(* --------------------------------- a send --------------------------------- *)
Chip(asked) == [radio |-> lfRadio, cache |-> lfCache, asked |-> asked, failed |-> FALSE]
Go(s, pc) == lfPc' = [lfPc EXCEPT ![s] = pc]
LockFree == \A s \in LfSender : lfPc[s] \notin {"rate", "power"}
Fallible == {LfNone} \cup (IF lfFailed THEN {} ELSE LfFails)

\* send: the frame carries the plan in force as it begins.
ReadPlan(s) ==
  /\ lfPc[s] = "idle"
  /\ lfTp' = [lfTp EXCEPT ![s] = lfPlan] /\ Go(s, "lock")
  /\ UNCHANGED <<lfPlan, lfHeld, lfMtu, lfChip, lfRead, lfRaced>>

\* The modulation, under the lock.  A change of it invalidates what was pushed and
\* lets go of the lock.
Renewed(m) == [NothingApplied EXCEPT !.phy = m]
Unasked(want) == want = LfNone \/ lfCache.phy = want \/ lfCache.noPhy = want
SwitchPhy(s) ==
  LET want == lfTp[s].phy IN
  /\ lfPc[s] = "lock" /\ LockFree
  /\ UNCHANGED <<lfPlan, lfHeld, lfMtu, lfTp, lfRead, lfRaced>>
  /\ \/ Unasked(want) /\ Go(s, "rate") /\ lfFailed' = FALSE /\ UNCHANGED <<lfRadio, lfCache, lfSettled, lfWasted>>
     \/ /\ ~Unasked(want) /\ ~phy_switch_allowed(want)
        /\ lfCache' = [lfCache EXCEPT !.noPhy = want]
        /\ Go(s, "rate") /\ lfFailed' = FALSE /\ UNCHANGED <<lfRadio, lfSettled, lfWasted>>
     \/ /\ ~Unasked(want) /\ phy_switch_allowed(want)
        /\ lfWasted' = (lfWasted \/ lfSettled) /\ UNCHANGED lfSettled
        /\ \E bad \in Fallible \ LfKnob :
             IF bad = "phy" THEN lfFailed' = TRUE /\ Go(s, "rate") /\ UNCHANGED <<lfRadio, lfCache>>
             ELSE LET now == LfLands[want] IN
               /\ lfFailed' = FALSE
               /\ lfRadio' = IF now = lfRadio.phy THEN lfRadio ELSE [phy |-> now, knob |-> AtReset]
               /\ lfCache' = IF lfCache.phy # now THEN Renewed(now) ELSE [lfCache EXCEPT !.noPhy = want]
               /\ Go(s, IF lfCache.phy # now THEN "refresh" ELSE "rate")

\* refresh_capability: the description, then the frame size from it, in three
\* steps of their own; then the lock again.
Described_stale == lfHeld
Described == lfRadio.phy
Sizing(s) == lfPc[s] \in {"declared", "store"}
RefreshCapability(s) ==
  /\ lfPc[s] = "refresh"
  /\ lfHeld' = Described /\ Go(s, "declared")
  /\ lfRaced' = \E o \in LfSender : Sizing(o)
  /\ UNCHANGED <<lfPlan, lfMtu, lfTp, lfChip, lfRead>>
ReadDeclared(s) ==
  /\ lfPc[s] = "declared"
  /\ lfRead' = [lfRead EXCEPT ![s] = recompute(lfHeld)] /\ Go(s, "store")
  /\ UNCHANGED <<lfPlan, lfHeld, lfMtu, lfTp, lfChip, lfRaced>>
StoreMtu(s) ==
  /\ lfPc[s] = "store"
  /\ lfMtu' = lfRead[s] /\ lfRead' = [lfRead EXCEPT ![s] = 0] /\ Go(s, "relock")
  /\ UNCHANGED <<lfPlan, lfHeld, lfTp, lfChip, lfRaced>>

\* A landing on another mode than the one asked for is noted after the refresh.
NotesLanding(s, c) ==
  IF lfPc[s] = "relock" /\ LfLands[lfTp[s].phy] # lfTp[s].phy THEN [c EXCEPT !.noPhy = lfTp[s].phy] ELSE c

\* Another sender has switched on while this one refreshed: it goes on all the
\* same, and its plan waits for the next frame.
Overtaken(s) == lfPc[s] = "relock" /\ lfCache.phy # LfLands[lfTp[s].phy]
Takes(st) == lfRadio' = st.radio /\ lfCache' = st.cache
PushRate(s) ==
  /\ lfPc[s] = "rate" \/ (lfPc[s] = "relock" /\ LockFree)
  /\ \E bad \in Fallible \ {"phy"} :
     \E st \in {RateAt([Chip(FALSE) EXCEPT !.cache = NotesLanding(s, lfCache)], lfTp[s], lfHeld, bad)} :
       /\ Takes(st)
       /\ lfFailed' = (lfFailed \/ st.failed \/ Overtaken(s))
       /\ lfWasted' = (lfWasted \/ (lfSettled /\ st.asked))
  /\ Go(s, "power")
  /\ UNCHANGED <<lfPlan, lfHeld, lfMtu, lfTp, lfSettled, lfRead, lfRaced>>

\* Others are between frames, or hold the plan in force.
OthersFollow(s) == \A o \in LfSender \ {s} :
  lfPc[o] \in {"idle", "inject"} \/ (lfPc[o] = "lock" /\ lfTp[o] = lfPlan)
PushPower(s) ==
  /\ lfPc[s] = "power"
  /\ \E bad \in Fallible \ {"phy"} :
     \E st \in {PowerAt(Chip(FALSE), lfTp[s], lfHeld, bad)} :
       /\ Takes(st)
       /\ lfFailed' = (lfFailed \/ st.failed)
       /\ lfWasted' = (lfWasted \/ (lfSettled /\ st.asked))
       /\ lfSettled' = (lfSettled \/ (~st.failed /\ ~lfFailed /\ lfTp[s] = lfPlan /\ OthersFollow(s)))
  /\ Go(s, "inject")
  /\ UNCHANGED <<lfPlan, lfHeld, lfMtu, lfTp, lfRead, lfRaced>>

\* The frame goes to the radio.
Inject(s) ==
  /\ lfPc[s] = "inject"
  /\ Go(s, "idle")
  /\ UNCHANGED <<lfPlan, lfHeld, lfMtu, lfTp, lfChip, lfRead, lfRaced>>

WritePlan ==
  /\ \E p \in LfPlan \ {lfPlan} : lfPlan' = p
  /\ lfSettled' = FALSE /\ lfWasted' = FALSE
  /\ UNCHANGED <<lfRadio, lfCache, lfHeld, lfMtu, lfPc, lfTp, lfFailed, lfRead, lfRaced>>

LfNext == WritePlan \/ \E s \in LfSender :
  \/ ReadPlan(s) \/ SwitchPhy(s) \/ RefreshCapability(s) \/ ReadDeclared(s)
  \/ StoreMtu(s) \/ PushRate(s) \/ PushPower(s) \/ Inject(s)
LfSpec == LfInit /\ [][LfNext]_lfVars

(* ------------------------------- properties ------------------------------- *)
\* Types; and the chip is never put in a modulation its description does not name,
\* except where its driver lands (lib.rs:630).
Reachable == {LfFirst} \cup {LfLands[m] : m \in LfAdvertised}
LfTypeOK ==
  /\ lfPlan \in LfPlan /\ lfHeld \in Reachable /\ lfRadio.phy \in Reachable /\ lfMtu \in 1 .. LoraMtu
  /\ lfCache.phy \in LfMode \cup {LfNone} /\ lfCache.no \subseteq LfKnob
  /\ lfPc \in [LfSender -> {"idle", "lock", "refresh", "declared", "store", "relock", "rate", "power", "inject"}]
  /\ lfTp \in [LfSender -> LfPlan \cup {LfNone}]

\* What the face believes it has pushed is what the chip is set to, however the
\* senders interleave around a change of modulation (lib.rs:754, AppliedRate).
AppliedIsTheRadio ==
  /\ lfCache.phy # LfNone => lfCache.phy = lfRadio.phy
  /\ \A k \in LfKnob : lfCache.knob[k] # LfNone => lfCache.knob[k] = lfRadio.knob[k]

\* Nobody is between a change of modulation and its refresh.
Refreshed == \A s \in LfSender : lfPc[s] # "refresh"
\* The description held is of the modulation the chip is in, as soon as nobody is
\* still about to read it, whichever of two senders switched last.
HeldIsOfTheMode == Refreshed => lfHeld = lfRadio.phy

\* The frame size is that of the description held, except where two senders have
\* refreshed at once: then the size of the older description may be stored last,
\* and stays until a refresh that no other crosses.  So the two do disagree,
\* against lib.rs:271, and a face goes on cutting frames for the mode it has left.
MtuIsTheCaps ==
  ~lfRaced /\ (\A s \in LfSender : ~Sizing(s)) => lfMtu = recompute(lfHeld)

\* A plan pushed by the last sender to hold the lock, with nothing failed since, is
\* what the chip runs: each knob at what was planned, within the range of the mode
\* the chip is in and not of the one it came from, and the power at what the driver
\* of this mode makes of it (lib.rs:786, 833).
Runs(p) ==
  LET m == lfRadio.phy IN
  /\ (p.phy # LfNone /\ phy_switch_allowed(p.phy) /\ lfCache.noPhy # p.phy) => m = LfLands[p.phy]
  /\ (p.sf # LfNone /\ LfSpan[m] # LfNone /\ "sf" \notin LfRefuses[m]) => lfRadio.knob.sf = Clamped(p.sf, LfSpan[m])
  /\ (p.dbm # LfNone /\ "dbm" \notin LfRefuses[m]) => lfRadio.knob.dbm = Taken(m, "dbm", Clamped(p.dbm, LfPower[m]))
  /\ \A k \in {"bw", "edcca"} : (p[k] # LfNone /\ k \notin LfRefuses[m]) => lfRadio.knob[k] = p[k]
SettledIsThePlan == lfSettled => Runs(lfPlan)

\* A plan whose power the driver does not put on as asked.
Clipped(p) ==
  LET m == lfRadio.phy
      asked == Clamped(p.dbm, LfPower[m])
  IN  p.dbm # LfNone /\ "dbm" \notin LfRefuses[m] /\ Taken(m, "dbm", asked) # asked

\* Once it has been pushed, an unchanged plan costs nothing, a refused knob
\* included: no frame calls the driver for it again (lib.rs:281, 211).  The
\* exception is a power the driver clamps: what it put on is cached and compared
\* with what is asked, so each frame asks again, against lib.rs:281 and 577.
UnchangedPlanIsFree ==
  /\ lfWasted => Clipped(lfPlan)
  /\ lfSettled /\ Clipped(lfPlan) =>
       Asks([cache |-> lfCache], "dbm", Clamped(lfPlan.dbm, LfPower[lfRadio.phy]))

----------------------------------------------------------------------------
(* When a LoRa frame goes on the air (inject_scheduled of ndn-phy-lora).  The   *)
(* gate gives a delay, an instant on one of the radio's counters, or nothing;   *)
(* a radio that really schedules places the frame itself, for any other the     *)
(* host sleeps, on its own clock or on what the radio says the time is.         *)

CONSTANTS
  LtFrame,      \* frames, one to a task
  LtTiming,     \* what the gate may say: kind "now"; "after" with us; "at" with tick and domain
  LtRadio,      \* radios: schedules (schedules_tx), label (TxDiscipline::ScheduledAt), owns (its counter),
                \* reads (counters it exposes to be read, monotonic)
  LtUs, LtTick, \* units of time in a microsecond and in a tick of a counter
  LtHorizon     \* bound: units of time

ASSUME LtAssumption == LtUs \in Nat \ {0} /\ LtTick \in Nat \ {0} /\ LtHorizon \in Nat

VARIABLES
  ltRadio, ltNow,
  ltPc,       \* Frame -> "idle", "reading", "asleep", "armed", "left", "refused"
  ltTiming,   \* Frame -> what the gate said
  ltRead,     \* Frame -> the counter as it was read
  ltWake,     \* Frame -> when the host or the radio lets it go
  ltDue,      \* history: when it was wanted, 0 for at once
  ltLeft      \* Frame -> when it left
ltVars == <<ltRadio, ltNow, ltPc, ltTiming, ltRead, ltWake, ltDue, ltLeft>>

schedules_tx_in_hardware == ltRadio.schedules /\ ltRadio.label
Counter == ltNow \div LtTick

LtInit ==
  /\ ltRadio \in LtRadio /\ ltNow = 0
  /\ ltPc = [f \in LtFrame |-> "idle"]
  /\ ltTiming \in [LtFrame -> LtTiming]
  /\ ltRead = [f \in LtFrame |-> 0] /\ ltWake = [f \in LtFrame |-> 0]
  /\ ltDue = [f \in LtFrame |-> 0] /\ ltLeft = [f \in LtFrame |-> 0]

Goes(f, pc) == ltPc' = [ltPc EXCEPT ![f] = pc]
Leaves(f) == Goes(f, "left") /\ ltLeft' = [ltLeft EXCEPT ![f] = ltNow]
Wanted(f, when) == ltDue' = [ltDue EXCEPT ![f] = when]
Wakes(f, when) == ltWake' = [ltWake EXCEPT ![f] = when]
Fixed == UNCHANGED <<ltRadio, ltNow, ltTiming>>

\* send_bytes with no timing, and a delay: given to a radio that schedules, which
\* counts from when it has the command, or slept out and then injected.
SendNow(f) ==
  /\ ltPc[f] = "idle" /\ ltTiming[f].kind = "now"
  /\ Leaves(f) /\ Fixed /\ UNCHANGED <<ltRead, ltWake, ltDue>>
SendAfter(f) ==
  /\ ltPc[f] = "idle" /\ ltTiming[f].kind = "after"
  /\ Wanted(f, ltNow + LtUs * ltTiming[f].us)
  /\ IF schedules_tx_in_hardware
     THEN /\ Goes(f, "armed")
          /\ IF ltRadio.schedules THEN \E late \in 0 .. 1 : Wakes(f, ltNow + LtUs * ltTiming[f].us + late)
             ELSE Wakes(f, ltNow)
     ELSE Goes(f, "asleep") /\ Wakes(f, ltNow + LtUs * ltTiming[f].us)
  /\ Fixed /\ UNCHANGED <<ltRead, ltLeft>>

\* An instant: the radio's backend knows its own counter and sends at once what
\* names another; a radio that cannot schedule is read, if it can be, and what is
\* left is slept out.
SendAt(f) ==
  /\ ltPc[f] = "idle" /\ ltTiming[f].kind = "at"
  /\ IF schedules_tx_in_hardware
     THEN /\ Goes(f, "armed")
          /\ IF ltTiming[f].domain = ltRadio.owns /\ ltRadio.schedules
             THEN Wanted(f, LtTick * ltTiming[f].tick) /\ Wakes(f, LtTick * ltTiming[f].tick)
             ELSE Wanted(f, 0) /\ Wakes(f, ltNow)
     ELSE IF ltTiming[f].domain \in ltRadio.reads
     THEN Goes(f, "reading") /\ Wanted(f, LtTick * ltTiming[f].tick) /\ UNCHANGED ltWake
     ELSE Goes(f, "refused") /\ UNCHANGED <<ltWake, ltDue>>
  /\ Fixed /\ UNCHANGED <<ltRead, ltLeft>>
\* The reply of the clock takes its time, and the sleep starts when it is there; a
\* clock that cannot be read just now sends at once.
Reply(f) ==
  /\ ltPc[f] = "reading" /\ ltRead[f] = 0
  /\ ltRead' = [ltRead EXCEPT ![f] = Counter + 1]
  /\ Fixed /\ UNCHANGED <<ltPc, ltWake, ltDue, ltLeft>>
ReadFails(f) ==
  /\ ltPc[f] = "reading" /\ ltRead[f] = 0
  /\ Leaves(f) /\ Wanted(f, 0)
  /\ Fixed /\ UNCHANGED <<ltRead, ltWake>>
\* The rest in whole microseconds.
Remaining(f) == LET units == (ltTiming[f].tick - (ltRead[f] - 1)) * LtTick IN (units \div LtUs) * LtUs
Sleep(f) ==
  /\ ltPc[f] = "reading" /\ ltRead[f] > 0
  /\ Goes(f, "asleep")
  /\ Wakes(f, ltNow + (IF ltTiming[f].tick > ltRead[f] - 1 THEN Remaining(f) ELSE 0))
  /\ Fixed /\ UNCHANGED <<ltRead, ltDue, ltLeft>>

Inject_at(f) ==
  /\ ltPc[f] \in {"asleep", "armed"} /\ ltNow >= ltWake[f]
  /\ Leaves(f) /\ Fixed /\ UNCHANGED <<ltRead, ltWake, ltDue>>
TimePasses ==
  /\ ltNow < LtHorizon /\ ltNow' = ltNow + 1
  /\ UNCHANGED <<ltRadio, ltPc, ltTiming, ltRead, ltWake, ltDue, ltLeft>>

LtNext == TimePasses \/ \E f \in LtFrame :
  SendNow(f) \/ SendAfter(f) \/ SendAt(f) \/ Reply(f) \/ ReadFails(f) \/ Sleep(f) \/ Inject_at(f)
LtSpec == LtInit /\ [][LtNext]_ltVars

(* ------------------------------- properties ------------------------------- *)
\* No frame leaves a microsecond or more before the instant it was given, whoever
\* keeps the time: a radio that only calls itself scheduled is not trusted with
\* it, and the clock that is read and the sleep that follows only make it later.
\* Sent at once are what a scheduling radio is told of a counter not its own, and
\* what meets a clock that cannot be read (lib.rs:417, lib.rs:881).
NothingLeavesEarly == \A f \in LtFrame : ltPc[f] = "left" => ltLeft[f] + LtUs > ltDue[f]

\* Plans reach the chip whoever pushes them, and frames leave when they are due.
LoraInv ==
  /\ LfTypeOK /\ AppliedIsTheRadio /\ HeldIsOfTheMode /\ MtuIsTheCaps
  /\ SettledIsThePlan /\ UnchangedPlanIsFree /\ NothingLeavesEarly
----------------------------------------------------------------------------
(* What LoraInv rests on.                                                      *)

\* The types: a plan names a setting or nothing, a description has a span and a
\* range of numbers, a timing its microseconds or its tick.
LfPlanned == [phy : {LfNone} \cup LfMode, sf : {LfNone} \cup Int, bw : {LfNone} \cup Int,
              dbm : {LfNone} \cup Int, edcca : {LfNone} \cup BOOLEAN]
LfDescribed ==
  /\ LfNone \notin LfMode /\ LfNone \notin Int
  /\ LfPlan \subseteq LfPlanned
  /\ LfSpan \in [LfMode -> {LfNone} \cup (Int \X Int)] /\ LfPower \in [LfMode -> Int \X Int]
  /\ LfDriver \in [LfMode -> Int \X Int] /\ \A m \in LfMode : LfDriver[m][1] <= LfDriver[m][2]
  /\ LfRefuses \in [LfMode -> SUBSET LfKnob]
LtTimed == \A t \in LtTiming :
  (t.kind = "after" => t.us \in Nat) /\ (t.kind = "at" => t.tick \in Nat)
ASSUME LfTypesAssumption == LfDescribed /\ LtTimed

\* A mode a radio has landed on is put on by asking for it.
LandingStays ==
  \A m \in LfAdvertised : LfLands[m] \in LfAdvertised => LfLands[LfLands[m]] = LfLands[m]

Shaped(radio, cache) ==
  /\ DOMAIN radio = {"phy", "knob"} /\ DOMAIN radio.knob = LfKnob
  /\ DOMAIN cache = {"phy", "knob", "noPhy", "no"} /\ DOMAIN cache.knob = LfKnob
LfTyped ==
  /\ LfTypeOK
  /\ Shaped(lfRadio, lfCache)
  /\ lfRead \in [LfSender -> Nat]
  /\ \A s \in LfSender : /\ lfPc[s] = "store" => lfRead[s] \in 1 .. LoraMtu
                         /\ lfPc[s] # "idle" => lfTp[s] \in LfPlan
  /\ {lfFailed, lfSettled, lfWasted, lfRaced} \subseteq BOOLEAN

\* What has been pushed is what is set, in a mode that was landed on, and no knob
\* that this mode refuses; power is one the driver puts on; and only what this mode
\* refuses is noted as refused.
Truthful(radio, cache) ==
  /\ cache.phy # LfNone => cache.phy = radio.phy /\ \E m \in LfAdvertised : cache.phy = LfLands[m]
  /\ \A k \in LfKnob : cache.knob[k] # LfNone =>
       /\ cache.knob[k] = radio.knob[k] /\ k \notin LfRefuses[radio.phy]
       /\ Taken(radio.phy, k, cache.knob[k]) = cache.knob[k]
  /\ cache.no \subseteq LfRefuses[radio.phy]

\* A knob, and a plan, of which the driver has been told all there is.
Told(radio, cache, k, v) ==
  v = LfNone \/ k \in cache.no \/ cache.knob[k] = Taken(radio.phy, k, v)
RateTold(radio, cache, p, held) ==
  /\ (LfSpan[held] # LfNone /\ p.sf # LfNone) => Told(radio, cache, "sf", Clamped(p.sf, LfSpan[held]))
  /\ Told(radio, cache, "bw", p.bw)
PowerTold(radio, cache, p, held) ==
  /\ p.dbm # LfNone => Told(radio, cache, "dbm", Clamped(p.dbm, LfPower[held]))
  /\ Told(radio, cache, "edcca", p.edcca)

\* The lock has one holder.  Nothing having failed, its mode has been seen to before
\* its rate, and both before its power, unless another is still in its refresh.
Refreshing(s) == lfPc[s] \in {"refresh", "declared", "store", "relock"}
LockInv ==
  /\ \A s, o \in LfSender : lfPc[s] \in {"rate", "power"} /\ lfPc[o] \in {"rate", "power"} => s = o
  /\ \A s \in LfSender : ~lfFailed =>
       /\ lfPc[s] = "rate" => Unasked(lfTp[s].phy)
       /\ (lfPc[s] = "power" /\ \A o \in LfSender \ {s} : ~Refreshing(o)) =>
            Unasked(lfTp[s].phy) /\ RateTold(lfRadio, lfCache, lfTp[s], lfHeld)

\* A settled plan is one everybody under way has, of which nothing is left to tell.
SettledInv == lfSettled =>
  /\ Unasked(lfPlan.phy) /\ RateTold(lfRadio, lfCache, lfPlan, lfHeld) /\ PowerTold(lfRadio, lfCache, lfPlan, lfHeld)
  /\ \A s \in LfSender : \/ lfPc[s] \in {"idle", "inject"}
                         \/ lfPc[s] \in {"lock", "rate", "power"} /\ lfTp[s] = lfPlan

\* But for a race, one sender at a time is between the description and its size,
\* and the size it is about to store is that of the description.
SizeInv == ~lfRaced =>
  /\ \A s, o \in LfSender : Sizing(s) /\ Sizing(o) => s = o
  /\ \A s \in LfSender : lfPc[s] = "store" => lfRead[s] = recompute(lfHeld)
  /\ (\A s \in LfSender : ~Sizing(s)) => lfMtu = recompute(lfHeld)

LfIndInv ==
  /\ LfTyped /\ Truthful(lfRadio, lfCache) /\ HeldIsOfTheMode /\ SizeInv
  /\ LockInv /\ SettledInv
  /\ lfWasted => lfSettled /\ Clipped(lfPlan)

\* A sleep ends less than a microsecond before the frame is wanted or after it,
\* because the counter had reached what was read when it was read.
LtIndInv ==
  /\ ltRadio \in LtRadio /\ ltNow \in Nat
  /\ ltTiming \in [LtFrame -> LtTiming]
  /\ ltPc \in [LtFrame -> {"idle", "reading", "asleep", "armed", "left", "refused"}]
  /\ {ltRead, ltWake, ltDue, ltLeft} \subseteq [LtFrame -> Nat]
  /\ \A f \in LtFrame :
       /\ ltPc[f] = "idle" => ltDue[f] = 0 /\ ltRead[f] = 0
       /\ ltPc[f] = "reading" =>
            /\ ltTiming[f].kind = "at" /\ ltDue[f] = LtTick * ltTiming[f].tick
            /\ ltRead[f] > 0 => (ltRead[f] - 1) * LtTick <= ltNow
       /\ ltPc[f] \in {"asleep", "armed"} => ltWake[f] + LtUs > ltDue[f]
  /\ NothingLeavesEarly
=============================================================================
