----------------------------- MODULE MediumBuild -----------------------------
(* How a Wi-Fi medium comes to be (factory.rs, RadioBearer and RadioMediumFace  *)
(* of medium.rs, WifiPhy of lib.rs): radios are opened from their specs by the  *)
(* factory or handed over by a caller, each with what it is said to be able to  *)
(* do; a medium is configured by builders in any order; and it is started when  *)
(* it is mounted, or by the first of several tasks that use a WifiPhy.          *)
EXTENDS Naturals, Sequences, FiniteSets

CONSTANTS
  MbDriver,    \* Driver -> [hw, describes, echoes, handles]: what the radio is; whether its data plane says so
               \* (radio_capability), or repeats what it was told; what its opener returns with it
  MbBuilt,     \* drivers of this build and platform
  MbPreset,    \* "5ghz", "s1g", "dual" -> what a caller takes a radio for: mcs, retune (MbNone unmeasured)
  MbChannel, MbNone,
  MbRadios,    \* bound: radios to a medium
  MbPlan,      \* rate policies a caller may bind
  MbMtu, MONITOR,   \* frame sizes it may ask for, and MONITOR_MTU
  MbDwell,     \* the dwell of the hop schedule configured
  MbTask, MbBuilders   \* tasks that use the face; bound: builder calls

Drivers == {"loopback", "rtl8822e", "af-packet", "halow", "esp32c5"}
ASSUME MbAssumption ==
  /\ MbRadios \in Nat /\ MbBuilders \in Nat /\ MONITOR \in MbMtu /\ MbNone \notin Nat
  /\ DOMAIN MbDriver = Drivers /\ MbBuilt \subseteq Drivers /\ "loopback" \in MbBuilt
  /\ "halow" \in MbBuilt <=> "af-packet" \in MbBuilt
  /\ \A d \in Drivers : LET hw == MbDriver[d].hw IN
       hw = [mcs |-> hw.mcs, retune |-> hw.retune, channels |-> hw.channels, dbm |-> hw.dbm] /\ hw.mcs \in Nat

VARIABLES
  mbPath,      \* "factory"; "phy", a WifiPhy; "medium", a RadioMediumFace of the host's own
  mbBearers,   \* the radios brought up: driver, cap, handles, pin, and whether the caller was taken at its word
  mbControl,   \* what the control plane was told of each
  mbPhase,     \* "opening", "building", "mounted"; "refused", "panicked"
  mbFec,       \* "off", "on", "gated": for the frames a predicate takes
  mbAmsdu, mbRate, mbSize, mbSink,   \* the medium under construction (or built): amsdu, rate, mtu, signal_sink
  mbFaceRate, mbFaceSize,            \* WifiPhy's own copy of two of them
  mbTasks,     \* Task -> "idle", "asked", "first", "in", "panicked"
  mbTaken,     \* the configuration has been taken
  mbRunning,   \* the media started, and of each what its bearers run
  mbCalls
mbRadiosUp == <<mbPath, mbBearers, mbControl>>
mbConfig == <<mbFec, mbAmsdu, mbRate, mbSize, mbSink, mbFaceRate, mbFaceSize, mbCalls>>
mbUse == <<mbTasks, mbTaken, mbRunning>>
mbVars == <<mbRadiosUp, mbPhase, mbConfig, mbUse>>

(* -------------------------------- a bearer -------------------------------- *)
Hw(d) == MbDriver[d].hw
Preset(kind, channels) ==
  [mcs |-> MbPreset[kind].mcs, retune |-> MbPreset[kind].retune, channels |-> channels, dbm |-> FALSE]

\* effective_hw_cap: the radio's own facts, on the caller's channels if it has any
\* of them; a radio that says nothing is what the caller takes it for.
effective_hw_cap(d, asserted) ==
  IF MbDriver[d].echoes \/ ~MbDriver[d].describes THEN asserted
  ELSE [Hw(d) EXCEPT !.channels = IF asserted.channels \cap @ = {} THEN @ ELSE asserted.channels \cap @]
Bearer(d, cap, handles, pin, guess) == [driver |-> d, cap |-> cap, handles |-> handles, pin |-> pin, guess |-> guess]
\* RadioBearer::new and ::wifi, then whatever a caller attaches to it.
NewBearer(d, asserted, handles, pin) == Bearer(d, effective_hw_cap(d, asserted), handles, pin, FALSE)
FromOpen(d, cap, pin) == Bearer(d, cap, MbDriver[d].handles, pin, TRUE)
effective_cap(b) == IF "profile" \in b.handles THEN Hw(b.driver) ELSE b.cap

(* ------------------------------- the factory ------------------------------ *)
SpecOf == [driver : Drivers \cup {"other"}, channel : MbChannel \cup {MbNone}, iface : BOOLEAN]
Channels(spec) == IF spec.channel = MbNone THEN {} ELSE {spec.channel}
\* What an arm asks of the spec, before anything is opened.
Complete(spec) ==
  /\ spec.driver \in MbBuilt
  /\ spec.driver = "rtl8822e" => spec.channel # MbNone
  /\ spec.driver \in {"esp32c5", "af-packet", "halow"} => spec.iface
  /\ spec.driver = "esp32c5" => "knobs" \in MbDriver["esp32c5"].handles

\* What the arm takes the radio for: the report of an opened dongle, the profile of
\* an opened board if it has one, a preset.
Asserted(spec) ==
  IF spec.driver = "rtl8822e" \/ (spec.driver = "esp32c5" /\ "profile" \in MbDriver["esp32c5"].handles) THEN Hw(spec.driver)
  ELSE Preset(IF spec.driver = "halow" THEN "s1g" ELSE IF spec.driver = "esp32c5" THEN "dual" ELSE "5ghz", Channels(spec))
\* What it keeps of the opener's handles.
Attached(d) == CASE d = "esp32c5" -> MbDriver[d].handles
                 [] d = "loopback" -> {}
                 [] OTHER -> MbDriver[d].handles \cap {"knobs"}
build_bearer(spec) ==
  LET b == NewBearer(spec.driver, Asserted(spec), Attached(spec.driver), spec.channel) IN
  IF spec.driver \in {"af-packet", "halow"} THEN [b EXCEPT !.cap = [@ EXCEPT !.dbm = Hw(spec.driver).dbm]] ELSE b

MbInit ==
  /\ mbPath \in {"factory", "phy", "medium"}
  /\ mbBearers = <<>> /\ mbControl = <<>> /\ mbPhase = "opening"
  /\ mbFec = "off" /\ mbAmsdu = FALSE /\ mbRate = MbNone /\ mbSize = MONITOR /\ mbSink = FALSE
  /\ mbFaceRate = MbNone /\ mbFaceSize = MONITOR /\ mbCalls = 0
  /\ mbTasks = [t \in MbTask |-> "idle"] /\ mbTaken = FALSE /\ mbRunning = <<>>

\* create: the radios one after the other.  A spec that does not parse or is not
\* complete, or a radio that does not open, ends it, and what was opened goes.
OpenNext ==
  /\ mbPath = "factory" /\ mbPhase = "opening" /\ Len(mbBearers) < MbRadios
  /\ \E spec \in SpecOf : Complete(spec) /\ mbBearers' = Append(mbBearers, build_bearer(spec))
  /\ UNCHANGED <<mbPath, mbControl, mbPhase, mbConfig, mbUse>>
OpenFails ==
  /\ mbPath = "factory" /\ mbPhase = "opening"
  /\ mbPhase' = "refused" /\ mbBearers' = <<>>
  /\ UNCHANGED <<mbPath, mbControl, mbConfig, mbUse>>
\* The control plane is told what each bearer was taken for, and shown its signals.
RegisterAll ==
  /\ mbPath = "factory" /\ mbPhase = "opening" /\ mbBearers # <<>>
  /\ mbControl' = [i \in DOMAIN mbBearers |-> mbBearers[i].cap]
  /\ mbPhase' = "building" /\ mbSink' = TRUE
  /\ UNCHANGED <<mbPath, mbBearers, mbFec, mbAmsdu, mbRate, mbSize, mbFaceRate, mbFaceSize, mbCalls, mbUse>>

(* -------------------------- handed over by a caller ----------------------- *)
\* A face of one radio has a rate policy from the start, and keeps no channel.
Wrapped(b) ==
  /\ mbPath = "phy" /\ mbPhase = "opening" /\ mbPhase' = "building"
  /\ mbBearers' = <<b>> /\ mbRate' = "default" /\ mbFaceRate' = "default"
  /\ UNCHANGED <<mbPath, mbControl, mbFec, mbAmsdu, mbSize, mbSink, mbFaceSize, mbCalls, mbUse>>
\* WifiPhy::new, and open_libusb, espnow over it: a radio that is not asked what it is.
NewPhy == \E d \in MbBuilt : Wrapped(NewBearer(d, Preset("5ghz", {}), {}, MbNone))
Halow == \E c \in MbChannel :
  "halow" \in MbBuilt /\ Wrapped(NewBearer("halow", [Preset("s1g", {c}) EXCEPT !.dbm = Hw("halow").dbm], {}, MbNone))
OpenPhy == \E d \in MbBuilt, kind \in DOMAIN MbPreset : Wrapped(FromOpen(d, Preset(kind, {}), MbNone))

\* RadioMediumFace::new over bearers of the host's, which tells the control plane
\* what `capabilities` answers.
AddBearer ==
  /\ mbPath = "medium" /\ mbPhase = "opening" /\ Len(mbBearers) < MbRadios
  /\ \E d \in MbBuilt, pin \in MbChannel \cup {MbNone} :
       LET guess == Preset("5ghz", IF pin = MbNone THEN {} ELSE {pin}) IN
       mbBearers' \in {Append(mbBearers, NewBearer(d, guess, {}, pin)), Append(mbBearers, FromOpen(d, guess, pin))}
  /\ UNCHANGED <<mbPath, mbControl, mbPhase, mbConfig, mbUse>>
capabilities ==
  /\ mbPath = "medium" /\ mbPhase = "opening" /\ mbBearers # <<>> /\ mbPhase' = "building"
  /\ mbControl' = [i \in DOMAIN mbBearers |-> effective_cap(mbBearers[i])]
  /\ UNCHANGED <<mbPath, mbBearers, mbConfig, mbUse>>

(* ------------------------------ configuration ----------------------------- *)
\* A builder owns the medium, or the face about it: nobody uses it meanwhile.
Owned == mbPhase = "building" /\ mbPath # "factory" /\ \A t \in MbTask : mbTasks[t] \in {"idle", "in"}
Building == Owned /\ ~mbTaken /\ mbCalls < MbBuilders /\ mbCalls' = mbCalls + 1
Built == UNCHANGED <<mbRadiosUp, mbPhase, mbUse>>
with_link_fec ==
  /\ Building /\ mbFec' = "on"
  /\ Built /\ UNCHANGED <<mbAmsdu, mbRate, mbSize, mbSink, mbFaceRate, mbFaceSize>>
\* Nothing without link FEC, which forgets it if it comes after.
with_fec_eligibility ==
  /\ Building /\ mbPath = "medium" /\ mbFec' = (IF mbFec = "off" THEN "off" ELSE "gated")
  /\ Built /\ UNCHANGED <<mbAmsdu, mbRate, mbSize, mbSink, mbFaceRate, mbFaceSize>>
with_amsdu_batching ==
  /\ Building /\ mbAmsdu' = TRUE
  /\ Built /\ UNCHANGED <<mbFec, mbRate, mbSize, mbSink, mbFaceRate, mbFaceSize>>
with_signal_sink ==
  /\ Building /\ mbSink' = TRUE
  /\ Built /\ UNCHANGED <<mbFec, mbAmsdu, mbRate, mbSize, mbFaceRate, mbFaceSize>>
\* with_fixed_mcs, with_adaptive_mcs, with_planned_params: each a policy of its own,
\* for the face, if there is one, and for the medium.
OnFace(new, old) == IF mbPath = "phy" THEN new ELSE old
WithRate == \E p \in MbPlan :
  /\ Building /\ mbRate' = p /\ mbFaceRate' = OnFace(p, mbFaceRate)
  /\ Built /\ UNCHANGED <<mbFec, mbAmsdu, mbSize, mbSink, mbFaceSize>>
with_mtu == \E size \in MbMtu :
  /\ Building /\ mbSize' = size /\ mbFaceSize' = OnFace(size, mbFaceSize)
  /\ Built /\ UNCHANGED <<mbFec, mbAmsdu, mbRate, mbSink, mbFaceRate>>

(* --------------------------------- running -------------------------------- *)
\* vet_hop, of what the bearer was taken for: the cost of a retune is measured and a
\* small part of the dwell (half of it here).
vet_hop(cap) == cap.retune # MbNone /\ 2 * cap.retune <= MbDwell
\* A batcher only without link FEC.
Batches == mbAmsdu /\ mbFec = "off"
Spawned == [i \in DOMAIN mbBearers |->
  [bridge |-> mbFec # "off", gated |-> mbFec = "gated", batcher |-> Batches, rate |-> mbRate, sink |-> mbSink,
   channel |-> mbBearers[i].pin, hops |-> vet_hop(mbBearers[i].cap)]]
Started == mbRunning' = Append(mbRunning, [bearers |-> Spawned, mtu |-> mbSize]) /\ mbTaken' = TRUE

\* The factory's build and into_face start it there and then.
Mount ==
  /\ mbPhase = "building" /\ ~mbTaken /\ (mbPath = "factory" \/ Owned)
  /\ mbPhase' = "mounted" /\ Started
  /\ UNCHANGED <<mbRadiosUp, mbConfig, mbTasks>>
\* A builder or into_face after the first use panics, and the face is lost with it.
UsedUp ==
  /\ Owned /\ mbTaken /\ mbPhase' = "panicked"
  /\ UNCHANGED <<mbRadiosUp, mbConfig, mbUse>>

\* running(): the first to ask starts the medium, those that ask meanwhile wait.
Steps_on(t, pc) == mbTasks' = [mbTasks EXCEPT ![t] = pc]
MayStart_all(t) == mbRunning = <<>>
MayStart(t) == mbRunning = <<>> /\ \A o \in MbTask : mbTasks[o] # "first"
Ask(t) ==
  /\ mbPhase = "building" /\ mbPath = "phy" /\ mbTasks[t] = "idle"
  /\ Steps_on(t, "asked")
  /\ UNCHANGED <<mbRadiosUp, mbPhase, mbConfig, mbTaken, mbRunning>>
Permit(t) ==
  /\ mbTasks[t] = "asked" /\ MayStart(t)
  /\ Steps_on(t, "first")
  /\ UNCHANGED <<mbRadiosUp, mbPhase, mbConfig, mbTaken, mbRunning>>
Start(t) ==
  /\ mbTasks[t] = "first"
  /\ IF mbTaken THEN Steps_on(t, "panicked") /\ UNCHANGED <<mbTaken, mbRunning>> ELSE Steps_on(t, "in") /\ Started
  /\ UNCHANGED <<mbRadiosUp, mbPhase, mbConfig>>
MbJoin(t) ==
  /\ mbTasks[t] = "asked" /\ mbRunning # <<>>
  /\ Steps_on(t, "in")
  /\ UNCHANGED <<mbRadiosUp, mbPhase, mbConfig, mbTaken, mbRunning>>

MbNext ==
  \/ OpenNext \/ OpenFails \/ RegisterAll \/ NewPhy \/ Halow \/ OpenPhy \/ AddBearer \/ capabilities
  \/ with_link_fec \/ with_fec_eligibility \/ with_amsdu_batching \/ with_signal_sink \/ WithRate \/ with_mtu
  \/ Mount \/ UsedUp
  \/ \E t \in MbTask : Ask(t) \/ Permit(t) \/ Start(t) \/ MbJoin(t)
MbSpec == MbInit /\ [][MbNext]_mbVars

(* ------------------------------- properties ------------------------------- *)
Media == {mbRunning[j] : j \in DOMAIN mbRunning}

\* However many tasks make the first use of a face at once, one medium is started,
\* none of them panics over the configuration that is gone, and each that goes on
\* has the medium (lib.rs:500).
BuiltOnce ==
  /\ Len(mbRunning) <= 1
  /\ \A t \in MbTask : mbTasks[t] # "panicked" /\ (mbTasks[t] = "in" => Len(mbRunning) = 1)

\* What a face tells the engine (its frame size) and asks for a rate is what the
\* medium beneath it was given, after builders in any order (lib.rs:632-669).
FaceIsItsMedium == mbPath = "phy" => \A m \in Media :
  m.mtu = mbFaceSize /\ \A i \in DOMAIN m.bearers : m.bearers[i].rate = mbFaceRate

\* Frames are bundled or coded, never both, in whatever order the two were asked
\* for, and no predicate gates a code that is not there (medium.rs:1856, :1085).
NeverStacked == \A m \in Media : \A i \in DOMAIN m.bearers :
  ~(m.bearers[i].batcher /\ m.bearers[i].bridge) /\ (m.bearers[i].gated => m.bearers[i].bridge)

\* A radio that says what it is, is never planned for beyond it: no higher rate, no
\* channel it cannot tune, no power in dBm it has no scale for; and it hops only if
\* it can, unless a caller's guess was taken for it (medium.rs:176, medium.rs:1842).
SelfDescribed(b) == IF b.guess THEN "profile" \in b.handles ELSE MbDriver[b.driver].describes /\ ~MbDriver[b.driver].echoes
Within(cap, hw) == cap.mcs <= hw.mcs /\ cap.channels \subseteq hw.channels /\ (cap.dbm => hw.dbm)
NothingBeyondTheRadio == \A i \in DOMAIN mbBearers : LET b == mbBearers[i] IN
  SelfDescribed(b) =>
    /\ i \in DOMAIN mbControl => Within(mbControl[i], Hw(b.driver))
    /\ \A m \in Media : ~b.guess /\ m.bearers[i].hops => vet_hop(Hw(b.driver))

\* Whoever builds it, and whoever comes first, the face has the one medium asked for.
BuildInv == BuiltOnce /\ FaceIsItsMedium /\ NeverStacked /\ NothingBeyondTheRadio

=============================================================================
