----------------------------- MODULE Rendezvous -----------------------------
(* Where and when a name is listened for (mac/rendezvous.rs): each epoch draws*)
(* a channel and a phase slot from the clear prefix, a sleeper wakes for the  *)
(* slot widened by a guard.  The hash is a function drawn per behaviour.      *)
EXTENDS Arith, Sequences

CONSTANTS
  EpochUs, PhaseSlots, GuardUs, \* with_params: at least 1, 1, 0
  ChannelSet,                   \* the channels given to new, a sequence
  CommonChannel,                \* RENDEZVOUS_COMMON_CHANNEL
  MaxDraw, PhaseShift,          \* hashes are 0 .. MaxDraw; the phase takes the bits above PhaseShift
  Epochs,                       \* epochs explored: 0 .. Epochs
  Skew                          \* clock difference of the two nodes explored

ASSUME RendezvousAssumption ==
  /\ EpochUs \in Nat \ {0} /\ PhaseSlots \in Nat \ {0} /\ GuardUs \in Nat /\ Skew \in Nat
  /\ MaxDraw \in Nat /\ PhaseShift \in Nat \ {0} /\ Epochs \in Nat

VARIABLES
  draw,       \* draw[e]: the hash of prefix and epoch, as <<channel draw, phase draw>>
  rvNow

rendezvousVars == <<draw, rvNow>>

channels == IF ChannelSet = <<>> THEN <<CommonChannel>> ELSE ChannelSet
SlotUs   == EpochUs \div PhaseSlots
epoch(t) == t \div EpochUs

channel(t)    == channels[(draw[epoch(t)] % Len(channels)) + 1]
phase_slot(t) == (draw[epoch(t)] \div PhaseShift) % PhaseSlots

\* The guard after the slot only.
WindowOfLate(t) ==
  LET base == epoch(t) * EpochUs + phase_slot(t) * SlotUs
  IN [from |-> base, to |-> base + SlotUs + GuardUs]
\* The slot of the epoch of t, widened on both sides.
phase_window_us(t) ==
  LET base == epoch(t) * EpochUs + phase_slot(t) * SlotUs
  IN [from |-> Minus(base, GuardUs), to |-> base + SlotUs + GuardUs]

in_listen_window(t) == LET w == phase_window_us(t) IN t >= w.from /\ t < w.to

WindowStart(e) == Minus(e * EpochUs + phase_slot(e * EpochUs) * SlotUs, GuardUs)
next_window_us(t) ==
  IF in_listen_window(t) THEN 0
  ELSE IF WindowStart(epoch(t)) >= t THEN WindowStart(epoch(t)) - t
  ELSE IF WindowStart(epoch(t) + 1) >= t THEN WindowStart(epoch(t) + 1) - t
  ELSE 0

RendezvousInit ==
  /\ draw \in [0 .. Epochs + 1 -> 0 .. MaxDraw]
  /\ rvNow = 0
RendezvousNext == rvNow < (Epochs + 1) * EpochUs - 1 /\ rvNow' = rvNow + 1 /\ UNCHANGED draw
RendezvousSpec == RendezvousInit /\ [][RendezvousNext]_rendezvousVars

(* ------------------------------ properties ------------------------------- *)
\* Types of the state.
RendezvousTypeOK == rvNow \in 0 .. (Epochs + 1) * EpochUs - 1 /\ phase_slot(rvNow) \in 0 .. PhaseSlots - 1

\* The slot of an epoch in which a sender transmits, by its own clock.
InSlot(t) == (t % EpochUs) \div SlotUs = phase_slot(t)

\* A sender and a sleeper whose clocks differ by no more than the guard meet in
\* the slot, on one channel, whenever both are in the same epoch.
SkewedPairMeets ==
  InSlot(rvNow) =>
    \A d \in -Smaller(Skew, GuardUs) .. Smaller(Skew, GuardUs) :
      rvNow + d >= 0 /\ epoch(rvNow + d) = epoch(rvNow) =>
        in_listen_window(rvNow + d) /\ channel(rvNow + d) = channel(rvNow)

\* The wait a sender computes ends inside a window, and there was none before.
\* An epoch before one whose window opens early is left out: the wait for such a
\* window ends where in_listen_window knows of none (rendezvous.rs:105, 120-122).
WaitEndsAtTheNextWindow ==
  LET wait == next_window_us(rvNow)
  IN phase_slot((epoch(rvNow) + 1) * EpochUs) * SlotUs >= GuardUs =>
       /\ in_listen_window(rvNow + wait)
       /\ \A t \in rvNow .. rvNow + wait - 1 : ~in_listen_window(t)

\* Sender and sleeper meet: by clocks a guard apart, and after waiting.
RendezvousInv == RendezvousTypeOK /\ SkewedPairMeets /\ WaitEndsAtTheNextWindow
=============================================================================
