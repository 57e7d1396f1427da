----------------------------- MODULE FrameQueue -----------------------------
(* What a sender may expect of a coalescing queue: frames leave in the order   *)
(* they were accepted, each at most once, some prefix at a time; the radio may *)
(* refuse a whole burst; once shut, nothing is accepted or leaves.             *)
EXTENDS Integers, Sequences

CONSTANTS Offerable, Burst

VARIABLES waiting, delivered, refused, shut

queueVars == <<waiting, delivered, refused, shut>>

QueueInit == waiting = <<>> /\ delivered = <<>> /\ refused = {} /\ shut = FALSE

Offer(f) == ~shut /\ waiting' = Append(waiting, f) /\ UNCHANGED <<delivered, refused, shut>>

Release(n) ==
  /\ ~shut /\ waiting' = SubSeq(waiting, n + 1, Len(waiting))
  /\ \/ delivered' = delivered \o SubSeq(waiting, 1, n) /\ UNCHANGED refused
     \/ refused' = refused \cup {waiting[i] : i \in 1 .. n} /\ UNCHANGED delivered
  /\ UNCHANGED shut

Shut == shut' = TRUE /\ UNCHANGED <<waiting, delivered, refused>>

QueueNext == (\E f \in Offerable : Offer(f)) \/ (\E n \in 1 .. Burst : n <= Len(waiting) /\ Release(n)) \/ Shut
QueueSpec == QueueInit /\ [][QueueNext]_queueVars
=============================================================================
