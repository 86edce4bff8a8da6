----------------------------- MODULE MCAcquireGate -----------------------------
(* Instances of AcquireGate for TLC. *)
EXTENDS AcquireGate, TLC

Identities == Permutations(Requests) \cup Permutations(Origins) \cup Permutations(Semaphores)

================================================================================
