----------------------------- MODULE MCShmSignal -----------------------------
(* Two contexts in the guest and one in the host: two calls of the same side  *)
(* race with each other and with a call of the other side, in both roles,     *)
(* since every call works on the caller's irq or on the remote one.           *)
EXTENDS ShmSignal, TLC

\* threads of one side are interchangeable
Symmetry == Permutations(NorthThreads) \cup Permutations(SouthThreads)
=============================================================================
