----------------------------- MODULE MCBusCall ------------------------------
(* One bridge, two devices of one type, two locks: a lock is created at every  *)
(* start and only the latest is used.                                          *)
EXTENDS BusCall, TLC

CONSTANTS i1, i2

Symmetry == Permutations(Locks)

MCHandleOf == (i1 :> 0) @@ (i2 :> 7)
=============================================================================
