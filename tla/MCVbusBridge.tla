---------------------------- MODULE MCVbusBridge ----------------------------
(* Two devices of two types.  The header of the ABI does not exclude 0 as the  *)
(* handle of a device, and no PDO has any other.                              *)
EXTENDS VbusBridge, TLC

CONSTANTS i1, i2

MCHandleOf == (i1 :> 0) @@ (i2 :> 7)
=============================================================================
