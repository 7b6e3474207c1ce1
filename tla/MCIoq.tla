-------------------------------- MODULE MCIoq --------------------------------
(* Two drainers, and enough events for the ring to wrap twice. *)
EXTENDS Ioq
=============================================================================
