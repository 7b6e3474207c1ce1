---------------------------- MODULE MCEventQueue ----------------------------
(* One power thread, two processors on which the DPC can run, one host       *)
(* producer, a ring of two descriptors and two events.                       *)
EXTENDS EventQueue, TLC

\* the processors are interchangeable (safety runs only)
Symmetry == Permutations(Dpcs)
=============================================================================
