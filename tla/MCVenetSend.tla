---------------------------- MODULE MCVenetSend ----------------------------
(* Two senders, two lists of one and two buffers with different cancel ids, *)
(* and two TCBs: the pool runs dry, chains are queued behind one another, a *)
(* cancel passes over a list and a reset matches more than one.             *)
EXTENDS VenetSend

CONSTANTS x, y

MCNbCount == (x :> 1) @@ (y :> 2)
MCCancelId == (x :> 1) @@ (y :> 2)

\* senders are interchangeable (safety runs only)
Symmetry == Permutations(Senders)
=============================================================================
