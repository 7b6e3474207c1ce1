------------------------------- MODULE MCOid --------------------------------
(* Two adapters, initialized, asked and halted concurrently, with two TCBs each *)
(* so that the allocation can stop half way.  One object of every kind is asked *)
(* for, with buffers below, at and above each limit; a multicast list has room  *)
(* for two addresses.                                                           *)
EXTENDS Oid, TLC

\* adapters are interchangeable, and so are the two addresses
Symmetry == Permutations(Adapters) \cup Permutations(Addresses)
=============================================================================
