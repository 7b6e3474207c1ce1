---------------------------- MODULE MCCopyFrame -----------------------------
(* Every chain of up to three MDLs, empty ones too, that together are one byte *)
(* longer than the longest frame; addresses of three bytes can be split in two *)
(* places.  Priority 0 is none, 5 is a priority, 8 a VLAN.                     *)
EXTENDS CopyFrame

CONSTANT MaxChain   \* bytes in a chain

MCChains ==
  {c \in UNION {[1 .. n -> 0 .. MaxChain] : n \in 1 .. 3} :
     \A i \in 1 .. Len(c) - 1 : c[i] <= c[i + 1]}
=============================================================================
