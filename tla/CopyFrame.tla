----------------------------- MODULE CopyFrame ------------------------------
(***************************************************************************)
(* SrCopyFrame (venet/sendrcv.c): a frame is gathered from the chain of    *)
(* MDLs of a NET_BUFFER into the data of a TCB, with the type of an 802.1p *)
(* tag put in after the two MAC addresses, and is padded to the least      *)
(* length of a frame.  One step per MDL.                                   *)
(*                                                                         *)
(* A byte of the chain is its position in the chain; what else the data    *)
(* of the TCB can hold is not positive.                                    *)
(***************************************************************************)
EXTENDS Integers, Sequences

CONSTANTS
  P8021_MAC_LEN, P8021_BYTE_LEN,   \* the two addresses, the length of a tag
  ETH_MIN_PACKET_SIZE,
  NIC_BUFFER_SIZE,   \* the length of TCB.data, and of the longest frame
  Chains,            \* chains of MDLs: the sequences of the positions where they end
  Priorities         \* what the 802.1Q information of the list can hold

TpidLen == 2   \* sizeof(UINT16)

ASSUME FrameAssumption ==
  /\ P8021_MAC_LEN \in Nat \ {0} /\ P8021_BYTE_LEN = 4
  /\ ETH_MIN_PACKET_SIZE \in Nat /\ P8021_MAC_LEN + P8021_BYTE_LEN <= ETH_MIN_PACKET_SIZE
  /\ NIC_BUFFER_SIZE \in Nat /\ ETH_MIN_PACKET_SIZE <= NIC_BUFFER_SIZE
  /\ Chains \subseteq {c \in Seq(Nat) : c # <<>> /\ \A i \in 1 .. Len(c) - 1 : c[i] <= c[i + 1]}
  /\ Priorities \subseteq Nat

VARIABLES
  pc,
  nb,            \* the NET_BUFFER: chain, offset, length, and its list's priority
  cur_mdl,       \* index of the current MDL
  base,          \* how many bytes of the chain come before it
  offset, data_len, mac_len, priority_len, bytes_copied,
  pDest,         \* how far the destination pointer is in the data
  data           \* TCB.data and, to see what is written there, some bytes after it

counters == <<cur_mdl, base, offset, data_len, mac_len, priority_len, bytes_copied, pDest>>
vars == <<pc, nb, counters, data>>

Old == -1     \* left by an earlier frame
Tpid == -2    \* P8021_TPID_TYPE
Zero == 0

Room == NIC_BUFFER_SIZE + P8021_BYTE_LEN

\* NdisMoveMemory and NdisZeroMemory at position p of the data d
Move(d, p, src, n) == [i \in DOMAIN d |-> IF p < i /\ i <= p + n THEN src + i - p ELSE d[i]]
Fill(d, p, byte, n) == [i \in DOMAIN d |-> IF p < i /\ i <= p + n THEN byte ELSE d[i]]

\* a priority and no VLAN: priority & P8021_HOST_MASK is 0
Tags(priority) == priority # 0 /\ (priority % 65536) \div 8 = 0

\* NDIS (external) sends frames that lie within their chain and are no longer
\* than the miniport announces
Frames ==
  {f \in UNION {[chain : {c}, offset : 0 .. c[Len(c)], len : 0 .. NIC_BUFFER_SIZE,
                 priority : Priorities] : c \in Chains} :
     f.offset + f.len <= f.chain[Len(f.chain)]}

-----------------------------------------------------------------------------
MdlLen == nb.chain[cur_mdl] - base

InLoop == pc = "loop" /\ cur_mdl <= Len(nb.chain) /\ data_len > 0

\* NdisGetNextMdl
NextMdl == cur_mdl' = cur_mdl + 1 /\ base' = nb.chain[cur_mdl]

\* NdisQueryMdl could not map the MDL
Unmapped ==
  /\ InLoop
  /\ pc' = "tail" /\ bytes_copied' = 0
  /\ UNCHANGED <<nb, cur_mdl, base, offset, data_len, mac_len, priority_len, pDest, data>>

\* the frame begins in a later MDL
SkipMdl ==
  /\ InLoop /\ MdlLen <= offset
  /\ offset' = offset - MdlLen
  /\ NextMdl
  /\ UNCHANGED <<pc, nb, data_len, mac_len, priority_len, bytes_copied, pDest, data>>

\* Mutation: the rest of the header is measured against the whole header.
HeaderEndsWhole(cur_len) ==
  Tags(nb.priority) /\ priority_len # 0 /\ cur_len >= P8021_MAC_LEN

\* the MAC addresses end in this MDL, and the tag has yet to be put in
HeaderEnds(cur_len) == Tags(nb.priority) /\ priority_len # 0 /\ cur_len >= mac_len

\* Mutation: what is copied is not limited to what is left of the frame.
CurLenUnlimited == MdlLen - offset

\* the bytes of this MDL that belong to the frame
CurLen ==
  LET rest == MdlLen - offset IN IF rest > data_len THEN data_len ELSE rest

\* what is left of the addresses when they do not end in this MDL
MacLeft(cur_len) ==
  IF Tags(nb.priority) /\ priority_len # 0 THEN mac_len - cur_len ELSE mac_len

CopyMdl ==
  LET cur_len == CurLen
      pSrc == base + offset
      ends == HeaderEnds(cur_len) IN
  /\ InLoop /\ MdlLen > offset
  /\ data_len' = data_len - cur_len
  /\ IF ends
     THEN /\ data' = Move(Fill(Move(data, pDest, pSrc, mac_len),
                               pDest + mac_len, Tpid, TpidLen),
                          pDest + mac_len + TpidLen, pSrc + mac_len, cur_len - mac_len)
          /\ pDest' = pDest + TpidLen + cur_len
          /\ bytes_copied' = bytes_copied + P8021_BYTE_LEN + cur_len
          /\ mac_len' = 0 /\ priority_len' = 0
     ELSE /\ data' = Move(data, pDest, pSrc, cur_len)
          /\ pDest' = pDest + cur_len
          /\ bytes_copied' = bytes_copied + cur_len
          /\ mac_len' = MacLeft(cur_len) /\ UNCHANGED priority_len
  /\ offset' = 0
  /\ NextMdl
  /\ UNCHANGED <<pc, nb>>

LoopEnds ==
  /\ pc = "loop" /\ ~InLoop
  /\ pc' = "tail"
  /\ UNCHANGED <<nb, counters, data>>

\* Mutation: the padding is as long as the shortest frame.
ZeroWholeFrame == ETH_MIN_PACKET_SIZE

ZeroLength == ETH_MIN_PACKET_SIZE - bytes_copied

ZeroTail ==
  /\ pc = "tail" /\ pc' = "done"
  /\ IF bytes_copied # 0 /\ bytes_copied < ETH_MIN_PACKET_SIZE
     THEN /\ data' = Fill(data, pDest, Zero, ZeroLength)
          /\ bytes_copied' = ETH_MIN_PACKET_SIZE
     ELSE UNCHANGED <<data, bytes_copied>>
  /\ UNCHANGED <<nb, cur_mdl, base, offset, data_len, mac_len, priority_len, pDest>>

Init ==
  /\ pc = "loop"
  /\ nb \in Frames
  /\ cur_mdl = 1 /\ base = 0
  /\ offset = nb.offset /\ data_len = nb.len
  /\ mac_len = P8021_MAC_LEN /\ priority_len = P8021_BYTE_LEN
  /\ bytes_copied = 0 /\ pDest = 0
  /\ data = [i \in 1 .. Room |-> Old]

Next == Unmapped \/ SkipMdl \/ CopyMdl \/ LoopEnds \/ ZeroTail

Spec == Init /\ [][Next]_vars

-----------------------------------------------------------------------------
(***************************************************************************)
(* The reference: what the data is to hold once n bytes of the frame have  *)
(* been copied.                                                            *)
(***************************************************************************)
Tagged(n) == Tags(nb.priority) /\ n >= P8021_MAC_LEN

Stored(n) == IF Tagged(n) THEN n + TpidLen ELSE n

Reported(n) == IF Tagged(n) THEN n + P8021_BYTE_LEN ELSE n

Byte(n, i) ==
  IF i > Stored(n) THEN Old
  ELSE IF ~Tagged(n) \/ i <= P8021_MAC_LEN THEN nb.offset + i
  ELSE IF i <= P8021_MAC_LEN + TpidLen THEN Tpid
  ELSE nb.offset + i - TpidLen

Copied == nb.len - data_len

FrameTypeOK ==
  /\ pc \in {"loop", "tail", "done"}
  /\ nb \in Frames
  /\ cur_mdl \in 1 .. Len(nb.chain) + 1
  /\ base \in Nat /\ offset \in Nat /\ data_len \in 0 .. NIC_BUFFER_SIZE
  /\ mac_len \in 0 .. P8021_MAC_LEN /\ priority_len \in {0, P8021_BYTE_LEN}
  /\ bytes_copied \in 0 .. Room /\ pDest \in 0 .. NIC_BUFFER_SIZE + TpidLen
  /\ data \in [1 .. Room -> Int]

\* The loop's bookkeeping: pDest, bytes_copied, mac_len, priority_len and offset,
\* each updated in a place of its own, all follow from how much was copied, and
\* the data is the reference up to there, wherever the MDLs end.
LoopInv ==
  pc = "loop" =>
    /\ data_len <= nb.len
    /\ base = IF cur_mdl = 1 THEN 0 ELSE nb.chain[cur_mdl - 1]
    /\ data_len > 0 => base + offset = nb.offset + Copied
    /\ pDest = Stored(Copied) /\ bytes_copied = Reported(Copied)
    /\ priority_len = IF Tagged(Copied) THEN 0 ELSE P8021_BYTE_LEN
    /\ Tags(nb.priority) /\ ~Tagged(Copied) => mac_len = P8021_MAC_LEN - Copied
    /\ \A i \in 1 .. Room : data[i] = Byte(Copied, i)

\* The loop does not end before the frame is complete, unless an MDL could not be
\* mapped.
TailInv ==
  pc = "tail" /\ bytes_copied # 0 =>
    /\ data_len = 0
    /\ pDest = Stored(nb.len) /\ bytes_copied = Reported(nb.len)
    /\ \A i \in 1 .. Room : data[i] = Byte(nb.len, i)

\* Unless an MDL could not be mapped, the whole frame is in the data, the addresses
\* first, then the type of the tag if the list has a priority and no VLAN, then the
\* rest, whichever MDL each byte was in.  The length returned is the frame's and the
\* tag's, and at least that of the shortest frame.
WholeFrame ==
  pc = "done" /\ bytes_copied # 0 =>
    /\ data_len = 0
    /\ \A i \in 1 .. Stored(nb.len) : data[i] = Byte(nb.len, i)
    /\ bytes_copied = IF Reported(nb.len) < ETH_MIN_PACKET_SIZE THEN ETH_MIN_PACKET_SIZE
                      ELSE Reported(nb.len)

\* An untagged frame is written within TCB.data, and all that is sent of it was
\* written for it: the frame and zeros.
UntaggedIsExact ==
  pc = "done" /\ bytes_copied # 0 /\ ~Tagged(nb.len) =>
    /\ bytes_copied <= NIC_BUFFER_SIZE
    /\ \A i \in 1 .. Room :
         data[i] = IF i <= nb.len THEN nb.offset + i ELSE IF i <= bytes_copied THEN Zero ELSE Old

\* The inductive invariant.
FrameInv == FrameTypeOK /\ LoopInv /\ TailInv /\ WholeFrame /\ UntaggedIsExact

\* sendrcv.c:176, "zero the tail": what is sent was written for this frame.
TailIsZero ==
  pc = "done" => \A i \in 1 .. bytes_copied : data[i] # Old

\* venet.h:195: the data of a TCB has NIC_BUFFER_SIZE bytes.
FitsTcb == \A i \in 1 .. Room : i > NIC_BUFFER_SIZE => data[i] = Old
=============================================================================
