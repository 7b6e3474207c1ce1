-------------------------- MODULE CopyFrameProofs ---------------------------
(***************************************************************************)
(* SrCopyFrame gathers every frame correctly, for chains of any number of  *)
(* MDLs of any lengths and for any lengths of a frame.                     *)
(***************************************************************************)
EXTENDS CopyFrame, TLAPS

\* The lengths are natural numbers in their order.
LEMMA Sizes ==
  /\ P8021_MAC_LEN \in Nat /\ P8021_MAC_LEN > 0 /\ P8021_BYTE_LEN = 4 /\ TpidLen = 2
  /\ ETH_MIN_PACKET_SIZE \in Nat /\ P8021_MAC_LEN + 4 <= ETH_MIN_PACKET_SIZE
  /\ NIC_BUFFER_SIZE \in Nat /\ ETH_MIN_PACKET_SIZE <= NIC_BUFFER_SIZE
  /\ Room = NIC_BUFFER_SIZE + 4
BY FrameAssumption DEF TpidLen, Room

\* What is known of the NET_BUFFER that SrCopyFrame is called with.
LEMMA FrameFields ==
  ASSUME NEW f \in Frames
  PROVE  /\ f.chain \in Seq(Nat) /\ Len(f.chain) \in Nat \ {0}
         /\ f.offset \in Nat /\ f.len \in 0 .. NIC_BUFFER_SIZE /\ f.priority \in Nat
         /\ \A i \in 1 .. Len(f.chain) : f.chain[i] \in Nat
         /\ f.offset + f.len <= f.chain[Len(f.chain)]
<1>1. PICK c \in Chains : f \in [chain : {c}, offset : 0 .. c[Len(c)],
                                 len : 0 .. NIC_BUFFER_SIZE, priority : Priorities]
  BY DEF Frames
<1>2. c \in Seq(Nat) /\ c # <<>> /\ f.chain = c
  BY <1>1, FrameAssumption
<1>3. Len(c) \in Nat \ {0} /\ \A i \in 1 .. Len(c) : c[i] \in Nat
  BY <1>2
<1>4. f.offset + f.len <= f.chain[Len(f.chain)]
  BY DEF Frames
<1>5. f.offset \in Nat /\ f.len \in 0 .. NIC_BUFFER_SIZE /\ f.priority \in Nat
  <2>1. /\ f.offset \in 0 .. c[Len(c)] /\ f.len \in 0 .. NIC_BUFFER_SIZE
        /\ f.priority \in Priorities
    BY <1>1
  <2>2. c[Len(c)] \in Nat
    BY <1>3
  <2>3. f.offset \in Nat
    BY <2>1, <2>2
  <2>4. f.priority \in Nat
    BY <2>1, FrameAssumption
  <2> QED
    BY <2>1, <2>3, <2>4
<1> QED
  BY <1>2, <1>3, <1>4, <1>5

\* The loop begins with nothing copied.
LEMMA InitFrame == Init => FrameInv
<1> SUFFICES ASSUME Init PROVE FrameInv
  OBVIOUS
<1>1. nb \in Frames /\ pc = "loop" /\ Copied = 0
  BY FrameFields, FrameAssumption DEF Init, Copied
<1>2. FrameTypeOK
  BY <1>1, FrameFields, FrameAssumption DEF Init, FrameTypeOK, Room, Old, TpidLen
<1>3. ~Tagged(0)
  BY FrameAssumption DEF Tagged
<1>4. LoopInv
  BY <1>1, <1>3, FrameFields, FrameAssumption DEF Init, LoopInv, Stored, Reported, Byte, Room
<1> QED
  BY <1>1, <1>2, <1>4 DEF FrameInv, TailInv, WholeFrame, UntaggedIsExact

\* What the invariant says of the loop's variables, with their types.
LEMMA LoopFacts ==
  ASSUME FrameInv, InLoop
  PROVE  /\ nb \in Frames /\ cur_mdl \in 1 .. Len(nb.chain) /\ base \in Nat /\ offset \in Nat
         /\ nb.chain[cur_mdl] \in Nat /\ nb.offset \in Nat
         /\ nb.len \in 0 .. NIC_BUFFER_SIZE /\ data_len \in 1 .. nb.len
         /\ mac_len \in 0 .. P8021_MAC_LEN
         /\ base + offset = nb.offset + Copied
         /\ pDest = Stored(Copied) /\ bytes_copied = Reported(Copied)
         /\ priority_len = IF Tagged(Copied) THEN 0 ELSE P8021_BYTE_LEN
         /\ Tags(nb.priority) /\ ~Tagged(Copied) => mac_len = P8021_MAC_LEN - Copied
         /\ data \in [1 .. Room -> Int]
         /\ \A i \in 1 .. Room : data[i] = Byte(Copied, i)
<1>1. nb \in Frames
  BY DEF FrameInv, FrameTypeOK
<1>2. cur_mdl \in 1 .. Len(nb.chain) /\ data_len \in 1 .. nb.len
  BY <1>1, FrameFields DEF FrameInv, FrameTypeOK, LoopInv, InLoop
<1>3. nb.chain[cur_mdl] \in Nat /\ nb.offset \in Nat /\ nb.len \in 0 .. NIC_BUFFER_SIZE
  BY <1>1, <1>2, FrameFields
<1> QED
  BY <1>1, <1>2, <1>3 DEF FrameInv, FrameTypeOK, LoopInv, InLoop

\* An MDL before the frame is skipped.
LEMMA SkipKeeps == FrameInv /\ SkipMdl => FrameInv'
<1> SUFFICES ASSUME FrameInv, SkipMdl PROVE FrameInv'
  OBVIOUS
<1>1. InLoop /\ pc' = "loop" /\ Copied' = Copied /\ nb' = nb
  BY DEF SkipMdl, InLoop, Copied
<1>f. /\ base \in Nat /\ offset \in Nat /\ nb.chain[cur_mdl] \in Nat
      /\ cur_mdl \in 1 .. Len(nb.chain) /\ nb \in Frames
  BY <1>1, LoopFacts
<1>2. base' + offset' = base + offset /\ offset' \in Nat /\ base' \in Nat
  BY <1>1, <1>f DEF SkipMdl, NextMdl, MdlLen
<1>3. FrameTypeOK'
  <2>1. cur_mdl' \in 1 .. Len(nb.chain) + 1
    <3>1. cur_mdl' = cur_mdl + 1 /\ Len(nb.chain) \in Nat
      BY <1>f, FrameFields DEF SkipMdl, NextMdl
    <3> QED
      BY <3>1, <1>f
  <2> QED
    BY <2>1, <1>1, <1>f, <1>2 DEF SkipMdl, FrameInv, FrameTypeOK
<1>4. base' = (IF cur_mdl' = 1 THEN 0 ELSE nb'.chain[cur_mdl' - 1])
  BY <1>1, <1>f, FrameFields DEF SkipMdl, NextMdl
<1>5. LoopInv'
  BY <1>1, <1>2, <1>4 DEF SkipMdl, FrameInv, LoopInv, Stored, Reported, Tagged, Byte
<1> QED
  BY <1>1, <1>3, <1>5 DEF FrameInv, TailInv, WholeFrame, UntaggedIsExact

\* What CopyMdl does, with its local names replaced.
LEMMA CopyStep ==
  ASSUME CopyMdl
  PROVE  /\ InLoop /\ MdlLen > offset /\ pc' = pc /\ nb' = nb
         /\ data_len' = data_len - CurLen /\ offset' = 0
         /\ cur_mdl' = cur_mdl + 1 /\ base' = nb.chain[cur_mdl]
         /\ HeaderEnds(CurLen) =>
              /\ data' = Move(Fill(Move(data, pDest, base + offset, mac_len),
                                   pDest + mac_len, Tpid, TpidLen),
                              pDest + mac_len + TpidLen, base + offset + mac_len, CurLen - mac_len)
              /\ pDest' = pDest + TpidLen + CurLen
              /\ bytes_copied' = bytes_copied + P8021_BYTE_LEN + CurLen
              /\ mac_len' = 0 /\ priority_len' = 0
         /\ ~HeaderEnds(CurLen) =>
              /\ data' = Move(data, pDest, base + offset, CurLen)
              /\ pDest' = pDest + CurLen
              /\ bytes_copied' = bytes_copied + CurLen
              /\ mac_len' = MacLeft(CurLen) /\ priority_len' = priority_len
BY DEF CopyMdl, NextMdl

\* Bytes of the MDL are copied after what is there, and a tag is put in once the
\* addresses are complete.
LEMMA CopyKeeps == FrameInv /\ CopyMdl => FrameInv'
<1> SUFFICES ASSUME FrameInv, CopyMdl PROVE FrameInv'
  OBVIOUS
<1>1. InLoop /\ pc = "loop" /\ pc' = "loop" /\ nb' = nb
  BY CopyStep DEF InLoop
<1>f. /\ nb \in Frames /\ cur_mdl \in 1 .. Len(nb.chain) /\ base \in Nat /\ offset \in Nat
      /\ nb.chain[cur_mdl] \in Nat /\ nb.offset \in Nat
      /\ nb.len \in 0 .. NIC_BUFFER_SIZE /\ data_len \in 1 .. nb.len
      /\ mac_len \in 0 .. P8021_MAC_LEN
      /\ base + offset = nb.offset + Copied
      /\ pDest = Stored(Copied) /\ bytes_copied = Reported(Copied)
      /\ priority_len = IF Tagged(Copied) THEN 0 ELSE P8021_BYTE_LEN
      /\ Tags(nb.priority) /\ ~Tagged(Copied) => mac_len = P8021_MAC_LEN - Copied
      /\ data \in [1 .. Room -> Int]
      /\ \A i \in 1 .. Room : data[i] = Byte(Copied, i)
  BY <1>1, LoopFacts
<1>i. /\ base \in Int /\ offset \in Int /\ nb.chain[cur_mdl] \in Int /\ data_len \in Int
      /\ nb.len \in Int /\ nb.offset \in Int /\ mac_len \in Int
      /\ 0 < data_len /\ data_len <= nb.len /\ nb.len <= NIC_BUFFER_SIZE /\ nb.offset >= 0
  <2>1. /\ base \in Nat /\ offset \in Nat /\ nb.chain[cur_mdl] \in Nat /\ nb.offset \in Nat
        /\ nb.len \in 0 .. NIC_BUFFER_SIZE /\ data_len \in 1 .. nb.len
        /\ mac_len \in 0 .. P8021_MAC_LEN
    BY <1>f
  <2>2. nb.len \in Int /\ nb.len <= NIC_BUFFER_SIZE
    BY <2>1, Sizes
  <2> QED
    BY <2>1, <2>2, Sizes
<1>2. CurLen \in Int /\ 1 <= CurLen /\ CurLen <= data_len
      /\ (CurLen < data_len => CurLen = nb.chain[cur_mdl] - base - offset)
  <2>1. nb.chain[cur_mdl] - base > offset
    BY CopyStep DEF MdlLen
  <2> QED
    BY <2>1, <1>i DEF CurLen, MdlLen
<1>3. /\ data_len' = data_len - CurLen /\ Copied \in Nat
      /\ Copied' = Copied + CurLen /\ Copied + CurLen <= nb.len
  <2>1. data_len' = data_len - CurLen
    BY CopyStep
  <2>2. Copied = nb.len - data_len /\ Copied' = nb.len - data_len'
    BY <1>1 DEF Copied
  <2> QED
    BY <2>1, <2>2, <1>i, <1>2
<1>k. PICK k \in Nat, n \in Nat : k = Copied /\ n = CurLen /\ n > 0 /\ k + n <= nb.len
  BY <1>2, <1>3
<1>g. /\ base + offset = nb.offset + k
      /\ pDest = Stored(k) /\ bytes_copied = Reported(k)
      /\ priority_len = IF Tagged(k) THEN 0 ELSE P8021_BYTE_LEN
      /\ Tags(nb.priority) /\ ~Tagged(k) => mac_len = P8021_MAC_LEN - k
      /\ \A i \in 1 .. Room : data[i] = Byte(k, i)
  BY <1>f, <1>k
<1>h. data_len' = data_len - n /\ Copied' = k + n
  BY <1>3, <1>k
<1>4. /\ base' \in Nat /\ offset' = 0 /\ cur_mdl' \in 1 .. Len(nb'.chain) + 1
      /\ base' = IF cur_mdl' = 1 THEN 0 ELSE nb'.chain[cur_mdl' - 1]
  BY <1>1, <1>f, FrameFields, CopyStep
<1>5. data_len' > 0 => base' + offset' = nb'.offset + (k + n)
  <2> SUFFICES ASSUME data_len' > 0 PROVE base' + offset' = nb'.offset + (k + n)
    OBVIOUS
  <2>1. n < data_len
    BY <1>i, <1>h
  <2>2. n = nb.chain[cur_mdl] - base - offset
    BY <2>1, <1>2, <1>k
  <2>3. base' = nb.chain[cur_mdl] /\ offset' = 0 /\ nb'.offset = nb.offset
    BY <1>1, CopyStep
  <2>4. base + offset = nb.offset + k
    BY <1>g
  <2> QED
    BY <2>2, <2>3, <2>4, <1>i
<1>t. /\ Tagged(k) \in BOOLEAN /\ Tagged(k + n) \in BOOLEAN
      /\ Tagged(k) => Tagged(k + n) /\ k >= P8021_MAC_LEN
      /\ Tagged(k + n) => k + n >= P8021_MAC_LEN
      /\ Tags(nb.priority) /\ ~Tagged(k + n) => k + n < P8021_MAC_LEN
      /\ Tagged(k + n) => Tags(nb.priority)
  BY Sizes DEF Tagged
<1>6. HeaderEnds(n) <=> ~Tagged(k) /\ Tagged(k + n)
  <2>1. HeaderEnds(n) <=> Tags(nb.priority) /\ ~Tagged(k) /\ n >= mac_len
    BY <1>g, Sizes DEF HeaderEnds
  <2>2. Tags(nb.priority) /\ ~Tagged(k) => (n >= mac_len <=> k + n >= P8021_MAC_LEN)
    BY <1>g, Sizes
  <2>3. Tagged(k + n) <=> Tags(nb.priority) /\ k + n >= P8021_MAC_LEN
    BY DEF Tagged
  <2> QED
    BY <2>1, <2>2, <2>3
<1>s. /\ Stored(k) = (IF Tagged(k) THEN k + 2 ELSE k)
      /\ Stored(k + n) = (IF Tagged(k + n) THEN k + n + 2 ELSE k + n)
      /\ Reported(k) = (IF Tagged(k) THEN k + 4 ELSE k)
      /\ Reported(k + n) = (IF Tagged(k + n) THEN k + n + 4 ELSE k + n)
  BY Sizes DEF Stored, Reported
<1>7. /\ pDest' = Stored(k + n) /\ bytes_copied' = Reported(k + n)
      /\ priority_len' = IF Tagged(k + n) THEN 0 ELSE P8021_BYTE_LEN
      /\ mac_len' \in 0 .. P8021_MAC_LEN
      /\ Tags(nb.priority) /\ ~Tagged(k + n) => mac_len' = P8021_MAC_LEN - (k + n)
  <2>1. CASE HeaderEnds(n)
    <3>1. /\ pDest' = pDest + TpidLen + n /\ bytes_copied' = bytes_copied + P8021_BYTE_LEN + n
          /\ mac_len' = 0 /\ priority_len' = 0
      BY <2>1, <1>k, CopyStep
    <3>2. ~Tagged(k) /\ Tagged(k + n)
      BY <2>1, <1>6
    <3> QED
      BY <3>1, <3>2, <1>g, <1>s, Sizes
  <2>2. CASE ~HeaderEnds(n)
    <3>1. /\ pDest' = pDest + n /\ bytes_copied' = bytes_copied + n
          /\ mac_len' = MacLeft(n) /\ priority_len' = priority_len
      BY <2>2, <1>k, CopyStep
    <3>2. Tagged(k) <=> Tagged(k + n)
      BY <2>2, <1>t, <1>6
    <3>3. pDest' = Stored(k + n) /\ bytes_copied' = Reported(k + n)
      BY <3>1, <3>2, <1>g, <1>s
    <3>4. priority_len' = IF Tagged(k + n) THEN 0 ELSE P8021_BYTE_LEN
      BY <3>1, <3>2, <1>g
    <3>5. CASE Tags(nb.priority) /\ ~Tagged(k)
      <4>1. mac_len' = mac_len - n /\ mac_len = P8021_MAC_LEN - k /\ k + n < P8021_MAC_LEN
        BY <3>1, <3>2, <3>5, <1>g, <1>t, Sizes DEF MacLeft
      <4> QED
        BY <3>3, <3>4, <4>1, Sizes
    <3>6. CASE ~(Tags(nb.priority) /\ ~Tagged(k))
      <4>1. mac_len' = mac_len
        BY <3>1, <3>6, <1>g DEF MacLeft
      <4> QED
        BY <3>2, <3>3, <3>4, <3>6, <4>1, <1>f
    <3> QED
      BY <3>5, <3>6
  <2> QED
    BY <2>1, <2>2
<1>8. data' \in [1 .. Room -> Int] /\ \A i \in 1 .. Room : data'[i] = Byte(k + n, i)
  <2>1. CASE HeaderEnds(n)
    <3>1. ~Tagged(k) /\ Tagged(k + n) /\ mac_len = P8021_MAC_LEN - k /\ pDest = k
      BY <2>1, <1>g, <1>t, <1>6, <1>s
    <3>2. data' = Move(Fill(Move(data, pDest, base + offset, mac_len), pDest + mac_len, Tpid, TpidLen),
                       pDest + mac_len + TpidLen, base + offset + mac_len, n - mac_len)
      BY <2>1, <1>k, CopyStep
    <3>3. /\ pDest + mac_len = P8021_MAC_LEN /\ pDest + mac_len + TpidLen = P8021_MAC_LEN + 2
          /\ base + offset + mac_len = nb.offset + P8021_MAC_LEN
          /\ n - mac_len = k + n - P8021_MAC_LEN
      <4>1. base + offset = nb.offset + k
        BY <1>g
      <4> QED
        BY <3>1, <4>1, <1>i, Sizes
    <3>4. \A i \in 1 .. Room : data[i] = IF i > k THEN Old ELSE nb.offset + i
      BY <3>1, <1>g, <1>s DEF Byte
    <3>5. \A i \in 1 .. Room : Byte(k + n, i) =
            IF i > k + n + 2 THEN Old ELSE IF i <= P8021_MAC_LEN THEN nb.offset + i
            ELSE IF i <= P8021_MAC_LEN + 2 THEN Tpid ELSE nb.offset + i - 2
      BY <3>1, <1>s, Sizes DEF Byte
    <3> DEFINE d1 == Move(data, k, nb.offset + k, P8021_MAC_LEN - k)
               d2 == Fill(d1, P8021_MAC_LEN, Tpid, 2)
    <3>6. data' = Move(d2, P8021_MAC_LEN + 2, nb.offset + P8021_MAC_LEN, k + n - P8021_MAC_LEN)
      BY <3>1, <3>2, <3>3, <1>g, Sizes
    <3>7. /\ DOMAIN d1 = 1 .. Room
          /\ \A i \in 1 .. Room : d1[i] = IF i > P8021_MAC_LEN THEN Old ELSE nb.offset + i
      <4>1. DOMAIN data = 1 .. Room /\ k <= P8021_MAC_LEN
        BY <3>1, <1>f, Sizes
      <4>2. d1 = [i \in 1 .. Room |-> IF k < i /\ i <= k + (P8021_MAC_LEN - k)
                                      THEN nb.offset + k + i - k ELSE data[i]]
        BY <4>1 DEF Move
      <4> HIDE DEF d1
      <4> QED
        BY <4>1, <4>2, <3>4, <1>i, Sizes
    <3> HIDE DEF d1
    <3>8. /\ DOMAIN d2 = 1 .. Room
          /\ \A i \in 1 .. Room : d2[i] = IF i > P8021_MAC_LEN + 2 THEN Old
                                         ELSE IF i > P8021_MAC_LEN THEN Tpid ELSE nb.offset + i
      BY <3>7, Sizes DEF Fill
    <3> HIDE DEF d2
    <3>9. /\ data' = [i \in 1 .. Room |-> data'[i]]
          /\ \A i \in 1 .. Room : data'[i] =
            IF i > k + n + 2 THEN Old ELSE IF i <= P8021_MAC_LEN THEN nb.offset + i
            ELSE IF i <= P8021_MAC_LEN + 2 THEN Tpid ELSE nb.offset + i - 2
      <4>1. data' = [i \in 1 .. Room |->
                      IF P8021_MAC_LEN + 2 < i /\ i <= P8021_MAC_LEN + 2 + (k + n - P8021_MAC_LEN)
                      THEN nb.offset + P8021_MAC_LEN + i - (P8021_MAC_LEN + 2) ELSE d2[i]]
        BY <3>6, <3>8 DEF Move
      <4>2. k + n >= P8021_MAC_LEN
        BY <3>1, <1>t
      <4> QED
        BY <4>1, <4>2, <3>8, <1>i, Sizes
    <3>10. \A i \in 1 .. Room : data'[i] \in Int
      <4>1. Old \in Int /\ Tpid \in Int
        BY DEF Old, Tpid
      <4>2. \A i \in 1 .. Room : i \in Int
        BY Sizes
      <4>3. \A i \in 1 .. Room : nb.offset + i \in Int /\ nb.offset + i - 2 \in Int
        BY <4>2, <1>i
      <4> QED
        BY <3>9, <4>1, <4>3
    <3> QED
      BY <3>5, <3>9, <3>10
  <2>2. CASE ~HeaderEnds(n)
    <3>1. data' = Move(data, pDest, base + offset, n)
      BY <2>2, <1>k, CopyStep
    <3>2. Tagged(k) <=> Tagged(k + n)
      BY <2>2, <1>t, <1>6
    <3>3. pDest \in Nat
      BY <1>g, <1>s
    <3>4. data' \in [1 .. Room -> Int]
      BY <3>1, <3>3, <1>f, Sizes DEF Move
    <3>5. ASSUME NEW i \in 1 .. Room PROVE data'[i] = Byte(k + n, i)
      <4>1. data'[i] = IF pDest < i /\ i <= pDest + n THEN base + offset + i - pDest ELSE Byte(k, i)
        BY <3>1, <1>f, <1>g DEF Move
      <4>2. i \in Nat
        BY Sizes
      <4>b. base + offset = nb.offset + k /\ pDest = Stored(k)
        BY <1>g
      <4>3. CASE Tagged(k)
        <5>1. pDest = k + 2 /\ Stored(k) = k + 2 /\ Stored(k + n) = k + n + 2 /\ k >= P8021_MAC_LEN
          BY <4>3, <4>b, <3>2, <1>s, <1>t
        <5>2. Byte(k, i) = IF i > k + 2 THEN Old ELSE IF i <= P8021_MAC_LEN THEN nb.offset + i
                           ELSE IF i <= P8021_MAC_LEN + 2 THEN Tpid ELSE nb.offset + i - 2
          BY <4>3, <5>1, Sizes DEF Byte
        <5>3. Byte(k + n, i) = IF i > k + n + 2 THEN Old ELSE IF i <= P8021_MAC_LEN THEN nb.offset + i
                               ELSE IF i <= P8021_MAC_LEN + 2 THEN Tpid ELSE nb.offset + i - 2
          BY <4>3, <5>1, <3>2, Sizes DEF Byte
        <5>4. data'[i] = IF k + 2 < i /\ i <= k + 2 + n THEN nb.offset + k + i - (k + 2) ELSE Byte(k, i)
          BY <4>1, <4>b, <5>1
        <5> QED
          BY <5>1, <5>2, <5>3, <5>4, <4>2, <1>i, Sizes
      <4>4. CASE ~Tagged(k)
        <5>1. pDest = k /\ Stored(k) = k /\ Stored(k + n) = k + n
          BY <4>4, <4>b, <3>2, <1>s
        <5>2. /\ Byte(k, i) = IF i > k THEN Old ELSE nb.offset + i
              /\ Byte(k + n, i) = IF i > k + n THEN Old ELSE nb.offset + i
          BY <4>4, <5>1, <3>2 DEF Byte
        <5>3. data'[i] = IF k < i /\ i <= k + n THEN nb.offset + k + i - k ELSE Byte(k, i)
          BY <4>1, <4>b, <5>1
        <5> QED
          BY <5>2, <5>3, <4>2, <1>i
      <4> QED
        BY <4>3, <4>4
    <3> QED
      BY <3>4, <3>5
  <2> QED
    BY <2>1, <2>2
<1>9. FrameTypeOK'
  <2>1. Stored(k + n) \in 0 .. NIC_BUFFER_SIZE + TpidLen /\ Reported(k + n) \in 0 .. Room
    <3>1. k + n <= NIC_BUFFER_SIZE
      BY <1>i, <1>k, Sizes
    <3> QED
      BY <3>1, <1>s, Sizes
  <2>2. data_len' \in 0 .. NIC_BUFFER_SIZE
    BY <1>i, <1>2, <1>h, <1>k, Sizes
  <2>3. priority_len' \in {0, P8021_BYTE_LEN}
    BY <1>7
  <2>4. nb' \in Frames /\ pc' \in {"loop", "tail", "done"} /\ offset' \in Nat
    BY <1>1, <1>f, <1>4
  <2> QED
    BY <2>1, <2>2, <2>3, <2>4, <1>4, <1>7, <1>8 DEF FrameTypeOK, Room
<1>10. LoopInv'
  <2>1. /\ pDest' = Stored(k + n)' /\ bytes_copied' = Reported(k + n)'
        /\ priority_len' = IF Tagged(k + n)' THEN 0 ELSE P8021_BYTE_LEN
        /\ Tags(nb'.priority) /\ ~Tagged(k + n)' => mac_len' = P8021_MAC_LEN - (k + n)
        /\ \A i \in 1 .. Room : data'[i] = Byte(k + n, i)'
    BY <1>1, <1>7, <1>8 DEF Stored, Reported, Tagged, Byte
  <2>2. data_len' <= nb'.len
    BY <1>1, <1>f, <1>h
  <2> QED
    BY <2>1, <2>2, <1>1, <1>h, <1>4, <1>5 DEF LoopInv
<1> QED
  BY <1>1, <1>9, <1>10 DEF FrameInv, TailInv, WholeFrame, UntaggedIsExact

\* An MDL that cannot be mapped ends the loop, and the frame counts as not copied.
LEMMA UnmappedKeeps == FrameInv /\ Unmapped => FrameInv'
<1> SUFFICES ASSUME FrameInv, Unmapped PROVE FrameInv'
  OBVIOUS
<1>1. pc' = "tail" /\ bytes_copied' = 0
  BY DEF Unmapped
<1>2. FrameTypeOK'
  BY <1>1, Sizes DEF Unmapped, FrameInv, FrameTypeOK
<1> QED
  BY <1>1, <1>2 DEF FrameInv, LoopInv, TailInv, WholeFrame, UntaggedIsExact

\* The chain does not end before the frame does: the frame lies within it.
LEMMA LoopEndsKeeps == FrameInv /\ LoopEnds => FrameInv'
<1> SUFFICES ASSUME FrameInv, LoopEnds PROVE FrameInv'
  OBVIOUS
<1>1. /\ pc = "loop" /\ ~InLoop /\ pc' = "tail"
      /\ nb' = nb /\ data_len' = data_len /\ data' = data /\ pDest' = pDest
      /\ bytes_copied' = bytes_copied /\ cur_mdl' = cur_mdl /\ base' = base
      /\ offset' = offset /\ mac_len' = mac_len /\ priority_len' = priority_len
  BY DEF LoopEnds, counters
<1>2. FrameTypeOK /\ LoopInv
  BY DEF FrameInv
<1>3. FrameTypeOK'
  BY <1>1, <1>2 DEF FrameTypeOK
<1>4. nb \in Frames /\ data_len \in Nat /\ base \in Nat /\ offset \in Nat
      /\ cur_mdl \in 1 .. Len(nb.chain) + 1
  BY <1>2, Sizes DEF FrameTypeOK
<1>5. /\ Len(nb.chain) \in Nat \ {0} /\ nb.offset \in Nat /\ nb.len \in Nat
      /\ nb.offset + nb.len <= nb.chain[Len(nb.chain)] /\ nb.chain[Len(nb.chain)] \in Nat
  BY <1>4, FrameFields, Sizes
<1>6. data_len = 0
  <2> SUFFICES ASSUME data_len > 0 PROVE FALSE
    BY <1>4
  <2>1. cur_mdl = Len(nb.chain) + 1
    BY <1>1, <1>4, <1>5 DEF InLoop
  <2>2. base = nb.chain[Len(nb.chain)]
    BY <1>1, <1>2, <1>5, <2>1 DEF LoopInv
  <2>3. base + offset = nb.offset + (nb.len - data_len)
    BY <1>1, <1>2 DEF LoopInv, Copied
  <2> QED
    BY <2>2, <2>3, <1>4, <1>5
<1>7. Copied = nb.len
  BY <1>5, <1>6 DEF Copied
<1>8. /\ pDest = Stored(nb.len) /\ bytes_copied = Reported(nb.len)
      /\ \A i \in 1 .. Room : data[i] = Byte(nb.len, i)
  BY <1>1, <1>2, <1>7 DEF LoopInv
<1>9. TailInv'
  BY <1>1, <1>6, <1>8 DEF TailInv, Stored, Reported, Tagged, Byte
<1> QED
  BY <1>1, <1>3, <1>9 DEF FrameInv, LoopInv, WholeFrame, UntaggedIsExact

\* A short frame is padded after its last byte.
LEMMA ZeroTailKeeps == FrameInv /\ ZeroTail => FrameInv'
<1> SUFFICES ASSUME FrameInv, ZeroTail PROVE FrameInv'
  OBVIOUS
<1>1. /\ pc = "tail" /\ pc' = "done" /\ nb' = nb /\ data_len' = data_len
      /\ pDest' = pDest /\ cur_mdl' = cur_mdl /\ base' = base
      /\ offset' = offset /\ mac_len' = mac_len /\ priority_len' = priority_len
  BY DEF ZeroTail
<1>2. FrameTypeOK /\ TailInv
  BY DEF FrameInv
<1>3. /\ nb \in Frames /\ data \in [1 .. Room -> Int] /\ pDest \in Nat
      /\ bytes_copied \in 0 .. Room
  BY <1>2, Sizes DEF FrameTypeOK
<1>4. nb.len \in Nat /\ nb.len <= NIC_BUFFER_SIZE /\ nb.offset \in Nat
  BY <1>3, FrameFields, Sizes
<1>5. bytes_copied' \in 0 .. Room /\ data' \in [1 .. Room -> Int]
  <2>1. CASE bytes_copied # 0 /\ bytes_copied < ETH_MIN_PACKET_SIZE
    BY <2>1, <1>3, Sizes DEF ZeroTail, Fill, Zero
  <2>2. CASE ~(bytes_copied # 0 /\ bytes_copied < ETH_MIN_PACKET_SIZE)
    BY <2>2, <1>3 DEF ZeroTail
  <2> QED
    BY <2>1, <2>2
<1>6. FrameTypeOK'
  BY <1>1, <1>2, <1>5 DEF FrameTypeOK
<1>7. ASSUME bytes_copied' # 0
      PROVE  WholeFrame' /\ UntaggedIsExact'
  <2>1. bytes_copied # 0
    BY <1>7 DEF ZeroTail
  <2>2. /\ data_len = 0 /\ pDest = Stored(nb.len) /\ bytes_copied = Reported(nb.len)
        /\ \A i \in 1 .. Room : data[i] = Byte(nb.len, i)
    BY <1>1, <1>2, <2>1 DEF TailInv
  <2>3. /\ Stored(nb.len) = (IF Tagged(nb.len) THEN nb.len + 2 ELSE nb.len)
        /\ Reported(nb.len) = (IF Tagged(nb.len) THEN nb.len + 4 ELSE nb.len)
    BY Sizes DEF Stored, Reported
  <2>4. /\ bytes_copied' = (IF Reported(nb.len) < ETH_MIN_PACKET_SIZE THEN ETH_MIN_PACKET_SIZE
                            ELSE Reported(nb.len))
        /\ \A i \in 1 .. Room : data'[i] = IF i <= Stored(nb.len) THEN Byte(nb.len, i)
             ELSE IF Reported(nb.len) < ETH_MIN_PACKET_SIZE
                     /\ i <= Stored(nb.len) + (ETH_MIN_PACKET_SIZE - Reported(nb.len))
                  THEN Zero ELSE Old
    <3>1. \A i \in 1 .. Room : i \in Nat
      BY Sizes
    <3>2. Stored(nb.len) \in Nat /\ Reported(nb.len) \in Nat
      BY <2>3, <1>4
    <3>3. \A i \in 1 .. Room : i > Stored(nb.len) => Byte(nb.len, i) = Old
      BY DEF Byte
    <3>4. CASE bytes_copied < ETH_MIN_PACKET_SIZE
      <4>1. data' = [i \in 1 .. Room |->
                      IF pDest < i /\ i <= pDest + (ETH_MIN_PACKET_SIZE - bytes_copied)
                      THEN Zero ELSE data[i]]
            /\ bytes_copied' = ETH_MIN_PACKET_SIZE
        BY <3>4, <2>1, <1>3 DEF ZeroTail, Fill, ZeroLength
      <4> QED
        BY <4>1, <3>1, <3>2, <3>3, <3>4, <2>2
    <3>5. CASE ~(bytes_copied < ETH_MIN_PACKET_SIZE)
      <4>1. data' = data /\ bytes_copied' = bytes_copied
        BY <3>5 DEF ZeroTail
      <4> QED
        BY <4>1, <3>1, <3>2, <3>3, <3>5, <2>2
    <3> QED
      BY <3>4, <3>5
  <2>5. WholeFrame'
    <3>1. \A i \in 1 .. Stored(nb.len) : i \in 1 .. Room /\ i <= Stored(nb.len)
      BY <2>3, <1>4, Sizes
    <3>2. \A i \in 1 .. Stored(nb.len) : data'[i] = Byte(nb.len, i)
      BY <3>1, <2>4
    <3> QED
      BY <3>2, <2>2, <2>4, <1>1 DEF WholeFrame, Stored, Reported, Tagged, Byte
  <2>6. UntaggedIsExact'
    <3> SUFFICES ASSUME ~Tagged(nb.len)
                 PROVE  /\ bytes_copied' <= NIC_BUFFER_SIZE
                        /\ \A i \in 1 .. Room : data'[i] = IF i <= nb.len THEN nb.offset + i
                             ELSE IF i <= bytes_copied' THEN Zero ELSE Old
      BY <1>1 DEF UntaggedIsExact, Tagged
    <3>1. Stored(nb.len) = nb.len /\ Reported(nb.len) = nb.len
      BY <2>3
    <3>2. \A i \in 1 .. Room : i <= nb.len => Byte(nb.len, i) = nb.offset + i
      BY <3>1, <1>4, Sizes DEF Byte
    <3>3. \A i \in 1 .. Room : i \in Nat
      BY Sizes
    <3> QED
      BY <3>1, <3>2, <3>3, <2>4, <1>4, Sizes
  <2> QED
    BY <2>5, <2>6
<1>8. ASSUME bytes_copied' = 0
      PROVE  WholeFrame' /\ UntaggedIsExact'
  BY <1>8 DEF WholeFrame, UntaggedIsExact
<1> QED
  BY <1>1, <1>6, <1>7, <1>8 DEF FrameInv, LoopInv, TailInv

\* FrameInv is inductive.
LEMMA NextFrame == FrameInv /\ [Next]_vars => FrameInv'
<1> SUFFICES ASSUME FrameInv, [Next]_vars PROVE FrameInv'
  OBVIOUS
<1>1. CASE Next
  BY <1>1, UnmappedKeeps, SkipKeeps, CopyKeeps, LoopEndsKeeps, ZeroTailKeeps DEF Next
<1>2. CASE UNCHANGED vars
  BY <1>2 DEF vars, counters, FrameInv, FrameTypeOK, LoopInv, TailInv, WholeFrame,
       UntaggedIsExact, Copied, Stored, Reported, Tagged, Byte
<1> QED
  BY <1>1, <1>2

\* SrCopyFrame's bookkeeping is right whatever the chain: the data of the TCB is at
\* every MDL the frame copied so far, with the tag where it belongs.
THEOREM FrameInvariance == Spec => []FrameInv
BY InitFrame, NextFrame, PTL DEF Spec

\* A frame that was copied was copied whole and in order, wherever its MDLs end.
THEOREM FrameIsWhole == Spec => []WholeFrame
<1>1. FrameInv => WholeFrame
  BY DEF FrameInv
<1> QED
  BY <1>1, FrameInvariance, PTL

\* An untagged frame fits the TCB and is followed by zeros up to the least length.
THEOREM UntaggedFrameIsExact == Spec => []UntaggedIsExact
<1>1. FrameInv => UntaggedIsExact
  BY DEF FrameInv
<1> QED
  BY <1>1, FrameInvariance, PTL
=============================================================================
