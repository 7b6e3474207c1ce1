-------------------------- MODULE VenetSendProofs ---------------------------
(***************************************************************************)
(* The transmit path, for any number of senders, lists, buffers and TCBs:  *)
(* one sender at a time is inside SrProcessNBL, it never runs out of the   *)
(* TCBs it has counted, and lists leave in the order of their arrival.     *)
(***************************************************************************)
EXTENDS VenetSend, FiniteSetTheorems, SequenceTheorems, TLAPS

-----------------------------------------------------------------------------
(***************************************************************************)
(* Steps by what they touch.                                               *)
(***************************************************************************)
\* A step of the control paths or of a canceller leaves the senders and the list in
\* hand alone, and the TCBs unless it is the halt's VenetFreeTx; it may set the send
\* event, and it changes the queue only by SrCancelQueued.
LEMMA OtherSteps ==
  ASSUME \/ \E id \in CancelIds : VenetCancelSend(id)
         \/ NdisStep \/ PnpStep
  PROVE  /\ UNCHANGED <<sendingNBL, arrival, sendvars>>
         /\ UNCHANGED tcbvars \/ HaltFreeTx
         /\ sendEvent' = sendEvent \/ sendEvent' = TRUE
         /\ \/ UNCHANGED <<sendQueue, owner>>
            \/ \E id, reason : reason \in Completed /\ SrCancelQueued(id, reason)
<1>1. ASSUME NEW id \in CancelIds, VenetCancelSend(id)
      PROVE  /\ UNCHANGED <<sendingNBL, arrival, tcbvars, sendvars, sendEvent>>
             /\ SrCancelQueued(id, "aborted") /\ "aborted" \in Completed
  BY <1>1 DEF VenetCancelSend, Completed
<1>2. ASSUME HaltFreeQueued
      PROVE  /\ UNCHANGED <<sendingNBL, arrival, tcbvars, sendvars, sendEvent>>
             /\ SrCancelQueued(0, "failure") /\ "failure" \in Completed
  BY <1>2 DEF HaltFreeQueued, Completed
<1>3. ASSUME ResetFreeQueued
      PROVE  /\ UNCHANGED <<sendingNBL, arrival, tcbvars, sendvars, sendEvent>>
             /\ SrCancelQueued(0, "reset_in_progress") /\ "reset_in_progress" \in Completed
  BY <1>3 DEF ResetFreeQueued, Completed
<1>4. ASSUME \/ VenetPause \/ PauseReturns \/ VenetRestart \/ RestartStore \/ RestartEvent
             \/ VenetHalt \/ HaltFreeAdapter \/ VenetReset \/ ResetEvent \/ ResetLoad \/ ResetStore
      PROVE  /\ UNCHANGED <<txvars, tcbvars, sendvars>>
             /\ sendEvent' = sendEvent \/ sendEvent' = TRUE
  BY <1>4 DEF VenetPause, PauseReturns, VenetRestart, RestartStore, RestartEvent, VenetHalt,
              HaltFreeAdapter, VenetReset, ResetEvent, ResetLoad, ResetStore, NdisSetFlag, NdisLoadFlags,
              NdisStoreFlags, NdisSetEvent
<1>5. ASSUME PnpStep
      PROVE  UNCHANGED <<txvars, tcbvars, sendvars, sendEvent>>
  BY <1>5 DEF PnpStep, VenetShutdown, ShutdownStore, ShutdownReturns, VenetSurpriseRemoved,
              RemovedStore, PnpLoadFlags, PnpStoreFlags
<1>6. ASSUME HaltFreeTx
      PROVE  UNCHANGED <<txvars, sendvars, sendEvent>>
  BY <1>6 DEF HaltFreeTx
<1> QED
  BY <1>1, <1>2, <1>3, <1>4, <1>5, <1>6 DEF NdisStep, txvars

-----------------------------------------------------------------------------
(***************************************************************************)
(* One sender inside.                                                      *)
(***************************************************************************)
PcLabels == {"idle", "take", "check", "alloc", "copy", "release", "signal", "requeue", "finish",
             "relock", "null_tcb"}

Outside == {"idle", "take", "relock"}

ProcInv ==
  /\ pc \in [Senders -> PcLabels]
  /\ nb \in [Senders -> Nat]
  /\ sendingNBL \in Nbl \cup {NoNbl}
  /\ sendQueue \in Seq(Nbl)
  /\ SingleProcessor

\* The sender inside has a list in hand, and it is the only one inside.
LEMMA InsideFacts ==
  ASSUME ProcInv, NEW t \in Senders, InProcessNbl(t)
  PROVE  /\ sendingNBL \in Nbl
         /\ \A s \in Senders \ {t} : ~InProcessNbl(s)
BY SendAssumption DEF ProcInv, SingleProcessor

\* Removing one element of a sequence.
LEMMA RemoveAtProperties ==
  ASSUME NEW S, NEW s \in Seq(S), NEW i \in 1 .. Len(s)
  PROVE  /\ RemoveAt(s, i) \in Seq(S)
         /\ Len(RemoveAt(s, i)) = Len(s) - 1
         /\ \A j \in 1 .. Len(s) - 1 : RemoveAt(s, i)[j] = IF j < i THEN s[j] ELSE s[j + 1]
<1>1. Len(s) \in Nat /\ i \in Nat /\ i <= Len(s) /\ \A k \in 1 .. Len(s) : s[k] \in S
  OBVIOUS
<1>2. PICK a : a = SubSeq(s, 1, i - 1)
  OBVIOUS
<1>3. PICK b : b = SubSeq(s, i + 1, Len(s))
  OBVIOUS
<1>4. /\ a \in Seq(S) /\ Len(a) = i - 1
      /\ \A j \in 1 .. i - 1 : a[j] = s[j]
  <2>1. i - 1 \in Int /\ \A k \in 1 .. i - 1 : s[k] \in S
    BY <1>1
  <2>2. /\ a \in Seq(S) /\ Len(a) = IF 1 <= i - 1 THEN (i - 1) - 1 + 1 ELSE 0
        /\ \A j \in 1 .. (i - 1) - 1 + 1 : a[j] = s[1 + j - 1]
    BY <1>2, <2>1, SubSeqProperties
  <2> QED
    BY <1>1, <2>2
<1>5. /\ b \in Seq(S) /\ Len(b) = Len(s) - i
      /\ \A j \in 1 .. Len(s) - i : b[j] = s[i + j]
  <2>1. i + 1 \in Int /\ Len(s) \in Int /\ \A k \in i + 1 .. Len(s) : s[k] \in S
    BY <1>1
  <2>2. /\ b \in Seq(S) /\ Len(b) = IF i + 1 <= Len(s) THEN Len(s) - (i + 1) + 1 ELSE 0
        /\ \A j \in 1 .. Len(s) - (i + 1) + 1 : b[j] = s[i + 1 + j - 1]
    BY <1>3, <2>1, SubSeqProperties
  <2>3. Len(b) = Len(s) - i
    <3>1. Len(b) = IF i + 1 <= Len(s) THEN Len(s) - (i + 1) + 1 ELSE 0
      BY <2>2
    <3> QED
      BY <1>1, <3>1
  <2>4. ASSUME NEW j \in 1 .. Len(s) - i PROVE b[j] = s[i + j]
    <3>1. j \in 1 .. Len(s) - (i + 1) + 1 /\ i + 1 + j - 1 = i + j
      BY <1>1
    <3> QED
      BY <2>2, <3>1
  <2> QED
    BY <2>2, <2>3, <2>4
<1>6. RemoveAt(s, i) = a \o b
  BY <1>2, <1>3 DEF RemoveAt
<1>7. /\ a \o b \in Seq(S) /\ Len(a \o b) = Len(a) + Len(b)
      /\ \A j \in 1 .. Len(a) + Len(b) : (a \o b)[j] = IF j <= Len(a) THEN a[j] ELSE b[j - Len(a)]
  BY <1>4, <1>5, ConcatProperties
<1>8. ASSUME NEW j \in 1 .. Len(s) - 1
      PROVE  (a \o b)[j] = IF j < i THEN s[j] ELSE s[j + 1]
  <2>1. CASE j < i
    BY <1>1, <1>4, <1>5, <1>7, <2>1
  <2>2. CASE ~(j < i)
    <3>1. (a \o b)[j] = b[j - (i - 1)] /\ j - (i - 1) \in 1 .. Len(s) - i
      BY <1>1, <1>4, <1>5, <1>7, <2>2
    <3>2. i + (j - (i - 1)) = j + 1
      BY <1>1
    <3> QED
      BY <1>5, <2>2, <3>1, <3>2
  <2> QED
    BY <2>1, <2>2
<1> QED
  BY <1>1, <1>4, <1>5, <1>6, <1>7, <1>8

\* SrCancelQueued removes one list from the queue or none.
LEMMA CancelEffect ==
  ASSUME NEW id, NEW reason, sendQueue \in Seq(Nbl), SrCancelQueued(id, reason)
  PROVE  \/ UNCHANGED <<sendQueue, owner>>
         \/ \E i \in 1 .. Len(sendQueue) :
              /\ sendQueue' = RemoveAt(sendQueue, i)
              /\ owner' = [owner EXCEPT ![sendQueue[i]] = reason]
<1>1. FirstMatch(id) \subseteq 1 .. Len(sendQueue)
  BY DEF FirstMatch
<1> QED
  BY <1>1 DEF SrCancelQueued

\* What NDIS hands down is one list, or two different ones.
LEMMA SendListShape ==
  ASSUME NEW list \in SendLists
  PROVE  /\ list \in Seq(Nbl) /\ Len(list) \in {1, 2}
         /\ \A i \in 1 .. Len(list) : owner[list[i]] = "ndis"
         /\ \A i, j \in 1 .. Len(list) : list[i] = list[j] => i = j
<1>1. CASE \E n \in Nbl : owner[n] = "ndis" /\ list = <<n>>
  BY <1>1
<1>2. CASE \E m, n \in Nbl : owner[m] = "ndis" /\ owner[n] = "ndis" /\ m # n /\ list = <<m, n>>
  BY <1>2
<1> QED
  BY <1>1, <1>2 DEF SendLists

\* Every step keeps the others out of SrProcessNBL.
LEMMA NextProc == ProcInv /\ [Next]_vars => ProcInv'
<1> SUFFICES ASSUME ProcInv, [Next]_vars PROVE ProcInv'
  OBVIOUS
<1> USE DEF PcLabels, Outside
<1>t. /\ pc \in [Senders -> PcLabels] /\ nb \in [Senders -> Nat]
      /\ sendingNBL \in Nbl \cup {NoNbl} /\ sendQueue \in Seq(Nbl)
  BY DEF ProcInv
\* a step of t from one label inside to another
<1>i. ASSUME NEW t \in Senders, NEW from \in PcLabels \ Outside,
             NEW to \in PcLabels \ Outside,
             Goto(t, from, to), UNCHANGED <<sendingNBL, sendQueue>>, nb' \in [Senders -> Nat]
      PROVE  ProcInv'
  <2>1. \A s \in Senders : InProcessNbl(s)' <=> InProcessNbl(s)
    BY <1>t, <1>i DEF Goto, InProcessNbl
  <2>2. SingleProcessor'
    BY <1>i, <2>1 DEF ProcInv, SingleProcessor
  <2> QED
    BY <1>t, <1>i, <2>2 DEF ProcInv, Goto
\* a step of t out of SrProcessNBL
<1>o. ASSUME NEW t \in Senders, NEW from \in PcLabels \ Outside,
             NEW to \in Outside, Goto(t, from, to), sendingNBL' = NoNbl,
             sendQueue' \in Seq(Nbl), nb' \in [Senders -> Nat]
      PROVE  ProcInv'
  <2>1. InProcessNbl(t)
    BY <1>o DEF Goto, InProcessNbl
  <2>2. \A s \in Senders : ~InProcessNbl(s)'
    BY <1>t, <1>o, <2>1, InsideFacts DEF Goto, InProcessNbl
  <2>3. SingleProcessor'
    BY <1>o, <2>2 DEF SingleProcessor
  <2> QED
    BY <1>t, <1>o, <2>3 DEF ProcInv, Goto
\* a step that moves nobody in or out
<1>k. ASSUME pc' \in [Senders -> PcLabels], nb' = nb, sendingNBL' = sendingNBL,
             sendQueue' \in Seq(Nbl),
             \A s \in Senders : pc'[s] = pc[s] \/ {pc[s], pc'[s]} \subseteq Outside
      PROVE  ProcInv'
  <2>1. \A s \in Senders : InProcessNbl(s)' <=> InProcessNbl(s)
    BY <1>k DEF InProcessNbl
  <2>2. SingleProcessor'
    BY <1>k, <2>1 DEF ProcInv, SingleProcessor
  <2> QED
    BY <1>t, <1>k, <2>2 DEF ProcInv
<1>1. CASE UNCHANGED vars
  BY <1>t, <1>k, <1>1 DEF vars, sendvars, txvars
<1>2. ASSUME NEW t \in Senders, SenderStep(t) PROVE ProcInv'
  <2>1. CASE TakeNbl(t)
    <3>1. CASE sendingNBL # NoNbl \/ QueueEmpty(sendQueue) \/ NotReady
      BY <1>t, <1>k, <2>1, <3>1 DEF TakeNbl, Goto
    <3>2. CASE ~(sendingNBL # NoNbl \/ QueueEmpty(sendQueue) \/ NotReady)
      <4>1. /\ sendingNBL = NoNbl /\ sendQueue # <<>> /\ pc' = [pc EXCEPT ![t] = "check"]
            /\ sendingNBL' = Head(sendQueue) /\ sendQueue' = Tail(sendQueue) /\ nb' = nb
        BY <2>1, <3>2 DEF TakeNbl, QueueEmpty
      <4>2. sendingNBL' \in Nbl /\ sendQueue' \in Seq(Nbl)
        BY <1>t, <4>1, HeadTailProperties
      <4>3. \A s \in Senders : InProcessNbl(s)' <=> s = t
        BY <1>t, <4>1 DEF ProcInv, SingleProcessor, Goto, InProcessNbl
      <4>4. SingleProcessor'
        BY <4>2, <4>3, SendAssumption DEF SingleProcessor
      <4> QED
        BY <1>t, <4>1, <4>2, <4>4 DEF ProcInv, Goto
    <3> QED
      BY <3>1, <3>2
  <2>2. CASE CheckTcbs(t)
    BY <1>t, <1>i, <2>2 DEF CheckTcbs, txvars
  <2>3. CASE VenetAllocTCB(t)
    BY <1>t, <1>i, <2>3 DEF VenetAllocTCB, txvars
  <2>4. CASE CopyBytes(t)
    BY <1>t, <1>i, <2>4 DEF CopyBytes, txvars
  <2>5. CASE CopyNothing(t)
    BY <1>t, <1>i, <2>5 DEF CopyNothing, txvars
  <2>6. CASE VenetReleaseTCB(t)
    BY <1>t, <1>i, <2>6 DEF VenetReleaseTCB, txvars
  <2>9. CASE ReleaseEvent(t)
    BY <1>t, <1>i, <2>9 DEF ReleaseEvent, txvars
  <2>7. CASE Requeue(t)
    <3>1. Goto(t, "requeue", "idle") /\ sendingNBL' = NoNbl /\ nb' = [nb EXCEPT ![t] = 0]
      BY <2>7 DEF Requeue
    <3>2. sendingNBL \in Nbl
      BY <3>1, InsideFacts DEF Goto, InProcessNbl
    <3>3. sendQueue' = <<sendingNBL>> \o sendQueue
      BY <2>7 DEF Requeue, QueueEnqueHead, Cons
    <3>4. sendQueue' \in Seq(Nbl)
      BY <1>t, <3>2, <3>3, ConcatProperties
    <3> QED
      BY <1>t, <1>o, <3>1, <3>4
  <2>8. CASE Finish(t)
    BY <1>t, <1>o, <2>8 DEF Finish
  <2> QED
    BY <1>2, <2>1, <2>2, <2>3, <2>4, <2>5, <2>6, <2>7, <2>8, <2>9 DEF SenderStep
<1>3. ASSUME NEW t \in Senders, NEW list \in SendLists, VenetSendNetBufs(t, list) PROVE ProcInv'
  <2>1. sendQueue' = sendQueue \/ sendQueue' = sendQueue \o list
    BY <1>3 DEF VenetSendNetBufs, QueueEnqueTail
  <2>2. sendQueue' \in Seq(Nbl)
    <3>1. list \in Seq(Nbl)
      BY SendListShape
    <3>2. sendQueue \o list \in Seq(Nbl)
      BY <1>t, <3>1, ConcatProperties
    <3> QED
      BY <1>t, <2>1, <3>2
  <2>3. /\ pc' = pc \/ (pc[t] = "idle" /\ pc' = [pc EXCEPT ![t] = "take"])
        /\ UNCHANGED <<nb, sendingNBL>>
    BY <1>3 DEF VenetSendNetBufs, Goto
  <2>4. /\ pc' \in [Senders -> PcLabels]
        /\ \A s \in Senders : pc'[s] = pc[s] \/ {pc[s], pc'[s]} \subseteq Outside
    BY <1>t, <2>3
  <2> QED
    BY <1>k, <2>2, <2>3, <2>4
<1>4. CASE \/ \E id \in CancelIds : VenetCancelSend(id)
           \/ NdisStep \/ PnpStep
  <2>1. UNCHANGED <<sendingNBL, pc, nb>>
    BY <1>4, OtherSteps DEF sendvars
  <2>2. sendQueue' \in Seq(Nbl)
    <3>1. CASE UNCHANGED <<sendQueue, owner>>
      BY <1>t, <3>1
    <3>2. ASSUME NEW id, NEW reason, SrCancelQueued(id, reason) PROVE sendQueue' \in Seq(Nbl)
      BY <1>t, <3>2, CancelEffect, RemoveAtProperties
    <3> QED
      BY <1>4, <3>1, <3>2, OtherSteps
  <2> QED
    BY <1>t, <1>k, <2>1, <2>2
<1> QED
  BY <1>1, <1>2, <1>3, <1>4 DEF Next

\* One sender at a time is inside SrProcessNBL.
LEMMA ProcInvariance == Spec => []ProcInv
<1>1. Init => ProcInv
  BY DEF Init, ProcInv, SingleProcessor, InProcessNbl, PcLabels
<1> QED
  BY <1>1, NextProc, PTL DEF Spec

\* sendingNBL alone keeps every other thread out of SrProcessNBL, for any number of
\* senders, although SrProcessNBL runs without sendLock.
THEOREM OneSenderInside == Spec => []SingleProcessor
<1>1. ProcInv => SingleProcessor
  BY DEF ProcInv
<1> QED
  BY <1>1, ProcInvariance, PTL

-----------------------------------------------------------------------------
(***************************************************************************)
(* The TCBs.  The busy list holds tcbBusy[n] TCBs of each list n: Busy has *)
(* an element for each of them, so that its cardinality is their number.   *)
(***************************************************************************)
Busy == {p \in Nbl \X Nat : 1 <= p[2] /\ p[2] <= tcbBusy[p[1]]}

\* What t has counted is still there: one TCB for the buffer it has come to and one
\* for each that follows, less the one it has taken.
Counted(t) ==
  pc[t] \in {"alloc", "copy"} =>
    /\ 1 <= nb[t] /\ nb[t] <= NbCount[sendingNBL]
    /\ pc[t] = "alloc" => NbCount[sendingNBL] + 1 <= numTCBsFree + nb[t]
    /\ pc[t] = "copy" => NbCount[sendingNBL] <= numTCBsFree + nb[t]

\* It gives back only a TCB that it has taken.
Taken(t) == pc[t] \in {"copy", "release"} => tcbBusy[sendingNBL] >= 1

\* The event is unset only while a TCB is busy or one has just been released.
InUse ==
  ~sendEvent => (\E n \in Nbl : tcbBusy[n] > 0) \/ (\E t \in Senders : pc[t] = "signal")

NoneIsNull == \A t \in Senders : pc[t] # "null_tcb"

\* The pool until the halt frees it.
PoolOK ==
  /\ numTCBsFree \in Nat /\ tcbFree = numTCBsFree
  /\ tcbBusy \in [Nbl -> Nat]
  /\ IsFiniteSet(Busy)
  /\ Cardinality(Busy) + numTCBsFree = NumTcbs
  /\ sendEvent \in BOOLEAN
  /\ InUse
  /\ NoneIsNull
  /\ \A t \in Senders : Counted(t) /\ Taken(t)

\* And after it.
Freed == tcbFree = 0 /\ tcbBusy = [n \in Nbl |-> 0]

PoolInv ==
  /\ sendEvent \in BOOLEAN
  /\ numTCBsFree \in 0 .. NumTcbs
  /\ TcbsThere => PoolOK
  /\ ~TcbsThere => Freed

\* Taking a TCB for list n.
LEMMA BusyGrows ==
  ASSUME NEW n \in Nbl, tcbBusy \in [Nbl -> Nat], IsFiniteSet(Busy),
         tcbBusy' = [tcbBusy EXCEPT ![n] = @ + 1]
  PROVE  IsFiniteSet(Busy') /\ Cardinality(Busy') = Cardinality(Busy) + 1
<1>1. PICK k \in Nat : k = tcbBusy[n] + 1
  OBVIOUS
<1>2. Busy' = Busy \cup {<<n, k>>}
  <2>1. ASSUME NEW m \in Nbl, NEW j \in Nat
        PROVE  (1 <= j /\ j <= tcbBusy'[m]) <=> (1 <= j /\ j <= tcbBusy[m]) \/ (m = n /\ j = k)
    <3>1. CASE m = n
      BY <1>1, <3>1
    <3>2. CASE m # n
      BY <3>2
    <3> QED
      BY <3>1, <3>2
  <2> QED
    BY <2>1 DEF Busy
<1>3. <<n, k>> \notin Busy
  BY <1>1 DEF Busy
<1> QED
  BY <1>2, <1>3, FS_AddElement

\* Giving one back.
LEMMA BusyShrinks ==
  ASSUME NEW n \in Nbl, tcbBusy \in [Nbl -> Nat], IsFiniteSet(Busy), tcbBusy[n] >= 1,
         tcbBusy' = [tcbBusy EXCEPT ![n] = @ - 1]
  PROVE  IsFiniteSet(Busy') /\ Cardinality(Busy') = Cardinality(Busy) - 1
<1>1. PICK k \in Nat : k = tcbBusy[n] /\ k >= 1
  OBVIOUS
<1>2. Busy' = Busy \ {<<n, k>>}
  <2>1. ASSUME NEW m \in Nbl, NEW j \in Nat
        PROVE  (1 <= j /\ j <= tcbBusy'[m]) <=> (1 <= j /\ j <= tcbBusy[m]) /\ ~(m = n /\ j = k)
    <3>1. CASE m = n
      BY <1>1, <3>1
    <3>2. CASE m # n
      BY <3>2
    <3> QED
      BY <3>1, <3>2
  <2> QED
    BY <2>1 DEF Busy
<1>3. <<n, k>> \in Busy
  BY <1>1 DEF Busy
<1> QED
  BY <1>2, <1>3, FS_RemoveElement

\* No list can have more TCBs than there are.
LEMMA BusyBound ==
  ASSUME NEW n \in Nbl, tcbBusy \in [Nbl -> Nat], IsFiniteSet(Busy)
  PROVE  tcbBusy[n] <= Cardinality(Busy)
<1>1. PICK k \in Nat : k = tcbBusy[n]
  OBVIOUS
<1>2. PICK f : f = [j \in 1 .. k |-> <<n, j>>]
  OBVIOUS
<1>3. ASSUME NEW j \in 1 .. k PROVE <<n, j>> \in Busy
  BY <1>1 DEF Busy
<1>4. f \in [1 .. k -> Busy] /\ \A i, j \in 1 .. k : f[i] = f[j] => i = j
  BY <1>2, <1>3
<1>5. f \in Injection(1 .. k, Busy)
  BY <1>4 DEF Injection, IsInjective
<1>6. Cardinality(1 .. k) = k
  BY FS_Interval
<1> QED
  BY <1>1, <1>5, <1>6, FS_Injection

\* The other senders are not inside, so that nothing is claimed of them.
LEMMA OthersClaimNothing ==
  ASSUME ProcInv, NEW t \in Senders, InProcessNbl(t), NEW to, pc' = [pc EXCEPT ![t] = to]
  PROVE  \A s \in Senders \ {t} : Counted(s)' /\ Taken(s)'
<1>1. \A s \in Senders \ {t} : ~InProcessNbl(s)
  BY InsideFacts
<1>2. \A s \in Senders \ {t} : pc'[s] \notin {"alloc", "copy", "release"}
  BY <1>1 DEF ProcInv, InProcessNbl
<1> QED
  BY <1>2 DEF Counted, Taken

\* A step that leaves the TCBs alone.
LEMMA PoolKept ==
  ASSUME PoolOK, UNCHANGED tcbvars, sendEvent' = sendEvent \/ sendEvent' = TRUE,
         \A s \in Senders : Counted(s)' /\ Taken(s)', NoneIsNull',
         \A s \in Senders : pc[s] = "signal" => pc'[s] = "signal"
  PROVE  PoolOK'
<1>1. UNCHANGED <<tcbFree, numTCBsFree, tcbBusy>>
  BY DEF tcbvars
<1>2. Busy' = Busy
  BY <1>1 DEF Busy
<1>3. InUse' /\ sendEvent' \in BOOLEAN
  BY <1>1 DEF PoolOK, InUse
<1> QED
  BY <1>1, <1>2, <1>3 DEF PoolOK

\* A step of the sender inside that leaves the TCBs alone.
LEMMA PoolKeptInside ==
  ASSUME ProcInv, PoolOK, NEW t \in Senders, NEW from \in PcLabels \ (Outside \cup {"signal"}),
         NEW to \in PcLabels \ {"null_tcb"}, Goto(t, from, to),
         UNCHANGED <<tcbvars, sendEvent>>, Counted(t)', Taken(t)'
  PROVE  PoolOK'
<1>1. InProcessNbl(t) /\ pc' = [pc EXCEPT ![t] = to]
  BY DEF Goto, InProcessNbl, Outside
<1>2. \A s \in Senders : Counted(s)' /\ Taken(s)'
  BY <1>1, OthersClaimNothing
<1>3. NoneIsNull'
  BY <1>1 DEF ProcInv, PoolOK, NoneIsNull
<1>4. \A s \in Senders : pc[s] = "signal" => pc'[s] = "signal"
  BY <1>1 DEF ProcInv, Goto
<1> QED
  BY <1>2, <1>3, <1>4, PoolKept

\* VenetAllocTCB finds a TCB, because t has counted enough of them.
LEMMA AllocFinds ==
  ASSUME ProcInv, PoolOK, NEW t \in Senders, VenetAllocTCB(t)
  PROVE  PoolOK'
<1>g. pc[t] = "alloc" /\ InProcessNbl(t) /\ pc \in [Senders -> PcLabels]
  BY DEF VenetAllocTCB, Goto, InProcessNbl, ProcInv
<1>n. sendingNBL \in Nbl
  BY <1>g, InsideFacts
<1>p. PICK n \in Nat, k \in Nat, free \in Nat :
        /\ n = NbCount[sendingNBL] /\ k = nb[t] /\ free = numTCBsFree
        /\ 1 <= k /\ k <= n /\ n + 1 <= free + k
  BY <1>g, <1>n, SendAssumption DEF PoolOK, ProcInv, Counted
<1>1. numTCBsFree > 0 /\ tcbFree = free
  BY <1>p DEF PoolOK
<1>2. /\ pc' = [pc EXCEPT ![t] = "copy"] /\ numTCBsFree' = free - 1 /\ tcbFree' = free - 1
      /\ tcbBusy' = [tcbBusy EXCEPT ![sendingNBL] = @ + 1] /\ sendEvent' = FALSE
      /\ UNCHANGED <<sendingNBL, nb>>
  BY <1>1, <1>p DEF VenetAllocTCB, Goto, txvars
<1>t. tcbBusy \in [Nbl -> Nat] /\ IsFiniteSet(Busy) /\ Cardinality(Busy) + numTCBsFree = NumTcbs
  BY DEF PoolOK
<1>3. IsFiniteSet(Busy') /\ Cardinality(Busy') = Cardinality(Busy) + 1
  BY <1>2, <1>n, <1>t, BusyGrows
<1>4. numTCBsFree' \in Nat /\ Cardinality(Busy') + numTCBsFree' = NumTcbs
  <2>1. Cardinality(Busy) \in Nat
    BY <1>t, FS_CardinalityType
  <2> QED
    BY <1>1, <1>2, <1>3, <1>p, <1>t, <2>1
<1>5. tcbBusy' \in [Nbl -> Nat] /\ tcbBusy'[sendingNBL] >= 1
  BY <1>2, <1>n, <1>t
<1>6. Counted(t)' /\ Taken(t)'
  <2>1. pc'[t] = "copy" /\ n <= numTCBsFree' + k
    BY <1>1, <1>2, <1>g, <1>p
  <2> QED
    BY <1>2, <1>5, <1>p, <2>1 DEF Counted, Taken
<1>7. \A s \in Senders : Counted(s)' /\ Taken(s)'
  BY <1>2, <1>6, <1>g, OthersClaimNothing
<1>8. InUse'
  BY <1>5, <1>2, <1>n DEF InUse
<1>9. NoneIsNull'
  BY <1>2, <1>g DEF PoolOK, NoneIsNull
<1> QED
  BY <1>2, <1>3, <1>4, <1>5, <1>7, <1>8, <1>9 DEF PoolOK

\* VenetReleaseTCB gives back the TCB that t took, and is about to look at the others.
LEMMA ReleaseReturns ==
  ASSUME ProcInv, PoolOK, NEW t \in Senders, VenetReleaseTCB(t)
  PROVE  PoolOK'
<1>g. pc[t] = "release" /\ InProcessNbl(t) /\ pc \in [Senders -> PcLabels]
  BY DEF VenetReleaseTCB, Goto, InProcessNbl, ProcInv
<1>n. sendingNBL \in Nbl
  BY <1>g, InsideFacts
<1>t. /\ tcbBusy \in [Nbl -> Nat] /\ IsFiniteSet(Busy) /\ numTCBsFree \in Nat
      /\ Cardinality(Busy) + numTCBsFree = NumTcbs /\ tcbFree = numTCBsFree
  BY DEF PoolOK
<1>1. tcbBusy[sendingNBL] >= 1
  BY <1>g DEF PoolOK, Taken
<1>2. /\ pc' = [pc EXCEPT ![t] = "signal"] /\ numTCBsFree' = numTCBsFree + 1
      /\ tcbFree' = tcbFree + 1 /\ sendEvent' = sendEvent /\ tcbBusy' = [tcbBusy EXCEPT ![sendingNBL] = @ - 1]
  BY DEF VenetReleaseTCB, Goto
<1>3. IsFiniteSet(Busy') /\ Cardinality(Busy') = Cardinality(Busy) - 1
  BY <1>1, <1>2, <1>n, <1>t, BusyShrinks
<1>4. numTCBsFree' \in Nat /\ Cardinality(Busy') + numTCBsFree' = NumTcbs
  <2>1. Cardinality(Busy) \in Nat
    BY <1>t, FS_CardinalityType
  <2> QED
    BY <1>2, <1>3, <1>t, <2>1
<1>5. tcbBusy' \in [Nbl -> Nat]
  <2>1. PICK k \in Nat : k = tcbBusy[sendingNBL] /\ k >= 1
    BY <1>1, <1>n, <1>t
  <2>2. k - 1 \in Nat
    BY <2>1
  <2> QED
    BY <1>2, <1>n, <1>t, <2>1, <2>2
<1>6. Counted(t)' /\ Taken(t)'
  BY <1>2, <1>g DEF Counted, Taken
<1>7. \A s \in Senders : Counted(s)' /\ Taken(s)'
  BY <1>2, <1>6, <1>g, OthersClaimNothing
<1>8. InUse' /\ sendEvent' \in BOOLEAN
  BY <1>2, <1>g DEF InUse, PoolOK
<1>9. NoneIsNull'
  BY <1>2, <1>g DEF PoolOK, NoneIsNull
<1> QED
  BY <1>2, <1>3, <1>4, <1>5, <1>7, <1>8, <1>9, <1>t DEF PoolOK

\* It sets the event unless another TCB is busy; no other sender is at this point.
LEMMA ReleaseSignals ==
  ASSUME ProcInv, PoolOK, NEW t \in Senders, ReleaseEvent(t)
  PROVE  PoolOK'
<1>1. /\ pc[t] = "signal" /\ InProcessNbl(t) /\ pc' = [pc EXCEPT ![t] = "requeue"]
      /\ UNCHANGED <<tcbFree, numTCBsFree, tcbBusy>>
  BY DEF ReleaseEvent, Goto, InProcessNbl, tcbvars
<1>2. Counted(t)' /\ Taken(t)'
  BY <1>1 DEF Counted, Taken, ProcInv
<1>3. \A s \in Senders : Counted(s)' /\ Taken(s)'
  BY <1>1, <1>2, OthersClaimNothing
<1>4. InUse' /\ sendEvent' \in BOOLEAN
  <2>1. sendEvent' = (sendEvent \/ \A n \in Nbl : tcbBusy[n] = 0)
    BY DEF ReleaseEvent
  <2>2. ~sendEvent' => \E n \in Nbl : tcbBusy'[n] # 0
    BY <1>1, <2>1
  <2>3. tcbBusy' \in [Nbl -> Nat]
    BY <1>1 DEF PoolOK
  <2> QED
    BY <2>1, <2>2, <2>3 DEF InUse
<1>5. NoneIsNull'
  BY <1>1 DEF PoolOK, NoneIsNull, ProcInv
<1>6. Busy' = Busy
  BY <1>1 DEF Busy
<1> QED
  BY <1>1, <1>3, <1>4, <1>5, <1>6 DEF PoolOK

\* Every step but the halt's VenetFreeTx keeps the TCBs accounted for.
LEMMA NextPoolOK ==
  ASSUME ProcInv, PoolOK, [Next]_vars, ~HaltFreeTx
  PROVE  PoolOK'
<1>t. pc \in [Senders -> PcLabels] /\ nb \in [Senders -> Nat]
  BY DEF ProcInv
\* a step that moves nobody inside
<1>k. ASSUME UNCHANGED <<sendingNBL, nb, tcbvars>>, sendEvent' = sendEvent \/ sendEvent' = TRUE,
             \A s \in Senders : pc'[s] = pc[s] \/ {pc[s], pc'[s]} \subseteq Outside
      PROVE  PoolOK'
  <2>1. \A s \in Senders : Counted(s)' /\ Taken(s)'
    BY <1>k DEF PoolOK, Counted, Taken, tcbvars, Outside
  <2>2. NoneIsNull'
    BY <1>k DEF PoolOK, NoneIsNull, Outside
  <2>3. \A s \in Senders : pc[s] = "signal" => pc'[s] = "signal"
    BY <1>k DEF Outside
  <2> QED
    BY <1>k, <2>1, <2>2, <2>3, PoolKept
<1>1. CASE UNCHANGED vars
  BY <1>k, <1>1 DEF vars, sendvars, txvars
<1>2. ASSUME NEW t \in Senders, SenderStep(t) PROVE PoolOK'
  <2>1. CASE TakeNbl(t)
    <3>1. CASE sendingNBL' = sendingNBL /\ pc' = [pc EXCEPT ![t] = "idle"]
      BY <1>t, <1>k, <2>1, <3>1 DEF TakeNbl, Outside
    <3>2. CASE sendingNBL = NoNbl /\ pc' = [pc EXCEPT ![t] = "check"]
      <4>1. \A s \in Senders : pc[s] \in Outside /\ pc'[s] \in Outside \cup {"check"}
        BY <1>t, <3>2 DEF ProcInv, SingleProcessor, InProcessNbl, Outside
      <4>2. \A s \in Senders : Counted(s)' /\ Taken(s)'
        BY <4>1 DEF Counted, Taken, Outside
      <4>3. NoneIsNull' /\ \A s \in Senders : pc[s] # "signal"
        BY <4>1 DEF NoneIsNull, Outside
      <4> QED
        BY <2>1, <4>2, <4>3, PoolKept DEF TakeNbl
    <3> QED
      BY <2>1, <3>1, <3>2 DEF TakeNbl
  <2>2. CASE CheckTcbs(t)
    <3>g. pc[t] = "check" /\ InProcessNbl(t) /\ UNCHANGED <<tcbvars, sendEvent, sendingNBL>>
      BY <2>2 DEF CheckTcbs, Goto, InProcessNbl, txvars
    <3>n. sendingNBL \in Nbl
      BY <3>g, InsideFacts
    <3>1. PICK n \in Nat, free \in Nat : n = NbCount[sendingNBL] /\ 1 <= n /\ free = numTCBsFree
      BY <3>n, SendAssumption DEF PoolOK
    <3>2. nb'[t] = 1
      BY <1>t, <2>2 DEF CheckTcbs
    <3>3. CASE n > free
      <4>1. Goto(t, "check", "requeue")
        BY <2>2, <3>1, <3>3 DEF CheckTcbs
      <4>2. Counted(t)' /\ Taken(t)'
        BY <1>t, <4>1 DEF Goto, Counted, Taken
      <4> QED
        BY <3>g, <4>1, <4>2, PoolKeptInside DEF PcLabels, Outside
    <3>4. CASE ~(n > free)
      <4>1. Goto(t, "check", "alloc")
        BY <2>2, <3>1, <3>4 DEF CheckTcbs
      <4>2. pc'[t] = "alloc" /\ numTCBsFree' = free /\ sendingNBL' = sendingNBL
        BY <1>t, <3>g, <3>1, <4>1 DEF Goto, tcbvars
      <4>3. Counted(t)' /\ Taken(t)'
        BY <3>1, <3>2, <3>4, <4>2 DEF Counted, Taken
      <4> QED
        BY <3>g, <4>1, <4>3, PoolKeptInside DEF PcLabels, Outside
    <3> QED
      BY <3>3, <3>4
  <2>3. CASE VenetAllocTCB(t)
    BY <2>3, AllocFinds
  <2>4. CASE CopyBytes(t)
    <3>1. Goto(t, "copy", "release") /\ UNCHANGED <<tcbvars, sendEvent, sendingNBL>>
      BY <2>4 DEF CopyBytes, txvars
    <3>2. Counted(t)' /\ Taken(t)'
      BY <1>t, <3>1 DEF Goto, Counted, Taken, PoolOK, tcbvars
    <3> QED
      BY <3>1, <3>2, PoolKeptInside DEF PcLabels, Outside
  <2>5. CASE CopyNothing(t)
    <3>g. /\ pc[t] = "copy" /\ InProcessNbl(t) /\ UNCHANGED <<tcbvars, sendEvent, sendingNBL>>
      BY <2>5 DEF CopyNothing, Goto, InProcessNbl, txvars
    <3>n. sendingNBL \in Nbl
      BY <3>g, InsideFacts
    <3>1. PICK n \in Nat, k \in Nat, free \in Nat :
            /\ n = NbCount[sendingNBL] /\ k = nb[t] /\ free = numTCBsFree
            /\ 1 <= k /\ k <= n /\ n <= free + k
      BY <1>t, <3>g, <3>n, SendAssumption DEF PoolOK, Counted
    <3>2. nb'[t] = k + 1
      BY <1>t, <2>5, <3>1 DEF CopyNothing
    <3>3. CASE k < n
      <4>1. Goto(t, "copy", "alloc")
        BY <2>5, <3>1, <3>3 DEF CopyNothing
      <4>2. pc'[t] = "alloc" /\ numTCBsFree' = free /\ sendingNBL' = sendingNBL
        BY <1>t, <3>g, <3>1, <4>1 DEF Goto, tcbvars
      <4>3. Counted(t)' /\ Taken(t)'
        BY <3>1, <3>2, <3>3, <4>2 DEF Counted, Taken
      <4> QED
        BY <3>g, <4>1, <4>3, PoolKeptInside DEF PcLabels, Outside
    <3>4. CASE ~(k < n)
      <4>1. Goto(t, "copy", "finish")
        BY <2>5, <3>1, <3>4 DEF CopyNothing
      <4>2. Counted(t)' /\ Taken(t)'
        BY <1>t, <4>1 DEF Goto, Counted, Taken
      <4> QED
        BY <3>g, <4>1, <4>2, PoolKeptInside DEF PcLabels, Outside
    <3> QED
      BY <3>3, <3>4
  <2>6. CASE VenetReleaseTCB(t)
    BY <2>6, ReleaseReturns
  <2>8. CASE ReleaseEvent(t)
    BY <2>8, ReleaseSignals
  <2>7. CASE Requeue(t) \/ Finish(t)
    <3>1. PICK from \in {"requeue", "finish"}, to \in {"idle", "relock"} :
            Goto(t, from, to) /\ UNCHANGED <<tcbvars, sendEvent>>
      BY <2>7 DEF Requeue, Finish
    <3>2. Counted(t)' /\ Taken(t)'
      BY <1>t, <3>1 DEF Goto, Counted, Taken
    <3> QED
      BY <3>1, <3>2, PoolKeptInside DEF PcLabels, Outside
  <2> QED
    BY <1>2, <2>1, <2>2, <2>3, <2>4, <2>5, <2>6, <2>7, <2>8 DEF SenderStep
<1>3. ASSUME NEW t \in Senders, NEW list \in SendLists, VenetSendNetBufs(t, list) PROVE PoolOK'
  <2>1. /\ pc' = pc \/ (pc[t] = "idle" /\ pc' = [pc EXCEPT ![t] = "take"])
        /\ UNCHANGED <<nb, sendingNBL, tcbvars, sendEvent>>
    BY <1>3 DEF VenetSendNetBufs, Goto
  <2> QED
    BY <1>t, <1>k, <2>1 DEF Outside
<1>4. CASE \/ \E id \in CancelIds : VenetCancelSend(id)
           \/ NdisStep \/ PnpStep
  BY <1>k, <1>4, OtherSteps DEF sendvars
<1> QED
  BY <1>1, <1>2, <1>3, <1>4 DEF Next

\* Once the TCBs are freed they stay so, and the count is left alone: a sender finds
\* no free TCB, and takes no other step that needs one.
LEMMA FreedStays ==
  ASSUME [Next]_vars, ~TcbsThere, Freed
  PROVE  ~TcbsThere' /\ Freed' /\ numTCBsFree' = numTCBsFree
<1>k. ASSUME UNCHANGED tcbvars PROVE Freed' /\ numTCBsFree' = numTCBsFree
  BY <1>k DEF Freed, tcbvars
<1>n. npc \in {"halt_adapter", "halted"}
  BY DEF TcbsThere
<1>1. CASE UNCHANGED vars
  BY <1>k, <1>n, <1>1 DEF vars, ctlvars, TcbsThere
<1>2. ASSUME NEW t \in Senders, SenderStep(t) PROVE UNCHANGED <<npc, tcbvars>>
  <2>1. ~CopyBytes(t) /\ ~CopyNothing(t) /\ ~VenetReleaseTCB(t)
    BY DEF CopyBytes, CopyNothing, VenetReleaseTCB
  <2>2. CASE VenetAllocTCB(t)
    BY <2>2 DEF VenetAllocTCB, Freed, ctlvars
  <2>3. CASE TakeNbl(t) \/ CheckTcbs(t) \/ ReleaseEvent(t) \/ Requeue(t) \/ Finish(t)
    BY <2>3 DEF TakeNbl, CheckTcbs, ReleaseEvent, Requeue, Finish, ctlvars
  <2> QED
    BY <1>2, <2>1, <2>2, <2>3 DEF SenderStep
<1>3. ASSUME NEW t \in Senders, NEW list \in SendLists, VenetSendNetBufs(t, list)
      PROVE  UNCHANGED <<npc, tcbvars>>
  BY <1>3 DEF VenetSendNetBufs, ctlvars
<1>4. ASSUME NEW id \in CancelIds, VenetCancelSend(id) PROVE UNCHANGED <<npc, tcbvars>>
  BY <1>4 DEF VenetCancelSend, ctlvars
<1>5. CASE NdisStep
  <2>1. HaltFreeAdapter
    BY <1>n, <1>5 DEF NdisStep, VenetPause, PauseReturns, VenetRestart, RestartStore, RestartEvent,
         VenetHalt, HaltFreeQueued, HaltFreeTx, VenetReset, ResetFreeQueued, ResetEvent, ResetLoad,
         ResetStore, NdisSetFlag, NdisLoadFlags, NdisStoreFlags, NdisSetEvent, NdisGoto
  <2> QED
    BY <1>k, <2>1 DEF HaltFreeAdapter, NdisGoto, TcbsThere
<1>6. CASE PnpStep
  BY <1>k, <1>n, <1>6 DEF PnpStep, VenetShutdown, ShutdownStore, ShutdownReturns,
         VenetSurpriseRemoved, RemovedStore, PnpLoadFlags, PnpStoreFlags, TcbsThere
<1> QED
  BY <1>k, <1>n, <1>1, <1>2, <1>3, <1>4, <1>5, <1>6 DEF Next, TcbsThere

\* Only VenetFreeTx takes the TCBs away.
LEMMA FreeTxFrees ==
  ASSUME [Next]_vars, TcbsThere
  PROVE  \/ ~HaltFreeTx /\ TcbsThere'
         \/ HaltFreeTx /\ ~TcbsThere' /\ Freed' /\ UNCHANGED <<numTCBsFree, sendEvent>>
<1>1. ASSUME HaltFreeTx
      PROVE  ~TcbsThere' /\ Freed' /\ UNCHANGED <<numTCBsFree, sendEvent>>
  BY <1>1 DEF HaltFreeTx, NdisGoto, TcbsThere, Freed
<1>n. npc \notin {"halt_adapter", "halted"}
  BY DEF TcbsThere
<1>2. CASE npc' = npc
  BY <1>1, <1>2 DEF TcbsThere
<1>3. CASE NdisStep
  BY <1>1, <1>n, <1>3 DEF NdisStep, VenetPause, PauseReturns, VenetRestart, RestartStore, RestartEvent,
         VenetHalt, HaltFreeQueued, HaltFreeAdapter, VenetReset, ResetFreeQueued, ResetEvent,
         ResetLoad, ResetStore, NdisSetFlag, NdisLoadFlags, NdisStoreFlags, NdisSetEvent, NdisGoto,
         TcbsThere
<1>4. ASSUME NEW t \in Senders, SenderStep(t) PROVE npc' = npc
  BY <1>4 DEF SenderStep, TakeNbl, CheckTcbs, VenetAllocTCB, CopyBytes, CopyNothing,
              VenetReleaseTCB, ReleaseEvent, Requeue, Finish, ctlvars
<1>5. ASSUME \/ \E t \in Senders : \E list \in SendLists : VenetSendNetBufs(t, list)
             \/ \E id \in CancelIds : VenetCancelSend(id)
      PROVE  npc' = npc
  BY <1>5 DEF VenetSendNetBufs, VenetCancelSend, ctlvars
<1>6. ASSUME PnpStep PROVE npc' = npc
  BY <1>6 DEF PnpStep, VenetShutdown, ShutdownStore, ShutdownReturns, VenetSurpriseRemoved,
              RemovedStore, PnpLoadFlags, PnpStoreFlags
<1>7. ASSUME UNCHANGED vars PROVE npc' = npc
  BY <1>7 DEF vars, ctlvars
<1> QED
  BY <1>2, <1>3, <1>4, <1>5, <1>6, <1>7 DEF Next

\* The send event is set or not.
LEMMA EventTyped ==
  ASSUME [Next]_vars, sendEvent \in BOOLEAN
  PROVE  sendEvent' \in BOOLEAN
<1>1. ASSUME NEW t \in Senders, SenderStep(t) PROVE sendEvent' \in BOOLEAN
  BY <1>1 DEF SenderStep, TakeNbl, CheckTcbs, VenetAllocTCB, CopyBytes, CopyNothing,
              VenetReleaseTCB, ReleaseEvent, Requeue, Finish
<1>2. ASSUME \E t \in Senders : \E list \in SendLists : VenetSendNetBufs(t, list)
      PROVE  sendEvent' \in BOOLEAN
  BY <1>2 DEF VenetSendNetBufs
<1>3. CASE \/ \E id \in CancelIds : VenetCancelSend(id)
           \/ NdisStep \/ PnpStep
  BY <1>3, OtherSteps
<1> QED
  BY <1>1, <1>2, <1>3 DEF Next, vars

\* A pool that is accounted for has a count within its size.
LEMMA PoolCount ==
  PoolOK => sendEvent \in BOOLEAN /\ numTCBsFree \in 0 .. NumTcbs
<1> SUFFICES ASSUME PoolOK PROVE sendEvent \in BOOLEAN /\ numTCBsFree \in 0 .. NumTcbs
  OBVIOUS
<1>1. PICK c \in Nat, f \in Nat : c = Cardinality(Busy) /\ f = numTCBsFree /\ c + f = NumTcbs
  BY FS_CardinalityType DEF PoolOK
<1> QED
  BY <1>1 DEF PoolOK

\* Every step keeps the TCBs accounted for, or free.
LEMMA NextPool ==
  ASSUME ProcInv, PoolInv, [Next]_vars,
         (PoolOK => sendEvent \in BOOLEAN /\ numTCBsFree \in 0 .. NumTcbs)'
  PROVE  PoolInv'
<1>1. CASE TcbsThere /\ ~HaltFreeTx /\ TcbsThere'
  <2>1. PoolOK'
    BY <1>1, NextPoolOK DEF PoolInv
  <2> QED
    BY <1>1, <2>1 DEF PoolInv
<1>2. CASE TcbsThere /\ HaltFreeTx /\ ~TcbsThere' /\ Freed' /\ UNCHANGED <<numTCBsFree, sendEvent>>
  BY <1>2 DEF PoolInv
<1>3. CASE ~TcbsThere
  <2>1. ~TcbsThere' /\ Freed' /\ numTCBsFree' = numTCBsFree
    BY <1>3, FreedStays DEF PoolInv
  <2>2. sendEvent' \in BOOLEAN
    BY EventTyped DEF PoolInv
  <2> QED
    BY <2>1, <2>2 DEF PoolInv
<1> QED
  BY <1>1, <1>2, <1>3, FreeTxFrees

\* Free and busy TCBs are all the TCBs there are, until the halt frees them.
LEMMA PoolInvariance == Spec => []PoolInv
<1>1. Init => PoolInv
  <2> SUFFICES ASSUME Init PROVE PoolInv
    OBVIOUS
  <2>1. Busy = {}
    BY DEF Init, Busy
  <2>2. IsFiniteSet(Busy) /\ Cardinality(Busy) = 0
    BY <2>1, FS_EmptySet
  <2>3. InUse /\ NoneIsNull /\ \A t \in Senders : Counted(t) /\ Taken(t)
    BY DEF Init, InUse, NoneIsNull, Counted, Taken
  <2> QED
    BY <2>2, <2>3, SendAssumption DEF Init, PoolInv, PoolOK, TcbsThere
<1>2. ProcInv /\ PoolInv /\ [Next]_vars
        /\ (PoolOK => sendEvent \in BOOLEAN /\ numTCBsFree \in 0 .. NumTcbs)' => PoolInv'
  BY NextPool
<1> QED
  BY <1>1, <1>2, PoolCount, ProcInvariance, PTL DEF Spec

\* VenetAllocTCB returns NULL only after the halt's VenetFreeTx: the TCBs that
\* SrProcessNBL counts once, without a lock, are still there when it takes them,
\* whatever the other senders, a cancel, a reset or a pause do.
THEOREM CountedTcbsAreThere == Spec => []NullTcbOnlyAfterFree
<1>1. PoolInv => NullTcbOnlyAfterFree
  BY DEF PoolInv, PoolOK, NoneIsNull, NullTcbOnlyAfterFree
<1> QED
  BY <1>1, PoolInvariance, PTL

\* "UNSET == Tx in use": until the halt, an unset event means a busy TCB or one that
\* has just been released.
THEOREM UnsetIsInUse == Spec => []UnsetMeansInUse
<1>1. PoolInv => UnsetMeansInUse
  BY DEF PoolInv, PoolOK, InUse, UnsetMeansInUse
<1> QED
  BY <1>1, PoolInvariance, PTL
-----------------------------------------------------------------------------
(***************************************************************************)
(* The queue.  Arrivals grow along it; the list in hand is ahead of it,    *)
(* and what the bus has is ahead of both.                                  *)
(***************************************************************************)
Owners == {"ndis", "driver", "bus"} \cup Completed

Positions == 1 .. Len(sendQueue)

\* The arrivals counted so far: a list that NDIS still has is not one of them.
ArrivalInv ==
  /\ owner \in [Nbl -> Owners]
  /\ arrival \in [Nbl -> Nat]
  /\ IsFiniteSet(Accepted)
  /\ \A n \in Nbl : arrival[n] <= Cardinality(Accepted)
  /\ \A n \in Nbl : owner[n] = "ndis" => arrival[n] = 0

OrderInv ==
  /\ \A i, j \in Positions : i < j => arrival[sendQueue[i]] < arrival[sendQueue[j]]
  /\ \A n \in Nbl, i \in Positions : n = sendingNBL => arrival[n] < arrival[sendQueue[i]]
  /\ \A n \in Nbl, i \in Positions : owner[n] = "bus" => arrival[n] < arrival[sendQueue[i]]
  /\ \A m, n \in Nbl : owner[m] = "bus" /\ n = sendingNBL => arrival[m] < arrival[n]

PlaceInv ==
  /\ \A i \in Positions : owner[sendQueue[i]] = "driver"
  /\ \A n \in Nbl : n = sendingNBL => owner[n] = "driver"
  /\ \A n \in Nbl : owner[n] = "driver" => n = sendingNBL \/ \E i \in Positions : sendQueue[i] = n

QueueInv == ArrivalInv /\ OrderInv /\ PlaceInv

\* The lists of a chain go to one owner, and are numbered on from the last arrival.
Owned(list, who) == owner' = [n \in Nbl |-> IF n \in ToSet(list) THEN who ELSE owner[n]]

NumberOn(list) ==
  arrival' = [n \in Nbl |->
                IF n \in ToSet(list)
                THEN Cardinality(Accepted) + (CHOOSE i \in DOMAIN list : list[i] = n)
                ELSE arrival[n]]

\* Accepting a chain numbers its lists on from the last arrival.
LEMMA AcceptNumbers ==
  ASSUME ArrivalInv, NEW list \in SendLists,
         NumberOn(list)
  PROVE  /\ \A i \in 1 .. Len(list) : arrival'[list[i]] = Cardinality(Accepted) + i
         /\ \A n \in Nbl \ ToSet(list) : arrival'[n] = arrival[n]
         /\ arrival' \in [Nbl -> Nat]
         /\ IsFiniteSet(Accepted') /\ Cardinality(Accepted') = Cardinality(Accepted) + Len(list)
<1>1. /\ list \in Seq(Nbl) /\ Len(list) \in {1, 2} /\ DOMAIN list = 1 .. Len(list)
      /\ \A i \in 1 .. Len(list) : owner[list[i]] = "ndis" /\ list[i] \in Nbl
      /\ \A i, j \in 1 .. Len(list) : list[i] = list[j] => i = j
  BY SendListShape
<1>2. PICK c \in Nat : c = Cardinality(Accepted)
  BY FS_CardinalityType DEF ArrivalInv
<1>3. ASSUME NEW i \in 1 .. Len(list) PROVE list[i] \in ToSet(list) /\ arrival'[list[i]] = c + i
  <2>1. list[i] \in ToSet(list)
    BY <1>1 DEF ToSet
  <2>2. (CHOOSE j \in DOMAIN list : list[j] = list[i]) = i
    BY <1>1
  <2> QED
    BY <1>1, <1>2, <2>1, <2>2 DEF NumberOn
<1>4. \A n \in Nbl \ ToSet(list) : arrival'[n] = arrival[n]
  BY DEF NumberOn
<1>5. \A n \in ToSet(list) : \E i \in 1 .. Len(list) : n = list[i]
  BY <1>1 DEF ToSet
<1>6. arrival' \in [Nbl -> Nat]
  <2>1. \A n \in ToSet(list) : arrival'[n] \in Nat
    BY <1>1, <1>2, <1>3, <1>5
  <2>2. \A n \in Nbl : arrival'[n] \in Nat
    BY <1>4, <2>1 DEF ArrivalInv
  <2>3. arrival' = [n \in Nbl |-> arrival'[n]]
    BY DEF NumberOn
  <2> QED
    BY <2>2, <2>3
<1>7. Accepted' = Accepted \cup ToSet(list)
  <2>1. ASSUME NEW n \in Nbl PROVE arrival'[n] > 0 <=> arrival[n] > 0 \/ n \in ToSet(list)
    <3>1. CASE n \in ToSet(list)
      <4>1. PICK i \in 1 .. Len(list) : n = list[i]
        BY <1>5, <3>1
      <4>2. arrival'[n] = c + i /\ i \in Nat /\ i >= 1
        BY <1>2, <1>1, <1>3, <4>1
      <4> QED
        BY <3>1, <4>2
    <3>2. CASE n \notin ToSet(list)
      BY <1>4, <3>2
    <3> QED
      BY <3>1, <3>2
  <2>2. ToSet(list) \subseteq Nbl
    BY <1>1, <1>5
  <2> QED
    BY <2>1, <2>2 DEF Accepted
<1>8. \A i \in 1 .. Len(list) : list[i] \notin Accepted
  BY <1>1 DEF Accepted, ArrivalInv
<1>9. IsFiniteSet(Accepted') /\ Cardinality(Accepted') = c + Len(list)
  <2>f. IsFiniteSet(Accepted)
    BY DEF ArrivalInv
  <2>1. CASE Len(list) = 1
    <3>1. 1 \in 1 .. Len(list) /\ \A i \in 1 .. Len(list) : i = 1
      BY <2>1
    <3>2. ToSet(list) = {list[1]} /\ list[1] \notin Accepted
      BY <1>3, <1>5, <1>8, <3>1
    <3>3. Accepted' = Accepted \cup {list[1]}
      BY <1>7, <3>2
    <3> QED
      BY <1>2, <2>1, <2>f, <3>2, <3>3, FS_AddElement
  <2>2. CASE Len(list) = 2
    <3>1. 1 \in 1 .. Len(list) /\ 2 \in 1 .. Len(list) /\ \A i \in 1 .. Len(list) : i = 1 \/ i = 2
      BY <2>2
    <3>2. /\ ToSet(list) = {list[1], list[2]}
          /\ list[1] \notin Accepted /\ list[2] \notin Accepted /\ list[1] # list[2]
      <4>1. list[1] # list[2]
        BY <1>1, <3>1
      <4> QED
        BY <1>3, <1>5, <1>8, <3>1, <4>1
    <3>3. PICK A : A = Accepted \cup {list[1]}
      OBVIOUS
    <3>4. IsFiniteSet(A) /\ Cardinality(A) = c + 1
      BY <1>2, <2>f, <3>2, <3>3, FS_AddElement
    <3>5. Accepted' = A \cup {list[2]} /\ list[2] \notin A
      BY <1>7, <3>2, <3>3
    <3>6. IsFiniteSet(Accepted') /\ Cardinality(Accepted') = (c + 1) + 1
      BY <3>4, <3>5, FS_AddElement
    <3> QED
      BY <2>2, <3>6
  <2> QED
    BY <1>1, <2>1, <2>2
<1> QED
  BY <1>2, <1>3, <1>4, <1>6, <1>9

\* VenetSendNetBufs queues the chain behind everything that came before it.
LEMMA AcceptKeepsQueue ==
  ASSUME ProcInv, QueueInv, NEW list \in SendLists, sendingNBL' = sendingNBL,
         sendQueue' = sendQueue \o list,
         Owned(list, "driver"), NumberOn(list)
  PROVE  QueueInv'
<1>1. /\ list \in Seq(Nbl) /\ Len(list) \in Nat /\ DOMAIN list = 1 .. Len(list)
      /\ \A i \in 1 .. Len(list) : owner[list[i]] = "ndis" /\ list[i] \in Nbl
  BY SendListShape
<1>2. PICK c \in Nat : c = Cardinality(Accepted)
  BY FS_CardinalityType DEF QueueInv, ArrivalInv
<1>3. /\ \A i \in 1 .. Len(list) : arrival'[list[i]] = c + i
      /\ \A n \in Nbl \ ToSet(list) : arrival'[n] = arrival[n]
      /\ arrival' \in [Nbl -> Nat]
      /\ IsFiniteSet(Accepted') /\ Cardinality(Accepted') = c + Len(list)
  BY <1>2, AcceptNumbers DEF QueueInv
<1>4. /\ \A i \in 1 .. Len(list) : list[i] \in ToSet(list)
      /\ \A n \in ToSet(list) : \E i \in 1 .. Len(list) : n = list[i]
  BY <1>1 DEF ToSet
<1>5. \A n \in ToSet(list) : n \in Nbl /\ owner[n] = "ndis"
  BY <1>1, <1>4
<1>6. /\ owner' \in [Nbl -> Owners]
      /\ \A n \in Nbl : owner'[n] = IF n \in ToSet(list) THEN "driver" ELSE owner[n]
  BY DEF QueueInv, ArrivalInv, Owners, Owned
<1>q. PICK k \in Nat : k = Len(sendQueue)
  BY DEF ProcInv
<1>7. /\ Len(sendQueue') = k + Len(list)
      /\ \A i \in 1 .. k : sendQueue'[i] = sendQueue[i] /\ sendQueue[i] \in Nbl
      /\ \A i \in k + 1 .. k + Len(list) : sendQueue'[i] = list[i - k] /\ i - k \in 1 .. Len(list)
  <2>1. /\ Len(sendQueue \o list) = k + Len(list)
        /\ \A i \in 1 .. k + Len(list) :
             (sendQueue \o list)[i] = IF i <= k THEN sendQueue[i] ELSE list[i - k]
    BY <1>1, <1>q, ConcatProperties DEF ProcInv
  <2> QED
    BY <1>1, <1>q, <2>1 DEF ProcInv
\* what was there before keeps its number, none of them greater than c
<1>8. ASSUME NEW n \in Nbl, owner[n] # "ndis"
      PROVE  arrival'[n] = arrival[n] /\ arrival[n] \in Nat /\ arrival[n] <= c /\ owner'[n] = owner[n]
  BY <1>2, <1>3, <1>5, <1>6, <1>8 DEF QueueInv, ArrivalInv
<1>o. ASSUME NEW i \in 1 .. k
      PROVE  /\ sendQueue[i] \in Nbl /\ owner[sendQueue[i]] = "driver" /\ i \in Positions
             /\ arrival'[sendQueue'[i]] = arrival[sendQueue[i]]
             /\ arrival[sendQueue[i]] \in Nat /\ arrival[sendQueue[i]] <= c
  <2>1. sendQueue[i] \in Nbl /\ owner[sendQueue[i]] = "driver" /\ i \in Positions
    BY <1>7, <1>q DEF QueueInv, PlaceInv, Positions
  <2> QED
    BY <1>7, <1>8, <2>1
<1>n. ASSUME NEW i \in k + 1 .. k + Len(list)
      PROVE  arrival'[sendQueue'[i]] = c + (i - k) /\ owner'[sendQueue'[i]] = "driver"
  <2>1. sendQueue'[i] = list[i - k] /\ i - k \in 1 .. Len(list)
    BY <1>7
  <2>2. arrival'[list[i - k]] = c + (i - k) /\ list[i - k] \in ToSet(list)
    BY <1>3, <1>4, <2>1
  <2> QED
    BY <1>5, <1>6, <2>1, <2>2
<1>p. Positions' = 1 .. k + Len(list) /\ \A i \in Positions' : i \in 1 .. k \/ i \in k + 1 .. k + Len(list)
  BY <1>1, <1>7 DEF Positions
<1>9. ArrivalInv'
  <2>1. ASSUME NEW n \in Nbl PROVE arrival'[n] <= c + Len(list)
    <3>1. CASE n \in ToSet(list)
      <4>1. PICK i \in 1 .. Len(list) : n = list[i]
        BY <1>4, <3>1
      <4> QED
        BY <1>2, <1>q, <1>1, <1>3, <4>1
    <3>2. CASE n \notin ToSet(list)
      BY <1>1, <1>2, <1>3, <3>2 DEF QueueInv, ArrivalInv
    <3> QED
      BY <3>1, <3>2
  <2>2. ASSUME NEW n \in Nbl, owner'[n] = "ndis" PROVE arrival'[n] = 0
    BY <1>3, <1>6, <2>2 DEF QueueInv, ArrivalInv
  <2> QED
    BY <1>3, <1>6, <2>1, <2>2 DEF ArrivalInv
<1>10. OrderInv'
  <2>1. ASSUME NEW i \in Positions', NEW j \in Positions', i < j
        PROVE  arrival'[sendQueue'[i]] < arrival'[sendQueue'[j]]
    <3>1. CASE i \in 1 .. k /\ j \in 1 .. k
      BY <1>o, <2>1, <3>1 DEF QueueInv, OrderInv
    <3>2. CASE i \in 1 .. k /\ j \in k + 1 .. k + Len(list)
      <4>1. PICK d \in Nat : arrival'[sendQueue'[j]] = c + d /\ d >= 1
        <5>1. j \in Int /\ j - k \in Nat /\ j - k >= 1
          BY <1>1, <3>2
        <5> QED
          BY <1>n, <3>2, <5>1
      <4>2. PICK a \in Nat : arrival'[sendQueue'[i]] = a /\ a <= c
        BY <1>o, <3>2
      <4> QED
        BY <4>1, <4>2
    <3>3. CASE i \in k + 1 .. k + Len(list) /\ j \in k + 1 .. k + Len(list)
      BY <1>2, <1>q, <1>1, <1>n, <2>1, <3>3
    <3> QED
      BY <1>2, <1>q, <1>1, <1>p, <2>1, <3>1, <3>2, <3>3
  \* a list of the bus or the list in hand
  <2>2. ASSUME NEW n \in Nbl, NEW i \in Positions', owner[n] # "ndis",
               \A j \in Positions : arrival[n] < arrival[sendQueue[j]]
        PROVE  arrival'[n] < arrival'[sendQueue'[i]]
    <3>1. arrival'[n] = arrival[n] /\ arrival[n] \in Nat /\ arrival[n] <= c
      BY <1>8, <2>2
    <3>2. CASE i \in 1 .. k
      BY <1>o, <2>2, <3>1, <3>2
    <3>3. CASE i \in k + 1 .. k + Len(list)
      <4>1. arrival'[sendQueue'[i]] = c + (i - k) /\ i \in Nat /\ i - k >= 1
        BY <1>2, <1>q, <1>1, <1>n, <3>3
      <4> QED
        BY <1>2, <1>q, <1>1, <3>1, <4>1
    <3> QED
      BY <1>p, <3>2, <3>3
  <2>3. ASSUME NEW n \in Nbl, n = sendingNBL
        PROVE  owner[n] # "ndis" /\ \A j \in Positions : arrival[n] < arrival[sendQueue[j]]
    BY <2>3 DEF QueueInv, OrderInv, PlaceInv
  <2>4. ASSUME NEW n \in Nbl, owner'[n] = "bus"
        PROVE  owner[n] = "bus" /\ \A j \in Positions : arrival[n] < arrival[sendQueue[j]]
    BY <1>6, <2>4 DEF QueueInv, OrderInv
  <2>5. ASSUME NEW m \in Nbl, NEW n \in Nbl, owner'[m] = "bus", n = sendingNBL
        PROVE  arrival'[m] < arrival'[n]
    BY <1>8, <2>3, <2>4, <2>5 DEF QueueInv, OrderInv
  <2> QED
    BY <2>1, <2>2, <2>3, <2>4, <2>5 DEF OrderInv
<1>11. PlaceInv'
  <2>1. ASSUME NEW i \in Positions' PROVE owner'[sendQueue'[i]] = "driver"
    <3>1. CASE i \in 1 .. k
      <4>1. sendQueue'[i] = sendQueue[i] /\ sendQueue[i] \in Nbl /\ owner[sendQueue[i]] = "driver"
        BY <1>7, <1>o, <3>1
      <4> QED
        BY <1>8, <4>1
    <3>2. CASE i \in k + 1 .. k + Len(list)
      BY <1>n, <3>2
    <3> QED
      BY <1>p, <2>1, <3>1, <3>2
  <2>2. ASSUME NEW n \in Nbl, n = sendingNBL PROVE owner'[n] = "driver"
    BY <1>6, <2>2 DEF QueueInv, PlaceInv
  <2>3. ASSUME NEW n \in Nbl, owner'[n] = "driver"
        PROVE  n = sendingNBL \/ \E i \in Positions' : sendQueue'[i] = n
    <3>1. CASE n \in ToSet(list)
      <4>1. PICK i \in 1 .. Len(list) : n = list[i]
        BY <1>4, <3>1
      <4>2. k + i \in k + 1 .. k + Len(list) /\ k + i \in 1 .. k + Len(list) /\ (k + i) - k = i
        BY <1>1
      <4> QED
        BY <1>7, <1>p, <4>1, <4>2
    <3>2. CASE n \notin ToSet(list)
      <4>1. n = sendingNBL \/ \E i \in Positions : sendQueue[i] = n
        BY <1>6, <2>3, <3>2 DEF QueueInv, PlaceInv
      <4>2. ASSUME NEW i \in Positions PROVE i \in 1 .. k /\ i \in Positions'
        BY <1>1, <1>p, <1>q DEF Positions
      <4> QED
        BY <1>7, <4>1, <4>2
    <3> QED
      BY <3>1, <3>2
  <2> QED
    BY <2>1, <2>2, <2>3 DEF PlaceInv
<1> QED
  BY <1>9, <1>10, <1>11 DEF QueueInv

\* A chain that is rejected was NDIS's and is NDIS's again.
LEMMA RejectKeepsQueue ==
  ASSUME ProcInv, QueueInv, NEW list \in SendLists, NEW status \in Completed,
         UNCHANGED <<sendingNBL, sendQueue, arrival>>, Owned(list, status)
  PROVE  QueueInv'
<1>1. \A n \in ToSet(list) : n \in Nbl /\ owner[n] = "ndis"
  BY SendListShape DEF ToSet
<1>2. /\ owner' \in [Nbl -> Owners]
      /\ \A n \in Nbl : owner'[n] = IF n \in ToSet(list) THEN status ELSE owner[n]
  BY DEF QueueInv, ArrivalInv, Owners, Owned
<1>3. \A n \in Nbl : /\ owner[n] # "ndis" => owner'[n] = owner[n]
                     /\ owner'[n] \in {"ndis", "driver", "bus"} => owner'[n] = owner[n]
  BY <1>1, <1>2 DEF Completed
<1>4. \A i \in Positions : sendQueue[i] \in Nbl
  BY DEF ProcInv, Positions
<1>5. Positions' = Positions /\ Accepted' = Accepted
  BY DEF Positions, Accepted
<1>6. ArrivalInv'
  BY <1>2, <1>3, <1>5 DEF QueueInv, ArrivalInv
<1>7. OrderInv'
  BY <1>3, <1>5 DEF QueueInv, OrderInv
<1>8. PlaceInv'
  BY <1>3, <1>4, <1>5 DEF QueueInv, PlaceInv
<1> QED
  BY <1>6, <1>7, <1>8 DEF QueueInv

\* SrProcessQueue takes the head: it was ahead of the rest.
LEMMA TakeKeepsQueue ==
  ASSUME ProcInv, QueueInv, sendingNBL = NoNbl, sendQueue # <<>>,
         sendingNBL' = Head(sendQueue), sendQueue' = Tail(sendQueue), UNCHANGED <<owner, arrival>>
  PROVE  QueueInv'
<1>1. PICK k \in Nat : k = Len(sendQueue) /\ k >= 1
  BY EmptySeq DEF ProcInv
<1>2. /\ sendingNBL' = sendQueue[1] /\ Len(sendQueue') = k - 1
      /\ \A i \in 1 .. k - 1 : sendQueue'[i] = sendQueue[i + 1]
      /\ \A i \in 1 .. k : sendQueue[i] \in Nbl
  BY <1>1, HeadTailProperties DEF ProcInv
<1>3. /\ Positions = 1 .. k /\ Positions' = 1 .. k - 1 /\ 1 \in Positions
      /\ \A i \in Positions' : i + 1 \in Positions /\ 1 < i + 1
  BY <1>1, <1>2 DEF Positions
<1>4. ArrivalInv'
  <2>1. Accepted' = Accepted
    BY DEF Accepted
  <2> QED
    BY <2>1 DEF QueueInv, ArrivalInv
<1>5. OrderInv'
  <2>1. ASSUME NEW i \in Positions', NEW j \in Positions', i < j
        PROVE  arrival[sendQueue'[i]] < arrival[sendQueue'[j]]
    <3>1. i + 1 < j + 1 /\ i + 1 \in Positions /\ j + 1 \in Positions
      BY <1>3, <2>1
    <3> QED
      BY <1>2, <1>3, <3>1 DEF QueueInv, OrderInv
  <2>2. ASSUME NEW i \in Positions' PROVE arrival[sendQueue[1]] < arrival[sendQueue'[i]]
    BY <1>2, <1>3 DEF QueueInv, OrderInv
  <2>3. ASSUME NEW n \in Nbl, NEW i \in Positions', owner[n] = "bus"
        PROVE  arrival[n] < arrival[sendQueue'[i]]
    BY <1>2, <1>3, <2>3 DEF QueueInv, OrderInv
  <2>4. ASSUME NEW n \in Nbl, owner[n] = "bus" PROVE arrival[n] < arrival[sendQueue[1]]
    BY <1>3, <2>4 DEF QueueInv, OrderInv
  <2> QED
    BY <1>2, <2>1, <2>2, <2>3, <2>4 DEF OrderInv
<1>6. PlaceInv'
  <2>1. \A i \in Positions' : owner[sendQueue'[i]] = "driver"
    BY <1>2, <1>3 DEF QueueInv, PlaceInv
  <2>2. owner[sendQueue[1]] = "driver"
    BY <1>3 DEF QueueInv, PlaceInv
  <2>3. ASSUME NEW n \in Nbl, owner[n] = "driver"
        PROVE  n = sendQueue[1] \/ \E i \in Positions' : sendQueue'[i] = n
    <3>1. PICK j \in Positions : sendQueue[j] = n
      BY <2>3, SendAssumption DEF QueueInv, PlaceInv
    <3>2. CASE j = 1
      BY <3>1, <3>2
    <3>3. CASE j # 1
      <4>1. j - 1 \in Positions' /\ (j - 1) + 1 = j
        BY <1>3, <3>3
      <4> QED
        BY <1>2, <1>3, <3>1, <4>1
    <3> QED
      BY <3>2, <3>3
  <2> QED
    BY <1>2, <2>1, <2>2, <2>3 DEF PlaceInv
<1> QED
  BY <1>4, <1>5, <1>6 DEF QueueInv

\* After an error the list in hand goes back to the head, where it came from.
LEMMA RequeueKeepsQueue ==
  ASSUME ProcInv, QueueInv, sendingNBL \in Nbl, sendingNBL' = NoNbl,
         sendQueue' = <<sendingNBL>> \o sendQueue, UNCHANGED <<owner, arrival>>
  PROVE  QueueInv'
<1>1. PICK k \in Nat : k = Len(sendQueue)
  BY DEF ProcInv
<1>2. /\ Len(sendQueue') = k + 1 /\ sendQueue'[1] = sendingNBL
      /\ \A i \in 2 .. k + 1 : sendQueue'[i] = sendQueue[i - 1]
      /\ \A i \in 1 .. k : sendQueue[i] \in Nbl
  <2>1. <<sendingNBL>> \in Seq(Nbl) /\ Len(<<sendingNBL>>) = 1 /\ <<sendingNBL>>[1] = sendingNBL
    OBVIOUS
  <2>2. /\ Len(sendQueue') = 1 + k
        /\ \A i \in 1 .. 1 + k :
             sendQueue'[i] = IF i <= 1 THEN <<sendingNBL>>[i] ELSE sendQueue[i - 1]
    BY <1>1, <2>1, ConcatProperties DEF ProcInv
  <2> QED
    BY <1>1, <2>1, <2>2 DEF ProcInv
<1>3. /\ Positions = 1 .. k /\ Positions' = 1 .. k + 1 /\ 1 \in Positions'
      /\ \A i \in Positions : i + 1 \in 2 .. k + 1 /\ i + 1 \in Positions' /\ (i + 1) - 1 = i
      /\ \A i \in Positions' : i = 1 \/ (i \in 2 .. k + 1 /\ i - 1 \in Positions)
  BY <1>1, <1>2 DEF Positions
<1>4. ArrivalInv'
  <2>1. Accepted' = Accepted
    BY DEF Accepted
  <2> QED
    BY <2>1 DEF QueueInv, ArrivalInv
<1>5. OrderInv'
  <2>1. ASSUME NEW i \in Positions', NEW j \in Positions', i < j
        PROVE  arrival[sendQueue'[i]] < arrival[sendQueue'[j]]
    <3>1. j \in 2 .. k + 1 /\ j - 1 \in Positions /\ sendQueue'[j] = sendQueue[j - 1]
      <4>1. j # 1
        BY <1>3, <2>1
      <4> QED
        BY <1>2, <1>3, <4>1
    <3>2. CASE i = 1
      BY <1>2, <3>1, <3>2 DEF QueueInv, OrderInv
    <3>3. CASE i # 1
      <4>1. i \in 2 .. k + 1 /\ i - 1 \in Positions /\ sendQueue'[i] = sendQueue[i - 1]
        BY <1>2, <1>3, <3>3
      <4>2. i - 1 < j - 1
        BY <2>1, <3>1, <4>1
      <4> QED
        BY <3>1, <4>1, <4>2 DEF QueueInv, OrderInv
    <3> QED
      BY <3>2, <3>3
  <2>2. ASSUME NEW n \in Nbl, NEW i \in Positions', owner[n] = "bus"
        PROVE  arrival[n] < arrival[sendQueue'[i]]
    <3>1. CASE i = 1
      BY <1>2, <2>2, <3>1 DEF QueueInv, OrderInv
    <3>2. CASE i # 1
      BY <1>2, <1>3, <2>2, <3>2 DEF QueueInv, OrderInv
    <3> QED
      BY <3>1, <3>2
  <2> QED
    BY <2>1, <2>2, SendAssumption DEF OrderInv
<1>6. PlaceInv'
  <2>1. ASSUME NEW i \in Positions' PROVE owner[sendQueue'[i]] = "driver"
    BY <1>2, <1>3 DEF QueueInv, PlaceInv
  <2>2. ASSUME NEW n \in Nbl, owner[n] = "driver" PROVE \E i \in Positions' : sendQueue'[i] = n
    <3>1. CASE n = sendingNBL
      BY <1>2, <1>3, <3>1
    <3>2. ASSUME NEW j \in Positions, sendQueue[j] = n PROVE \E i \in Positions' : sendQueue'[i] = n
      <4>1. j + 1 \in Positions' /\ sendQueue'[j + 1] = sendQueue[j]
        BY <1>2, <1>3
      <4> QED
        BY <3>2, <4>1
    <3> QED
      BY <2>2, <3>1, <3>2 DEF QueueInv, PlaceInv
  <2> QED
    BY <2>1, <2>2, SendAssumption DEF PlaceInv
<1> QED
  BY <1>4, <1>5, <1>6 DEF QueueInv

\* After success the bus has the list in hand, which was ahead of the queue.
LEMMA FinishKeepsQueue ==
  ASSUME ProcInv, QueueInv, sendingNBL \in Nbl, sendingNBL' = NoNbl,
         owner' = [owner EXCEPT ![sendingNBL] = "bus"], UNCHANGED <<sendQueue, arrival>>
  PROVE  QueueInv'
<1>1. /\ owner' \in [Nbl -> Owners] /\ owner'[sendingNBL] = "bus"
      /\ \A n \in Nbl : n # sendingNBL => owner'[n] = owner[n]
  BY DEF QueueInv, ArrivalInv, Owners
<1>2. Positions' = Positions /\ Accepted' = Accepted /\ \A i \in Positions : sendQueue[i] \in Nbl
  BY DEF Positions, Accepted, ProcInv
<1>3. \A i \in Positions : sendQueue[i] # sendingNBL
  <2>1. ASSUME NEW i \in Positions PROVE arrival[sendingNBL] < arrival[sendQueue[i]]
    BY DEF QueueInv, OrderInv
  <2>2. \A i \in Positions : arrival[sendQueue[i]] \in Nat
    BY <1>2 DEF QueueInv, ArrivalInv
  <2> QED
    BY <2>1, <2>2
<1>4. ArrivalInv'
  BY <1>1, <1>2 DEF QueueInv, ArrivalInv
<1>5. OrderInv'
  <2>1. ASSUME NEW n \in Nbl, NEW i \in Positions, owner'[n] = "bus"
        PROVE  arrival[n] < arrival[sendQueue[i]]
    BY <1>1, <2>1 DEF QueueInv, OrderInv
  <2> QED
    BY <1>2, <2>1, SendAssumption DEF QueueInv, OrderInv
<1>6. PlaceInv'
  <2>1. \A i \in Positions : owner'[sendQueue[i]] = "driver"
    BY <1>1, <1>2, <1>3 DEF QueueInv, PlaceInv
  <2>2. ASSUME NEW n \in Nbl, owner'[n] = "driver" PROVE \E i \in Positions : sendQueue[i] = n
    BY <1>1, <2>2 DEF QueueInv, PlaceInv
  <2> QED
    BY <1>2, <2>1, <2>2, SendAssumption DEF PlaceInv
<1> QED
  BY <1>4, <1>5, <1>6 DEF QueueInv

\* Cancelling takes one list out of the queue; the others close up in order.
LEMMA CancelKeepsQueue ==
  ASSUME ProcInv, QueueInv, NEW p \in Positions, NEW status \in Completed,
         sendQueue' = RemoveAt(sendQueue, p), UNCHANGED <<sendingNBL, arrival>>,
         owner' = [owner EXCEPT ![sendQueue[p]] = status]
  PROVE  QueueInv'
<1>1. PICK k \in Nat : k = Len(sendQueue) /\ p \in 1 .. k
  BY DEF ProcInv, Positions
<1>2. /\ Len(sendQueue') = k - 1
      /\ \A j \in 1 .. k - 1 : sendQueue'[j] = IF j < p THEN sendQueue[j] ELSE sendQueue[j + 1]
      /\ \A i \in 1 .. k : sendQueue[i] \in Nbl
  BY <1>1, RemoveAtProperties DEF ProcInv
<1>3. Positions = 1 .. k /\ Positions' = 1 .. k - 1
  BY <1>1, <1>2 DEF Positions
\* where the list at each position was before
<1>4. ASSUME NEW i \in Positions'
      PROVE  \E j \in Positions \ {p} : /\ sendQueue'[i] = sendQueue[j]
                                        /\ j = IF i < p THEN i ELSE i + 1
  BY <1>1, <1>2, <1>3
<1>5. ASSUME NEW j \in Positions, j # p PROVE \E i \in Positions' : sendQueue'[i] = sendQueue[j]
  <2>1. CASE j < p
    BY <1>1, <1>2, <1>3, <2>1
  <2>2. CASE ~(j < p)
    <3>1. j - 1 \in Positions' /\ ~(j - 1 < p) /\ (j - 1) + 1 = j
      BY <1>1, <1>3, <1>5, <2>2
    <3> QED
      BY <1>2, <1>3, <3>1
  <2> QED
    BY <2>1, <2>2
<1>6. \A i, j \in Positions : i # j => sendQueue[i] # sendQueue[j]
  <2>1. \A i \in Positions : arrival[sendQueue[i]] \in Nat
    BY <1>2, <1>3 DEF QueueInv, ArrivalInv
  <2>2. ASSUME NEW i \in Positions, NEW j \in Positions, i # j PROVE sendQueue[i] # sendQueue[j]
    <3>1. i < j \/ j < i
      BY <1>3, <2>2
    <3> QED
      BY <2>1, <3>1 DEF QueueInv, OrderInv
  <2> QED
    BY <2>2
<1>7. /\ sendQueue[p] \in Nbl /\ owner' \in [Nbl -> Owners] /\ owner'[sendQueue[p]] = status
      /\ \A n \in Nbl : n # sendQueue[p] => owner'[n] = owner[n]
  BY <1>2, <1>3 DEF QueueInv, ArrivalInv, Owners
<1>8. \A n \in Nbl : owner'[n] \in {"ndis", "driver", "bus"} => owner'[n] = owner[n] /\ n # sendQueue[p]
  BY <1>7 DEF Completed
<1>9. ArrivalInv'
  <2>1. Accepted' = Accepted
    BY DEF Accepted
  <2> QED
    BY <1>7, <1>8, <2>1 DEF QueueInv, ArrivalInv
<1>10. OrderInv'
  <2>1. ASSUME NEW i \in Positions', NEW j \in Positions', i < j
        PROVE  arrival[sendQueue'[i]] < arrival[sendQueue'[j]]
    <3>1. PICK m \in Positions : sendQueue'[i] = sendQueue[m] /\ m = IF i < p THEN i ELSE i + 1
      BY <1>4
    <3>2. PICK n \in Positions : sendQueue'[j] = sendQueue[n] /\ n = IF j < p THEN j ELSE j + 1
      BY <1>4
    <3>3. m < n
      BY <1>1, <1>3, <2>1, <3>1, <3>2
    <3> QED
      BY <3>1, <3>2, <3>3 DEF QueueInv, OrderInv
  <2>2. ASSUME NEW i \in Positions' PROVE \E j \in Positions : sendQueue'[i] = sendQueue[j]
    BY <1>4
  <2>3. ASSUME NEW n \in Nbl, NEW i \in Positions', n = sendingNBL \/ owner'[n] = "bus"
        PROVE  arrival[n] < arrival[sendQueue'[i]]
    BY <1>8, <2>2, <2>3 DEF QueueInv, OrderInv
  <2>4. ASSUME NEW m \in Nbl, NEW n \in Nbl, owner'[m] = "bus", n = sendingNBL
        PROVE  arrival[m] < arrival[n]
    BY <1>8, <2>4 DEF QueueInv, OrderInv
  <2> QED
    BY <2>1, <2>3, <2>4 DEF OrderInv
<1>11. PlaceInv'
  <2>1. ASSUME NEW i \in Positions' PROVE owner'[sendQueue'[i]] = "driver"
    <3>1. PICK j \in Positions \ {p} : sendQueue'[i] = sendQueue[j]
      BY <1>4
    <3>2. sendQueue[j] # sendQueue[p] /\ sendQueue[j] \in Nbl
      BY <1>2, <1>3, <1>6, <3>1
    <3> QED
      BY <1>7, <3>1, <3>2 DEF QueueInv, PlaceInv
  <2>2. ASSUME NEW n \in Nbl, n = sendingNBL PROVE owner'[n] = "driver"
    <3>1. arrival[n] < arrival[sendQueue[p]] /\ arrival[n] \in Nat /\ arrival[sendQueue[p]] \in Nat
      BY <1>7, <2>2 DEF QueueInv, OrderInv, ArrivalInv
    <3>2. n # sendQueue[p]
      BY <3>1
    <3> QED
      BY <1>7, <2>2, <3>2 DEF QueueInv, PlaceInv
  <2>3. ASSUME NEW n \in Nbl, owner'[n] = "driver"
        PROVE  n = sendingNBL \/ \E i \in Positions' : sendQueue'[i] = n
    <3>1. owner[n] = "driver" /\ n # sendQueue[p]
      BY <1>8, <2>3
    <3>2. n = sendingNBL \/ \E j \in Positions : j # p /\ sendQueue[j] = n
      BY <3>1 DEF QueueInv, PlaceInv
    <3> QED
      BY <1>5, <3>2
  <2> QED
    BY <2>1, <2>2, <2>3 DEF PlaceInv
<1> QED
  BY <1>9, <1>10, <1>11 DEF QueueInv

\* Every step keeps the queue in order and every list in its place.
LEMMA NextQueue == ProcInv /\ QueueInv /\ [Next]_vars => QueueInv'
<1> SUFFICES ASSUME ProcInv, QueueInv, [Next]_vars PROVE QueueInv'
  OBVIOUS
<1>k. ASSUME UNCHANGED <<sendQueue, sendingNBL, owner, arrival>> PROVE QueueInv'
  BY <1>k DEF QueueInv, ArrivalInv, OrderInv, PlaceInv, Positions, Accepted
<1>1. CASE UNCHANGED vars
  BY <1>k, <1>1 DEF vars, txvars
<1>2. ASSUME NEW t \in Senders, SenderStep(t) PROVE QueueInv'
  <2>1. CASE TakeNbl(t)
    <3>1. CASE UNCHANGED <<sendQueue, sendingNBL>>
      BY <1>k, <2>1, <3>1 DEF TakeNbl
    <3>2. CASE /\ sendingNBL = NoNbl /\ sendQueue # <<>>
               /\ sendingNBL' = Head(sendQueue) /\ sendQueue' = Tail(sendQueue)
      BY <2>1, <3>2, TakeKeepsQueue DEF TakeNbl
    <3> QED
      BY <2>1, <3>1, <3>2 DEF TakeNbl, QueueEmpty
  <2>2. CASE \/ CheckTcbs(t) \/ VenetAllocTCB(t) \/ CopyBytes(t) \/ CopyNothing(t)
             \/ VenetReleaseTCB(t) \/ ReleaseEvent(t)
    BY <1>k, <2>2 DEF CheckTcbs, VenetAllocTCB, CopyBytes, CopyNothing, VenetReleaseTCB,
                      ReleaseEvent, txvars
  <2>3. CASE Requeue(t)
    <3>1. sendingNBL \in Nbl
      BY <2>3, InsideFacts DEF Requeue, Goto, InProcessNbl
    <3>2. sendQueue' = <<sendingNBL>> \o sendQueue
      BY <2>3 DEF Requeue, QueueEnqueHead, Cons
    <3> QED
      BY <2>3, <3>1, <3>2, RequeueKeepsQueue DEF Requeue
  <2>4. CASE Finish(t)
    <3>1. sendingNBL \in Nbl
      BY <2>4, InsideFacts DEF Finish, Goto, InProcessNbl
    <3> QED
      BY <2>4, <3>1, FinishKeepsQueue DEF Finish
  <2> QED
    BY <1>2, <2>1, <2>2, <2>3, <2>4 DEF SenderStep
<1>3. ASSUME NEW t \in Senders, NEW list \in SendLists, VenetSendNetBufs(t, list) PROVE QueueInv'
  <2>1. CASE NotReady
    <3>1. SrGetAdapterStatus \in Completed
      BY DEF SrGetAdapterStatus, Completed
    <3>2. Owned(list, SrGetAdapterStatus) /\ UNCHANGED <<sendingNBL, sendQueue, arrival>>
      BY <1>3, <2>1 DEF VenetSendNetBufs, Owned
    <3> QED
      BY <3>1, <3>2, RejectKeepsQueue
  <2>2. CASE ~NotReady
    <3>1. /\ Owned(list, "driver") /\ NumberOn(list)
          /\ sendQueue' = sendQueue \o list /\ sendingNBL' = sendingNBL
      BY <1>3, <2>2 DEF VenetSendNetBufs, Owned, NumberOn, QueueEnqueTail
    <3> QED
      BY <3>1, AcceptKeepsQueue
  <2> QED
    BY <2>1, <2>2
<1>4. CASE \/ \E id \in CancelIds : VenetCancelSend(id)
           \/ NdisStep \/ PnpStep
  <2>1. UNCHANGED <<sendingNBL, arrival>>
    BY <1>4, OtherSteps
  <2>2. CASE UNCHANGED <<sendQueue, owner>>
    BY <1>k, <2>1, <2>2
  <2>3. ASSUME NEW id, NEW reason, reason \in Completed, SrCancelQueued(id, reason) PROVE QueueInv'
    <3>1. \/ UNCHANGED <<sendQueue, owner>>
          \/ \E i \in Positions : /\ sendQueue' = RemoveAt(sendQueue, i)
                                  /\ owner' = [owner EXCEPT ![sendQueue[i]] = reason]
      BY <2>3, CancelEffect DEF ProcInv, Positions
    <3> QED
      BY <2>1, <2>2, <2>3, <3>1, CancelKeepsQueue
  <2> QED
    BY <1>4, <2>2, <2>3, OtherSteps
<1> QED
  BY <1>1, <1>2, <1>3, <1>4 DEF Next

\* Every list is in its place, in order.
LEMMA QueueInvariance == Spec => [](ProcInv /\ QueueInv)
<1>1. Init => QueueInv
  <2> SUFFICES ASSUME Init PROVE QueueInv
    OBVIOUS
  <2>1. Accepted = {} /\ Positions = {}
    BY DEF Init, Accepted, Positions
  <2>2. IsFiniteSet(Accepted) /\ Cardinality(Accepted) = 0
    BY <2>1, FS_EmptySet
  <2> QED
    BY <2>1, <2>2, SendAssumption DEF Init, QueueInv, ArrivalInv, OrderInv, PlaceInv, Owners
<1> QED
  BY <1>1, NextQueue, ProcInvariance, PTL DEF Spec

\* The list in hand is in front of the queue.
LEMMA ToSendShape ==
  ASSUME ProcInv
  PROVE  \/ /\ sendingNBL = NoNbl /\ ToSend = sendQueue /\ DOMAIN ToSend = Positions
         \/ /\ sendingNBL \in Nbl /\ DOMAIN ToSend = 1 .. Len(sendQueue) + 1
            /\ ToSend[1] = sendingNBL
            /\ \A i \in Positions : ToSend[i + 1] = sendQueue[i]
<1>1. CASE sendingNBL = NoNbl
  BY <1>1 DEF ProcInv, ToSend, Positions
<1>2. CASE sendingNBL \in Nbl /\ sendingNBL # NoNbl
  <2>1. ToSend = <<sendingNBL>> \o sendQueue
    BY <1>2 DEF ToSend, Cons
  <2>2. <<sendingNBL>> \in Seq(Nbl) /\ Len(<<sendingNBL>>) = 1 /\ <<sendingNBL>>[1] = sendingNBL
    BY <1>2
  <2>3. PICK k \in Nat : k = Len(sendQueue) /\ sendQueue \in Seq(Nbl)
    BY DEF ProcInv
  <2>4. /\ ToSend \in Seq(Nbl) /\ Len(ToSend) = 1 + k
        /\ \A i \in 1 .. 1 + k : ToSend[i] = IF i <= 1 THEN <<sendingNBL>>[i] ELSE sendQueue[i - 1]
    BY <2>1, <2>2, <2>3, ConcatProperties
  <2>5. ASSUME NEW i \in Positions PROVE ToSend[i + 1] = sendQueue[i]
    <3>1. i + 1 \in 1 .. 1 + k /\ ~(i + 1 <= 1) /\ (i + 1) - 1 = i
      BY <2>3 DEF Positions
    <3> QED
      BY <2>4, <3>1
  <2>6. DOMAIN ToSend = 1 .. k + 1 /\ ToSend[1] = sendingNBL
    BY <2>2, <2>3, <2>4
  <2> QED
    BY <1>2, <2>3, <2>5, <2>6
<1> QED
  BY <1>1, <1>2, SendAssumption DEF ProcInv

\* What is still to be sent is in the order of arrival, behind everything sent.
LEMMA OrderOfToSend ==
  ASSUME ProcInv, QueueInv
  PROVE  /\ \A i, j \in DOMAIN ToSend : i < j => arrival[ToSend[i]] < arrival[ToSend[j]]
         /\ \A n \in Nbl, i \in DOMAIN ToSend : owner[n] = "bus" => arrival[n] < arrival[ToSend[i]]
<1>1. CASE sendingNBL = NoNbl /\ ToSend = sendQueue /\ DOMAIN ToSend = Positions
  BY <1>1 DEF QueueInv, OrderInv
<1>2. CASE /\ sendingNBL \in Nbl /\ DOMAIN ToSend = 1 .. Len(sendQueue) + 1
           /\ ToSend[1] = sendingNBL
           /\ \A i \in Positions : ToSend[i + 1] = sendQueue[i]
  <2>1. PICK k \in Nat : k = Len(sendQueue) /\ Positions = 1 .. k
    BY DEF ProcInv, Positions
  <2>2. ASSUME NEW i \in DOMAIN ToSend, i # 1
        PROVE  i - 1 \in Positions /\ ToSend[i] = sendQueue[i - 1]
    <3>1. i - 1 \in Positions /\ (i - 1) + 1 = i
      BY <1>2, <2>1, <2>2
    <3> QED
      BY <1>2, <3>1
  <2>3. ASSUME NEW i \in DOMAIN ToSend, NEW j \in DOMAIN ToSend, i < j
        PROVE  arrival[ToSend[i]] < arrival[ToSend[j]]
    <3>1. j # 1 /\ i \in Int /\ j \in Int
      BY <1>2, <2>1, <2>3
    <3>2. CASE i = 1
      BY <1>2, <2>2, <3>1, <3>2 DEF QueueInv, OrderInv
    <3>3. CASE i # 1
      <4>1. i - 1 < j - 1
        BY <2>3, <3>1
      <4> QED
        BY <2>2, <3>1, <3>3, <4>1 DEF QueueInv, OrderInv
    <3> QED
      BY <3>2, <3>3
  <2>4. ASSUME NEW n \in Nbl, NEW i \in DOMAIN ToSend, owner[n] = "bus"
        PROVE  arrival[n] < arrival[ToSend[i]]
    <3>1. CASE i = 1
      BY <1>2, <2>4, <3>1 DEF QueueInv, OrderInv
    <3>2. CASE i # 1
      BY <2>2, <2>4, <3>2 DEF QueueInv, OrderInv
    <3> QED
      BY <3>1, <3>2
  <2> QED
    BY <2>3, <2>4
<1> QED
  BY <1>1, <1>2, ToSendShape

\* What is still to be sent is what the driver has, once each.
LEMMA PlaceOfToSend ==
  ASSUME ProcInv, QueueInv
  PROVE  /\ ToSet(ToSend) = {n \in Nbl : owner[n] = "driver"}
         /\ IsInjective(ToSend)
<1>1. PICK k \in Nat : k = Len(sendQueue) /\ Positions = 1 .. k /\ \A i \in 1 .. k : sendQueue[i] \in Nbl
  BY DEF ProcInv, Positions
<1>2. /\ DOMAIN ToSend \subseteq Nat
      /\ \A i \in DOMAIN ToSend : ToSend[i] \in Nbl /\ owner[ToSend[i]] = "driver"
      /\ \A n \in Nbl : owner[n] = "driver" => \E i \in DOMAIN ToSend : ToSend[i] = n
  <2>1. CASE sendingNBL = NoNbl /\ ToSend = sendQueue /\ DOMAIN ToSend = Positions
    BY <1>1, <2>1, SendAssumption DEF QueueInv, PlaceInv
  <2>2. CASE /\ sendingNBL \in Nbl /\ DOMAIN ToSend = 1 .. Len(sendQueue) + 1
             /\ ToSend[1] = sendingNBL
             /\ \A i \in Positions : ToSend[i + 1] = sendQueue[i]
    <3>1. ASSUME NEW i \in DOMAIN ToSend PROVE ToSend[i] \in Nbl /\ owner[ToSend[i]] = "driver"
      <4>1. CASE i = 1
        BY <2>2, <4>1 DEF QueueInv, PlaceInv
      <4>2. CASE i # 1
        <5>1. i - 1 \in Positions /\ (i - 1) + 1 = i
          BY <1>1, <2>2, <4>2
        <5>2. ToSend[i] = sendQueue[i - 1]
          BY <2>2, <5>1
        <5> QED
          BY <1>1, <5>1, <5>2 DEF QueueInv, PlaceInv
      <4> QED
        BY <4>1, <4>2
    <3>2. ASSUME NEW n \in Nbl, owner[n] = "driver" PROVE \E i \in DOMAIN ToSend : ToSend[i] = n
      <4>1. CASE n = sendingNBL
        BY <1>1, <2>2, <4>1
      <4>2. ASSUME NEW j \in Positions, sendQueue[j] = n PROVE \E i \in DOMAIN ToSend : ToSend[i] = n
        <5>1. j + 1 \in DOMAIN ToSend /\ ToSend[j + 1] = n
          BY <1>1, <2>2, <4>2
        <5> QED
          BY <5>1
      <4> QED
        BY <3>2, <4>1, <4>2 DEF QueueInv, PlaceInv
    <3>3. DOMAIN ToSend \subseteq Nat
      BY <1>1, <2>2
    <3> QED
      BY <3>1, <3>2, <3>3
  <2> QED
    BY <2>1, <2>2, ToSendShape
<1>3. ToSet(ToSend) = {n \in Nbl : owner[n] = "driver"}
  BY <1>2 DEF ToSet
<1>4. ASSUME NEW i \in DOMAIN ToSend, NEW j \in DOMAIN ToSend, ToSend[i] = ToSend[j] PROVE i = j
  <2>1. arrival[ToSend[i]] \in Nat
    BY <1>2 DEF QueueInv, ArrivalInv
  <2>2. ~(i < j) /\ ~(j < i)
    BY <1>4, <2>1, OrderOfToSend
  <2> QED
    BY <1>2, <2>2
<1> QED
  BY <1>3, <1>4 DEF IsInjective

\* Frames are sent out in the order received, whoever queues, takes, puts back or
\* cancels lists.
THEOREM FramesLeaveInOrder == Spec => []SentInOrder
<1>1. ProcInv /\ QueueInv => SentInOrder
  BY OrderOfToSend DEF SentInOrder
<1> QED
  BY <1>1, QueueInvariance, PTL

\* Every list the driver has accepted is queued or in hand, once, until the bus has
\* it or it is completed.
THEOREM NoListIsLost == Spec => []NothingLost
<1>1. ProcInv /\ QueueInv => NothingLost
  BY PlaceOfToSend DEF NothingLost
<1> QED
  BY <1>1, QueueInvariance, PTL

-----------------------------------------------------------------------------
(***************************************************************************)
(* Type correctness, with the flags of the control paths.                  *)
(***************************************************************************)
CtlTypeOK ==
  /\ state \subseteq Flags /\ load \subseteq Flags /\ pload \subseteq Flags
  /\ npc \in {"running", "quiesce", "paused", "halt_free", "halt_tx", "halt_adapter", "halted",
              "restart_store", "restart_event", "reset_free", "reset_event", "reset_load", "reset_store"}
  /\ ppc \in {"up", "store_shutdown", "quiesce", "down", "store_removed", "removed"}

\* Every step keeps the flags and the control paths' labels typed.
LEMMA NextCtl == CtlTypeOK /\ [Next]_vars => CtlTypeOK'
<1> SUFFICES ASSUME CtlTypeOK, [Next]_vars PROVE CtlTypeOK'
  OBVIOUS
<1>1. CASE UNCHANGED <<state, ctlvars>>
  BY <1>1 DEF CtlTypeOK, ctlvars
<1>2. ASSUME NEW t \in Senders, SenderStep(t) PROVE CtlTypeOK'
  BY <1>1, <1>2 DEF SenderStep, TakeNbl, CheckTcbs, VenetAllocTCB, CopyBytes, CopyNothing,
                    VenetReleaseTCB, ReleaseEvent, Requeue, Finish
<1>3. ASSUME NEW t \in Senders, NEW list \in SendLists, VenetSendNetBufs(t, list) PROVE CtlTypeOK'
  BY <1>1, <1>3 DEF VenetSendNetBufs
<1>4. ASSUME NEW id \in CancelIds, VenetCancelSend(id) PROVE CtlTypeOK'
  BY <1>1, <1>4 DEF VenetCancelSend
<1>f. {"PAUSED", "HALT_IN_PROGRESS", "RESET", "SHUTDOWN", "SURPRISE_REMOVED"} \subseteq Flags
  BY DEF Flags, NotReadyMask
<1>5. CASE NdisStep
  <2>1. CASE VenetPause \/ VenetHalt \/ VenetReset
    BY <1>f, <2>1 DEF VenetPause, VenetHalt, VenetReset, NdisSetFlag, NdisGoto, CtlTypeOK
  <2>2. CASE VenetRestart \/ ResetLoad
    BY <2>2 DEF VenetRestart, ResetLoad, NdisLoadFlags, NdisGoto, CtlTypeOK
  <2>3. CASE RestartStore \/ ResetStore
    BY <2>3 DEF RestartStore, ResetStore, NdisStoreFlags, NdisGoto, CtlTypeOK
  <2>4. CASE RestartEvent \/ ResetEvent \/ PauseReturns
    BY <2>4 DEF RestartEvent, ResetEvent, PauseReturns, NdisSetEvent, NdisGoto, CtlTypeOK
  <2>5. CASE HaltFreeQueued \/ ResetFreeQueued
    BY <2>5 DEF HaltFreeQueued, ResetFreeQueued, NdisGoto, CtlTypeOK
  <2>6. CASE HaltFreeTx \/ HaltFreeAdapter
    BY <2>6 DEF HaltFreeTx, HaltFreeAdapter, NdisGoto, CtlTypeOK
  <2> QED
    BY <1>5, <2>1, <2>2, <2>3, <2>4, <2>5, <2>6 DEF NdisStep
<1>6. CASE PnpStep
  BY <1>6, <1>f DEF PnpStep, VenetShutdown, ShutdownStore, ShutdownReturns, VenetSurpriseRemoved,
                    RemovedStore, PnpLoadFlags, PnpStoreFlags, PnpGoto, CtlTypeOK
<1> QED
  BY <1>1, <1>2, <1>3, <1>4, <1>5, <1>6 DEF Next, vars

\* The transmit path is type correct; no list ever has more busy TCBs than there are.
THEOREM SendTypeCorrect == Spec => []TypeOK
<1>1. Init => CtlTypeOK
  BY DEF Init, CtlTypeOK
<1>2. ProcInv /\ PoolInv /\ QueueInv /\ CtlTypeOK => TypeOK
  <2> SUFFICES ASSUME ProcInv, PoolInv, QueueInv, CtlTypeOK PROVE TypeOK
    OBVIOUS
  <2>1. ASSUME TcbsThere PROVE tcbFree \in 0 .. NumTcbs /\ tcbBusy \in [Nbl -> 0 .. NumTcbs]
    <3>1. PICK c \in Nat, f \in Nat : c = Cardinality(Busy) /\ f = numTCBsFree /\ c + f = NumTcbs
      BY <2>1, FS_CardinalityType DEF PoolInv, PoolOK
    <3>2. ASSUME NEW n \in Nbl PROVE tcbBusy[n] \in 0 .. NumTcbs
      <4>1. tcbBusy[n] \in Nat /\ tcbBusy[n] <= c
        BY <2>1, <3>1, BusyBound DEF PoolInv, PoolOK
      <4> QED
        BY <3>1, <4>1
    <3>3. tcbBusy \in [Nbl -> 0 .. NumTcbs]
      BY <2>1, <3>2 DEF PoolInv, PoolOK
    <3> QED
      BY <2>1, <3>3 DEF PoolInv, PoolOK
  <2>2. ASSUME ~TcbsThere PROVE tcbFree \in 0 .. NumTcbs /\ tcbBusy \in [Nbl -> 0 .. NumTcbs]
    BY <2>2, SendAssumption DEF PoolInv, Freed
  <2>3. tcbFree \in 0 .. NumTcbs /\ tcbBusy \in [Nbl -> 0 .. NumTcbs]
    BY <2>1, <2>2
  <2> QED
    BY <2>3
    DEF TypeOK, ProcInv, PoolInv, QueueInv, ArrivalInv, CtlTypeOK, PcLabels, Owners
<1> QED
  BY <1>1, <1>2, NextCtl, ProcInvariance, PoolInvariance, QueueInvariance, PTL DEF Spec
=============================================================================
