----------------------------- MODULE VenetSend -----------------------------
(***************************************************************************)
(* The transmit path of the miniport (venet/sendrcv.c, with the TCB pool   *)
(* and the state flags of venet/venet.c).  Senders, a canceller, the NDIS  *)
(* control path (pause, restart, reset) and the PnP path (shutdown,        *)
(* surprise removal) run concurrently.                                     *)
(*                                                                         *)
(* A section under sendLock is one step.  SrProcessNBL, the TCB pool, the  *)
(* send event and the clearing of a state flag are outside the lock and    *)
(* are cut where another context can come in between.                      *)
(***************************************************************************)
EXTENDS SequencesExt

CONSTANTS
  Senders,     \* threads that call VenetSendNetBufs
  Nbl,         \* net buffer lists, each handed down once
  NoNbl,       \* sendingNBL = NULL
  NbCount,     \* NET_BUFFERs in each list (SrCountNBL)
  CancelId,    \* NetBufferListCancelId of each list
  NumTcbs      \* NIC_MAX_BUSY_SENDS

ASSUME SendAssumption ==
  /\ NoNbl \notin Nbl
  /\ NbCount \in [Nbl -> Nat \ {0}]
  /\ NumTcbs \in Nat

VARIABLES
  state,        \* the set of VNET_ flags that are on
  sendQueue, sendingNBL,
  tcbFree,      \* length of the list of free TCBs
  tcbBusy,      \* how many TCBs of the busy list point at each NBL
  numTCBsFree,  \* the count kept beside the two lists
  sendEvent,    \* the event is set
  owner,        \* who has the list: NDIS before and after, the driver, the bus
  arrival,      \* history: the position in which the driver accepted each list
  pc, nb,       \* each sender, and the NET_BUFFER it has come to
  npc, load,    \* NDIS control path, and the flags it loaded to clear one
  ppc, pload    \* PnP path, and the flags it loaded to set one

txvars   == <<sendQueue, sendingNBL, owner, arrival>>
tcbvars  == <<tcbFree, tcbBusy, numTCBsFree>>
sendvars == <<pc, nb>>
ctlvars  == <<npc, load, ppc, pload>>
vars     == <<state, txvars, tcbvars, sendEvent, sendvars, ctlvars>>

NotReadyMask == {"DISCONNECTED", "RESET", "HALT_IN_PROGRESS", "NO_LINK",
                 "SUSPENDING", "SHUTDOWN", "PAUSED"}

Flags == NotReadyMask \cup {"SURPRISE_REMOVED"}

NotReady == state \cap NotReadyMask # {}

\* SrGetAdapterStatus: the first flag that applies decides
SrGetAdapterStatus ==
  IF "RESET" \in state         THEN "reset_in_progress"
  ELSE IF "PAUSED" \in state   THEN "paused"
  ELSE IF "NO_LINK" \in state  THEN "device_failed"
  ELSE IF state \cap {"HALT_IN_PROGRESS", "SURPRISE_REMOVED", "SHUTDOWN"} # {}
       THEN "closing"
  ELSE "failure"

Completed == {"reset_in_progress", "paused", "device_failed", "closing",
              "failure", "aborted"}

\* The halt has not freed the adapter, or not yet the TCBs.  What a thread does
\* with freed memory is not modelled: it takes no further step.
Present == npc # "halted"

TcbsThere == npc \notin {"halt_adapter", "halted"}

Goto(t, from, to) == Present /\ pc[t] = from /\ pc' = [pc EXCEPT ![t] = to]

\* sendLock is free.  A set of the PnP path holds it over two steps, and so does a
\* sender that comes round SrProcessQueue's loop again.
LockFree ==
  /\ ppc \notin {"store_shutdown", "store_removed"}
  /\ \A t \in Senders : pc[t] # "relock"

Accepted == {n \in Nbl : arrival[n] > 0}

\* venet.h's queue of lists, linked through their Next fields
QueueEmpty(q) == q = <<>>
QueueEnqueTail(q, list) == q \o list
QueueEnqueHead(q, nbl) == Cons(nbl, q)

\* what NDIS may hand down in one call: lists it has not sent yet
SendLists ==
  LET new == {n \in Nbl : owner[n] = "ndis"} IN
  {<<n>> : n \in new} \cup {s \in new \X new : s[1] # s[2]}

-----------------------------------------------------------------------------
(***************************************************************************)
(* VenetSendNetBufs: under sendLock, reject the whole chain with the       *)
(* adapter's status or queue all of it; then SrProcessQueue.               *)
(***************************************************************************)
VenetSendNetBufs(t, list) ==
  /\ pc[t] = "idle" /\ Present /\ LockFree
  /\ IF NotReady
     THEN /\ owner' = [n \in Nbl |-> IF n \in ToSet(list)
                                     THEN SrGetAdapterStatus ELSE owner[n]]
          /\ UNCHANGED <<sendQueue, arrival, pc>>
     ELSE /\ sendQueue' = QueueEnqueTail(sendQueue, list)
          /\ owner' = [n \in Nbl |-> IF n \in ToSet(list) THEN "driver" ELSE owner[n]]
          /\ arrival' = [n \in Nbl |->
                           IF n \in ToSet(list)
                           THEN Cardinality(Accepted) + (CHOOSE i \in DOMAIN list : list[i] = n)
                           ELSE arrival[n]]
          /\ Goto(t, "idle", "take")
  /\ UNCHANGED <<state, sendingNBL, tcbvars, sendEvent, nb, ctlvars>>

\* Mutation: a thread does not look whether another one is processing.
TakeUnguarded(t) ==
  /\ pc[t] \in {"take", "relock"} /\ Present /\ LockFree
  /\ IF QueueEmpty(sendQueue) \/ NotReady
     THEN pc' = [pc EXCEPT ![t] = "idle"] /\ UNCHANGED <<sendQueue, sendingNBL>>
     ELSE /\ pc' = [pc EXCEPT ![t] = "check"]
          /\ sendingNBL' = Head(sendQueue)
          /\ sendQueue' = Tail(sendQueue)
  /\ UNCHANGED <<state, owner, arrival, tcbvars, sendEvent, nb, ctlvars>>

\* The head of SrProcessQueue's loop, under sendLock.  The lock is not recursive:
\* at "relock" the sender has it already and waits for itself.
TakeNbl(t) ==
  /\ pc[t] \in {"take", "relock"} /\ Present /\ LockFree
  /\ IF sendingNBL # NoNbl \/ QueueEmpty(sendQueue) \/ NotReady
     THEN pc' = [pc EXCEPT ![t] = "idle"] /\ UNCHANGED <<sendQueue, sendingNBL>>
     ELSE /\ pc' = [pc EXCEPT ![t] = "check"]
          /\ sendingNBL' = Head(sendQueue)
          /\ sendQueue' = Tail(sendQueue)
  /\ UNCHANGED <<state, owner, arrival, tcbvars, sendEvent, nb, ctlvars>>

\* Mutation: one TCB too few is taken as enough.
CheckTcbsOffByOne(t) ==
  /\ Goto(t, "check",
          IF NbCount[sendingNBL] > numTCBsFree + 1 THEN "requeue" ELSE "alloc")
  /\ nb' = [nb EXCEPT ![t] = 1]
  /\ UNCHANGED <<state, txvars, tcbvars, sendEvent, ctlvars>>

\* SrProcessNBL: "Don't bother if we don't have enough TCBS for this list"
CheckTcbs(t) ==
  /\ Goto(t, "check", IF NbCount[sendingNBL] > numTCBsFree THEN "requeue" ELSE "alloc")
  /\ nb' = [nb EXCEPT ![t] = 1]
  /\ UNCHANGED <<state, txvars, tcbvars, sendEvent, ctlvars>>

\* Mutation: the count of free TCBs is not maintained.
AllocKeepsCount(t) ==
  /\ Goto(t, "alloc", IF tcbFree > 0 THEN "copy" ELSE "null_tcb")
  /\ IF tcbFree > 0
     THEN /\ tcbFree' = tcbFree - 1 /\ numTCBsFree' = numTCBsFree
          /\ tcbBusy' = [tcbBusy EXCEPT ![sendingNBL] = @ + 1]
          /\ sendEvent' = FALSE
     ELSE UNCHANGED <<tcbvars, sendEvent>>
  /\ UNCHANGED <<state, txvars, nb, ctlvars>>

\* VenetAllocTCB; without a free TCB it returns NULL, which SrCopyFrame follows
VenetAllocTCB(t) ==
  /\ Goto(t, "alloc", IF tcbFree > 0 THEN "copy" ELSE "null_tcb")
  /\ IF tcbFree > 0
     THEN /\ tcbFree' = tcbFree - 1 /\ numTCBsFree' = numTCBsFree - 1
          /\ tcbBusy' = [tcbBusy EXCEPT ![sendingNBL] = @ + 1]
          /\ sendEvent' = FALSE
     ELSE UNCHANGED <<tcbvars, sendEvent>>
  /\ UNCHANGED <<state, txvars, nb, ctlvars>>

\* SrCopyFrame returns the number of bytes copied, and the caller takes
\* anything but 0 (NDIS_STATUS_SUCCESS) for an error.
CopyBytes(t) ==
  /\ TcbsThere /\ Goto(t, "copy", "release")
  /\ UNCHANGED <<state, txvars, tcbvars, sendEvent, nb, ctlvars>>

\* It returns 0 when the frame is empty or its memory cannot be mapped; the TCB
\* is then handed to SrSubmitTCB, which does nothing and succeeds.
CopyNothing(t) ==
  /\ TcbsThere
  /\ Goto(t, "copy", IF nb[t] < NbCount[sendingNBL] THEN "alloc" ELSE "finish")
  /\ nb' = [nb EXCEPT ![t] = @ + 1]
  /\ UNCHANGED <<state, txvars, tcbvars, sendEvent, ctlvars>>

\* VenetReleaseTCB: from the busy list to the free list, and the count; then,
\* still without the lock, the event
VenetReleaseTCB(t) ==
  /\ TcbsThere /\ Goto(t, "release", "signal")
  /\ tcbFree' = tcbFree + 1 /\ numTCBsFree' = numTCBsFree + 1
  /\ tcbBusy' = [tcbBusy EXCEPT ![sendingNBL] = @ - 1]
  /\ UNCHANGED <<state, txvars, sendEvent, nb, ctlvars>>

\* Mutation: the event is not set when the last busy TCB is released.
ReleaseNoEvent(t) ==
  /\ Goto(t, "signal", "requeue")
  /\ UNCHANGED <<state, txvars, tcbvars, sendEvent, nb, ctlvars>>

ReleaseEvent(t) ==
  /\ Goto(t, "signal", "requeue")
  /\ sendEvent' = (sendEvent \/ \A n \in Nbl : tcbBusy[n] = 0)
  /\ UNCHANGED <<state, txvars, tcbvars, nb, ctlvars>>

\* Mutation: the list goes back to the wrong end of the queue.
RequeueTail(t) ==
  /\ LockFree /\ Goto(t, "requeue", "idle")
  /\ sendQueue' = QueueEnqueTail(sendQueue, <<sendingNBL>>)
  /\ sendingNBL' = NoNbl /\ nb' = [nb EXCEPT ![t] = 0]
  /\ UNCHANGED <<state, owner, arrival, tcbvars, sendEvent, ctlvars>>

\* Mutation: after an error the loop goes on.
RequeueRetry(t) ==
  /\ LockFree /\ Goto(t, "requeue", "take")
  /\ sendQueue' = QueueEnqueHead(sendQueue, sendingNBL)
  /\ sendingNBL' = NoNbl /\ nb' = [nb EXCEPT ![t] = 0]
  /\ UNCHANGED <<state, owner, arrival, tcbvars, sendEvent, ctlvars>>

\* after an error, under sendLock: back to the head of the queue, and give up
Requeue(t) ==
  /\ LockFree /\ Goto(t, "requeue", "idle")
  /\ sendQueue' = QueueEnqueHead(sendQueue, sendingNBL)
  /\ sendingNBL' = NoNbl /\ nb' = [nb EXCEPT ![t] = 0]
  /\ UNCHANGED <<state, owner, arrival, tcbvars, sendEvent, ctlvars>>

\* After success the list belongs to its TCBs.  sendLock is taken here and is not
\* released: the loop goes back to its head with it.
Finish(t) ==
  /\ LockFree /\ Goto(t, "finish", "relock")
  /\ owner' = [owner EXCEPT ![sendingNBL] = "bus"]
  /\ sendingNBL' = NoNbl /\ nb' = [nb EXCEPT ![t] = 0]
  /\ UNCHANGED <<state, sendQueue, arrival, tcbvars, sendEvent, ctlvars>>

SenderStep(t) ==
  \/ TakeNbl(t) \/ CheckTcbs(t) \/ VenetAllocTCB(t) \/ CopyBytes(t)
  \/ CopyNothing(t) \/ VenetReleaseTCB(t) \/ ReleaseEvent(t) \/ Requeue(t) \/ Finish(t)

-----------------------------------------------------------------------------
(***************************************************************************)
(* SrCancelQueued.  Moving the match to the cancel queue overwrites the    *)
(* Next field that the walk follows, so the walk ends at the first match.  *)
(* An id of 0 is the NULL cancel id.                                       *)
(***************************************************************************)
Matches(id, n) == id = 0 \/ CancelId[n] = id

FirstMatch(id) ==
  {i \in DOMAIN sendQueue :
     /\ Matches(id, sendQueue[i])
     /\ \A j \in 1 .. i - 1 : ~Matches(id, sendQueue[j])}

\* Mutation: the cancelled list stays linked.
CancelKeepsLink(id, reason) ==
  IF FirstMatch(id) = {}
  THEN UNCHANGED <<sendQueue, owner>>
  ELSE \E i \in FirstMatch(id) :
         /\ owner' = [owner EXCEPT ![sendQueue[i]] = reason]
         /\ UNCHANGED sendQueue

SrCancelQueued(id, reason) ==
  IF FirstMatch(id) = {}
  THEN UNCHANGED <<sendQueue, owner>>
  ELSE \E i \in FirstMatch(id) :
         /\ sendQueue' = RemoveAt(sendQueue, i)
         /\ owner' = [owner EXCEPT ![sendQueue[i]] = reason]

VenetCancelSend(id) ==
  /\ Present /\ LockFree
  /\ SrCancelQueued(id, "aborted")
  /\ UNCHANGED <<state, sendingNBL, arrival, tcbvars, sendEvent, sendvars, ctlvars>>

-----------------------------------------------------------------------------
(***************************************************************************)
(* Control path.  VenetSetSyncFlag sets a flag under both locks and        *)
(* VENET_CLEAR_FLAG clears one under none; each is a load and a store.     *)
(* The NDIS path is the only one that clears, so that its own setting of a *)
(* flag races with nobody and is one step.                                 *)
(***************************************************************************)
NdisGoto(from, to) == npc = from /\ npc' = to

NdisSetFlag(from, f, to) ==
  /\ LockFree /\ NdisGoto(from, to)
  /\ state' = state \cup {f}
  /\ UNCHANGED <<txvars, tcbvars, sendEvent, sendvars, load, ppc, pload>>

NdisLoadFlags(from, to) ==
  /\ NdisGoto(from, to)
  /\ load' = state
  /\ UNCHANGED <<state, txvars, tcbvars, sendEvent, sendvars, ppc, pload>>

NdisStoreFlags(from, f, to) ==
  /\ NdisGoto(from, to)
  /\ state' = load \ {f} /\ load' = {}
  /\ UNCHANGED <<txvars, tcbvars, sendEvent, sendvars, ppc, pload>>

NdisSetEvent(from, to) ==
  /\ NdisGoto(from, to)
  /\ sendEvent' = TRUE
  /\ UNCHANGED <<state, txvars, tcbvars, sendvars, load, ppc, pload>>

\* VenetPause, then VenetQuiesce waits for the event without a timeout
VenetPause == NdisSetFlag("running", "PAUSED", "quiesce")

PauseReturns ==
  /\ sendEvent
  /\ NdisGoto("quiesce", "paused")
  /\ UNCHANGED <<state, txvars, tcbvars, sendEvent, sendvars, load, ppc, pload>>

VenetRestart == NdisLoadFlags("paused", "restart_store")

RestartStore == NdisStoreFlags("restart_store", "PAUSED", "restart_event")

RestartEvent == NdisSetEvent("restart_event", "running")

\* NDIS halts a paused adapter: VenetHalt sets the flag, completes what is queued,
\* frees the TCBs and then the adapter.
VenetHalt == NdisSetFlag("paused", "HALT_IN_PROGRESS", "halt_free")

HaltFreeQueued ==
  /\ LockFree /\ NdisGoto("halt_free", "halt_tx")
  /\ SrCancelQueued(0, "failure")
  /\ UNCHANGED <<state, sendingNBL, arrival, tcbvars, sendEvent, sendvars, load, ppc, pload>>

\* VenetFreeTx empties and frees both lists, without the lock; the count stays
HaltFreeTx ==
  /\ NdisGoto("halt_tx", "halt_adapter")
  /\ tcbFree' = 0 /\ tcbBusy' = [n \in Nbl |-> 0]
  /\ UNCHANGED <<state, txvars, numTCBsFree, sendEvent, sendvars, load, ppc, pload>>

HaltFreeAdapter ==
  /\ NdisGoto("halt_adapter", "halted")
  /\ UNCHANGED <<state, txvars, tcbvars, sendEvent, sendvars, load, ppc, pload>>

\* VenetReset: ignored while halting or resetting
VenetReset ==
  /\ state \cap {"HALT_IN_PROGRESS", "RESET"} = {}
  /\ NdisSetFlag("running", "RESET", "reset_free")

\* VenetFreeQueuedSend(a, NDIS_STATUS_RESET_IN_PROGRESS)
ResetFreeQueued ==
  /\ LockFree /\ NdisGoto("reset_free", "reset_event")
  /\ SrCancelQueued(0, "reset_in_progress")
  /\ UNCHANGED <<state, sendingNBL, arrival, tcbvars, sendEvent, sendvars, load, ppc, pload>>

ResetEvent == NdisSetEvent("reset_event", "reset_load")

ResetLoad == NdisLoadFlags("reset_load", "reset_store")

ResetStore == NdisStoreFlags("reset_store", "RESET", "running")

NdisStep ==
  \/ VenetPause \/ PauseReturns \/ VenetRestart \/ RestartStore \/ RestartEvent
  \/ VenetHalt \/ HaltFreeQueued \/ HaltFreeTx \/ HaltFreeAdapter
  \/ VenetReset \/ ResetFreeQueued \/ ResetEvent \/ ResetLoad \/ ResetStore

PnpGoto(from, to) == Present /\ ppc = from /\ ppc' = to

PnpLoadFlags(to) ==
  /\ LockFree /\ PnpGoto("up", to)
  /\ pload' = state
  /\ UNCHANGED <<state, txvars, tcbvars, sendEvent, sendvars, npc, load>>

PnpStoreFlags(from, f, to) ==
  /\ PnpGoto(from, to)
  /\ state' = pload \cup {f} /\ pload' = {}
  /\ UNCHANGED <<txvars, tcbvars, sendEvent, sendvars, npc, load>>

\* VenetShutdown waits like VenetPause
VenetShutdown == PnpLoadFlags("store_shutdown")

ShutdownStore == PnpStoreFlags("store_shutdown", "SHUTDOWN", "quiesce")

ShutdownReturns ==
  /\ sendEvent
  /\ PnpGoto("quiesce", "down")
  /\ UNCHANGED <<state, txvars, tcbvars, sendEvent, sendvars, npc, load, pload>>

VenetSurpriseRemoved == PnpLoadFlags("store_removed")

RemovedStore == PnpStoreFlags("store_removed", "SURPRISE_REMOVED", "removed")

PnpStep ==
  VenetShutdown \/ ShutdownStore \/ ShutdownReturns \/ VenetSurpriseRemoved \/ RemovedStore

-----------------------------------------------------------------------------
\* VenetInitialize has returned; NDIS has restarted the adapter
Init ==
  /\ state = {}
  /\ sendQueue = <<>> /\ sendingNBL = NoNbl
  /\ tcbFree = NumTcbs /\ numTCBsFree = NumTcbs
  /\ tcbBusy = [n \in Nbl |-> 0]
  /\ sendEvent = TRUE
  /\ owner = [n \in Nbl |-> "ndis"]
  /\ arrival = [n \in Nbl |-> 0]
  /\ pc = [t \in Senders |-> "idle"]
  /\ nb = [t \in Senders |-> 0]
  /\ npc = "running" /\ load = {}
  /\ ppc = "up" /\ pload = {}

CancelIds == {CancelId[n] : n \in Nbl}

Next ==
  \/ \E t \in Senders : SenderStep(t)
  \/ \E t \in Senders : \E list \in SendLists : VenetSendNetBufs(t, list)
  \/ \E id \in CancelIds : VenetCancelSend(id)
  \/ NdisStep
  \/ PnpStep

Spec == Init /\ [][Next]_vars

\* A call that was entered goes on: a sender, and the control paths once inside
\* a callback.  Nobody is made to call.
Fairness ==
  /\ \A t \in Senders : WF_vars(SenderStep(t))
  /\ WF_vars(npc \notin {"running", "paused"} /\ NdisStep)
  /\ WF_vars(ppc # "up" /\ PnpStep)

FairSpec == Spec /\ Fairness

-----------------------------------------------------------------------------
TypeOK ==
  /\ state \subseteq Flags /\ load \subseteq Flags /\ pload \subseteq Flags
  /\ sendQueue \in Seq(Nbl) /\ sendingNBL \in Nbl \cup {NoNbl}
  /\ tcbFree \in 0 .. NumTcbs /\ numTCBsFree \in 0 .. NumTcbs
  /\ tcbBusy \in [Nbl -> 0 .. NumTcbs]
  /\ sendEvent \in BOOLEAN
  /\ owner \in [Nbl -> {"ndis", "driver", "bus"} \cup Completed]
  /\ arrival \in [Nbl -> Nat]
  /\ pc \in [Senders -> {"idle", "take", "check", "alloc", "copy", "release",
                         "signal", "requeue", "finish", "relock", "null_tcb"}]
  /\ nb \in [Senders -> Nat]
  /\ npc \in {"running", "quiesce", "paused", "halt_free", "halt_tx", "halt_adapter", "halted",
              "restart_store", "restart_event", "reset_free", "reset_event", "reset_load", "reset_store"}
  /\ ppc \in {"up", "store_shutdown", "quiesce", "down", "store_removed", "removed"}

InProcessNbl(t) == pc[t] \notin {"idle", "take", "relock"}

\* "only a single thread can execute this loop at a time" (sendrcv.c:247-249):
\* sendingNBL alone keeps every other thread out of SrProcessNBL and of the
\* TCB lists, which are used without sendLock.
SingleProcessor ==
  /\ \A s, t \in Senders : InProcessNbl(s) /\ InProcessNbl(t) => s = t
  /\ sendingNBL # NoNbl <=> \E t \in Senders : InProcessNbl(t)

\* The list in hand followed by the queue: what is still to be sent.
ToSend == IF sendingNBL = NoNbl THEN sendQueue ELSE Cons(sendingNBL, sendQueue)

\* "frames are sent out in order received" (sendrcv.c:248-249): what is still to
\* be sent is in the order of arrival, behind everything already sent.
SentInOrder ==
  LET q == ToSend IN
  /\ \A i, j \in DOMAIN q : i < j => arrival[q[i]] < arrival[q[j]]
  /\ \A n \in Nbl, i \in DOMAIN q : owner[n] = "bus" => arrival[n] < arrival[q[i]]

\* Every list is in one place: the driver's are exactly those still to be sent,
\* once each, so none is completed while queued, lost, or completed twice.  (After
\* a halt this is where they were left: HaltCompletesAll.)
NothingLost ==
  LET q == ToSend IN
  /\ ToSet(q) = {n \in Nbl : owner[n] = "driver"}
  /\ IsInjective(q)

\* The count checked once, without the lock, before the first TCB is taken stays
\* sufficient as long as there are TCBs: VenetAllocTCB returns NULL only to a
\* sender that is still inside when the halt has freed them.
NullTcbOnlyAfterFree ==
  \A t \in Senders : pc[t] = "null_tcb" => ~TcbsThere

\* "UNSET == Tx in use" (venet.c:402): until the halt, an unset event means that a
\* TCB is busy, or that its release is about to look whether it was the last one.
\* (A busy TCB is not always released, so the wait of VenetQuiesce may not end.)
UnsetMeansInUse ==
  TcbsThere /\ ~sendEvent =>
    \/ \E n \in Nbl : tcbBusy[n] > 0
    \/ \E t \in Senders : pc[t] = "signal"

\* Senders are stuck at sendLock, or the halt has freed what they use.
Stuck == (\E t \in Senders : pc[t] = "relock") \/ ~TcbsThere

\* VenetSendNetBufs returns unless a list was sent without an error, after which
\* sendLock is never free again, or the adapter is halted under the sender: an
\* error ends SrProcessQueue's loop, and senders do not keep each other out for ever.
SendReturns ==
  \A t \in Senders : pc[t] # "idle" ~> pc[t] = "idle" \/ Stuck

-----------------------------------------------------------------------------
\* SrProcessQueue (sendrcv.c:241): "Attempt to process all NBL's": a sender that
\* has sent one list goes on to the next, or finds none and leaves.
LoopGoesOn ==
  \A t \in Senders : pc[t] = "relock" ~> pc[t] # "relock"

\* VenetAllocTCB and VenetReleaseTCB (venet.c:789, 808): "Can only be called with
\* sendLock held".
TcbListsLocked ==
  \A t \in Senders : pc[t] \in {"alloc", "release"} => ~LockFree

\* VenetHalt frees TCBs and adapter when no sender uses them any more.
NoUseAfterFree ==
  /\ \A t \in Senders : pc[t] \in {"copy", "release", "null_tcb"} => TcbsThere
  /\ \A t \in Senders : pc[t] # "idle" => Present

\* VenetHalt completes what the driver still has before it frees the adapter.
HaltCompletesAll == npc = "halted" => \A n \in Nbl : owner[n] # "driver"

\* SrCancelQueued (sendrcv.c:287, 299-300): "Cancel matching queued NBLs", a
\* "NULL cancelId, which means all".  VenetReset frees "any pending sends".
ResetFreesAll ==
  [][ResetFreeQueued => sendQueue' = <<>>]_vars

\* VenetSetupAdapter (venet.c:400-403): "SET == No Tx in use".
SetMeansNoTx == sendEvent => \A n \in Nbl : tcbBusy[n] = 0

\* SrProcessNBL (sendrcv.c:222-225): "If we're unable to put all NB's on the
\* IOQ, then rewind the state": a list that goes back to the queue holds no TCB.
RewindsOnError ==
  \A i \in DOMAIN sendQueue : tcbBusy[sendQueue[i]] = 0

\* VenetSetSyncFlag (venet.c:87): "Need to sync for setting this state"; a flag
\* that was set is on until its own clear.
ShutdownStays == ppc \in {"quiesce", "down"} => "SHUTDOWN" \in state

\* SrProcessQueue (sendrcv.c:241): "Attempt to process all NBL's": a list the
\* driver accepted is eventually sent or completed.
EveryNblLeaves == \A n \in Nbl : owner[n] = "driver" ~> owner[n] # "driver"

\* VenetQuiesce (venet.c:368): "Wait for any outstanding TX to complete."  So
\* the wait ends.
PauseCompletes == npc = "quiesce" ~> npc = "paused"

\* And when it has ended, nobody is inside SrProcessNBL any more.
PausedMeansIdle == npc = "paused" => \A t \in Senders : ~InProcessNbl(t)

\* VenetFreeTx (venet.c:287): "Busy list.  Sanity check, should be empty".
BusyEmptyAtHalt == npc = "halt_tx" => \A n \in Nbl : tcbBusy[n] = 0
=============================================================================
