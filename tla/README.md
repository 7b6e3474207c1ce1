# AlacrityVM guest drivers: TLA+ models and proofs

This directory holds TLA+ specifications of the Windows guest drivers in
`src/windows`: the `vbus` bridge driver, the shared-memory libraries it is built
on, and the `venet` NDIS miniport. The modules are translated from the source.
`PROJECT.json` maps each definition to the lines it models and lists the runs,
the mutants, the hazards, the findings and the theorems.

## 1. The system

The host exports a bus of virtual devices. The guest sees a PCI bridge; `vbus`
drives it, learns of devices through an event queue and creates a PDO per
device; `venet` is the miniport that binds to an ethernet PDO.

| Part | State | Operations | Interacts with |
|---|---|---|---|
| `vbus/shm-signal.c` | per locality: `enabled`, `pending`, `dirty` in shared memory | Enable, Disable, Eoi, Inject, `_ShmSignalWakeup` | the other side of the boundary, without a lock; calls the notifier |
| `vbus/ioq.c` | two ring indexes (`head`, `tail`, `full`), descriptors with an owner bit | iterators: seek, push, pop; count, full | the other side, through shared memory; shm-signal |
| event queue (`pci.c`) | one ring of `QLEN` events, one signal | `eventq_init`, `eventq_wakeup`, ISR, DPC, interrupt enable/disable, D0 entry/exit | host, framework, child list |
| bridge (`pci.c`) | one static `struct vbus_pci` for all bridges | PrepareHardware in eight steps, cleanup, bridge calls | framework, host |
| child list (`pci.c`, `pdo.c`) | child descriptions, PDOs | `event_devadd`, `event_devdrop`, `VbusCreatePdo` | framework, event queue |
| interface (`interface.c`) | handle in the PDO, IOHs | open, close, create, destroy, call; stubs | venet, bus calls |
| bus calls (`pci.c`) | fast-call page `fastparams`, `fastlock` | `vbus_pci_buscall` | child drivers through the interface, host; the bridge's start replaces the lock |
| device signals (`pci.c`) | list of `_signal`s | `VbusProxyDeviceCall`, `VbusProxyDeviceShm`, their ISR/DPC | unreachable: the proxies always return an error first |
| frame copy (`sendrcv.c`) | a frame's MDL chain, `TCB.data` | `SrCopyFrame` | transmit path |
| transmit path (`sendrcv.c`) | `sendQueue`, `sendingNBL`, TCB pool, `sendEvent` | send, process, cancel | NDIS threads |
| control path (`venet.c`) | state flags | pause, restart, reset, halt, shutdown, surprise removal | transmit path |
| adapter (`venet.c`) | `adapterList`, timers, queues, TCBs | initialize, halt | NDIS, interface |
| OIDs (`oids.c`) | filter, multicast list, lookahead | query, set | NDIS, adapter |
| receive path | none: empty functions | | |

What is hard to get right, and what "correct" means:

* **shm-signal**: two sides store one bit and then load another. No signal may be
  lost, whichever way mask, unmask, acknowledge and inject interleave.
* **ioq**: head, tail, `full` and the owner bits change at different moments, seen
  by the other side in between. Every event is to be dispatched once, in order,
  untorn, and the count is to be right at the wrap.
* **event queue**: the ISR masks, the DPC drains and unmasks, the power thread
  drains as well. No event may be left without its announcement, no two contexts
  may drain at once, and a device that is off is masked.
* **bridge**: any step of a start can fail, the framework cleans up after the
  driver has, and all bridges share one structure. Nothing should leak or be freed
  twice, no pointer should be followed that is not there, and the devices the host
  announces and drops are the children.
* **transmit path**: one thread at a time processes lists, without the lock, in
  order of arrival. No list may be lost or completed twice; the TCB pool may not
  run dry in the middle of a list; every call returns; pause and halt are to find the
  path idle.
* **bus calls**: every child driver uses one page, whose result nothing resets,
  under a lock that every start of the bridge replaces. Each call is to get its
  own answer.
* **frame copy**: five counters are updated in different places while a frame is
  gathered, with the tag to be put in where one MDL may end and another begin.
* **adapter**: the error path of the initialization is the halt itself.
* **OIDs**: each handler checks the length of the caller's buffer its own way. An
  adapter is to have what it last accepted and nothing else.

The drivers' test suite is empty, so comments, asserts and the headers' contracts
are the only statement of intent besides the code.

## 2. Modules

| Module | Models | Kind |
|---|---|---|
| `ShmSignal` | `shm-signal.c` | component |
| `Ioq` | `ioq.c` as the event queue uses it | component |
| `EventChannel` | what the ring promises: a bounded FIFO | abstract specification |
| `EventQueue` | `pci.c`: ISR, DPC, power callbacks; extends `ShmSignal` and `Ioq` | composition |
| `VbusBridge` | `pci.c`, `pdo.c`: start, stop, children | component |
| `BusCall` | `vbus_pci_buscall`, `VbusInterfaceOpen`, `VbusInterfaceCall`; extends `VbusBridge` | composition |
| `VenetSend` | `sendrcv.c`, and pool, flags and control path of `venet.c` | component |
| `VenetAdapter` | `VenetInitialize`, `VenetHalt`, with `interface.c` | component |
| `CopyFrame` | `SrCopyFrame` | algorithm, with a reference definition |
| `Oid` | `oids.c`; extends `VenetAdapter` | composition |
| `ShmSignalProofs`, `IoqProofs`, `EventQueueProofs` | theorems on the signal, the ring, and both under the driver's interrupts | proofs |
| `VbusBridgeProofs`, `BusCallProofs` | theorems on the bridge, and on the calls made over it | proofs |
| `VenetSendProofs`, `CopyFrameProofs`, `OidProofs` | theorems on the miniport; `OidProofs` holds those on `VenetAdapter` too | proofs |
| `MC*` | instances for TLC | |

Definitions with the comment "Mutation:" are plausible bugs; none is
part of a next-state relation. Replacing the definition that follows by one of
them makes TLC report the property that `PROJECT.json` names, which shows that the
property depends on that code.

### ShmSignal

`enabled`, `pending`, `dirty` are the irq structure of each locality; `line` is an
injected notification under way; `unseen` is a history variable: a signal was
injected and the notifier has not run since. Each call is cut at every load and
store: `ShmSignalInject` stores dirty, then `InjectTestEnabled`,
`InjectTestPending`, `InjectSetPending`, `InjectKick`. The wakeup loads `enabled`,
`dirty`, `pending` in C's order, clears dirty and calls the notifier. Clients are
arbitrary. The stores are sequentially consistent because the code puts a
`KeMemoryBarrier` after each of them.

### Ioq

Head, tail and full per index; `sown` and the event (`cell`) per descriptor.
`eventq_init` posts each descriptor in one step, because the host does not know
the ring yet. Then the host's push (test of head, set full, tail, owner) races
with the guest's drain (test owner, handle, zero, test position, head, test and
clear full, owner). Events are numbered, `got` is the last one dispatched,
`pushed` and `popped` count owner flips. `StartDrain` lets one context drain at a
time, which is the contract of the library; `EventQueue` drops it.

The producer is external. It is modelled as a user of the same `ioq_iter_push`
that takes a descriptor only when the owner bit says it may.

### EventQueue

The power thread (`pw`), a DPC that can run on any of `Dpcs`, the ISR and the
host. The callbacks come in the framework's documented order: PrepareHardware,
D0Entry, connect, EvtInterruptEnable under the interrupt lock; and
EvtInterruptDisable, flush of the DPCs, D0Exit. A DPC may be queued again, and
start on another processor, while it runs. `owed` marks the `ioq_signal` that ends
`eventq_wakeup` and follows a push. `overlap` is a history variable: two contexts
have drained at the same time. The host leaves its own side masked, so the guest's
`ioq_signal` sets the dirty bit and ends there; what it does when the host has
unmasked is in `VbusBridge`.

### VbusBridge

`heap` is what is allocated or mapped and still pointed to, by kind; `lost` the kinds
of which something is allocated that nothing points to any more; `vbus_pci` the
static structure; `pnp` the step each bridge has come to. One action per step of
`VbusPciPrepareHardware` that can fail; `OutFail` is its `out_fail` label. The
resources come in any number and order (`vbus_pci_parse_resource`): a port sets
`signals`, a memory resource maps `regs` over what it was before, and a mapping may
fail without an error. The two spin locks of a start have no parent object, so that
they live until the driver is unloaded. A pointer that is followed and not there
sets `fault`, after which nothing happens. `signals` is a port number that
`eventq_signal_inject` uses as an address, so it is never there (`FollowAndWake`). `child` and `pdo` are the framework's child
list, changed by `event_devadd`, `event_devdrop` and `VbusCreatePdo`. The type that
`event_devdrop` leaves uninitialised is any type.

The framework (external) starts and stops one device at a time and calls
EvtDeviceReleaseHardware after a failed EvtDevicePrepareHardware.

### BusCall

`at` is where each child driver is in `vbus_pci_buscall`: the lock, the three
stores to `fastparams`, the doorbell, the load of the result and the release are
steps of their own, interleaved with every step of `VbusBridge`. A field of the
page is the driver that stored it. `fastlock` is the lock object that the static
variable names, created anew by each start (`FastlockFollows`), and `holder` who
holds which lock object: the release reads the variable again.

The doorbell is written to the port whose number is the address of
`vbus_pci.signals`, not to the fastcall port that the structure there holds.
Whether the host listens to that number is settled when the driver is loaded:
`rings`, chosen in `BusInit`. The framework (external) removes a child's driver
before it deletes the PDO, and powers the children down before the bridge.

`BusCall` has one bridge (`BusCallAssumption`); what a second bridge does to the
first is shown by `vbus_bridge_two`. The module is also the run of everything that
`VbusBridge` promises of one bridge.

### VenetSend

A section under `sendLock` is one step; so is each part of `SrProcessNBL`, which
runs without it, as do the TCB routines: the release of a TCB and its look at the
busy list are two steps. A sender that has sent a list without an error goes back to
the head of the loop with the lock (`"relock"`) and takes it again; an NDIS spin lock
is not recursive, so `LockFree` never holds again. (On a uniprocessor kernel acquiring
it only raises the IRQL; the model is of a multiprocessor.) The clear of a flag is a load and a store; so is the set on the
PnP path, which holds the lock in between (`LockFree`). `SrCopyFrame` is reduced
to its result: the caller takes any number but 0 as an error (`CopyBytes`), and 0
as success (`CopyNothing`). `owner` says who has a list. NDIS (external) hands a
list down once, makes no call on a halted adapter and halts a paused one only. The
halt completes what is queued, then `VenetFreeTx` empties the TCB lists (`HaltFreeTx`),
then the adapter is freed (`HaltFreeAdapter`). A sender may still be inside: it gets a
null TCB, or stops where it would touch freed memory (`TcbsThere`, `Present`).
`VenetTxCompletion` and `VenetResetTimerDpc` are no actions: nothing calls the one
and nothing arms the other.

### CopyFrame

One step per MDL of the loop. A byte of the chain is its position in the chain, so
that `data` shows which byte went where; a chain is the sequence of the positions
where its MDLs end, and MDLs may be empty. `Stored`, `Reported` and `Byte` are the
reference: what the data is to hold once `n` bytes of the frame are copied. `data`
has four bytes more than `TCB.data`, to see a store beyond it. NDIS (external)
sends frames that lie within their chain and are no longer than announced.

### VenetAdapter

`phase` is the step of each adapter's initialization or halt, `live` and `tcbs`
what is allocated, `field` the pointers that are set in its `ADAPTER`, the WDFDEVICE
included. The open succeeds on the host for a result of 0 or more, and for the miniport
with 0 only. Without memory `VenetHalt(NULL)` follows a null pointer; so does a halt of an adapter that
never got the interface (`vif.destroy`). Both end in `fault`.

### Oid

`oids` is what requests change in an adapter: `packetFilter`, `lookAhead`,
`mc_size`, `mc_array`. `reply` is the last request with the status and the two
lengths that NDIS is told, `accepted` (history) what the last successful set asked
for. Filters are sets of bits, addresses model values; the bytes a query returns
are left out, their number is kept. The adapter's memory keeps its contents from
one life of an adapter to the next until `VenetAlloc` zeroes it. NDIS (external)
makes requests one at a time and only on a running adapter; `VenetOidRequest` is
synchronous, so each request is one step.

## 3. Runs

Passing runs (`tlc -config X.cfg M`):

| Run | Bounds | Properties |
|---|---|---|
| `shm_signal` | 2 guest contexts, 1 host context | `SigInv`, `NoLostSignal` |
| `ioq` | 3 descriptors, 7 events, 2 drainers | `IoqInv`, `CountAtRest`, `IterationNeverFails`, `InOrder`, `ImplementsChannel` |
| `eventq` | 2 descriptors, 2 events, 2 processors | `LeftIsDirty`, `UnmaskedWhenOn`, `MaskedWhenOff`, `DpcsDoNotOverlap`, `FirstEventHandled` |
| `bus_call` | 1 bridge, 2 devices of 1 type, 2 lock objects, any list of resources | `BridgeInv`, `OnlyLocksAndMappingsLeak`, `FreedOnce`, `SignalIsThere`, `CallInv` (with `PageIsMine`), `AnswerIsOwn`, `OpenGetsItsDevice`, `PreparedIsComplete` |
| `venet_send` | 2 senders, lists of 1 and 2 buffers, 2 TCBs, 2 cancel ids | `SingleProcessor`, `SentInOrder`, `NothingLost`, `NullTcbOnlyAfterFree`, `UnsetMeansInUse`, `SendReturns` |
| `copy_frame` | chains of up to 3 MDLs and 12 bytes, addresses of 3, frames of up to 11, least length 9 | `FrameInv`, `WholeFrame`, `UntaggedIsExact` |
| `oid` | 2 adapters, 2 TCBs, lists of 2 addresses, 5 buffer lengths, an object of each kind | `HaltGivesBack`, `ListedAreLive`, `FreedOnce`, `StartedHaltsSafely`, `OidTypeOK`, `HoldsLastAccepted`, `ReplyContract` |

Why the bounds are enough to be interesting. With one thread on one side and two
on the other, both "two injectors, one waker" and "one injector, two wakers" occur.
Seven events in a ring of three wrap it twice and fill it. Two events and two
descriptors let the host push during a drain and let the ring be full; two
processors let DPCs overlap, if they could. Two TCBs and three buffers run the
pool dry, with chains queued behind one another, a list put back while another
waits, a cancel that passes over a list and a reset that matches two; section 5
proves the safety properties for any number of lists, buffers and TCBs. `MaxEvents` is the only bound on a counter. One bridge is enough for
the bridge's part of `bus_call`, because section 5 proves `BridgeInv` and what
follows from it for any number of them; `vbus_bridge_two` has two. Two devices give two child drivers, which call at once; with two lock objects
every start finds one that is not the current one. A second type would only add
drivers; section 5 covers any number of types. Resources repeat without a bound,
since `lost` is a set of kinds. In `copy_frame` the addresses,
the tag and the padding each begin and end in every MDL of three; section 5 proves
the same for every length. The lengths in `oid` lie below, at and above each limit
that a handler compares with. `oid` and `bus_call` use symmetry and check
invariants only. `eventq` and `venet_send` check liveness and use no
symmetry. Each module's type invariant is checked as well, alone or within `SigInv`,
`IoqInv`, `CallInv`, `FrameInv` and `OidTypeOK`.

Runs that end in a violation compare the code with what a comment, an assert or a
header says; the quotations are in `PROJECT.json` under findings.

| Run | The code disagrees with |
|---|---|
| `eventq_assert` | `pci.c:398`, `ASSERT(ret >= 0)`: power thread and DPC drain at once. |
| `eventq_every` | `ioq.h:175-176`, wakeups "whenever the remote side performs an ioq_signal()": `pending` is never acknowledged. |
| `vbus_bridge_two` | `pci.c:646`: a second bridge that is refused cleans up the first. |
| `venet_send_flags` | `venet.c:87`, "Need to sync": the clears do not. |
| `venet_send_loop` | `sendrcv.c:241`, "Attempt to process all NBL's": after the first success the sender waits for the lock that it holds. |

Deadlock is checked for `ShmSignal` and `Ioq`. The other configurations turn it
off, since those systems may stop: after a failed assert or a followed null
pointer, when the power thread has nothing left to do, when every list was sent.

### Fairness

* `EventQueue!Fairness`: a context that runs goes on (weak fairness of each
  thread's steps: kernel threads and DPCs are scheduled, and no lock is held
  across them but the interrupt lock, which `pw = "unmasking"` models); a queued
  DPC runs; an interrupt that is raised and connected is taken; the framework
  completes a power-up or power-down it has begun; the host completes a push it
  has begun. The host need not produce events and the framework need not power
  the device down or up again.
* `VenetSend!Fairness`: a call that was entered goes on where it can; a sender at a
  lock that is never released cannot, and fairness does not help it. Nobody is made to send,
  cancel, pause or reset. `VenetQuiesce` waits with a timeout of 0, which for
  `NdisWaitEvent` is no timeout at all.

## 4. Other divergences

These properties are stated in the modules and fail too, but no run is kept for
them: each one is a smaller disagreement, or a consequence of one above. To see
the behaviour, name the property in the module's configuration in place of its
own.

| Property | Module | What the source says, and what happens |
|---|---|---|
| `FullIsNotEmpty` | `Ioq` | `ioq.c:95-98`: setting full "may look racy" but cannot become invalid. It can, for a moment; `CountAtRest` shows that it heals. |
| `AllCleanedUp` | `VbusBridge` | `pci.c:646`, "all cleanups": the two spin locks of every start (`pci.c:686`, `691`) are never deleted, and a second memory resource (`pci.c:628`) loses the mapping of the first. `OnlyLocksAndMappingsLeak` says that this is all. |
| `NothingFaults` | `VbusBridge` | `pci.c:37-38`, `regs` "mmio" and `signals` "pio": a mapping that failed is written through (`pci.c:111`), and `signals` is stored through as an address (`pci.c:417`) as soon as the host unmasks its side. `SignalIsThere` says that the third pointer, the signal, is there. |
| `HostMemoryIsLive` | `VbusBridge` | `pci.c:646`, "all cleanups": the host keeps the ring's addresses after the ring is freed. |
| `DropRemovesChild` | `VbusBridge` | `pci.c:292`, "a child with this handle": the handle of a PDO stays 0, so a nonzero one is found in none, and the type in the description that is reported missing is uninitialised. |
| `OpenReturnsHandle` (`BusSpec`) | `BusCall` | `vbus_pci.h:59`, "return value for devh": when the doorbell does not reach the host (`pci.c:128`) the page's 0 reads as success, and the open succeeds without a handle. |
| `TailIsZero` | `CopyFrame` | `sendrcv.c:176`, "zero the tail": a tag counts for four bytes and two are stored, so a tagged frame is sent with two bytes of an earlier one. |
| `FitsTcb` | `CopyFrame` | `venet.h:195`, `data[NIC_BUFFER_SIZE]`: a tagged frame of full size is written two bytes beyond it. |
| `RefusedSetStoresNothing` | `Oid` | `oids.c:170-175`: a lookahead of the right length is stored, and the reply is still `NDIS_STATUS_INVALID_LENGTH`. |
| `SupportedAreAnswered` | `Oid` | `oids.c:27-61`, announced at `venet.c:260`: two of the objects in `VenetSupportedOids` are not answered. |
| `TcbListsLocked` | `VenetSend` | `venet.c:789` and `808`, "Can only be called with sendLock held": `SrProcessNBL` calls both without it. |
| `NoUseAfterFree` | `VenetSend` | `venet.c:368`, `565-573`: the halt frees TCBs and adapter with a sender inside that the pause did not wait for. |
| `HaltCompletesAll` | `VenetSend` | `venet.c:548`, `sendrcv.c:299-300`: the halt completes the first queued list and frees the adapter with the others still queued, or with one in a sender's hand. |
| `BusyEmptyAtHalt` | `VenetSend` | `venet.c:287`, "should be empty": TCBs can be busy when the halt frees them. |
| `ResetFreesAll` | `VenetSend` | `sendrcv.c:299-300`, "means all": only the first match is cancelled. |
| `SetMeansNoTx` | `VenetSend` | `venet.c:400-402`, "SET == No Tx in use": a reset sets the event with TCBs busy. |
| `RewindsOnError` | `VenetSend` | `sendrcv.c:223-224`, "rewind the state": TCBs taken before the error stay taken. |
| `EveryNblLeaves` (`FairSpec`) | `VenetSend` | `sendrcv.c:241`, "process all NBL's": lists can stay queued for ever. |
| `PauseCompletes` (`FairSpec`), `PausedMeansIdle` | `VenetSend` | `venet.c:368`: the wait may never end, or end with a sender still inside. |
| `AllGivenBack` | `VenetAdapter` | `venet.c:554`, "Free resources": the WDFDEVICE of `venet.c:444` is never deleted. `HaltGivesBack` says that it is all that is left. |
| `OpenIsClosed` | `VenetAdapter` | `interface.c:66-68`: the DEVCLOSE call that is to close the device is never made. |

## 5. Proofs

TLAPS checks, for all values of the constants:

* `ShmSignalProofs`: `SigInvariance`, `NoSignalIsLost`. The induction is on
  `SigInv`. `NoLostSignal` speaks only of moments when nobody is inside the
  library, so it is not inductive: `UnseenIsDirty` says that what is unseen is
  dirty or its notifier about to run, and `DirtyIsCovered` that a dirty, unmasked
  locality has a notification pending, or an injector that has not looked yet, or
  a waker on its way to the dirty bit. Assumption: the two sides' threads are
  disjoint.
* `IoqProofs`: `IoqInvariance`, `IterationIsSafe`, `DispatchInOrder`,
  `CountIsExact`, for every ring size and event count. `IoqInv` ties the owner
  bits, the indexes, the contents and `full` to the counters `pushed` and `popped`
  at each point of a push and a pop: the guest owns exactly the `Outstanding`
  slots from `first` on (`OwnersMatch`), they hold the events `popped + 1`,
  `popped + 2`, ... (`ContentsMatch`), indexes run ahead by the descriptor in hand
  (`IndexesFollow`), and `FullMatches` bounds what the racing flag may be. The
  lemmas on `Ahead` and `modulo_inc` carry the arithmetic of the ring. Assumption:
  the ring is not empty; one context drains at a time (`StartDrain`), which
  `eventq_assert` shows the driver does not ensure.
  `RingImplementsChannel` is the step simulation of `EventChannel`: under `IoqInv`
  what the refinement mapping reads off the ring is the run of numbers from
  `got + 1` to `pushed` (`UndeliveredIs`), so `PushOwn` is a Send, `DrainHandle` a
  Deliver, and every other step leaves the channel alone.
* `EventQueueProofs`: `EventQueueTypeCorrect`, `OffIsMasked`, `OnIsUnmasked`,
  `OneDpcDrains`, `EveryEventLeftIsDirty`, for any number of DPC contexts, every ring
  size and event count. Four invariants are stacked. `SigInv` is carried over: every
  step of the composition is a step of the library, the ISR's masking, or leaves
  the library's variables alone (`SigHolds`). `PowerInv` ties `pw` to the mask; it must say who still unmasks
  while a DPC is under way. `OnceInv` follows the one interrupt that a signal
  produces, from the injector through the line and the DPC queue to the DPC: it is
  at one place at a time, because `pending` is never cleared, and that alone is why
  DPCs do not overlap. `RingInv` says that, unless two contexts have drained at once
  (`overlap`), the ring keeps `IoqInv` and an event not dispatched is about to be
  announced, unseen by the notifier, or being drained (`EventIsCovered`); with
  `SigInv`, what is unseen is dirty. The hypothesis is needed: after two drains at once `IoqInv`
  is not an invariant, as `eventq_assert` shows. Assumption: the guest's contexts are
  the DPCs and the power thread, and the host is one context.
* `VbusBridgeProofs`: `BridgeInvariance`, `OnlyLocksAndMappingsAreLost`,
  `NothingIsFreedTwice`, `BridgeTypeCorrect`, for any number of bridges;
  `OneBridgeKeepsItsSignal` for one bridge. `BridgeInv`: what is allocated and not
  lost is exactly what the structure and `fastlock` point to, and the structure is
  zero when every bridge is stopped. That nothing but locks and mappings is lost needs
  `LostInv`: a start finds the pointers to the ring null and they stay so until it
  allocates, so none of them is overwritten. `SignalIsThere` needs `StartInv` and
  `PreparedInv`, which follow what the steps of a start have allocated. The hypothesis
  `Bridges = {b}` is needed: with two bridges, the refused start of the second
  clears the signal under the first, and TLC finds the null pointer.
* `BusCallProofs`: `CallInvariance`, `AnswersAreOwn`, `OpensGetTheirDevice`,
  `CallsKeepTheBridge`, `PreparedBridgeIsComplete`, for any number of devices, types
  and lock objects. The induction on `CallInv` rests on one fact, that a driver
  inside a call keeps the bridge powered: a start, which replaces the lock, cannot
  happen while the lock is held, and so the page belongs to one caller
  (`PageIsMine`). `CallsKeepTheBridge` shows that the composition implements
  `VbusBridge!Spec`, which carries the bridge's theorems over. Assumption: one
  bridge; the null object is no lock, id or driver.
* `VenetSendProofs`: `OneSenderInside`, `CountedTcbsAreThere`, `UnsetIsInUse`,
  `FramesLeaveInOrder`, `NoListIsLost`, `SendTypeCorrect`, for any number of senders
  and lists, any number of buffers in a list and every pool size. `ProcInv`: a sender
  is inside exactly while `sendingNBL` is set, which is tested under the lock, though
  the processing is not under it. `PoolInv`: until the halt frees the lists free and
  busy TCBs add up to `NumTcbs`, and what a sender counted before its first TCB is still there (`Counted`), since only the
  one inside takes any and everybody else gives back. The busy ones are counted as
  the cardinality of a set with an element for each (`Busy`). `QueueInv`: a list the
  driver has is queued or in hand (`PlaceInv`), the queue is sorted by arrival, and
  what is on the bus came before what is in hand, that before what is queued
  (`OrderInv`); `ArrivalInv` makes each number new. A list that is put back goes to
  the front, which is what keeps the order. Assumption: every list has a buffer.
* `OidProofs`: `AdaptersGiveBack`, `ListHoldsLiveAdapters`, `AdaptersFreeOnce`,
  `OnlyFailedStartsFault` on `VenetAdapter`; `OidTypeCorrect`, `LastAcceptedIsHeld`,
  `RepliesKeepContract` on the composition, for any number of adapters, TCBs,
  addresses and buffer lengths and every limit on the multicast list. `AdapterInv`
  is a conjunction over adapters: what is allocated is what the fields point to,
  phase by phase of the start and of the halt that undoes it, but for the WDFDEVICE,
  which may be left from any earlier life. `StoreInv` adds what
  was accepted, which an adapter in set-up has none of: without it the memory given
  back by an earlier adapter would be a counterexample. Assumption: the limit on
  the list is not 0, and the zero address is no address of a list.
* `CopyFrameProofs`: `FrameInvariance`, `FrameIsWhole`, `UntaggedFrameIsExact`, for
  chains of any number of MDLs of any lengths, empty ones included, and for all
  lengths of addresses, frames and buffers. `WholeFrame` speaks of the end only;
  `LoopInv` carries it through the loop: every counter is the function of the
  number of bytes copied that the reference says, and the data is the reference up
  to there. `CopyKeeps` is the step that splits on whether the addresses end in the
  MDL; `LoopEndsKeeps` needs that the frame lies within its chain. Assumption: a
  frame is no longer than `NIC_BUFFER_SIZE`, and the least length leaves room for
  the addresses and a tag.

Only model-checked: the two liveness properties, `FirstEventHandled` and
`SendReturns`. They need fairness and ENABLED, which are out of the prover's reach.
Every other property of a passing run is stated by a theorem. The violations stay
with TLC by their nature: a counterexample is a behaviour.

## 6. Not modelled

* Device signals: `struct _signal`, `VbusProxyDeviceShm`, `VbusProxyDeviceCall`,
  the device ISR and DPC, `event_shmsignal`, `event_shmclose`. Both proxies return
  `STATUS_INVALID_HANDLE` unless `pd->handle` is set, and nothing sets it: no signal
  ever exists, and the code behind that return has no reachable state.
* `VbusInterfaceIoqctl`, `Seek`, `Send`, `Recv`: they log and return 0.
* The receive path and its timer: empty functions.
* `VenetTxCompletion` and `VenetResetTimerDpc`: never called, never armed.
* The numbers and names that OID queries report, the identification strings and
  capabilities of a PDO, registration with WDF and NDIS, logging: nothing the
  drivers do depends on them.
* The copy of shm-signal under `libraries/`, which is not built; packaging; the
  Linux directory, which holds a patch and a spec file.
* Iterator options without a caller (dual index, auto-update, no owner flip,
  absolute seek).

## 7. Plan

1. Done: every part with a state that the drivers can reach; proofs of every
   safety property of the passing runs and of the refinement.
2. Proofs of what the two liveness properties rest on and safety can say: that a
   context inside a call always has a step, and that the measure that
   `SrProcessQueue`'s loop descends on goes down.
3. A composition of `VenetAdapter` with `VenetSend`, so that several adapters come
   and go under their senders.
4. The set of runs stays small: a new question takes the place of a run that a
   theorem or a composition has made redundant.
