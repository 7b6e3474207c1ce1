----------------------------- MODULE EventQueue -----------------------------
(***************************************************************************)
(* The event queue of the bridge driver (vbus/pci.c): the ring of Ioq      *)
(* signalled through the irq of ShmSignal.  The host pushes and signals;   *)
(* the guest drains from whichever context runs the notifier: the PnP/     *)
(* power thread (eventq_init, D0Entry, EvtInterruptEnable) or the DPC of   *)
(* the event queue's interrupt.                                            *)
(*                                                                         *)
(* The framework (external) calls the callbacks in its documented order:   *)
(* PrepareHardware, D0Entry, connect the interrupt, EvtInterruptEnable     *)
(* under the interrupt lock; EvtInterruptDisable, disconnect and flush the *)
(* DPCs, D0Exit.  A queued DPC may start while an earlier one still runs.  *)
(***************************************************************************)
EXTENDS ShmSignal, Ioq

CONSTANTS Power,   \* the PnP/power thread
          Dpcs,    \* processors on which the interrupt's DPC can run
          Host     \* the host's producer

ASSUME ContextAssumption ==
  /\ NorthThreads = Dpcs \cup {Power} /\ Power \notin Dpcs
  /\ SouthThreads = {Host}
  /\ Drainer = NorthThreads

VARIABLES
  pw,      \* how far the framework has brought the device up or down
  dpcq,    \* the interrupt's DPC is queued
  dstep,   \* "wake": a DPC still has to call ShmSignalEnable
  owed,    \* an ioq_signal that follows a drain or a push is still to come
  overlap  \* history: two contexts have drained the ring at once

pnpvars == <<pw, dpcq, dstep>>
vars == <<sigvars, ioqvars, pnpvars, owed, overlap>>

PowerLabels == {"boot", "enabling", "registered", "d0", "connected",
                "unmasking", "on", "flushing", "exited"}

\* t is inside the library, the notifier or a push
Busy(t) == pc[t] # "idle" \/ owed[t] \/ (t \in Drainer /\ Draining(t))

Connected == pw \in {"connected", "unmasking", "on"}

\* the host knows the ring once vbus_pci_eventq_register returned
Registered == pw \notin {"boot", "enabling"}

-----------------------------------------------------------------------------
\* PrepareHardware: eventq_init posts the descriptors and unmasks ...
EventqPost ==
  /\ pw = "boot" /\ Post
  /\ UNCHANGED <<sigvars, pnpvars, owed, overlap>>

EventqNotifyEnable ==
  /\ pw = "boot" /\ initrc = "success"
  /\ pw' = "enabling" /\ ShmSignalEnable(Power)
  /\ UNCHANGED <<ioqvars, dpcq, dstep, owed, overlap>>

\* ... and vbus_pci_eventq_register hands the ring to the host.
EventqRegister ==
  /\ pw = "enabling" /\ ~Busy(Power)
  /\ pw' = "registered"
  /\ UNCHANGED <<sigvars, ioqvars, dpcq, dstep, owed, overlap>>

D0Entry ==
  /\ pw \in {"registered", "exited"} /\ ~Busy(Power)
  /\ pw' = "d0" /\ ShmSignalEnable(Power)
  /\ UNCHANGED <<ioqvars, dpcq, dstep, owed, overlap>>

ConnectInterrupt ==
  /\ pw = "d0" /\ ~Busy(Power)
  /\ pw' = "connected"
  /\ UNCHANGED <<sigvars, ioqvars, dpcq, dstep, owed, overlap>>

\* eventq_intr_enable holds the interrupt lock until it returns
IntrEnable ==
  /\ pw = "connected"
  /\ pw' = "unmasking" /\ ShmSignalEnable(Power)
  /\ UNCHANGED <<ioqvars, dpcq, dstep, owed, overlap>>

IntrEnableReturns ==
  /\ pw = "unmasking" /\ ~Busy(Power)
  /\ pw' = "on"
  /\ UNCHANGED <<sigvars, ioqvars, dpcq, dstep, owed, overlap>>

IntrDisable ==
  /\ pw = "on"
  /\ pw' = "flushing" /\ ShmSignalDisable(Power)
  /\ UNCHANGED <<ioqvars, dpcq, dstep, owed, overlap>>

DpcFree(t) == dstep[t] = "done" /\ ~Busy(t)

\* Mutation: D0Exit leaves the signal as the last DPC left it.
D0ExitUnmasked ==
  /\ pw = "flushing" /\ dpcq = 0 /\ \A t \in Dpcs : DpcFree(t)
  /\ pw' = "exited"
  /\ UNCHANGED <<sigvars, ioqvars, dpcq, dstep, owed, overlap>>

D0Exit ==
  /\ pw = "flushing" /\ dpcq = 0 /\ \A t \in Dpcs : DpcFree(t)
  /\ pw' = "exited" /\ ShmSignalDisable(Power)
  /\ UNCHANGED <<ioqvars, dpcq, dstep, owed, overlap>>

-----------------------------------------------------------------------------
ShmSignalTestEnabled(l) == enabled[l] = 1

\* eventq_intr_isr: one atomic step, under the interrupt lock
EventqIsr ==
  /\ Connected /\ pw # "unmasking" /\ line["north"] = 1
  /\ line' = [line EXCEPT !["north"] = 0]
  /\ IF ShmSignalTestEnabled("north")
     THEN enabled' = [enabled EXCEPT !["north"] = 0] /\ dpcq' = 1
     ELSE UNCHANGED <<enabled, dpcq>>
  /\ UNCHANGED <<pending, dirty, unseen, pc, ioqvars, pw, dstep, owed, overlap>>

\* an interrupt that arrives while no handler is connected goes nowhere
InterruptDropped ==
  /\ ~Connected /\ line["north"] = 1
  /\ line' = [line EXCEPT !["north"] = 0]
  /\ UNCHANGED <<enabled, pending, dirty, unseen, pc, ioqvars, pnpvars, owed, overlap>>

\* eventq_intr_dpc: _ShmSignalWakeup ...
DpcWakeup(t) ==
  /\ dpcq = 1 /\ DpcFree(t)
  /\ dpcq' = 0 /\ dstep' = [dstep EXCEPT ![t] = "wake"]
  /\ CallWakeup(t)
  /\ UNCHANGED <<ioqvars, pw, owed, overlap>>

\* Mutation: the DPC does not unmask the signal again.
DpcNoEnable(t) ==
  /\ dstep[t] = "wake" /\ ~Busy(t)
  /\ dstep' = [dstep EXCEPT ![t] = "done"]
  /\ UNCHANGED <<sigvars, ioqvars, pw, dpcq, owed, overlap>>

\* ... then ShmSignalEnable
DpcEnable(t) ==
  /\ dstep[t] = "wake" /\ ~Busy(t)
  /\ dstep' = [dstep EXCEPT ![t] = "done"]
  /\ ShmSignalEnable(t)
  /\ UNCHANGED <<ioqvars, pw, dpcq, owed, overlap>>

-----------------------------------------------------------------------------
\* Steps inside the library and the callback, in any context.
SignalStep(t) ==
  /\ LibraryStep(t)
  /\ UNCHANGED <<ioqvars, pnpvars, owed, overlap>>

\* notifier->signal -> ioq_shm_signal -> eventq_wakeup
Notify(t) ==
  /\ WakeupNotify(t) /\ DrainBegin(t)
  /\ owed' = [owed EXCEPT ![t] = TRUE]
  /\ overlap' = (overlap \/ \E c \in Drainer : Draining(c))
  /\ UNCHANGED pnpvars

DrainStep(t) ==
  /\ InDrain(t)
  /\ UNCHANGED <<sigvars, pnpvars, owed, overlap>>

\* ioq_signal at the end of eventq_wakeup, and after the host's push.  The guest's
\* ends at the host's mask, which is never lifted here; where it is, the store of
\* eventq_signal_inject through vbus_pci.signals is in VbusBridge.
Signal(t) ==
  /\ owed[t] /\ (t \in Drainer => ~Draining(t))
  /\ ShmSignalInject(t)
  /\ owed' = [owed EXCEPT ![t] = FALSE]
  /\ UNCHANGED <<ioqvars, pnpvars, overlap>>

HostPush ==
  /\ Registered /\ ~Busy(Host)
  /\ HostStep
  /\ owed' = [owed EXCEPT ![Host] = (spc = "s_own")]
  /\ UNCHANGED <<sigvars, pnpvars, overlap>>

-----------------------------------------------------------------------------
Init ==
  /\ SigInit /\ IoqInit
  /\ pw = "boot"
  /\ dpcq = 0
  /\ dstep = [t \in Dpcs |-> "done"]
  /\ owed = [t \in Thread |-> FALSE]
  /\ overlap = FALSE

PowerUp ==
  \/ EventqPost \/ EventqNotifyEnable \/ EventqRegister \/ D0Entry
  \/ ConnectInterrupt \/ IntrEnable \/ IntrEnableReturns

PowerDown == IntrDisable \/ D0Exit

Run(t) == SignalStep(t) \/ Signal(t) \/ (t \in Drainer /\ (Notify(t) \/ DrainStep(t)))

Dpc(t) == DpcWakeup(t) \/ DpcEnable(t)

Next ==
  \/ PowerUp \/ PowerDown \/ EventqIsr \/ InterruptDropped \/ HostPush
  \/ \E t \in Dpcs : Dpc(t)
  \/ \E t \in Thread : Run(t)

Spec == Init /\ [][Next]_vars

\* Every context that is running goes on, the interrupt is taken, a queued DPC
\* runs, a device that is being powered up comes up, and a push that the host
\* began is finished.  Nothing makes the host start a push or the framework
\* power the device down, or up again after that.
Fairness ==
  /\ \A t \in Thread : WF_vars(Run(t))
  /\ \A t \in Dpcs : WF_vars(DpcEnable(t))
  /\ WF_vars(\E t \in Dpcs : DpcWakeup(t))
  /\ WF_vars(EventqIsr)
  /\ WF_vars(pw # "exited" /\ PowerUp)
  /\ WF_vars(D0Exit)
  /\ WF_vars(spc # "s_idle" /\ HostPush)

FairSpec == Spec /\ Fairness

-----------------------------------------------------------------------------
TypeOK ==
  /\ SigTypeOK /\ IoqTypeOK
  /\ pw \in PowerLabels /\ dpcq \in {0, 1}
  /\ dstep \in [Dpcs -> {"wake", "done"}]
  /\ owed \in [Thread -> BOOLEAN] /\ overlap \in BOOLEAN

Quiet ==
  /\ \A t \in Thread : ~Busy(t)
  /\ dpcq = 0 /\ \A t \in Dpcs : DpcFree(t)
  /\ line["north"] = 0 /\ spc = "s_idle"

\* nobody is between clearing dirty and the end of the drain that follows, and
\* the host is not between a push and its signal
Settled ==
  /\ \A t \in Drainer : pc[t] # "wk_notify" /\ ~Draining(t)
  /\ spc = "s_idle" /\ ~owed[Host]

\* An event that is left in the ring is announced by the dirty bit, whatever the ISR,
\* the DPCs and the power callbacks have masked, drained and unmasked in between, and
\* also while the device is off.  That a drain ended just before the event came, or
\* that pending is still set and no interrupt was injected for it, delays the event
\* until the next unmasking and does not hide it.  Two drains at once (DrainAssert)
\* void this: they may move head twice for one event.
LeftIsDirty == Settled /\ ~overlap /\ got # pushed => dirty["north"] = 1

\* The DPC always unmasks what the ISR masked (pci.c:602).
UnmaskedWhenOn == Quiet /\ pw = "on" => enabled["north"] = 1

\* A DPC that runs on into the power-down may unmask the signal after
\* eventq_intr_disable masked it; D0Exit has the last word, so that a device
\* that is off is masked and nobody drains its ring.
MaskedWhenOff ==
  pw = "exited" =>
    enabled["north"] = 0 /\ \A t \in NorthThreads : ~Busy(t)

\* The DPC may be queued again while it runs, yet two DPCs never drain at
\* once: pending stays set after the first interrupt, so the host never
\* injects a second one.
DpcsDoNotOverlap ==
  \A s, t \in Dpcs : Draining(s) /\ Draining(t) => s = t

\* The drain ASSERT (pci.c:398): "ASSERT(ret >= 0)" after ioq_iter_pop.
DrainAssert == \A t \in Drainer : npc[t] # "n_assert"

\* The first event the host pushes is handled, unless the device is powered
\* down: by a notifier that the interrupt, D0Entry or EvtInterruptEnable runs.
FirstEventHandled == pushed >= 1 ~> popped >= 1 \/ pw \in {"flushing", "exited"}

\* ioq_notify_enable (ioq.h:173-178): the notifier is to "receive wakeups
\* whenever the remote side performs an ioq_signal() operation".
EveryEventHandled ==
  \A k \in 1 .. MaxEvents : pushed >= k ~> popped >= k \/ pw \in {"flushing", "exited"}
=============================================================================
