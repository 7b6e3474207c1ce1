------------------------------ MODULE ShmSignal ------------------------------
(***************************************************************************)
(* The shm_signal library (vbus/shm-signal.c): two localities, north (the  *)
(* guest) and south (the host), share one irq structure each.  A locality  *)
(* injects a signal by dirtying the irq of the OTHER locality, and masks,  *)
(* unmasks and acknowledges its OWN irq.                                   *)
(*                                                                         *)
(* The bits live in memory that both sides read and write without a lock,  *)
(* so every load and every store between two memory barriers is a step of  *)
(* its own.  The client is arbitrary: any thread may make any call of the  *)
(* library whenever it is not inside one.                                  *)
(***************************************************************************)

CONSTANTS NorthThreads,   \* contexts that run the library in the guest
          SouthThreads    \* contexts that run the library in the host

ASSUME ThreadsDisjoint == NorthThreads \cap SouthThreads = {}

Thread == NorthThreads \cup SouthThreads

Locality == {"north", "south"}

Other(l) == IF l = "north" THEN "south" ELSE "north"

LocaleOf(t) == IF t \in NorthThreads THEN "north" ELSE "south"

Bit == {0, 1}

VARIABLES
  enabled,   \* irq[l].enabled: locality l wants to be notified
  pending,   \* irq[l].pending: a notification was injected towards l
  dirty,     \* irq[l].dirty: the shared memory changed for l
  line,      \* the injected notification (interrupt or hypercall) not yet taken
  unseen,    \* history: a signal to l after which l's notifier has not run yet
  pc         \* where each thread is inside the library

sigvars == <<enabled, pending, dirty, line, unseen, pc>>

Labels == {"idle",
           "inj_enabled", "inj_pending", "inj_set", "inj_kick",
           "wk_enabled", "wk_dirty", "wk_pending", "wk_clear", "wk_notify"}

Goto(t, from, to) == pc[t] = from /\ pc' = [pc EXCEPT ![t] = to]

(***************************************************************************)
(* ShmSignalInject: mark the remote side dirty whatever its mask, and only *)
(* then look whether it wants, and does not already have, a notification.  *)
(***************************************************************************)
\* Mutation: a side that is masked is not marked.
InjectIfEnabled(t) ==
  LET o == Other(LocaleOf(t)) IN
  /\ Goto(t, "idle", "inj_enabled")
  /\ dirty' = [dirty EXCEPT ![o] = IF enabled[o] = 1 THEN 1 ELSE @]
  /\ unseen' = [unseen EXCEPT ![o] = 1]
  /\ UNCHANGED <<enabled, pending, line>>

ShmSignalInject(t) ==
  LET o == Other(LocaleOf(t)) IN
  /\ Goto(t, "idle", "inj_enabled")
  /\ dirty' = [dirty EXCEPT ![o] = 1]
  /\ unseen' = [unseen EXCEPT ![o] = 1]
  /\ UNCHANGED <<enabled, pending, line>>

InjectTestEnabled(t) ==
  /\ Goto(t, "inj_enabled",
          IF enabled[Other(LocaleOf(t))] = 1 THEN "inj_pending" ELSE "idle")
  /\ UNCHANGED <<enabled, pending, dirty, line, unseen>>

InjectTestPending(t) ==
  /\ Goto(t, "inj_pending",
          IF pending[Other(LocaleOf(t))] = 0 THEN "inj_set" ELSE "idle")
  /\ UNCHANGED <<enabled, pending, dirty, line, unseen>>

InjectSetPending(t) ==
  /\ Goto(t, "inj_set", "inj_kick")
  /\ pending' = [pending EXCEPT ![Other(LocaleOf(t))] = 1]
  /\ UNCHANGED <<enabled, dirty, line, unseen>>

\* s->ops->inject(s): cross the boundary to the other locality
InjectKick(t) ==
  /\ Goto(t, "inj_kick", "idle")
  /\ line' = [line EXCEPT ![Other(LocaleOf(t))] = 1]
  /\ UNCHANGED <<enabled, pending, dirty, unseen>>

(***************************************************************************)
(* Calls on the caller's own irq.  Enable and Eoi both store first and end *)
(* in _ShmSignalWakeup.                                                    *)
(***************************************************************************)
\* Mutation: unmask without looking at what came in while masked.
EnableNoWakeup(t) ==
  /\ pc[t] = "idle"
  /\ enabled' = [enabled EXCEPT ![LocaleOf(t)] = 1]
  /\ UNCHANGED <<pending, dirty, line, unseen, pc>>

ShmSignalEnable(t) ==
  /\ Goto(t, "idle", "wk_enabled")
  /\ enabled' = [enabled EXCEPT ![LocaleOf(t)] = 1]
  /\ UNCHANGED <<pending, dirty, line, unseen>>

ShmSignalDisable(t) ==
  /\ pc[t] = "idle"
  /\ enabled' = [enabled EXCEPT ![LocaleOf(t)] = 0]
  /\ UNCHANGED <<pending, dirty, line, unseen, pc>>

\* Mutation: acknowledge without looking at what came in before.
EoiNoWakeup(t) ==
  /\ pc[t] = "idle"
  /\ pending' = [pending EXCEPT ![LocaleOf(t)] = 0]
  /\ UNCHANGED <<enabled, dirty, line, unseen, pc>>

ShmSignalEoi(t) ==
  /\ Goto(t, "idle", "wk_enabled")
  /\ pending' = [pending EXCEPT ![LocaleOf(t)] = 0]
  /\ UNCHANGED <<enabled, dirty, line, unseen>>

(***************************************************************************)
(* _ShmSignalWakeup: the loads of enabled, dirty and pending in the order  *)
(* C evaluates them; dirty is cleared before the notifier is called.       *)
(***************************************************************************)
CallWakeup(t) ==
  /\ Goto(t, "idle", "wk_enabled")
  /\ UNCHANGED <<enabled, pending, dirty, line, unseen>>

WakeupTestEnabled(t) ==
  /\ Goto(t, "wk_enabled", IF enabled[LocaleOf(t)] = 1 THEN "wk_dirty" ELSE "idle")
  /\ UNCHANGED <<enabled, pending, dirty, line, unseen>>

WakeupTestDirty(t) ==
  /\ Goto(t, "wk_dirty", IF dirty[LocaleOf(t)] = 1 THEN "wk_clear" ELSE "wk_pending")
  /\ UNCHANGED <<enabled, pending, dirty, line, unseen>>

WakeupTestPending(t) ==
  /\ Goto(t, "wk_pending", IF pending[LocaleOf(t)] = 1 THEN "wk_clear" ELSE "idle")
  /\ UNCHANGED <<enabled, pending, dirty, line, unseen>>

\* Mutation: the wakeup takes the notification as no longer in flight.
WakeupClearPending(t) ==
  /\ Goto(t, "wk_clear", "wk_notify")
  /\ dirty' = [dirty EXCEPT ![LocaleOf(t)] = 0]
  /\ pending' = [pending EXCEPT ![LocaleOf(t)] = 0]
  /\ UNCHANGED <<enabled, line, unseen>>

WakeupClear(t) ==
  /\ Goto(t, "wk_clear", "wk_notify")
  /\ dirty' = [dirty EXCEPT ![LocaleOf(t)] = 0]
  /\ UNCHANGED <<enabled, pending, line, unseen>>

\* s->notifier->signal(): the callback reads the shared memory from here on
WakeupNotify(t) ==
  /\ Goto(t, "wk_notify", "idle")
  /\ unseen' = [unseen EXCEPT ![LocaleOf(t)] = 0]
  /\ UNCHANGED <<enabled, pending, dirty, line>>

\* The platform delivers the notification; its handler calls _ShmSignalWakeup
TakeInterrupt(t) ==
  /\ line[LocaleOf(t)] = 1
  /\ line' = [line EXCEPT ![LocaleOf(t)] = 0]
  /\ Goto(t, "idle", "wk_enabled")
  /\ UNCHANGED <<enabled, pending, dirty, unseen>>

-----------------------------------------------------------------------------
\* ShmSignalInit and the zeroing VbusAlloc: every bit is 0
SigInit ==
  /\ enabled = [l \in Locality |-> 0]
  /\ pending = [l \in Locality |-> 0]
  /\ dirty   = [l \in Locality |-> 0]
  /\ line    = [l \in Locality |-> 0]
  /\ unseen  = [l \in Locality |-> 0]
  /\ pc      = [t \in Thread |-> "idle"]

\* the steps a call makes once it is entered, up to the callback
LibraryStep(t) ==
  \/ InjectTestEnabled(t) \/ InjectTestPending(t)
  \/ InjectSetPending(t)  \/ InjectKick(t)
  \/ WakeupTestEnabled(t) \/ WakeupTestDirty(t) \/ WakeupTestPending(t)
  \/ WakeupClear(t)

InCall(t) == LibraryStep(t) \/ WakeupNotify(t)

Call(t) ==
  \/ ShmSignalInject(t)  \/ ShmSignalEnable(t) \/ ShmSignalDisable(t)
  \/ ShmSignalEoi(t)     \/ CallWakeup(t)      \/ TakeInterrupt(t)

SigNext == \E t \in Thread : InCall(t) \/ Call(t)

SigSpec == SigInit /\ [][SigNext]_sigvars

-----------------------------------------------------------------------------
SigTypeOK ==
  /\ enabled \in [Locality -> Bit]
  /\ pending \in [Locality -> Bit]
  /\ dirty   \in [Locality -> Bit]
  /\ line    \in [Locality -> Bit]
  /\ unseen  \in [Locality -> Bit]
  /\ pc      \in [Thread -> Labels]

\* a thread of the other locality is between dirtying l and deciding to kick
Injecting(l) ==
  \E t \in Thread : /\ LocaleOf(t) # l
                    /\ pc[t] \in {"inj_enabled", "inj_pending", "inj_set"}

\* a thread of l is on the way from its store to the clearing of dirty
WakingUp(l) ==
  \E t \in Thread : /\ LocaleOf(t) = l
                    /\ pc[t] \in {"wk_enabled", "wk_dirty", "wk_clear"}

AboutToNotify(l) == \E t \in Thread : LocaleOf(t) = l /\ pc[t] = "wk_notify"

\* Clearing dirty before the callback (shm-signal.c:122-126) loses no signal:
\* one that the notifier has not seen is still marked dirty, or the notifier
\* is just about to run.
UnseenIsDirty ==
  \A l \in Locality : unseen[l] = 1 => dirty[l] = 1 \/ AboutToNotify(l)

\* The store/load handshake of ShmSignalEnable and ShmSignalInject: whichever
\* order the two sides run in, a dirty and unmasked locality has a
\* notification pending or somebody still about to find the dirty bit.
DirtyIsCovered ==
  \A l \in Locality :
    dirty[l] = 1 /\ enabled[l] = 1 => pending[l] = 1 \/ Injecting(l) \/ WakingUp(l)

SigInv == SigTypeOK /\ UnseenIsDirty /\ DirtyIsCovered

\* No lost wakeup: when nobody is inside the library and locality l is
\* unmasked, a signal that l's notifier has not seen has a notification
\* pending (ioq.h:173-178).
NoLostSignal ==
  (\A t \in Thread : pc[t] = "idle") =>
    \A l \in Locality : unseen[l] = 1 /\ enabled[l] = 1 => pending[l] = 1
=============================================================================
