-------------------------- MODULE EventQueueProofs --------------------------
(***************************************************************************)
(* The event queue of the bridge, for any number of processors, ring size  *)
(* and number of events.  The library's invariant SigInv carries over to   *)
(* the driver.  The ring's invariant IoqInv does so for as long as no two  *)
(* contexts have drained the ring at once.                                 *)
(***************************************************************************)
EXTENDS EventQueue, ShmSignalProofs, IoqProofs

-----------------------------------------------------------------------------
(***************************************************************************)
(* The contexts, and what a step of one of them leaves alone.              *)
(***************************************************************************)
\* Where each context runs.
LEMMA Contexts ==
  /\ Thread = Drainer \cup {Host} /\ Drainer = Dpcs \cup {Power}
  /\ Host \notin Drainer /\ Power \notin Dpcs
  /\ \A t \in Drainer : LocaleOf(t) = "north" /\ Other(LocaleOf(t)) = "south"
  /\ LocaleOf(Host) = "south" /\ Other(LocaleOf(Host)) = "north"
BY ContextAssumption, ThreadsDisjoint DEF Thread, LocaleOf, Other

RestTypeOK ==
  /\ pw \in PowerLabels /\ dpcq \in {0, 1}
  /\ dstep \in [Dpcs -> {"wake", "done"}]
  /\ owed \in [Thread -> BOOLEAN] /\ overlap \in BOOLEAN
  /\ spc # "s_idle" => pushed < MaxEvents

\* the start of a push is bounded, so that pushed is
TypeInv == SigTypeOK /\ IoqTypeOK /\ RestTypeOK

\* What a step inside the library does, up to the callback.
LEMMA LibraryEffect ==
  ASSUME SigTypeOK, NEW t \in Thread, LibraryStep(t)
  PROVE  /\ pc[t] # "idle" /\ UNCHANGED <<enabled, unseen>>
         /\ \E to \in Labels :
              /\ pc' = [pc EXCEPT ![t] = to]
              /\ to = "inj_set" => pending[Other(LocaleOf(t))] = 0
              /\ to = "inj_kick" => pc[t] = "inj_set"
              /\ IF pc[t] = "inj_set"
                 THEN to = "inj_kick" /\ pending' = [pending EXCEPT ![Other(LocaleOf(t))] = 1]
                 ELSE pending' = pending
              /\ IF pc[t] = "inj_kick"
                 THEN to = "idle" /\ line' = [line EXCEPT ![Other(LocaleOf(t))] = 1]
                 ELSE line' = line
<1> USE DEF Goto, Labels
<1>1. CASE InjectTestEnabled(t)  BY <1>1 DEF InjectTestEnabled
<1>2. CASE InjectTestPending(t)  BY <1>2 DEF InjectTestPending
<1>3. CASE InjectSetPending(t)   BY <1>3 DEF InjectSetPending
<1>4. CASE InjectKick(t)         BY <1>4 DEF InjectKick
<1>5. CASE WakeupTestEnabled(t)  BY <1>5 DEF WakeupTestEnabled
<1>6. CASE WakeupTestDirty(t)    BY <1>6 DEF WakeupTestDirty
<1>7. CASE WakeupTestPending(t)  BY <1>7 DEF WakeupTestPending
<1>8. CASE WakeupClear(t)        BY <1>8 DEF WakeupClear
<1> QED BY <1>1, <1>2, <1>3, <1>4, <1>5, <1>6, <1>7, <1>8 DEF LibraryStep

\* A step inside a drain moves that context alone.
LEMMA DrainEffect ==
  ASSUME NEW c \in Drainer, InDrain(c)
  PROVE  /\ Draining(c) /\ UNCHANGED <<initrc, spc, pushed>>
         /\ \E to : npc' = [npc EXCEPT ![c] = to]
BY DEF InDrain, DrainTest, DrainHandle, DrainClear, PopTest, PopHead, PopTestFull,
       PopClearFull, PopOwn, NorthGoto, Draining, postvars, southvars

\* A step of s inside the library, the callback or the drain.
LEMMA RunEffect ==
  ASSUME TypeInv, NEW s \in Thread, Run(s)
  PROVE  /\ Busy(s) /\ UNCHANGED <<pnpvars, enabled, initrc>>
         /\ \A t \in Thread \ {s} : Busy(t)' <=> Busy(t)
         /\ s # Host => UNCHANGED <<pending["north"], line["north"], pc[Host]>>
<1>t. /\ pc \in [Thread -> Labels] /\ owed \in [Thread -> BOOLEAN]
      /\ npc \in [Drainer -> NorthLabels]
      /\ pending \in [Locality -> Bit] /\ line \in [Locality -> Bit]
  BY DEF TypeInv, SigTypeOK, IoqTypeOK, RestTypeOK
<1>d. Drainer \subseteq Thread /\ Host \in Thread
  BY Contexts
<1>h. s # Host => s \in Drainer /\ Other(LocaleOf(s)) = "south"
  BY Contexts
<1>1. CASE SignalStep(s)
  <2>1. PICK to \in Labels :
          /\ pc' = [pc EXCEPT ![s] = to]
          /\ IF pc[s] = "inj_set"
             THEN to = "inj_kick" /\ pending' = [pending EXCEPT ![Other(LocaleOf(s))] = 1]
             ELSE pending' = pending
          /\ IF pc[s] = "inj_kick"
             THEN to = "idle" /\ line' = [line EXCEPT ![Other(LocaleOf(s))] = 1]
             ELSE line' = line
    BY <1>1, LibraryEffect DEF SignalStep, TypeInv
  <2>2. /\ pc[s] # "idle" /\ UNCHANGED <<enabled, ioqvars, pnpvars, owed>>
    BY <1>1, LibraryEffect DEF SignalStep, TypeInv
  <2>3. UNCHANGED <<npc, initrc>>
    BY <2>2 DEF ioqvars, northvars, postvars
  <2>4. s # Host => UNCHANGED <<pending["north"], line["north"]>>
    <3>1. /\ pending' = pending \/ pending' = [pending EXCEPT ![Other(LocaleOf(s))] = 1]
          /\ line' = line \/ line' = [line EXCEPT ![Other(LocaleOf(s))] = 1]
      BY <2>1
    <3> QED
      BY <1>h, <1>t, <3>1 DEF Locality
  <2> QED
    BY <1>t, <1>d, <2>1, <2>2, <2>3, <2>4 DEF Busy, Draining
<1>2. CASE Signal(s)
  <2>1. /\ owed[s] /\ pc' = [pc EXCEPT ![s] = "inj_enabled"] /\ owed' = [owed EXCEPT ![s] = FALSE]
        /\ UNCHANGED <<enabled, pending, line, ioqvars, pnpvars>>
    BY <1>2 DEF Signal, ShmSignalInject, Goto
  <2>2. UNCHANGED <<npc, initrc>>
    BY <2>1 DEF ioqvars, northvars, postvars
  <2> QED
    BY <1>t, <1>d, <2>1, <2>2 DEF Busy, Draining
<1>3. CASE s \in Drainer /\ Notify(s)
  <2>1. /\ pc[s] = "wk_notify" /\ pc' = [pc EXCEPT ![s] = "idle"]
        /\ owed' = [owed EXCEPT ![s] = TRUE] /\ npc' = [npc EXCEPT ![s] = "n_test"]
        /\ UNCHANGED <<enabled, pending, line, pnpvars, initrc>>
    BY <1>3 DEF Notify, WakeupNotify, Goto, DrainBegin, NorthGoto, postvars
  <2> QED
    BY <1>t, <1>d, <2>1 DEF Busy, Draining
<1>4. CASE s \in Drainer /\ DrainStep(s)
  <2>1. Draining(s) /\ UNCHANGED <<initrc, enabled, pending, line, pc, owed, pnpvars>>
    BY <1>4, DrainEffect DEF DrainStep, sigvars
  <2>2. PICK to : npc' = [npc EXCEPT ![s] = to]
    BY <1>4, DrainEffect DEF DrainStep
  <2> QED
    BY <1>4, <1>t, <1>d, <2>1, <2>2 DEF Busy, Draining
<1> QED
  BY <1>1, <1>2, <1>3, <1>4 DEF Run

-----------------------------------------------------------------------------
(***************************************************************************)
(* The library's invariant in the driver: two steps are not the library's, *)
(* the ISR, which masks, and an interrupt that goes nowhere.               *)
(***************************************************************************)
\* SigInv survives every step of the driver.
LEMMA NextSig == SigInv /\ [Next]_vars => SigInv'
<1> SUFFICES ASSUME SigInv, [Next]_vars PROVE SigInv'
  OBVIOUS
<1>c. Power \in Thread /\ Dpcs \subseteq Thread /\ Drainer \subseteq Thread
  BY Contexts
<1>l. ASSUME NEW t \in Thread, InCall(t) \/ Call(t) PROVE SigInv'
  BY <1>l, TypePreserved, UnseenPreserved, CoveredPreserved DEF SigInv
<1>u. ASSUME UNCHANGED sigvars PROVE SigInv'
  BY <1>u DEF sigvars, SigInv, SigTypeOK, UnseenIsDirty, DirtyIsCovered,
              AboutToNotify, Injecting, WakingUp
<1>1. CASE UNCHANGED vars
  BY <1>1, <1>u DEF vars
<1>2. CASE PowerUp \/ PowerDown
  <2>1. \/ UNCHANGED sigvars
        \/ ShmSignalEnable(Power) \/ ShmSignalDisable(Power)
    BY <1>2 DEF PowerUp, PowerDown, EventqPost, EventqNotifyEnable, EventqRegister, D0Entry,
                ConnectInterrupt, IntrEnable, IntrEnableReturns, IntrDisable, D0Exit
  <2> QED
    BY <1>c, <1>l, <1>u, <2>1 DEF Call
<1>3. CASE EventqIsr \/ InterruptDropped
  <2>1. /\ UNCHANGED <<pending, dirty, unseen, pc>>
        /\ line' = [line EXCEPT !["north"] = 0]
        /\ enabled' = enabled \/ enabled' = [enabled EXCEPT !["north"] = 0]
    BY <1>3 DEF EventqIsr, InterruptDropped
  <2>2. SigTypeOK'
    BY <2>1 DEF SigInv, SigTypeOK, Bit
  <2>3. UnseenIsDirty'
    BY <2>1 DEF SigInv, UnseenIsDirty, AboutToNotify
  <2>4. \A l \in Locality : enabled'[l] = 1 => enabled[l] = 1
    BY <2>1 DEF SigInv, SigTypeOK, Bit
  <2>5. DirtyIsCovered'
    BY <2>1, <2>4 DEF SigInv, DirtyIsCovered, Injecting, WakingUp
  <2> QED
    BY <2>2, <2>3, <2>5 DEF SigInv
<1>4. CASE HostPush
  BY <1>4, <1>u DEF HostPush
<1>5. ASSUME NEW t \in Dpcs, Dpc(t) PROVE SigInv'
  BY <1>5, <1>c, <1>l DEF Dpc, DpcWakeup, DpcEnable, Call
<1>6. ASSUME NEW t \in Thread, Run(t) PROVE SigInv'
  BY <1>6, <1>l, <1>u DEF Run, SignalStep, Signal, Notify, DrainStep, InCall, Call
<1> QED
  BY <1>1, <1>2, <1>3, <1>4, <1>5, <1>6 DEF Next

\* SigInv holds in the driver, with the framework's callbacks, the ISR and the DPCs
\* as the clients of the library.
LEMMA SigHolds == Spec => []SigInv
<1>1. Init => SigInv
  BY DEF Init, SigInit, SigInv, SigTypeOK, UnseenIsDirty, DirtyIsCovered, Locality, Bit, Labels
<1> QED
  BY <1>1, NextSig, PTL DEF Spec

-----------------------------------------------------------------------------
(***************************************************************************)
(* Type correctness.  The ring stays typed whatever number of contexts     *)
(* drain it.                                                               *)
(***************************************************************************)
\* Every step of the ring keeps its indexes and iterators inside it.
LEMMA RingTypeOKKept ==
  ASSUME IoqTypeOK, spc # "s_idle" => pushed < MaxEvents,
         Post \/ HostStep \/ \E c \in Drainer : DrainBegin(c) \/ InDrain(c)
  PROVE  IoqTypeOK' /\ (spc' # "s_idle" => pushed' < MaxEvents)
<1> USE RingAssumption DEF IoqTypeOK, IdxType, North, South, NorthLabels, SouthLabels, indexvars,
                           postvars, northvars, southvars, HostGoto, NorthGoto
<1> DEFINE Kept == IoqTypeOK' /\ (spc' # "s_idle" => pushed' < MaxEvents)
<1>1. CASE PostDescriptor
  <2>1. CASE MayPush("valid", posted, North)
    <3>1. modulo_inc(tail["valid"]) \in Pos
      BY ModuloIncPos
    <3>2. /\ full' \in [IdxType -> {0, 1}] /\ tail' \in [IdxType -> Pos]
          /\ sown' \in [Pos -> {North, South}]
      BY <1>1, <2>1, <3>1 DEF PostDescriptor
    <3>3. posted' \in 0 .. Count
      BY <1>1, <2>1 DEF PostDescriptor
    <3> QED BY <1>1, <2>1, <3>2, <3>3 DEF PostDescriptor
  <2>2. CASE ~MayPush("valid", posted, North)
    BY <1>1, <2>2 DEF PostDescriptor
  <2> QED BY <2>1, <2>2
<1>2. CASE PostDone      BY <1>2 DEF PostDone
<1>3. CASE HostPrepare   BY <1>3 DEF HostPrepare
<1>4. CASE PushTest      BY <1>4 DEF PushTest
<1>5. CASE PushSetFull   BY <1>5 DEF PushSetFull
<1>6. CASE PushTail      BY <1>6, ModuloIncPos DEF PushTail
<1>7. CASE PushOwn       BY <1>7, ModuloIncPos DEF PushOwn
<1>8. ASSUME NEW c \in Drainer, DrainBegin(c) PROVE Kept
  BY <1>8 DEF DrainBegin
<1>9. ASSUME NEW c \in Drainer, DrainTest(c) PROVE Kept
  BY <1>9 DEF DrainTest
<1>10. ASSUME NEW c \in Drainer, DrainHandle(c) PROVE Kept
  BY <1>10 DEF DrainHandle
<1>11. ASSUME NEW c \in Drainer, DrainClear(c) PROVE Kept
  BY <1>11 DEF DrainClear
<1>12. ASSUME NEW c \in Drainer, PopTest(c) PROVE Kept
  BY <1>12 DEF PopTest
<1>13. ASSUME NEW c \in Drainer, PopHead(c) PROVE Kept
  BY <1>13, ModuloIncPos DEF PopHead
<1>14. ASSUME NEW c \in Drainer, PopTestFull(c) PROVE Kept
  BY <1>14 DEF PopTestFull
<1>15. ASSUME NEW c \in Drainer, PopClearFull(c) PROVE Kept
  BY <1>15 DEF PopClearFull
<1>16. ASSUME NEW c \in Drainer, PopOwn(c) PROVE Kept
  BY <1>16, ModuloIncPos DEF PopOwn
<1> QED BY <1>1, <1>2, <1>3, <1>4, <1>5, <1>6, <1>7, <1>8, <1>9, <1>10, <1>11,
           <1>12, <1>13, <1>14, <1>15, <1>16
        DEF Post, HostStep, InDrain

\* What a step of the driver does to the ring.
LEMMA RingSteps ==
  ASSUME [Next]_vars
  PROVE  \/ UNCHANGED ioqvars
         \/ Post \/ HostStep \/ \E c \in Drainer : DrainBegin(c) \/ InDrain(c)
BY DEF Next, vars, PowerUp, PowerDown, EventqPost, EventqNotifyEnable, EventqRegister, D0Entry,
       ConnectInterrupt, IntrEnable, IntrEnableReturns, IntrDisable, D0Exit, EventqIsr,
       InterruptDropped, HostPush, Dpc, DpcWakeup, DpcEnable, Run, SignalStep, Signal, Notify,
       DrainStep

\* Every step of the driver is typed.
LEMMA NextType == SigInv /\ TypeInv /\ [Next]_vars => TypeInv'
<1> SUFFICES ASSUME SigInv, TypeInv, [Next]_vars PROVE TypeInv'
  OBVIOUS
<1>1. SigTypeOK'
  BY NextSig DEF SigInv
<1>2. IoqTypeOK' /\ (spc' # "s_idle" => pushed' < MaxEvents)
  <2>1. CASE UNCHANGED ioqvars
    BY <2>1 DEF TypeInv, RestTypeOK, IoqTypeOK, ioqvars, indexvars, postvars, northvars, southvars
  <2> QED
    BY <2>1, RingSteps, RingTypeOKKept DEF TypeInv, RestTypeOK
<1>3. pw' \in PowerLabels /\ dpcq' \in {0, 1}
  BY DEF TypeInv, RestTypeOK, PowerLabels, Next, vars, pnpvars, PowerUp, PowerDown, EventqPost,
         EventqNotifyEnable, EventqRegister, D0Entry, ConnectInterrupt, IntrEnable,
         IntrEnableReturns, IntrDisable, D0Exit, EventqIsr, InterruptDropped, HostPush, Dpc,
         DpcWakeup, DpcEnable, Run, SignalStep, Signal, Notify, DrainStep
<1>4. dstep' \in [Dpcs -> {"wake", "done"}]
  <2>1. \/ dstep' = dstep
        \/ \E t \in Dpcs : \E v \in {"wake", "done"} : dstep' = [dstep EXCEPT ![t] = v]
    BY DEF Next, vars, pnpvars, PowerUp, PowerDown, EventqPost,
           EventqNotifyEnable, EventqRegister, D0Entry, ConnectInterrupt, IntrEnable,
           IntrEnableReturns, IntrDisable, D0Exit, EventqIsr, InterruptDropped, HostPush, Dpc,
           DpcWakeup, DpcEnable, Run, SignalStep, Signal, Notify, DrainStep
  <2> QED
    BY <2>1 DEF TypeInv, RestTypeOK
<1>5. owed' \in [Thread -> BOOLEAN]
  <2>1. \/ owed' = owed
        \/ \E t \in Thread : \E v \in BOOLEAN : owed' = [owed EXCEPT ![t] = v]
    <3>1. CASE HostPush
      BY <3>1, Contexts DEF HostPush
    <3>2. CASE ~HostPush
      BY <3>2 DEF Next, vars, pnpvars, PowerUp, PowerDown, EventqPost,
             EventqNotifyEnable, EventqRegister, D0Entry, ConnectInterrupt, IntrEnable,
             IntrEnableReturns, IntrDisable, D0Exit, EventqIsr, InterruptDropped, Dpc,
             DpcWakeup, DpcEnable, Run, SignalStep, Signal, Notify, DrainStep
    <3> QED
      BY <3>1, <3>2
  <2> QED
    BY <2>1 DEF TypeInv, RestTypeOK
<1>6. overlap' \in BOOLEAN
  <2>1. ASSUME NEW t \in Drainer, Notify(t) PROVE overlap' \in BOOLEAN
    BY <2>1 DEF Notify
  <2> QED
    BY <2>1 DEF TypeInv, RestTypeOK, Next, vars, PowerUp, PowerDown, EventqPost,
           EventqNotifyEnable, EventqRegister, D0Entry, ConnectInterrupt, IntrEnable,
           IntrEnableReturns, IntrDisable, D0Exit, EventqIsr, InterruptDropped, HostPush, Dpc,
           DpcWakeup, DpcEnable, Run, SignalStep, Signal, DrainStep
<1> QED
  BY <1>1, <1>2, <1>3, <1>4, <1>5, <1>6 DEF TypeInv, RestTypeOK

\* The typing of the whole driver.
LEMMA TypeHolds == Spec => [](SigInv /\ TypeInv)
<1>1. Init => TypeInv
  <2>1. Init => SigTypeOK /\ IoqTypeOK
    BY RingAssumption
    DEF Init, SigInit, SigTypeOK, IoqInit, IoqTypeOK, Locality, Bit, Labels,
        NorthLabels, SouthLabels, Pos, IdxType, North, South
  <2>2. Init => RestTypeOK
    <3>1. Init => overlap \in BOOLEAN
      BY Zenon DEF Init
    <3> QED
      BY <3>1 DEF Init, IoqInit, RestTypeOK, PowerLabels
  <2> QED
    BY <2>1, <2>2 DEF TypeInv
<1> QED
  BY <1>1, NextType, SigHolds, PTL DEF Spec

\* The driver is type correct, also when two contexts drain the ring at once.
THEOREM EventQueueTypeCorrect == Spec => []TypeOK
<1>1. TypeInv => TypeOK
  BY DEF TypeInv, RestTypeOK, TypeOK
<1> QED
  BY <1>1, TypeHolds, PTL

-----------------------------------------------------------------------------
(***************************************************************************)
(* The power thread.                                                       *)
(***************************************************************************)
\* A push by the host leaves every guest context alone.
LEMMA PushEffect ==
  ASSUME TypeInv, HostPush
  PROVE  /\ \A t \in Drainer : Busy(t)' <=> Busy(t)
         /\ UNCHANGED <<sigvars, pnpvars, npc, initrc>> /\ initrc' = initrc
<1>1. /\ UNCHANGED <<sigvars, pnpvars>> /\ owed' = [owed EXCEPT ![Host] = (spc = "s_own")]
      /\ UNCHANGED <<npc, initrc>>
  BY DEF HostPush, HostStep, HostPrepare, PushTest, PushSetFull, PushTail, PushOwn, northvars,
         postvars
<1>2. \A t \in Drainer : owed'[t] = owed[t]
  BY <1>1, Contexts DEF TypeInv, RestTypeOK
<1> QED
  BY <1>1, <1>2 DEF sigvars, Busy, Draining

\* A call of the library by the power thread leaves the other contexts alone.
LEMMA PowerCallEffect ==
  ASSUME TypeInv, ShmSignalEnable(Power) \/ ShmSignalDisable(Power), UNCHANGED <<ioqvars, dstep, owed>>
  PROVE  /\ \A t \in Dpcs : DpcFree(t)' <=> DpcFree(t)
         /\ UNCHANGED <<pending, line, unseen, initrc, pc[Host]>>
<1>1. /\ pc' = pc \/ pc' = [pc EXCEPT ![Power] = "wk_enabled"]
      /\ UNCHANGED <<pending, line, unseen, npc, initrc>>
  BY DEF ShmSignalEnable, ShmSignalDisable, Goto, ioqvars, northvars, postvars
<1>2. \A t \in Thread \ {Power} : pc'[t] = pc[t]
  BY <1>1, Contexts DEF TypeInv, SigTypeOK
<1>3. Host \in Thread \ {Power} /\ Dpcs \subseteq Thread \ {Power}
  BY Contexts
<1> QED
  BY <1>1, <1>2, <1>3 DEF DpcFree, Busy, Draining

\* While the framework waits for nobody, the power thread is outside the library;
\* a device that is off is masked; one that is on is unmasked, or a DPC will do it.
PowerInv ==
  /\ pw \in {"boot", "registered", "connected", "on", "flushing", "exited"} => ~Busy(Power)
  /\ pw # "boot" => initrc = "success"
  /\ pw = "exited" => enabled["north"] = 0 /\ dpcq = 0 /\ \A t \in Dpcs : DpcFree(t)
  /\ pw \in {"unmasking", "on"} =>
       enabled["north"] = 1 \/ dpcq = 1 \/ \E t \in Dpcs : dstep[t] = "wake"

\* Every step of the driver keeps PowerInv.
LEMMA NextPower == TypeInv /\ PowerInv /\ [Next]_vars => PowerInv'
<1> SUFFICES ASSUME TypeInv, PowerInv, [Next]_vars PROVE PowerInv'
  OBVIOUS
<1>t. /\ pw \in PowerLabels /\ dpcq \in {0, 1} /\ dstep \in [Dpcs -> {"wake", "done"}]
      /\ enabled \in [Locality -> Bit] /\ pc \in [Thread -> Labels] /\ "north" \in Locality
  BY DEF TypeInv, RestTypeOK, SigTypeOK, Locality
<1>c. /\ LocaleOf(Power) = "north" /\ \A t \in Dpcs : LocaleOf(t) = "north"
      /\ Power \in Thread /\ Power \in Drainer /\ Dpcs \subseteq Thread /\ Dpcs \subseteq Drainer
  BY Contexts
\* a step of the power thread outside the library
<1>w. ASSUME UNCHANGED <<sigvars, dpcq, dstep, owed, ioqvars>>
      PROVE  /\ \A t \in Thread : Busy(t)' <=> Busy(t)
             /\ \A t \in Dpcs : DpcFree(t)' <=> DpcFree(t)
             /\ UNCHANGED <<enabled, initrc>>
  BY <1>w, <1>c DEF sigvars, ioqvars, northvars, postvars, Busy, Draining, DpcFree
<1>1. CASE UNCHANGED vars
  BY <1>1, <1>w, <1>c DEF vars, pnpvars, PowerInv
<1>2. CASE EventqPost
  <2>1. UNCHANGED <<pc, npc, owed, enabled, dpcq, dstep, pw>> /\ pw = "boot"
    BY <1>2 DEF EventqPost, Post, PostDescriptor, PostDone, sigvars, pnpvars, northvars
  <2>2. Busy(Power)' <=> Busy(Power)
    BY <2>1 DEF Busy, Draining
  <2> QED
    BY <2>1, <2>2 DEF PowerInv
<1>3. CASE EventqNotifyEnable \/ D0Entry \/ IntrEnable
  <2>1. /\ ShmSignalEnable(Power) /\ UNCHANGED <<ioqvars, dpcq, dstep, owed>>
        /\ pw' \in {"enabling", "d0", "unmasking"}
        /\ pw # "boot" \/ initrc = "success"
    BY <1>3 DEF EventqNotifyEnable, D0Entry, IntrEnable
  <2>2. enabled'["north"] = 1 /\ initrc' = "success"
    BY <1>t, <1>c, <2>1, PowerCallEffect DEF ShmSignalEnable, PowerInv
  <2> QED
    BY <2>1, <2>2 DEF PowerInv
<1>4. CASE EventqRegister \/ ConnectInterrupt \/ IntrEnableReturns
  <2>1. /\ UNCHANGED <<sigvars, ioqvars, dpcq, dstep, owed>> /\ ~Busy(Power)
        /\ pw # "boot" /\ pw' \in {"registered", "connected", "on"}
        /\ pw' = "on" => pw = "unmasking"
    BY <1>4 DEF EventqRegister, ConnectInterrupt, IntrEnableReturns
  <2> QED
    BY <1>w, <1>c, <2>1 DEF PowerInv
<1>5. CASE IntrDisable \/ D0Exit
  <2>1. /\ ShmSignalDisable(Power) /\ UNCHANGED <<ioqvars, dpcq, dstep, owed>>
        /\ pw \in {"on", "flushing"} /\ pw' \in {"flushing", "exited"}
        /\ pw' = "exited" => dpcq = 0 /\ \A t \in Dpcs : DpcFree(t)
    BY <1>5 DEF IntrDisable, D0Exit
  <2>2. enabled'["north"] = 0 /\ UNCHANGED pc /\ initrc' = initrc /\ npc' = npc
    BY <1>t, <1>c, <2>1 DEF ShmSignalDisable, ioqvars, northvars, postvars
  <2>3. ~Busy(Power)'
    BY <2>1, <2>2 DEF PowerInv, Busy, Draining
  <2>4. \A t \in Dpcs : DpcFree(t)' <=> DpcFree(t)
    BY <2>1, PowerCallEffect
  <2> QED
    BY <2>1, <2>2, <2>3, <2>4 DEF PowerInv
<1>6. CASE EventqIsr
  <2>1. /\ UNCHANGED <<pc, npc, owed, initrc, pw, dstep>> /\ pw \notin {"unmasking", "exited"}
        /\ \/ UNCHANGED <<enabled, dpcq>>
           \/ dpcq' = 1
    BY <1>6 DEF EventqIsr, Connected, ioqvars, northvars, postvars
  <2>2. Busy(Power)' <=> Busy(Power)
    BY <2>1 DEF Busy, Draining
  <2> QED
    BY <2>1, <2>2 DEF PowerInv
<1>7. CASE InterruptDropped
  <2>1. UNCHANGED <<pc, npc, owed, initrc, pw, dstep, enabled, dpcq>>
    BY <1>7 DEF InterruptDropped, ioqvars, northvars, postvars, pnpvars
  <2>2. \A t \in Thread : Busy(t)' <=> Busy(t)
    BY <2>1 DEF Busy, Draining
  <2>3. \A t \in Dpcs : DpcFree(t)' <=> DpcFree(t)
    BY <1>c, <2>1, <2>2 DEF DpcFree
  <2> QED
    BY <1>c, <2>1, <2>2, <2>3 DEF PowerInv
<1>8. CASE HostPush
  <2>1. UNCHANGED <<initrc, pw, dstep, enabled, dpcq>> /\ \A t \in Drainer : Busy(t)' <=> Busy(t)
    BY <1>8, PushEffect DEF sigvars, pnpvars
  <2>2. \A t \in Dpcs : DpcFree(t)' <=> DpcFree(t)
    BY <1>c, <2>1 DEF DpcFree
  <2> QED
    BY <1>c, <2>1, <2>2 DEF PowerInv
<1>9. ASSUME NEW t \in Dpcs, Dpc(t) PROVE PowerInv'
  <2>1. /\ pc' = [pc EXCEPT ![t] = "wk_enabled"] /\ UNCHANGED <<npc, owed, initrc, pw>>
    BY <1>9 DEF Dpc, DpcWakeup, DpcEnable, CallWakeup, ShmSignalEnable, Goto, ioqvars, northvars,
                postvars
  <2>2. Busy(Power)' <=> Busy(Power)
    BY <1>t, <1>c, <2>1, Contexts DEF Busy, Draining
  <2>3. pw # "exited"
    BY <1>9 DEF Dpc, DpcWakeup, DpcEnable, PowerInv, DpcFree
  <2>4. enabled'["north"] = 1 \/ dstep'[t] = "wake"
    BY <1>9, <1>t, <1>c DEF Dpc, DpcWakeup, DpcEnable, ShmSignalEnable
  <2> QED
    BY <2>1, <2>2, <2>3, <2>4 DEF PowerInv
<1>10. ASSUME NEW s \in Thread, Run(s) PROVE PowerInv'
  <2>1. /\ Busy(s) /\ UNCHANGED <<pw, dpcq, dstep, enabled, initrc>>
        /\ \A t \in Thread \ {s} : Busy(t)' <=> Busy(t)
    BY <1>10, RunEffect DEF pnpvars
  <2>2. ASSUME ~Busy(Power) PROVE ~Busy(Power)'
    BY <1>c, <2>1, <2>2
  <2>3. ASSUME NEW t \in Dpcs, DpcFree(t) PROVE DpcFree(t)'
    BY <1>c, <2>1, <2>3 DEF DpcFree
  <2> QED
    BY <2>1, <2>2, <2>3 DEF PowerInv
<1> QED
  BY <1>1, <1>2, <1>3, <1>4, <1>5, <1>6, <1>7, <1>8, <1>9, <1>10 DEF Next, PowerUp, PowerDown

\* PowerInv holds throughout.
LEMMA PowerHolds == Spec => []PowerInv
<1>1. Init => PowerInv
  BY Contexts DEF Init, SigInit, IoqInit, PowerInv, Busy, Draining
<1> QED
  BY <1>1, NextPower, TypeHolds, PTL DEF Spec

\* A device that is off is masked and nobody drains its ring, although a DPC may
\* have unmasked it after eventq_intr_disable: D0Exit has the last word.
THEOREM OffIsMasked == Spec => []MaskedWhenOff
<1>1. PowerInv => MaskedWhenOff
  BY ContextAssumption DEF PowerInv, MaskedWhenOff, DpcFree
<1> QED
  BY <1>1, PowerHolds, PTL

\* A device that is on and at rest is unmasked: the DPC unmasks what the ISR masked.
THEOREM OnIsUnmasked == Spec => []UnmaskedWhenOn
<1>1. PowerInv => UnmaskedWhenOn
  BY DEF PowerInv, UnmaskedWhenOn, Quiet, DpcFree
<1> QED
  BY <1>1, PowerHolds, PTL

-----------------------------------------------------------------------------
(***************************************************************************)
(* One interrupt.  Nothing clears pending of the guest, so the host's one  *)
(* thread passes inj_set once; the notification it raises is in one place  *)
(* at a time: about to be kicked, on the line, a queued DPC, a running     *)
(* DPC.                                                                    *)
(***************************************************************************)
NoneStarted == \A t \in Dpcs : DpcFree(t)

OnceInv ==
  /\ \A s, t \in Dpcs : ~DpcFree(s) /\ ~DpcFree(t) => s = t
  /\ pc[Host] = "inj_set" => pending["north"] = 0
  /\ pending["north"] = 0 => pc[Host] # "inj_kick" /\ line["north"] = 0 /\ dpcq = 0 /\ NoneStarted
  /\ pc[Host] = "inj_kick" => line["north"] = 0 /\ dpcq = 0 /\ NoneStarted
  /\ line["north"] = 1 => dpcq = 0 /\ NoneStarted
  /\ dpcq = 1 => NoneStarted

\* Every step of the driver keeps the interrupt in one place.
LEMMA NextOnce == TypeInv /\ OnceInv /\ [Next]_vars => OnceInv'
<1> SUFFICES ASSUME TypeInv, OnceInv, [Next]_vars PROVE OnceInv'
  OBVIOUS
<1>t. /\ pw \in PowerLabels /\ dpcq \in {0, 1} /\ dstep \in [Dpcs -> {"wake", "done"}]
      /\ line \in [Locality -> Bit] /\ pending \in [Locality -> Bit]
      /\ pc \in [Thread -> Labels] /\ "north" \in Locality
  BY DEF TypeInv, RestTypeOK, SigTypeOK, Locality
<1>c. /\ Host \in Thread /\ Host \notin Dpcs /\ Host # Power
      /\ Dpcs \subseteq Thread /\ Dpcs \subseteq Drainer /\ Other(LocaleOf(Host)) = "north"
  BY Contexts
\* a step that moves neither the interrupt nor a DPC that is free
<1>k. ASSUME UNCHANGED <<pending["north"], line["north"], dpcq, pc[Host]>>,
             \A t \in Dpcs : DpcFree(t) => DpcFree(t)'
      PROVE  OnceInv'
  BY <1>k DEF OnceInv, NoneStarted
<1>1. CASE UNCHANGED vars
  BY <1>1, <1>k DEF vars, sigvars, pnpvars, ioqvars, northvars, DpcFree, Busy, Draining
<1>2. CASE PowerUp \/ PowerDown
  <2>1. CASE EventqPost
    <3>1. UNCHANGED <<pending, line, pc, npc, dstep, dpcq, owed>>
      BY <2>1 DEF EventqPost, Post, PostDescriptor, PostDone, northvars, sigvars, pnpvars
    <3> QED
      BY <1>k, <3>1 DEF DpcFree, Busy, Draining
  <2>2. CASE UNCHANGED <<sigvars, ioqvars, dpcq, dstep, owed>>
    BY <1>k, <2>2 DEF sigvars, ioqvars, northvars, DpcFree, Busy, Draining
  <2>3. CASE /\ ShmSignalEnable(Power) \/ ShmSignalDisable(Power)
             /\ UNCHANGED <<ioqvars, dpcq, dstep, owed>>
    BY <1>k, <2>3, PowerCallEffect
  <2> QED
    BY <1>2, <2>1, <2>2, <2>3
    DEF PowerUp, PowerDown, EventqNotifyEnable, EventqRegister, D0Entry, ConnectInterrupt,
        IntrEnable, IntrEnableReturns, IntrDisable, D0Exit
<1>3. CASE EventqIsr
  <2>1. /\ line["north"] = 1 /\ line' = [line EXCEPT !["north"] = 0]
        /\ UNCHANGED <<pending, pc, npc, owed, dstep>>
        /\ dpcq' = dpcq \/ dpcq' = 1
    BY <1>3 DEF EventqIsr, ioqvars, northvars
  <2>2. line'["north"] = 0 /\ \A t \in Dpcs : DpcFree(t)' <=> DpcFree(t)
    BY <1>t, <2>1 DEF DpcFree, Busy, Draining
  <2>3. pending["north"] = 1 /\ pc[Host] # "inj_kick" /\ NoneStarted
    BY <1>t, <2>1 DEF OnceInv, Bit
  <2> QED
    BY <2>1, <2>2, <2>3 DEF OnceInv, NoneStarted
<1>4. CASE InterruptDropped
  <2>1. /\ line' = [line EXCEPT !["north"] = 0]
        /\ UNCHANGED <<pending, pc, npc, owed, dstep, dpcq>>
    BY <1>4 DEF InterruptDropped, ioqvars, northvars, pnpvars
  <2>2. line'["north"] = 0 /\ \A t \in Dpcs : DpcFree(t)' <=> DpcFree(t)
    BY <1>t, <2>1 DEF DpcFree, Busy, Draining
  <2> QED
    BY <2>1, <2>2 DEF OnceInv, NoneStarted
<1>5. CASE HostPush
  <2>1. UNCHANGED <<pending, line, pc, dpcq, dstep>> /\ \A t \in Drainer : Busy(t)' <=> Busy(t)
    BY <1>5, PushEffect DEF sigvars, pnpvars
  <2> QED
    BY <1>c, <1>k, <2>1 DEF DpcFree
<1>6. ASSUME NEW t \in Dpcs, DpcWakeup(t) PROVE OnceInv'
  <2>1. /\ dpcq = 1 /\ dpcq' = 0 /\ pc' = [pc EXCEPT ![t] = "wk_enabled"]
        /\ dstep' = [dstep EXCEPT ![t] = "wake"] /\ UNCHANGED <<pending, line, npc, owed>>
    BY <1>6 DEF DpcWakeup, CallWakeup, Goto, ioqvars, northvars
  <2>2. NoneStarted /\ pending["north"] # 0 /\ line["north"] # 1 /\ pc[Host] # "inj_kick"
    BY <2>1 DEF OnceInv
  <2>3. \A s \in Dpcs \ {t} : DpcFree(s)'
    BY <1>t, <1>c, <2>1, <2>2 DEF NoneStarted, DpcFree, Busy, Draining
  <2>4. pc'[Host] = pc[Host]
    BY <1>t, <1>c, <2>1
  <2> QED
    BY <2>1, <2>2, <2>3, <2>4 DEF OnceInv
<1>7. ASSUME NEW t \in Dpcs, DpcEnable(t) PROVE OnceInv'
  <2>1. /\ dstep[t] = "wake" /\ pc' = [pc EXCEPT ![t] = "wk_enabled"]
        /\ dstep' = [dstep EXCEPT ![t] = "done"] /\ UNCHANGED <<pending, line, npc, owed, dpcq>>
    BY <1>7 DEF DpcEnable, ShmSignalEnable, Goto, ioqvars, northvars
  <2>2. ~DpcFree(t)
    BY <2>1 DEF DpcFree
  <2>3. \A s \in Dpcs : DpcFree(s) => DpcFree(s)'
    BY <1>t, <1>c, <2>1, <2>2 DEF DpcFree, Busy, Draining
  <2>4. pc'[Host] = pc[Host]
    BY <1>t, <1>c, <2>1
  <2> QED
    BY <1>k, <2>1, <2>3, <2>4
<1>8. ASSUME NEW s \in Thread, Run(s) PROVE OnceInv'
  <2>1. /\ Busy(s) /\ UNCHANGED <<dpcq, dstep>>
        /\ \A t \in Thread \ {s} : Busy(t)' <=> Busy(t)
    BY <1>8, RunEffect DEF pnpvars
  <2>2. ASSUME NEW t \in Dpcs, DpcFree(t) PROVE DpcFree(t)'
    BY <1>c, <2>1, <2>2 DEF DpcFree
  <2>3. CASE s # Host
    BY <1>8, <1>k, <2>1, <2>2, <2>3, RunEffect
  <2>4. CASE s = Host /\ SignalStep(Host)
    <3>1. PICK to \in Labels :
            /\ pc' = [pc EXCEPT ![Host] = to]
            /\ to = "inj_set" => pending["north"] = 0
            /\ to = "inj_kick" => pc[Host] = "inj_set"
            /\ IF pc[Host] = "inj_set"
               THEN to = "inj_kick" /\ pending' = [pending EXCEPT !["north"] = 1]
               ELSE pending' = pending
            /\ IF pc[Host] = "inj_kick"
               THEN to = "idle" /\ line' = [line EXCEPT !["north"] = 1]
               ELSE line' = line
      BY <1>c, <2>4, LibraryEffect DEF SignalStep, TypeInv
    <3>2. pc'[Host] = to
      BY <1>t, <1>c, <3>1
    <3>n. ASSUME NoneStarted PROVE NoneStarted'
      BY <2>2, <3>n DEF NoneStarted
    <3>u. \A u, v \in Dpcs : ~DpcFree(u)' /\ ~DpcFree(v)' => u = v
      BY <2>2 DEF OnceInv
    <3>3. CASE pc[Host] = "inj_set"
      <4>1. pending["north"] = 0 /\ pending'["north"] = 1 /\ line' = line /\ to = "inj_kick"
        BY <1>t, <3>1, <3>3 DEF OnceInv
      <4> QED
        BY <2>1, <3>2, <3>n, <3>u, <4>1 DEF OnceInv
    <3>4. CASE pc[Host] = "inj_kick"
      <4>1. pending["north"] # 0 /\ pending' = pending /\ to = "idle" /\ dpcq = 0 /\ NoneStarted
        BY <1>t, <3>1, <3>4 DEF OnceInv
      <4> QED
        BY <2>1, <3>2, <3>n, <3>u, <4>1 DEF OnceInv
    <3>5. CASE pc[Host] \notin {"inj_set", "inj_kick"}
      <4>1. pending' = pending /\ line' = line /\ to # "inj_kick"
        BY <3>1, <3>5
      <4> QED
        BY <2>1, <3>1, <3>2, <3>n, <3>u, <4>1 DEF OnceInv
    <3> QED
      BY <3>3, <3>4, <3>5
  <2>5. CASE s = Host /\ Signal(Host)
    <3>1. pc' = [pc EXCEPT ![Host] = "inj_enabled"] /\ UNCHANGED <<pending, line>>
      BY <2>5 DEF Signal, ShmSignalInject, Goto
    <3>2. pc'[Host] = "inj_enabled"
      BY <1>t, <1>c, <3>1
    <3> QED
      BY <2>1, <2>2, <3>1, <3>2 DEF OnceInv, NoneStarted
  <2> QED
    BY <1>8, <2>3, <2>4, <2>5, Contexts DEF Run
<1> QED
  BY <1>1, <1>2, <1>3, <1>4, <1>5, <1>6, <1>7, <1>8 DEF Next, Dpc

\* OnceInv holds throughout.
LEMMA OnceHolds == Spec => []OnceInv
<1>1. Init => OnceInv
  BY Contexts DEF Init, SigInit, IoqInit, OnceInv, NoneStarted, DpcFree, Busy, Draining, Locality
<1> QED
  BY <1>1, NextOnce, TypeHolds, PTL DEF Spec

\* Two DPCs never drain at once, on however many processors they can run: the
\* host raises the interrupt once.
THEOREM OneDpcDrains == Spec => []DpcsDoNotOverlap
<1>1. OnceInv => DpcsDoNotOverlap
  BY Contexts DEF OnceInv, DpcsDoNotOverlap, DpcFree, Busy
<1> QED
  BY <1>1, OnceHolds, PTL

-----------------------------------------------------------------------------
(***************************************************************************)
(* As long as no two contexts have drained at once, whichever contexts     *)
(* those were, the ring's own invariant holds, and an event that is not    *)
(* dispatched yet is announced, or about to be, or being drained.          *)
(***************************************************************************)
\* No DPC runs before the ring is there.
BootInv == pw = "boot" => dpcq = 0 /\ \A t \in Dpcs : DpcFree(t)

EventIsCovered ==
  pushed # got => owed[Host] \/ unseen["north"] = 1 \/ \E c \in Drainer : Draining(c)

RingInv == ~overlap => IoqInv /\ EventIsCovered

\* Every step of the driver keeps BootInv.
LEMMA NextBoot == TypeInv /\ BootInv /\ [Next]_vars => BootInv'
<1> SUFFICES ASSUME TypeInv, BootInv, [Next]_vars, pw' = "boot"
             PROVE  dpcq' = 0 /\ \A t \in Dpcs : DpcFree(t)'
  BY DEF BootInv
<1>k. ASSUME UNCHANGED <<pc, owed, npc, dpcq, dstep>>, pw = "boot"
      PROVE  dpcq' = 0 /\ \A t \in Dpcs : DpcFree(t)'
  BY <1>k DEF BootInv, DpcFree, Busy, Draining
<1>1. CASE UNCHANGED vars
  BY <1>1, <1>k DEF vars, sigvars, pnpvars, ioqvars, northvars
<1>2. CASE EventqPost \/ InterruptDropped
  BY <1>2, <1>k DEF EventqPost, InterruptDropped, Post, PostDescriptor, PostDone, sigvars,
                    pnpvars, ioqvars, northvars
<1>3. ASSUME NEW s \in Thread, Run(s) PROVE dpcq' = 0 /\ \A t \in Dpcs : DpcFree(t)'
  <2>1. Busy(s) /\ UNCHANGED pnpvars /\ \A t \in Thread \ {s} : Busy(t)' <=> Busy(t)
    BY <1>3, RunEffect
  <2>2. s \notin Dpcs /\ Dpcs \subseteq Thread
    BY <2>1, Contexts DEF BootInv, DpcFree, pnpvars
  <2> QED
    BY <2>1, <2>2 DEF BootInv, DpcFree, pnpvars
<1>4. CASE \E t \in Dpcs : Dpc(t)
  BY <1>4 DEF Dpc, DpcWakeup, DpcEnable, BootInv, DpcFree
<1> QED
  BY <1>1, <1>2, <1>3, <1>4
  DEF Next, PowerUp, PowerDown, EventqNotifyEnable, EventqRegister, D0Entry, ConnectInterrupt,
      IntrEnable, IntrEnableReturns, IntrDisable, D0Exit, EventqIsr, Connected, HostPush,
      Registered, pnpvars

\* As long as drains have not overlapped every step of the driver is a step of the
\* ring with one drainer at a time.
LEMMA RingRefined ==
  ASSUME TypeInv, PowerInv, BootInv, [Next]_vars, ~overlap'
  PROVE  ~overlap /\ [IoqNext]_ioqvars
<1>1. ASSUME NEW c \in Drainer, Notify(c) PROVE ~overlap /\ StartDrain(c)
  <2>1. DrainBegin(c) /\ Busy(c)
    BY <1>1 DEF Notify, WakeupNotify, Goto, Busy
  <2>2. ~overlap /\ \A d \in Drainer : ~Draining(d)
    BY <1>1 DEF Notify, TypeInv, RestTypeOK
  <2>3. initrc = "success"
    BY <2>1, Contexts DEF PowerInv, BootInv, DpcFree
  <2> QED
    BY <2>1, <2>2, <2>3 DEF StartDrain
<1> QED
  BY <1>1 DEF IoqNext, Next, vars, PowerUp, PowerDown, EventqPost, EventqNotifyEnable,
       EventqRegister, D0Entry, ConnectInterrupt, IntrEnable, IntrEnableReturns, IntrDisable,
       D0Exit, EventqIsr, InterruptDropped, HostPush, Dpc, DpcWakeup, DpcEnable, Run, SignalStep,
       Signal, DrainStep

\* A drain ends when it has dispatched everything that was handed over.
LEMMA DrainEndsEmpty ==
  ASSUME IoqInv, NEW c \in Drainer, InDrain(c), ~Draining(c)'
  PROVE  pushed' = got'
<1>1. DrainTest(c)
  BY DEF InDrain, DrainTest, DrainHandle, DrainClear, PopTest, PopHead, PopTestFull,
         PopClearFull, PopOwn, NorthGoto, Draining, IoqInv, IoqTypeOK
<1>2. npc[c] = "n_test" /\ sown[npos[c]] # North /\ UNCHANGED <<pushed, got>>
  BY <1>1 DEF DrainTest, NorthGoto, Draining, IoqInv, IoqTypeOK, southvars
<1>3. initrc = "success" /\ npos[c] = first /\ first \in Pos
  BY <1>2, DrainerIsLive
<1>4. Ahead(first, first) = 0 /\ ~(Ahead(first, first) < Outstanding)
  BY <1>2, <1>3, AheadRange DEF IoqInv, OwnersMatch
<1>5. pushed = popped
  BY <1>4 DEF IoqInv, IoqTypeOK, OwnersMatch, Outstanding
<1>6. \A d \in Drainer : ~Handled(d)
  BY <1>2 DEF IoqInv, DrainerAtFirst, Draining, Handled, Popping
<1> QED
  BY <1>2, <1>5, <1>6 DEF IoqInv, ContentsMatch

\* Every step of the driver keeps RingInv.
LEMMA NextRing == TypeInv /\ PowerInv /\ BootInv /\ RingInv /\ [Next]_vars => RingInv'
<1> SUFFICES ASSUME TypeInv, PowerInv, BootInv, RingInv, [Next]_vars, ~overlap'
             PROVE  IoqInv' /\ EventIsCovered'
  BY DEF RingInv
<1>q. IoqInv /\ EventIsCovered
  BY RingRefined DEF RingInv
<1>i. IoqInv'
  BY <1>q, RingRefined, IoqStepKeepsInv
<1>t. /\ owed \in [Thread -> BOOLEAN] /\ unseen \in [Locality -> Bit] /\ "north" \in Locality
      /\ npc \in [Drainer -> NorthLabels]
  BY DEF TypeInv, RestTypeOK, SigTypeOK, IoqTypeOK, Locality
<1>c. /\ Host \in Thread /\ Other(LocaleOf(Host)) = "north"
      /\ \A t \in Thread \ {Host} : Other(LocaleOf(t)) = "south"
  BY Contexts
<1>k. ASSUME UNCHANGED <<pushed, got, npc, unseen, owed>> PROVE EventIsCovered'
  BY <1>k, <1>q DEF EventIsCovered, Draining
<1>1. CASE UNCHANGED vars
  BY <1>1, <1>i, <1>k DEF vars, sigvars, ioqvars, northvars, southvars
<1>2. CASE \/ PowerUp \/ PowerDown \/ EventqIsr \/ InterruptDropped
           \/ \E t \in Dpcs : Dpc(t)
  <2>1. UNCHANGED <<pushed, got, npc, unseen, owed>>
    BY <1>2 DEF PowerUp, PowerDown, EventqPost, EventqNotifyEnable, EventqRegister, D0Entry,
         ConnectInterrupt, IntrEnable, IntrEnableReturns, IntrDisable, D0Exit, EventqIsr,
         InterruptDropped, Dpc, DpcWakeup, DpcEnable, ShmSignalEnable, ShmSignalDisable,
         CallWakeup, Post, PostDescriptor, PostDone, sigvars, ioqvars, northvars, southvars
  <2> QED
    BY <1>i, <1>k, <2>1
<1>3. CASE HostPush
  <2>1. /\ UNCHANGED <<got, npc, unseen>> /\ owed' = [owed EXCEPT ![Host] = (spc = "s_own")]
        /\ ~owed[Host] /\ (pushed' = pushed \/ spc = "s_own")
    BY <1>3 DEF HostPush, HostStep, HostPrepare, PushTest, PushSetFull, PushTail, PushOwn,
                HostGoto, northvars, sigvars, Busy
  <2>2. owed'[Host] = (spc = "s_own")
    BY <1>t, <1>c, <2>1
  <2> QED
    BY <1>i, <1>q, <2>1, <2>2 DEF EventIsCovered, Draining
<1>4. ASSUME NEW s \in Thread, Run(s) PROVE EventIsCovered'
  <2>1. CASE SignalStep(s)
    <3>1. UNCHANGED <<pushed, got, npc, unseen, owed>>
      BY <2>1, LibraryEffect DEF SignalStep, TypeInv, ioqvars, northvars, southvars
    <3> QED
      BY <1>k, <3>1
  <2>2. CASE Signal(s)
    <3>1. /\ UNCHANGED <<pushed, got, npc>> /\ owed' = [owed EXCEPT ![s] = FALSE]
          /\ unseen' = [unseen EXCEPT ![Other(LocaleOf(s))] = 1]
      BY <2>2 DEF Signal, ShmSignalInject, ioqvars, northvars, southvars
    <3>2. CASE s = Host
      BY <1>t, <1>c, <3>1, <3>2 DEF EventIsCovered
    <3>3. CASE s # Host
      <4>1. owed'[Host] = owed[Host] /\ unseen'["north"] = unseen["north"]
        BY <1>t, <1>c, <3>1, <3>3
      <4> QED
        BY <1>q, <3>1, <4>1 DEF EventIsCovered, Draining
    <3> QED
      BY <3>2, <3>3
  <2>3. CASE s \in Drainer /\ Notify(s)
    <3>1. npc' = [npc EXCEPT ![s] = "n_test"]
      BY <2>3 DEF Notify, DrainBegin, NorthGoto
    <3>2. Draining(s)'
      BY <1>t, <2>3, <3>1 DEF Draining
    <3> QED
      BY <2>3, <3>2 DEF EventIsCovered
  <2>4. CASE s \in Drainer /\ DrainStep(s)
    <3>1. InDrain(s)
      BY <2>4 DEF DrainStep
    <3>2. CASE Draining(s)'
      BY <2>4, <3>2 DEF EventIsCovered
    <3>3. CASE ~Draining(s)'
      BY <1>q, <2>4, <3>1, <3>3, DrainEndsEmpty DEF EventIsCovered
    <3> QED
      BY <3>2, <3>3
  <2> QED
    BY <1>4, <2>1, <2>2, <2>3, <2>4 DEF Run
<1> QED
  BY <1>i, <1>1, <1>2, <1>3, <1>4 DEF Next

\* RingInv holds throughout.
LEMMA RingHolds == Spec => []RingInv
<1>1. Init => BootInv /\ RingInv
  BY InitEstablishes, Contexts
  DEF Init, SigInit, IoqInit, RingInv, BootInv, EventIsCovered, DpcFree, Busy, Draining
<1> QED
  BY <1>1, NextBoot, NextRing, TypeHolds, PowerHolds, PTL DEF Spec

\* An event that is left in the ring is announced by the dirty bit, for every ring
\* size and any number of processors, events, interrupts and power cycles, as long as
\* no two contexts have drained at once: the two dirty bits, the order of unmasking
\* and looking, and the owner bit at which a drain ends leave no gap.
THEOREM EveryEventLeftIsDirty == Spec => []LeftIsDirty
<1>1. SigInv /\ RingInv => LeftIsDirty
  <2> SUFFICES ASSUME SigInv, RingInv, Settled, ~overlap, got # pushed
               PROVE  dirty["north"] = 1
    BY DEF LeftIsDirty
  <2>1. unseen["north"] = 1
    BY DEF Settled, RingInv, EventIsCovered
  <2>2. \A t \in Thread : LocaleOf(t) = "north" => t \in Drainer
    BY Contexts
  <2>3. ~AboutToNotify("north")
    BY <2>2 DEF AboutToNotify, Settled
  <2> QED
    BY <2>1, <2>3 DEF SigInv, UnseenIsDirty, Locality
<1> QED
  BY <1>1, SigHolds, RingHolds, PTL
=============================================================================
