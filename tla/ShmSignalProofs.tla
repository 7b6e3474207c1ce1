--------------------------- MODULE ShmSignalProofs ---------------------------
(***************************************************************************)
(* The shm_signal library loses no signal, whatever the number of contexts *)
(* on either side.  SigInv is inductive as it stands; each action gets one *)
(* step, and under it one step per conjunct that it can disturb.           *)
(***************************************************************************)
EXTENDS ShmSignal, TLAPS

\* Every call and every step inside a call keeps the bits bits and the
\* program counters labels of shm-signal.c.
LEMMA TypePreserved ==
  ASSUME SigTypeOK, NEW t \in Thread, InCall(t) \/ Call(t)
  PROVE  SigTypeOK'
<1> USE DEF SigTypeOK, Goto, Bit, Locality, Labels, Other, LocaleOf
<1>1. CASE ShmSignalInject(t)    BY <1>1 DEF ShmSignalInject
<1>2. CASE InjectTestEnabled(t)  BY <1>2 DEF InjectTestEnabled
<1>3. CASE InjectTestPending(t)  BY <1>3 DEF InjectTestPending
<1>4. CASE InjectSetPending(t)   BY <1>4 DEF InjectSetPending
<1>5. CASE InjectKick(t)         BY <1>5 DEF InjectKick
<1>6. CASE ShmSignalEnable(t)    BY <1>6 DEF ShmSignalEnable
<1>7. CASE ShmSignalDisable(t)   BY <1>7 DEF ShmSignalDisable
<1>8. CASE ShmSignalEoi(t)       BY <1>8 DEF ShmSignalEoi
<1>9. CASE CallWakeup(t)         BY <1>9 DEF CallWakeup
<1>10. CASE WakeupTestEnabled(t) BY <1>10 DEF WakeupTestEnabled
<1>11. CASE WakeupTestDirty(t)   BY <1>11 DEF WakeupTestDirty
<1>12. CASE WakeupTestPending(t) BY <1>12 DEF WakeupTestPending
<1>13. CASE WakeupClear(t)       BY <1>13 DEF WakeupClear
<1>14. CASE WakeupNotify(t)      BY <1>14 DEF WakeupNotify
<1>15. CASE TakeInterrupt(t)     BY <1>15 DEF TakeInterrupt
<1> QED BY <1>1, <1>2, <1>3, <1>4, <1>5, <1>6, <1>7, <1>8, <1>9, <1>10,
           <1>11, <1>12, <1>13, <1>14, <1>15 DEF InCall, LibraryStep, Call

\* The notifier clears dirty before it reads the shared memory, so a signal is
\* either still marked or about to be seen (shm-signal.c:122-126).
LEMMA UnseenPreserved ==
  ASSUME SigTypeOK, UnseenIsDirty, NEW t \in Thread, InCall(t) \/ Call(t)
  PROVE  UnseenIsDirty'
<1> USE DEF SigTypeOK, Goto, Bit, Locality, Labels, Other, LocaleOf,
            UnseenIsDirty, AboutToNotify
<1>1. CASE ShmSignalInject(t)    BY <1>1 DEF ShmSignalInject
<1>2. CASE InjectTestEnabled(t)  BY <1>2 DEF InjectTestEnabled
<1>3. CASE InjectTestPending(t)  BY <1>3 DEF InjectTestPending
<1>4. CASE InjectSetPending(t)   BY <1>4 DEF InjectSetPending
<1>5. CASE InjectKick(t)         BY <1>5 DEF InjectKick
<1>6. CASE ShmSignalEnable(t)    BY <1>6 DEF ShmSignalEnable
<1>7. CASE ShmSignalDisable(t)   BY <1>7 DEF ShmSignalDisable
<1>8. CASE ShmSignalEoi(t)       BY <1>8 DEF ShmSignalEoi
<1>9. CASE CallWakeup(t)         BY <1>9 DEF CallWakeup
<1>10. CASE WakeupTestEnabled(t) BY <1>10 DEF WakeupTestEnabled
<1>11. CASE WakeupTestDirty(t)   BY <1>11 DEF WakeupTestDirty
<1>12. CASE WakeupTestPending(t) BY <1>12 DEF WakeupTestPending
<1>13. CASE WakeupClear(t)
  \* dirty falls, and this very thread is now about to notify
  <2>1. AboutToNotify(LocaleOf(t))' BY <1>13 DEF WakeupClear
  <2> QED BY <1>13, <2>1 DEF WakeupClear
<1>14. CASE WakeupNotify(t)
  \* the callback runs: nothing is unseen on this side any more
  <2>1. unseen'[LocaleOf(t)] = 0 BY <1>14 DEF WakeupNotify
  <2> QED BY <1>14, <2>1 DEF WakeupNotify
<1>15. CASE TakeInterrupt(t)     BY <1>15 DEF TakeInterrupt
<1> QED BY <1>1, <1>2, <1>3, <1>4, <1>5, <1>6, <1>7, <1>8, <1>9, <1>10,
           <1>11, <1>12, <1>13, <1>14, <1>15 DEF InCall, LibraryStep, Call

\* The handshake of Enable (store enabled, then test dirty) and Inject (store
\* dirty, then test enabled): neither side can miss the other's store.
LEMMA CoveredPreserved ==
  ASSUME SigTypeOK, DirtyIsCovered, NEW t \in Thread, InCall(t) \/ Call(t)
  PROVE  DirtyIsCovered'
<1> USE DEF SigTypeOK, Goto, Bit, Locality, Labels, Other, LocaleOf,
            DirtyIsCovered, Injecting, WakingUp
<1>1. CASE ShmSignalInject(t)
  <2>1. Injecting(Other(LocaleOf(t)))' BY <1>1 DEF ShmSignalInject
  <2> QED BY <1>1, <2>1 DEF ShmSignalInject
<1>2. CASE InjectTestEnabled(t)  BY <1>2 DEF InjectTestEnabled
<1>3. CASE InjectTestPending(t)  BY <1>3 DEF InjectTestPending
<1>4. CASE InjectSetPending(t)   BY <1>4 DEF InjectSetPending
<1>5. CASE InjectKick(t)         BY <1>5 DEF InjectKick
<1>6. CASE ShmSignalEnable(t)
  <2>1. WakingUp(LocaleOf(t))' BY <1>6 DEF ShmSignalEnable
  <2> QED BY <1>6, <2>1 DEF ShmSignalEnable
<1>7. CASE ShmSignalDisable(t)   BY <1>7 DEF ShmSignalDisable
<1>8. CASE ShmSignalEoi(t)
  <2>1. WakingUp(LocaleOf(t))' BY <1>8 DEF ShmSignalEoi
  <2> QED BY <1>8, <2>1 DEF ShmSignalEoi
<1>9. CASE CallWakeup(t)         BY <1>9 DEF CallWakeup
<1>10. CASE WakeupTestEnabled(t) BY <1>10 DEF WakeupTestEnabled
<1>11. CASE WakeupTestDirty(t)   BY <1>11 DEF WakeupTestDirty
<1>12. CASE WakeupTestPending(t) BY <1>12 DEF WakeupTestPending
<1>13. CASE WakeupClear(t)       BY <1>13 DEF WakeupClear
<1>14. CASE WakeupNotify(t)      BY <1>14 DEF WakeupNotify
<1>15. CASE TakeInterrupt(t)     BY <1>15 DEF TakeInterrupt
<1> QED BY <1>1, <1>2, <1>3, <1>4, <1>5, <1>6, <1>7, <1>8, <1>9, <1>10,
           <1>11, <1>12, <1>13, <1>14, <1>15 DEF InCall, LibraryStep, Call

\* SigInv holds throughout every execution of shm-signal.c, for any sets of
\* contexts in the guest and in the host.
THEOREM SigInvariance == SigSpec => []SigInv
<1>1. SigInit => SigInv
  BY DEF SigInit, SigInv, SigTypeOK, UnseenIsDirty, DirtyIsCovered, Locality,
         Bit, Labels
<1>2. SigInv /\ [SigNext]_sigvars => SigInv'
  <2> SUFFICES ASSUME SigInv, [SigNext]_sigvars PROVE SigInv'
    OBVIOUS
  <2>1. CASE SigNext
    <3>1. PICK t \in Thread : InCall(t) \/ Call(t) BY <2>1 DEF SigNext
    <3> QED BY <3>1, TypePreserved, UnseenPreserved, CoveredPreserved DEF SigInv
  <2>2. CASE UNCHANGED sigvars
    BY <2>2 DEF sigvars, SigInv, SigTypeOK, UnseenIsDirty, DirtyIsCovered,
                AboutToNotify, Injecting, WakingUp
  <2> QED BY <2>1, <2>2
<1> QED BY <1>1, <1>2, PTL DEF SigSpec

\* No wakeup is ever lost: with nobody inside the library, an unseen signal to
\* an unmasked locality has its notification pending (ioq.h:173-178).
THEOREM NoSignalIsLost == SigSpec => []NoLostSignal
<1>1. SigInv => NoLostSignal
  BY DEF SigInv, UnseenIsDirty, DirtyIsCovered, AboutToNotify, Injecting,
         WakingUp, NoLostSignal
<1> QED BY <1>1, SigInvariance, PTL
=============================================================================
