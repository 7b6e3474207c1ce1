----------------------------- MODULE IoqProofs -----------------------------
(***************************************************************************)
(* The ring of ioq.c under one drainer at a time, for every ring size.     *)
(*                                                                         *)
(* IoqInv ties the two indexes, the owner bits and the contents of the     *)
(* slots to the history counters pushed and popped.  The arithmetic of the *)
(* ring is kept in lemmas about Ahead and modulo_inc; PushOwn and PopOwn,  *)
(* the two steps at which a descriptor changes hands, have lemmas of their *)
(* own, and each conjunct of IoqInv has one with a step per action.        *)
(***************************************************************************)
EXTENDS Ioq, SequenceTheorems, TLAPS

\* modulo_inc (ioq.c:37-43) stays inside the ring.
LEMMA ModuloIncPos == \A v \in Pos : modulo_inc(v) \in Pos
  BY RingAssumption DEF Pos, modulo_inc

\* The distance between two slots, and when it is 0.
LEMMA AheadRange ==
  \A h, i \in Pos : /\ Ahead(h, i) \in 0 .. Count - 1
                    /\ Ahead(h, i) = 0 <=> i = h
  BY RingAssumption DEF Pos, Ahead

\* Two slots at the same distance are the same slot.
LEMMA AheadInjective ==
  \A h, i, j \in Pos : Ahead(h, i) = Ahead(h, j) => i = j
  BY RingAssumption DEF Pos, Ahead

\* Moving the oldest slot on brings every other one closer.
LEMMA AheadOfNext ==
  \A h, i \in Pos :
    Ahead(modulo_inc(h), i) = IF i = h THEN Count - 1 ELSE Ahead(h, i) - 1
  BY RingAssumption DEF Pos, Ahead, modulo_inc

\* Moving the newest slot on moves it one further away, or all the way round.
LEMMA NextIsAhead ==
  \A h, s \in Pos :
    Ahead(h, modulo_inc(s)) = IF Ahead(h, s) = Count - 1 THEN 0 ELSE Ahead(h, s) + 1
  BY RingAssumption DEF Pos, Ahead, modulo_inc

\* The host flips the owner bit (ioq.c:131-133): slot spos, with event pushed + 1,
\* joins the outstanding ones at their end.
LEMMA PushOwnHandsOver ==
  ASSUME IoqInv, PushOwn
  PROVE  OwnersMatch' /\ ContentsMatch' /\ FullMatches'
<1> USE RingAssumption, ModuloIncPos, AheadRange
<1>1. /\ spc = "s_own" /\ spc' = "s_idle" /\ pushed' = pushed + 1
      /\ sown' = [sown EXCEPT ![spos] = North] /\ spos' = modulo_inc(spos)
      /\ UNCHANGED <<head, tail, full, cell, posted, initrc, npc, npos, got, popped, first>>
  BY DEF PushOwn, HostGoto, indexvars, postvars, northvars
<1>2. /\ spos \in Pos /\ first \in Pos /\ pushed \in Nat /\ popped \in Nat /\ MaxEvents \in Nat
      /\ pushed < MaxEvents /\ initrc = "success" /\ Count \in Nat /\ Count > 0
      /\ sown \in [Pos -> {North, South}] /\ cell \in [Pos -> Nat]
  BY <1>1 DEF IoqInv, IoqTypeOK, OwnersMatch
<1>3. /\ Outstanding \in 0 .. Count - 1 /\ Ahead(first, spos) = Outstanding
      /\ Outstanding' = Outstanding + 1 /\ Outstanding' \in 1 .. Count
  BY <1>1, <1>2 DEF IoqInv, OwnersMatch, Outstanding
<1>4. \A h, i \in Pos : Ahead(h, i)' = Ahead(h, i)
  BY DEF Ahead
<1>5. OwnersMatch'
  <2>1. spos' = first' <=> Outstanding' \in {0, Count}
    BY <1>1, <1>2, <1>3, NextIsAhead
  <2>2. Outstanding' < Count => Ahead(first, spos)' = Outstanding'
    BY <1>1, <1>2, <1>3, NextIsAhead DEF Ahead
  <2>3. \A i \in Pos : sown'[i] = North <=> Ahead(first, i) < Outstanding'
    <3> SUFFICES ASSUME NEW i \in Pos
                 PROVE  sown'[i] = North <=> Ahead(first, i) < Outstanding'
      OBVIOUS
    <3>1. sown[i] = North <=> Ahead(first, i) < Outstanding
      BY <1>2 DEF IoqInv, OwnersMatch
    <3>2. Ahead(first, i) = Outstanding => i = spos
      BY <1>2, <1>3, AheadInjective
    <3> QED BY <1>1, <1>2, <1>3, <3>1, <3>2
  <2>4. \A c \in Drainer : npc'[c] \notin {"n_idle", "n_test"} => Outstanding' > 0
    BY <1>3
  <2> QED BY <1>1, <1>3, <2>1, <2>2, <2>3, <2>4 DEF OwnersMatch, Ahead, Pos
<1>6. ContentsMatch'
  <2>1. cell[spos] = pushed + 1
    BY <1>1 DEF IoqInv, ContentsMatch
  <2>2. got' = IF \E c \in Drainer : Handled(c)' THEN popped' + 1 ELSE popped'
    BY <1>1 DEF IoqInv, ContentsMatch, Handled, Popping
  <2>3. ASSUME NEW i \in Pos, Ahead(first, i) < Outstanding'
        PROVE  \/ cell'[i] = popped' + 1 + Ahead(first, i)
               \/ i = first /\ \E c \in Drainer : Handled(c)' /\ npc'[c] # "n_clear"
    <3>1. CASE Ahead(first, i) = Outstanding
      <4>1. i = spos BY <1>2, <1>3, <3>1, AheadInjective
      <4> QED BY <1>1, <1>2, <1>3, <2>1, <3>1, <4>1 DEF Outstanding
    <3>2. CASE Ahead(first, i) < Outstanding
      BY <1>1, <3>2 DEF IoqInv, ContentsMatch, Handled, Popping
    <3> QED BY <1>2, <1>3, <2>3, <3>1, <3>2
  <2> QED BY <1>1, <2>2, <2>3 DEF ContentsMatch, Ahead, Pos
<1>7. FullMatches'
  <2>1. Outstanding' = Count => (full["inuse"] = 1 \/ \E c \in Drainer : Popping(c))
    BY <1>1, <1>3 DEF IoqInv, FullMatches, Publishing
  <2>2. (full["inuse"] = 1 /\ \E c \in Drainer : npc[c] = "n_own") => Outstanding' >= 2
    BY <1>1, <1>3 DEF IoqInv, OwnersMatch
  <2> QED BY <1>1, <1>3, <2>1, <2>2 DEF FullMatches, Publishing, Popping
<1> QED BY <1>5, <1>6, <1>7

\* The guest flips it back (ioq.c:163-165): slot first leaves them at their front.
LEMMA PopOwnGivesBack ==
  ASSUME IoqInv, NEW c \in Drainer, PopOwn(c)
  PROVE  OwnersMatch' /\ ContentsMatch' /\ FullMatches'
<1> USE RingAssumption, ModuloIncPos, AheadRange
<1>1. /\ npc[c] = "n_own" /\ npc' = [npc EXCEPT ![c] = "n_test"]
      /\ sown' = [sown EXCEPT ![npos[c]] = South]
      /\ popped' = popped + 1 /\ first' = modulo_inc(first)
      /\ UNCHANGED <<head, tail, full, cell, posted, initrc, got, spc, spos, pushed>>
  BY DEF PopOwn, NorthGoto, indexvars, postvars, southvars
<1>2. /\ spos \in Pos /\ first \in Pos /\ pushed \in Nat /\ popped \in Nat
      /\ initrc = "success" /\ Count \in Nat /\ Count > 0
      /\ sown \in [Pos -> {North, South}] /\ cell \in [Pos -> Nat]
      /\ npc \in [Drainer -> NorthLabels] /\ npos[c] = first /\ Popping(c)
  BY <1>1 DEF IoqInv, IoqTypeOK, IterationNeverFails, Initialising,
              DrainerAtFirst, Draining, Popping
\* c is the only drainer, so after the step nobody is inside a pop
<1>3. \A d \in Drainer : npc'[d] \in {"n_idle", "n_test"}
  BY <1>1, <1>2 DEF IoqInv, DrainerAtFirst, Draining
<1>4. /\ Outstanding \in 1 .. Count /\ Outstanding' = Outstanding - 1
  BY <1>1, <1>2 DEF IoqInv, OwnersMatch, Outstanding
<1>5. \A i \in Pos : Ahead(first', i) = IF i = first THEN Count - 1 ELSE Ahead(first, i) - 1
  BY <1>1, <1>2, AheadOfNext
<1>6. OwnersMatch'
  <2>1. Outstanding' \in 0 .. Count /\ Outstanding' < Count
    BY <1>4, <1>2
  <2>2. Ahead(first', spos) = Outstanding'
    <3>1. CASE Outstanding = Count
      BY <1>2, <1>4, <1>5, <3>1 DEF IoqInv, OwnersMatch
    <3>2. CASE Outstanding < Count
      <4>1. spos # first /\ Ahead(first, spos) = Outstanding
        BY <1>2, <1>4, <3>2 DEF IoqInv, OwnersMatch
      <4> QED BY <1>2, <1>4, <1>5, <4>1
    <3> QED BY <1>4, <3>1, <3>2
  <2>3. spos = first' <=> Outstanding' \in {0, Count}
    BY <1>1, <1>2, <2>1, <2>2
  <2>4. \A i \in Pos : sown'[i] = North <=> Ahead(first', i) < Outstanding'
    <3> SUFFICES ASSUME NEW i \in Pos
                 PROVE  sown'[i] = North <=> Ahead(first', i) < Outstanding'
      OBVIOUS
    <3>1. sown[i] = North <=> Ahead(first, i) < Outstanding
      BY <1>2 DEF IoqInv, OwnersMatch
    <3> QED BY <1>1, <1>2, <1>4, <1>5, <3>1 DEF North, South
  <2>5. spc' # "s_idle" => pushed' < MaxEvents'
    BY <1>1 DEF IoqInv, OwnersMatch
  <2> QED BY <1>1, <1>2, <1>3, <2>1, <2>2, <2>3, <2>4, <2>5
          DEF OwnersMatch, Ahead, Pos
<1>7. ContentsMatch'
  <2>1. got' = popped' BY <1>1, <1>2 DEF IoqInv, ContentsMatch, Handled
  <2>2. ASSUME NEW i \in Pos, Ahead(first', i) < Outstanding'
        PROVE  cell[i] = popped' + 1 + Ahead(first', i)
    <3>1. i # first BY <1>4, <1>5, <2>2
    <3>2. Ahead(first, i) < Outstanding /\ Ahead(first, i) \in Nat
      BY <1>2, <1>4, <1>5, <2>2, <3>1
    <3> QED BY <1>1, <1>2, <1>5, <3>1, <3>2 DEF IoqInv, ContentsMatch
  <2>3. ~\E d \in Drainer : Handled(d)' BY <1>3 DEF Handled, Popping
  <2>4. spc' # "s_idle" => cell'[spos'] = pushed' + 1
    BY <1>1 DEF IoqInv, ContentsMatch
  <2> QED BY <1>1, <2>1, <2>2, <2>3, <2>4 DEF ContentsMatch, Ahead, Pos
<1>8. FullMatches'
  BY <1>1, <1>2, <1>3, <1>4 DEF IoqInv, FullMatches, OwnersMatch, Publishing, Popping
<1> QED BY <1>6, <1>7, <1>8

\* A draining context runs after eventq_init, its iterator on the oldest slot.
LEMMA DrainerIsLive ==
  ASSUME IoqInv, NEW c \in Drainer, npc[c] # "n_idle"
  PROVE  initrc = "success" /\ npos[c] = first /\ first \in Pos
BY DEF IoqInv, IoqTypeOK, IterationNeverFails, Initialising, DrainerAtFirst, Draining

\* While an event is being handled the host, if inside a push, is at another slot.
LEMMA HostIsElsewhere ==
  ASSUME IoqInv, NEW c \in Drainer, npc[c] \notin {"n_idle", "n_test"}, spc # "s_idle"
  PROVE  spos # first
<1>1. Outstanding > 0 /\ Outstanding < Count /\ Count \in Nat
  BY RingAssumption DEF IoqInv, OwnersMatch
<1> QED BY <1>1 DEF IoqInv, OwnersMatch

\* When the drain loop calls ioq_iter_pop, its check (ioq.c:152) succeeds.
LEMMA PopIsAllowed ==
  ASSUME IoqInv, NEW c \in Drainer, npc[c] = "n_pop"
  PROVE  MayPop("inuse", npos[c], North)
<1>1. initrc = "success" /\ npos[c] = first /\ first \in Pos
  BY DrainerIsLive
<1>2. head["inuse"] = first
  BY DEF IoqInv, IndexesFollow, DrainerAtFirst, Draining, Popping
<1>3. sown[first] = North
  <2>1. Outstanding > 0 BY DEF IoqInv, OwnersMatch
  <2> QED BY <1>1, <2>1, AheadRange DEF IoqInv, OwnersMatch
<1> QED BY <1>1, <1>2, <1>3 DEF MayPop

\* Every step keeps indexes and iterators inside the ring.
LEMMA IoqTypeOKPreserved ==
  ASSUME IoqInv, IoqNext PROVE IoqTypeOK'
<1> USE RingAssumption DEF IoqInv, IoqTypeOK, OwnersMatch, IdxType, North,
                           South, NorthLabels, SouthLabels, indexvars,
                           postvars, northvars, southvars, HostGoto, NorthGoto
<1>1. CASE PostDescriptor
  <2>1. CASE MayPush("valid", posted, North)
    <3>1. modulo_inc(tail["valid"]) \in Pos
      BY ModuloIncPos
    <3>2. /\ full' \in [IdxType -> {0, 1}] /\ tail' \in [IdxType -> Pos]
          /\ sown' \in [Pos -> {North, South}]
      BY <1>1, <2>1, <3>1 DEF PostDescriptor
    <3>3. posted' \in 0 .. Count
      BY <1>1, <2>1 DEF PostDescriptor
    <3> QED BY <1>1, <2>1, <3>2, <3>3 DEF PostDescriptor
  <2>2. CASE ~MayPush("valid", posted, North)
    BY <1>1, <2>2 DEF PostDescriptor
  <2> QED BY <2>1, <2>2
<1>2. CASE PostDone      BY <1>2 DEF PostDone
<1>3. CASE HostPrepare   BY <1>3 DEF HostPrepare
<1>4. CASE PushTest      BY <1>4 DEF PushTest
<1>5. CASE PushSetFull   BY <1>5 DEF PushSetFull
<1>6. CASE PushTail      BY <1>6, ModuloIncPos DEF PushTail
<1>7. CASE PushOwn       BY <1>7, ModuloIncPos DEF PushOwn
<1>8. ASSUME NEW c \in Drainer, StartDrain(c) PROVE IoqTypeOK'
  BY <1>8 DEF StartDrain, DrainBegin
<1>9. ASSUME NEW c \in Drainer, DrainTest(c) PROVE IoqTypeOK'
  BY <1>9 DEF DrainTest
<1>10. ASSUME NEW c \in Drainer, DrainHandle(c) PROVE IoqTypeOK'
  BY <1>10 DEF DrainHandle
<1>11. ASSUME NEW c \in Drainer, DrainClear(c) PROVE IoqTypeOK'
  BY <1>11 DEF DrainClear
<1>12. ASSUME NEW c \in Drainer, PopTest(c) PROVE IoqTypeOK'
  BY <1>12 DEF PopTest
<1>13. ASSUME NEW c \in Drainer, PopHead(c) PROVE IoqTypeOK'
  BY <1>13, ModuloIncPos DEF PopHead
<1>14. ASSUME NEW c \in Drainer, PopTestFull(c) PROVE IoqTypeOK'
  BY <1>14 DEF PopTestFull
<1>15. ASSUME NEW c \in Drainer, PopClearFull(c) PROVE IoqTypeOK'
  BY <1>15 DEF PopClearFull
<1>16. ASSUME NEW c \in Drainer, PopOwn(c) PROVE IoqTypeOK'
  BY <1>16, ModuloIncPos DEF PopOwn
<1> QED BY <1>1, <1>2, <1>3, <1>4, <1>5, <1>6, <1>7, <1>8, <1>9, <1>10, <1>11,
           <1>12, <1>13, <1>14, <1>15, <1>16
        DEF IoqNext, Post, HostStep, InDrain

\* MayPush and MayPop hold wherever eventq_init and eventq_wakeup rely on them.
LEMMA IterationNeverFailsPreserved ==
  ASSUME IoqInv, IoqNext PROVE IterationNeverFails'
<1> USE RingAssumption DEF IoqInv, IoqTypeOK, IterationNeverFails,
                           Initialising, NorthLabels, SouthLabels, indexvars,
                           postvars, northvars, southvars, HostGoto, NorthGoto
<1>1. CASE PostDescriptor BY <1>1 DEF PostDescriptor, MayPush, Pos, North, South, IdxType
<1>2. CASE PostDone      BY <1>2 DEF PostDone
<1>3. CASE HostPrepare   BY <1>3 DEF HostPrepare
<1>4. CASE PushTest      BY <1>4 DEF PushTest
<1>5. CASE PushSetFull   BY <1>5 DEF PushSetFull
<1>6. CASE PushTail      BY <1>6 DEF PushTail
<1>7. CASE PushOwn       BY <1>7 DEF PushOwn
<1>8. ASSUME NEW c \in Drainer, StartDrain(c) PROVE IterationNeverFails'
  BY <1>8 DEF StartDrain, DrainBegin
<1>9. ASSUME NEW c \in Drainer, DrainTest(c) PROVE IterationNeverFails'
  BY <1>9 DEF DrainTest
<1>10. ASSUME NEW c \in Drainer, DrainHandle(c) PROVE IterationNeverFails'
  BY <1>10 DEF DrainHandle
<1>11. ASSUME NEW c \in Drainer, DrainClear(c) PROVE IterationNeverFails'
  BY <1>11 DEF DrainClear
<1>12. ASSUME NEW c \in Drainer, PopTest(c) PROVE IterationNeverFails'
  BY <1>12, PopIsAllowed DEF PopTest
<1>13. ASSUME NEW c \in Drainer, PopHead(c) PROVE IterationNeverFails'
  BY <1>13 DEF PopHead
<1>14. ASSUME NEW c \in Drainer, PopTestFull(c) PROVE IterationNeverFails'
  BY <1>14 DEF PopTestFull
<1>15. ASSUME NEW c \in Drainer, PopClearFull(c) PROVE IterationNeverFails'
  BY <1>15 DEF PopClearFull
<1>16. ASSUME NEW c \in Drainer, PopOwn(c) PROVE IterationNeverFails'
  BY <1>16 DEF PopOwn
<1> QED BY <1>1, <1>2, <1>3, <1>4, <1>5, <1>6, <1>7, <1>8, <1>9, <1>10, <1>11,
           <1>12, <1>13, <1>14, <1>15, <1>16
        DEF IoqNext, Post, HostStep, InDrain

\* eventq_init runs alone and leaves every descriptor with the host.
LEMMA InitialisingPreserved ==
  ASSUME IoqInv, IoqNext PROVE Initialising'
<1> USE RingAssumption DEF IoqInv, IoqTypeOK, Initialising, Pos, IdxType,
                           North, South, NorthLabels, SouthLabels, modulo_inc,
                           indexvars, postvars, northvars, southvars,
                           HostGoto, NorthGoto
<1>1. CASE PostDescriptor BY <1>1 DEF PostDescriptor
<1>2. CASE PostDone      BY <1>2 DEF PostDone
<1>3. CASE HostPrepare   BY <1>3 DEF HostPrepare
<1>4. CASE PushTest      BY <1>4 DEF PushTest
<1>5. CASE PushSetFull   BY <1>5 DEF PushSetFull
<1>6. CASE PushTail      BY <1>6 DEF PushTail
<1>7. CASE PushOwn       BY <1>7 DEF PushOwn
<1>8. ASSUME NEW c \in Drainer, StartDrain(c) PROVE Initialising'
  BY <1>8 DEF StartDrain, DrainBegin
<1>9. ASSUME NEW c \in Drainer, DrainTest(c) PROVE Initialising'
  BY <1>9 DEF DrainTest
<1>10. ASSUME NEW c \in Drainer, DrainHandle(c) PROVE Initialising'
  BY <1>10 DEF DrainHandle
<1>11. ASSUME NEW c \in Drainer, DrainClear(c) PROVE Initialising'
  BY <1>11 DEF DrainClear
<1>12. ASSUME NEW c \in Drainer, PopTest(c) PROVE Initialising'
  BY <1>12 DEF PopTest
<1>13. ASSUME NEW c \in Drainer, PopHead(c) PROVE Initialising'
  BY <1>13 DEF PopHead
<1>14. ASSUME NEW c \in Drainer, PopTestFull(c) PROVE Initialising'
  BY <1>14 DEF PopTestFull
<1>15. ASSUME NEW c \in Drainer, PopClearFull(c) PROVE Initialising'
  BY <1>15 DEF PopClearFull
<1>16. ASSUME NEW c \in Drainer, PopOwn(c) PROVE Initialising'
  BY <1>16 DEF PopOwn
<1> QED BY <1>1, <1>2, <1>3, <1>4, <1>5, <1>6, <1>7, <1>8, <1>9, <1>10, <1>11,
           <1>12, <1>13, <1>14, <1>15, <1>16
        DEF IoqNext, Post, HostStep, InDrain

\* Only one context drains, and its iterator moves with first.
LEMMA DrainerAtFirstPreserved ==
  ASSUME IoqInv, IoqNext PROVE DrainerAtFirst'
<1> USE RingAssumption DEF IoqInv, IoqTypeOK, Initialising, DrainerAtFirst,
                           IndexesFollow, Draining, Popping, Pos, IdxType,
                           NorthLabels, SouthLabels, indexvars, postvars,
                           northvars, southvars, HostGoto, NorthGoto
<1>1. CASE PostDescriptor BY <1>1 DEF PostDescriptor
<1>2. CASE PostDone      BY <1>2 DEF PostDone
<1>3. CASE HostPrepare   BY <1>3 DEF HostPrepare
<1>4. CASE PushTest      BY <1>4 DEF PushTest
<1>5. CASE PushSetFull   BY <1>5 DEF PushSetFull
<1>6. CASE PushTail      BY <1>6 DEF PushTail
<1>7. CASE PushOwn       BY <1>7 DEF PushOwn
<1>8. ASSUME NEW c \in Drainer, StartDrain(c) PROVE DrainerAtFirst'
  BY <1>8 DEF StartDrain, DrainBegin
<1>9. ASSUME NEW c \in Drainer, DrainTest(c) PROVE DrainerAtFirst'
  BY <1>9 DEF DrainTest
<1>10. ASSUME NEW c \in Drainer, DrainHandle(c) PROVE DrainerAtFirst'
  BY <1>10 DEF DrainHandle
<1>11. ASSUME NEW c \in Drainer, DrainClear(c) PROVE DrainerAtFirst'
  BY <1>11 DEF DrainClear
<1>12. ASSUME NEW c \in Drainer, PopTest(c) PROVE DrainerAtFirst'
  BY <1>12 DEF PopTest
<1>13. ASSUME NEW c \in Drainer, PopHead(c) PROVE DrainerAtFirst'
  BY <1>13 DEF PopHead
<1>14. ASSUME NEW c \in Drainer, PopTestFull(c) PROVE DrainerAtFirst'
  BY <1>14 DEF PopTestFull
<1>15. ASSUME NEW c \in Drainer, PopClearFull(c) PROVE DrainerAtFirst'
  BY <1>15 DEF PopClearFull
<1>16. ASSUME NEW c \in Drainer, PopOwn(c) PROVE DrainerAtFirst'
  BY <1>16 DEF PopOwn, modulo_inc
<1> QED BY <1>1, <1>2, <1>3, <1>4, <1>5, <1>6, <1>7, <1>8, <1>9, <1>10, <1>11,
           <1>12, <1>13, <1>14, <1>15, <1>16
        DEF IoqNext, Post, HostStep, InDrain

\* head and tail move ahead of the owner bits by one descriptor at most.
LEMMA IndexesFollowPreserved ==
  ASSUME IoqInv, IoqNext PROVE IndexesFollow'
<1> USE RingAssumption DEF IoqInv, IoqTypeOK, Initialising, DrainerAtFirst,
                           IndexesFollow, Draining, Popping, Pos, IdxType,
                           NorthLabels, SouthLabels, indexvars, postvars,
                           northvars, southvars, HostGoto, NorthGoto
<1>1. CASE PostDescriptor BY <1>1 DEF PostDescriptor
<1>2. CASE PostDone      BY <1>2 DEF PostDone
<1>3. CASE HostPrepare   BY <1>3 DEF HostPrepare
<1>4. CASE PushTest      BY <1>4 DEF PushTest
<1>5. CASE PushSetFull   BY <1>5 DEF PushSetFull
<1>6. CASE PushTail      BY <1>6 DEF PushTail
<1>7. CASE PushOwn       BY <1>7 DEF PushOwn
<1>8. ASSUME NEW c \in Drainer, StartDrain(c) PROVE IndexesFollow'
  BY <1>8 DEF StartDrain, DrainBegin
<1>9. ASSUME NEW c \in Drainer, DrainTest(c) PROVE IndexesFollow'
  BY <1>9 DEF DrainTest
<1>10. ASSUME NEW c \in Drainer, DrainHandle(c) PROVE IndexesFollow'
  BY <1>10 DEF DrainHandle
<1>11. ASSUME NEW c \in Drainer, DrainClear(c) PROVE IndexesFollow'
  BY <1>11 DEF DrainClear
<1>12. ASSUME NEW c \in Drainer, PopTest(c) PROVE IndexesFollow'
  BY <1>12 DEF PopTest
<1>13. ASSUME NEW c \in Drainer, PopHead(c) PROVE IndexesFollow'
  BY <1>13 DEF PopHead
<1>14. ASSUME NEW c \in Drainer, PopTestFull(c) PROVE IndexesFollow'
  BY <1>14 DEF PopTestFull
<1>15. ASSUME NEW c \in Drainer, PopClearFull(c) PROVE IndexesFollow'
  BY <1>15 DEF PopClearFull
<1>16. ASSUME NEW c \in Drainer, PopOwn(c) PROVE IndexesFollow'
  BY <1>16 DEF PopOwn
<1> QED BY <1>1, <1>2, <1>3, <1>4, <1>5, <1>6, <1>7, <1>8, <1>9, <1>10, <1>11,
           <1>12, <1>13, <1>14, <1>15, <1>16
        DEF IoqNext, Post, HostStep, InDrain

\* The owner bits say which slots are outstanding.
LEMMA OwnersMatchPreserved ==
  ASSUME IoqInv, IoqNext PROVE OwnersMatch'
<1> USE RingAssumption DEF IoqInv, IoqTypeOK, IterationNeverFails,
                           Initialising, DrainerAtFirst, IndexesFollow,
                           OwnersMatch, Outstanding, Ahead, Draining, Pos,
                           IdxType, North, South, NorthLabels, SouthLabels,
                           indexvars, postvars, northvars, southvars,
                           HostGoto, NorthGoto
<1>1. CASE PostDescriptor BY <1>1 DEF PostDescriptor
<1>2. CASE PostDone      BY <1>2 DEF PostDone
<1>3. CASE HostPrepare   BY <1>3 DEF HostPrepare
<1>4. CASE PushTest      BY <1>4 DEF PushTest
<1>5. CASE PushSetFull   BY <1>5 DEF PushSetFull
<1>6. CASE PushTail      BY <1>6 DEF PushTail
<1>7. CASE PushOwn       BY <1>7, PushOwnHandsOver
<1>8. ASSUME NEW c \in Drainer, StartDrain(c) PROVE OwnersMatch'
  BY <1>8 DEF StartDrain, DrainBegin
<1>9. ASSUME NEW c \in Drainer, DrainTest(c) PROVE OwnersMatch'
  <2>1. initrc = "success" /\ npos[c] = first /\ first \in Pos
    BY <1>9, DrainerIsLive DEF DrainTest
  <2>2. sown[first] = North => Outstanding > 0
    BY <2>1
  <2> QED BY <1>9, <2>1, <2>2 DEF DrainTest
<1>10. ASSUME NEW c \in Drainer, DrainHandle(c) PROVE OwnersMatch'
  BY <1>10 DEF DrainHandle
<1>11. ASSUME NEW c \in Drainer, DrainClear(c) PROVE OwnersMatch'
  BY <1>11 DEF DrainClear
<1>12. ASSUME NEW c \in Drainer, PopTest(c) PROVE OwnersMatch'
  BY <1>12 DEF PopTest
<1>13. ASSUME NEW c \in Drainer, PopHead(c) PROVE OwnersMatch'
  BY <1>13 DEF PopHead
<1>14. ASSUME NEW c \in Drainer, PopTestFull(c) PROVE OwnersMatch'
  BY <1>14 DEF PopTestFull
<1>15. ASSUME NEW c \in Drainer, PopClearFull(c) PROVE OwnersMatch'
  BY <1>15 DEF PopClearFull
<1>16. ASSUME NEW c \in Drainer, PopOwn(c) PROVE OwnersMatch'
  BY <1>16, PopOwnGivesBack
<1> QED BY <1>1, <1>2, <1>3, <1>4, <1>5, <1>6, <1>7, <1>8, <1>9, <1>10, <1>11,
           <1>12, <1>13, <1>14, <1>15, <1>16
        DEF IoqNext, Post, HostStep, InDrain

\* The outstanding slots hold the undelivered events in their order.
LEMMA ContentsMatchPreserved ==
  ASSUME IoqInv, IoqNext PROVE ContentsMatch'
<1> USE RingAssumption DEF IoqInv, IoqTypeOK, Initialising, DrainerAtFirst,
                           IndexesFollow, OwnersMatch, ContentsMatch,
                           Outstanding, Ahead, Draining, Handled, Popping,
                           Pos, IdxType, North, South, NorthLabels,
                           SouthLabels, indexvars, postvars, northvars,
                           southvars, HostGoto, NorthGoto
<1>1. CASE PostDescriptor BY <1>1 DEF PostDescriptor
<1>2. CASE PostDone      BY <1>2 DEF PostDone
<1>3. CASE HostPrepare
  \* the slot it fills is one that the guest does not own
  <2>1. /\ tail["inuse"] = spos /\ spos \in Pos /\ first \in Pos /\ initrc = "success"
        /\ sown[spos] # North
    BY <1>3 DEF HostPrepare
  <2>2. /\ spos' = spos /\ cell' = [cell EXCEPT ![spos] = pushed + 1]
        /\ UNCHANGED <<first, popped, pushed, got, npc>>
    BY <1>3, <2>1 DEF HostPrepare
  <2>3. ~(Ahead(first, spos) < Outstanding)
    BY <2>1
  <2> HIDE DEF Ahead, Outstanding
  <2>4. Outstanding' = Outstanding /\ \A i \in Pos : Ahead(first, i)' = Ahead(first, i)
    BY <2>2 DEF Outstanding, Ahead
  <2>5. \A i \in Pos : Ahead(first, i) < Outstanding => i # spos /\ cell'[i] = cell[i]
    BY <2>2, <2>3
  <2> QED BY <2>1, <2>2, <2>4, <2>5
<1>4. CASE PushTest      BY <1>4 DEF PushTest
<1>5. CASE PushSetFull   BY <1>5 DEF PushSetFull
<1>6. CASE PushTail      BY <1>6 DEF PushTail
<1>7. CASE PushOwn       BY <1>7, PushOwnHandsOver
<1>8. ASSUME NEW c \in Drainer, StartDrain(c) PROVE ContentsMatch'
  BY <1>8 DEF StartDrain, DrainBegin
<1>9. ASSUME NEW c \in Drainer, DrainTest(c) PROVE ContentsMatch'
  BY <1>9 DEF DrainTest
<1>10. ASSUME NEW c \in Drainer, DrainHandle(c) PROVE ContentsMatch'
  <2>1. npos[c] = first /\ first \in Pos /\ Ahead(first, first) = 0 /\ Outstanding > 0
    BY <1>10, DrainerIsLive DEF DrainHandle
  <2>2. \A d \in Drainer : ~Handled(d)
    BY <1>10 DEF DrainHandle
  <2>3. cell[first] = popped + 1
    BY <2>1, <2>2
  <2> QED BY <1>10, <2>1, <2>2, <2>3 DEF DrainHandle
<1>11. ASSUME NEW c \in Drainer, DrainClear(c) PROVE ContentsMatch'
  <2>1. npos[c] = first /\ first \in Pos
    BY <1>11, DrainerIsLive DEF DrainClear
  <2>2. spc # "s_idle" => spos # first
    BY <1>11, HostIsElsewhere DEF DrainClear
  <2>3. Handled(c) /\ Handled(c)' /\ npc'[c] = "n_pop"
    BY <1>11 DEF DrainClear
  <2>4. \A i \in Pos : i # first => cell'[i] = cell[i]
    BY <1>11, <2>1 DEF DrainClear
  <2> QED BY <1>11, <2>1, <2>2, <2>3, <2>4 DEF DrainClear
<1>12. ASSUME NEW c \in Drainer, PopTest(c) PROVE ContentsMatch'
  BY <1>12, PopIsAllowed DEF PopTest
<1>13. ASSUME NEW c \in Drainer, PopHead(c) PROVE ContentsMatch'
  BY <1>13 DEF PopHead
<1>14. ASSUME NEW c \in Drainer, PopTestFull(c) PROVE ContentsMatch'
  BY <1>14 DEF PopTestFull
<1>15. ASSUME NEW c \in Drainer, PopClearFull(c) PROVE ContentsMatch'
  BY <1>15 DEF PopClearFull
<1>16. ASSUME NEW c \in Drainer, PopOwn(c) PROVE ContentsMatch'
  BY <1>16, PopOwnGivesBack
<1> QED BY <1>1, <1>2, <1>3, <1>4, <1>5, <1>6, <1>7, <1>8, <1>9, <1>10, <1>11,
           <1>12, <1>13, <1>14, <1>15, <1>16
        DEF IoqNext, Post, HostStep, InDrain

\* The full flag is exact up to the push and the pop under way.
LEMMA FullMatchesPreserved ==
  ASSUME IoqInv, IoqNext PROVE FullMatches'
<1> USE RingAssumption DEF IoqInv, IoqTypeOK, Initialising, DrainerAtFirst,
                           IndexesFollow, OwnersMatch, FullMatches,
                           Outstanding, Ahead, Draining, Popping, Publishing,
                           Pos, IdxType, North, South, NorthLabels,
                           SouthLabels, modulo_inc, indexvars, postvars,
                           northvars, southvars, HostGoto, NorthGoto
<1>1. CASE PostDescriptor BY <1>1 DEF PostDescriptor
<1>2. CASE PostDone      BY <1>2 DEF PostDone
<1>3. CASE HostPrepare   BY <1>3 DEF HostPrepare
<1>4. CASE PushTest      BY <1>4 DEF PushTest
<1>5. CASE PushSetFull   BY <1>5 DEF PushSetFull
<1>6. CASE PushTail      BY <1>6 DEF PushTail
<1>7. CASE PushOwn       BY <1>7, PushOwnHandsOver
<1>8. ASSUME NEW c \in Drainer, StartDrain(c) PROVE FullMatches'
  BY <1>8 DEF StartDrain, DrainBegin
<1>9. ASSUME NEW c \in Drainer, DrainTest(c) PROVE FullMatches'
  BY <1>9 DEF DrainTest
<1>10. ASSUME NEW c \in Drainer, DrainHandle(c) PROVE FullMatches'
  BY <1>10 DEF DrainHandle
<1>11. ASSUME NEW c \in Drainer, DrainClear(c) PROVE FullMatches'
  BY <1>11 DEF DrainClear
<1>12. ASSUME NEW c \in Drainer, PopTest(c) PROVE FullMatches'
  BY <1>12 DEF PopTest
<1>13. ASSUME NEW c \in Drainer, PopHead(c) PROVE FullMatches'
  BY <1>13 DEF PopHead
<1>14. ASSUME NEW c \in Drainer, PopTestFull(c) PROVE FullMatches'
  BY <1>14 DEF PopTestFull
<1>15. ASSUME NEW c \in Drainer, PopClearFull(c) PROVE FullMatches'
  BY <1>15 DEF PopClearFull
<1>16. ASSUME NEW c \in Drainer, PopOwn(c) PROVE FullMatches'
  BY <1>16, PopOwnGivesBack
<1> QED BY <1>1, <1>2, <1>3, <1>4, <1>5, <1>6, <1>7, <1>8, <1>9, <1>10, <1>11,
           <1>12, <1>13, <1>14, <1>15, <1>16
        DEF IoqNext, Post, HostStep, InDrain

\* The initial ring, before eventq_init has posted anything.
LEMMA InitEstablishes == IoqInit => IoqInv
BY RingAssumption
   DEF IoqInit, IoqInv, IoqTypeOK, IterationNeverFails, Initialising,
       DrainerAtFirst, IndexesFollow, OwnersMatch, ContentsMatch, FullMatches,
       Outstanding, Ahead, Draining, Handled, Popping, Publishing, Pos, IdxType,
       North, South, NorthLabels, SouthLabels

\* IoqInv is inductive.
LEMMA IoqStepKeepsInv == IoqInv /\ [IoqNext]_ioqvars => IoqInv'
<1> SUFFICES ASSUME IoqInv, [IoqNext]_ioqvars PROVE IoqInv'
  OBVIOUS
<1>1. CASE IoqNext
  BY <1>1, IoqTypeOKPreserved, IterationNeverFailsPreserved,
     InitialisingPreserved, DrainerAtFirstPreserved, IndexesFollowPreserved,
     OwnersMatchPreserved, ContentsMatchPreserved, FullMatchesPreserved
     DEF IoqInv
<1>2. CASE UNCHANGED ioqvars
  BY <1>2 DEF ioqvars, indexvars, postvars, northvars, southvars, IoqInv,
     IoqTypeOK, IterationNeverFails, Initialising, DrainerAtFirst,
     IndexesFollow, OwnersMatch, ContentsMatch, FullMatches, Outstanding,
     Ahead, Draining, Handled, Popping, Publishing, modulo_inc
<1> QED BY <1>1, <1>2

\* The ring invariant, for every ring size, number of contexts and events.
THEOREM IoqInvariance == IoqSpec => []IoqInv
BY InitEstablishes, IoqStepKeepsInv, PTL DEF IoqSpec

\* ASSERT(ret >= 0) (pci.c:398) holds and eventq_init succeeds, as long as one
\* context drains at a time.
THEOREM IterationIsSafe == IoqSpec => []IterationNeverFails
<1>1. IoqInv => IterationNeverFails
  BY DEF IoqInv
<1> QED BY <1>1, IoqInvariance, PTL

\* The event that eventq_wakeup dispatches is the one after the last.
LEMMA HandleIsNext ==
  ASSUME IoqInv, NEW c \in Drainer, DrainHandle(c)
  PROVE  got' = got + 1
<1>1. npc[c] = "n_handle" /\ got' = cell[npos[c]]
  BY DEF DrainHandle, NorthGoto
<1>2. npos[c] = first /\ first \in Pos
  BY <1>1, DrainerIsLive
<1>3. \A d \in Drainer : ~Handled(d)
  BY <1>1 DEF IoqInv, DrainerAtFirst, Draining, Handled, Popping
<1>4. Outstanding > 0 /\ popped \in Nat
  BY <1>1 DEF IoqInv, IoqTypeOK, OwnersMatch
<1>5. cell[first] = popped + 1 + Ahead(first, first)
  BY <1>2, <1>3, <1>4, AheadRange DEF IoqInv, ContentsMatch
<1>6. got = popped
  BY <1>3 DEF IoqInv, ContentsMatch
<1> QED BY <1>1, <1>2, <1>4, <1>5, <1>6, AheadRange

\* Events are dispatched exactly once and in the host's order.
THEOREM DispatchInOrder == IoqSpec => InOrder
<1>1. IoqInv /\ [IoqNext]_ioqvars => [got' # got => got' = got + 1]_ioqvars
  <2> SUFFICES ASSUME IoqInv, IoqNext, got' # got PROVE got' = got + 1
    BY DEF ioqvars, northvars
  <2>1. PICK c \in Drainer : DrainHandle(c)
    BY DEF IoqNext, Post, HostStep, InDrain, PostDescriptor, PostDone, HostPrepare,
           PushTest, PushSetFull, PushTail, PushOwn, StartDrain, DrainBegin,
           DrainTest, DrainClear, PopTest, PopHead, PopTestFull, PopClearFull,
           PopOwn, northvars
  <2> QED BY <2>1, HandleIsNext
<1> QED BY <1>1, IoqInvariance, PTL DEF IoqSpec, InOrder

\* Whenever neither side is inside a push or a pop, ioq_count of the inuse index
\* is the number of undelivered descriptors, despite the race on full.
THEOREM CountIsExact == IoqSpec => []CountAtRest
<1>1. IoqInv => CountAtRest
  <2> SUFFICES ASSUME IoqInv, spc \in {"s_idle", "s_push"},
                      \A c \in Drainer : npc[c] \in {"n_idle", "n_test"}
               PROVE  ioq_ring_count("inuse") = Outstanding
    BY DEF CountAtRest
  <2>1. head["inuse"] = first /\ tail["inuse"] = spos
    BY DEF IoqInv, IndexesFollow, Popping
  <2>2. full["inuse"] = 1 => Outstanding > 0
    BY DEF IoqInv, FullMatches, Publishing, OwnersMatch
  <2>3. Outstanding = Count => full["inuse"] = 1
    BY DEF IoqInv, FullMatches, Popping
  <2> QED BY <2>1, <2>2, <2>3, RingAssumption
          DEF IoqInv, IoqTypeOK, OwnersMatch, Ahead, ioq_ring_count, idx_full,
              Pos
<1> QED BY <1>1, IoqInvariance, PTL

-----------------------------------------------------------------------------
(***************************************************************************)
(* The ring implements EventChannel.  Under IoqInv what the refinement     *)
(* mapping reads off the ring are the events from got + 1 to pushed, so    *)
(* that a step can only change the queue where it changes one of the two.  *)
(***************************************************************************)
EventsFrom(g, p) == [k \in 1 .. p - g |-> g + k]

\* SlotAhead is the inverse of Ahead.
LEMMA SlotAheadProperties ==
  \A h \in Pos, d \in 0 .. Count - 1 : SlotAhead(h, d) \in Pos /\ Ahead(h, SlotAhead(h, d)) = d
  BY RingAssumption DEF Pos, Ahead, SlotAhead

UndeliveredMatches ==
  /\ pushed \in Nat /\ got \in Nat /\ got <= pushed /\ pushed - got <= Outstanding
  /\ Undelivered = EventsFrom(got, pushed)

\* The counters, and the events not dispatched yet.
LEMMA UndeliveredIs == IoqInv => UndeliveredMatches
<1> SUFFICES ASSUME IoqInv PROVE UndeliveredMatches
  OBVIOUS
<1>1. /\ pushed \in Nat /\ got \in Nat /\ popped \in Nat /\ first \in Pos /\ Count \in Nat
      /\ Outstanding \in 0 .. Count /\ pushed = popped + Outstanding
  BY RingAssumption DEF IoqInv, IoqTypeOK, OwnersMatch, Outstanding
<1>2. PICK h \in {0, 1} : /\ got = popped + h
                          /\ h = 1 <=> \E c \in Drainer : Handled(c)
  BY <1>1 DEF IoqInv, ContentsMatch
<1>3. h = 1 => Outstanding > 0
  BY <1>2 DEF IoqInv, OwnersMatch, Handled, Popping
<1>4. got <= pushed /\ pushed - got = Outstanding - h
  BY <1>1, <1>2, <1>3
<1>5. ASSUME NEW k \in 1 .. pushed - got
      PROVE  cell[SlotAhead(first, (got - popped) + k - 1)] = got + k
  <2>1. PICK d \in 0 .. Count - 1 : /\ d = (got - popped) + k - 1
                                    /\ d < Outstanding /\ got + k = popped + 1 + d
                                    /\ h = 1 => d # 0
    BY <1>1, <1>2, <1>4
  <2>2. PICK i \in Pos : i = SlotAhead(first, d) /\ Ahead(first, i) = d
    BY <1>1, <2>1, SlotAheadProperties
  <2>3. ~(i = first /\ \E c \in Drainer : Handled(c))
    BY <1>1, <1>2, <2>1, <2>2, AheadRange
  <2>4. cell[i] = popped + 1 + d
    BY <2>1, <2>2, <2>3 DEF IoqInv, ContentsMatch
  <2> QED
    BY <2>1, <2>2, <2>4
<1> QED
  BY <1>1, <1>2, <1>4, <1>5 DEF UndeliveredMatches, Undelivered, EventsFrom

\* A run of consecutive numbers as a sequence.
LEMMA EventsFromIs ==
  ASSUME NEW g \in Nat, NEW p \in Nat, g <= p
  PROVE  /\ EventsFrom(g, p) \in Seq(Nat) /\ Len(EventsFrom(g, p)) = p - g
         /\ \A k \in 1 .. p - g : EventsFrom(g, p)[k] = g + k
  BY DEF EventsFrom

\* The two steps of the channel, on a run of consecutive numbers.
LEMMA EventsFromProperties ==
  ASSUME NEW g \in Nat, NEW p \in Nat, g <= p
  PROVE  /\ EventsFrom(g, p) \in Seq(Nat) /\ Len(EventsFrom(g, p)) = p - g
         /\ Append(EventsFrom(g, p), p + 1) = EventsFrom(g, p + 1)
         /\ g < p => /\ EventsFrom(g, p) # <<>> /\ Head(EventsFrom(g, p)) = g + 1
                     /\ Tail(EventsFrom(g, p)) = EventsFrom(g + 1, p)
<1>1. EventsFrom(g, p) \in Seq(Nat) /\ Len(EventsFrom(g, p)) = p - g
  BY EventsFromIs
<1>2. Append(EventsFrom(g, p), p + 1) = EventsFrom(g, p + 1)
  BY DEF EventsFrom
<1>3. ASSUME g < p
      PROVE  /\ EventsFrom(g, p) # <<>> /\ Head(EventsFrom(g, p)) = g + 1
             /\ Tail(EventsFrom(g, p)) = EventsFrom(g + 1, p)
  <2>1. PICK s \in Seq(Nat) : s = EventsFrom(g, p) /\ Len(s) = p - g /\ \A k \in 1 .. p - g : s[k] = g + k
    BY EventsFromIs
  <2>a. PICK a \in Nat : a = g + 1 /\ a <= p
    BY <1>3
  <2>2. PICK t \in Seq(Nat) : t = EventsFrom(a, p) /\ Len(t) = p - a /\ \A k \in 1 .. p - a : t[k] = a + k
    BY <2>a, EventsFromIs
  <2>3. s # <<>> /\ Head(s) = g + 1
    BY <1>3, <2>1
  <2>4. Tail(s) \in Seq(Nat) /\ Len(Tail(s)) = p - g - 1 /\ \A i \in 1 .. Len(Tail(s)) : Tail(s)[i] = s[i + 1]
    BY <1>3, <2>1, <2>3, HeadTailProperties
  <2>5. \A i \in 1 .. Len(Tail(s)) : Tail(s)[i] = t[i]
    BY <1>3, <2>1, <2>a, <2>2, <2>4
  <2>6. Len(Tail(s)) = Len(t)
    BY <2>a, <2>2, <2>4
  <2>7. Tail(s) = t
    BY <2>2, <2>4, <2>5, <2>6, SeqEqual
  <2> QED
    BY <2>1, <2>a, <2>2, <2>3, <2>7
<1> QED
  BY <1>1, <1>2, <1>3

\* Every step of the ring is a Send, a Deliver or no step of the channel.
LEMMA StepSimulates ==
  IoqInv /\ UndeliveredMatches /\ UndeliveredMatches' /\ [IoqNext]_ioqvars
    => [Chan!Send \/ Chan!Deliver]_<<Undelivered, pushed, got>>
<1> SUFFICES ASSUME IoqInv, UndeliveredMatches, UndeliveredMatches', [IoqNext]_ioqvars
             PROVE  [Chan!Send \/ Chan!Deliver]_<<Undelivered, pushed, got>>
  OBVIOUS
<1>1. /\ pushed \in Nat /\ got \in Nat /\ got <= pushed /\ pushed - got <= Outstanding
      /\ Undelivered = EventsFrom(got, pushed)
  BY DEF UndeliveredMatches
<1>2. /\ pushed' \in Nat /\ got' \in Nat /\ got' <= pushed'
      /\ Undelivered' = EventsFrom(got, pushed)'
  BY DEF UndeliveredMatches
<1>3. EventsFrom(got, pushed)' = EventsFrom(got', pushed')
  BY DEF EventsFrom
<1>4. CASE UNCHANGED <<pushed, got>>
  BY <1>1, <1>2, <1>3, <1>4
<1>5. CASE PushOwn
  <2>1. /\ pushed' = pushed + 1 /\ got' = got /\ spc = "s_own"
    BY <1>5 DEF PushOwn, HostGoto, northvars
  <2>2. pushed < MaxEvents /\ Outstanding < Count /\ Outstanding \in 0 .. Count /\ Count \in Nat
    BY <2>1, RingAssumption DEF IoqInv, OwnersMatch
  <2>3. Len(Undelivered) < Count
    BY <1>1, <2>2, EventsFromProperties
  <2>4. Undelivered' = Append(Undelivered, pushed + 1)
    BY <1>1, <1>2, <1>3, <2>1, EventsFromProperties
  <2> QED
    BY <2>1, <2>2, <2>3, <2>4 DEF Chan!Send
<1>6. ASSUME NEW c \in Drainer, DrainHandle(c)
      PROVE  Chan!Deliver
  <2>1. pushed' = pushed
    BY <1>6 DEF DrainHandle, southvars
  <2>2. got' = got + 1
    BY <1>6, HandleIsNext
  <2>3. got < pushed
    BY <1>1, <1>2, <2>1, <2>2
  <2>4. Undelivered # <<>> /\ Head(Undelivered) = got' /\ Undelivered' = Tail(Undelivered)
    BY <1>1, <1>2, <1>3, <2>1, <2>2, <2>3, EventsFromProperties
  <2> QED
    BY <2>1, <2>4 DEF Chan!Deliver
<1>7. \/ UNCHANGED <<pushed, got>> \/ PushOwn
      \/ \E c \in Drainer : DrainHandle(c)
  BY DEF IoqNext, Post, HostStep, InDrain, PostDescriptor, PostDone, HostPrepare,
         PushTest, PushSetFull, PushTail, StartDrain, DrainBegin, DrainTest, DrainClear, PopTest,
         PopHead, PopTestFull, PopClearFull, PopOwn, ioqvars, northvars, southvars
<1> QED
  BY <1>4, <1>5, <1>6, <1>7

\* The ring, with its descriptors, indexes and owner bits, implements a bounded
\* first-in first-out channel of Count events, for every ring size.
THEOREM RingImplementsChannel == IoqSpec => ImplementsChannel
<1>1. IoqInit => Chan!ChanInit
  <2>1. ASSUME IoqInit PROVE Undelivered = <<>>
    BY <2>1 DEF IoqInit, Undelivered
  <2> QED
    BY <2>1 DEF IoqInit, Chan!ChanInit
<1> QED
  BY <1>1, UndeliveredIs, StepSimulates, IoqInvariance, PTL DEF IoqSpec, ImplementsChannel, Chan!ChanSpec
=============================================================================
