-------------------------------- MODULE Ioq --------------------------------
(***************************************************************************)
(* The ioq ring (vbus/ioq.c) as vbus/pci.c uses it for the event queue.    *)
(* eventq_init posts every descriptor on the valid index; the host fills   *)
(* them at the tail of the inuse index (ioq_iter_push); eventq_wakeup      *)
(* drains them at its head (ioq_iter_pop).  Ownership of a descriptor      *)
(* passes with its sown bit.                                               *)
(*                                                                         *)
(* The ring is shared memory without a lock: push and pop are cut at their *)
(* memory barriers.  Event number k is the k-th the host produces.         *)
(***************************************************************************)
EXTENDS Integers

CONSTANTS
  Count,      \* descriptors in the ring (QLEN)
  Drainer,    \* guest contexts in which the notifier can run
  MaxEvents   \* bound: events the host produces

ASSUME RingAssumption == Count \in Nat \ {0} /\ MaxEvents \in Nat

Pos == 0 .. Count - 1

IdxType == {"valid", "inuse"}

North == 0   \* ioq_locality_north
South == 1   \* ioq_locality_south

VARIABLES
  head, tail, full,  \* struct ioq_ring_idx, one per index type
  sown,              \* desc[i].sown: the descriptor belongs to the south side
  cell,              \* the event descriptor i points to; 0 when zeroed
  posted,            \* eventq_init's loop counter: descriptors posted
  initrc,            \* what eventq_init returns
  npc, npos,         \* drain loop of each guest context, and its iterator
  spc, spos,         \* the host's push, and its iterator
  got,               \* history: the event dispatched last
  pushed, popped,    \* history: descriptors handed to the guest, and back
  first              \* history: the slot whose turn it is to be popped

indexvars == <<head, tail, full>>
postvars  == <<posted, initrc>>
northvars == <<npc, npos, got, popped, first>>
southvars == <<spc, spos, pushed>>
ioqvars   == <<indexvars, sown, cell, postvars, northvars, southvars>>

NorthLabels == {"n_idle", "n_test", "n_handle", "n_clear", "n_pop", "n_head",
                "n_full", "n_clrfull", "n_own", "n_assert"}

SouthLabels == {"s_idle", "s_push", "s_full", "s_tail", "s_own"}

-----------------------------------------------------------------------------
\* Mutation: the index does not wrap.
ModuloIncNoWrap(val) == val + 1

modulo_inc(val) == IF val = Count - 1 THEN 0 ELSE val + 1

idx_full(x) == full[x] = 1 /\ head[x] = tail[x]

ioq_ring_count(x) ==
  IF idx_full(x)           THEN Count
  ELSE IF tail[x] >= head[x] THEN tail[x] - head[x]
  ELSE (tail[x] + Count) - head[x]

\* "only valid to push if we are currently pointed at the tail"
MayPush(x, pos, locale) == pos = tail[x] /\ sown[pos] = locale

\* "only valid to pop if we are currently pointed at the head"
MayPop(x, pos, locale) == pos = head[x] /\ sown[pos] = locale

-----------------------------------------------------------------------------
(***************************************************************************)
(* eventq_init: the host does not know the ring yet, so each push on the   *)
(* valid index is one step.  iter.pos equals the loop counter.             *)
(***************************************************************************)
PostDescriptor ==
  LET next == modulo_inc(tail["valid"]) IN
  /\ initrc = "running" /\ posted < Count
  /\ IF MayPush("valid", posted, North)
     THEN /\ full' = IF head["valid"] = next THEN [full EXCEPT !["valid"] = 1] ELSE full
          /\ tail' = [tail EXCEPT !["valid"] = next]
          /\ sown' = [sown EXCEPT ![posted] = South]
          /\ posted' = posted + 1
          /\ UNCHANGED initrc
     ELSE /\ initrc' = "no_more_entries"
          /\ UNCHANGED <<full, tail, sown, posted>>
  /\ UNCHANGED <<head, cell, northvars, southvars>>

PostDone ==
  /\ initrc = "running" /\ posted = Count
  /\ initrc' = "success"
  /\ UNCHANGED <<indexvars, sown, cell, posted, northvars, southvars>>

-----------------------------------------------------------------------------
(***************************************************************************)
(* The host's producer: ioq_iter_push with locale south on the inuse       *)
(* index, after filling the descriptor at the tail if it owns it.          *)
(***************************************************************************)
HostGoto(from, to) == spc = from /\ spc' = to

HostPrepare ==
  /\ initrc = "success" /\ pushed < MaxEvents
  /\ HostGoto("s_idle", "s_push")
  /\ sown[tail["inuse"]] = South
  /\ spos' = tail["inuse"]
  /\ cell' = [cell EXCEPT ![tail["inuse"]] = pushed + 1]
  /\ UNCHANGED <<indexvars, sown, postvars, northvars, pushed>>

\* ioq_iter_push checks the position and reads head: is the ring now full?
PushTest ==
  /\ MayPush("inuse", spos, South)
  /\ HostGoto("s_push",
              IF head["inuse"] = modulo_inc(tail["inuse"]) THEN "s_full" ELSE "s_tail")
  /\ UNCHANGED <<indexvars, sown, cell, postvars, northvars, spos, pushed>>

PushSetFull ==
  /\ HostGoto("s_full", "s_tail")
  /\ full' = [full EXCEPT !["inuse"] = 1]
  /\ UNCHANGED <<head, tail, sown, cell, postvars, northvars, spos, pushed>>

PushTail ==
  /\ HostGoto("s_tail", "s_own")
  /\ tail' = [tail EXCEPT !["inuse"] = modulo_inc(tail["inuse"])]
  /\ UNCHANGED <<head, full, sown, cell, postvars, northvars, spos, pushed>>

\* flip the owner bit; only now may the guest look at the descriptor
PushOwn ==
  /\ HostGoto("s_own", "s_idle")
  /\ sown' = [sown EXCEPT ![spos] = North]
  /\ spos' = modulo_inc(spos)
  /\ pushed' = pushed + 1
  /\ UNCHANGED <<indexvars, cell, postvars, northvars>>

HostStep == HostPrepare \/ PushTest \/ PushSetFull \/ PushTail \/ PushOwn

-----------------------------------------------------------------------------
(***************************************************************************)
(* eventq_wakeup, run by context c: pop descriptors until one is found     *)
(* that the south side still owns.                                         *)
(***************************************************************************)
NorthGoto(c, from, to) == npc[c] = from /\ npc' = [npc EXCEPT ![c] = to]

DrainBegin(c) ==
  /\ NorthGoto(c, "n_idle", "n_test")
  /\ npos' = [npos EXCEPT ![c] = head["inuse"]]
  /\ UNCHANGED <<indexvars, sown, cell, postvars, got, popped, first, southvars>>

\* Mutation: the end of the ring is found by its count, not by the owner bit.
DrainTestByCount(c) ==
  /\ NorthGoto(c, "n_test", IF ioq_ring_count("inuse") > 0 THEN "n_handle" ELSE "n_idle")
  /\ UNCHANGED <<indexvars, sown, cell, postvars, npos, got, popped, first, southvars>>

\* while (!iter.desc->sown)
DrainTest(c) ==
  /\ NorthGoto(c, "n_test", IF sown[npos[c]] = North THEN "n_handle" ELSE "n_idle")
  /\ UNCHANGED <<indexvars, sown, cell, postvars, npos, got, popped, first, southvars>>

\* the switch on event->eventid: the event leaves the queue here
DrainHandle(c) ==
  /\ NorthGoto(c, "n_handle", "n_clear")
  /\ got' = cell[npos[c]]
  /\ UNCHANGED <<indexvars, sown, cell, postvars, npos, popped, first, southvars>>

\* Mutation: the event is zeroed after the iterator has moved on.
DrainClearAfterSeek(c) ==
  /\ NorthGoto(c, "n_clear", "n_pop")
  /\ cell' = [cell EXCEPT ![modulo_inc(npos[c])] = 0]
  /\ UNCHANGED <<indexvars, sown, postvars, npos, got, popped, first, southvars>>

\* memset(event, 0, sizeof(*event))
DrainClear(c) ==
  /\ NorthGoto(c, "n_clear", "n_pop")
  /\ cell' = [cell EXCEPT ![npos[c]] = 0]
  /\ UNCHANGED <<indexvars, sown, postvars, npos, got, popped, first, southvars>>

\* ioq_iter_pop's check; -1 trips ASSERT(ret >= 0)
PopTest(c) ==
  /\ NorthGoto(c, "n_pop",
               IF MayPop("inuse", npos[c], North) THEN "n_head" ELSE "n_assert")
  /\ UNCHANGED <<indexvars, sown, cell, postvars, npos, got, popped, first, southvars>>

PopHead(c) ==
  /\ NorthGoto(c, "n_head", "n_full")
  /\ head' = [head EXCEPT !["inuse"] = modulo_inc(head["inuse"])]
  /\ UNCHANGED <<tail, full, sown, cell, postvars, npos, got, popped, first, southvars>>

PopTestFull(c) ==
  /\ NorthGoto(c, "n_full", IF full["inuse"] = 1 THEN "n_clrfull" ELSE "n_own")
  /\ UNCHANGED <<indexvars, sown, cell, postvars, npos, got, popped, first, southvars>>

\* Mutation: the flag is left set.
PopKeepFull(c) ==
  /\ NorthGoto(c, "n_clrfull", "n_own")
  /\ UNCHANGED <<indexvars, sown, cell, postvars, npos, got, popped, first, southvars>>

PopClearFull(c) ==
  /\ NorthGoto(c, "n_clrfull", "n_own")
  /\ full' = [full EXCEPT !["inuse"] = 0]
  /\ UNCHANGED <<head, tail, sown, cell, postvars, npos, got, popped, first, southvars>>

\* flip the owner bit and seek to the next descriptor
PopOwn(c) ==
  /\ NorthGoto(c, "n_own", "n_test")
  /\ sown' = [sown EXCEPT ![npos[c]] = South]
  /\ npos' = [npos EXCEPT ![c] = modulo_inc(npos[c])]
  /\ popped' = popped + 1
  /\ first' = modulo_inc(first)
  /\ UNCHANGED <<indexvars, cell, postvars, got, southvars>>

\* the steps of a drain once it has begun
InDrain(c) ==
  \/ DrainTest(c) \/ DrainHandle(c) \/ DrainClear(c) \/ PopTest(c) \/ PopHead(c)
  \/ PopTestFull(c) \/ PopClearFull(c) \/ PopOwn(c)

Draining(c) == npc[c] # "n_idle"

-----------------------------------------------------------------------------
IoqInit ==
  /\ head = [x \in IdxType |-> 0]
  /\ tail = [x \in IdxType |-> 0]
  /\ full = [x \in IdxType |-> 0]
  /\ sown = [i \in Pos |-> North]
  /\ cell = [i \in Pos |-> 0]
  /\ posted = 0
  /\ initrc = "running"
  /\ npc  = [c \in Drainer |-> "n_idle"]
  /\ npos = [c \in Drainer |-> 0]
  /\ spc = "s_idle"
  /\ spos = 0
  /\ pushed = 0
  /\ got = 0
  /\ popped = 0
  /\ first = 0

\* A client that runs the notifier in one context at a time, as ioq.c expects
StartDrain(c) ==
  /\ initrc = "success"
  /\ \A d \in Drainer : ~Draining(d)
  /\ DrainBegin(c)

Post == PostDescriptor \/ PostDone

IoqNext == Post \/ HostStep \/ \E c \in Drainer : StartDrain(c) \/ InDrain(c)

IoqSpec == IoqInit /\ [][IoqNext]_ioqvars

-----------------------------------------------------------------------------
Outstanding == pushed - popped

\* how many slots i lies ahead of h
Ahead(h, i) == IF i >= h THEN i - h ELSE i + Count - h

\* the slot that lies d ahead of h
SlotAhead(h, d) == IF h + d < Count THEN h + d ELSE h + d - Count

\* head has moved and the descriptor has not changed hands yet
Popping(c) == npc[c] \in {"n_full", "n_clrfull", "n_own"}

\* the event is dispatched and its descriptor not given back yet
Handled(c) == npc[c] \in {"n_clear", "n_pop", "n_head"} \/ Popping(c)

\* the host decided about full and has not handed the descriptor over yet
Publishing == spc \in {"s_tail", "s_own"}

IoqTypeOK ==
  /\ head \in [IdxType -> Pos] /\ tail \in [IdxType -> Pos]
  /\ full \in [IdxType -> {0, 1}]
  /\ sown \in [Pos -> {North, South}]
  /\ cell \in [Pos -> Nat]
  /\ posted \in 0 .. Count
  /\ initrc \in {"running", "success", "no_more_entries"}
  /\ npc \in [Drainer -> NorthLabels] /\ npos \in [Drainer -> Pos] /\ got \in Nat
  /\ spc \in SouthLabels /\ spos \in Pos
  /\ pushed \in 0 .. MaxEvents /\ popped \in Nat /\ first \in Pos

\* While eventq_init runs, exactly the slots behind the iterator are the
\* host's and nobody else touches the ring.
Initialising ==
  initrc = "running" =>
    /\ head["valid"] = 0
    /\ tail["valid"] = (IF posted = Count THEN 0 ELSE posted)
    /\ \A i \in Pos : sown[i] = South <=> i < posted
    /\ spc = "s_idle" /\ pushed = 0 /\ popped = 0 /\ first = 0 /\ spos = 0 /\ got = 0
    /\ full["inuse"] = 0
    /\ \A c \in Drainer : npc[c] = "n_idle"

\* one context drains, its iterator on the oldest descriptor
DrainerAtFirst ==
  /\ \A c, d \in Drainer : Draining(c) /\ Draining(d) => c = d
  /\ \A c \in Drainer : Draining(c) => npos[c] = first

\* head and tail run ahead of the owner bits by at most the descriptor in hand
IndexesFollow ==
  /\ head["inuse"] = IF \E c \in Drainer : Popping(c) THEN modulo_inc(first) ELSE first
  /\ tail["inuse"] = IF spc = "s_own" THEN modulo_inc(spos) ELSE spos

\* the guest owns exactly the Outstanding slots from first on
OwnersMatch ==
  /\ Outstanding \in 0 .. Count
  /\ spos = first <=> Outstanding \in {0, Count}
  /\ Outstanding < Count => Ahead(first, spos) = Outstanding
  /\ initrc = "success" => \A i \in Pos : sown[i] = North <=> Ahead(first, i) < Outstanding
  /\ \A c \in Drainer : npc[c] \notin {"n_idle", "n_test"} => Outstanding > 0
  /\ spc # "s_idle" => Outstanding < Count /\ pushed < MaxEvents /\ initrc = "success"

\* and they hold the events popped + 1, popped + 2, ... in that order, but for
\* the one that the drainer has zeroed
ContentsMatch ==
  /\ spc # "s_idle" => cell[spos] = pushed + 1
  /\ got = IF \E c \in Drainer : Handled(c) THEN popped + 1 ELSE popped
  /\ \A i \in Pos :
       Ahead(first, i) < Outstanding =>
         \/ cell[i] = popped + 1 + Ahead(first, i)
         \/ i = first /\ \E c \in Drainer : Handled(c) /\ npc[c] # "n_clear"

\* what the full flag of the inuse index may be while push and pop race
FullMatches ==
  LET f == full["inuse"] = 1
      popping == \E c \in Drainer : Popping(c) IN
  /\ Outstanding = Count => f \/ popping
  /\ Publishing /\ Outstanding = Count - 1 => f \/ popping
  /\ f /\ Outstanding = 0 => Publishing
  /\ f /\ (\E c \in Drainer : npc[c] = "n_own") => Publishing \/ Outstanding >= 2

\* ASSERT(ret >= 0) after ioq_iter_pop (pci.c:398) holds, and eventq_init
\* never returns STATUS_NO_MORE_ENTRIES (pci.c:492-493).
IterationNeverFails ==
  /\ \A c \in Drainer : npc[c] # "n_assert"
  /\ initrc # "no_more_entries"

\* The inductive invariant: which slots each side owns and what they hold, in
\* terms of the two counters, at every step of a push racing a pop.
IoqInv ==
  /\ IoqTypeOK /\ IterationNeverFails /\ Initialising /\ DrainerAtFirst /\ IndexesFollow
  /\ OwnersMatch /\ ContentsMatch /\ FullMatches

-----------------------------------------------------------------------------
\* Event k is dispatched right after event k - 1: eventq_wakeup loses,
\* repeats and reorders none, and reads none that is torn or zeroed.
InOrder == [][got' # got => got' = got + 1]_ioqvars

\* The race on full heals: whenever neither side is inside a push or a pop,
\* ioq_count of the inuse index is the number of undelivered events, also
\* when head and tail coincide.
CountAtRest ==
  (/\ spc \in {"s_idle", "s_push"}
   /\ \A c \in Drainer : npc[c] \in {"n_idle", "n_test"})
  => ioq_ring_count("inuse") = Outstanding

\* idx_tail_push on setting full (ioq.c:95-98): "it is impossible for the
\* remote locale to move head in such a way that this operation becomes
\* invalid"; so an index that ioq_full calls full is never an empty one.
FullIsNotEmpty == idx_full("inuse") => Outstanding > 0

-----------------------------------------------------------------------------
\* The undelivered events, read off the ring: the slots behind the one that is
\* being given back.
Undelivered ==
  [k \in 1 .. pushed - got |-> cell[SlotAhead(first, (got - popped) + k - 1)]]

Chan == INSTANCE EventChannel WITH Capacity <- Count, queue <- Undelivered, sent <- pushed

\* The ring implements a bounded FIFO channel: a push is a Send when the owner
\* bit flips, a dispatch in eventq_wakeup a Deliver, every other step stutters.
ImplementsChannel == Chan!ChanSpec
=============================================================================
