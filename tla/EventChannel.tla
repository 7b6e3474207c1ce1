---------------------------- MODULE EventChannel ----------------------------
(***************************************************************************)
(* What the event queue promises the bridge driver: a bounded first-in,    *)
(* first-out channel from the host.  Nothing is said of descriptors,       *)
(* indexes or owner bits.                                                  *)
(***************************************************************************)
EXTENDS Naturals, Sequences

CONSTANTS Capacity, MaxEvents

VARIABLES queue,   \* events sent and not dispatched yet
          sent,    \* number of events sent; event k is the k-th
          got      \* the event dispatched last, 0 before the first

ChanInit == queue = <<>> /\ sent = 0 /\ got = 0

Send ==
  /\ sent < MaxEvents /\ Len(queue) < Capacity
  /\ queue' = Append(queue, sent + 1)
  /\ sent' = sent + 1
  /\ UNCHANGED got

Deliver ==
  /\ queue # <<>>
  /\ got' = Head(queue)
  /\ queue' = Tail(queue)
  /\ UNCHANGED sent

ChanSpec == ChanInit /\ [][Send \/ Deliver]_<<queue, sent, got>>
=============================================================================
