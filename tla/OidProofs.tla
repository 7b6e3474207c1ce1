----------------------------- MODULE OidProofs ------------------------------
(***************************************************************************)
(* Any number of adapters come up, fail half way and are halted without a  *)
(* leak or a double free, and an adapter holds what the last accepted set  *)
(* left in it.                                                             *)
(***************************************************************************)
EXTENDS Oid, SequenceTheorems, TLAPS

-----------------------------------------------------------------------------
(***************************************************************************)
(* The life of an adapter.                                                 *)
(***************************************************************************)
Up == {"setup", "interface", "rx", "tx", "create", "attributes", "running"}

Timers == {"resetTimer", "recvTimer"}

Queues == {"rxHandle", "txHandle"}

\* not both allocated by VenetInitialize and freed by VenetHalt through its field
Apart == {"adapter", "wdf_device", "vif"}

\* What is known of adapter a at each step.  As long as no null pointer has been
\* followed, what is allocated is what its fields point to, until the timers and
\* then the queues are freed.
OneAdapter(a) ==
  /\ tcbs[a] = tcbFree[a]
  /\ live[a] \subseteq Timers \cup Queues \cup {"adapter", "wdf_device"}
  /\ field[a] \subseteq Timers \cup Queues \cup {"vif", "wdf_device"}
  /\ phase[a] = "none" => live[a] \subseteq {"wdf_device"} /\ field[a] = {} /\ tcbs[a] = 0
  /\ a \in adapterList => "adapter" \in live[a] /\ phase[a] \in Up \cup {"halt"}
  /\ phase[a] \in Up => a \in adapterList
  /\ phase[a] \in Up \ {"setup", "interface"} => "vif" \in field[a]
  /\ phase[a] \in {"halt", "timers", "free"} /\ rc[a] = "success" => "vif" \in field[a]
  /\ fault = "none" =>
       /\ phase[a] # "none" => "adapter" \in live[a]
       /\ phase[a] \in Up \cup {"halt", "timers"} => live[a] \ Apart = field[a] \ Apart
       /\ phase[a] = "free" => live[a] \ Apart = field[a] \cap Queues
       /\ phase[a] = "close" => live[a] \ Apart = {} /\ tcbs[a] = 0

AdapterInv ==
  /\ TypeOK
  /\ FreedOnce
  /\ StartedHaltsSafely
  /\ \A a \in Adapters : OneAdapter(a)

\* A step of adapter a leaves the other adapters alone.
LEMMA OthersKept ==
  ASSUME AdapterInv, NEW a \in Adapters, Running,
         \A e \in Adapters \ {a} :
           /\ phase'[e] = phase[e] /\ rc'[e] = rc[e] /\ live'[e] = live[e]
           /\ field'[e] = field[e] /\ tcbs'[e] = tcbs[e] /\ tcbFree'[e] = tcbFree[e]
           /\ e \in adapterList' <=> e \in adapterList,
         TypeOK', FreedOnce', StartedHaltsSafely', OneAdapter(a)'
  PROVE  AdapterInv'
<1>1. ASSUME NEW e \in Adapters \ {a} PROVE OneAdapter(e)'
  <2>1. OneAdapter(e) /\ fault = "none"
    BY DEF AdapterInv, Running
  <2> QED
    BY <2>1 DEF OneAdapter
<1> QED
  BY <1>1 DEF AdapterInv

\* The facts that every step below starts from.
LEMMA AdapterFacts ==
  ASSUME AdapterInv, NEW a \in Adapters
  PROVE  TypeOK /\ badfree = FALSE /\ OneAdapter(a)
BY DEF AdapterInv, TypeOK, FreedOnce

\* While nothing has gone wrong there is nothing to explain.
LEMMA NoFault ==
  ASSUME fault' = "none" PROVE StartedHaltsSafely'
BY DEF StartedHaltsSafely

\* VenetAlloc and VenetAttach, or the fault when there is no memory.
LEMMA InitializeKeeps ==
  ASSUME AdapterInv, NEW a \in Adapters, VenetInitialize(a)
  PROVE  AdapterInv'
<1>t. TypeOK /\ badfree = FALSE /\ OneAdapter(a) /\ Running /\ phase[a] = "none"
  BY AdapterFacts DEF VenetInitialize
<1>u. UNCHANGED <<tcbs, field, tcbFree, badfree, opened>>
  BY DEF VenetInitialize
<1>1. CASE /\ phase' = [phase EXCEPT ![a] = "setup"] /\ rc' = [rc EXCEPT ![a] = "success"]
           /\ live' = Add(live, a, {"adapter"}) /\ adapterList' = adapterList \cup {a}
           /\ UNCHANGED fault
  <2>1. TypeOK' /\ FreedOnce' /\ StartedHaltsSafely'
    BY <1>t, <1>u, <1>1, NoFault DEF TypeOK, Add, FreedOnce, Running
  <2>2. OneAdapter(a)'
    BY <1>t, <1>u, <1>1 DEF TypeOK, OneAdapter, Add, Up, Apart
  <2> QED
    BY <1>t, <1>u, <1>1, <2>1, <2>2, OthersKept DEF TypeOK, Add
<1>2. CASE /\ phase' = [phase EXCEPT ![a] = "halt"] /\ rc' = [rc EXCEPT ![a] = "failed"]
           /\ fault' = "adapter" /\ UNCHANGED <<live, adapterList>>
  <2>1. TypeOK' /\ FreedOnce' /\ StartedHaltsSafely'
    BY <1>t, <1>u, <1>2 DEF TypeOK, FreedOnce, StartedHaltsSafely
  <2>2. OneAdapter(a)'
    BY <1>t, <1>u, <1>2 DEF TypeOK, OneAdapter, Up
  <2> QED
    BY <1>t, <1>u, <1>2, <2>1, <2>2, OthersKept DEF TypeOK
<1> QED
  BY <1>1, <1>2 DEF VenetInitialize

\* The timers that were created are the ones the fields point to.
LEMMA SetupKeeps ==
  ASSUME AdapterInv, NEW a \in Adapters, VenetSetupAdapter(a)
  PROVE  AdapterInv'
<1>t. TypeOK /\ badfree = FALSE /\ OneAdapter(a) /\ Running /\ phase[a] = "setup"
  BY AdapterFacts DEF VenetSetupAdapter, Try, At
<1>1. PICK made \in SUBSET Timers, ok \in BOOLEAN :
        /\ Try(a, "setup", "interface", ok)
        /\ field' = Add(field, a, made) /\ live' = Add(live, a, made)
        /\ UNCHANGED <<adapterList, tcbs, tcbFree, badfree, opened, fault>>
  BY DEF VenetSetupAdapter, Timers
<1>2. TypeOK' /\ FreedOnce' /\ StartedHaltsSafely'
  BY <1>t, <1>1, NoFault DEF TypeOK, Add, Try, At, FreedOnce, Running, Timers, Pointers
<1>3. OneAdapter(a)'
  <2>1. live'[a] = live[a] \cup made /\ field'[a] = field[a] \cup made
    BY <1>t, <1>1 DEF TypeOK, Add
  <2>2. phase'[a] \in {"interface", "halt"} /\ (phase'[a] = "halt" => rc'[a] = "failed")
    BY <1>t, <1>1 DEF TypeOK, Try, At
  <2> QED
    BY <1>t, <1>1, <2>1, <2>2 DEF OneAdapter, Up, Running, Timers, Queues, Apart
<1> QED
  BY <1>t, <1>1, <1>2, <1>3, OthersKept DEF TypeOK, Add, Try, At

\* The last step of VenetInitialize allocates nothing.
LEMMA AttributesKeep ==
  ASSUME AdapterInv, NEW a \in Adapters, VenetSetAttributes(a)
  PROVE  AdapterInv'
<1>t. TypeOK /\ badfree = FALSE /\ OneAdapter(a) /\ Running
  BY AdapterFacts DEF VenetSetAttributes, Try, At
<1>1. /\ phase[a] = "attributes"
      /\ \/ phase' = [phase EXCEPT ![a] = "halt"] /\ rc' = [rc EXCEPT ![a] = "failed"]
         \/ phase' = [phase EXCEPT ![a] = "running"] /\ rc' = [rc EXCEPT ![a] = @]
      /\ UNCHANGED <<adapterList, live, tcbs, field, tcbFree, badfree, opened, fault>>
  BY DEF VenetSetAttributes, Try, At
<1>2. TypeOK' /\ FreedOnce' /\ StartedHaltsSafely'
  BY <1>t, <1>1, NoFault DEF TypeOK, FreedOnce, Running
<1>3. OneAdapter(a)'
  BY <1>t, <1>1 DEF TypeOK, OneAdapter, Up, Running
<1> QED
  BY <1>t, <1>1, <1>2, <1>3, OthersKept DEF TypeOK

\* Whether the interface is there or not, the WDFDEVICE may be; an adapter that goes
\* on has the interface that VenetHalt will follow.
LEMMA GetInterfaceKeeps ==
  ASSUME AdapterInv, NEW a \in Adapters, NoInterface(a) \/ VenetGetInterface(a)
  PROVE  AdapterInv'
<1>t. TypeOK /\ badfree = FALSE /\ OneAdapter(a) /\ Running /\ phase[a] = "interface"
  BY AdapterFacts DEF NoInterface, VenetGetInterface, Try, At
<1>1. PICK ok \in BOOLEAN, made \in SUBSET {"wdf_device"},
           stored \in SUBSET {"wdf_device", "vif"} :
        /\ Try(a, "interface", "rx", ok)
        /\ live' = Add(live, a, made) /\ field' = Add(field, a, stored)
        /\ ok => "vif" \in stored
  BY DEF NoInterface, VenetGetInterface
<1>2. /\ UNCHANGED <<adapterList, tcbs, tcbFree, badfree, fault>>
      /\ opened' = opened \/ opened' = opened \cup {a}
  BY DEF NoInterface, VenetGetInterface, VbusInterfaceOpen
<1>3. TypeOK' /\ FreedOnce' /\ StartedHaltsSafely'
  <2>1. live' \in [Adapters -> SUBSET (Pointers \cup {"adapter"})]
    BY <1>t, <1>1 DEF TypeOK, Add, Pointers
  <2>2. field' \in [Adapters -> SUBSET Pointers]
    BY <1>t, <1>1 DEF TypeOK, Add, Pointers
  <2>3. /\ phase' = [phase EXCEPT ![a] = "rx"] \/ phase' = [phase EXCEPT ![a] = "halt"]
        /\ rc' = [rc EXCEPT ![a] = @] \/ rc' = [rc EXCEPT ![a] = "failed"]
    BY <1>1 DEF Try, At
  <2> QED
    BY <1>t, <1>2, <2>1, <2>2, <2>3, NoFault DEF TypeOK, FreedOnce, Running
<1>4. OneAdapter(a)'
  <2>1. live'[a] = live[a] \cup made /\ field'[a] = field[a] \cup stored
    BY <1>t, <1>1 DEF TypeOK, Add
  <2>2. /\ phase'[a] = "rx" => "vif" \in stored
        /\ phase'[a] \in {"rx", "halt"} /\ (phase'[a] = "halt" => rc'[a] = "failed")
    BY <1>t, <1>1 DEF TypeOK, Try, At
  <2>3. live'[a] \ Apart = field'[a] \ Apart
    BY <1>t, <2>1 DEF OneAdapter, Up, Running, Apart
  <2> QED
    BY <1>t, <1>2, <2>1, <2>2, <2>3 DEF OneAdapter, Up, Running, Timers, Queues
<1> QED
  BY <1>t, <1>1, <1>2, <1>3, <1>4, OthersKept DEF TypeOK, Add, Try, At

\* The receive queue is allocated and stored, or neither.
LEMMA SetupRxKeeps ==
  ASSUME AdapterInv, NEW a \in Adapters, VenetSetupRx(a)
  PROVE  AdapterInv'
<1>t. TypeOK /\ badfree = FALSE /\ OneAdapter(a) /\ Running /\ phase[a] = "rx"
  BY AdapterFacts DEF VenetSetupRx, Try, At
<1>1. PICK ok \in BOOLEAN, made \in SUBSET Queues :
        /\ Try(a, "rx", "tx", ok)
        /\ field' = Add(field, a, made) /\ live' = Add(live, a, made)
  BY DEF VenetSetupRx, VbusInterfaceCreate, Queues
<1>2. UNCHANGED <<adapterList, tcbs, tcbFree, badfree, opened, fault>>
  BY DEF VenetSetupRx
<1>3. TypeOK' /\ FreedOnce' /\ StartedHaltsSafely'
  BY <1>t, <1>1, <1>2, NoFault DEF TypeOK, Add, Try, At, FreedOnce, Running, Queues, Pointers
<1>4. OneAdapter(a)'
  <2>1. live'[a] = live[a] \cup made /\ field'[a] = field[a] \cup made
    BY <1>t, <1>1 DEF TypeOK, Add
  <2>2. phase'[a] \in {"tx", "halt"}
    BY <1>t, <1>1 DEF TypeOK, Try, At
  <2> QED
    BY <1>t, <1>2, <2>1, <2>2 DEF OneAdapter, Up, Running, Timers, Queues, Apart
<1> QED
  BY <1>t, <1>1, <1>2, <1>3, <1>4, OthersKept DEF TypeOK, Add, Try, At

\* However many TCBs there was memory for, each of them is on the list.
LEMMA AllocTcbsKeeps ==
  ASSUME AdapterInv, NEW a \in Adapters, AllocTcbs(a)
  PROVE  AdapterInv'
<1>t. TypeOK /\ badfree = FALSE /\ OneAdapter(a) /\ Running /\ phase[a] = "tx"
  BY AdapterFacts DEF AllocTcbs, Try, At
<1>1. PICK n \in 0 .. NumTcbs :
        /\ Try(a, "tx", "create", n = NumTcbs)
        /\ tcbs' = [tcbs EXCEPT ![a] = n] /\ tcbFree' = [tcbFree EXCEPT ![a] = n]
  BY DEF AllocTcbs
<1>2. UNCHANGED <<adapterList, live, field, badfree, opened, fault>>
  BY DEF AllocTcbs
<1>3. TypeOK' /\ FreedOnce' /\ StartedHaltsSafely'
  BY <1>t, <1>1, <1>2, NoFault DEF TypeOK, Try, At, FreedOnce, Running
<1>4. OneAdapter(a)'
  <2>1. phase'[a] \in {"create", "halt"} /\ tcbs'[a] = tcbFree'[a]
    BY <1>t, <1>1 DEF TypeOK, Try, At
  <2> QED
    BY <1>t, <1>2, <2>1 DEF OneAdapter, Up, Running
<1> QED
  BY <1>t, <1>1, <1>2, <1>3, <1>4, OthersKept DEF TypeOK, Try, At

\* VenetFreeTx frees as many TCBs as there are, because all of them are on the list.
LEMMA FreeTcbsFreesAll ==
  ASSUME TypeOK, badfree = FALSE, NEW a \in Adapters, tcbs[a] = tcbFree[a], FreeTcbs(a)
  PROVE  /\ tcbs' = [tcbs EXCEPT ![a] = 0] /\ tcbFree' = [tcbFree EXCEPT ![a] = 0]
         /\ badfree' = FALSE
<1>1. tcbs[a] \in Nat /\ tcbFree[a] \in Nat
  BY AdapterAssumption DEF TypeOK
<1>2. tcbs[a] >= tcbFree[a] /\ tcbs[a] - tcbFree[a] = 0 /\ ~(tcbs[a] < tcbFree[a])
  BY <1>1
<1> QED
  BY <1>2 DEF FreeTcbs

\* Without its queue VenetSetupTx frees the TCBs, and leaves none for VenetHalt.
LEMMA CreateTxKeeps ==
  ASSUME AdapterInv, NEW a \in Adapters, CreateTx(a)
  PROVE  AdapterInv'
<1>t. TypeOK /\ badfree = FALSE /\ OneAdapter(a) /\ Running /\ phase[a] = "create"
  BY AdapterFacts DEF CreateTx, Try, At
<1>e. tcbs[a] = tcbFree[a]
  BY <1>t DEF OneAdapter
<1>1. PICK ok \in BOOLEAN :
        /\ Try(a, "create", "attributes", ok)
        /\ VbusInterfaceCreate(a, "txHandle", ok)
        /\ IF ok THEN UNCHANGED <<tcbs, tcbFree, badfree>> ELSE FreeTcbs(a)
  BY DEF CreateTx
<1>2. UNCHANGED <<adapterList, opened, fault>>
  BY DEF CreateTx
<1>3. /\ badfree' = FALSE /\ tcbs'[a] = tcbFree'[a]
      /\ \/ UNCHANGED <<tcbs, tcbFree>>
         \/ tcbs' = [tcbs EXCEPT ![a] = 0] /\ tcbFree' = [tcbFree EXCEPT ![a] = 0]
  <2>1. CASE ok
    BY <1>t, <1>e, <1>1, <2>1
  <2>2. CASE ~ok
    <3>1. /\ tcbs' = [tcbs EXCEPT ![a] = 0] /\ tcbFree' = [tcbFree EXCEPT ![a] = 0]
          /\ badfree' = FALSE
      BY <1>t, <1>e, <1>1, <2>2, FreeTcbsFreesAll
    <3> QED
      BY <1>t, <3>1 DEF TypeOK
  <2> QED
    BY <2>1, <2>2
<1>4. PICK made \in SUBSET Queues : field' = Add(field, a, made) /\ live' = Add(live, a, made)
  BY <1>1 DEF VbusInterfaceCreate, Queues
<1>5. TypeOK' /\ FreedOnce' /\ StartedHaltsSafely'
  <2>1. tcbs' \in [Adapters -> 0 .. NumTcbs] /\ tcbFree' \in [Adapters -> 0 .. NumTcbs]
    BY <1>t, <1>3, AdapterAssumption DEF TypeOK
  <2> QED
    BY <1>t, <1>1, <1>2, <1>3, <1>4, <2>1, NoFault
    DEF TypeOK, Add, Try, At, FreedOnce, Running, Queues, Pointers
<1>6. OneAdapter(a)'
  <2>1. live'[a] = live[a] \cup made /\ field'[a] = field[a] \cup made
    BY <1>t, <1>4 DEF TypeOK, Add
  <2>2. phase'[a] \in {"attributes", "halt"}
    BY <1>t, <1>1 DEF TypeOK, Try, At
  <2> QED
    BY <1>t, <1>2, <1>3, <2>1, <2>2 DEF OneAdapter, Up, Running, Timers, Queues, Apart
<1>7. \A e \in Adapters \ {a} : phase'[e] = phase[e] /\ rc'[e] = rc[e]
  BY <1>t, <1>1 DEF TypeOK, Try, At
<1>8. \A e \in Adapters \ {a} : live'[e] = live[e] /\ field'[e] = field[e]
  BY <1>t, <1>4 DEF TypeOK, Add
<1>9. \A e \in Adapters \ {a} : tcbs'[e] = tcbs[e] /\ tcbFree'[e] = tcbFree[e]
  BY <1>t, <1>3 DEF TypeOK
<1> QED
  BY <1>t, <1>2, <1>5, <1>6, <1>7, <1>8, <1>9, OthersKept

\* The adapter leaves adapterList before anything of it is freed.
LEMMA DetachKeeps ==
  ASSUME AdapterInv, NEW a \in Adapters, NdisHalts(a) \/ VenetDetach(a)
  PROVE  AdapterInv'
<1>t. TypeOK /\ badfree = FALSE /\ OneAdapter(a) /\ Running
  BY AdapterFacts DEF NdisHalts, VenetDetach, At
<1>1. /\ \/ /\ phase[a] = "running" /\ phase' = [phase EXCEPT ![a] = "halt"]
            /\ UNCHANGED adapterList
         \/ /\ phase[a] = "halt" /\ phase' = [phase EXCEPT ![a] = "timers"]
            /\ adapterList' = adapterList \ {a}
      /\ UNCHANGED <<rc, live, tcbs, field, tcbFree, badfree, opened, fault>>
  BY DEF NdisHalts, VenetDetach, At
<1>2. TypeOK' /\ FreedOnce' /\ StartedHaltsSafely'
  BY <1>t, <1>1, NoFault DEF TypeOK, FreedOnce, Running
<1>3. OneAdapter(a)'
  BY <1>t, <1>1 DEF TypeOK, OneAdapter, Up, Running
<1> QED
  BY <1>t, <1>1, <1>2, <1>3, OthersKept DEF TypeOK

\* The timers that the fields point to are allocated.
LEMMA FreeTimersKeeps ==
  ASSUME AdapterInv, NEW a \in Adapters, FreeTimers(a)
  PROVE  AdapterInv'
<1>t. TypeOK /\ badfree = FALSE /\ OneAdapter(a) /\ fault = "none" /\ phase[a] = "timers"
  BY AdapterFacts DEF FreeTimers, At, Running
<1>1. /\ phase' = [phase EXCEPT ![a] = "free"]
      /\ live' = Drop(live, a, field[a] \cap Timers)
      /\ UNCHANGED <<rc, adapterList, tcbs, field, tcbFree, opened, fault>>
  BY DEF FreeTimers, At, Timers
<1>2. field[a] \cap Timers \subseteq live[a]
  BY <1>t DEF OneAdapter, Timers, Apart
<1>3. badfree' = FALSE
  BY <1>t, <1>2 DEF FreeTimers, Timers
<1>4. TypeOK' /\ FreedOnce' /\ StartedHaltsSafely'
  BY <1>t, <1>1, <1>3, NoFault DEF TypeOK, Drop, FreedOnce
<1>5. OneAdapter(a)'
  <2>1. live'[a] = live[a] \ (field[a] \cap Timers) /\ phase'[a] = "free"
    BY <1>t, <1>1 DEF TypeOK, Drop
  <2>2. live'[a] \ Apart = field[a] \cap Queues /\ "adapter" \in live'[a]
    BY <1>t, <2>1 DEF OneAdapter, Timers, Queues, Apart
  <2> QED
    BY <1>t, <1>1, <2>1, <2>2 DEF OneAdapter, Up
<1> QED
  BY <1>t, <1>1, <1>4, <1>5, OthersKept DEF TypeOK, Drop, Running

\* Following vif.destroy when there is no interface stops the system, and only a
\* VenetInitialize that failed leads there.
LEMMA FreeQueuesKeeps ==
  ASSUME AdapterInv, NEW a \in Adapters, FreeQueues(a)
  PROVE  AdapterInv'
<1>t. TypeOK /\ badfree = FALSE /\ OneAdapter(a) /\ fault = "none" /\ phase[a] = "free"
  BY AdapterFacts DEF FreeQueues, At, Running
<1>g. phase' = [phase EXCEPT ![a] = "close"] /\ UNCHANGED <<rc, adapterList, opened>>
  BY DEF FreeQueues, At
<1>1. CASE "vif" \notin field[a]
  <2>1. fault' = "vif" /\ UNCHANGED <<live, tcbs, field, tcbFree, badfree>>
    BY <1>1 DEF FreeQueues
  <2>2. rc[a] = "failed"
    BY <1>t, <1>1 DEF OneAdapter, TypeOK
  <2>3. TypeOK' /\ FreedOnce' /\ StartedHaltsSafely'
    BY <1>t, <1>g, <2>1, <2>2 DEF TypeOK, FreedOnce, StartedHaltsSafely
  <2>4. OneAdapter(a)'
    BY <1>t, <1>g, <2>1 DEF OneAdapter, TypeOK, Up
  <2> QED
    BY <1>t, <1>g, <2>1, <2>3, <2>4, OthersKept DEF TypeOK, Running
<1>2. CASE "vif" \in field[a]
  <2>1. /\ FreeTcbs(a) /\ VbusInterfaceDestroy(a, {"rxHandle", "txHandle"}) /\ UNCHANGED fault
    BY <1>2 DEF FreeQueues
  <2>2. tcbs' = [tcbs EXCEPT ![a] = 0] /\ tcbFree' = [tcbFree EXCEPT ![a] = 0] /\ badfree' = FALSE
    BY <1>t, <2>1, FreeTcbsFreesAll DEF OneAdapter
  <2>3. /\ live' = Drop(live, a, field[a] \cap Queues)
        /\ field' = Drop(field, a, field[a] \cap Queues)
    BY <2>1 DEF VbusInterfaceDestroy, Queues
  <2>4. TypeOK' /\ FreedOnce' /\ StartedHaltsSafely'
    <3>1. tcbs' \in [Adapters -> 0 .. NumTcbs] /\ tcbFree' \in [Adapters -> 0 .. NumTcbs]
      BY <1>t, <2>2, AdapterAssumption DEF TypeOK
    <3> QED
      BY <1>t, <1>g, <2>1, <2>2, <2>3, <3>1, NoFault DEF TypeOK, Drop, FreedOnce
  <2>5. OneAdapter(a)'
    <3>1. /\ live'[a] = live[a] \ (field[a] \cap Queues) /\ phase'[a] = "close"
          /\ field'[a] = field[a] \ (field[a] \cap Queues)
          /\ tcbs'[a] = 0 /\ tcbFree'[a] = 0
      BY <1>t, <1>g, <2>2, <2>3 DEF TypeOK, Drop
    <3>2. live'[a] \ Apart = {} /\ "adapter" \in live'[a]
      BY <1>t, <3>1 DEF OneAdapter, Queues, Apart
    <3> QED
      BY <1>t, <1>g, <2>1, <3>1, <3>2 DEF OneAdapter, Up
  <2> QED
    BY <1>t, <1>g, <2>1, <2>2, <2>3, <2>4, <2>5, OthersKept DEF TypeOK, Drop, Running
<1> QED
  BY <1>1, <1>2

\* By then nothing but the adapter is left.
LEMMA CloseKeeps ==
  ASSUME AdapterInv, NEW a \in Adapters, VenetClose(a)
  PROVE  AdapterInv'
<1>t. TypeOK /\ badfree = FALSE /\ OneAdapter(a) /\ fault = "none" /\ phase[a] = "close"
  BY AdapterFacts DEF VenetClose, At, Running
<1>1. /\ phase' = [phase EXCEPT ![a] = "none"] /\ VbusInterfaceClose(a)
      /\ live' = Drop(live, a, {"adapter"}) /\ field' = [field EXCEPT ![a] = {}]
      /\ UNCHANGED <<rc, adapterList, tcbs, tcbFree, fault>>
  BY DEF VenetClose, At
<1>2. "adapter" \in live[a] /\ live[a] \subseteq {"adapter", "wdf_device"} /\ tcbs[a] = 0
  BY <1>t DEF OneAdapter, Apart, Timers, Queues
<1>3. badfree' = FALSE
  BY <1>t, <1>2 DEF VenetClose
<1>4. TypeOK' /\ FreedOnce' /\ StartedHaltsSafely'
  BY <1>t, <1>1, <1>3, NoFault DEF TypeOK, Drop, VbusInterfaceClose, FreedOnce
<1>5. OneAdapter(a)'
  <2>1. live'[a] \subseteq {"wdf_device"} /\ field'[a] = {} /\ phase'[a] = "none"
    BY <1>t, <1>1, <1>2 DEF TypeOK, Drop
  <2> QED
    BY <1>t, <1>1, <1>2, <2>1 DEF OneAdapter, Up
<1> QED
  BY <1>t, <1>1, <1>4, <1>5, OthersKept DEF TypeOK, Drop, Running

\* Every step of VenetInitialize and VenetHalt preserves the invariant.
LEMMA NextAdapter == AdapterInv /\ [Next]_vars => AdapterInv'
<1> SUFFICES ASSUME AdapterInv, [Next]_vars PROVE AdapterInv'
  OBVIOUS
<1>1. CASE UNCHANGED vars
  <2>1. TypeOK' /\ FreedOnce' /\ StartedHaltsSafely'
    BY <1>1 DEF vars, AdapterInv, TypeOK, FreedOnce, StartedHaltsSafely
  <2>2. \A a \in Adapters : OneAdapter(a)'
    BY <1>1 DEF vars, AdapterInv, OneAdapter
  <2> QED
    BY <2>1, <2>2 DEF AdapterInv
<1>2. ASSUME NEW a \in Adapters, Initialize(a) PROVE AdapterInv'
  BY <1>2, InitializeKeeps, SetupKeeps, GetInterfaceKeeps, SetupRxKeeps, AllocTcbsKeeps,
     CreateTxKeeps, AttributesKeep DEF Initialize
<1>3. ASSUME NEW a \in Adapters, Halt(a) PROVE AdapterInv'
  BY <1>3, DetachKeeps, FreeTimersKeeps, FreeQueuesKeeps, CloseKeeps DEF Halt
<1> QED
  BY <1>1, <1>2, <1>3 DEF Next

\* The inductive invariant of the adapters' lives.
LEMMA AdapterInvariance == Spec => []AdapterInv
<1>1. Init => AdapterInv
  <2> SUFFICES ASSUME Init PROVE AdapterInv
    OBVIOUS
  <2>1. 0 \in 0 .. NumTcbs
    BY AdapterAssumption
  <2>2. TypeOK /\ FreedOnce /\ StartedHaltsSafely
    BY <2>1 DEF Init, TypeOK, FreedOnce, StartedHaltsSafely
  <2>3. ASSUME NEW a \in Adapters PROVE OneAdapter(a)
    BY DEF Init, OneAdapter, Up
  <2> QED
    BY <2>2, <2>3 DEF AdapterInv
<1> QED
  BY <1>1, NextAdapter, PTL DEF Spec
\* For any number of adapters and TCBs: when VenetHalt returns, called by NDIS or
\* after a start that failed at the open or later, nothing is left but the WDFDEVICE.
THEOREM AdaptersGiveBack == Spec => []HaltGivesBack
<1>1. AdapterInv => HaltGivesBack
  BY DEF AdapterInv, OneAdapter, HaltGivesBack
<1> QED
  BY <1>1, AdapterInvariance, PTL

\* adapterList never holds an adapter that was freed, and holds each one in use.
THEOREM ListHoldsLiveAdapters == Spec => []ListedAreLive
<1>1. AdapterInv => ListedAreLive
  <2> SUFFICES ASSUME AdapterInv PROVE ListedAreLive
    OBVIOUS
  <2>1. adapterList \subseteq Adapters /\ \A a \in Adapters : OneAdapter(a)
    BY DEF AdapterInv, TypeOK
  <2>2. ASSUME NEW a \in adapterList PROVE "adapter" \in live[a]
    BY <2>1 DEF OneAdapter
  <2>3. ASSUME NEW a \in Adapters, phase[a] = "running" PROVE a \in adapterList
    BY <2>1, <2>3 DEF OneAdapter, Up
  <2> QED
    BY <2>2, <2>3 DEF ListedAreLive
<1> QED
  BY <1>1, AdapterInvariance, PTL

\* VenetFreeTx in VenetSetupTx and again in VenetHalt frees no TCB twice, and no
\* timer, queue or adapter is freed twice.
THEOREM AdaptersFreeOnce == Spec => []FreedOnce
<1>1. AdapterInv => FreedOnce
  BY DEF AdapterInv
<1> QED
  BY <1>1, AdapterInvariance, PTL

\* Only a VenetInitialize that failed runs VenetHalt into a null pointer.
THEOREM OnlyFailedStartsFault == Spec => []StartedHaltsSafely
<1>1. AdapterInv => StartedHaltsSafely
  BY DEF AdapterInv
<1> QED
  BY <1>1, AdapterInvariance, PTL

-----------------------------------------------------------------------------
(***************************************************************************)
(* What the requests compute.                                              *)
(***************************************************************************)
Short(r) == r.rc \in {"invalid_length", "buffer_overflow", "multicast_full"}

\* A query stays inside the caller's buffer, and a buffer of the length that a
\* short one is told to bring is answered.
LEMMA QueryContract ==
  ASSUME NEW oid, NEW len \in Nat
  PROVE  LET r == venet_oid_query(oid, len) IN
         /\ r.count \in Nat /\ r.needed \in Nat
         /\ r.count <= len
         /\ Short(r) => /\ r.count = 0 /\ r.needed > len
                        /\ venet_oid_query(oid, r.needed).rc = "success"
<1>s. StatisticsSize \in Nat /\ ModerationSize \in Nat
  BY OidAssumption
<1>z. Size(oid) \in Nat
  BY DEF Size, Ulong64Size, ETH_LENGTH_OF_ADDRESS, VendorDescSize, UlongSize
<1>1. CASE oid = "STATISTICS"
  BY <1>s, <1>1 DEF venet_oid_query, venet_gen_stats, Reply, Short
<1>2. CASE oid = "INTERRUPT_MODERATION"
  BY <1>s, <1>2 DEF venet_oid_query, venet_intr_mod, Reply, Short
<1>3. CASE oid \notin {"STATISTICS", "INTERRUPT_MODERATION"}
  BY <1>z, <1>3 DEF venet_oid_query, Reply, Short
<1> QED
  BY <1>1, <1>2, <1>3

\* A multicast list of the length that a refused one is told to bring fits.
LEMMA McastContract ==
  ASSUME NEW len \in Nat
  PROVE  /\ McastReply(len).count \in Nat /\ McastReply(len).needed \in Nat
         /\ McastReply(McastReply(len).needed).rc = "success"
         /\ McastReply(len).rc = "success" =>
              len \div 6 \in 0 .. NIC_MAX_MCAST_LIST
<1>1. NIC_MAX_MCAST_LIST \in Nat /\ NIC_MAX_MCAST_LIST >= 1
  BY OidAssumption
<1>2. MaxListLength \in Nat /\ MaxListLength % 6 = 0 /\ MaxListLength >= 6
  BY <1>1 DEF MaxListLength, ETH_LENGTH_OF_ADDRESS
<1>3. McastReply(6).rc = "success" /\ McastReply(MaxListLength).rc = "success"
  BY <1>2 DEF McastReply, ETH_LENGTH_OF_ADDRESS, Reply
<1>4. /\ McastReply(len).needed \in {6, MaxListLength} /\ McastReply(len).count = len
      /\ McastReply(len).rc = "success" => len <= MaxListLength
  BY <1>2 DEF McastReply, ETH_LENGTH_OF_ADDRESS, Reply
<1>5. len <= MaxListLength => len \div 6 \in 0 .. NIC_MAX_MCAST_LIST
  BY <1>1 DEF MaxListLength, ETH_LENGTH_OF_ADDRESS
<1> QED
  BY <1>2, <1>3, <1>4, <1>5

\* A packet filter of the length that a refused one is told to bring is accepted.
LEMMA FilterContract ==
  ASSUME NEW len \in Nat, NEW pf
  PROVE  /\ FilterReply(len, pf).count \in Nat /\ FilterReply(len, pf).needed \in Nat
         /\ FilterReply(FilterReply(len, pf).needed, {}).rc = "success"
         /\ FilterReply(len, pf).rc = "success" => pf \subseteq SupportedFilters
BY DEF FilterReply, Reply, UlongSize

\* What the multicast array holds after the copy.
LEMMA PlacedType ==
  ASSUME NEW list \in Seq(Addresses)
  PROVE  Placed(list) \in [1 .. NIC_MAX_MCAST_LIST -> Addresses \cup {ZeroAddress}]
<1>1. NIC_MAX_MCAST_LIST \in Nat /\ Len(list) \in Nat
  BY OidAssumption
<1>2. ASSUME NEW i \in 1 .. NIC_MAX_MCAST_LIST
      PROVE  (IF i <= Len(list) THEN list[i] ELSE ZeroAddress) \in Addresses \cup {ZeroAddress}
  BY <1>1
<1> QED
  BY <1>2 DEF Placed

-----------------------------------------------------------------------------
(***************************************************************************)
(* What an adapter holds.                                                  *)
(***************************************************************************)
OidRecord ==
  [packetFilter : SUBSET SupportedFilters, lookAhead : Nat, mc_size : 0 .. NIC_MAX_MCAST_LIST,
   mc_array : [1 .. NIC_MAX_MCAST_LIST -> Addresses \cup {ZeroAddress}]]

AcceptRecord == [filter : SUBSET SupportedFilters, list : Seq(Addresses)]

\* The adapter's record o is what the accepted sets h leave in it.
Holds(o, h) ==
  /\ o.packetFilter = h.filter
  /\ o.mc_size = Len(h.list)
  /\ o.mc_array = Placed(h.list)

\* A multicast set replaces the whole list or nothing.
LEMMA SetMcastHolds ==
  ASSUME NEW o \in OidRecord, NEW h \in AcceptRecord, NEW len \in Nat,
         NEW list \in [1 .. len \div ETH_LENGTH_OF_ADDRESS -> Addresses]
  PROVE  LET to == IF McastReply(len).rc = "success" THEN [h EXCEPT !.list = list] ELSE h IN
         /\ set_mcast_list(o, len, list) \in OidRecord /\ to \in AcceptRecord
         /\ Holds(o, h) => Holds(set_mcast_list(o, len, list), to)
<1>1. CASE McastReply(len).rc # "success"
  BY <1>1 DEF set_mcast_list
<1>2. CASE McastReply(len).rc = "success"
  <2>1. PICK n \in 0 .. NIC_MAX_MCAST_LIST : n = len \div 6
    BY <1>2, McastContract
  <2>2. n \in Nat /\ list \in [1 .. n -> Addresses]
    BY <2>1, OidAssumption DEF ETH_LENGTH_OF_ADDRESS
  <2>3. list \in Seq(Addresses) /\ Len(list) = n
    BY <2>2, SeqDef
  <2>4. Placed(list) \in [1 .. NIC_MAX_MCAST_LIST -> Addresses \cup {ZeroAddress}]
    BY <2>3, PlacedType
  <2>5. set_mcast_list(o, len, list) = [o EXCEPT !.mc_size = n, !.mc_array = Placed(list)]
    BY <1>2, <2>1 DEF set_mcast_list, ETH_LENGTH_OF_ADDRESS
  <2>6. [o EXCEPT !.mc_size = n, !.mc_array = Placed(list)] \in OidRecord
    BY <2>4 DEF OidRecord
  <2>7. [h EXCEPT !.list = list] \in AcceptRecord
    BY <2>3 DEF AcceptRecord
  <2>8. Holds(o, h) => Holds([o EXCEPT !.mc_size = n, !.mc_array = Placed(list)],
                             [h EXCEPT !.list = list])
    BY <2>3 DEF Holds, OidRecord, AcceptRecord
  <2> QED
    BY <1>2, <2>5, <2>6, <2>7, <2>8
<1> QED
  BY <1>1, <1>2

\* A filter with an unsupported bit, or of the wrong length, changes nothing.
LEMMA SetFilterHolds ==
  ASSUME NEW o \in OidRecord, NEW h \in AcceptRecord, NEW len \in Nat, NEW pf
  PROVE  LET to == IF FilterReply(len, pf).rc = "success" THEN [h EXCEPT !.filter = pf] ELSE h IN
         /\ set_pkt_filter(o, len, pf) \in OidRecord /\ to \in AcceptRecord
         /\ Holds(o, h) => Holds(set_pkt_filter(o, len, pf), to)
<1>1. CASE FilterReply(len, pf).rc # "success"
  BY <1>1 DEF set_pkt_filter
<1>2. CASE FilterReply(len, pf).rc = "success"
  <2>1. pf \in SUBSET SupportedFilters
    BY <1>2, FilterContract
  <2> QED
    BY <1>2, <2>1 DEF set_pkt_filter, Holds, OidRecord, AcceptRecord
<1> QED
  BY <1>1, <1>2

\* A lookahead concerns neither.
LEMMA SetLookaheadHolds ==
  ASSUME NEW o \in OidRecord, NEW h, NEW len, NEW value \in Nat
  PROVE  /\ SetLookahead(o, len, value) \in OidRecord
         /\ Holds(o, h) => Holds(SetLookahead(o, len, value), h)
BY DEF SetLookahead, OidRecord, Holds

\* A zeroed adapter holds what no set has left in it.
LEMMA ZeroesHold ==
  Zeroes \in OidRecord /\ NothingAccepted \in AcceptRecord /\ Holds(Zeroes, NothingAccepted)
<1>1. <<>> \in Seq(Addresses) /\ Len(<<>>) = 0 /\ 0 \in 0 .. NIC_MAX_MCAST_LIST
  BY OidAssumption
<1>2. Placed(<<>>) \in [1 .. NIC_MAX_MCAST_LIST -> Addresses \cup {ZeroAddress}]
  BY <1>1, PlacedType
<1> QED
  BY <1>1, <1>2 DEF Zeroes, NothingAccepted, Holds, OidRecord, AcceptRecord

-----------------------------------------------------------------------------
InUse(a) == phase[a] # "none" /\ "adapter" \in live[a]

\* The records and their history; an adapter being set up has accepted nothing.
StoreInv ==
  /\ oids \in [Adapters -> OidRecord]
  /\ accepted \in [Adapters -> AcceptRecord]
  /\ \A a \in Adapters : phase[a] = "setup" => accepted[a] = NothingAccepted
  /\ \A a \in Adapters : InUse(a) => Holds(oids[a], accepted[a])

ReplyInv ==
  /\ reply.len \in Nat /\ reply.to.count \in Nat /\ reply.to.needed \in Nat
  /\ ReplyContract

\* A request replies as the contract says.
LEMMA RequestReplies ==
  ASSUME NEW a \in Adapters, VenetOidRequest(a)
  PROVE  ReplyInv'
<1> USE OidAssumption
<1>1. ASSUME NEW type, NEW oid, NEW len \in Nat, NEW r, r.count \in Nat, r.needed \in Nat,
             Request(a, type, oid, len, r),
             type = "query" => /\ r.count <= len
                               /\ Short(r) => /\ r.count = 0 /\ r.needed > len
                                              /\ venet_oid_query(oid, r.needed).rc = "success",
             type = "set" /\ Short(r) =>
               /\ oid = "MULTICAST_LIST" => McastReply(r.needed).rc = "success"
               /\ oid = "CURRENT_PACKET_FILTER" => FilterReply(r.needed, {}).rc = "success"
      PROVE  ReplyInv'
  BY <1>1 DEF Request, ReplyInv, ReplyContract, Short
<1>2. CASE OidQuery(a)
  <2>1. PICK oid \in Oids, len \in Lengths : Request(a, "query", oid, len, venet_oid_query(oid, len))
    BY <1>2 DEF OidQuery
  <2>2. len \in Nat
    OBVIOUS
  <2> QED
    BY <1>1, <2>1, <2>2, QueryContract
<1>3. CASE OidSetMcast(a)
  <2>1. PICK len \in Lengths : Request(a, "set", "MULTICAST_LIST", len, McastReply(len))
    BY <1>3 DEF OidSetMcast
  <2>2. len \in Nat
    OBVIOUS
  <2> QED
    BY <1>1, <2>1, <2>2, McastContract
<1>4. CASE OidSetFilter(a)
  <2>1. PICK len \in Lengths, pf \in SUBSET (SupportedFilters \cup OtherFilters) :
          Request(a, "set", "CURRENT_PACKET_FILTER", len, FilterReply(len, pf))
    BY <1>4 DEF OidSetFilter
  <2>2. len \in Nat
    OBVIOUS
  <2> QED
    BY <1>1, <2>1, <2>2, FilterContract
<1>5. CASE OidSetLookahead(a)
  <2>1. PICK len \in Lengths : Request(a, "set", "CURRENT_LOOKAHEAD", len, LookaheadReply(len))
    BY <1>5 DEF OidSetLookahead
  <2>2. len \in Nat /\ LookaheadReply(len).count \in Nat /\ LookaheadReply(len).needed \in Nat
    BY DEF LookaheadReply, Reply, UlongSize
  <2> QED
    BY <1>1, <2>1, <2>2
<1>6. CASE OidSetOther(a)
  <2>1. PICK oid \in Oids \ {"MULTICAST_LIST", "CURRENT_PACKET_FILTER", "CURRENT_LOOKAHEAD"},
             len \in Lengths : Request(a, "set", oid, len, RefuseReply(oid))
    BY <1>6 DEF OidSetOther
  <2>2. len \in Nat /\ RefuseReply(oid).count \in Nat /\ RefuseReply(oid).needed \in Nat
    BY DEF RefuseReply, Reply, UlongSize
  <2> QED
    BY <1>1, <2>1, <2>2
<1>7. CASE OidOtherType(a)
  <2>1. Reply("not_supported", 0, 0).count \in Nat /\ Reply("not_supported", 0, 0).needed \in Nat
    BY DEF Reply
  <2> QED
    BY <1>1, <1>7, <2>1 DEF OidOtherType
<1> QED
  BY <1>2, <1>3, <1>4, <1>5, <1>6, <1>7 DEF VenetOidRequest

\* A set stores what it accepts in the adapter it was made on.
LEMMA RequestStores ==
  ASSUME StoreInv, NEW a \in Adapters, VenetOidRequest(a)
  PROVE  StoreInv'
<1>t. oids[a] \in OidRecord /\ accepted[a] \in AcceptRecord
  BY DEF StoreInv
<1>g. phase[a] = "running" /\ UNCHANGED <<phase, live>>
  BY DEF VenetOidRequest, OidQuery, OidSetMcast, OidSetFilter, OidSetLookahead, OidSetOther,
         OidOtherType, Request, vars
<1>1. ASSUME NEW o \in OidRecord, NEW h \in AcceptRecord,
             Holds(oids[a], accepted[a]) => Holds(o, h),
             oids' = [oids EXCEPT ![a] = o], accepted' = [accepted EXCEPT ![a] = h]
      PROVE  StoreInv'
  <2>1. oids' \in [Adapters -> OidRecord] /\ accepted' \in [Adapters -> AcceptRecord]
    BY <1>1 DEF StoreInv
  <2>2. ASSUME NEW e \in Adapters, phase'[e] = "setup" PROVE accepted'[e] = NothingAccepted
    BY <1>1, <1>g, <2>2 DEF StoreInv
  <2>3. ASSUME NEW e \in Adapters, InUse(e)' PROVE Holds(oids'[e], accepted'[e])
    <3>1. InUse(e)
      BY <1>g, <2>3 DEF InUse
    <3>2. Holds(oids[e], accepted[e])
      BY <3>1 DEF StoreInv
    <3>3. CASE e = a
      <4>1. oids'[e] = o /\ accepted'[e] = h
        BY <1>1, <3>3 DEF StoreInv
      <4> QED
        BY <1>1, <3>2, <3>3, <4>1
    <3>4. CASE e # a
      <4>1. oids'[e] = oids[e] /\ accepted'[e] = accepted[e]
        BY <1>1, <3>4 DEF StoreInv
      <4> QED
        BY <3>2, <4>1
    <3> QED
      BY <3>3, <3>4
  <2>4. ASSUME NEW e \in Adapters, InUse(e)' PROVE Holds(oids[e], accepted[e])'
    BY <2>3, <2>4 DEF Holds
  <2> QED
    BY <2>1, <2>2, <2>4 DEF StoreInv
<1>2. CASE UNCHANGED <<oids, accepted>>
  <2>1. oids' = [oids EXCEPT ![a] = oids[a]] /\ accepted' = [accepted EXCEPT ![a] = accepted[a]]
    BY <1>2 DEF StoreInv
  <2> QED
    BY <1>1, <1>t, <2>1
<1>3. CASE OidSetMcast(a)
  <2>1. PICK len \in Lengths : \E list \in [1 .. len \div ETH_LENGTH_OF_ADDRESS -> Addresses] :
          /\ oids' = [oids EXCEPT ![a] = set_mcast_list(@, len, list)]
          /\ Accept(a, McastReply(len), "list", list)
    BY <1>3 DEF OidSetMcast
  <2>2. PICK list \in [1 .. len \div ETH_LENGTH_OF_ADDRESS -> Addresses] :
          /\ oids' = [oids EXCEPT ![a] = set_mcast_list(oids[a], len, list)]
          /\ Accept(a, McastReply(len), "list", list)
    BY <2>1
  <2>3. len \in Nat
    BY OidAssumption
  <2>4. PICK h : h = IF McastReply(len).rc = "success" THEN [accepted[a] EXCEPT !.list = list]
                                                       ELSE accepted[a]
    OBVIOUS
  <2>5. accepted' = [accepted EXCEPT ![a] = h]
    BY <2>2, <2>4 DEF Accept, StoreInv
  <2>6. /\ set_mcast_list(oids[a], len, list) \in OidRecord /\ h \in AcceptRecord
        /\ Holds(oids[a], accepted[a]) => Holds(set_mcast_list(oids[a], len, list), h)
    BY <1>t, <2>2, <2>3, <2>4, SetMcastHolds
  <2> QED
    BY <1>1, <2>2, <2>5, <2>6
<1>4. CASE OidSetFilter(a)
  <2>1. PICK len \in Lengths, pf \in SUBSET (SupportedFilters \cup OtherFilters) :
          /\ oids' = [oids EXCEPT ![a] = set_pkt_filter(oids[a], len, pf)]
          /\ Accept(a, FilterReply(len, pf), "filter", pf)
    BY <1>4 DEF OidSetFilter
  <2>2. len \in Nat
    BY OidAssumption
  <2>3. PICK h : h = IF FilterReply(len, pf).rc = "success" THEN [accepted[a] EXCEPT !.filter = pf]
                                                            ELSE accepted[a]
    OBVIOUS
  <2>4. accepted' = [accepted EXCEPT ![a] = h]
    BY <2>1, <2>3 DEF Accept, StoreInv
  <2>5. /\ set_pkt_filter(oids[a], len, pf) \in OidRecord /\ h \in AcceptRecord
        /\ Holds(oids[a], accepted[a]) => Holds(set_pkt_filter(oids[a], len, pf), h)
    BY <1>t, <2>2, <2>3, SetFilterHolds
  <2> QED
    BY <1>1, <2>1, <2>4, <2>5
<1>5. CASE OidSetLookahead(a)
  <2>1. PICK len \in Lengths, value \in Lookaheads :
          oids' = [oids EXCEPT ![a] = SetLookahead(oids[a], len, value)]
    BY <1>5 DEF OidSetLookahead
  <2>2. value \in Nat
    BY OidAssumption
  <2>3. accepted' = [accepted EXCEPT ![a] = accepted[a]]
    BY <1>5 DEF OidSetLookahead, StoreInv
  <2>4. /\ SetLookahead(oids[a], len, value) \in OidRecord
        /\ Holds(oids[a], accepted[a]) => Holds(SetLookahead(oids[a], len, value), accepted[a])
    BY <1>t, <2>2, SetLookaheadHolds
  <2> QED
    BY <1>1, <1>t, <2>1, <2>3, <2>4
<1> QED
  BY <1>2, <1>3, <1>4, <1>5 DEF VenetOidRequest, OidQuery, OidSetOther, OidOtherType

\* An adapter comes into use by its allocation and in no other way.
LEMMA ComesIntoUse ==
  ASSUME AdapterInv, Next, NEW a \in Adapters, InUse(a)'
  PROVE  InUse(a) \/ (phase[a] = "none" /\ phase'[a] = "setup")
<1>1. PICK e \in Adapters : Initialize(e) \/ Halt(e)
  BY DEF Next
<1>2. fault = "none"
  BY <1>1 DEF Initialize, Halt, VenetInitialize, VenetSetupAdapter, NoInterface, VenetGetInterface,
              VenetSetupRx, AllocTcbs, CreateTx, VenetSetAttributes, NdisHalts, VenetDetach,
              FreeTimers, FreeQueues, VenetClose, Try, At, Running
<1>3. CASE phase[a] # "none"
  BY <1>2, <1>3 DEF AdapterInv, OneAdapter, InUse
<1>4. CASE phase[a] = "none"
  <2>1. "adapter" \notin live[a]
    BY <1>4 DEF AdapterInv, OneAdapter
  <2>2. e = a
    <3>1. e # a => phase'[a] = phase[a]
      BY <1>1 DEF Initialize, Halt, VenetInitialize, VenetSetupAdapter, NoInterface,
                  VenetGetInterface, VenetSetupRx, AllocTcbs, CreateTx, VenetSetAttributes,
                  NdisHalts, VenetDetach, FreeTimers, FreeQueues, VenetClose, Try, At,
                  AdapterInv, TypeOK
    <3> QED
      BY <1>4, <3>1 DEF InUse
  <2>3. VenetInitialize(a)
    BY <1>1, <1>4, <2>2
    DEF Initialize, Halt, VenetSetupAdapter, NoInterface, VenetGetInterface, VenetSetupRx,
        AllocTcbs, CreateTx, VenetSetAttributes, NdisHalts, VenetDetach, FreeTimers, FreeQueues,
        VenetClose, Try, At
  <2> QED
    BY <1>4, <2>1, <2>3 DEF VenetInitialize, InUse, AdapterInv, TypeOK
<1> QED
  BY <1>3, <1>4

\* VenetAlloc zeroes what it gives to a new adapter, and the rest of its life leaves
\* filter and list alone.
LEMMA AdapterStepStores ==
  ASSUME AdapterInv, StoreInv, AdapterStep
  PROVE  StoreInv' /\ ReplyInv'
<1>1. /\ Next /\ reply' = NoReply
      /\ oids' = [a \in Adapters |->
           IF phase[a] = "none" /\ phase'[a] = "setup" THEN Zeroes
           ELSE IF phase[a] = "setup" /\ phase'[a] # "setup"
                THEN [oids[a] EXCEPT !.lookAhead = NIC_MAX_LOOKAHEAD]
           ELSE oids[a]]
      /\ accepted' = [a \in Adapters |->
           IF phase'[a] = "setup" THEN NothingAccepted ELSE accepted[a]]
  BY DEF AdapterStep, VenetAlloc
<1>2. ReplyInv'
  BY <1>1 DEF NoReply, Reply, ReplyInv, ReplyContract
<1>l. NIC_MAX_LOOKAHEAD \in Nat
  BY OidAssumption
<1>3. ASSUME NEW a \in Adapters
      PROVE  /\ oids'[a] \in OidRecord /\ accepted'[a] \in AcceptRecord
             /\ InUse(a)' => Holds(oids'[a], accepted'[a])
  <2>t. oids[a] \in OidRecord /\ accepted[a] \in AcceptRecord
    BY DEF StoreInv
  <2>1. CASE phase[a] = "none" /\ phase'[a] = "setup"
    BY <1>1, <2>1, ZeroesHold
  <2>2. CASE ~(phase[a] = "none" /\ phase'[a] = "setup")
    <3>1. InUse(a)' => Holds(oids[a], accepted[a])
      BY <1>1, <2>2, ComesIntoUse DEF StoreInv
    <3>2. phase[a] = "setup" => accepted[a] = NothingAccepted
      BY DEF StoreInv
    <3>3. CASE phase[a] = "setup" /\ phase'[a] # "setup"
      <4>1. /\ oids'[a] = [oids[a] EXCEPT !.lookAhead = NIC_MAX_LOOKAHEAD]
            /\ accepted'[a] = accepted[a]
        BY <1>1, <3>3
      <4> QED
        BY <1>l, <2>t, <3>1, <4>1 DEF OidRecord, Holds
    <3>4. CASE phase[a] = "setup" /\ phase'[a] = "setup"
      <4>1. oids'[a] = oids[a] /\ accepted'[a] = accepted[a]
        BY <1>1, <3>2, <3>4
      <4> QED
        BY <2>t, <3>1, <4>1
    <3>5. CASE phase[a] # "setup"
      <4>1. CASE phase'[a] # "setup"
        <5>1. oids'[a] = oids[a] /\ accepted'[a] = accepted[a]
          BY <1>1, <2>2, <3>5, <4>1
        <5> QED
          BY <2>t, <3>1, <5>1
      <4>2. CASE phase'[a] = "setup"
        <5>1. phase[a] = "none"
          BY <1>1, <3>5, <4>2
          DEF Next, Initialize, Halt, VenetInitialize, VenetSetupAdapter, NoInterface,
              VenetGetInterface, VenetSetupRx, AllocTcbs, CreateTx, VenetSetAttributes,
              NdisHalts, VenetDetach, FreeTimers, FreeQueues, VenetClose, Try, At,
              AdapterInv, TypeOK
        <5> QED
          BY <2>2, <4>2, <5>1
      <4> QED
        BY <4>1, <4>2
    <3> QED
      BY <3>3, <3>4, <3>5
  <2> QED
    BY <2>1, <2>2
<1>4. oids' \in [Adapters -> OidRecord] /\ accepted' \in [Adapters -> AcceptRecord]
  BY <1>1, <1>3
<1>5. \A a \in Adapters : phase'[a] = "setup" => accepted'[a] = NothingAccepted
  BY <1>1
<1>6. ASSUME NEW a \in Adapters, InUse(a)' PROVE Holds(oids[a], accepted[a])'
  BY <1>3, <1>6 DEF Holds
<1> QED
  BY <1>2, <1>4, <1>5, <1>6 DEF StoreInv

\* Initially every record is zero and nothing was asked.
LEMMA InitStore == OidInit => StoreInv /\ ReplyInv
<1> SUFFICES ASSUME OidInit PROVE StoreInv /\ ReplyInv
  OBVIOUS
<1>1. StoreInv
  BY ZeroesHold DEF OidInit, StoreInv
<1>2. ReplyInv
  BY DEF OidInit, NoReply, Reply, ReplyInv, ReplyContract
<1> QED
  BY <1>1, <1>2

\* Requests are steps the adapter's life does not see.
LEMMA RequestsKeepTheAdapter == OidSpec => Spec
<1>1. OidInit => Init
  BY DEF OidInit
<1>2. [OidNext]_oidVars => [Next]_vars
  BY DEF OidNext, AdapterStep, VenetOidRequest, OidQuery, OidSetMcast, OidSetFilter,
         OidSetLookahead, OidSetOther, OidOtherType, Request, oidVars
<1> QED
  BY <1>1, <1>2, PTL DEF OidSpec, Spec

\* What the adapters hold and what NDIS was told last.
LEMMA StoreInvariance == OidSpec => [](AdapterInv /\ StoreInv /\ ReplyInv)
<1>1. AdapterInv /\ StoreInv /\ ReplyInv /\ [OidNext]_oidVars => StoreInv' /\ ReplyInv'
  <2> SUFFICES ASSUME AdapterInv, StoreInv, ReplyInv, [OidNext]_oidVars
               PROVE  StoreInv' /\ ReplyInv'
    OBVIOUS
  <2>1. CASE UNCHANGED oidVars
    <3>1. UNCHANGED <<phase, live, oids, accepted, reply>>
      BY <2>1 DEF oidVars, vars
    <3>2. StoreInv'
      BY <3>1 DEF StoreInv, InUse, Holds
    <3>3. ReplyInv'
      BY <3>1 DEF ReplyInv, ReplyContract
    <3> QED
      BY <3>2, <3>3
  <2>2. CASE AdapterStep
    BY <2>2, AdapterStepStores
  <2>3. ASSUME NEW a \in Adapters, VenetOidRequest(a) PROVE StoreInv' /\ ReplyInv'
    BY <2>3, RequestReplies, RequestStores
  <2> QED
    BY <2>1, <2>2, <2>3 DEF OidNext
<1> QED
  BY <1>1, InitStore, RequestsKeepTheAdapter, AdapterInvariance, PTL DEF OidSpec

\* The settings of every adapter keep their types: no request stores an unsupported
\* filter bit or a list longer than the array.
THEOREM OidTypeCorrect == OidSpec => []OidTypeOK
<1>1. AdapterInv /\ StoreInv /\ ReplyInv => OidTypeOK
  <2> SUFFICES ASSUME AdapterInv, StoreInv, ReplyInv PROVE OidTypeOK
    OBVIOUS
  <2>1. \A a \in Adapters : accepted[a].filter \subseteq SupportedFilters
    BY DEF StoreInv, AcceptRecord
  <2> QED
    BY <2>1 DEF AdapterInv, StoreInv, ReplyInv, OidTypeOK, OidRecord
<1> QED
  BY <1>1, StoreInvariance, PTL

\* An adapter has the filter and the list of the last set that reported success, for
\* any capacity of the list, any lengths and any number of adapters that come and go.
THEOREM LastAcceptedIsHeld == OidSpec => []HoldsLastAccepted
<1>1. StoreInv => HoldsLastAccepted
  BY DEF StoreInv, InUse, Holds, HoldsLastAccepted
<1> QED
  BY <1>1, StoreInvariance, PTL

\* Every reply keeps to the caller's buffer, and the length it asks for is enough,
\* for every length of a buffer.
THEOREM RepliesKeepContract == OidSpec => []ReplyContract
<1>1. ReplyInv => ReplyContract
  BY DEF ReplyInv
<1> QED
  BY <1>1, StoreInvariance, PTL
=============================================================================
