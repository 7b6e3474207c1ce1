-------------------------- MODULE VbusBridgeProofs --------------------------
(***************************************************************************)
(* The bridge driver gives back what it allocated, for any number of       *)
(* bridges that share struct vbus_pci and wherever a start fails.          *)
(***************************************************************************)
EXTENDS VbusBridge, TLAPS

\* Initially nothing is allocated and every bridge is stopped.
LEMMA InitBridge == Init => BridgeInv
BY BridgeAssumption
DEF Init, BridgeInv, StructTypeOK, PnpLabels, AtRest, Zeroed, Owned, Buffers, FreedOnce

\* A step of bridge d that neither allocates nor frees keeps the invariant, as
\* long as d does not become stopped.
LEMMA PnpStep ==
  ASSUME BridgeInv, NEW d \in Bridges, NEW from,
         NEW to \in PnpLabels \ {"stopped"},
         Step(d, from, to), UNCHANGED <<vbus_pci, heap, twice>>
  PROVE  BridgeInv'
BY DEF BridgeInv, StructTypeOK, Step, Owned, Buffers, FreedOnce

\* vbus_pci_cleanup frees the buffers, each of which is allocated, and loses the
\* lock; nothing but the global fastlock is left.
LEMMA CleanupFreesAll ==
  ASSUME BridgeInv, NEW d \in Bridges, NEW from, NEW to \in PnpLabels,
         Step(d, from, to), vbus_pci_cleanup
  PROVE  BridgeInv'
<1>1. Buffers \subseteq heap /\ heap \subseteq Buffers \cup {"lock", "fastlock"}
  BY DEF BridgeInv, StructTypeOK, Owned, Buffers
<1>2. heap' \subseteq {"fastlock"} /\ twice' = FALSE /\ vbus_pci' = Zeroed
  BY <1>1 DEF BridgeInv, FreedOnce, vbus_pci_cleanup
<1>3. Zeroed \in [enabled : {0, 1}, bus : Bridges \cup {Null}, lock : {"lock", Null},
                  regs : {"regs", Null}, signals : {"port", Null},
                  head : {"head", Null}, signal : {"signal", Null}, ring : {"ring", Null}]
  BY DEF Zeroed
<1>4. Owned' = {}
  BY <1>2 DEF Owned, Buffers, Zeroed
<1>5. pnp' \in [Bridges -> PnpLabels]
  BY DEF BridgeInv, Step
<1> QED
  BY <1>2, <1>3, <1>4, <1>5 DEF BridgeInv, StructTypeOK, FreedOnce

\* A step that stores in the structure what it has allocated, and forgets there what
\* it takes off the heap, keeps the invariant.
LEMMA PointersFollow ==
  ASSUME BridgeInv, NEW d \in Bridges, NEW from, NEW to \in PnpLabels \ {"stopped"},
         Step(d, from, to), UNCHANGED twice,
         StructTypeOK', (heap \ {"fastlock"})' = Owned'
  PROVE  BridgeInv'
<1>1. pnp' \in [Bridges -> PnpLabels] /\ pnp'[d] # "stopped"
  BY DEF BridgeInv, Step
<1> QED
  BY <1>1 DEF BridgeInv, FreedOnce

\* An allocation that is stored in the structure at once is owned by it, and so is
\* nothing that a failed mapping replaces.
LEMMA AllocationIsOwned ==
  ASSUME BridgeInv,
         \/ vbus_pci' = [vbus_pci EXCEPT !.regs = "regs"] /\ heap' = heap \cup {"regs"}
         \/ vbus_pci' = [vbus_pci EXCEPT !.regs = Null] /\ heap' = heap \ {"regs"}
         \/ /\ vbus_pci' = [vbus_pci EXCEPT !.head = "head", !.signal = "signal"]
            /\ heap' = heap \cup {"head", "signal"}
         \/ vbus_pci' = [vbus_pci EXCEPT !.ring = "ring"] /\ heap' = heap \cup {"ring"}
  PROVE  StructTypeOK' /\ (heap \ {"fastlock"})' = Owned'
<1> USE BridgeAssumption DEF BridgeInv, StructTypeOK, Owned, Buffers
<1>1. CASE vbus_pci' = [vbus_pci EXCEPT !.regs = "regs"] /\ heap' = heap \cup {"regs"}
  BY <1>1
<1>2. CASE vbus_pci' = [vbus_pci EXCEPT !.regs = Null] /\ heap' = heap \ {"regs"}
  BY <1>2
<1>3. CASE /\ vbus_pci' = [vbus_pci EXCEPT !.head = "head", !.signal = "signal"]
           /\ heap' = heap \cup {"head", "signal"}
  <2>1. StructTypeOK'
    BY <1>3
  <2>2. /\ vbus_pci'.head = "head" /\ vbus_pci'.signal = "signal" /\ vbus_pci'.lock = vbus_pci.lock
        /\ vbus_pci'.regs = vbus_pci.regs /\ vbus_pci'.ring = vbus_pci.ring
    BY <1>3
  <2>3. Owned' = Owned \cup {"head", "signal"}
    BY <2>2
  <2> QED
    BY <1>3, <2>1, <2>3
<1>4. CASE vbus_pci' = [vbus_pci EXCEPT !.ring = "ring"] /\ heap' = heap \cup {"ring"}
  BY <1>4
<1> QED
  BY <1>1, <1>2, <1>3, <1>4

\* The lock of a start is stored in the structure; fastlock is a variable apart.
LEMMA LockIsOwned ==
  ASSUME BridgeInv, vbus_pci' = [vbus_pci EXCEPT !.lock = "lock"],
         heap' \ {"fastlock"} = (heap \ {"fastlock"}) \cup {"lock"}
  PROVE  StructTypeOK' /\ (heap \ {"fastlock"})' = Owned'
BY BridgeAssumption DEF BridgeInv, StructTypeOK, Owned, Buffers

\* A store to a field that holds no memory keeps what the structure owns.
LEMMA FlagIsNotOwned ==
  ASSUME BridgeInv, NEW d \in Bridges, heap' = heap,
         \/ vbus_pci' = [vbus_pci EXCEPT !.bus = d]
         \/ vbus_pci' = [vbus_pci EXCEPT !.enabled = 1]
         \/ vbus_pci' = [vbus_pci EXCEPT !.signals = "port"]
  PROVE  StructTypeOK' /\ (heap \ {"fastlock"})' = Owned'
BY DEF BridgeInv, StructTypeOK, Owned, Buffers

\* Every step of the bridge driver preserves the invariant.
LEMMA NextBridge == BridgeInv /\ [Next]_vars => BridgeInv'
<1> SUFFICES ASSUME BridgeInv, [Next]_vars PROVE BridgeInv'
  OBVIOUS
<1> USE DEF PnpLabels, AtRest
<1>1. CASE UNCHANGED vars
  BY <1>1 DEF vars, busvars, BridgeInv, StructTypeOK, Owned, Buffers, FreedOnce
<1>2. ASSUME NEW d \in Bridges, Prepare(d) PROVE BridgeInv'
  <2>1. CASE VbusPciPrepareHardware(d)
    BY <2>1, PnpStep, FlagIsNotOwned, PointersFollow DEF VbusPciPrepareHardware
  <2>2. CASE CreateLocks(d)
    <3>1. CASE UNCHANGED <<vbus_pci, heap>>
      BY <2>2, <3>1, PnpStep DEF CreateLocks
    <3>2. CASE ~UNCHANGED <<vbus_pci, heap>>
      <4>1. heap' \ {"fastlock"} = (heap \ {"fastlock"}) \cup {"lock"}
        BY <2>2, <3>2 DEF CreateLocks, Allocate
      <4> QED
        BY <2>2, <3>2, <4>1, LockIsOwned, PointersFollow DEF CreateLocks
    <3> QED
      BY <2>2, <3>1, <3>2 DEF CreateLocks
  <2>3. CASE vbus_pci_parse_resource(d)
    BY <2>3, FlagIsNotOwned, AllocationIsOwned, PointersFollow
    DEF vbus_pci_parse_resource, Allocate
  <2>0. CASE vbus_pci_map_resources(d)
    BY <2>0, PnpStep DEF vbus_pci_map_resources, busvars
  <2>4. CASE vbus_pci_open(d)
    BY <2>4, PnpStep DEF vbus_pci_open, BridgeCall, busvars
  <2>5. CASE vbus_pci_setup_fastcall(d)
    BY <2>5, PnpStep DEF vbus_pci_setup_fastcall, BridgeCall, busvars
  <2>6. CASE eventq_ioq_init(d)
    BY <2>6, PnpStep, AllocationIsOwned, PointersFollow DEF eventq_ioq_init, Allocate
  <2>7. CASE eventq_init(d)
    BY <2>7, PnpStep, AllocationIsOwned, PointersFollow DEF eventq_init, Allocate
  <2>8. CASE vbus_pci_eventq_register(d)
    BY <2>8, PnpStep, FlagIsNotOwned, PointersFollow
    DEF vbus_pci_eventq_register, BridgeCall
  <2>9. CASE OutFail(d)
    BY <2>9, CleanupFreesAll DEF OutFail
  <2> QED
    BY <1>2, <2>0, <2>1, <2>2, <2>3, <2>4, <2>5, <2>6, <2>7, <2>8, <2>9 DEF Prepare
<1>3. ASSUME NEW d \in Bridges, VbusPciReleaseHardware(d) PROVE BridgeInv'
  BY <1>3, CleanupFreesAll DEF VbusPciReleaseHardware
<1>4. ASSUME NEW d \in Bridges, VbusPciD0Entry(d) \/ VbusPciD0Exit(d) PROVE BridgeInv'
  BY <1>4, PnpStep DEF VbusPciD0Entry, VbusPciD0Exit, busvars
<1>5. ASSUME NEW d \in Bridges, Events(d) PROVE BridgeInv'
  <2>1. UNCHANGED <<vbus_pci, heap, twice, pnp>>
    BY <1>5 DEF Events, event_devadd, event_devdrop, VbusCreatePdo, DeletePdo, busvars
  <2> QED
    BY <2>1 DEF BridgeInv, StructTypeOK, Owned, Buffers, FreedOnce
<1> QED
  BY <1>1, <1>2, <1>3, <1>4, <1>5 DEF Next

\* The inductive invariant of the bridge driver: what is allocated and not lost is
\* exactly what struct vbus_pci and fastlock point to, for any number of bridges.
THEOREM BridgeInvariance == Spec => []BridgeInv
BY InitBridge, NextBridge, PTL DEF Spec

\* vbus_pci_cleanup frees nothing twice, however often it runs.
THEOREM NothingIsFreedTwice == Spec => []FreedOnce
<1>1. BridgeInv => FreedOnce
  BY DEF BridgeInv
<1> QED
  BY <1>1, BridgeInvariance, PTL
-----------------------------------------------------------------------------
(***************************************************************************)
(* The child lists and the PDOs.                                           *)
(***************************************************************************)
PdoType == [id : Ids, type : Types, handle : {0}]

\* A child list never holds two descriptions with one id: event_devadd compares
\* by id before it adds.
ChildInv ==
  /\ child \in [Bridges -> SUBSET Desc]
  /\ pdo \in [Bridges -> SUBSET PdoType]
  /\ \A d \in Bridges : \A c, e \in child[d] : c.id = e.id => c = e

\* An event adds a description whose id is new to the list.
LEMMA DevAddKeepsIdsApart ==
  ASSUME ChildInv, NEW d \in Bridges, NEW desc \in Desc, event_devadd(d, desc)
  PROVE  ChildInv'
<1>1. pdo' = pdo
  BY DEF event_devadd
<1>2. CASE child' = child
  BY <1>1, <1>2 DEF ChildInv
<1>3. CASE /\ \A c \in child[vbus_pci.bus] : ~VbusIdCmp(c, desc)
           /\ child' = [child EXCEPT ![vbus_pci.bus] = @ \cup {desc}]
  <2>1. child' \in [Bridges -> SUBSET Desc]
    BY <1>3 DEF ChildInv
  <2>2. ASSUME NEW b \in Bridges, NEW c \in child'[b], NEW e \in child'[b], c.id = e.id
        PROVE  c = e
    BY <1>3, <2>2 DEF ChildInv, VbusIdCmp
  <2> QED
    BY <1>1, <2>1, <2>2 DEF ChildInv
<1> QED
  BY <1>2, <1>3 DEF event_devadd

\* An event takes descriptions away and adds none.
LEMMA DevDropOnlyRemoves ==
  ASSUME ChildInv, NEW d \in Bridges, NEW id \in Ids, event_devdrop(d, id)
  PROVE  ChildInv'
<1>1. pdo' = pdo
  BY DEF event_devdrop
<1>2. CASE child' = child
  BY <1>1, <1>2 DEF ChildInv
<1>3. ASSUME NEW gone,
             child' = [child EXCEPT ![vbus_pci.bus] = {c \in @ : ~VbusIdCmp(c, gone)}]
      PROVE  ChildInv'
  <2>1. child' \in [Bridges -> SUBSET Desc]
    BY <1>3 DEF ChildInv
  <2>2. \A b \in Bridges : child'[b] \subseteq child[b]
    BY <1>3 DEF ChildInv
  <2> QED
    BY <1>1, <2>1, <2>2 DEF ChildInv
<1> QED
  BY <1>2, <1>3 DEF event_devdrop

\* Creating and deleting PDOs leaves the lists alone.
LEMMA PdosKeepChildren ==
  ASSUME ChildInv, NEW d \in Bridges,
         \/ \E desc \in Desc : VbusCreatePdo(d, desc)
         \/ \E p \in pdo[d] : DeletePdo(d, p)
  PROVE  ChildInv'
<1>1. child' = child
  BY DEF VbusCreatePdo, DeletePdo
<1>2. pdo' \in [Bridges -> SUBSET PdoType]
  <2>1. ASSUME NEW desc \in Desc, VbusCreatePdo(d, desc)
        PROVE  pdo' \in [Bridges -> SUBSET PdoType]
    <3>1. [id |-> desc.id, type |-> desc.type, handle |-> 0] \in PdoType
      BY DEF Desc, PdoType
    <3> QED
      BY <2>1, <3>1 DEF ChildInv, VbusCreatePdo
  <2>2. ASSUME NEW p \in pdo[d], DeletePdo(d, p)
        PROVE  pdo' \in [Bridges -> SUBSET PdoType]
    BY <2>2 DEF ChildInv, DeletePdo
  <2> QED
    BY <2>1, <2>2
<1> QED
  BY <1>1, <1>2 DEF ChildInv

\* Starting, stopping and powering a bridge touch neither list.
LEMMA PlugAndPlayKeepsChildren ==
  ASSUME NEW d \in Bridges,
         \/ Prepare(d) \/ VbusPciReleaseHardware(d) \/ VbusPciD0Entry(d) \/ VbusPciD0Exit(d)
  PROVE  UNCHANGED <<child, pdo>>
BY DEF Prepare, VbusPciPrepareHardware, CreateLocks, vbus_pci_parse_resource,
       vbus_pci_map_resources, vbus_pci_open,
       vbus_pci_setup_fastcall, eventq_ioq_init, eventq_init, vbus_pci_eventq_register,
       OutFail, VbusPciReleaseHardware, VbusPciD0Entry, VbusPciD0Exit

\* Every step keeps the ids of a child list apart.
LEMMA NextChild == ChildInv /\ [Next]_vars => ChildInv'
<1> SUFFICES ASSUME ChildInv, [Next]_vars PROVE ChildInv'
  OBVIOUS
<1>1. CASE UNCHANGED vars
  BY <1>1 DEF vars, ChildInv
<1>2. ASSUME NEW d \in Bridges,
             \/ Prepare(d) \/ VbusPciReleaseHardware(d) \/ VbusPciD0Entry(d) \/ VbusPciD0Exit(d)
      PROVE  ChildInv'
  BY <1>2, PlugAndPlayKeepsChildren DEF ChildInv
<1>3. ASSUME NEW d \in Bridges, Events(d) PROVE ChildInv'
  BY <1>3, DevAddKeepsIdsApart, DevDropOnlyRemoves, PdosKeepChildren DEF Events
<1> QED
  BY <1>1, <1>2, <1>3 DEF Next

\* The child lists hold one description for each id, whatever the host announces.
LEMMA ChildInvariance == Spec => []ChildInv
<1>1. Init => ChildInv
  BY DEF Init, ChildInv
<1> QED
  BY <1>1, NextChild, PTL DEF Spec

-----------------------------------------------------------------------------
(***************************************************************************)
(* The order of the steps of VbusPciPrepareHardware.                       *)
(***************************************************************************)
\* One bridge at a time is being started or undone, and it has stored what it
\* allocated by the time that it tells the host.
StartInv ==
  /\ \A d, e \in Bridges : pnp[d] \notin AtRest /\ pnp[e] \notin AtRest => d = e
  /\ \A d \in Bridges : pnp[d] \in {"ring", "register"} =>
       vbus_pci.head = "head" /\ vbus_pci.signal = "signal"
  /\ \A d \in Bridges : pnp[d] = "register" => vbus_pci.ring = "ring"

\* A step of the one bridge that is not at rest.
LEMMA StartStep ==
  ASSUME BridgeInv, StartInv, NEW d \in Bridges, NEW from, NEW to,
         Step(d, from, to), from \notin AtRest
  PROVE  /\ \A e \in Bridges \ {d} : pnp'[e] = pnp[e] /\ pnp[e] \in AtRest
         /\ pnp'[d] = to /\ pnp[d] = from
BY DEF BridgeInv, StartInv, Step, AtRest

\* Every step of the bridge driver preserves StartInv.
LEMMA NextStart == BridgeInv /\ StartInv /\ [Next]_vars => StartInv'
<1> SUFFICES ASSUME BridgeInv, StartInv, [Next]_vars PROVE StartInv'
  OBVIOUS
<1> USE DEF AtRest
<1>1. CASE UNCHANGED vars
  BY <1>1 DEF vars, busvars, StartInv
<1>2. ASSUME NEW d \in Bridges, Prepare(d) PROVE StartInv'
  <2>1. CASE VbusPciPrepareHardware(d)
    BY <2>1 DEF VbusPciPrepareHardware, StartInv, Step, BridgeInv
  <2>2. CASE CreateLocks(d)
    BY <2>2, StartStep DEF CreateLocks, StartInv
  <2>3. CASE vbus_pci_parse_resource(d)
    BY <2>3, StartStep DEF vbus_pci_parse_resource, StartInv
  <2>0. CASE vbus_pci_map_resources(d)
    BY <2>0, StartStep DEF vbus_pci_map_resources, StartInv
  <2>4. CASE vbus_pci_open(d)
    BY <2>4, StartStep DEF vbus_pci_open, BridgeCall, StartInv, busvars
  <2>5. CASE vbus_pci_setup_fastcall(d)
    BY <2>5, StartStep DEF vbus_pci_setup_fastcall, BridgeCall, StartInv, busvars
  <2>6. CASE eventq_ioq_init(d)
    <3>1. CASE /\ Step(d, "ioq", "ring")
               /\ vbus_pci' = [vbus_pci EXCEPT !.head = "head", !.signal = "signal"]
      <4>1. vbus_pci'.head = "head" /\ vbus_pci'.signal = "signal"
        BY <3>1 DEF BridgeInv, StructTypeOK
      <4> QED
        BY <3>1, <4>1, StartStep DEF StartInv
    <3>2. CASE Step(d, "ioq", "out_fail") /\ UNCHANGED vbus_pci
      BY <3>2, StartStep DEF StartInv
    <3> QED
      BY <2>6, <3>1, <3>2 DEF eventq_ioq_init
  <2>7. CASE eventq_init(d)
    BY <2>7, StartStep DEF eventq_init, StartInv, BridgeInv, StructTypeOK
  <2>8. CASE vbus_pci_eventq_register(d)
    BY <2>8, StartStep DEF vbus_pci_eventq_register, BridgeCall, StartInv
  <2>9. CASE OutFail(d)
    BY <2>9, StartStep DEF OutFail, StartInv
  <2> QED
    BY <1>2, <2>0, <2>1, <2>2, <2>3, <2>4, <2>5, <2>6, <2>7, <2>8, <2>9 DEF Prepare
<1>3. ASSUME NEW d \in Bridges, VbusPciReleaseHardware(d) PROVE StartInv'
  BY <1>3 DEF VbusPciReleaseHardware, StartInv, Step, BridgeInv
<1>4. ASSUME NEW d \in Bridges, VbusPciD0Entry(d) \/ VbusPciD0Exit(d) PROVE StartInv'
  BY <1>4 DEF VbusPciD0Entry, VbusPciD0Exit, StartInv, Step, BridgeInv, busvars
<1>5. ASSUME NEW d \in Bridges, Events(d) PROVE StartInv'
  BY <1>5 DEF Events, event_devadd, event_devdrop, VbusCreatePdo, DeletePdo, busvars, StartInv
<1> QED
  BY <1>1, <1>2, <1>3, <1>4, <1>5 DEF Next

\* The steps of every start come in order, one bridge at a time.
LEMMA StartInvariance == Spec => []StartInv
<1>1. Init => StartInv
  BY DEF Init, StartInv, AtRest
<1> QED
  BY <1>1, NextStart, BridgeInvariance, PTL DEF Spec

-----------------------------------------------------------------------------
(***************************************************************************)
(* What is lost.                                                           *)
(***************************************************************************)
NoRing == vbus_pci.head = Null /\ vbus_pci.signal = Null /\ vbus_pci.ring = Null

\* A start finds the pointers to the ring null, and they stay so until it allocates:
\* nothing that they point to is ever overwritten.
LostInv ==
  /\ lost \subseteq {"lock", "fastlock", "regs"}
  /\ fault = "none" =>
       /\ (\A d \in Bridges : pnp[d] \in AtRest) /\ vbus_pci.enabled = 0 => NoRing
       /\ \A d \in Bridges :
            /\ pnp[d] \in {"locks", "map", "negotiate", "fastcall", "ioq"} => NoRing
            /\ pnp[d] = "ring" => vbus_pci.ring = Null

\* vbus_pci_cleanup loses at most the lock, and leaves the pointers null.
LEMMA CleanupLosesTheLock ==
  ASSUME LostInv, vbus_pci_cleanup
  PROVE  LostInv'
BY DEF LostInv, vbus_pci_cleanup, NoRing, Zeroed

\* The steps that leave the ring alone: what they lose is a lock or a mapping.
LEMMA EarlyStepsKeepTheRing ==
  ASSUME BridgeInv, StartInv, LostInv, NEW d \in Bridges,
         NEW from \in {"locks", "map", "negotiate", "fastcall"},
         NEW to \in {"map", "negotiate", "fastcall", "ioq", "out_fail", "failed"},
         Step(d, from, to), lost' \subseteq lost \cup {"lock", "fastlock", "regs"},
         UNCHANGED <<vbus_pci.head, vbus_pci.signal, vbus_pci.ring>>
  PROVE  LostInv'
<1>1. NoRing
  BY DEF LostInv, Step
<1>2. NoRing'
  BY <1>1 DEF NoRing
<1> QED
  BY <1>2 DEF LostInv, NoRing

\* Every step of the bridge driver preserves LostInv.
LEMMA NextLost == BridgeInv /\ StartInv /\ LostInv /\ [Next]_vars => LostInv'
<1> SUFFICES ASSUME BridgeInv, StartInv, LostInv, [Next]_vars PROVE LostInv'
  OBVIOUS
<1> USE DEF AtRest
<1>1. CASE UNCHANGED vars
  BY <1>1 DEF vars, busvars, LostInv, NoRing
<1>2. ASSUME NEW d \in Bridges, Prepare(d) PROVE LostInv'
  <2>1. CASE VbusPciPrepareHardware(d)
    <3>1. CASE vbus_pci.enabled = 1
      BY <2>1, <3>1 DEF VbusPciPrepareHardware, LostInv, NoRing, Step, BridgeInv
    <3>2. CASE vbus_pci.enabled # 1
      <4>1. NoRing /\ fault = "none"
        BY <2>1, <3>2 DEF VbusPciPrepareHardware, LostInv, Step, BridgeInv, StructTypeOK
      <4>2. NoRing' /\ lost' = lost
        BY <2>1, <3>2, <4>1 DEF VbusPciPrepareHardware, NoRing, BridgeInv, StructTypeOK
      <4> QED
        BY <4>2 DEF LostInv, NoRing
    <3> QED
      BY <3>1, <3>2
  <2>2. CASE CreateLocks(d)
    BY <2>2, EarlyStepsKeepTheRing DEF CreateLocks, Allocate, BridgeInv, StructTypeOK
  <2>3. CASE vbus_pci_parse_resource(d)
    BY <2>3, EarlyStepsKeepTheRing DEF vbus_pci_parse_resource, Allocate, BridgeInv, StructTypeOK
  <2>0. CASE vbus_pci_map_resources(d)
    BY <2>0, EarlyStepsKeepTheRing DEF vbus_pci_map_resources, busvars
  <2>4. CASE vbus_pci_open(d)
    BY <2>4, EarlyStepsKeepTheRing DEF vbus_pci_open, BridgeCall, busvars
  <2>5. CASE vbus_pci_setup_fastcall(d)
    BY <2>5, EarlyStepsKeepTheRing DEF vbus_pci_setup_fastcall, BridgeCall, busvars
  <2>6. CASE eventq_ioq_init(d)
    <3>1. NoRing
      BY <2>6 DEF eventq_ioq_init, LostInv, Step
    <3>2. "head" \notin heap /\ "signal" \notin heap
      BY <3>1, BridgeAssumption DEF NoRing, BridgeInv, StructTypeOK, Owned, Buffers
    <3>3. lost' = lost
      BY <2>6, <3>2 DEF eventq_ioq_init, Allocate
    <3>5. vbus_pci'.ring = Null
      BY <2>6, <3>1 DEF eventq_ioq_init, NoRing, BridgeInv, StructTypeOK
    <3>4. /\ pnp'[d] \in {"ring", "out_fail"}
          /\ \A e \in Bridges \ {d} : pnp'[e] \in AtRest
      BY <2>6, StartStep DEF eventq_ioq_init
    <3> QED
      BY <3>3, <3>4, <3>5 DEF LostInv
  <2>7. CASE eventq_init(d)
    <3>1. vbus_pci.ring = Null
      BY <2>7 DEF eventq_init, LostInv, Step
    <3>2. "ring" \notin heap
      BY <3>1, BridgeAssumption DEF BridgeInv, StructTypeOK, Owned, Buffers
    <3>3. lost' = lost
      BY <2>7, <3>2 DEF eventq_init, Allocate
    <3>4. /\ pnp'[d] \in {"register", "out_fail"}
          /\ \A e \in Bridges \ {d} : pnp'[e] \in AtRest
      BY <2>7, StartStep DEF eventq_init
    <3> QED
      BY <3>3, <3>4 DEF LostInv
  <2>8. CASE vbus_pci_eventq_register(d)
    <3>1. lost' = lost /\ (pnp'[d] = "prepared" /\ fault' = "none" => vbus_pci'.enabled = 1)
      BY <2>8 DEF vbus_pci_eventq_register, BridgeInv, StructTypeOK
    <3>2. /\ pnp'[d] \in {"prepared", "out_fail"}
          /\ \A e \in Bridges \ {d} : pnp'[e] \in AtRest
      BY <2>8, StartStep DEF vbus_pci_eventq_register, BridgeCall
    <3> QED
      BY <3>1, <3>2 DEF LostInv
  <2>9. CASE OutFail(d)
    BY <2>9, CleanupLosesTheLock DEF OutFail
  <2> QED
    BY <1>2, <2>0, <2>1, <2>2, <2>3, <2>4, <2>5, <2>6, <2>7, <2>8, <2>9 DEF Prepare
<1>3. ASSUME NEW d \in Bridges, VbusPciReleaseHardware(d) PROVE LostInv'
  BY <1>3, CleanupLosesTheLock DEF VbusPciReleaseHardware
<1>4. ASSUME NEW d \in Bridges, VbusPciD0Entry(d) \/ VbusPciD0Exit(d) PROVE LostInv'
  BY <1>4 DEF VbusPciD0Entry, VbusPciD0Exit, LostInv, NoRing, Step, BridgeInv, busvars
<1>5. ASSUME NEW d \in Bridges, Events(d) PROVE LostInv'
  <2>1. UNCHANGED <<busvars, pnp>> /\ fault = "none"
    BY <1>5 DEF Events, event_devadd, event_devdrop, VbusCreatePdo, DeletePdo, Interrupt
  <2> QED
    BY <2>1 DEF LostInv, NoRing, busvars
<1> QED
  BY <1>1, <1>2, <1>3, <1>4, <1>5 DEF Next

\* However often bridges are started and stopped, and wherever a start fails, the
\* driver loses nothing but spin locks and mappings, and once every bridge is
\* stopped it holds nothing but the last fastlock.
THEOREM OnlyLocksAndMappingsAreLost == Spec => []OnlyLocksAndMappingsLeak
<1>1. Init => LostInv
  BY DEF Init, LostInv, NoRing, Zeroed, AtRest
<1>2. BridgeInv /\ LostInv => OnlyLocksAndMappingsLeak
  BY DEF BridgeInv, LostInv, OnlyLocksAndMappingsLeak, Owned, Buffers, Zeroed
<1> QED
  BY <1>1, <1>2, NextLost, StartInvariance, BridgeInvariance, PTL DEF Spec

\* What BridgeInv leaves open of the types.
RestTypeOK ==
  /\ heap \subseteq Kinds /\ lost \subseteq Kinds
  /\ twice \in BOOLEAN
  /\ hostmem \subseteq {"head", "ring"}
  /\ fault \in {"none", "regs", "signal", "signals"}

\* Only the QREG call gives the host an address, and by then both are set.
LEMMA NextRestType == BridgeInv /\ StartInv /\ RestTypeOK /\ [Next]_vars => RestTypeOK'
<1> SUFFICES ASSUME BridgeInv, StartInv, RestTypeOK, [Next]_vars PROVE RestTypeOK'
  OBVIOUS
<1>1. CASE UNCHANGED vars
  BY <1>1 DEF vars, busvars, RestTypeOK
<1>2. ASSUME NEW d \in Bridges, Prepare(d) PROVE RestTypeOK'
  <2>1. CASE VbusPciPrepareHardware(d) \/ vbus_pci_map_resources(d)
    BY <2>1 DEF VbusPciPrepareHardware, vbus_pci_map_resources, busvars, RestTypeOK
  <2>5. CASE \/ CreateLocks(d) \/ vbus_pci_parse_resource(d)
             \/ eventq_ioq_init(d) \/ eventq_init(d)
    <3>1. heap' \subseteq Kinds /\ lost' \subseteq Kinds
      BY <2>5 DEF CreateLocks, vbus_pci_parse_resource, eventq_ioq_init, eventq_init,
                  Allocate, RestTypeOK, Kinds
    <3>2. UNCHANGED <<twice, hostmem, fault>>
      BY <2>5 DEF CreateLocks, vbus_pci_parse_resource, eventq_ioq_init, eventq_init
    <3> QED
      BY <3>1, <3>2 DEF RestTypeOK
  <2>2. CASE vbus_pci_open(d) \/ vbus_pci_setup_fastcall(d)
    BY <2>2 DEF vbus_pci_open, vbus_pci_setup_fastcall, BridgeCall, Follow, busvars, RestTypeOK
  <2>3. CASE vbus_pci_eventq_register(d)
    <3>1. vbus_pci.head = "head" /\ vbus_pci.ring = "ring"
      BY <2>3 DEF vbus_pci_eventq_register, BridgeCall, Step, StartInv
    <3> QED
      BY <2>3, <3>1 DEF vbus_pci_eventq_register, BridgeCall, Follow, RestTypeOK
  <2>4. CASE OutFail(d)
    BY <2>4 DEF OutFail, vbus_pci_cleanup, RestTypeOK, Kinds
  <2> QED
    BY <1>2, <2>1, <2>2, <2>3, <2>4, <2>5 DEF Prepare
<1>3. ASSUME NEW d \in Bridges, VbusPciReleaseHardware(d) PROVE RestTypeOK'
  BY <1>3 DEF VbusPciReleaseHardware, vbus_pci_cleanup, RestTypeOK, Kinds
<1>4. ASSUME NEW d \in Bridges, VbusPciD0Entry(d) \/ VbusPciD0Exit(d) PROVE RestTypeOK'
  BY <1>4 DEF VbusPciD0Entry, VbusPciD0Exit, Follow, FollowAndWake, busvars, RestTypeOK
<1>5. ASSUME NEW d \in Bridges, Events(d) PROVE RestTypeOK'
  BY <1>5 DEF Events, event_devadd, event_devdrop, VbusCreatePdo, DeletePdo, Interrupt,
              FollowAndWake, busvars, RestTypeOK
<1> QED
  BY <1>1, <1>2, <1>3, <1>4, <1>5 DEF Next

\* The structure, the child lists and the PDOs keep their types, and the host is
\* given the ring head and the ring and no null pointer, for any set of bridges.
THEOREM BridgeTypeCorrect == Spec => []TypeOK
<1>1. Init => RestTypeOK
  BY DEF Init, RestTypeOK
<1>2. BridgeInv /\ ChildInv /\ RestTypeOK => TypeOK
  BY DEF BridgeInv, ChildInv, RestTypeOK, TypeOK, PdoType
<1> QED
  BY <1>1, <1>2, NextRestType, StartInvariance, BridgeInvariance, ChildInvariance, PTL DEF Spec

-----------------------------------------------------------------------------
(***************************************************************************)
(* One bridge: nobody else runs vbus_pci_cleanup under it.                 *)
(***************************************************************************)
\* While no null pointer has been followed, a prepared bridge has its signal, its
\* ring, and a host that knows both.
PreparedInv ==
  /\ SignalIsThere
  /\ \A d \in Bridges : pnp[d] \in {"prepared", "d0"} =>
       /\ vbus_pci.head = "head" /\ vbus_pci.signal = "signal" /\ vbus_pci.ring = "ring"
       /\ fault = "none" => hostmem = {"head", "ring"}

\* Every step of a lone bridge preserves PreparedInv.
LEMMA NextPrepared ==
  ASSUME NEW b, Bridges = {b}
  PROVE  BridgeInv /\ StartInv /\ PreparedInv /\ [Next]_vars => PreparedInv'
<1> SUFFICES ASSUME BridgeInv, StartInv, PreparedInv, [Next]_vars PROVE PreparedInv'
  OBVIOUS
<1>f. "signal" # Null /\ pnp \in [Bridges -> PnpLabels]
  BY BridgeAssumption DEF BridgeInv
<1>s. ASSUME NEW d \in Bridges, NEW from, NEW to, Step(d, from, to)
      PROVE  d = b /\ pnp[b] = from /\ pnp'[b] = to
  BY <1>s, <1>f DEF Step
<1>1. CASE UNCHANGED vars
  BY <1>1 DEF vars, busvars, PreparedInv, SignalIsThere
<1>2. ASSUME NEW d \in Bridges, Prepare(d) PROVE PreparedInv'
  <2>1. CASE \/ VbusPciPrepareHardware(d) \/ CreateLocks(d) \/ vbus_pci_parse_resource(d)
             \/ vbus_pci_map_resources(d) \/ eventq_ioq_init(d) \/ eventq_init(d)
    <3>1. pnp'[b] \notin {"prepared", "d0"} /\ fault' = fault
      BY <2>1, <1>s DEF VbusPciPrepareHardware, CreateLocks, vbus_pci_parse_resource,
                        vbus_pci_map_resources,
                        eventq_ioq_init, eventq_init
    <3> QED
      BY <3>1 DEF PreparedInv, SignalIsThere
  <2>2. CASE vbus_pci_open(d) \/ vbus_pci_setup_fastcall(d)
    <3>1. pnp'[b] \notin {"prepared", "d0"} /\ fault' \in {"none", "regs"}
      BY <2>2, <1>s DEF vbus_pci_open, vbus_pci_setup_fastcall, BridgeCall, Follow
    <3> QED
      BY <3>1 DEF PreparedInv, SignalIsThere
  <2>3. CASE vbus_pci_eventq_register(d)
    <3>1. /\ vbus_pci.head = "head" /\ vbus_pci.signal = "signal" /\ vbus_pci.ring = "ring"
          /\ pnp'[b] \in {"prepared", "out_fail"} /\ d = b
      BY <2>3, <1>s DEF vbus_pci_eventq_register, BridgeCall, Step, StartInv
    <3>2. /\ vbus_pci'.head = "head" /\ vbus_pci'.signal = "signal" /\ vbus_pci'.ring = "ring"
      BY <2>3, <3>1 DEF vbus_pci_eventq_register, BridgeInv, StructTypeOK
    <3>3. fault' \in {"none", "regs"}
      BY <2>3 DEF vbus_pci_eventq_register, BridgeCall, Follow
    <3>4. pnp'[b] = "prepared" /\ fault' = "none" => hostmem' = {"head", "ring"}
      BY <2>3, <3>1 DEF vbus_pci_eventq_register
    <3> QED
      BY <3>1, <3>2, <3>3, <3>4 DEF PreparedInv, SignalIsThere
  <2>4. CASE OutFail(d)
    <3>1. pnp'[b] \notin {"prepared", "d0"} /\ fault' = fault
      BY <2>4, <1>s DEF OutFail
    <3> QED
      BY <3>1 DEF PreparedInv, SignalIsThere
  <2> QED
    BY <1>2, <2>1, <2>2, <2>3, <2>4 DEF Prepare
<1>3. ASSUME NEW d \in Bridges, VbusPciReleaseHardware(d) PROVE PreparedInv'
  <2>1. pnp'[b] \notin {"prepared", "d0"} /\ fault' = fault
    BY <1>3, <1>s DEF VbusPciReleaseHardware
  <2> QED
    BY <2>1 DEF PreparedInv, SignalIsThere
<1>4. ASSUME NEW d \in Bridges, VbusPciD0Entry(d) \/ VbusPciD0Exit(d) PROVE PreparedInv'
  <2>1. /\ pnp[b] \in {"prepared", "d0"} /\ fault = "none"
        /\ UNCHANGED busvars /\ (Follow("signal") \/ FollowAndWake)
    BY <1>4, <1>s DEF VbusPciD0Entry, VbusPciD0Exit, Step
  <2>2. fault' \in {"none", "signals"}
    BY <2>1, <1>f DEF PreparedInv, Follow, FollowAndWake
  <2> QED
    BY <2>1, <2>2 DEF PreparedInv, SignalIsThere, busvars
<1>5. ASSUME NEW d \in Bridges, Events(d) PROVE PreparedInv'
  <2>1. UNCHANGED <<busvars, pnp>>
    BY <1>5 DEF Events, event_devadd, event_devdrop, VbusCreatePdo, DeletePdo
  <2>2. \/ fault' = fault
        \/ pnp[d] = "d0" /\ fault = "none" /\ FollowAndWake
    BY <1>5 DEF Events, event_devadd, event_devdrop, VbusCreatePdo, DeletePdo, Interrupt
  <2>3. \/ fault' = fault
        \/ fault = "none" /\ fault' \in {"none", "signals"}
    BY <2>2, <1>f DEF PreparedInv, FollowAndWake
  <2> QED
    BY <2>1, <2>3 DEF PreparedInv, SignalIsThere, busvars
<1> QED
  BY <1>1, <1>2, <1>3, <1>4, <1>5 DEF Next

\* A lone bridge that is prepared is complete unless a resource was missing.
LEMMA PreparedInvariance ==
  ASSUME NEW b, Bridges = {b}
  PROVE  Spec => []PreparedInv
<1>1. Init => PreparedInv
  BY DEF Init, PreparedInv, SignalIsThere
<1>2. BridgeInv /\ StartInv /\ PreparedInv /\ [Next]_vars => PreparedInv'
  BY NextPrepared
<1> QED
  BY <1>1, <1>2, StartInvariance, BridgeInvariance, PTL DEF Spec

\* With one bridge, the power callbacks and the ISR always find the signal that they
\* follow, whichever resources the bridge was given and wherever starts failed.
THEOREM OneBridgeKeepsItsSignal ==
  ASSUME NEW b, Bridges = {b}
  PROVE  Spec => []SignalIsThere
<1>1. PreparedInv => SignalIsThere
  BY DEF PreparedInv
<1>2. Spec => []PreparedInv
  BY PreparedInvariance
<1> QED
  BY <1>1, <1>2, PTL
=============================================================================
