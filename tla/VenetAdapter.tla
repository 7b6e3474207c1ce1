---------------------------- MODULE VenetAdapter ----------------------------
(***************************************************************************)
(* The life of a miniport adapter (venet/venet.c): VenetInitialize, whose  *)
(* every step can fail and whose error path is VenetHalt itself, and       *)
(* VenetHalt, with the interface the bus driver offers (vbus/interface.c). *)
(* NDIS may initialize and halt several adapters at the same time; they    *)
(* share adapterList.  A halted instance may be initialized again.         *)
(***************************************************************************)
EXTENDS Integers

CONSTANTS Adapters,   \* instances of the device
          NumTcbs     \* NIC_MAX_BUSY_SENDS

ASSUME AdapterAssumption == NumTcbs \in Nat \ {0}

VARIABLES
  phase,        \* the step each VenetInitialize or VenetHalt has come to
  rc,           \* what VenetInitialize will return
  adapterList,
  live,         \* objects of each adapter that are allocated
  tcbs,         \* how many TCBs of each adapter are allocated
  field,        \* the pointers in its ADAPTER that are set
  tcbFree,      \* length of its tcbFree list
  badfree,      \* history: something was freed that was not allocated
  opened,       \* adapters with a DEVOPEN call that no DEVCLOSE call followed
  fault         \* the null pointer that was followed: the system has stopped

vars == <<phase, rc, adapterList, live, tcbs, field, tcbFree, badfree, opened, fault>>

Pointers == {"resetTimer", "recvTimer", "wdf_device", "vif", "bus_handle",
             "rxHandle", "txHandle"}

Running == fault = "none"

At(a, from, to) == Running /\ phase[a] = from /\ phase' = [phase EXCEPT ![a] = to]

\* a step of VenetInitialize: on, or "goto err"
Try(a, from, to, ok) ==
  /\ At(a, from, IF ok THEN to ELSE "halt")
  /\ rc' = [rc EXCEPT ![a] = IF ok THEN @ ELSE "failed"]

Add(f, a, s) == [f EXCEPT ![a] = @ \cup s]

Drop(f, a, s) == [f EXCEPT ![a] = @ \ s]

-----------------------------------------------------------------------------
(* The calls of the bus driver's interface (vbus/interface.c). *)

\* makes the DEVOPEN call, which the host refuses by a negative result; keeps the
\* handle in the PDO and does not store it through bh
VbusInterfaceOpen(a, result) == opened' = IF result >= 0 THEN opened \cup {a} ELSE opened

\* makes the DEVCLOSE call unless the handle is 0
VbusInterfaceClose(a) ==
  opened' = IF "bus_handle" \in field[a] THEN opened \ {a} ELSE opened

\* allocates an IOH, stored in the adapter's field h, or returns NULL
VbusInterfaceCreate(a, h, ok) ==
  LET made == IF ok THEN {h} ELSE {} IN
  field' = Add(field, a, made) /\ live' = Add(live, a, made)

\* ignores a NULL handle
VbusInterfaceDestroy(a, handles) ==
  LET queues == field[a] \cap handles IN
  live' = Drop(live, a, queues) /\ field' = Drop(field, a, queues)

-----------------------------------------------------------------------------
\* VenetAlloc and VenetAttach; without memory VenetHalt(NULL) takes the locks of
\* an adapter that is not there
VenetInitialize(a) ==
  /\ Running /\ phase[a] = "none"
  /\ \/ /\ phase' = [phase EXCEPT ![a] = "setup"]
        /\ rc' = [rc EXCEPT ![a] = "success"]
        /\ live' = Add(live, a, {"adapter"})
        /\ adapterList' = adapterList \cup {a}
        /\ UNCHANGED fault
     \/ /\ phase' = [phase EXCEPT ![a] = "halt"]
        /\ rc' = [rc EXCEPT ![a] = "failed"]
        /\ fault' = "adapter"
        /\ UNCHANGED <<live, adapterList>>
  /\ UNCHANGED <<tcbs, field, tcbFree, badfree, opened>>

\* the timers are created one after the other
VenetSetupAdapter(a) ==
  /\ \E made \in {{}, {"resetTimer"}, {"resetTimer", "recvTimer"}} :
       /\ Try(a, "setup", "interface", made = {"resetTimer", "recvTimer"})
       /\ field' = Add(field, a, made)
       /\ live' = Add(live, a, made)
  /\ UNCHANGED <<adapterList, tcbs, tcbFree, badfree, opened, fault>>

\* WdfDeviceMiniportCreate fails, or the query for the interface after it ...
NoInterface(a) ==
  /\ Try(a, "interface", "rx", FALSE)
  /\ \E made \in {{}, {"wdf_device"}} :
       field' = Add(field, a, made) /\ live' = Add(live, a, made)
  /\ UNCHANGED <<adapterList, tcbs, tcbFree, badfree, opened, fault>>

\* Mutation: the interface is not stored in the adapter.
InterfaceNotStored(a) ==
  /\ \E result \in {-1, 0, 1} :
       /\ Try(a, "interface", "rx", result = 0)
       /\ VbusInterfaceOpen(a, result)
  /\ field' = Add(field, a, {"wdf_device"})
  /\ live' = Add(live, a, {"wdf_device"})
  /\ UNCHANGED <<adapterList, tcbs, tcbFree, badfree, fault>>

\* ... or the interface is there, and the open returns.  A result above 0 is an
\* error here and none to the bus driver.
VenetGetInterface(a) ==
  /\ \E result \in {-1, 0, 1} :
       /\ Try(a, "interface", "rx", result = 0)
       /\ VbusInterfaceOpen(a, result)
  /\ field' = Add(field, a, {"wdf_device", "vif"})
  /\ live' = Add(live, a, {"wdf_device"})
  /\ UNCHANGED <<adapterList, tcbs, tcbFree, badfree, fault>>

\* VenetFreeRx after an error finds the NULL handle
VenetSetupRx(a) ==
  /\ \E ok \in BOOLEAN :
       Try(a, "rx", "tx", ok) /\ VbusInterfaceCreate(a, "rxHandle", ok)
  /\ UNCHANGED <<adapterList, tcbs, tcbFree, badfree, opened, fault>>

\* Mutation: the TCBs are freed and stay on the list.
FreeTxKeepsList(a) ==
  /\ tcbs' = [tcbs EXCEPT ![a] = IF @ >= tcbFree[a] THEN @ - tcbFree[a] ELSE 0]
  /\ badfree' = (badfree \/ tcbs[a] < tcbFree[a])
  /\ UNCHANGED tcbFree

\* VenetFreeTx: every TCB on the list
FreeTcbs(a) ==
  /\ tcbs' = [tcbs EXCEPT ![a] = IF @ >= tcbFree[a] THEN @ - tcbFree[a] ELSE 0]
  /\ badfree' = (badfree \/ tcbs[a] < tcbFree[a])
  /\ tcbFree' = [tcbFree EXCEPT ![a] = 0]

\* Mutation: the TCBs that were allocated are forgotten.
AllocTcbsNoLink(a) ==
  /\ \E n \in 0 .. NumTcbs :
       /\ Try(a, "tx", "create", n = NumTcbs)
       /\ tcbs' = [tcbs EXCEPT ![a] = n]
       /\ tcbFree' = [tcbFree EXCEPT ![a] = IF n = NumTcbs THEN n ELSE 0]
  /\ UNCHANGED <<adapterList, live, field, badfree, opened, fault>>

\* VenetSetupTx: the TCBs, each put on the list at once; then the queue
AllocTcbs(a) ==
  /\ \E n \in 0 .. NumTcbs :
       /\ Try(a, "tx", "create", n = NumTcbs)
       /\ tcbs' = [tcbs EXCEPT ![a] = n]
       /\ tcbFree' = [tcbFree EXCEPT ![a] = n]
  /\ UNCHANGED <<adapterList, live, field, badfree, opened, fault>>

CreateTx(a) ==
  /\ \E ok \in BOOLEAN :
       /\ Try(a, "create", "attributes", ok)
       /\ VbusInterfaceCreate(a, "txHandle", ok)
       /\ IF ok THEN UNCHANGED <<tcbs, tcbFree, badfree>> ELSE FreeTcbs(a)
  /\ UNCHANGED <<adapterList, opened, fault>>

\* registration and general attributes
VenetSetAttributes(a) ==
  /\ \E ok \in BOOLEAN : Try(a, "attributes", "running", ok)
  /\ UNCHANGED <<adapterList, live, tcbs, field, tcbFree, badfree, opened, fault>>

-----------------------------------------------------------------------------
(***************************************************************************)
(* VenetHalt, called by NDIS or as the error path.  refCount is 1 since    *)
(* no timer is ever armed, so that the wait for removeEvent is over at     *)
(* once.                                                                   *)
(***************************************************************************)
NdisHalts(a) ==
  /\ At(a, "running", "halt")
  /\ UNCHANGED <<rc, adapterList, live, tcbs, field, tcbFree, badfree, opened, fault>>

\* Mutation: the adapter stays on the list.
DetachForgotten(a) ==
  /\ At(a, "halt", "timers")
  /\ UNCHANGED <<rc, adapterList, live, tcbs, field, tcbFree, badfree, opened, fault>>

VenetDetach(a) ==
  /\ At(a, "halt", "timers")
  /\ adapterList' = adapterList \ {a}
  /\ UNCHANGED <<rc, live, tcbs, field, tcbFree, badfree, opened, fault>>

FreeTimers(a) ==
  LET timers == field[a] \cap {"resetTimer", "recvTimer"} IN
  /\ At(a, "timers", "free")
  /\ live' = Drop(live, a, timers)
  /\ badfree' = (badfree \/ ~(timers \subseteq live[a]))
  /\ UNCHANGED <<rc, adapterList, tcbs, field, tcbFree, opened, fault>>

\* VenetFreeRx and VenetFreeTx: vif.destroy is called even when the interface
\* was never obtained
FreeQueues(a) ==
  /\ At(a, "free", "close")
  /\ IF "vif" \notin field[a]
     THEN fault' = "vif" /\ UNCHANGED <<live, tcbs, field, tcbFree, badfree>>
     ELSE /\ FreeTcbs(a)
          /\ VbusInterfaceDestroy(a, {"rxHandle", "txHandle"})
          /\ UNCHANGED fault
  /\ UNCHANGED <<rc, adapterList, opened>>

\* vif.close passes bus_handle; then the adapter is freed
VenetClose(a) ==
  /\ At(a, "close", "none")
  /\ VbusInterfaceClose(a)
  /\ live' = Drop(live, a, {"adapter"})
  /\ field' = [field EXCEPT ![a] = {}]
  /\ badfree' = (badfree \/ "adapter" \notin live[a])
  /\ UNCHANGED <<rc, adapterList, tcbs, tcbFree, fault>>

-----------------------------------------------------------------------------
Init ==
  /\ phase = [a \in Adapters |-> "none"]
  /\ rc = [a \in Adapters |-> "success"]
  /\ adapterList = {}
  /\ live = [a \in Adapters |-> {}]
  /\ tcbs = [a \in Adapters |-> 0]
  /\ field = [a \in Adapters |-> {}]
  /\ tcbFree = [a \in Adapters |-> 0]
  /\ badfree = FALSE
  /\ opened = {}
  /\ fault = "none"

Initialize(a) ==
  \/ VenetInitialize(a) \/ VenetSetupAdapter(a) \/ NoInterface(a)
  \/ VenetGetInterface(a) \/ VenetSetupRx(a) \/ AllocTcbs(a) \/ CreateTx(a)
  \/ VenetSetAttributes(a)

Halt(a) ==
  NdisHalts(a) \/ VenetDetach(a) \/ FreeTimers(a) \/ FreeQueues(a) \/ VenetClose(a)

Next == \E a \in Adapters : Initialize(a) \/ Halt(a)

Spec == Init /\ [][Next]_vars

-----------------------------------------------------------------------------
TypeOK ==
  /\ phase \in [Adapters -> {"none", "setup", "interface", "rx", "tx", "create", "attributes",
                             "running", "halt", "timers", "free", "close"}]
  /\ rc \in [Adapters -> {"success", "failed"}]
  /\ adapterList \subseteq Adapters /\ opened \subseteq Adapters
  /\ live \in [Adapters -> SUBSET (Pointers \cup {"adapter"})]
  /\ field \in [Adapters -> SUBSET Pointers]
  /\ tcbs \in [Adapters -> 0 .. NumTcbs] /\ tcbFree \in [Adapters -> 0 .. NumTcbs]
  /\ badfree \in BOOLEAN /\ fault \in {"none", "adapter", "vif"}

\* Whenever VenetHalt returns, called by NDIS or as the error path of a start that
\* failed at the open or at any later step, it has given back the timers, the queues,
\* every TCB of a partial allocation and the adapter; the WDFDEVICE is what is left.
\* From a start that failed before it had the interface VenetHalt does not return.
HaltGivesBack ==
  \A a \in Adapters :
    phase[a] = "none" => live[a] \subseteq {"wdf_device"} /\ tcbs[a] = 0 /\ tcbFree[a] = 0

\* "Free resources" in VenetHalt (venet.c:554): all that VenetInitialize created.
AllGivenBack == \A a \in Adapters : phase[a] = "none" => live[a] = {}

\* No adapter that was freed is on adapterList, and each one that NDIS can use
\* is on it.
ListedAreLive ==
  /\ \A a \in adapterList : "adapter" \in live[a]
  /\ \A a \in Adapters : phase[a] = "running" => a \in adapterList

\* VenetSetupTx cleans up with VenetFreeTx when the queue cannot be created and
\* VenetHalt does so again: nothing is freed twice.
FreedOnce == ~badfree

\* An adapter that came up is halted without a null pointer being followed;
\* only a VenetInitialize that failed does that.
StartedHaltsSafely ==
  fault # "none" => \E a \in Adapters : rc[a] = "failed" /\ phase[a] \in {"halt", "close"}

\* VbusInterfaceClose (interface.c:66-68) counts on the DEVCLOSE call: "The
\* DEVICECLOSE will implicitly close all of the shm on the host-side".
OpenIsClosed == \A a \in Adapters : phase[a] = "none" => a \notin opened
=============================================================================
