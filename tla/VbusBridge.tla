----------------------------- MODULE VbusBridge -----------------------------
(***************************************************************************)
(* Bring-up and tear-down of the bridge (vbus/pci.c) and the child list it *)
(* reports (pci.c, pdo.c).  Every bridge device that the driver is loaded  *)
(* for shares the one static struct vbus_pci.                              *)
(*                                                                         *)
(* The framework (external) starts and stops one device at a time, undoes  *)
(* a failed EvtDevicePrepareHardware by EvtDeviceReleaseHardware, powers a *)
(* prepared device up and down, creates a PDO for a child that is present  *)
(* and deletes the PDO of one that is missing.                             *)
(***************************************************************************)
EXTENDS Naturals

CONSTANTS
  Bridges,    \* bus devices that VbusAdd created
  Ids,        \* device ids the host announces
  Types,      \* device types it announces them with
  HandleOf,   \* the handle by which the host names each device in events
  Null        \* the null pointer

ASSUME BridgeAssumption ==
  /\ HandleOf \in [Ids -> Nat]
  /\ Null \notin Bridges \cup {"lock", "regs", "head", "signal", "ring", "port"}

VARIABLES
  vbus_pci,   \* the static structure
  heap,       \* what is allocated or mapped and still pointed to, by kind
  lost,       \* kinds of which something is allocated and nothing points to it
  twice,      \* history: something was freed that was not allocated
  hostmem,    \* what the host was given the address of (QREG)
  pnp,        \* where the framework is with each bridge
  child,      \* descriptions present in each bridge's child list
  pdo,        \* the PDOs that exist, by bridge
  fault       \* the null pointer that was followed: the system has stopped

busvars == <<vbus_pci, heap, lost, twice, hostmem>>
vars == <<busvars, pnp, child, pdo, fault>>

Desc == [id : Ids, type : Types]

AtRest == {"stopped", "prepared", "d0"}

\* head and signal are those of eventq
Zeroed == [enabled |-> 0, bus |-> Null, lock |-> Null, regs |-> Null, signals |-> Null,
           head |-> Null, signal |-> Null, ring |-> Null]

Step(d, from, to) == fault = "none" /\ pnp[d] = from /\ pnp' = [pnp EXCEPT ![d] = to]

\* a pointer of vbus_pci is followed
Follow(field) == fault' = IF vbus_pci[field] = Null THEN field ELSE "none"

\* A signal that is followed may run eventq_wakeup, whose ioq_signal ends in
\* eventq_signal_inject if the host has unmasked its side.  That stores through
\* signals, which is null or a port number, never the address of memory.
FollowAndWake ==
  fault' \in IF vbus_pci.signal = Null THEN {"signal"} ELSE {"none", "signals"}

\* New objects are stored where pointers to such objects are kept: what those
\* pointed to is still allocated, but lost.
Allocate(kinds) ==
  /\ heap' = heap \cup kinds
  /\ lost' = lost \cup (heap \cap kinds)

-----------------------------------------------------------------------------
(***************************************************************************)
(* VbusPciPrepareHardware, one action per step that can fail.              *)
(***************************************************************************)
VbusPciPrepareHardware(d) ==
  /\ \A e \in Bridges : pnp[e] \in AtRest
  /\ IF vbus_pci.enabled = 1   \* STATUS_DEVICE_ALREADY_ATTACHED
     THEN Step(d, "stopped", "failed") /\ UNCHANGED vbus_pci
     ELSE Step(d, "stopped", "locks") /\ vbus_pci' = [vbus_pci EXCEPT !.bus = d]
  /\ UNCHANGED <<heap, lost, twice, hostmem, child, pdo, fault>>

\* The two spin locks, vbus_pci.lock and the global fastlock; an error of either
\* returns without the cleanup, and one of the second may leave fastlock null.
CreateLocks(d) ==
  /\ \/ /\ Step(d, "locks", "map") /\ Allocate({"lock", "fastlock"})
        /\ vbus_pci' = [vbus_pci EXCEPT !.lock = "lock"]
     \/ Step(d, "locks", "failed") /\ UNCHANGED <<vbus_pci, heap, lost>>
     \/ /\ Step(d, "locks", "failed") /\ Allocate({"lock"})
        /\ vbus_pci' = [vbus_pci EXCEPT !.lock = "lock"]
     \/ /\ Step(d, "locks", "failed")
        /\ heap' = (heap \ {"fastlock"}) \cup {"lock"}
        /\ lost' = lost \cup (heap \cap {"lock", "fastlock"})
        /\ vbus_pci' = [vbus_pci EXCEPT !.lock = "lock"]
  /\ UNCHANGED <<twice, hostmem, child, pdo, fault>>

\* A port or a memory resource; there may be any number of each, and a mapping
\* that fails is no error.  Interrupt resources change nothing.
vbus_pci_parse_resource(d) ==
  /\ Step(d, "map", "map")
  /\ \/ vbus_pci' = [vbus_pci EXCEPT !.signals = "port"] /\ UNCHANGED <<heap, lost>>
     \/ vbus_pci' = [vbus_pci EXCEPT !.regs = "regs"] /\ Allocate({"regs"})
     \/ /\ vbus_pci' = [vbus_pci EXCEPT !.regs = Null]
        /\ heap' = heap \ {"regs"} /\ lost' = lost \cup (heap \cap {"regs"})
  /\ UNCHANGED <<twice, hostmem, child, pdo, fault>>

\* The list ends, whatever it held, or it is empty or has a bad descriptor.
vbus_pci_map_resources(d) ==
  /\ \E to \in {"negotiate", "out_fail"} : Step(d, "map", to)
  /\ UNCHANGED <<busvars, child, pdo, fault>>

\* vbus_pci_bridgecall: the host may refuse
BridgeCall(d, from, to) ==
  /\ \E next \in {to, "out_fail"} : Step(d, from, next)
  /\ Follow("regs")

vbus_pci_open(d) ==
  /\ BridgeCall(d, "negotiate", "fastcall")
  /\ UNCHANGED <<busvars, child, pdo>>

\* fastparams is static, so that the host may keep its address
vbus_pci_setup_fastcall(d) ==
  /\ BridgeCall(d, "fastcall", "ioq")
  /\ UNCHANGED <<busvars, child, pdo>>

\* Mutation: the head stays allocated when the signal cannot be.
IoqInitKeepsHead(d) ==
  /\ \/ /\ Step(d, "ioq", "ring")
        /\ vbus_pci' = [vbus_pci EXCEPT !.head = "head", !.signal = "signal"]
        /\ Allocate({"head", "signal"})
     \/ /\ Step(d, "ioq", "out_fail")
        /\ Allocate({"head"})
        /\ UNCHANGED vbus_pci
  /\ UNCHANGED <<twice, hostmem, child, pdo, fault>>

\* Mutation: an allocation that fails is no error.
IoqInitUnchecked(d) ==
  /\ Step(d, "ioq", "ring")
  /\ \/ /\ vbus_pci' = [vbus_pci EXCEPT !.head = "head", !.signal = "signal"]
        /\ Allocate({"head", "signal"})
     \/ UNCHANGED <<vbus_pci, heap, lost>>
  /\ UNCHANGED <<twice, hostmem, child, pdo, fault>>

\* eventq_ioq_init stores the head and the signal only once it has both
eventq_ioq_init(d) ==
  /\ \/ /\ Step(d, "ioq", "ring")
        /\ vbus_pci' = [vbus_pci EXCEPT !.head = "head", !.signal = "signal"]
        /\ Allocate({"head", "signal"})
     \/ Step(d, "ioq", "out_fail") /\ UNCHANGED <<vbus_pci, heap, lost>>
  /\ UNCHANGED <<twice, hostmem, child, pdo, fault>>

\* eventq_init; posting the descriptors never fails (see Ioq)
eventq_init(d) ==
  /\ \/ /\ Step(d, "ring", "register")
        /\ vbus_pci' = [vbus_pci EXCEPT !.ring = "ring"]
        /\ Allocate({"ring"})
     \/ Step(d, "ring", "out_fail") /\ UNCHANGED <<vbus_pci, heap, lost>>
  /\ UNCHANGED <<twice, hostmem, child, pdo, fault>>

vbus_pci_eventq_register(d) ==
  /\ BridgeCall(d, "register", "prepared")
  /\ IF pnp'[d] = "prepared" /\ fault' = "none"
     THEN /\ hostmem' = {vbus_pci.head, vbus_pci.ring}
          /\ vbus_pci' = [vbus_pci EXCEPT !.enabled = 1]
     ELSE UNCHANGED <<hostmem, vbus_pci>>
  /\ UNCHANGED <<heap, lost, twice, child, pdo>>

-----------------------------------------------------------------------------
Buffers == {vbus_pci.regs, vbus_pci.head, vbus_pci.signal, vbus_pci.ring} \ {Null}

Owned == Buffers \cup ({vbus_pci.lock} \ {Null})

\* Mutation: the structure is not zeroed.
CleanupKeepsPointers ==
  /\ heap' = heap \ Buffers
  /\ twice' = (twice \/ ~(Buffers \subseteq heap))
  /\ vbus_pci' = [vbus_pci EXCEPT !.enabled = 0]
  /\ UNCHANGED <<lost, hostmem>>

\* Free the buffers and zero the structure, the pointer to the lock included; the
\* host is not told.
vbus_pci_cleanup ==
  /\ heap' = heap \ (Buffers \cup {"lock"})
  /\ lost' = lost \cup (heap \cap {"lock"})
  /\ twice' = (twice \/ ~(Buffers \subseteq heap))
  /\ vbus_pci' = Zeroed
  /\ UNCHANGED hostmem

OutFail(d) ==
  /\ Step(d, "out_fail", "failed")
  /\ vbus_pci_cleanup
  /\ UNCHANGED <<child, pdo, fault>>

VbusPciReleaseHardware(d) ==
  /\ \A e \in Bridges \ {d} : pnp[e] \in AtRest
  /\ \E from \in {"failed", "prepared"} : Step(d, from, "stopped")
  /\ vbus_pci_cleanup
  /\ UNCHANGED <<child, pdo, fault>>

\* both hand vbus_pci.eventq.signal to shm-signal.c (see EventQueue)
VbusPciD0Entry(d) ==
  /\ Step(d, "prepared", "d0") /\ FollowAndWake
  /\ UNCHANGED <<busvars, child, pdo>>

VbusPciD0Exit(d) ==
  /\ Step(d, "d0", "prepared") /\ Follow("signal")
  /\ UNCHANGED <<busvars, child, pdo>>

-----------------------------------------------------------------------------
(***************************************************************************)
(* The interrupt of a powered bridge: the ISR follows the signal, then the *)
(* drain dispatches an event on the child list of vbus_pci.bus.            *)
(***************************************************************************)
Interrupt(d) == fault = "none" /\ pnp[d] = "d0" /\ FollowAndWake

Dispatched == vbus_pci.signal # Null

VbusIdCmp(l, r) == l.id = r.id

\* AddOrUpdate keeps the description it has; a failure is only logged
event_devadd(d, desc) ==
  LET bus == vbus_pci.bus IN
  /\ Interrupt(d)
  /\ \E added \in BOOLEAN :
       child' = IF Dispatched /\ added /\ \A c \in child[bus] : ~VbusIdCmp(c, desc)
                THEN [child EXCEPT ![bus] = @ \cup {desc}] ELSE child
  /\ UNCHANGED <<busvars, pnp, pdo>>

SameDesc(c, p) == c.id = p.id /\ c.type = p.type

\* Walk the present children that have a PDO to the first whose handle is the
\* event's, and report its id, with a type left uninitialised, as missing.
event_devdrop(d, id) ==
  LET bus == vbus_pci.bus
      found == {p \in pdo[bus] : /\ \E c \in child[bus] : SameDesc(c, p)
                                 /\ p.handle = HandleOf[id]} IN
  /\ Interrupt(d)
  /\ IF Dispatched /\ found # {}
     THEN \E p \in found, type \in Types :
            child' = [child EXCEPT ![bus] =
                        {c \in @ : ~VbusIdCmp(c, [id |-> p.id, type |-> type])}]
     ELSE UNCHANGED child
  /\ UNCHANGED <<busvars, pnp, pdo>>

\* VbusDevicePdo, called for a present child without a PDO; VbusCreatePdo copies
\* the id and the type into a zeroed context.  An error leaves things as they are.
VbusCreatePdo(d, desc) ==
  /\ fault = "none"
  /\ desc \in child[d]
  /\ \A p \in pdo[d] : ~SameDesc(desc, p)
  /\ pdo' = [pdo EXCEPT ![d] = @ \cup {[id |-> desc.id, type |-> desc.type, handle |-> 0]}]
  /\ UNCHANGED <<busvars, pnp, child, fault>>

DeletePdo(d, p) ==
  /\ fault = "none"
  /\ p \in pdo[d] /\ \A c \in child[d] : ~SameDesc(c, p)
  /\ pdo' = [pdo EXCEPT ![d] = @ \ {p}]
  /\ UNCHANGED <<busvars, pnp, child, fault>>

-----------------------------------------------------------------------------
Init ==
  /\ vbus_pci = Zeroed
  /\ heap = {} /\ lost = {} /\ twice = FALSE /\ hostmem = {}
  /\ pnp = [d \in Bridges |-> "stopped"]
  /\ child = [d \in Bridges |-> {}]
  /\ pdo = [d \in Bridges |-> {}]
  /\ fault = "none"

Prepare(d) ==
  \/ VbusPciPrepareHardware(d) \/ CreateLocks(d)
  \/ vbus_pci_parse_resource(d) \/ vbus_pci_map_resources(d)
  \/ vbus_pci_open(d) \/ vbus_pci_setup_fastcall(d) \/ eventq_ioq_init(d)
  \/ eventq_init(d) \/ vbus_pci_eventq_register(d) \/ OutFail(d)

Events(d) ==
  \/ \E desc \in Desc : event_devadd(d, desc) \/ VbusCreatePdo(d, desc)
  \/ \E id \in Ids : event_devdrop(d, id)
  \/ \E p \in pdo[d] : DeletePdo(d, p)

Next ==
  \E d \in Bridges :
    \/ Prepare(d) \/ VbusPciReleaseHardware(d) \/ VbusPciD0Entry(d) \/ VbusPciD0Exit(d)
    \/ Events(d)

Spec == Init /\ [][Next]_vars

-----------------------------------------------------------------------------
PnpLabels == AtRest \cup {"locks", "map", "negotiate", "fastcall", "ioq", "ring",
                         "register", "out_fail", "failed"}

StructTypeOK ==
  vbus_pci \in [enabled : {0, 1}, bus : Bridges \cup {Null}, lock : {"lock", Null},
                regs : {"regs", Null}, signals : {"port", Null},
                head : {"head", Null}, signal : {"signal", Null}, ring : {"ring", Null}]

Kinds == {"lock", "fastlock", "regs", "head", "signal", "ring"}

TypeOK ==
  /\ StructTypeOK
  /\ heap \subseteq Kinds /\ lost \subseteq Kinds /\ twice \in BOOLEAN
  /\ hostmem \subseteq {"head", "ring"}
  /\ pnp \in [Bridges -> PnpLabels]
  /\ child \in [Bridges -> SUBSET Desc]
  /\ pdo \in [Bridges -> SUBSET [id : Ids, type : Types, handle : {0}]]
  /\ fault \in {"none", "regs", "signal", "signals"}

\* Whichever step of VbusPciPrepareHardware fails, and however often the device is
\* stopped and started, the ring head, the signal and the ring are given back, and
\* the mapping of the last memory resource.  What stays allocated until the driver is
\* unloaded are the spin locks of every start and mappings of earlier resources.
OnlyLocksAndMappingsLeak ==
  /\ lost \subseteq {"lock", "fastlock", "regs"}
  /\ (\A d \in Bridges : pnp[d] = "stopped") => heap \subseteq {"fastlock"} /\ vbus_pci = Zeroed

\* Cleaning up after a failed start and again when the framework undoes it
\* frees nothing twice.
FreedOnce == ~twice

\* The inductive invariant behind both, for any number of bridges: what is allocated
\* and not lost is exactly what the structure and the global fastlock point to.
BridgeInv ==
  /\ StructTypeOK /\ pnp \in [Bridges -> PnpLabels]
  /\ heap \ {"fastlock"} = Owned
  /\ FreedOnce
  /\ (\A d \in Bridges : pnp[d] = "stopped") => vbus_pci = Zeroed

\* The power callbacks and the ISR always find the signal that they follow: what was
\* allocated under a check is there.  The two resources, taken without one, may not
\* be: NothingFaults.
SignalIsThere == fault # "signal"

\* vbus_pci_cleanup (pci.c:646): "Perform all cleanups for a shutdown or
\* restart", so never under a bridge that is prepared or running.
RunningBridgeKeepsState ==
  \A d \in Bridges : pnp[d] \in {"prepared", "d0"} => vbus_pci.bus = d /\ vbus_pci.enabled = 1

\* And "all" of them: the host keeps no address of memory that was freed,
HostMemoryIsLive == hostmem \subseteq heap

\* and nothing that a start has created outlives the bridges.
AllCleanedUp ==
  (\A d \in Bridges : pnp[d] = "stopped") => heap = {} /\ lost = {}

\* struct vbus_pci (pci.c:37-38), regs "mmio" and signals "pio": each is there when
\* it is used, and used as what it is.
NothingFaults == fault = "none"

\* event_devdrop (pci.c:291-293): "Search the child list for a child with this
\* handle"; the device the host named is missing afterwards.
DropRemovesChild ==
  [][\A d \in Bridges, id \in Ids :
       event_devdrop(d, id) => \A c \in child'[d] : c.id # id]_vars
=============================================================================
