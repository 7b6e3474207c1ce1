------------------------------ MODULE BusCall -------------------------------
(***************************************************************************)
(* Bus calls of the child drivers (vbus/interface.c) through the one       *)
(* fast-call page of the bridge (vbus_pci_buscall, vbus/pci.c), composed   *)
(* with the life of the bridge and its PDOs.                               *)
(*                                                                         *)
(* vbus_pci_buscall rings by a write to the port whose number is the       *)
(* address of vbus_pci.signals, and not to the fastcall port that signals  *)
(* holds.  Whether that number happens to be the port the host listens to  *)
(* is settled when the driver is loaded: rings.                            *)
(*                                                                         *)
(* The framework (external) removes a child's driver before it deletes the *)
(* PDO and powers the children down before the bridge, so that a driver    *)
(* calls only under a powered bridge and neither goes away during a call.  *)
(***************************************************************************)
EXTENDS VbusBridge, Integers

CONSTANT Locks   \* spin lock objects WdfSpinLockCreate can return

Clients == [bus : Bridges, id : Ids, type : Types]

\* One bridge: what a second one does to the first is the subject of VbusBridge.
ASSUME BusCallAssumption ==
  /\ \E d \in Bridges : Bridges = {d}
  /\ Null \notin Locks \cup Ids \cup Clients

VARIABLES
  rings,      \* the doorbell reaches the host
  fastlock,   \* the lock object in the static variable
  holder,     \* who holds each lock
  fastparams, \* the page: who stored each field; vector with the call it asks for
  at,         \* where each child driver is in vbus_pci_buscall
  asks,       \* the call it makes
  rc,         \* what it has read as the result
  handle,     \* the handle in its struct vbus_pci_deviceopen
  bh,         \* pd->bh
  opened      \* history: PDOs whose open has returned success

callvars == <<fastparams, at, asks, rc, handle, bh, opened>>
busCallVars == <<vars, rings, fastlock, holder, callvars>>

PdoOf(c) == [id |-> c.id, type |-> c.type, handle |-> 0]

Inside == {c \in Clients : at[c] # "idle"}

MayCall(c) ==
  fault = "none" /\ at[c] = "idle" /\ pnp[c.bus] = "d0" /\ PdoOf(c) \in pdo[c.bus]

Goto(c, from, to) == fault = "none" /\ at[c] = from /\ at' = [at EXCEPT ![c] = to]

-----------------------------------------------------------------------------
\* Mutation: the page is not locked.
AcquireAlways(c) == holder' = [holder EXCEPT ![fastlock] = c]

Acquire(c) == holder[fastlock] = Null /\ holder' = [holder EXCEPT ![fastlock] = c]

\* VbusInterfaceOpen, with a zero handle in its parameters, and VbusInterfaceCall,
\* with any other vector of the child's choice, up to the lock of vbus_pci_buscall
Enter(c, op) ==
  /\ MayCall(c) /\ Acquire(c)
  /\ at' = [at EXCEPT ![c] = "vector"]
  /\ asks' = [asks EXCEPT ![c] = op]
  /\ UNCHANGED <<vars, rings, fastlock, fastparams, rc, handle, bh, opened>>

VbusInterfaceOpen(c) == Enter(c, "open")

VbusInterfaceCall(c) == Enter(c, "call")

StoreVector(c) ==
  /\ Goto(c, "vector", "len")
  /\ fastparams' = [fastparams EXCEPT !.vector = [by |-> c, op |-> asks[c]]]
  /\ UNCHANGED <<vars, rings, fastlock, holder, asks, rc, handle, bh, opened>>

StoreLen(c) ==
  /\ Goto(c, "len", "datap")
  /\ fastparams' = [fastparams EXCEPT !.len = c]
  /\ UNCHANGED <<vars, rings, fastlock, holder, asks, rc, handle, bh, opened>>

\* Mutation: the port is written before the address of the data is stored.
StoreDatapLate(c) ==
  /\ Goto(c, "datap", "doorbell")
  /\ UNCHANGED <<vars, rings, fastlock, holder, fastparams, asks, rc, handle, bh, opened>>

StoreDatap(c) ==
  /\ Goto(c, "datap", "doorbell")
  /\ fastparams' = [fastparams EXCEPT !.datap = c]
  /\ UNCHANGED <<vars, rings, fastlock, holder, asks, rc, handle, bh, opened>>

\* The host (external) does what the page asks for before the port write
\* completes: an open writes the device's handle where datap points.
HostAnswers ==
  \E result \in {0, -1} :
    LET asked == fastparams.vector  data == fastparams.datap IN
    /\ fastparams' = [fastparams EXCEPT !.result = [by |-> data, rc |-> result]]
    /\ handle' = IF asked.op = "open" /\ result = 0
                 THEN [handle EXCEPT ![data] = data.id] ELSE handle

\* Mutation: the lock is released before the result is read.
DoorbellUnlocks(c) ==
  /\ Goto(c, "doorbell", "result")
  /\ IF rings THEN HostAnswers ELSE UNCHANGED <<fastparams, handle>>
  /\ holder' = [holder EXCEPT ![fastlock] = Null]
  /\ UNCHANGED <<vars, rings, fastlock, asks, rc, bh, opened>>

Doorbell(c) ==
  /\ Goto(c, "doorbell", "result")
  /\ IF rings THEN HostAnswers ELSE UNCHANGED <<fastparams, handle>>
  /\ UNCHANGED <<vars, rings, fastlock, holder, asks, rc, bh, opened>>

ReadResult(c) ==
  /\ Goto(c, "result", "release")
  /\ rc' = [rc EXCEPT ![c] = fastparams.result.rc]
  /\ UNCHANGED <<vars, rings, fastlock, holder, fastparams, asks, handle, bh, opened>>

\* fastlock is read again.  The open stores the handle in the PDO's context
\* unless rc < 0, and never through its bh argument.  The locals go away.
Return(c) ==
  /\ Goto(c, "release", "idle")
  /\ holder' = [holder EXCEPT ![fastlock] = Null]
  /\ IF asks[c] = "open" /\ rc[c] >= 0
     THEN bh' = [bh EXCEPT ![c] = handle[c]] /\ opened' = opened \cup {c}
     ELSE UNCHANGED <<bh, opened>>
  /\ asks' = [asks EXCEPT ![c] = "call"]
  /\ rc' = [rc EXCEPT ![c] = 0]
  /\ handle' = [handle EXCEPT ![c] = Null]
  /\ UNCHANGED <<vars, rings, fastlock, fastparams>>

-----------------------------------------------------------------------------
(***************************************************************************)
(* A step of the bridge: VbusPciPrepareHardware replaces fastlock, and the *)
(* context of a new PDO is zero.                                           *)
(***************************************************************************)
FreshLocks == {l \in Locks : l # fastlock /\ holder[l] = Null}

FastlockFollows ==
  \/ /\ \E d \in Bridges : pnp[d] = "locks" /\ pnp'[d] = "map"
     /\ fastlock' \in FreshLocks
  \/ /\ \E d \in Bridges : pnp[d] = "locks" /\ pnp'[d] = "failed"
     /\ fastlock' = IF "fastlock" \in heap' THEN fastlock ELSE Null
  \/ /\ \A d \in Bridges : pnp[d] = "locks" => pnp'[d] = "locks"
     /\ UNCHANGED fastlock

Gone == {c \in Clients : PdoOf(c) \notin pdo'[c.bus]}

BridgeStep ==
  /\ Next
  /\ FastlockFollows
  /\ \A c \in Inside : pnp'[c.bus] = "d0" /\ c \notin Gone
  /\ bh' = [c \in Clients |-> IF c \in Gone THEN Null ELSE bh[c]]
  /\ opened' = opened \ Gone
  /\ UNCHANGED <<rings, holder, fastparams, at, asks, rc, handle>>

CallStep(c) ==
  \/ VbusInterfaceOpen(c) \/ VbusInterfaceCall(c)
  \/ StoreVector(c) \/ StoreLen(c) \/ StoreDatap(c)
  \/ Doorbell(c) \/ ReadResult(c) \/ Return(c)

BusInit ==
  /\ Init
  /\ rings \in BOOLEAN
  /\ fastlock = Null
  /\ holder = [l \in Locks |-> Null]
  /\ fastparams = [vector |-> [by |-> Null, op |-> "call"], len |-> Null, datap |-> Null,
                   result |-> [by |-> Null, rc |-> 0]]
  /\ at = [c \in Clients |-> "idle"]
  /\ asks = [c \in Clients |-> "call"]
  /\ rc = [c \in Clients |-> 0]
  /\ handle = [c \in Clients |-> Null]
  /\ bh = [c \in Clients |-> Null]
  /\ opened = {}

BusNext == BridgeStep \/ \E c \in Clients : CallStep(c)

BusSpec == BusInit /\ [][BusNext]_busCallVars

-----------------------------------------------------------------------------
Labels == {"idle", "vector", "len", "datap", "doorbell", "result", "release"}

ByClient == Clients \cup {Null}

CallTypeOK ==
  /\ rings \in BOOLEAN
  /\ fastlock \in Locks \cup {Null}
  /\ holder \in [Locks -> ByClient]
  /\ fastparams \in [vector : [by : ByClient, op : {"open", "call"}], len : ByClient,
                      datap : ByClient, result : [by : ByClient, rc : {0, -1}]]
  /\ at \in [Clients -> Labels]
  /\ asks \in [Clients -> {"open", "call"}]
  /\ rc \in [Clients -> {0, -1}]
  /\ handle \in [Clients -> Ids \cup {Null}]
  /\ bh \in [Clients -> Ids \cup {Null}]
  /\ opened \subseteq Clients

\* What a child driver inside vbus_pci_buscall has stored in the page so far is
\* there until it returns, and it holds the very lock that it will release.
PageIsMine ==
  \A c \in Inside :
    /\ fastlock # Null /\ holder[fastlock] = c
    /\ at[c] # "vector" => fastparams.vector = [by |-> c, op |-> asks[c]]
    /\ at[c] \notin {"vector", "len"} => fastparams.len = c
    /\ at[c] \notin {"vector", "len", "datap"} => fastparams.datap = c

\* If the doorbell reaches the host, a driver returns with the host's answer to
\* its own call, and if it does not, with 0: never with what the page still holds
\* of another driver's call, although nothing resets the result.
AnswerIsOwn ==
  \A c \in Clients : at[c] = "release" =>
    IF rings THEN fastparams.result = [by |-> c, rc |-> rc[c]]
             ELSE fastparams.result.by = Null /\ rc[c] = 0

\* An open that the host has answered with success has left the handle of that
\* PDO's device in the PDO, however many drivers open and call at once.
OpenGetsItsDevice == rings => \A c \in opened : bh[c] = c.id

\* A bridge that is prepared has a lock for its children's calls, and the ring
\* the host was given is memory that is allocated.
PreparedIsComplete ==
  \A d \in Bridges : pnp[d] \in {"prepared", "d0"} /\ fault = "none" =>
    fastlock # Null /\ hostmem = {"head", "ring"} /\ hostmem \subseteq heap

\* The inductive invariant of the calls.  A driver inside keeps the bridge powered,
\* which keeps VbusPciPrepareHardware from replacing the lock it holds; the handle
\* in its parameters is the host's answer to an open, once there is one.
CallInv ==
  /\ CallTypeOK
  /\ pnp \in [Bridges -> PnpLabels]
  /\ \A d \in Bridges : pnp[d] \notin {"stopped", "locks", "failed"} => fastlock # Null
  /\ \A c \in Inside : pnp[c.bus] = "d0"
  /\ PageIsMine
  /\ ~rings => fastparams.result = [by |-> Null, rc |-> 0]
  /\ \A c \in Clients :
       /\ rings /\ at[c] \in {"result", "release"} => fastparams.result.by = c
       /\ at[c] = "release" => rc[c] = fastparams.result.rc
       /\ rings /\ asks[c] = "open" /\ at[c] \in {"result", "release"}
            /\ fastparams.result.rc = 0 => handle[c] = c.id
  /\ OpenGetsItsDevice

\* vbus_pci.h:59, "return value for devh": an open that succeeds returns the
\* device's handle.
OpenReturnsHandle == \A c \in opened : bh[c] = c.id
=============================================================================
