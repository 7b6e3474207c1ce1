--------------------------- MODULE BusCallProofs ----------------------------
(***************************************************************************)
(* The calls of any number of child drivers share one page and one lock    *)
(* without mixing their parameters or answers, whatever the framework does *)
(* to the bridge and the PDOs meanwhile.                                   *)
(***************************************************************************)
EXTENDS BusCall, VbusBridgeProofs

\* What CallInv says of one child driver.
ClientInv(c) ==
  at[c] # "idle" =>
    /\ pnp[c.bus] = "d0"
    /\ fastlock # Null /\ holder[fastlock] = c
    /\ at[c] # "vector" => fastparams.vector = [by |-> c, op |-> asks[c]]
    /\ at[c] \notin {"vector", "len"} => fastparams.len = c
    /\ at[c] \notin {"vector", "len", "datap"} => fastparams.datap = c
    /\ at[c] \in {"result", "release"} =>
         /\ rings => fastparams.result.by = c
         /\ rings /\ asks[c] = "open" /\ fastparams.result.rc = 0 => handle[c] = c.id
    /\ at[c] = "release" => rc[c] = fastparams.result.rc

\* What it says of the bridge and the page.
SharedInv ==
  /\ pnp \in [Bridges -> PnpLabels]
  /\ \A d \in Bridges : pnp[d] \notin {"stopped", "locks", "failed"} => fastlock # Null
  /\ ~rings => fastparams.result = [by |-> Null, rc |-> 0]

\* CallInv has these parts.
LEMMA CallInvParts ==
  ASSUME CallInv
  PROVE  CallTypeOK /\ SharedInv /\ (\A c \in Clients : ClientInv(c)) /\ OpenGetsItsDevice
<1>1. CallTypeOK /\ SharedInv /\ OpenGetsItsDevice /\ PageIsMine
  BY DEF CallInv, SharedInv
<1>2. \A c \in Clients :
         /\ rings /\ at[c] \in {"result", "release"} => fastparams.result.by = c
         /\ at[c] = "release" => rc[c] = fastparams.result.rc
         /\ rings /\ asks[c] = "open" /\ at[c] \in {"result", "release"}
              /\ fastparams.result.rc = 0 => handle[c] = c.id
  BY DEF CallInv
<1>3. \A c \in Inside : pnp[c.bus] = "d0"
  BY DEF CallInv
<1>4. \A c \in Clients : ClientInv(c)
  BY <1>1, <1>2, <1>3 DEF ClientInv, PageIsMine, Inside
<1> QED
  BY <1>1, <1>4

\* The parts make up the whole.
LEMMA PartsCallInv ==
  ASSUME CallTypeOK, SharedInv, \A c \in Clients : ClientInv(c), OpenGetsItsDevice
  PROVE  CallInv
<1>1. PageIsMine /\ \A c \in Inside : pnp[c.bus] = "d0"
  BY DEF ClientInv, PageIsMine, Inside
<1>2. \A c \in Clients :
         /\ rings /\ at[c] \in {"result", "release"} => fastparams.result.by = c
         /\ at[c] = "release" => rc[c] = fastparams.result.rc
         /\ rings /\ asks[c] = "open" /\ at[c] \in {"result", "release"}
              /\ fastparams.result.rc = 0 => handle[c] = c.id
  BY DEF ClientInv
<1>3. /\ pnp \in [Bridges -> PnpLabels]
      /\ \A d \in Bridges : pnp[d] \notin {"stopped", "locks", "failed"} => fastlock # Null
      /\ ~rings => fastparams.result = [by |-> Null, rc |-> 0]
  BY DEF SharedInv
<1> QED
  BY <1>1, <1>2, <1>3, Zenon DEF CallInv

\* And so they do after a step.
LEMMA CallInvPartsPrime ==
  ASSUME CallTypeOK', SharedInv', \A c \in Clients : ClientInv(c)', OpenGetsItsDevice'
  PROVE  CallInv'
<1>1. PageIsMine' /\ (\A c \in Inside : pnp[c.bus] = "d0")'
  BY DEF ClientInv, PageIsMine, Inside
<1>2. (\A c \in Clients :
         /\ rings /\ at[c] \in {"result", "release"} => fastparams.result.by = c
         /\ at[c] = "release" => rc[c] = fastparams.result.rc
         /\ rings /\ asks[c] = "open" /\ at[c] \in {"result", "release"}
              /\ fastparams.result.rc = 0 => handle[c] = c.id)'
  BY DEF ClientInv
<1>3. /\ (pnp \in [Bridges -> PnpLabels])'
      /\ (\A d \in Bridges : pnp[d] \notin {"stopped", "locks", "failed"} => fastlock # Null)'
      /\ (~rings => fastparams.result = [by |-> Null, rc |-> 0])'
  BY DEF SharedInv
<1> QED
  BY <1>1, <1>2, <1>3, Zenon DEF CallInv

\* Two drivers are never inside at once.
LEMMA AloneInside ==
  ASSUME CallInv, NEW c \in Clients, at[c] # "idle"
  PROVE  \A e \in Clients \ {c} : at[e] = "idle"
<1>1. \A e \in Clients : ClientInv(e)
  BY CallInvParts
<1>2. holder[fastlock] = c
  BY <1>1 DEF ClientInv
<1>3. ASSUME NEW e \in Clients \ {c} PROVE at[e] = "idle" \/ holder[fastlock] = e
  BY <1>1 DEF ClientInv
<1> QED
  BY <1>2, <1>3

\* A step of the one driver inside that leaves the bridge and the lock alone need
\* only account for that driver and for what the page means to the host.
LEMMA InsideStep ==
  ASSUME CallInv, NEW c \in Clients, NEW from, NEW to, from # "idle",
         Goto(c, from, to), UNCHANGED <<vars, rings, fastlock>>,
         CallTypeOK', ClientInv(c)', OpenGetsItsDevice',
         ~rings => fastparams'.result = fastparams.result
  PROVE  CallInv'
<1>1. \A e \in Clients \ {c} : at'[e] = "idle"
  BY AloneInside, CallInvParts DEF Goto, CallTypeOK
<1>2. \A e \in Clients : ClientInv(e)'
  BY <1>1 DEF ClientInv
<1>3. SharedInv'
  BY CallInvParts DEF SharedInv, vars
<1> QED
  BY <1>2, <1>3, CallInvPartsPrime

\* A driver that takes the lock finds nobody inside.
LEMMA EnterKeeps ==
  ASSUME CallInv, NEW c \in Clients, NEW op \in {"open", "call"}, Enter(c, op)
  PROVE  CallInv'
<1>t. CallTypeOK /\ SharedInv /\ OpenGetsItsDevice /\ \A e \in Clients : ClientInv(e)
  BY CallInvParts
<1>b. c.bus \in Bridges /\ Null \notin Clients
  BY BusCallAssumption DEF Clients
<1>1. /\ pnp[c.bus] = "d0" /\ holder[fastlock] = Null
      /\ at' = [at EXCEPT ![c] = "vector"] /\ asks' = [asks EXCEPT ![c] = op]
      /\ holder' = [holder EXCEPT ![fastlock] = c]
      /\ UNCHANGED <<pnp, rings, fastlock, fastparams, rc, handle, bh, opened>>
  BY DEF Enter, MayCall, Acquire, vars
<1>2. fastlock \in Locks
  BY <1>t, <1>b, <1>1 DEF SharedInv, CallTypeOK
<1>3. \A e \in Clients : at[e] = "idle"
  BY <1>t, <1>b, <1>1 DEF ClientInv
<1>4. CallTypeOK'
  BY <1>t, <1>1 DEF CallTypeOK, ByClient, Labels
<1>5. ASSUME NEW e \in Clients PROVE ClientInv(e)'
  BY <1>t, <1>b, <1>1, <1>2, <1>3, BusCallAssumption DEF ClientInv, CallTypeOK
<1>6. SharedInv' /\ OpenGetsItsDevice'
  BY <1>t, <1>1 DEF SharedInv, OpenGetsItsDevice
<1> QED
  BY <1>4, <1>5, <1>6, CallInvPartsPrime

\* The three stores to the page.
LEMMA StoresKeep ==
  ASSUME CallInv, NEW c \in Clients, StoreVector(c) \/ StoreLen(c) \/ StoreDatap(c)
  PROVE  CallInv'
<1>t. CallTypeOK /\ OpenGetsItsDevice /\ ClientInv(c)
  BY CallInvParts
<1>1. CASE StoreVector(c)
  <2>1. CallTypeOK'
    BY <1>t, <1>1 DEF StoreVector, Goto, CallTypeOK, ByClient, Labels
  <2>2. ClientInv(c)' /\ OpenGetsItsDevice'
    BY <1>t, <1>1 DEF StoreVector, Goto, CallTypeOK, ClientInv, OpenGetsItsDevice, vars
  <2> QED
    BY <1>t, <1>1, <2>1, <2>2, InsideStep DEF StoreVector, CallTypeOK
<1>2. CASE StoreLen(c)
  <2>1. CallTypeOK'
    BY <1>t, <1>2 DEF StoreLen, Goto, CallTypeOK, ByClient, Labels
  <2>2. ClientInv(c)' /\ OpenGetsItsDevice'
    BY <1>t, <1>2 DEF StoreLen, Goto, CallTypeOK, ClientInv, OpenGetsItsDevice, vars
  <2> QED
    BY <1>t, <1>2, <2>1, <2>2, InsideStep DEF StoreLen, CallTypeOK
<1>3. CASE StoreDatap(c)
  <2>1. CallTypeOK'
    BY <1>t, <1>3 DEF StoreDatap, Goto, CallTypeOK, ByClient, Labels
  <2>2. ClientInv(c)' /\ OpenGetsItsDevice'
    BY <1>t, <1>3 DEF StoreDatap, Goto, CallTypeOK, ClientInv, OpenGetsItsDevice, vars
  <2> QED
    BY <1>t, <1>3, <2>1, <2>2, InsideStep DEF StoreDatap, CallTypeOK
<1> QED
  BY <1>1, <1>2, <1>3

\* The host answers the driver that rang, and nobody else's parameters change.
LEMMA DoorbellKeeps ==
  ASSUME CallInv, NEW c \in Clients, Doorbell(c)
  PROVE  CallInv'
<1>t. CallTypeOK /\ OpenGetsItsDevice /\ ClientInv(c)
  BY CallInvParts
<1>g. Goto(c, "doorbell", "result") /\ UNCHANGED <<vars, rings, fastlock, holder, asks, rc, bh, opened>>
  BY DEF Doorbell
<1>o. OpenGetsItsDevice'
  BY <1>t, <1>g DEF OpenGetsItsDevice
<1>1. CASE ~rings
  <2>1. UNCHANGED <<fastparams, handle>>
    BY <1>1 DEF Doorbell
  <2>2. CallTypeOK' /\ ClientInv(c)'
    BY <1>t, <1>g, <1>1, <2>1 DEF Goto, CallTypeOK, ClientInv, Labels, vars
  <2> QED
    BY <1>g, <1>o, <2>1, <2>2, InsideStep
<1>2. CASE rings
  <2>1. fastparams.vector = [by |-> c, op |-> asks[c]] /\ fastparams.datap = c
    BY <1>t, <1>g DEF ClientInv, Goto
  <2>2. PICK result \in {0, -1} :
          /\ fastparams' = [fastparams EXCEPT !.result = [by |-> c, rc |-> result]]
          /\ handle' = IF asks[c] = "open" /\ result = 0
                       THEN [handle EXCEPT ![c] = c.id] ELSE handle
    BY <1>2, <2>1 DEF Doorbell, HostAnswers
  <2>3. c.id \in Ids
    BY DEF Clients
  <2>4. CallTypeOK'
    <3>1. handle' \in [Clients -> Ids \cup {Null}]
      BY <1>t, <2>2, <2>3 DEF CallTypeOK
    <3>2. [by |-> c, rc |-> result] \in [by : ByClient, rc : {0, -1}]
      BY <2>2 DEF ByClient
    <3>3. fastparams' \in [vector : [by : ByClient, op : {"open", "call"}], len : ByClient,
                           datap : ByClient, result : [by : ByClient, rc : {0, -1}]]
      BY <1>t, <2>2, <3>2 DEF CallTypeOK
    <3> QED
      BY <1>t, <1>g, <3>1, <3>3 DEF CallTypeOK, Goto, Labels
  <2>5. ClientInv(c)'
    <3>1. /\ fastparams'.result.by = c /\ fastparams'.result.rc = result
          /\ fastparams'.vector = fastparams.vector /\ fastparams'.len = fastparams.len
          /\ fastparams'.datap = fastparams.datap
      BY <1>t, <2>2 DEF CallTypeOK
    <3>2. asks[c] = "open" /\ result = 0 => handle'[c] = c.id
      BY <1>t, <2>2 DEF CallTypeOK
    <3>3. at[c] = "doorbell" /\ at'[c] = "result"
      BY <1>t, <1>g DEF CallTypeOK, Goto
    <3> QED
      BY <1>t, <1>g, <3>1, <3>2, <3>3 DEF ClientInv, vars
  <2> QED
    BY <1>g, <1>o, <1>2, <2>4, <2>5, InsideStep
<1> QED
  BY <1>1, <1>2

\* The driver reads the answer that is still its own.
LEMMA ReadResultKeeps ==
  ASSUME CallInv, NEW c \in Clients, ReadResult(c)
  PROVE  CallInv'
<1>t. CallTypeOK /\ OpenGetsItsDevice /\ ClientInv(c)
  BY CallInvParts
<1>1. CallTypeOK'
  BY <1>t DEF ReadResult, Goto, CallTypeOK, Labels
<1>2. ClientInv(c)' /\ OpenGetsItsDevice'
  BY <1>t DEF ReadResult, Goto, CallTypeOK, ClientInv, OpenGetsItsDevice, vars
<1> QED
  BY <1>1, <1>2, InsideStep DEF ReadResult

\* An open that returns success has stored the handle of its own device.
LEMMA ReturnKeeps ==
  ASSUME CallInv, NEW c \in Clients, Return(c)
  PROVE  CallInv'
<1>t. CallTypeOK /\ SharedInv /\ OpenGetsItsDevice /\ ClientInv(c)
  BY CallInvParts
<1>g. /\ Goto(c, "release", "idle") /\ UNCHANGED <<vars, rings, fastlock, fastparams>>
      /\ asks' = [asks EXCEPT ![c] = "call"] /\ rc' = [rc EXCEPT ![c] = 0]
      /\ handle' = [handle EXCEPT ![c] = Null]
      /\ holder' = [holder EXCEPT ![fastlock] = Null]
  BY DEF Return
<1>1. CallTypeOK'
  <2>1. bh' \in [Clients -> Ids \cup {Null}] /\ opened' \subseteq Clients
    BY <1>t DEF CallTypeOK, Return
  <2> QED
    BY <1>t, <1>g, <2>1 DEF CallTypeOK, Goto, Labels, ByClient
<1>2. OpenGetsItsDevice'
  <2>1. CASE asks[c] = "open" /\ rc[c] >= 0
    <3>1. bh' = [bh EXCEPT ![c] = handle[c]] /\ opened' = opened \cup {c}
      BY <2>1 DEF Return
    <3>2. rc[c] = 0
      BY <1>t, <2>1 DEF CallTypeOK
    <3>3. rings => handle[c] = c.id
      BY <1>t, <1>g, <2>1, <3>2 DEF ClientInv, Goto
    <3> QED
      BY <1>t, <1>g, <3>1, <3>3 DEF OpenGetsItsDevice, CallTypeOK
  <2>2. CASE ~(asks[c] = "open" /\ rc[c] >= 0)
    BY <1>t, <1>g, <2>2 DEF Return, OpenGetsItsDevice
  <2> QED
    BY <2>1, <2>2
<1>3. ClientInv(c)'
  BY <1>t, <1>g DEF ClientInv, Goto, CallTypeOK
<1> QED
  BY <1>g, <1>1, <1>2, <1>3, InsideStep

\* A step of a lone bridge: where its start and stop can go.
LEMMA PnpOrder ==
  ASSUME NEW b, Bridges = {b}, pnp \in [Bridges -> PnpLabels], Next
  PROVE  /\ pnp' \in [Bridges -> PnpLabels]
         /\ \/ pnp'[b] = pnp[b]
            \/ pnp[b] = "stopped" /\ pnp'[b] \in {"locks", "failed"}
            \/ pnp[b] = "locks" /\ pnp'[b] \in {"map", "failed"}
            \/ pnp[b] = "failed" /\ pnp'[b] = "stopped"
            \/ pnp[b] \notin {"stopped", "locks", "failed"} /\ pnp'[b] # "locks"
<1>1. PICK d \in Bridges : \/ Prepare(d) \/ VbusPciReleaseHardware(d)
                           \/ VbusPciD0Entry(d) \/ VbusPciD0Exit(d) \/ Events(d)
  BY DEF Next
<1>2. d = b
  OBVIOUS
<1> USE DEF PnpLabels, AtRest
<1>3. CASE Prepare(d)
  BY <1>2, <1>3 DEF Prepare, VbusPciPrepareHardware, CreateLocks, vbus_pci_parse_resource,
      vbus_pci_map_resources,
                    vbus_pci_open, vbus_pci_setup_fastcall, eventq_ioq_init, eventq_init,
                    vbus_pci_eventq_register, OutFail, BridgeCall, Step
<1>4. CASE VbusPciReleaseHardware(d) \/ VbusPciD0Entry(d) \/ VbusPciD0Exit(d)
  BY <1>2, <1>4 DEF VbusPciReleaseHardware, VbusPciD0Entry, VbusPciD0Exit, Step
<1>5. CASE Events(d)
  BY <1>2, <1>5 DEF Events, event_devadd, event_devdrop, VbusCreatePdo, DeletePdo
<1> QED
  BY <1>1, <1>3, <1>4, <1>5

\* The bridge replaces the lock only while it is being started, and then no driver
\* is inside; a PDO that goes takes its handle with it.
LEMMA BridgeStepKeeps ==
  ASSUME CallInv, BridgeStep
  PROVE  CallInv'
<1>t. CallTypeOK /\ SharedInv /\ OpenGetsItsDevice /\ \A e \in Clients : ClientInv(e)
  BY CallInvParts
<1>b. PICK b \in Bridges : Bridges = {b}
  BY BusCallAssumption
<1>n. Null \notin Locks
  BY BusCallAssumption
<1>g. /\ Next /\ FastlockFollows
      /\ \A c \in Clients : at[c] # "idle" => pnp'[c.bus] = "d0"
      /\ bh' = [c \in Clients |-> IF c \in Gone THEN Null ELSE bh[c]]
      /\ opened' = opened \ Gone
      /\ UNCHANGED <<rings, holder, fastparams, at, asks, rc, handle>>
  BY DEF BridgeStep, Inside
<1>p. /\ pnp' \in [Bridges -> PnpLabels]
      /\ \/ pnp'[b] = pnp[b]
         \/ pnp[b] = "stopped" /\ pnp'[b] \in {"locks", "failed"}
         \/ pnp[b] = "locks" /\ pnp'[b] \in {"map", "failed"}
         \/ pnp[b] = "failed" /\ pnp'[b] = "stopped"
         \/ pnp[b] \notin {"stopped", "locks", "failed"} /\ pnp'[b] # "locks"
  BY <1>t, <1>b, <1>g, PnpOrder DEF SharedInv
<1>1. fastlock' \in Locks \cup {Null}
  BY <1>t, <1>g DEF FastlockFollows, FreshLocks, CallTypeOK
<1>2. pnp'[b] \notin {"stopped", "locks", "failed"} => fastlock' # Null
  BY <1>t, <1>b, <1>n, <1>g, <1>p DEF FastlockFollows, FreshLocks, SharedInv
<1>3. CallTypeOK'
  <2>1. bh' \in [Clients -> Ids \cup {Null}] /\ opened' \subseteq Clients
    BY <1>t, <1>g DEF CallTypeOK
  <2> QED
    BY <1>t, <1>g, <1>1, <2>1 DEF CallTypeOK
<1>4. SharedInv'
  BY <1>t, <1>b, <1>g, <1>p, <1>2 DEF SharedInv
<1>5. OpenGetsItsDevice'
  BY <1>t, <1>g DEF OpenGetsItsDevice, CallTypeOK
<1>6. ASSUME NEW c \in Clients PROVE ClientInv(c)'
  <2>1. CASE at[c] = "idle"
    BY <1>g, <2>1 DEF ClientInv
  <2>2. CASE at[c] # "idle"
    <3>1. c.bus = b
      BY <1>b DEF Clients
    <3>2. pnp[b] = "d0" /\ pnp'[b] = "d0"
      BY <1>t, <1>g, <2>2, <3>1 DEF ClientInv
    <3>3. fastlock' = fastlock
      BY <1>b, <1>g, <3>2 DEF FastlockFollows
    <3> QED
      BY <1>t, <1>g, <2>2, <3>1, <3>2, <3>3 DEF ClientInv
  <2> QED
    BY <2>1, <2>2
<1> QED
  BY <1>3, <1>4, <1>5, <1>6, CallInvPartsPrime

\* Every step preserves the invariant of the calls.
LEMMA NextCall == CallInv /\ [BusNext]_busCallVars => CallInv'
<1> SUFFICES ASSUME CallInv, [BusNext]_busCallVars PROVE CallInv'
  OBVIOUS
<1>1. CASE UNCHANGED busCallVars
  <2>1. UNCHANGED <<pnp, rings, fastlock, holder, fastparams, at, asks, rc, handle, bh, opened>>
    BY <1>1 DEF busCallVars, callvars, vars
  <2>t. CallTypeOK /\ SharedInv /\ (\A c \in Clients : ClientInv(c)) /\ OpenGetsItsDevice
    BY CallInvParts
  <2>2. CallTypeOK' /\ SharedInv' /\ OpenGetsItsDevice'
    BY <2>1, <2>t DEF CallTypeOK, SharedInv, OpenGetsItsDevice
  <2>3. \A c \in Clients : ClientInv(c)'
    BY <2>1, <2>t DEF ClientInv
  <2> QED
    BY <2>2, <2>3, CallInvPartsPrime
<1>2. CASE BridgeStep
  BY <1>2, BridgeStepKeeps
<1>3. ASSUME NEW c \in Clients, CallStep(c) PROVE CallInv'
  BY <1>3, EnterKeeps, StoresKeep, DoorbellKeeps, ReadResultKeeps, ReturnKeeps
  DEF CallStep, VbusInterfaceOpen, VbusInterfaceCall
<1> QED
  BY <1>1, <1>2, <1>3 DEF BusNext

\* Initially the page is empty and nobody is inside.
LEMMA InitCall == BusInit => CallInv
<1> SUFFICES ASSUME BusInit PROVE CallInv
  OBVIOUS
<1>1. CallTypeOK
  BY DEF BusInit, CallTypeOK, ByClient, Labels
<1>2. SharedInv /\ OpenGetsItsDevice /\ \A c \in Clients : ClientInv(c)
  BY DEF BusInit, Init, SharedInv, OpenGetsItsDevice, ClientInv, PnpLabels, AtRest
<1> QED
  BY <1>1, <1>2, PartsCallInv

\* The inductive invariant of the calls, for any set of child drivers and locks:
\* the driver inside vbus_pci_buscall holds the lock it will release, under a
\* powered bridge, and the page is its own.
THEOREM CallInvariance == BusSpec => []CallInv
BY InitCall, NextCall, PTL DEF BusSpec

\* A driver leaves vbus_pci_buscall with the host's answer to its own call.
THEOREM AnswersAreOwn == BusSpec => []AnswerIsOwn
<1>1. CallInv => AnswerIsOwn
  <2> SUFFICES ASSUME CallInv, NEW c \in Clients, at[c] = "release"
               PROVE  IF rings THEN fastparams.result = [by |-> c, rc |-> rc[c]]
                               ELSE fastparams.result.by = Null /\ rc[c] = 0
    BY DEF AnswerIsOwn
  <2>1. rc[c] = fastparams.result.rc /\ (rings => fastparams.result.by = c)
    BY CallInvParts DEF ClientInv
  <2>2. ~rings => fastparams.result = [by |-> Null, rc |-> 0]
    BY CallInvParts DEF SharedInv
  <2>3. fastparams.result \in [by : ByClient, rc : {0, -1}]
    BY CallInvParts DEF CallTypeOK
  <2> QED
    BY <2>1, <2>2, <2>3
<1> QED
  BY <1>1, CallInvariance, PTL

\* Every open that returned success left the handle of its own device in the PDO.
THEOREM OpensGetTheirDevice == BusSpec => []OpenGetsItsDevice
<1>1. CallInv => OpenGetsItsDevice
  BY DEF CallInv
<1> QED
  BY <1>1, CallInvariance, PTL

\* The composition takes only the bridge's own steps on the bridge's state, so that
\* every theorem about the bridge holds under the children's calls as well.
THEOREM CallsKeepTheBridge == BusSpec => Spec
<1>1. BusInit => Init
  BY DEF BusInit
<1>2. [BusNext]_busCallVars => [Next]_vars
  BY DEF BusNext, BridgeStep, CallStep, VbusInterfaceOpen, VbusInterfaceCall, Enter, StoreVector,
         StoreLen, StoreDatap, Doorbell, ReadResult, Return, busCallVars
<1> QED
  BY <1>1, <1>2, PTL DEF BusSpec, Spec

\* A bridge that was prepared without following a null pointer has the lock of the
\* fast calls, and the ring that the host knows is allocated.
THEOREM PreparedBridgeIsComplete == BusSpec => []PreparedIsComplete
<1>1. PICK b \in Bridges : Bridges = {b}
  BY BusCallAssumption
<1>2. Spec => []PreparedInv
  BY <1>1, PreparedInvariance
<1>3. CallInv /\ BridgeInv /\ PreparedInv => PreparedIsComplete
  <2> SUFFICES ASSUME CallInv, BridgeInv, PreparedInv, NEW d \in Bridges,
                      pnp[d] \in {"prepared", "d0"}, fault = "none"
               PROVE  fastlock # Null /\ hostmem = {"head", "ring"} /\ hostmem \subseteq heap
    BY DEF PreparedIsComplete
  <2>1. fastlock # Null
    BY CallInvParts DEF SharedInv
  <2>2. hostmem = {"head", "ring"} /\ vbus_pci.head = "head" /\ vbus_pci.ring = "ring"
    BY DEF PreparedInv
  <2>3. "head" # Null /\ "ring" # Null /\ heap \ {"fastlock"} = Owned
    BY BridgeAssumption DEF BridgeInv
  <2> QED
    BY <2>1, <2>2, <2>3 DEF Owned, Buffers
<1> QED
  BY <1>2, <1>3, CallsKeepTheBridge, CallInvariance, BridgeInvariance, PTL
=============================================================================
