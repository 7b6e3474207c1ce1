-------------------------------- MODULE Oid ---------------------------------
(***************************************************************************)
(* OID requests (venet/oids.c) of adapters that are initialized and halted *)
(* (VenetAdapter): what a request may read and write of the caller's       *)
(* buffer, and what it leaves in the adapter.                              *)
(*                                                                         *)
(* NDIS (external) makes one request at a time on an adapter that is       *)
(* running, and halts it after the last one has returned.                  *)
(***************************************************************************)
EXTENDS VenetAdapter, Sequences

CONSTANTS
  NIC_MAX_MCAST_LIST,
  NIC_MAX_LOOKAHEAD,
  StatisticsSize,          \* sizeof(NDIS_STATISTICS_INFO)
  ModerationSize,          \* sizeof(NDIS_INTERRUPT_MODERATION_PARAMETERS)
  SupportedFilters,        \* the bits of NIC_SUPPORTED_FILTERS
  OtherFilters,            \* bits that are not among them
  Addresses, ZeroAddress,  \* MAC addresses
  Lookaheads,              \* values a request sets
  Lengths,                 \* lengths of the caller's buffer
  Oids                     \* the objects asked for

UlongSize == 4
Ulong64Size == 8
ETH_LENGTH_OF_ADDRESS == 6
VendorDescSize == 6        \* strlen(VENET_VENDOR_DESC)

ASSUME OidAssumption ==
  /\ {NIC_MAX_LOOKAHEAD, StatisticsSize, ModerationSize} \subseteq Nat
  /\ NIC_MAX_MCAST_LIST \in Nat \ {0}
  /\ Lookaheads \subseteq Nat /\ Lengths \subseteq Nat
  /\ SupportedFilters \cap OtherFilters = {} /\ ZeroAddress \notin Addresses

VARIABLES
  oids,       \* packetFilter, lookAhead and multicast list of each adapter
  accepted,   \* history: filter and list of the last set that reported success
  reply       \* the last step, if a request: what was asked and what NDIS was told

oidVars == <<vars, oids, accepted, reply>>

-----------------------------------------------------------------------------
(***************************************************************************)
(* Queries.                                                                *)
(***************************************************************************)
CounterOids == {"XMIT_OK", "RCV_OK"}

AddressOids == {"PERMANENT_ADDRESS", "CURRENT_ADDRESS"}

\* answered with a ULONG: settings, sizes, and error counters that are always 0
UlongOids ==
  {"CURRENT_LOOKAHEAD", "CURRENT_PACKET_FILTER", "MAXIMUM_TOTAL_SIZE",
   "TRANSMIT_BLOCK_SIZE", "RECEIVE_BLOCK_SIZE", "TRANSMIT_BUFFER_SPACE",
   "RECEIVE_BUFFER_SPACE", "VENDOR_ID", "VENDOR_DRIVER_VERSION", "MAXIMUM_LIST_SIZE",
   "RCV_ERROR_ALIGNMENT", "XMIT_ONE_COLLISION", "XMIT_MORE_COLLISIONS", "XMIT_DEFERRED",
   "XMIT_MAX_COLLISIONS", "RCV_OVERRUN", "XMIT_UNDERRUN", "XMIT_HEARTBEAT_FAILURE",
   "XMIT_TIMES_CRS_LOST", "XMIT_LATE_COLLISIONS"}

VenetSupportedOids ==
  CounterOids \cup AddressOids \cup UlongOids \cup
  {"STATISTICS", "INTERRUPT_MODERATION", "VENDOR_DESCRIPTION", "SUPPORTED_GUIDS", "MULTICAST_LIST"}

Reply(status, count, needed) == [rc |-> status, count |-> count, needed |-> needed]

venet_gen_stats(len) ==
  IF len >= StatisticsSize THEN Reply("success", StatisticsSize, 0)
  ELSE Reply("buffer_overflow", 0, StatisticsSize)

\* Mutation: the length is not checked.
ModerationUnchecked(len) == Reply("success", ModerationSize, 0)

venet_intr_mod(len) ==
  IF len < ModerationSize THEN Reply("invalid_length", 0, ModerationSize)
  ELSE Reply("success", ModerationSize, 0)

Size(oid) ==
  CASE oid \in CounterOids -> Ulong64Size
    [] oid \in AddressOids -> ETH_LENGTH_OF_ADDRESS
    [] oid = "VENDOR_DESCRIPTION" -> VendorDescSize
    [] OTHER -> UlongSize

venet_oid_query(oid, len) ==
  IF oid = "STATISTICS" THEN venet_gen_stats(len)
  ELSE IF oid = "INTERRUPT_MODERATION" THEN venet_intr_mod(len)
  ELSE IF oid \notin CounterOids \cup AddressOids \cup UlongOids \cup {"VENDOR_DESCRIPTION"}
       THEN Reply("not_supported", 0, 0)
  ELSE IF Size(oid) <= len THEN Reply("success", Size(oid), 0)
  ELSE Reply("invalid_length", 0, Size(oid))

-----------------------------------------------------------------------------
(***************************************************************************)
(* Sets.  Each is what happens to the adapter's record o, and the reply.   *)
(***************************************************************************)
MaxListLength == NIC_MAX_MCAST_LIST * ETH_LENGTH_OF_ADDRESS

\* NdisMoveMemory over the zeroed array
Placed(list) ==
  [i \in 1 .. NIC_MAX_MCAST_LIST |-> IF i <= Len(list) THEN list[i] ELSE ZeroAddress]

McastReply(len) ==
  IF len % ETH_LENGTH_OF_ADDRESS # 0
  THEN Reply("invalid_length", len, ETH_LENGTH_OF_ADDRESS)
  ELSE IF len > MaxListLength THEN Reply("multicast_full", len, MaxListLength)
  ELSE Reply("success", len, ETH_LENGTH_OF_ADDRESS)

\* Mutation: a list that is too long is cut off and counted in full.
McastCutOff(o, len, list) ==
  IF McastReply(len).rc = "invalid_length" THEN o
  ELSE [o EXCEPT !.mc_size = Len(list), !.mc_array = Placed(list)]

set_mcast_list(o, len, list) ==
  IF McastReply(len).rc # "success" THEN o
  ELSE [o EXCEPT !.mc_size = len \div ETH_LENGTH_OF_ADDRESS, !.mc_array = Placed(list)]

FilterReply(len, pf) ==
  IF len # UlongSize THEN Reply("invalid_length", 0, UlongSize)
  ELSE Reply(IF pf \subseteq SupportedFilters THEN "success" ELSE "not_supported", len, UlongSize)

set_pkt_filter(o, len, pf) ==
  IF FilterReply(len, pf).rc = "success" THEN [o EXCEPT !.packetFilter = pf] ELSE o

\* rc stays NDIS_STATUS_INVALID_LENGTH whatever the length
LookaheadReply(len) == Reply("invalid_length", IF len = UlongSize THEN len ELSE 0, UlongSize)

SetLookahead(o, len, value) == IF len = UlongSize THEN [o EXCEPT !.lookAhead = value] ELSE o

\* objects that cannot be set
RefuseReply(oid) ==
  Reply(IF oid = "INTERRUPT_MODERATION" THEN "invalid_data" ELSE "invalid_oid", 0, UlongSize)

-----------------------------------------------------------------------------
(***************************************************************************)
(* VenetOidRequest.                                                        *)
(***************************************************************************)
Request(a, type, oid, len, r) ==
  /\ Running /\ phase[a] = "running"
  /\ reply' = [type |-> type, oid |-> oid, len |-> len, to |-> r]
  /\ UNCHANGED vars

OidQuery(a) ==
  /\ \E oid \in Oids, len \in Lengths : Request(a, "query", oid, len, venet_oid_query(oid, len))
  /\ UNCHANGED <<oids, accepted>>

\* the history follows a set that reports success
Accept(a, r, what, value) ==
  accepted' = IF r.rc = "success" THEN [accepted EXCEPT ![a][what] = value] ELSE accepted

OidSetMcast(a) ==
  \E len \in Lengths : \E list \in [1 .. len \div ETH_LENGTH_OF_ADDRESS -> Addresses] :
    /\ Request(a, "set", "MULTICAST_LIST", len, McastReply(len))
    /\ oids' = [oids EXCEPT ![a] = set_mcast_list(@, len, list)]
    /\ Accept(a, McastReply(len), "list", list)

OidSetFilter(a) ==
  \E len \in Lengths, pf \in SUBSET (SupportedFilters \cup OtherFilters) :
    /\ Request(a, "set", "CURRENT_PACKET_FILTER", len, FilterReply(len, pf))
    /\ oids' = [oids EXCEPT ![a] = set_pkt_filter(@, len, pf)]
    /\ Accept(a, FilterReply(len, pf), "filter", pf)

OidSetLookahead(a) ==
  \E len \in Lengths, value \in Lookaheads :
    /\ Request(a, "set", "CURRENT_LOOKAHEAD", len, LookaheadReply(len))
    /\ oids' = [oids EXCEPT ![a] = SetLookahead(@, len, value)]
    /\ UNCHANGED accepted

OidSetOther(a) ==
  /\ \E oid \in Oids \ {"MULTICAST_LIST", "CURRENT_PACKET_FILTER", "CURRENT_LOOKAHEAD"},
        len \in Lengths : Request(a, "set", oid, len, RefuseReply(oid))
  /\ UNCHANGED <<oids, accepted>>

\* a request that is neither a query nor a set
OidOtherType(a) ==
  /\ Request(a, "other", "none", 0, Reply("not_supported", 0, 0))
  /\ UNCHANGED <<oids, accepted>>

Zeroes == [packetFilter |-> {}, lookAhead |-> 0, mc_size |-> 0, mc_array |-> Placed(<<>>)]

\* Mutation: the memory of an adapter is not zeroed.
NotZeroed(o) == o

\* VenetAlloc zeroes the adapter
VenetAlloc(o) == Zeroes

NoReply == [type |-> "none", oid |-> "none", len |-> 0, to |-> Reply("success", 0, 0)]

NothingAccepted == [filter |-> {}, list |-> <<>>]

\* a step of VenetInitialize or VenetHalt; VenetSetupAdapter sets lookAhead
AdapterStep ==
  /\ Next
  /\ oids' = [a \in Adapters |->
       IF phase[a] = "none" /\ phase'[a] = "setup" THEN VenetAlloc(oids[a])
       ELSE IF phase[a] = "setup" /\ phase'[a] # "setup"
            THEN [oids[a] EXCEPT !.lookAhead = NIC_MAX_LOOKAHEAD]
       ELSE oids[a]]
  /\ accepted' = [a \in Adapters |->
       IF phase'[a] = "setup" THEN NothingAccepted ELSE accepted[a]]
  /\ reply' = NoReply

OidInit ==
  /\ Init
  /\ oids = [a \in Adapters |-> Zeroes]
  /\ accepted = [a \in Adapters |-> NothingAccepted]
  /\ reply = NoReply

VenetOidRequest(a) ==
  \/ OidQuery(a) \/ OidSetMcast(a) \/ OidSetFilter(a) \/ OidSetLookahead(a)
  \/ OidSetOther(a) \/ OidOtherType(a)

OidNext == AdapterStep \/ \E a \in Adapters : VenetOidRequest(a)

OidSpec == OidInit /\ [][OidNext]_oidVars

-----------------------------------------------------------------------------
OidTypeOK ==
  /\ TypeOK
  /\ oids \in [Adapters -> [packetFilter : SUBSET SupportedFilters, lookAhead : Nat,
                             mc_size : 0 .. NIC_MAX_MCAST_LIST,
                             mc_array : [1 .. NIC_MAX_MCAST_LIST -> Addresses \cup {ZeroAddress}]]]
  /\ \A a \in Adapters : accepted[a].filter \subseteq SupportedFilters
  /\ reply.len \in Nat /\ reply.to.count \in Nat /\ reply.to.needed \in Nat

\* From its allocation to its end an adapter has the filter and the multicast list
\* of the last set that reported success, and none before the first: nothing of a
\* set that was refused, of a longer list before, or of the adapter whose memory it
\* was given.
HoldsLastAccepted ==
  \A a \in Adapters : phase[a] # "none" /\ "adapter" \in live[a] =>
    /\ oids[a].packetFilter = accepted[a].filter
    /\ oids[a].mc_size = Len(accepted[a].list)
    /\ oids[a].mc_array = Placed(accepted[a].list)

\* A query writes no more than the buffer holds, and nothing if that is too little;
\* the length it then asks for is more than it was given and is enough.  A list or a
\* filter of the length that a refused set asks for is not refused for its length.
ReplyContract ==
  LET r == reply.to
      short == r.rc \in {"invalid_length", "buffer_overflow", "multicast_full"} IN
  /\ reply.type = "query" =>
       /\ r.count <= reply.len
       /\ short => /\ r.count = 0 /\ r.needed > reply.len
                   /\ venet_oid_query(reply.oid, r.needed).rc = "success"
  /\ reply.type = "set" /\ short =>
       /\ reply.oid = "MULTICAST_LIST" => McastReply(r.needed).rc = "success"
       /\ reply.oid = "CURRENT_PACKET_FILTER" => FilterReply(r.needed, {}).rc = "success"

\* The reply NDIS_STATUS_INVALID_LENGTH says that nothing was set.
RefusedSetStoresNothing ==
  \A a \in Adapters : phase[a] = "running" => oids[a].lookAhead = NIC_MAX_LOOKAHEAD

\* venet.c:260 announces VenetSupportedOids: each of them that is asked for is
\* answered.
SupportedAreAnswered ==
  reply.type = "query" /\ reply.oid \in VenetSupportedOids => reply.to.rc # "not_supported"
=============================================================================
