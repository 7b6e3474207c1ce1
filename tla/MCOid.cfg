SPECIFICATION OidSpec
CONSTANTS
  Adapters = {a1, a2}
  NumTcbs = 2
  NIC_MAX_MCAST_LIST = 2
  NIC_MAX_LOOKAHEAD = 1
  StatisticsSize = 13
  ModerationSize = 7
  SupportedFilters = {directed}
  OtherFilters = {sourcerouting}
  Addresses = {m1, m2}
  ZeroAddress = zero
  Lookaheads = {2}
  Lengths = {0, 4, 6, 12, 18}
  Oids = {"STATISTICS", "INTERRUPT_MODERATION", "XMIT_OK", "PERMANENT_ADDRESS", "CURRENT_PACKET_FILTER", "SUPPORTED_GUIDS", "MULTICAST_LIST"}
SYMMETRY Symmetry
INVARIANTS HaltGivesBack ListedAreLive FreedOnce StartedHaltsSafely
  OidTypeOK HoldsLastAccepted ReplyContract
CHECK_DEADLOCK FALSE
