SPECIFICATION Spec
CONSTANTS
  P8021_MAC_LEN = 3
  P8021_BYTE_LEN = 4
  ETH_MIN_PACKET_SIZE = 9
  NIC_BUFFER_SIZE = 11
  MaxChain = 12
  Chains <- MCChains
  Priorities = {0, 5, 8}
INVARIANTS FrameInv WholeFrame UntaggedIsExact
CHECK_DEADLOCK FALSE
