SPECIFICATION Spec
CONSTANTS
  p1 = p1
  p2 = p2
  a1 = a1
  a2 = a2
  a3 = a3
  NoPD = NoPD
  NoPID = NoPID
  PD = {d1, d2, d3, d4, d5}
  PID = {p1, p2}
  App = {a1, a2}
  AppPid <- MCAppPid
  RECEIVER_POOL = 1
  RECEIVED_BUF_SIZ = 1
  SENDING_LIMIT = 2
  MaxArrivals = 3
SYMMETRY Descriptors
PROPERTIES
  DiscardsOnlyExtraPackets
CHECK_DEADLOCK FALSE
