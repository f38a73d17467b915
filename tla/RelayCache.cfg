SPECIFICATION FairSpec
CONSTANTS
  p1 = p1
  Paths = {p1, p2, p3}
  Cacheable = {p1, p2}
  NonAscii = {p2}
  Workers = {w1, w2}
  Max = 1
  Period = 2
  MaxSharing <- SharingOfP1
  MaxFaults = 1
  Absent = Absent
  Reserved = Reserved
  Limiter = Limiter
INVARIANTS
  RelayInv
  OrphansHaveReason
  AnswersAgree
PROPERTIES
  Answered
CHECK_DEADLOCK FALSE
