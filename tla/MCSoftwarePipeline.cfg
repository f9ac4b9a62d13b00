SPECIFICATION SwpSpec
CONSTANTS
  N = 3
  u0 = u0
  u1 = u1
  u2 = u2
  bu = bu
  Resources = {u0, u1, u2, bu}
  Count <- MCCount
  LOOPS <- MCLoops
  BUDGETRATIO = 3
  MAXOPLAT = 2
  reg_max <- MCRegMax
  WORD = 30
  RRBS = {2}
  MAXLC = 2
INVARIANT SwpTypeOK StagingIsExact OperandsAreRight LiveOutsFound KernelOnTime
