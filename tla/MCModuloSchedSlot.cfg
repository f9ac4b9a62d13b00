SPECIFICATION SchedSpec
CONSTANTS
  N = 3
  u0 = u0
  u1 = u1
  bu = bu
  Resources = {u0, u1, bu}
  Count <- MCCount
  LOOPS <- MCLoops
  BUDGETRATIO = 3
  MAXOPLAT = 2
PROPERTY ForcedSlotAdvances
