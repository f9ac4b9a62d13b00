SPECIFICATION GpSpec
CONSTANTS
  POPULATION = 2
  GENERATION = 2
  TOURNAMENT_SIZE = 2
  REPLACEMENT_RATIO = 75
  FITNESS = {0, 7, 10}
  TREES <- MCTrees
  BASE <- Binary
  MAXHEIGHT = 3
INVARIANT NoCrash
CHECK_DEADLOCK FALSE
