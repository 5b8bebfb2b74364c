SPECIFICATION StackSpec
CONSTANTS
  NumFrames = 5
  StackSizes = {1, 2}
  PagesPerTable = 4
  RegionPages = 7
  MaxSpaces = 2
INVARIANTS StackTypeOK FramesHaveOneUse StackDiscipline
CHECK_DEADLOCK FALSE
