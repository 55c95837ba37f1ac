\* Three frames, the middle one run twice; up to two calls of the game.
SPECIFICATION Spec
CONSTANTS
  Regions <- MCRegions
  Top = 28
  MemoPage = 2
  Worlds <- MCWorlds
  NumChannels = 2
  MaxCount = 3
  Lines = 2
  Budget = 3
  Requests <- MCRequests
  Masks <- MCMasks
  Raised = {"none", "timer3"}
  KeySets = {0, 1}
  MaxCalls = 2
  MaxFrame = 2
  TestAt = 1
INVARIANTS
  MapIsWhole
  TouchesWhatIsThere
  WindowIsTheBudget
  RerunIsTheSame
