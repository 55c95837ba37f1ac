\* Only the process dying; the file system never fails.
SPECIFICATION SaveSpec
CONSTANTS
  NumParts = 2
  Values = {"blank", "new"}
  Blank = "blank"
  NoFile = NoFile
  Quiet = 2
  TickWrap = 4
  Faults = {"kill"}
  MaxWrites = 3
  MaxBoots = 2
INVARIANTS
  OldSaveSurvives
