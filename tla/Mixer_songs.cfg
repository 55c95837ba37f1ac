SPECIFICATION FairSpec
CONSTANTS
  Full = 3
  Whole = 2
  MaxStep = 3
  Rate = 2
  FixedRate = 7
  Block = 2
  NumTracks = 2
  MaxChans = 2
  NumCgb = 1
  Voices <- MCVoices
  Songs <- MCSongs
  TopKey = 2
  Beat = 2
  MaxPriority = 2
  Levels = 2
  FullVolX = 1
  Wheel = 8
INVARIANTS
  ChainIntegrity
  LeastHeardIsTaken
  EndedTracksHoldNothing
  NotesSoundAsSet
  InsideTheSample
PROPERTIES
  ReleasedNotesEnd
