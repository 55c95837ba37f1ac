\* Callers hold deliveries back while frames are re-run.
SPECIFICATION FairSpec
CONSTANTS
  Buttons = {"A"}
  NumPeers = 2
  NumPlayers = 2
  Self = 0
  Confirmers = {1}
  Depth = 3
  EventSlack = 0
  AiKeys = {}
  Liberties = {}
  MaxFrame = 3
  Lead = 1
  MaxEvents = 0
  Nothing = Nothing
INVARIANTS
  SimulatedAsRecorded
  FrameNumbersAgree
  SnapshotsOnHistory
PROPERTIES
  PlaysLikeLockstep
  DisagreementRollsBack
  HistoryIsAppendOnly
  EdgesUnlessRestored
  CatchUpEnds
