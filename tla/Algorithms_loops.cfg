\* Every list of three events over two frames, inserted, applied, sent and
\* applied again by a joiner; every input of two players; forty reels of two
\* frames, drawn and skipped in every way; every packing of six bytes; and
\* five frames of the host.
SPECIFICATION MCSpec
CONSTANTS
  NumPeers = 3
  MaxEvents = 3
  EventFrames = {1, 2}
  NumPlayers = 2
  RunMax = 2
  Depth = 2
  Slack = 1
  MaxFrame = 4
  Tapes <- MCTapes
  ScreenW = 3
  ScreenH = 2
  Tile = 2
  MapSide = 2
  VramSize = 100
  CharBlock = 16
  ObjBase = 64
  One = 2
  ReelCount = 40
  ReelLength = 2
  Masks <- MCMasks
  Reels <- MCReels
  Bytes = {0, 1}
  DataSize = 6
  Group = 2
  MinLen = 2
  MaxLen = 5
  Rounds = 4
  Period = 2
  Delay = 2
  Works = {1, 7}
  Devices = {"d1", "d2"}
  NumPads = 2
  Colours = {1, 2}
  SampleEvery = 2
  MaxHashes = 1
  MaxPresses = 3
  HostButtons = {"B"}
  Commands <- MCCommands
  Scales = {2}
  LastFrame = 5
  MaxSeen = 1
INVARIANTS
  LoopsAreClosedForms
  JoinerFollows
  ShownAsMemoryStands
  BiosAnswers
  OnTimeAndOnScript
\* The model ends where the joiner has caught up, or has been refused, with
\* the last frame of a reel, an answer of the BIOS, or the end of a run.
CHECK_DEADLOCK FALSE
