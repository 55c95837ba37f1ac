\* The native ring, after the device ran ahead for a while.
SPECIFICATION AudioFairSpec
CONSTANTS
  Hosts = {"sdl"}
  Nominal = 2
  Gentle = 2
  Part = 2
  MaxBlock = 4
  ReverbBlocks = 6
  Cap = 8
  Wrap = 16
  Chunk = 2
  MaxPending = 2
  ReportEvery = 2
  InFlight = 2
  Ahead = 2
  Modes = {"on"}
PROPERTIES
  DeficitGoes
