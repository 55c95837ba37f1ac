\* Every fault at every step of the flush, over two runs of the program; and
\* a device that runs free of the frames, then with them.
SPECIFICATION MCSpec
CONSTANTS
  NumParts = 2
  Values = {"blank", "new"}
  Blank = "blank"
  NoFile = NoFile
  Quiet = 2
  TickWrap = 4
  Faults = {"nodir", "open", "full", "rename", "signal", "kill"}
  MaxWrites = 3
  MaxBoots = 2
  Hosts = {"sdl", "worklet", "script", "headless"}
  Nominal = 2
  Gentle = 2
  Part = 2
  MaxBlock = 4
  ReverbBlocks = 6
  Cap = 8
  Wrap = 16
  Chunk = 2
  MaxPending = 2
  ReportEvery = 2
  InFlight = 2
  Ahead = 2
  Modes = {"on", "off"}
INVARIANTS
  NothingForgotten
  OrderlyEndKeepsAll
PROPERTIES
  NeverHalfWritten
  WrittenOut
  HeardAsQueued
  SurplusGoes
