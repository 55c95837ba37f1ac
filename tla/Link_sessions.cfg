SPECIFICATION Spec
CONSTANTS
  NumUnits = 3
  PacketHw = 4
  MaxFrames = 8
  Slots = 6
  Sessions <- MCSessions
  SeqMin = 1
  SeqMask = 3
  SettleFrames = 1
  LowBits <- MCLowBits
INVARIANTS
  TwoFramesRealign
  StaysArmed
  SettledAsHeard
PROPERTIES
  ApartFromTheInterrupt
  EachPacketOnce
  ClientsAreThere
