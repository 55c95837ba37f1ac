\* Every liberty of the callers: words delivered at any time, frames being
\* re-run included, sessions started and ended, events, local input.
SPECIFICATION Spec
CONSTANTS
  Buttons = {"A"}
  NumPeers = 2
  NumPlayers = 2
  Self = 0
  Confirmers = {1}
  Depth = 2
  EventSlack = 0
  AiKeys = {"A"}
  Liberties = {"confirm", "close", "attach", "input"}
  MaxFrame = 2
  Lead = 1
  MaxEvents = 1
  Nothing = Nothing
INVARIANTS
  TypeOK
  RollbackTargetHeld
  NeverRollsBackConfirmed
  OneSlotPerPeer
PROPERTIES
  DarkOnlyCatchingUp
