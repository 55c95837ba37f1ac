\* A confirmation delivered while frames are re-run.
SPECIFICATION Spec
CONSTANTS
  Buttons = {"A"}
  NumPeers = 2
  NumPlayers = 2
  Self = 0
  Confirmers = {1}
  Depth = 3
  EventSlack = 0
  AiKeys = {}
  Liberties = {"confirm"}
  MaxFrame = 4
  Lead = 1
  MaxEvents = 0
  Nothing = Nothing
PROPERTIES
  DisagreementRollsBack
