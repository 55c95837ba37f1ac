----------------------------- MODULE MCDevices -----------------------------
(* What the program keeps and plays while frames go by: the save file, and *)
(* the transports of sound.  Neither knows of the other, so a behaviour is *)
(* of one of them and the other is off.                                    *)
EXTENDS Audio, SaveFile

SaveOff ==
  /\ pc = "off" /\ then = "off" /\ haveKey = FALSE /\ dirty = FALSE /\ dirtyAt = 0
  /\ restored = FALSE /\ ram = BlankImage /\ now = 0 /\ sav = NoFile /\ tmp = NoFile
  /\ writes = 0 /\ boots = MaxBoots /\ spoilt = FALSE /\ cut = FALSE /\ hadSave = FALSE

AudioOff ==
  /\ host = "headless" /\ mode = "off" /\ phase = "off" /\ clock = "free" /\ due = 0
  /\ block = Nominal /\ blockLen = Nominal /\ stage = 0 /\ count = 0 /\ copied = 0
  /\ ring = <<>> /\ wr = 0 /\ rd = 0 /\ drain = Idle /\ heard = 0
  /\ have = 0 /\ tick = 0 /\ ready = FALSE /\ pending = <<>> /\ mail = <<>> /\ reports = <<>>
  /\ depth = 0 /\ pushed = 0

MCInit == (SaveInit /\ AudioOff) \/ (SaveOff /\ AudioInit)

MCNext ==
  \/ phase = "off" /\ SaveNext /\ UNCHANGED audioVars
  \/ AudioNext /\ UNCHANGED saveVars

MCSpec == MCInit /\ [][MCNext]_<<saveVars, audioVars>> /\ SaveFairness /\ AudioFairness
=============================================================================
