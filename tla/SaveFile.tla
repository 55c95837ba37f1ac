------------------------------ MODULE SaveFile ------------------------------
(***************************************************************************)
(* platform/native/save_file.c with the hooks of platform/sram.c and the   *)
(* two ways platform/native/host_sdl.c lets the process end.  Save memory  *)
(* lives in the process; the file is written half a second after the last  *)
(* change, or when the process goes away, to a temporary file that then    *)
(* takes the place of the old one.  Every call into the file system is a   *)
(* step, and the process may be killed before and after each.              *)
(*                                                                         *)
(* Save memory is a few parts, each written by one WriteSram.  A file is   *)
(* the parts it holds, perhaps only the first of them: emulators trim.     *)
(***************************************************************************)
EXTENDS Integers

CONSTANTS
  NumParts,    \* GBA_SRAM_SIZE
  Values,      \* what a part may hold
  Blank,       \* what PortMemInit leaves in it
  NoFile,      \* there is no such file
  Quiet,       \* SAVE_QUIET_MS
  TickWrap,    \* SDL_GetTicks wraps here
  Faults,      \* what may go wrong, see below
  MaxWrites,   \* bound: changes of save memory in a run
  MaxBoots     \* bound: runs of the program

(*   "nodir"   no writable config directory                                *)
(*   "open"    the temporary file cannot be opened                         *)
(*   "full"    the disk takes only some of the bytes                       *)
(*   "rename"  the temporary file cannot be renamed                        *)
(*   "signal"  SIGSEGV, SIGABRT, SIGINT or SIGTERM arrives                 *)
(*   "kill"    the process ends with no handler run                        *)
AllFaults == {"nodir", "open", "full", "rename", "signal", "kill"}

Parts    == 1 .. NumParts
Images   == [Parts -> Values]
Prefixes == UNION {[1 .. n -> Values] : n \in 0 .. NumParts}
Files    == Prefixes \cup {NoFile}

ASSUME SaveAssumption ==
  /\ NumParts \in Nat \ {0}
  /\ Blank \in Values /\ NoFile \notin Prefixes
  /\ TickWrap \in Nat /\ Quiet \in 1 .. TickWrap - 1
  /\ Faults \subseteq AllFaults
  /\ MaxWrites \in Nat /\ MaxBoots \in Nat

VARIABLES
  pc,                       \* where the process stands; "off": not running
  then,                     \* where it goes when the flush is over
  haveKey, dirty, dirtyAt,  \* sHaveKey, sDirty, sDirtyAt
  restored, ram,            \* sRestored, and save memory
  now,                      \* SDL_GetTicks()
  sav, tmp,                 \* the files at sPath and sTmpPath
  writes, boots,            \* how many there have been, for the bounds
  spoilt,                   \* history: the last flush failed on the way
  cut,                      \* history: the run ended in the middle of a write
  hadSave                   \* history: a save file has existed

counts  == <<writes, boots>>
memory  == <<restored, ram>>
dirt    == <<haveKey, dirty, dirtyAt>>
disk    == <<sav, tmp>>
history == <<spoilt, cut, hadSave>>
saveVars == <<pc, then, dirt, memory, now, disk, counts, history>>

FlushSteps == {"open", "write", "remove", "rename"}

(* Bug: the difference of two ticks is taken as signed. *)
SignedAge(t) == t - dirtyAt
Age(t) == (t - dirtyAt) % TickWrap

Later(t) == (t + 1) % TickWrap

(* What the first touch of save memory finds there (SramRestoreOnce,       *)
(* PortSramLoad): the file, as far as it goes, over what memory held.      *)
Loaded(file, under) ==
  [part \in Parts |-> IF file # NoFile /\ part \in DOMAIN file THEN file[part] ELSE under[part]]

Restored == IF ~restored /\ haveKey THEN Loaded(sav, ram) ELSE ram

BlankImage == [part \in Parts |-> Blank]
FirstParts(n) == [part \in 1 .. n |-> ram[part]]

-----------------------------------------------------------------------------
(* The program has not run yet; there may be a save from elsewhere.        *)
SaveInit ==
  /\ pc = "off" /\ then = "off"
  /\ haveKey = FALSE /\ dirty = FALSE /\ dirtyAt = 0
  /\ restored = FALSE /\ ram = BlankImage /\ now = 0
  /\ sav \in Files /\ tmp = NoFile
  /\ writes = 0 /\ boots = 0
  /\ spoilt = FALSE /\ cut = FALSE /\ hadSave = (sav # NoFile)

(* PortMemInit, then PortNativeSaveInit. *)
Boot ==
  /\ pc = "off" /\ boots < MaxBoots
  /\ pc' = "game" /\ boots' = boots + 1 /\ writes' = 0
  /\ haveKey' \in IF "nodir" \in Faults THEN BOOLEAN ELSE {TRUE}
  /\ dirty' = FALSE /\ restored' = FALSE /\ ram' = BlankImage /\ now' = 0 /\ dirtyAt' = 0
  /\ spoilt' = FALSE /\ cut' = FALSE
  /\ UNCHANGED <<then, disk, hadSave>>

(* ReadSram and VerifySram. *)
ReadSram ==
  /\ pc = "game"
  /\ restored' = TRUE /\ ram' = Restored
  /\ UNCHANGED <<pc, then, dirt, now, disk, counts, history>>

(* WriteSram up to its memcpy; a write that changes nothing stops there.   *)
WriteSram(part, v) ==
  /\ pc = "game" /\ writes < MaxWrites
  /\ restored' = TRUE
  /\ ram' = [Restored EXCEPT ![part] = v]
  /\ IF Restored[part] = v
       THEN UNCHANGED <<pc, writes>>
       ELSE pc' = "mark" /\ writes' = writes + 1
  /\ UNCHANGED <<then, dirt, now, disk, boots, history>>

(* PortSramMarkDirty: only a file that can be written to gets dirty. *)
PortSramMarkDirty ==
  /\ pc = "mark" /\ pc' = "game"
  /\ IF haveKey THEN dirty' = TRUE /\ dirtyAt' = now ELSE UNCHANGED <<dirty, dirtyAt>>
  /\ UNCHANGED <<haveKey, then, memory, now, disk, counts, history>>

(* Bug: the end of the process waits for the quiet, too. *)
OnlyWhenQuiet == dirty /\ haveKey /\ Age(now) >= Quiet
ToWrite == dirty /\ haveKey

(* PortNativeSaveFlush as far as its first call: the flag is cleared first. *)
Flush(next) ==
  /\ then' = next
  /\ IF ToWrite THEN pc' = "open" /\ dirty' = FALSE ELSE pc' = next /\ UNCHANGED dirty

(* One frame: time passes, and PortNativeSaveTick is called. *)
PortNativeSaveTick ==
  /\ pc = "game"
  /\ now' = Later(now)
  /\ IF dirty /\ Age(now') >= Quiet
       THEN Flush("game")
       ELSE UNCHANGED <<pc, then, dirty>>
  /\ UNCHANGED <<haveKey, dirtyAt, memory, disk, counts, history>>

(* The window is closed, or the run is over. *)
Shutdown ==
  /\ pc = "game" /\ Flush("off")
  /\ UNCHANGED <<haveKey, dirtyAt, memory, now, disk, counts, history>>

(* OnFatalSignal, while the game runs.  One that arrives between the       *)
(* memcpy of WriteSram and the flag finds the flag as it was.              *)
OnFatalSignal ==
  /\ "signal" \in Faults /\ pc \in {"game", "mark"}
  /\ Flush("off")
  /\ cut' = (pc = "mark")
  /\ UNCHANGED <<haveKey, dirtyAt, memory, now, disk, counts, spoilt, hadSave>>

-----------------------------------------------------------------------------
(* The calls of PortNativeSaveFlush. *)

(* Bug: the live file is written in place. *)
InPlace == "sav"
Target == "tmp"

Put(file) ==
  IF Target = "tmp" THEN tmp' = file /\ UNCHANGED sav ELSE sav' = file /\ UNCHANGED tmp

Open ==
  /\ pc = "open" /\ pc' = "write"
  /\ Put(FirstParts(0)) /\ spoilt' = FALSE
  /\ UNCHANGED <<then, dirt, memory, now, counts, cut, hadSave>>

(* Said once: nothing will be kept for the rest of the run. *)
CannotOpen ==
  /\ pc = "open" /\ "open" \in Faults
  /\ pc' = then /\ haveKey' = FALSE /\ spoilt' = TRUE
  /\ UNCHANGED <<then, dirty, dirtyAt, memory, now, disk, counts, cut, hadSave>>

(* SDL_RWwrite and SDL_RWclose; nobody asks how much was written. *)
Write ==
  /\ pc = "write" /\ pc' = "remove"
  /\ Put(ram)
  /\ UNCHANGED <<then, dirt, memory, now, counts, history>>

WriteShort ==
  /\ pc = "write" /\ pc' = "remove" /\ "full" \in Faults
  /\ \E n \in 0 .. NumParts - 1 : Put(FirstParts(n))
  /\ spoilt' = TRUE
  /\ UNCHANGED <<then, dirt, memory, now, counts, cut, hadSave>>

Remove ==
  /\ pc = "remove" /\ pc' = "rename"
  /\ sav' = NoFile
  /\ UNCHANGED <<then, dirt, memory, now, tmp, counts, history>>

Rename ==
  /\ pc = "rename" /\ pc' = then
  /\ sav' = tmp /\ tmp' = NoFile /\ hadSave' = TRUE
  /\ UNCHANGED <<then, dirt, memory, now, counts, spoilt, cut>>

CannotRename ==
  /\ pc = "rename" /\ "rename" \in Faults
  /\ pc' = then /\ spoilt' = TRUE
  /\ UNCHANGED <<then, dirt, memory, now, disk, counts, cut, hadSave>>

(* The process is gone, and with it what had not reached the disk.  So it  *)
(* is by a signal during a flush, whose handler finds nothing dirty.       *)
Die ==
  /\ pc # "off"
  /\ "kill" \in Faults \/ ("signal" \in Faults /\ pc \in FlushSteps)
  /\ pc' = "off" /\ cut' = TRUE
  /\ IF pc = "write" THEN \E n \in Parts \cup {0} : Put(FirstParts(n)) ELSE UNCHANGED disk
  /\ UNCHANGED <<then, dirt, memory, now, counts, spoilt, hadSave>>

(* The model, not the program, ends here. *)
AtBound == pc = "off" /\ boots = MaxBoots /\ UNCHANGED saveVars

FlushStep == Open \/ CannotOpen \/ Write \/ WriteShort \/ Remove \/ Rename \/ CannotRename

SaveNext ==
  \/ Boot \/ ReadSram
  \/ \E part \in Parts, v \in Values : WriteSram(part, v)
  \/ PortSramMarkDirty \/ PortNativeSaveTick \/ FlushStep
  \/ Shutdown \/ OnFatalSignal \/ Die
  \/ AtBound

SaveSpec == SaveInit /\ [][SaveNext]_saveVars

(* The frame loop turns and calls into the file system return. *)
SaveFairness ==
  WF_saveVars(PortNativeSaveTick) /\ WF_saveVars(PortSramMarkDirty) /\ WF_saveVars(FlushStep)
SaveFairSpec == SaveSpec /\ SaveFairness

-----------------------------------------------------------------------------
(* PROPERTIES                                                              *)

(* Every variable keeps its type; the tick count its width. *)
TypeOK ==
  /\ pc \in {"off", "game", "mark"} \cup FlushSteps /\ then \in {"off", "game"}
  /\ haveKey \in BOOLEAN /\ dirty \in BOOLEAN /\ dirtyAt \in 0 .. TickWrap - 1
  /\ restored \in BOOLEAN /\ ram \in Images /\ now \in 0 .. TickWrap - 1
  /\ sav \in Files /\ tmp \in Files
  /\ writes \in 0 .. MaxWrites /\ boots \in 0 .. MaxBoots
  /\ spoilt \in BOOLEAN /\ cut \in BOOLEAN /\ hadSave \in BOOLEAN

Saved == Loaded(sav, BlankImage) = ram

(* What is left of a change whose flush failed on the way: the part of     *)
(* save memory the disk took, in the save file, or in the temporary one    *)
(* and then there is no save file.                                         *)
LeftBehind ==
  \E n \in 0 .. NumParts : sav = FirstParts(n) \/ (sav = NoFile /\ tmp = FirstParts(n))

(* While the game runs, save memory that is not marked for writing is what *)
(* the next run will find, if the last flush came through: no change is    *)
(* forgotten between the game's write, the debounce and the file.  The     *)
(* flag is cleared before the flush, so a change whose flush failed is     *)
(* neither marked nor saved until the game writes again; of that one the   *)
(* part the disk took is left behind.                                      *)
NothingForgotten ==
  pc = "game" /\ restored /\ haveKey /\ ~dirty => IF spoilt THEN LeftBehind ELSE Saved

(* A run that ends in order, by the window or by a signal between two      *)
(* writes, leaves everything it wrote in the file, quiet or not.           *)
OrderlyEndKeepsAll ==
  pc = "off" /\ restored /\ haveKey /\ ~cut /\ ~spoilt => Saved

(* Whatever moment the process dies at, the save file is never one that a  *)
(* write was in the middle of: once written by this program it is whole.   *)
NeverHalfWritten ==
  [][sav' # sav /\ ~spoilt => sav' = NoFile \/ sav' \in Images]_sav

(* A change is written out once the game leaves save memory alone. *)
WrittenOut == dirty ~> (pc = "off" \/ spoilt \/ (~dirty /\ Saved))

(* A crash loses the new save rather than the old one: where there was a   *)
(* save file, there still is one after the process died.                   *)
OldSaveSurvives == pc = "off" /\ hadSave => sav # NoFile
=============================================================================
