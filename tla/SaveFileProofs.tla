--------------------------- MODULE SaveFileProofs ---------------------------
(***************************************************************************)
(* Theorems about SaveFile.tla: for every size of the save, every clock    *)
(* and every set of faults, no change is forgotten as long as the last     *)
(* flush came through, an orderly end keeps everything, and the save file  *)
(* is never a half.                                                        *)
(***************************************************************************)
EXTENDS SaveFile, TLAPS

(* What is written is what memory holds, and only a restored memory with a *)
(* file to go to is ever written.                                          *)
FlushInv ==
  /\ dirty => restored /\ haveKey
  /\ pc \in FlushSteps => restored /\ haveKey /\ ~dirty
  /\ pc \in {"remove", "rename"} /\ ~spoilt => tmp = ram
  /\ pc \in {"remove", "rename"} => \E n \in 0 .. NumParts : tmp = FirstParts(n)
  /\ pc = "rename" => sav = NoFile
  /\ spoilt => restored
  /\ pc = "mark" => restored
  /\ ~restored => ram = BlankImage

IInv == TypeOK /\ FlushInv /\ NothingForgotten /\ OrderlyEndKeepsAll

-----------------------------------------------------------------------------
(* A whole file hides whatever memory held. *)
LEMMA LoadedWhole ==
  ASSUME NEW image \in Images, NEW under \in Images
  PROVE  Loaded(image, under) = image
  BY SaveAssumption DEF Loaded, Images, Prefixes, Parts

(* The restored memory is an image. *)
LEMMA LoadedType ==
  ASSUME NEW file \in Files, NEW under \in Images
  PROVE  Loaded(file, under) \in Images
<1>1. CASE file = NoFile BY <1>1 DEF Loaded, Images
<1>2. CASE file \in Prefixes
  <2>1. PICK n \in 0 .. NumParts : file \in [1 .. n -> Values] BY <1>2 DEF Prefixes
  <2>2. ASSUME NEW part \in Parts, part \in DOMAIN file PROVE file[part] \in Values BY <2>1, <2>2
  <2> QED BY <2>2 DEF Loaded, Images
<1> QED BY <1>1, <1>2 DEF Files

(* The first parts of memory make a file. *)
LEMMA FirstPartsType ==
  ASSUME ram \in Images, NEW n \in 0 .. NumParts
  PROVE  FirstParts(n) \in Files
<1>1. FirstParts(n) \in [1 .. n -> Values]
  BY SaveAssumption DEF FirstParts, Images, Parts
<1> QED BY <1>1 DEF Files, Prefixes

(* An image is a file, and a blank one an image. *)
LEMMA ImageTypes == Images \subseteq Files /\ BlankImage \in Images
<1>1. NumParts \in 0 .. NumParts BY SaveAssumption
<1>2. Images \subseteq Files BY <1>1 DEF Images, Files, Prefixes, Parts
<1>3. BlankImage \in Images BY SaveAssumption DEF Images, BlankImage
<1> QED BY <1>2, <1>3

(* All the parts of memory are memory. *)
LEMMA AllParts ==
  ASSUME ram \in Images
  PROVE  FirstParts(NumParts) = ram
  BY SaveAssumption DEF FirstParts, Images, Parts

-----------------------------------------------------------------------------
(* Every step keeps the types. *)
LEMMA TypeStep == TypeOK /\ [SaveNext]_saveVars => TypeOK'
<1> SUFFICES ASSUME TypeOK, [SaveNext]_saveVars PROVE TypeOK' OBVIOUS
<1> USE SaveAssumption
<1>0. Restored \in Images BY LoadedType DEF Restored, TypeOK
<1>1. CASE Boot
  <2>1. haveKey' \in BOOLEAN BY <1>1 DEF Boot
  <2>2. 0 \in 0 .. TickWrap - 1 /\ 0 \in 0 .. MaxWrites OBVIOUS
  <2>3. boots + 1 \in 0 .. MaxBoots BY <1>1 DEF Boot, TypeOK
  <2> QED BY <1>1, <2>1, <2>2, <2>3, ImageTypes DEF Boot, TypeOK, disk
<1>2. CASE ReadSram BY <1>2, <1>0 DEF ReadSram, TypeOK, dirt, disk, counts, history
<1>3. ASSUME NEW part \in Parts, NEW v \in Values, WriteSram(part, v) PROVE TypeOK'
  <2>1. [Restored EXCEPT ![part] = v] \in Images BY <1>0 DEF Images
  <2>2. writes + 1 \in 0 .. MaxWrites BY <1>3 DEF WriteSram, TypeOK
  <2> QED BY <1>3, <2>1, <2>2 DEF WriteSram, TypeOK, dirt, disk, history
<1>4. CASE PortSramMarkDirty BY <1>4 DEF PortSramMarkDirty, TypeOK, memory, disk, counts, history
<1>5. CASE PortNativeSaveTick
  <2>1. Later(now) \in 0 .. TickWrap - 1 BY DEF Later, TypeOK
  <2> QED BY <1>5, <2>1 DEF PortNativeSaveTick, Flush, FlushSteps, TypeOK, memory, disk, counts, history
<1>6. CASE Shutdown BY <1>6 DEF Shutdown, Flush, FlushSteps, TypeOK, memory, disk, counts, history
<1>7. CASE OnFatalSignal BY <1>7 DEF OnFatalSignal, Flush, FlushSteps, TypeOK, memory, disk, counts
<1>8. CASE FlushStep
  <2>1. FirstParts(0) \in Files BY FirstPartsType DEF TypeOK
  <2>2. \A n \in 0 .. NumParts - 1 : FirstParts(n) \in Files BY FirstPartsType DEF TypeOK
  <2>3. ram \in Files BY ImageTypes DEF TypeOK
  <2>4. CASE Open BY <2>4, <2>1 DEF Open, Put, Target, FlushSteps, TypeOK, dirt, memory, counts
  <2>5. CASE CannotOpen BY <2>5 DEF CannotOpen, TypeOK, memory, disk, counts
  <2>6. CASE Write BY <2>6, <2>3 DEF Write, Put, Target, FlushSteps, TypeOK, dirt, memory, counts, history
  <2>7. CASE WriteShort BY <2>7, <2>2 DEF WriteShort, Put, Target, FlushSteps, TypeOK, dirt, memory, counts
  <2>8. CASE Remove BY <2>8 DEF Remove, Files, FlushSteps, TypeOK, dirt, memory, counts, history
  <2>9. CASE Rename BY <2>9 DEF Rename, Files, TypeOK, dirt, memory, counts
  <2>10. CASE CannotRename BY <2>10 DEF CannotRename, TypeOK, dirt, memory, disk, counts
  <2> QED BY <1>8, <2>4, <2>5, <2>6, <2>7, <2>8, <2>9, <2>10 DEF FlushStep
<1>9. CASE Die
  <2>1. \A n \in Parts \cup {0} : FirstParts(n) \in Files BY FirstPartsType DEF TypeOK, Parts
  <2> QED BY <1>9, <2>1 DEF Die, Put, Target, TypeOK, dirt, memory, disk, counts
<1>10. CASE UNCHANGED saveVars
  BY <1>10 DEF TypeOK, saveVars, dirt, memory, disk, counts, history
<1> QED BY <1>1, <1>2, <1>3, <1>4, <1>5, <1>6, <1>7, <1>8, <1>9, <1>10 DEF SaveNext, AtBound

(* The initial state is typed and has nothing to forget. *)
LEMMA InitInv == SaveInit => IInv
<1> SUFFICES ASSUME SaveInit PROVE IInv OBVIOUS
<1> USE SaveAssumption
<1>1. TypeOK
  <2>1. 0 \in 0 .. TickWrap - 1 /\ 0 \in 0 .. MaxWrites /\ 0 \in 0 .. MaxBoots OBVIOUS
  <2>2. hadSave \in BOOLEAN BY DEF SaveInit
  <2> QED BY <2>1, <2>2, ImageTypes DEF SaveInit, TypeOK, Files
<1>2. FlushInv /\ NothingForgotten /\ OrderlyEndKeepsAll
  BY DEF SaveInit, FlushInv, FlushSteps, NothingForgotten, OrderlyEndKeepsAll
<1> QED BY <1>1, <1>2 DEF IInv

(* No step forgets a change: what is not marked is in the file, what is    *)
(* being written is what memory holds.                                     *)
LEMMA InvStep == IInv /\ [SaveNext]_saveVars => IInv'
<1> SUFFICES ASSUME IInv, [SaveNext]_saveVars PROVE IInv' OBVIOUS
<1> USE SaveAssumption DEF IInv
<1>0. TypeOK' BY TypeStep
<1>a. ram \in Images /\ BlankImage \in Images /\ tmp \in Files /\ then \in {"off", "game"}
  BY ImageTypes DEF TypeOK
<1>b. ram' = ram => \A n : FirstParts(n)' = FirstParts(n)
  BY DEF FirstParts
<1>1. CASE Boot
  BY <1>0, <1>1 DEF Boot, FlushInv, FlushSteps, NothingForgotten, OrderlyEndKeepsAll, disk
<1>2. CASE ReadSram
  <2>1. haveKey /\ ~restored => ram' = Loaded(sav, BlankImage)
    BY <1>2 DEF ReadSram, Restored, FlushInv
  <2>2. restored => ram' = ram BY <1>2 DEF ReadSram, Restored
  <2> QED BY <1>0, <1>2, <2>1, <2>2
       DEF ReadSram, FlushInv, FlushSteps, NothingForgotten, OrderlyEndKeepsAll, Saved, LeftBehind, FirstParts, dirt, disk, counts, history
<1>3. ASSUME NEW part \in Parts, NEW v \in Values, WriteSram(part, v) PROVE IInv'
  <2>0. Restored \in Images BY LoadedType DEF Restored, TypeOK
  <2>1. CASE Restored[part] = v
    <3>1. ram' = Restored BY <1>3, <2>0, <2>1 DEF WriteSram, Images
    <3>2. haveKey /\ ~restored => ram' = Loaded(sav, BlankImage) BY <3>1 DEF Restored, FlushInv
    <3>3. restored => ram' = ram BY <3>1 DEF Restored
    <3>4. pc = "game" /\ pc' = pc /\ restored' /\ UNCHANGED <<haveKey, dirty, sav, tmp, spoilt, cut>>
      BY <1>3, <2>1 DEF WriteSram, dirt, disk, history
    <3>5. CASE restored
      <4>1. Saved' = Saved /\ LeftBehind' = LeftBehind BY <1>b, <3>3, <3>4, <3>5 DEF Saved, LeftBehind
      <4> QED BY <1>0, <3>4, <3>5, <4>1 DEF FlushInv, FlushSteps, NothingForgotten, OrderlyEndKeepsAll
    <3>6. CASE ~restored
      <4>1. ~spoilt BY <3>6 DEF FlushInv
      <4>2. haveKey => Saved' BY <3>2, <3>4, <3>6 DEF Saved
      <4> QED BY <1>0, <3>4, <4>1, <4>2 DEF FlushInv, FlushSteps, NothingForgotten, OrderlyEndKeepsAll
    <3> QED BY <3>5, <3>6
  <2>2. CASE Restored[part] # v
    BY <1>0, <1>3, <2>2 DEF WriteSram, FlushInv, FlushSteps, NothingForgotten, OrderlyEndKeepsAll, dirt, disk, history
  <2> QED BY <2>1, <2>2
<1>4. CASE PortSramMarkDirty
  BY <1>0, <1>4 DEF PortSramMarkDirty, FlushInv, FlushSteps, NothingForgotten, OrderlyEndKeepsAll, memory, disk, counts, history
<1>5. CASE PortNativeSaveTick
  <2>1. pc = "game" /\ UNCHANGED <<haveKey, restored, ram, sav, tmp, spoilt, cut>>
    BY <1>5 DEF PortNativeSaveTick, memory, disk, history
  <2>2. \/ pc' = "game" /\ dirty' = dirty
        \/ pc' = "open" /\ dirty' = FALSE /\ dirty /\ haveKey
    BY <1>5 DEF PortNativeSaveTick, Flush, ToWrite
  <2> QED BY <1>0, <2>1, <2>2 DEF FlushInv, FlushSteps, NothingForgotten, OrderlyEndKeepsAll, Saved, LeftBehind, FirstParts
<1>6. CASE Shutdown
  <2>1. pc = "game" /\ UNCHANGED <<haveKey, restored, ram, sav, tmp, spoilt, cut>>
    BY <1>6 DEF Shutdown, memory, disk, history
  <2>2. \/ pc' = "off" /\ dirty' = dirty /\ ~(dirty /\ haveKey)
        \/ pc' = "open" /\ dirty' = FALSE /\ dirty /\ haveKey
    BY <1>6 DEF Shutdown, Flush, ToWrite
  <2> QED BY <1>0, <2>1, <2>2 DEF FlushInv, FlushSteps, NothingForgotten, OrderlyEndKeepsAll, Saved, LeftBehind, FirstParts
<1>7. CASE OnFatalSignal
  <2>1. (pc = "game" \/ cut') /\ UNCHANGED <<haveKey, restored, ram, sav, tmp, spoilt>>
    BY <1>7 DEF OnFatalSignal, memory, disk
  <2>2. \/ pc' = "off" /\ dirty' = dirty /\ ~(dirty /\ haveKey)
        \/ pc' = "open" /\ dirty' = FALSE /\ dirty /\ haveKey
    BY <1>7 DEF OnFatalSignal, Flush, ToWrite
  <2> QED BY <1>0, <2>1, <2>2 DEF FlushInv, FlushSteps, NothingForgotten, OrderlyEndKeepsAll, Saved, LeftBehind, FirstParts
<1>8. CASE FlushStep
  <2>1. CASE Open
    BY <1>0, <2>1 DEF Open, Put, Target, FlushInv, FlushSteps, NothingForgotten, OrderlyEndKeepsAll, dirt, memory
  <2>2. CASE CannotOpen
    BY <1>0, <1>a, <2>2 DEF CannotOpen, FlushInv, FlushSteps, NothingForgotten, OrderlyEndKeepsAll, memory, disk
  <2>3. CASE Write
    <3>1. tmp' = ram /\ ram' = ram BY <2>3 DEF Write, Put, Target, memory
    <3>2. NumParts \in 0 .. NumParts /\ tmp' = FirstParts(NumParts)' BY <1>a, <1>b, <3>1, AllParts
    <3> QED BY <1>0, <2>3, <3>1, <3>2
         DEF Write, FlushInv, FlushSteps, NothingForgotten, OrderlyEndKeepsAll, dirt, memory, history
  <2>4. CASE WriteShort
    <3>1. PICK n \in 0 .. NumParts - 1 : tmp' = FirstParts(n) BY <2>4 DEF WriteShort, Put, Target
    <3>2. ram' = ram BY <2>4 DEF WriteShort, memory
    <3>3. n \in 0 .. NumParts /\ tmp' = FirstParts(n)' BY <1>b, <3>1, <3>2
    <3> QED BY <1>0, <2>4, <3>3
         DEF WriteShort, FlushInv, FlushSteps, NothingForgotten, OrderlyEndKeepsAll, dirt, memory
  <2>5. CASE Remove
    <3>1. pc = "remove" /\ ram' = ram /\ tmp' = tmp BY <2>5 DEF Remove, memory
    <3>2. \E n \in 0 .. NumParts : tmp' = FirstParts(n)' BY <1>b, <3>1 DEF FlushInv
    <3> QED BY <1>0, <2>5, <3>2
         DEF Remove, FlushInv, FlushSteps, NothingForgotten, OrderlyEndKeepsAll, dirt, memory, history
  <2>6. CASE Rename
    <3>1. ~spoilt => sav' = ram BY <2>6 DEF Rename, FlushInv
    <3>2. ~spoilt => Loaded(sav', BlankImage) = ram BY <3>1, <1>a, LoadedWhole
    <3> QED BY <1>0, <1>a, <2>6, <3>2
         DEF Rename, FlushInv, FlushSteps, NothingForgotten, OrderlyEndKeepsAll, Saved, LeftBehind, FirstParts, dirt, memory
  <2>7. CASE CannotRename
    <3>1. pc = "rename" /\ ram' = ram /\ tmp' = tmp /\ sav' = sav BY <2>7 DEF CannotRename, memory, disk
    <3>2. LeftBehind' BY <1>b, <3>1 DEF FlushInv, LeftBehind
    <3> QED BY <1>0, <1>a, <2>7, <3>2
         DEF CannotRename, FlushInv, FlushSteps, NothingForgotten, OrderlyEndKeepsAll, dirt, memory, disk
  <2> QED BY <1>8, <2>1, <2>2, <2>3, <2>4, <2>5, <2>6, <2>7 DEF FlushStep
<1>9. CASE Die
  BY <1>0, <1>9 DEF Die, FlushInv, FlushSteps, NothingForgotten, OrderlyEndKeepsAll, dirt, memory
<1>10. CASE UNCHANGED saveVars
  BY <1>0, <1>10 DEF FlushInv, NothingForgotten, OrderlyEndKeepsAll, Saved, LeftBehind, FirstParts, saveVars, dirt, memory, disk, history
<1> QED BY <1>1, <1>2, <1>3, <1>4, <1>5, <1>6, <1>7, <1>8, <1>9, <1>10 DEF SaveNext, AtBound

(* The invariant holds always. *)
LEMMA InvHolds == SaveSpec => []IInv
<1> QED BY InitInv, InvStep, PTL DEF SaveSpec

-----------------------------------------------------------------------------
(* Every variable keeps its type, and the clock its width.                 *)
THEOREM SaveTypeCorrect == SaveSpec => []TypeOK
<1>1. IInv => TypeOK BY DEF IInv
<1> QED BY <1>1, InvHolds, PTL

(* Between the game's write, the debounce and the file no change is        *)
(* forgotten whenever the process ended before, as long as the last flush  *)
(* came through.  Of one that failed, whose change is not marked again,    *)
(* what the disk took of it is left.                                       *)
THEOREM ChangesAreKept == SaveSpec => []NothingForgotten
<1>1. IInv => NothingForgotten BY DEF IInv
<1> QED BY <1>1, InvHolds, PTL

(* The flush at the end of the process writes whatever was still waiting   *)
(* for the quiet.                                                          *)
THEOREM EndKeepsAll == SaveSpec => []OrderlyEndKeepsAll
<1>1. IInv => OrderlyEndKeepsAll BY DEF IInv
<1> QED BY <1>1, InvHolds, PTL

(* Only a whole image takes the place of the save file, wherever the       *)
(* process dies, as long as the disk took all the bytes.                   *)
THEOREM NeverAHalf == SaveSpec => NeverHalfWritten
<1>1. IInv /\ [SaveNext]_saveVars => [sav' # sav /\ ~spoilt => sav' = NoFile \/ sav' \in Images]_sav
  <2> SUFFICES ASSUME IInv, SaveNext, sav' # sav, ~spoilt PROVE sav' = NoFile \/ sav' \in Images
    BY DEF saveVars, disk
  <2>1. CASE Remove BY <2>1 DEF Remove
  <2>2. CASE Rename BY <2>2 DEF Rename, IInv, FlushInv, TypeOK
  <2>3. \/ Remove \/ Rename
    <3>1. sav' = sav \/ Remove \/ Rename
      BY DEF SaveNext, Boot, ReadSram, WriteSram, PortSramMarkDirty, PortNativeSaveTick, FlushStep, Open,
             CannotOpen, Write, WriteShort, CannotRename, Shutdown, OnFatalSignal, Die, AtBound, Put, Target, disk, saveVars
    <3> QED BY <3>1
  <2> QED BY <2>1, <2>2, <2>3
<1> QED BY <1>1, InvHolds, PTL DEF SaveSpec, NeverHalfWritten
=============================================================================
