--------------------------- MODULE RollbackProofs ---------------------------
(***************************************************************************)
(* Theorems about Rollback.tla, for every value of its constants, and that *)
(* a session implements Lockstep.tla.                                      *)
(***************************************************************************)
EXTENDS Rollback, SequenceTheorems, TLAPS

(* --- the operators ----------------------------------------------------- *)

(* A frame has a slot of the ring. *)
LEMMA RingIndex ==
  ASSUME NEW f \in Nat PROVE f % Depth \in 0 .. Depth - 1
BY ConstantsAssumption

(* The larger of two numbers is in the range of both. *)
LEMMA AtLeastType ==
  ASSUME NEW n \in Nat, NEW a \in 0 .. n, NEW b \in 0 .. n
  PROVE  AtLeast(a, b) \in 0 .. n /\ a <= AtLeast(a, b) /\ b <= AtLeast(a, b)
BY DEF AtLeast

(* Of two frames numbered from one origin, the earlier has the smaller     *)
(* count.                                                                  *)
LEMMA SameOrigin ==
  ASSUME NEW f1 \in Int, NEW c1 \in Nat, NEW f2 \in Int, NEW c2 \in Nat,
         f1 - c1 = f2 - c2, f1 < f2
  PROVE  c1 \in 0 .. c2
OBVIOUS

(* Numbering from an origin goes on when one more frame is counted.        *)
LEMMA OriginKept ==
  ASSUME NEW f1 \in Int, NEW c1 \in Int, NEW f2 \in Int, NEW c2 \in Int,
         f1 - c1 = f2 - c2
  PROVE  f1 - c1 = (f2 + 1) - c2 - 1
OBVIOUS

(* The events of a frame turn a slot map into a slot map. *)
LEMMA SlotMapAfterType ==
  ASSUME NEW map, NEW evs, NEW f
  PROVE  SlotMapAfter(map, evs, f) \in SlotMaps
BY DEF SlotMapAfter, SlotMaps

(* The events of a frame leave a count of Kirbys that can be in play. *)
LEMMA SlotsInPlayAfterType ==
  ASSUME NEW count \in 1 .. NumPeers, NEW evs \in Seq(Events(Nat)), NEW f
  PROVE  SlotsInPlayAfter(count, evs, f) \in 1 .. NumPeers
<1>1. CASE \E i \in DOMAIN evs : LastCount(evs, f, i)
  <2> DEFINE i == CHOOSE i \in DOMAIN evs : LastCount(evs, f, i)
  <2>1. i \in DOMAIN evs /\ LastCount(evs, f, i)
    BY <1>1
  <2>2. evs[i] \in Events(Nat) /\ evs[i].type = "players"
    BY <2>1 DEF LastCount
  <2>3. evs[i].a \in 1 .. NumPeers
    BY <2>2 DEF Events, PlayersEvents, SlotEvents
  <2> QED
    BY <1>1, <2>3 DEF SlotsInPlayAfter
<1>2. CASE ~\E i \in DOMAIN evs : LastCount(evs, f, i)
  BY <1>2 DEF SlotsInPlayAfter
<1> QED
  BY <1>1, <1>2

(* Inserting an event gives a list of events. *)
LEMMA InsertType ==
  ASSUME NEW S, NEW evs \in Seq(S), NEW e \in S, NEW k \in 0 .. Len(evs)
  PROVE  Insert(evs, e, k) \in Seq(S)
<1>1. \A i \in 1 .. Len(evs) + 1 :
        (IF i <= k THEN evs[i] ELSE IF i = k + 1 THEN e ELSE evs[i - 1]) \in S
  OBVIOUS
<1> QED
  BY <1>1 DEF Insert

(* After the events of a frame no peer drives two Kirbys, if none did      *)
(* before: the last event that touches a peer decides its slot.            *)
LEMMA SlotMapAfterInjective ==
  ASSUME NEW map \in SlotMaps, Injective(map),
         NEW evs \in Seq(Events(Nat)), NEW f
  PROVE  Injective(SlotMapAfter(map, evs, f))
<1> DEFINE after == SlotMapAfter(map, evs, f)
<1> SUFFICES ASSUME NEW s \in Slots, NEW t \in Slots, after[s] = after[t], after[s] # AI
             PROVE  s = t
  BY DEF Injective
<1>1. after[s] \in Peers /\ DrivesAfter(map, evs, f, s, after[s])
  BY DEF SlotMapAfter
<1>2. DrivesAfter(map, evs, f, t, after[s])
  BY DEF SlotMapAfter
<1>3. At(evs, f) \subseteq Nat
  BY DEF At
<1>4. CASE map[s] = after[s] /\ map[t] = after[s]
  BY <1>4 DEF Injective
<1>5. CASE ~(map[s] = after[s] /\ map[t] = after[s])
  BY <1>1, <1>2, <1>3, <1>5 DEF DrivesAfter, Gives, Takes
<1> QED
  BY <1>4, <1>5

(* --- the hook: what each part of a simulated frame produces ------------- *)

(* The slot maps a session starts with are slot maps.                      *)
LEMMA FirstSlotMapType == FirstSlotMap(0) \in SlotMaps /\ FirstSlotMap(NumPlayers) \in SlotMaps
BY ConstantsAssumption, NumPeersAssumption DEF FirstSlotMap, SlotMaps, Slots, Peers

(* A prediction is a button word, as every word of the timeline is. *)
LEMMA InputsType ==
  ASSUME keys \in [Frames -> [Peers -> Keys]], NEW f \in Frames
  PROVE  InputsFor(f) \in [Peers -> Keys]
<1>1. ASSUME NEW p \in Peers PROVE PredictFor(p, f) \in Keys
  <2>1. CASE \E g \in Frames : LastKnown(p, f, g)
    <3>1. (CHOOSE g \in Frames : LastKnown(p, f, g)) \in Frames
      BY <2>1
    <3> QED
      BY <2>1, <3>1 DEF PredictFor
  <2>2. CASE ~\E g \in Frames : LastKnown(p, f, g)
    BY <2>2 DEF PredictFor, Keys
  <2> QED
    BY <2>1, <2>2
<1> QED
  BY <1>1 DEF InputsFor

(* Feeding the slots keeps the memory a memory and leaves its history. *)
LEMMA FedType ==
  ASSUME NEW m \in Memory, NEW row \in [Peers -> Keys], NEW map \in SlotMaps,
         NEW count \in 1 .. NumPeers
  PROVE  /\ ApplySlotInputs(m, row, map, count) \in Memory
         /\ ApplySlotInputs(m, row, map, count).hist = m.hist
<1> DEFINE now(s) == IF s >= count THEN m.held[s]
                     ELSE IF map[s] \in Peers THEN row[map[s]] ELSE AiInput(m)
           held == [s \in Slots |-> now(s)]
           pressed == [s \in Slots |-> IF s >= count THEN m.pressed[s] ELSE now(s) \ m.held[s]]
           released == [s \in Slots |-> IF s >= count THEN m.released[s] ELSE m.held[s] \ now(s)]
<1>1. m.held \in Words /\ m.pressed \in Words /\ m.released \in Words /\ m.hist \in Seq(Inputs)
  BY DEF Memory
<1>2. AiInput(m) \in Keys
  BY ConstantsAssumption DEF AiInput, Keys
<1>3. ASSUME NEW s \in Slots PROVE now(s) \in Keys
  BY <1>1, <1>2 DEF Words, SlotMaps
<1>4. held \in Words /\ pressed \in Words /\ released \in Words
  BY <1>1, <1>3 DEF Words, Keys
<1>5. ApplySlotInputs(m, row, map, count) =
        [held |-> held, pressed |-> pressed, released |-> released, count |-> count, hist |-> m.hist]
  BY DEF ApplySlotInputs
<1>6. count \in 0 .. NumPeers
  BY NumPeersAssumption
<1> QED
  BY <1>1, <1>4, <1>5, <1>6 DEF Memory

(* The point a frame starts from has the type of a snapshot. *)
LEMMA StartingPointType ==
  ASSUME TypeOK, StartingPoint.frame \in Frames
  PROVE  StartingPoint \in Snapshots
<1>1. CASE catchUp = "asked"
  <2>1. Entry(catchUpTo) \in Snapshots \cup {NoSnapshot}
    <3>1. catchUpTo % Depth \in 0 .. Depth - 1
      BY RingIndex DEF TypeOK, Frames
    <3> QED
      BY <3>1 DEF TypeOK, Entry
  <2>2. Entry(catchUpTo).frame # -1
    BY <1>1 DEF StartingPoint, Frames
  <2>3. Entry(catchUpTo) # NoSnapshot
    BY <2>2 DEF NoSnapshot
  <2> QED
    BY <1>1, <2>1, <2>3 DEF StartingPoint
<1>2. CASE catchUp # "asked"
  BY <1>2 DEF StartingPoint, Here, Snapshots, TypeOK
<1> QED
  BY <1>1, <1>2

(* A frame simulated from the point from, on the words row, with fed in    *)
(* memory once the slots have been given theirs.                           *)
Simulated(from, row, fed) ==
  /\ from = StartingPoint
  /\ active
  /\ row = InputsFor(from.frame)
  /\ fed = ApplySlotInputs(from.mem, row, slotPeer', slotsInPlay')
  /\ fed.hist = from.mem.hist
  /\ catchUp' \in {"idle", "resim"}
  /\ render' = RenderFrom(from.frame)
  /\ slotPeer' = SlotMapAfter(slotPeer, events, from.frame) /\ slotPeer' \in SlotMaps
  /\ slotsInPlay' \in 1 .. NumPeers
  /\ keys' = [keys EXCEPT ![from.frame] = row]
  /\ len' = LenWith(from.frame)
  /\ mem' = fed /\ keysDown' = row[Self] /\ frameCount' = from.frameCount
  /\ ring' = SaveTo([frame |-> from.frame, mem |-> fed, frameCount |-> from.frameCount,
                     keysDown |-> row[Self]])
  /\ AdvanceConfirmed(LenWith(from.frame))
  /\ sFrame' = from.frame + 1
  /\ newest' = AtLeast(newest, from.frame + 1)
  /\ UNCHANGED <<known, events, active, catchUpTo, base>>

(* What one simulated frame does, with its parts named. *)
LEMMA SimulatedFrame ==
  ASSUME TypeOK, PortRbFrame
  PROVE  \E from \in Snapshots, row \in [Peers -> Keys], fed \in Memory : Simulated(from, row, fed)
<1> DEFINE from == StartingPoint
           row == InputsFor(from.frame)
           map == SlotMapAfter(slotPeer, events, from.frame)
           count == SlotsInPlayAfter(slotsInPlay, events, from.frame)
           fed == ApplySlotInputs(from.mem, row, map, count)
<1>1. from \in Snapshots /\ from.mem \in Memory /\ from.frame \in Frames
  BY StartingPointType DEF PortRbFrame, Snapshots
<1>2. row \in [Peers -> Keys]
  BY <1>1, InputsType DEF TypeOK
<1>3. map \in SlotMaps
  BY SlotMapAfterType
<1>4. count \in 1 .. NumPeers
  BY SlotsInPlayAfterType DEF TypeOK
<1>5. fed \in Memory /\ fed.hist = from.mem.hist
  BY <1>1, <1>2, <1>3, <1>4, FedType
<1>6. catchUp' \in {"idle", "resim"} /\ slotPeer' = map /\ slotsInPlay' = count
  BY DEF PortRbFrame, Simulate
<1>7. fed = ApplySlotInputs(from.mem, row, slotPeer', slotsInPlay')
  BY <1>6
<1> HIDE DEF row, fed
<1>8. Simulated(from, row, fed)
  BY <1>1, <1>2, <1>3, <1>4, <1>5, <1>6, <1>7 DEF Simulated, PortRbFrame, Simulate, row, fed
<1> QED
  BY <1>1, <1>2, <1>5, <1>8

(* --- type correctness --------------------------------------------------- *)

(* Recording a word for a frame keeps the timeline a timeline. *)
LEMMA RecordType ==
  ASSUME keys \in [Frames -> [Peers -> Keys]], known \in [Frames -> [Peers -> BOOLEAN]],
         len \in 0 .. MaxFrame + 1,
         NEW f \in Frames, NEW p \in Peers, NEW k \in Keys
  PROVE  /\ [keys EXCEPT ![f][p] = k] \in [Frames -> [Peers -> Keys]]
         /\ [known EXCEPT ![f][p] = TRUE] \in [Frames -> [Peers -> BOOLEAN]]
         /\ LenWith(f) \in 0 .. MaxFrame + 1
BY ConstantsAssumption DEF LenWith, AtLeast, Frames

(* The register the game reads is a button word. *)
LEMMA KeyInputType ==
  ASSUME TypeOK, frameCount \in Frames, NEW host \in Keys
  PROVE  UpdateKeyInput(host) \in Keys
BY ConstantsAssumption, NumPeersAssumption DEF UpdateKeyInput, TypeOK, Players, Peers

(* The initial state has its types.                                        *)
LEMMA InitType == Init => TypeOK
<1> SUFFICES ASSUME Init PROVE TypeOK
  OBVIOUS
<1>1. NoKeys \in [Frames -> [Peers -> Keys]] /\ {} \in Keys
  BY DEF NoKeys, Keys
<1>2. NoneKnown \in [Frames -> [Peers -> BOOLEAN]]
  BY DEF NoneKnown
<1>3. BootMemory \in Memory
  BY NumPeersAssumption DEF BootMemory, Memory, NoWords, Words, Keys
<1>4. EmptyRing \in [0 .. Depth - 1 -> Snapshots \cup {NoSnapshot}]
  BY DEF EmptyRing
<1>5. /\ <<>> \in Seq(Events(Nat)) /\ NumPeers \in 1 .. NumPeers
      /\ 0 \in Frames /\ 0 \in 0 .. MaxFrame + 1
  BY ConstantsAssumption, NumPeersAssumption DEF Frames
<1> QED
  BY <1>1, <1>2, <1>3, <1>4, <1>5, FirstSlotMapType DEF Init, TypeOK

(* Starting a session keeps the types.                                     *)
LEMMA PortRbInitType == TypeOK /\ PortRbInit => TypeOK'
<1> SUFFICES ASSUME TypeOK, PortRbInit PROVE TypeOK'
  OBVIOUS
<1>1. NoKeys \in [Frames -> [Peers -> Keys]] /\ NoneKnown \in [Frames -> [Peers -> BOOLEAN]]
  BY DEF NoKeys, NoneKnown, Keys
<1>2. ClearedRing \in [0 .. Depth - 1 -> Snapshots \cup {NoSnapshot}]
  BY DEF ClearedRing, EmptyRing
<1>3. <<>> \in Seq(Events(Nat)) /\ frameCount \in 0 .. MaxFrame + 1 /\ NumPeers \in 1 .. NumPeers
  BY ConstantsAssumption, NumPeersAssumption DEF TypeOK
<1>4. frameCount \in Frames
  BY DEF PortRbInit
<1> QED
  BY <1>1, <1>2, <1>3, <1>4, FirstSlotMapType
  DEF PortRbInit, TypeOK, machine

(* Ending a session keeps the types.                                       *)
LEMMA PortRbShutdownType == TypeOK /\ PortRbShutdown => TypeOK'
<1> SUFFICES ASSUME TypeOK, PortRbShutdown PROVE TypeOK'
  OBVIOUS
<1>1. NoKeys \in [Frames -> [Peers -> Keys]] /\ NoneKnown \in [Frames -> [Peers -> BOOLEAN]]
  BY DEF NoKeys, NoneKnown, Keys
<1>2. EmptyRing \in [0 .. Depth - 1 -> Snapshots \cup {NoSnapshot}]
  BY DEF EmptyRing
<1>3. <<>> \in Seq(Events(Nat)) /\ 0 \in 0 .. MaxFrame + 1
  BY ConstantsAssumption
<1> QED
  BY <1>1, <1>2, <1>3 DEF PortRbShutdown, TypeOK, machine, history

(* Local input keeps the types.                                            *)
LEMMA SetLocalInputType ==
  ASSUME TypeOK, NEW k \in Keys, PortRbSetLocalInput(k) PROVE TypeOK'
<1>1. Self \in Peers
  BY ConstantsAssumption, NumPeersAssumption DEF Players, Peers
<1>2. /\ keys' \in [Frames -> [Peers -> Keys]] /\ known' \in [Frames -> [Peers -> BOOLEAN]]
      /\ len' \in 0 .. MaxFrame + 1
  BY <1>1, RecordType DEF TypeOK, PortRbSetLocalInput
<1> QED
  BY <1>2 DEF TypeOK, PortRbSetLocalInput, slotting, session, machine, history

(* A peer's word keeps the types.                                          *)
LEMMA ConfirmInputType ==
  ASSUME TypeOK, NEW p \in Peers, NEW f \in Frames, NEW k \in Keys, PortRbConfirmInput(p, f, k)
  PROVE  TypeOK'
<1>1. /\ keys' \in [Frames -> [Peers -> Keys]] /\ known' \in [Frames -> [Peers -> BOOLEAN]]
      /\ len' \in 0 .. MaxFrame + 1
  BY RecordType DEF TypeOK, PortRbConfirmInput
<1>2. catchUp' \in {"idle", "resim", "asked"} /\ catchUpTo' \in Frames
  BY DEF TypeOK, PortRbConfirmInput
<1> QED
  BY <1>1, <1>2 DEF TypeOK, PortRbConfirmInput, slotting, machine, history

(* Scheduling an event keeps the types.                                    *)
LEMMA ScheduleType ==
  ASSUME TypeOK, NEW f \in Nat, NEW e \in Events({f}), PortRbScheduleEvent(e)
  PROVE  TypeOK'
<1>1. e \in Events(Nat)
  BY DEF Events, PlayersEvents, SlotEvents
<1>2. events' \in Seq(Events(Nat))
  BY <1>1, InsertType DEF TypeOK, PortRbScheduleEvent
<1> QED
  BY <1>2 DEF TypeOK, PortRbScheduleEvent, timeline, session, machine, history

(* Running a frame keeps the types.                                        *)
LEMMA RunFrameType ==
  ASSUME TypeOK, NEW host \in Keys, RunFrame(host) PROVE TypeOK'
<1> DEFINE pad == UpdateKeyInput(host)
           consumed == [held |-> mem.held, pressed |-> mem.pressed, released |-> mem.released,
                        count |-> mem.count, pad |-> pad]
<1>1. pad \in Keys
  BY KeyInputType DEF RunFrame
<1>2. consumed \in Inputs
  BY <1>1 DEF Inputs, TypeOK, Memory
<1>3. Append(mem.hist, consumed) \in Seq(Inputs)
  BY <1>2 DEF TypeOK, Memory
<1>4. [mem EXCEPT !.hist = Append(@, consumed)] \in Memory
  BY <1>3 DEF TypeOK, Memory
<1>5. mem' \in Memory /\ keysDown' \in Keys
  BY <1>1, <1>4 DEF RunFrame
<1>6. frameCount' \in 0 .. MaxFrame + 1
  BY ConstantsAssumption DEF RunFrame, Frames
<1> QED
  BY <1>5, <1>6 DEF TypeOK, RunFrame, timeline, slotting, session, history

(* The hook keeps the types.                                               *)
LEMMA PortRbFrameType ==
  ASSUME TypeOK, PortRbFrame, phase' \in {"hook", "await"} PROVE TypeOK'
<1>1. PICK from \in Snapshots, row \in [Peers -> Keys], fed \in Memory : Simulated(from, row, fed)
  BY SimulatedFrame
<1>2. /\ active /\ catchUp' \in {"idle", "resim"}
      /\ render' = RenderFrom(from.frame)
      /\ slotPeer' \in SlotMaps /\ slotsInPlay' \in 1 .. NumPeers
      /\ keys' = [keys EXCEPT ![from.frame] = row]
      /\ len' = LenWith(from.frame)
      /\ mem' = fed /\ keysDown' = row[Self] /\ frameCount' = from.frameCount
      /\ ring' = SaveTo([frame |-> from.frame, mem |-> fed, frameCount |-> from.frameCount,
                         keysDown |-> row[Self]])
      /\ AdvanceConfirmed(LenWith(from.frame))
      /\ sFrame' = from.frame + 1
      /\ newest' = AtLeast(newest, from.frame + 1)
      /\ UNCHANGED <<known, events, active, catchUpTo, base>>
  BY <1>1 DEF Simulated
<1>3. from.frame \in Frames /\ from.frameCount \in 0 .. MaxFrame + 1
  BY DEF Snapshots
<1>4. len' \in 0 .. MaxFrame + 1 /\ newest' \in 0 .. MaxFrame + 1 /\ sFrame' \in 0 .. MaxFrame + 1
  <2>1. from.frame + 1 \in 0 .. MaxFrame + 1 /\ MaxFrame + 1 \in Nat
    BY <1>3, ConstantsAssumption DEF Frames
  <2>2. len \in 0 .. MaxFrame + 1 /\ newest \in 0 .. MaxFrame + 1
    BY DEF TypeOK
  <2>3. len' = AtLeast(len, from.frame + 1)
    BY <1>2 DEF LenWith
  <2> QED
    BY <1>2, <2>1, <2>2, <2>3, AtLeastType
<1>5. confirmed' \in 0 .. MaxFrame + 1
  <2>1. PICK c \in confirmed .. len' : confirmed' = c
    BY <1>2 DEF AdvanceConfirmed
  <2> QED
    BY <1>4, <2>1, ConstantsAssumption DEF TypeOK
<1>6. row[Self] \in Keys
  BY ConstantsAssumption, NumPeersAssumption DEF Players, Peers
<1>7. ring' \in [0 .. Depth - 1 -> Snapshots \cup {NoSnapshot}]
  <2>1. [frame |-> from.frame, mem |-> fed, frameCount |-> from.frameCount, keysDown |-> row[Self]]
          \in Snapshots
    BY <1>3, <1>6 DEF Snapshots
  <2>2. from.frame % Depth \in 0 .. Depth - 1
    BY <1>3, RingIndex DEF Frames
  <2> QED
    BY <1>2, <2>1, <2>2 DEF SaveTo, TypeOK
<1>8. render' \in BOOLEAN
  BY <1>2 DEF RenderFrom, TypeOK
<1>9. keys' \in [Frames -> [Peers -> Keys]]
  BY <1>2, <1>3 DEF TypeOK
<1> QED
  BY <1>2, <1>3, <1>4, <1>5, <1>6, <1>7, <1>8, <1>9 DEF TypeOK

(* Every step keeps the types.                                             *)
LEMMA NextType == TypeOK /\ [Next]_vars => TypeOK'
<1> SUFFICES ASSUME TypeOK, [Next]_vars PROVE TypeOK'
  OBVIOUS
<1>1. CASE PresentFrame
  <2>1. CASE PortRbFrame
    BY <1>1, <2>1, PortRbFrameType DEF PresentFrame
  <2>2. CASE ~PortRbFrame
    BY <1>1, <2>2 DEF PresentFrame, TypeOK, timeline, slotting, session, machine, history
  <2> QED
    BY <2>1, <2>2
<1>2. CASE \E host \in Keys : RunFrame(host)
  BY <1>2, RunFrameType
<1>3. CASE Boot \/ Attach
  BY <1>3, PortRbInitType DEF Boot, Attach
<1>4. CASE Close
  BY <1>4, PortRbShutdownType DEF Close
<1>5. CASE LocalInput
  BY <1>5, SetLocalInputType DEF LocalInput
<1>6. CASE PeerInput
  <2>1. PICK p \in Peers, f \in Frames, k \in Keys : PortRbConfirmInput(p, f, k)
    BY <1>6, ConstantsAssumption DEF PeerInput
  <2> QED
    BY <2>1, ConfirmInputType
<1>7. CASE Schedule
  BY <1>7, ScheduleType DEF Schedule, Frames
<1>8. CASE UNCHANGED vars
  BY <1>8 DEF vars, TypeOK, timeline, slotting, session, machine, history
<1> QED
  BY <1>1, <1>2, <1>3, <1>4, <1>5, <1>6, <1>7, <1>8 DEF Next, AtBound

(* Whatever is delivered, reported, scheduled, closed or restarted, every  *)
(* variable of the engine keeps its type: no index leaves its array.       *)
THEOREM TypeCorrect == Spec => []TypeOK
BY InitType, NextType, PTL DEF Spec

(* --- the ring and the frame numbers ------------------------------------- *)

(* The engine is one frame ahead of the game between the hook and the game *)
(* frame it prepared.                                                      *)
Ahead == IF phase = "await" THEN 1 ELSE 0

(* What a snapshot in the ring is: in its slot, of this session, and as    *)
(* far from the frame counter it holds as the engine is from the game's.   *)
WellHeld(snap, i) ==
  /\ snap.frame % Depth = i
  /\ base <= snap.frame
  /\ snap.frame - snap.frameCount = sFrame - frameCount - Ahead
  /\ Len(snap.mem.hist) = snap.frameCount

RingInv ==
  /\ base <= sFrame
  /\ Len(mem.hist) = frameCount
  /\ ~active => ring = EmptyRing
  /\ \A i \in 0 .. Depth - 1 : ring[i].frame # -1 => WellHeld(ring[i], i)

(* A slot that is not empty holds a snapshot. *)
LEMMA HeldIsSnapshot ==
  ASSUME TypeOK, NEW i \in 0 .. Depth - 1, ring[i].frame # -1
  PROVE  ring[i] \in Snapshots
BY DEF TypeOK, NoSnapshot

(* The frame a hook runs starts at a point the ring invariant speaks of. *)
LEMMA StartsWell ==
  ASSUME TypeOK, RingInv, phase = "hook", StartingPoint.frame \in Frames
  PROVE  /\ base <= StartingPoint.frame
         /\ StartingPoint.frame - StartingPoint.frameCount = sFrame - frameCount
         /\ Len(StartingPoint.mem.hist) = StartingPoint.frameCount
<1>1. CASE catchUp = "asked"
  <2>1. catchUpTo % Depth \in 0 .. Depth - 1
    BY RingIndex DEF TypeOK, Frames
  <2>2. Entry(catchUpTo).frame # -1
    BY <1>1 DEF StartingPoint, Frames
  <2>3. Entry(catchUpTo) \in Snapshots
    BY <2>1, <2>2, HeldIsSnapshot DEF Entry
  <2>4. WellHeld(Entry(catchUpTo), catchUpTo % Depth)
    BY <2>1, <2>2 DEF RingInv, Entry
  <2> QED
    BY <1>1, <2>3, <2>4 DEF StartingPoint, WellHeld, Ahead, Snapshots, Frames, TypeOK
<1>2. CASE catchUp # "asked"
  BY <1>2 DEF StartingPoint, Here, RingInv, TypeOK
<1> QED
  BY <1>1, <1>2

(* The hook keeps the ring well held.                                      *)
LEMMA RingInvHook ==
  ASSUME TypeOK, RingInv, phase = "hook", phase' = "await", PortRbFrame
  PROVE  RingInv'
<1>1. PICK from \in Snapshots, row \in [Peers -> Keys], fed \in Memory : Simulated(from, row, fed)
  BY SimulatedFrame
<1>2. /\ from = StartingPoint /\ active /\ fed.hist = from.mem.hist
      /\ mem' = fed /\ frameCount' = from.frameCount /\ sFrame' = from.frame + 1
      /\ ring' = SaveTo([frame |-> from.frame, mem |-> fed, frameCount |-> from.frameCount,
                         keysDown |-> row[Self]])
      /\ active' = active /\ base' = base
  BY <1>1 DEF Simulated
<1>3. /\ base <= from.frame /\ from.frame - from.frameCount = sFrame - frameCount
      /\ Len(from.mem.hist) = from.frameCount
  BY <1>2, StartsWell DEF PortRbFrame
<1>4. from.frame \in Nat /\ from.frameCount \in Nat
  BY DEF Snapshots, Frames
<1>5. sFrame \in Int /\ frameCount \in Int /\ base \in Int
  BY ConstantsAssumption DEF TypeOK, Frames
<1>6. base' <= sFrame' /\ Len(mem'.hist) = frameCount'
  <2>1. base' <= sFrame'
    BY <1>2, <1>3, <1>4, <1>5
  <2>2. Len(mem'.hist) = frameCount'
    BY <1>2, <1>3
  <2> QED
    BY <2>1, <2>2
<1>7. ASSUME NEW i \in 0 .. Depth - 1, ring'[i].frame # -1
      PROVE  WellHeld(ring[i], i)'
  <2>1. CASE i = from.frame % Depth
    <3>1. /\ ring'[i].frame = from.frame /\ ring'[i].mem = fed
          /\ ring'[i].frameCount = from.frameCount
      BY <1>2, <2>1 DEF SaveTo, TypeOK
    <3>2. ring'[i].frame % Depth = i /\ base' <= ring'[i].frame
      BY <1>2, <1>3, <2>1, <3>1
    <3>3. ring'[i].frame - ring'[i].frameCount = sFrame' - frameCount' - Ahead'
      BY <1>2, <1>4, <3>1 DEF Ahead
    <3>4. Len(ring'[i].mem.hist) = ring'[i].frameCount
      BY <1>2, <1>3, <3>1
    <3> QED
      BY <3>2, <3>3, <3>4 DEF WellHeld
  <2>2. CASE i # from.frame % Depth
    <3>1. ring'[i] = ring[i]
      BY <1>2, <2>2 DEF SaveTo, TypeOK
    <3>2. WellHeld(ring[i], i) /\ ring[i] \in Snapshots
      BY <1>7, <3>1, HeldIsSnapshot DEF RingInv
    <3>3. ring[i].frame \in Int /\ ring[i].frameCount \in Int
      BY <3>2, ConstantsAssumption DEF Snapshots, Frames
    <3>4. ring[i].frame - ring[i].frameCount = sFrame - frameCount
      BY <1>5, <3>2 DEF WellHeld, Ahead
    <3>5. ring[i].frame - ring[i].frameCount = from.frame - from.frameCount
      BY <1>3, <3>4
    <3>6. ring[i].frame - ring[i].frameCount = (from.frame + 1) - from.frameCount - 1
      BY <1>4, <3>3, <3>5, OriginKept
    <3>7. ring'[i].frame - ring'[i].frameCount = sFrame' - frameCount' - Ahead'
      BY <1>2, <3>1, <3>6 DEF Ahead
    <3> QED
      BY <1>2, <3>1, <3>2, <3>7 DEF WellHeld
  <2> QED
    BY <2>1, <2>2
<1> QED
  BY <1>2, <1>6, <1>7 DEF RingInv

(* Running a frame keeps the ring well held.                               *)
LEMMA RingInvRun ==
  ASSUME TypeOK, RingInv, NEW host \in Keys, RunFrame(host)
  PROVE  RingInv'
<1>1. Len(mem'.hist) = frameCount + 1 /\ frameCount' = frameCount + 1
  <2> DEFINE consumed == [held |-> mem.held, pressed |-> mem.pressed, released |-> mem.released,
                          count |-> mem.count, pad |-> UpdateKeyInput(host)]
  <2>1. consumed \in Inputs
    BY KeyInputType DEF RunFrame, Inputs, TypeOK, Memory
  <2>2. mem'.hist = Append(mem.hist, consumed)
    BY DEF RunFrame, TypeOK, Memory
  <2> HIDE DEF consumed
  <2> QED
    BY <2>1, <2>2 DEF RunFrame, RingInv, TypeOK, Memory
<1>2. ASSUME NEW i \in 0 .. Depth - 1, ring'[i].frame # -1
      PROVE  WellHeld(ring[i], i)'
  <2>1. ring' = ring /\ base' = base /\ sFrame' = sFrame /\ phase = "await" /\ phase' = "hook"
    BY DEF RunFrame, session, history
  <2>2. WellHeld(ring[i], i)
    BY <1>2, <2>1 DEF RingInv
  <2>3. sFrame - frameCount - Ahead = sFrame' - frameCount' - Ahead'
    BY <1>1, <2>1 DEF Ahead, TypeOK
  <2> QED
    BY <2>1, <2>2, <2>3 DEF WellHeld
<1> QED
  BY <1>1, <1>2 DEF RingInv, RunFrame, session, history

(* Every step keeps the ring well held.                                    *)
LEMMA RingInvStep == TypeOK /\ RingInv /\ [Next]_vars => RingInv'
<1> SUFFICES ASSUME TypeOK, RingInv, [Next]_vars PROVE RingInv'
  OBVIOUS
<1>1. CASE PresentFrame
  <2>1. CASE PortRbFrame
    BY <1>1, <2>1, RingInvHook DEF PresentFrame
  <2>2. CASE ~PortRbFrame
    <3>1. ~active /\ UNCHANGED <<ring, base, sFrame, frameCount, mem, active>>
      BY <1>1, <2>2 DEF PresentFrame, session, machine, history
    <3>2. \A i \in 0 .. Depth - 1 : ring'[i].frame = -1
      BY <3>1 DEF RingInv, EmptyRing, NoSnapshot
    <3> QED
      BY <3>1, <3>2 DEF RingInv
  <2> QED
    BY <2>1, <2>2
<1>2. CASE \E host \in Keys : RunFrame(host)
  BY <1>2, RingInvRun
<1>3. CASE PortRbInit
  BY <1>3 DEF PortRbInit, ClearedRing, EmptyRing, NoSnapshot, RingInv, machine, TypeOK
<1>4. CASE PortRbShutdown
  BY <1>4 DEF PortRbShutdown, EmptyRing, NoSnapshot, RingInv, machine, history
<1>5. CASE UNCHANGED <<ring, base, sFrame, frameCount, mem, active, phase>>
  BY <1>5 DEF RingInv, WellHeld, Ahead
<1> QED
  BY <1>1, <1>2, <1>3, <1>4, <1>5
  DEF Next, Boot, Attach, Close, LocalInput, PeerInput, Schedule, AtBound, vars,
      PortRbSetLocalInput, PortRbConfirmInput, PortRbScheduleEvent, session, machine, history

(* The ring is well held at first.                                         *)
LEMMA RingInvInit == Init => RingInv
<1> SUFFICES ASSUME Init PROVE RingInv
  OBVIOUS
<1>1. Len(BootMemory.hist) = 0
  BY DEF BootMemory
<1> QED
  BY <1>1 DEF Init, RingInv, EmptyRing, NoSnapshot

(* Types and ring invariant hold always.                                   *)
LEMMA RingInvAlways == Spec => [](TypeOK /\ RingInv)
<1>1. TypeOK /\ RingInv /\ [Next]_vars => (TypeOK /\ RingInv)'
  BY NextType, RingInvStep
<1> QED
  BY InitType, RingInvInit, <1>1, PTL DEF Spec

(* --- safety ------------------------------------------------------------- *)

(* The rollback that is asked for can always be done: LoadFrom never finds *)
(* the slot reused, whatever was confirmed between the asking and the hook *)
(* (PortRbConfirmInput's late and held tests are enough).                  *)
THEOREM TargetIsHeld == Spec => []RollbackTargetHeld
<1>1. Init => RollbackTargetHeld
  BY DEF Init, RollbackTargetHeld
<1>2. TypeOK /\ RollbackTargetHeld /\ [Next]_vars => RollbackTargetHeld'
  <2> SUFFICES ASSUME TypeOK, RollbackTargetHeld, [Next]_vars PROVE RollbackTargetHeld'
    OBVIOUS
  <2>1. CASE PresentFrame
    <3>1. CASE PortRbFrame
      BY <3>1, SimulatedFrame DEF RollbackTargetHeld, Simulated
    <3>2. CASE UNCHANGED <<catchUp, catchUpTo, sFrame, ring>>
      BY <3>2 DEF RollbackTargetHeld, Entry
    <3> QED
      BY <2>1, <3>1, <3>2 DEF PresentFrame, session
  <2>2. CASE PortRbInit \/ PortRbShutdown
    BY <2>2 DEF PortRbInit, PortRbShutdown, RollbackTargetHeld
  <2>3. ASSUME NEW p \in Peers, NEW f \in Frames, NEW k \in Keys, PortRbConfirmInput(p, f, k)
        PROVE  RollbackTargetHeld'
    <3>1. UNCHANGED <<sFrame, ring>>
      BY <2>3 DEF PortRbConfirmInput
    <3>2. CASE UNCHANGED <<catchUp, catchUpTo>>
      BY <3>1, <3>2 DEF RollbackTargetHeld, Entry
    <3>3. CASE ~UNCHANGED <<catchUp, catchUpTo>>
      <4>1. catchUpTo' = f /\ f < sFrame /\ Entry(f).frame = f /\ ~TooLate(f)
        BY <2>3, <3>3 DEF PortRbConfirmInput, InRing
      <4>2. sFrame - f < Depth
        BY <4>1, ConstantsAssumption DEF TooLate, Frames, TypeOK
      <4> QED
        BY <3>1, <4>1, <4>2 DEF RollbackTargetHeld, Entry
    <3> QED
      BY <3>2, <3>3
  <2>4. CASE UNCHANGED <<catchUp, catchUpTo, sFrame, ring>>
    BY <2>4 DEF RollbackTargetHeld, Entry
  <2> QED
    BY <2>1, <2>2, <2>3, <2>4, ConstantsAssumption
    DEF Next, RunFrame, Boot, Attach, Close, LocalInput, PeerInput, Schedule, AtBound, vars,
        PortRbSetLocalInput, PortRbScheduleEvent, session
<1> QED
  BY InitType, NextType, <1>1, <1>2, PTL DEF Spec

(* No peer ever drives two Kirbys: the loop over the events keeps the map  *)
(* one to one even where a rollback applies events a second time.          *)
THEOREM NoPeerDrivesTwo == Spec => []OneSlotPerPeer
<1>1. Injective(FirstSlotMap(0)) /\ Injective(FirstSlotMap(NumPlayers))
  BY ConstantsAssumption, NumPeersAssumption DEF Injective, FirstSlotMap, AI, Slots, Peers
<1>2. Init => OneSlotPerPeer
  BY <1>1 DEF Init, OneSlotPerPeer
<1>3. TypeOK /\ OneSlotPerPeer /\ [Next]_vars => OneSlotPerPeer'
  <2> SUFFICES ASSUME TypeOK, Injective(slotPeer), [Next]_vars PROVE Injective(slotPeer')
    BY DEF OneSlotPerPeer, Injective
  <2>1. CASE PortRbFrame
    <3>1. PICK f : slotPeer' = SlotMapAfter(slotPeer, events, f)
      BY <2>1, SimulatedFrame DEF Simulated
    <3> QED
      BY <3>1, SlotMapAfterInjective DEF TypeOK
  <2>2. CASE PortRbInit
    BY <1>1, <2>2 DEF PortRbInit
  <2>3. CASE slotPeer' = slotPeer
    BY <2>3
  <2> QED
    BY <2>1, <2>2, <2>3
    DEF Next, PresentFrame, RunFrame, Boot, Attach, Close, LocalInput, PeerInput, Schedule, AtBound,
        vars, PortRbShutdown, PortRbSetLocalInput, PortRbConfirmInput, PortRbScheduleEvent, slotting
<1> QED
  BY InitType, NextType, <1>2, <1>3, PTL DEF Spec

(* sConfirmed is what it says, so long as the late words come from players *)
(* of the session; see NeverRollsBackConfirmed.                            *)
LEMMA ConfirmedStep == TypeOK /\ ConfirmedIsKnown /\ [Next]_vars => ConfirmedIsKnown'
<1> SUFFICES ASSUME TypeOK, ConfirmedIsKnown, [Next]_vars PROVE ConfirmedIsKnown'
  OBVIOUS
<1>1. CASE PortRbFrame
  <2>1. PICK upTo : AdvanceConfirmed(upTo) /\ active /\ UNCHANGED <<known, base>>
    BY <1>1, SimulatedFrame DEF Simulated
  <2>2. PICK c \in confirmed .. upTo : confirmed' = c /\ \A f \in confirmed .. c - 1 : KnownToAll(f)
    BY <2>1 DEF AdvanceConfirmed
  <2>3. \A f \in base .. confirmed - 1 : KnownToAll(f)
    BY <2>1 DEF ConfirmedIsKnown
  <2>4. \A f \in base .. confirmed' - 1 : KnownToAll(f)
    BY <2>2, <2>3 DEF TypeOK, Frames
  <2> QED
    BY <2>1, <2>4 DEF ConfirmedIsKnown, KnownToAll
<1>2. CASE PortRbInit
  BY <1>2 DEF PortRbInit, ConfirmedIsKnown, TypeOK
<1>3. CASE PortRbShutdown
  BY <1>3 DEF PortRbShutdown, ConfirmedIsKnown
<1>4. ASSUME NEW p \in Peers, NEW f \in Frames, known' = [known EXCEPT ![f][p] = TRUE],
             UNCHANGED <<active, confirmed, base>>
      PROVE  ConfirmedIsKnown'
  <2>1. \A g \in Frames, q \in Peers : known[g][q] => known'[g][q]
    BY <1>4 DEF TypeOK
  <2>2. \A g \in base .. confirmed - 1 : g \in Frames
    BY ConstantsAssumption DEF TypeOK, Frames
  <2>3. Players \subseteq Peers
    BY ConstantsAssumption, NumPeersAssumption DEF Players, Peers
  <2> QED
    BY <1>4, <2>1, <2>2, <2>3 DEF ConfirmedIsKnown, KnownToAll
<1>5. CASE UNCHANGED <<known, active, confirmed, base>>
  BY <1>5 DEF ConfirmedIsKnown, KnownToAll
<1>6. ASSUME LocalInput PROVE ConfirmedIsKnown'
  <2>1. Self \in Peers
    BY ConstantsAssumption, NumPeersAssumption DEF Players, Peers
  <2> QED
    BY <1>4, <1>6, <2>1 DEF LocalInput, PortRbSetLocalInput, session, history
<1>7. ASSUME PeerInput PROVE ConfirmedIsKnown'
  BY <1>4, <1>7, ConstantsAssumption DEF PeerInput, PortRbConfirmInput, history
<1> QED
  BY <1>1, <1>2, <1>3, <1>5, <1>6, <1>7
  DEF Next, PresentFrame, RunFrame, Boot, Attach, Close, Schedule, AtBound, vars,
      PortRbScheduleEvent, timeline, session, history

(* No rollback reaches a frame every player has agreed on, provided only   *)
(* players of the session are confirmed for: confirming for a later peer,  *)
(* which nothing refuses, can roll back a frame that was reported final.   *)
THEOREM AgreedFramesStay ==
  ASSUME Confirmers \subseteq Players
  PROVE  Spec => []NeverRollsBackConfirmed
<1> DEFINE Inv == TypeOK /\ RingInv /\ ConfirmedIsKnown /\ NeverRollsBackConfirmed
<1>1. Init => Inv
  BY InitType, RingInvInit DEF Init, ConfirmedIsKnown, NeverRollsBackConfirmed
<1>2. Inv /\ [Next]_vars => NeverRollsBackConfirmed'
  <2> SUFFICES ASSUME TypeOK, RingInv, ConfirmedIsKnown, NeverRollsBackConfirmed, [Next]_vars
               PROVE  NeverRollsBackConfirmed'
    OBVIOUS
  <2>1. CASE PortRbFrame
    BY <2>1, SimulatedFrame DEF NeverRollsBackConfirmed, Simulated
  <2>2. CASE PortRbInit \/ PortRbShutdown
    BY <2>2 DEF PortRbInit, PortRbShutdown, NeverRollsBackConfirmed
  <2>3. ASSUME NEW p \in Players, NEW f \in Frames, NEW k \in Keys, PortRbConfirmInput(p, f, k)
        PROVE  NeverRollsBackConfirmed'
    <3>1. CASE UNCHANGED <<catchUp, catchUpTo>>
      BY <2>3, <3>1 DEF NeverRollsBackConfirmed, PortRbConfirmInput
    <3>2. CASE ~UNCHANGED <<catchUp, catchUpTo>>
      <4>1. catchUpTo' = f /\ confirmed' = confirmed /\ InRing(f) /\ ~known[f][p] /\ active
        BY <2>3, <3>2 DEF PortRbConfirmInput, Duplicate
      <4>2. base <= f
        <5>1. f % Depth \in 0 .. Depth - 1 /\ f # -1
          BY RingIndex DEF Frames
        <5> QED
          BY <4>1, <5>1 DEF InRing, Entry, RingInv, WellHeld
      <4>3. f \notin base .. confirmed - 1
        BY <4>1 DEF ConfirmedIsKnown, KnownToAll
      <4>4. confirmed <= f
        BY <4>2, <4>3 DEF TypeOK, Frames
      <4> QED
        BY <4>1, <4>4 DEF NeverRollsBackConfirmed
    <3> QED
      BY <3>1, <3>2
  <2>4. CASE UNCHANGED <<catchUp, catchUpTo, confirmed>>
    BY <2>4 DEF NeverRollsBackConfirmed
  <2> QED
    BY <2>1, <2>2, <2>3, <2>4
    DEF Next, PresentFrame, RunFrame, Boot, Attach, Close, LocalInput, PeerInput, Schedule, AtBound,
        vars, PortRbSetLocalInput, PortRbScheduleEvent, session
<1>3. Inv /\ [Next]_vars => Inv'
  BY <1>2, NextType, RingInvStep, ConfirmedStep
<1> QED
  BY <1>1, <1>3, PTL DEF Spec

(* --- the history behind the snapshots ----------------------------------- *)

(* A prefix of a prefix is a prefix.                                       *)
LEMMA PrefixOfPrefix ==
  ASSUME NEW S, NEW s \in Seq(S), NEW m \in 0 .. Len(s), NEW n \in 0 .. m
  PROVE  SubSeq(SubSeq(s, 1, m), 1, n) = SubSeq(s, 1, n)
OBVIOUS

(* A prefix stays one when the sequence grows.                             *)
LEMMA PrefixOfAppend ==
  ASSUME NEW S, NEW s \in Seq(S), NEW x \in S, NEW n \in 0 .. Len(s)
  PROVE  SubSeq(Append(s, x), 1, n) = SubSeq(s, 1, n)
OBVIOUS

(* A sequence is a prefix of itself.                                       *)
LEMMA WholeIsPrefix ==
  ASSUME NEW S, NEW s \in Seq(S)
  PROVE  SubSeq(s, 1, Len(s)) = s
OBVIOUS

PrefixOfNow(snap) ==
  /\ Len(snap.mem.hist) <= Len(mem.hist)
  /\ snap.mem.hist = SubSeq(mem.hist, 1, Len(snap.mem.hist))

(* The hook, rolling back or not, leaves only snapshots on the history.    *)
LEMMA OnHistoryHook ==
  ASSUME TypeOK, RingInv, RollbackTargetHeld, SnapshotsOnHistory,
         phase = "hook", phase' = "await", PortRbFrame
  PROVE  SnapshotsOnHistory'
<1>1. PICK from \in Snapshots, row \in [Peers -> Keys], fed \in Memory : Simulated(from, row, fed)
  BY SimulatedFrame
<1>2. /\ from = StartingPoint /\ fed.hist = from.mem.hist
      /\ mem' = fed /\ sFrame' = from.frame + 1
      /\ ring' = SaveTo([frame |-> from.frame, mem |-> fed, frameCount |-> from.frameCount,
                         keysDown |-> row[Self]])
  BY <1>1 DEF Simulated
<1>3. /\ from.frame - from.frameCount = sFrame - frameCount
      /\ Len(from.mem.hist) = from.frameCount
  BY <1>2, StartsWell DEF PortRbFrame
<1>4. from.frame \in Nat /\ from.frameCount \in Nat /\ from.mem.hist \in Seq(Inputs)
  BY DEF Snapshots, Frames, Memory
<1>5. from.frame % Depth \in 0 .. Depth - 1
  BY <1>4, RingIndex
<1>6. from.frame <= sFrame
  <2>1. CASE catchUp = "asked"
    <3>1. from.frame = catchUpTo /\ catchUpTo < sFrame
      BY <1>2, <2>1 DEF StartingPoint, RollbackTargetHeld
    <3> QED
      BY <3>1 DEF TypeOK, Frames
  <2>2. CASE catchUp # "asked"
    BY <1>2, <2>2 DEF StartingPoint, Here, TypeOK
  <2> QED
    BY <2>1, <2>2
<1>7. PrefixOfNow(from)
  <2>1. CASE catchUp = "asked"
    <3>1. from = Entry(catchUpTo) /\ Entry(catchUpTo).frame = catchUpTo /\ catchUpTo < sFrame
      BY <1>2, <2>1 DEF StartingPoint, RollbackTargetHeld
    <3>2. catchUpTo % Depth \in DOMAIN ring /\ catchUpTo # -1
      BY RingIndex DEF TypeOK, Frames
    <3> QED
      BY <3>1, <3>2 DEF SnapshotsOnHistory, PrefixOfNow, Entry
  <2>2. CASE catchUp # "asked"
    <3>1. from.mem = mem /\ mem.hist \in Seq(Inputs)
      BY <1>2, <2>2 DEF StartingPoint, Here, TypeOK, Memory
    <3> QED
      BY <3>1, WholeIsPrefix DEF PrefixOfNow
  <2> QED
    BY <2>1, <2>2
<1>8. ASSUME NEW i \in DOMAIN ring', ring'[i].frame # -1, ring'[i].frame < sFrame'
      PROVE  PrefixOfNow(ring[i])'
  <2>1. i \in 0 .. Depth - 1
    BY <1>2, <1>8 DEF SaveTo, TypeOK
  <2>2. CASE i = from.frame % Depth
    <3>1. ring'[i].mem = fed
      BY <1>2, <2>1, <2>2 DEF SaveTo, TypeOK
    <3> QED
      BY <1>2, <1>4, <3>1, WholeIsPrefix DEF PrefixOfNow
  <2>3. CASE i # from.frame % Depth
    <3>1. ring'[i] = ring[i]
      BY <1>2, <2>1, <2>3 DEF SaveTo, TypeOK
    <3>2. WellHeld(ring[i], i) /\ ring[i] \in Snapshots
      BY <1>8, <2>1, <3>1, HeldIsSnapshot DEF RingInv
    <3>3. ring[i].frame < from.frame /\ ring[i].frame < sFrame
      <4>1. ring[i].frame \in Nat /\ sFrame \in Nat
        BY <3>2, ConstantsAssumption DEF Snapshots, Frames, TypeOK
      <4>2. ring[i].frame # from.frame
        BY <2>3, <3>2 DEF WellHeld
      <4>3. ring[i].frame < from.frame + 1
        BY <1>2, <1>8, <3>1
      <4> QED
        BY <1>4, <1>6, <4>1, <4>2, <4>3
    <3>4. PrefixOfNow(ring[i])
      BY <1>8, <2>1, <3>1, <3>3 DEF SnapshotsOnHistory, PrefixOfNow, TypeOK
    <3>5. Len(ring[i].mem.hist) \in 0 .. Len(from.mem.hist)
      <4>1. /\ ring[i].frame \in Int /\ ring[i].frameCount \in Nat
            /\ sFrame \in Int /\ frameCount \in Int
        BY <3>2, ConstantsAssumption DEF Snapshots, Frames, TypeOK
      <4>2. /\ ring[i].frame - ring[i].frameCount = sFrame - frameCount
            /\ Len(ring[i].mem.hist) = ring[i].frameCount
        BY <3>2, <4>1 DEF WellHeld, Ahead
      <4>3. ring[i].frame - ring[i].frameCount = from.frame - from.frameCount
        BY <1>3, <4>2
      <4>4. ring[i].frameCount \in 0 .. from.frameCount
        BY <1>4, <3>3, <4>1, <4>3, SameOrigin
      <4> QED
        BY <1>3, <4>2, <4>4
    <3>6. SubSeq(SubSeq(mem.hist, 1, Len(from.mem.hist)), 1, Len(ring[i].mem.hist))
            = SubSeq(mem.hist, 1, Len(ring[i].mem.hist))
      <4>1. Len(from.mem.hist) \in 0 .. Len(mem.hist) /\ mem.hist \in Seq(Inputs)
        BY <1>4, <1>7 DEF PrefixOfNow, TypeOK, Memory
      <4> QED
        BY <3>5, <4>1, PrefixOfPrefix
    <3>7. mem'.hist = SubSeq(mem.hist, 1, Len(from.mem.hist))
      BY <1>2, <1>7 DEF PrefixOfNow
    <3>8. Len(mem'.hist) = Len(from.mem.hist)
      BY <1>2
    <3> QED
      BY <3>1, <3>4, <3>5, <3>6, <3>7, <3>8 DEF PrefixOfNow
  <2> QED
    BY <2>2, <2>3
<1> QED
  BY <1>8 DEF SnapshotsOnHistory, PrefixOfNow

(* A frame that is run extends the history the snapshots are on.           *)
LEMMA OnHistoryRun ==
  ASSUME TypeOK, SnapshotsOnHistory, NEW host \in Keys, RunFrame(host)
  PROVE  SnapshotsOnHistory'
<1> DEFINE consumed == [held |-> mem.held, pressed |-> mem.pressed, released |-> mem.released,
                        count |-> mem.count, pad |-> UpdateKeyInput(host)]
<1>1. consumed \in Inputs
  BY KeyInputType DEF RunFrame, Inputs, TypeOK, Memory
<1>2. mem'.hist = Append(mem.hist, consumed) /\ mem.hist \in Seq(Inputs)
  BY DEF RunFrame, TypeOK, Memory
<1>3. ring' = ring /\ sFrame' = sFrame
  BY DEF RunFrame, session
<1> HIDE DEF consumed
<1>4. ASSUME NEW i \in DOMAIN ring, ring[i].frame # -1, ring[i].frame < sFrame
      PROVE  /\ Len(ring[i].mem.hist) <= Len(mem'.hist)
             /\ ring[i].mem.hist = SubSeq(mem'.hist, 1, Len(ring[i].mem.hist))
  <2>1. PrefixOfNow(ring[i])
    BY <1>4 DEF SnapshotsOnHistory, PrefixOfNow
  <2>2. Len(ring[i].mem.hist) \in 0 .. Len(mem.hist)
    <3>1. ring[i] \in Snapshots
      BY <1>4, HeldIsSnapshot DEF TypeOK
    <3> QED
      BY <2>1, <3>1, <1>2 DEF PrefixOfNow, Snapshots, Memory
  <2>3. SubSeq(mem'.hist, 1, Len(ring[i].mem.hist)) = SubSeq(mem.hist, 1, Len(ring[i].mem.hist))
    BY <1>1, <1>2, <2>2, PrefixOfAppend
  <2> QED
    BY <1>1, <1>2, <2>1, <2>2, <2>3 DEF PrefixOfNow
<1> QED
  BY <1>3, <1>4 DEF SnapshotsOnHistory

(* A rollback never goes to an abandoned history: every snapshot of a frame *)
(* already passed is of the run the game is on, so restoring it and running *)
(* the frames again rejoins that run.                                       *)
THEOREM SnapshotsBelongHere == Spec => []SnapshotsOnHistory
<1>1. Init => SnapshotsOnHistory
  BY DEF Init, SnapshotsOnHistory, EmptyRing, NoSnapshot
<1>2. TypeOK /\ RingInv /\ RollbackTargetHeld /\ SnapshotsOnHistory /\ [Next]_vars => SnapshotsOnHistory'
  <2> SUFFICES ASSUME TypeOK, RingInv, RollbackTargetHeld, SnapshotsOnHistory, [Next]_vars
               PROVE  SnapshotsOnHistory'
    OBVIOUS
  <2>1. CASE PresentFrame /\ PortRbFrame
    BY <2>1, OnHistoryHook DEF PresentFrame
  <2>2. CASE \E host \in Keys : RunFrame(host)
    BY <2>2, OnHistoryRun
  <2>3. CASE PortRbInit \/ PortRbShutdown
    <3>1. ring' = EmptyRing
      BY <2>3 DEF PortRbInit, PortRbShutdown, ClearedRing
    <3>2. \A i \in DOMAIN EmptyRing : EmptyRing[i].frame = -1
      BY DEF EmptyRing, NoSnapshot
    <3> QED
      BY <3>1, <3>2 DEF SnapshotsOnHistory
  <2>4. CASE UNCHANGED <<ring, sFrame, mem>>
    BY <2>4 DEF SnapshotsOnHistory
  <2> QED
    BY <2>1, <2>2, <2>3, <2>4
    DEF Next, PresentFrame, Boot, Attach, Close, LocalInput, PeerInput, Schedule, AtBound, vars,
        PortRbSetLocalInput, PortRbConfirmInput, PortRbScheduleEvent, session, machine
<1> QED
  BY RingInvAlways, TargetIsHeld, <1>1, <1>2, PTL DEF Spec

(* --- the timeline and the game ------------------------------------------ *)

(* The engine and the game number the frames alike, rollbacks included, if *)
(* no session is attached from the await.                                  *)
THEOREM NumbersAgree ==
  ASSUME "attach" \notin Liberties
  PROVE  Spec => []FrameNumbersAgree
<1>1. Init => FrameNumbersAgree
  BY DEF Init, FrameNumbersAgree
<1>2. TypeOK /\ RingInv /\ FrameNumbersAgree /\ [Next]_vars => FrameNumbersAgree'
  <2> SUFFICES ASSUME TypeOK, RingInv, FrameNumbersAgree, [Next]_vars PROVE FrameNumbersAgree'
    OBVIOUS
  <2>1. CASE PresentFrame /\ PortRbFrame
    <3>1. PICK from \in Snapshots :
             from = StartingPoint /\ frameCount' = from.frameCount /\ sFrame' = from.frame + 1 /\ active
      BY <2>1, SimulatedFrame DEF Simulated
    <3>2. from.frame - from.frameCount = sFrame - frameCount
      BY <2>1, <3>1, StartsWell DEF PresentFrame, PortRbFrame
    <3>3. sFrame = frameCount
      BY <2>1, <3>1 DEF PresentFrame, FrameNumbersAgree, TypeOK
    <3>4. from.frame = from.frameCount
      BY <3>2, <3>3 DEF Snapshots, Frames, TypeOK
    <3> QED
      BY <2>1, <3>1, <3>4 DEF PresentFrame, FrameNumbersAgree
  <2>2. CASE PresentFrame /\ ~PortRbFrame
    BY <2>2 DEF PresentFrame, FrameNumbersAgree, session
  <2>3. CASE \E host \in Keys : RunFrame(host)
    BY <2>3 DEF RunFrame, FrameNumbersAgree, session, TypeOK
  <2>4. CASE Boot
    BY <2>4 DEF Boot, AtBoot, PortRbInit, FrameNumbersAgree, machine, TypeOK
  <2>5. CASE PortRbShutdown
    BY <2>5 DEF PortRbShutdown, FrameNumbersAgree
  <2>6. CASE UNCHANGED <<active, sFrame, frameCount, phase>>
    BY <2>6 DEF FrameNumbersAgree
  <2> QED
    BY <2>1, <2>2, <2>3, <2>4, <2>5, <2>6
    DEF Next, Attach, Close, LocalInput, PeerInput, Schedule, AtBound, vars,
        PortRbSetLocalInput, PortRbConfirmInput, PortRbScheduleEvent, session, machine
<1> QED
  BY RingInvAlways, <1>1, <1>2, PTL DEF Spec

(* The timeline reaches as far as the engine has simulated. *)
LenCovers == active => sFrame <= len

(* Every step keeps the timeline as long as the frames simulated.          *)
LEMMA LenStep == TypeOK /\ LenCovers /\ [Next]_vars => LenCovers'
<1> SUFFICES ASSUME TypeOK, LenCovers, [Next]_vars PROVE LenCovers'
  OBVIOUS
<1>1. CASE PortRbFrame
  <2>1. PICK from \in Snapshots : sFrame' = from.frame + 1 /\ len' = LenWith(from.frame)
    BY <1>1, SimulatedFrame DEF Simulated
  <2>2. from.frame + 1 \in 0 .. MaxFrame + 1 /\ MaxFrame + 1 \in Nat /\ len \in 0 .. MaxFrame + 1
    BY ConstantsAssumption DEF Snapshots, Frames, TypeOK
  <2> QED
    BY <2>1, <2>2, AtLeastType DEF LenCovers, LenWith
<1>2. CASE PortRbInit \/ PortRbShutdown
  BY <1>2 DEF PortRbInit, PortRbShutdown, LenCovers, TypeOK
<1>3. ASSUME NEW f \in Frames, len' = LenWith(f) \/ len' = len, UNCHANGED <<active, sFrame>>
      PROVE  LenCovers'
  <2>1. f + 1 \in 0 .. MaxFrame + 1 /\ MaxFrame + 1 \in Nat /\ len \in 0 .. MaxFrame + 1
    BY ConstantsAssumption DEF Frames, TypeOK
  <2>2. LenWith(f) \in Nat /\ len <= LenWith(f)
    <3>1. AtLeast(len, f + 1) \in 0 .. MaxFrame + 1 /\ len <= AtLeast(len, f + 1)
      BY <2>1, AtLeastType
    <3> QED
      BY <3>1 DEF LenWith
  <2>3. len \in Nat /\ sFrame \in Nat
    BY DEF TypeOK
  <2> QED
    BY <1>3, <2>2, <2>3 DEF LenCovers
<1>4. CASE UNCHANGED <<active, sFrame, len>>
  BY <1>4 DEF LenCovers
<1>5. ASSUME LocalInput PROVE LenCovers'
  BY <1>3, <1>5 DEF LocalInput, PortRbSetLocalInput, session
<1>6. ASSUME PeerInput PROVE LenCovers'
  BY <1>3, <1>6 DEF PeerInput, PortRbConfirmInput
<1> QED
  BY <1>1, <1>2, <1>4, <1>5, <1>6
  DEF Next, PresentFrame, RunFrame, Boot, Attach, Close, Schedule, AtBound, vars,
      PortRbScheduleEvent, timeline, session

(* What the game reads is the timeline and never the host, whatever the    *)
(* host is holding, if no session is attached from the await.              *)
THEOREM TimelineWins ==
  ASSUME "attach" \notin Liberties
  PROVE  Spec => TimelineDrivesTheLatch
<1>1. Init => LenCovers
  BY DEF Init, LenCovers
<1>2. TypeOK /\ LenCovers /\ FrameNumbersAgree /\ [Next]_vars
        => [(phase = "await" /\ phase' = "hook" /\ active /\ sFrame > base)
              => keysDown' = keys[sFrame - 1][Self]]_vars
  <2> SUFFICES ASSUME TypeOK, LenCovers, FrameNumbersAgree, [Next]_vars,
                      phase = "await", phase' = "hook", active
               PROVE  keysDown' = keys[sFrame - 1][Self]
    OBVIOUS
  <2>1. PICK host \in Keys : RunFrame(host)
    BY DEF Next, PresentFrame, Boot, Attach, Close, LocalInput, PeerInput, Schedule, AtBound, vars,
           AtBoot, PortRbInit, PortRbShutdown, PortRbSetLocalInput, PortRbConfirmInput, PortRbScheduleEvent
  <2>2. frameCount = sFrame - 1 /\ frameCount < len
    BY DEF FrameNumbersAgree, LenCovers, TypeOK
  <2> QED
    BY <2>1, <2>2 DEF RunFrame, UpdateKeyInput
<1> QED
  BY InitType, NextType, NumbersAgree, LenStep, <1>1, <1>2, PTL DEF Spec, TimelineDrivesTheLatch

(* A late word that disagrees with what was simulated always leads to a    *)
(* rollback at least that deep, if nothing is confirmed during a re-run.   *)
THEOREM DisagreementIsPutRight ==
  ASSUME "confirm" \notin Liberties
  PROVE  Spec => DisagreementRollsBack
<1> DEFINE Disagrees(f, p) == /\ ~known[f][p] /\ known'[f][p] /\ f < sFrame
                              /\ keys'[f][p] # keys[f][p] /\ InRing(f)
<1>1. TypeOK /\ [Next]_vars
        => [\A f \in Frames, p \in Peers : Disagrees(f, p) => catchUp' = "asked" /\ catchUpTo' <= f]_vars
  <2> SUFFICES ASSUME TypeOK, [Next]_vars, NEW f \in Frames, NEW p \in Peers, Disagrees(f, p)
               PROVE  catchUp' = "asked" /\ catchUpTo' <= f
    OBVIOUS
  <2>1. known' # known
    OBVIOUS
  <2>2. ~PortRbFrame
    <3>1. PortRbFrame => known' = known
      BY DEF PortRbFrame, Simulate
    <3> QED
      BY <2>1, <3>1
  <2>3. ~PortRbInit /\ ~PortRbShutdown
    BY DEF PortRbInit, PortRbShutdown, NoneKnown
  <2>4. ASSUME NEW k \in Keys, PortRbSetLocalInput(k) PROVE FALSE
    BY <2>4 DEF PortRbSetLocalInput, TypeOK, Frames
  <2>5. CASE PeerInput
    <3>1. PICK q \in Peers, g \in Frames, k \in Keys : PortRbConfirmInput(q, g, k)
      BY <2>5, ConstantsAssumption DEF PeerInput
    <3>2. catchUp # "resim"
      BY <2>5 DEF PeerInput
    <3>3. g = f /\ q = p
      BY <3>1 DEF PortRbConfirmInput, TypeOK
    <3>4. keys[f][p] # k
      BY <3>1, <3>3 DEF PortRbConfirmInput, TypeOK
    <3> QED
      BY <3>1, <3>2, <3>3, <3>4, ConstantsAssumption DEF PortRbConfirmInput, Deeper, TypeOK, Frames
  <2> QED
    BY <2>1, <2>2, <2>3, <2>4, <2>5
    DEF Next, PresentFrame, RunFrame, Boot, Attach, Close, LocalInput, Schedule, AtBound, vars,
        PortRbScheduleEvent, timeline
<1> QED
  BY InitType, NextType, <1>1, PTL DEF Spec, DisagreementRollsBack

(* Known words of simulated frames are never rewritten, if local input is  *)
(* reported once a frame and no session is attached over another.          *)
THEOREM HistoryStands ==
  ASSUME "input" \notin Liberties, "attach" \notin Liberties
  PROVE  Spec => HistoryIsAppendOnly
<1>1. TypeOK /\ [Next]_vars
        => [\A f \in Frames, p \in Peers :
              active /\ active' /\ f < newest /\ known[f][p] => keys'[f][p] = keys[f][p]]_vars
  <2> SUFFICES ASSUME TypeOK, [Next]_vars, NEW f \in Frames, NEW p \in Peers,
                      active, active', known[f][p]
               PROVE  keys'[f][p] = keys[f][p]
    OBVIOUS
  <2>1. CASE PortRbFrame
    <3>1. StartingPoint.frame \in Frames
      BY <2>1 DEF PortRbFrame
    <3>2. keys' = [keys EXCEPT ![StartingPoint.frame] = InputsFor(StartingPoint.frame)]
      BY <2>1 DEF PortRbFrame, Simulate
    <3> QED
      BY <3>1, <3>2 DEF InputsFor, TypeOK
  <2>2. CASE LocalInput
    <3>1. PICK k \in Keys : PortRbSetLocalInput(k) /\ sFrame \in Frames /\ ~known[sFrame][Self]
      BY <2>2 DEF LocalInput
    <3>2. ~(f = sFrame /\ p = Self)
      BY <3>1
    <3> QED
      BY <3>1, <3>2 DEF PortRbSetLocalInput, TypeOK
  <2>3. CASE PeerInput
    <3>1. PICK q \in Peers, g \in Frames, k \in Keys : PortRbConfirmInput(q, g, k)
      BY <2>3, ConstantsAssumption DEF PeerInput
    <3>2. ~(f = g /\ p = q)
      BY <3>1 DEF PortRbConfirmInput, Duplicate
    <3> QED
      BY <3>1, <3>2 DEF PortRbConfirmInput, TypeOK
  <2>4. ~PortRbShutdown /\ ~Boot
    BY DEF PortRbShutdown, Boot
  <2> QED
    BY <2>1, <2>2, <2>3, <2>4
    DEF Next, PresentFrame, RunFrame, Attach, Close, Schedule, AtBound, vars,
        PortRbScheduleEvent, timeline
<1> QED
  BY InitType, NextType, <1>1, PTL DEF Spec, HistoryIsAppendOnly

-----------------------------------------------------------------------------
(* WHAT A SESSION KEEPS OF LOCKSTEP: the game is always run on what the    *)
(* timeline says, and a session implements Lockstep.tla.                   *)

(* --- frames and slots of the ring --------------------------------------- *)

(* A number is its quotient and its remainder.                             *)
LEMMA DivMod ==
  ASSUME NEW d \in Nat \ {0}, NEW x \in Nat
  PROVE  x = d * (x \div d) + (x % d) /\ x \div d \in Int /\ x % d \in 0 .. d - 1
OBVIOUS

(* A positive multiple is at least what it is a multiple of.               *)
LEMMA Multiple ==
  ASSUME NEW d \in Nat \ {0}, NEW k \in Int, d * k > 0
  PROVE  d * k >= d
OBVIOUS

(* Two frames less than a ring apart have different slots.                 *)
LEMMA SlotsDiffer ==
  ASSUME NEW x \in Nat, NEW y \in Nat, x < y, y < x + Depth
  PROVE  x % Depth # y % Depth
<1> SUFFICES ASSUME x % Depth = y % Depth PROVE FALSE
  OBVIOUS
<1> DEFINE q == x \div Depth
           r == y \div Depth
<1>1. /\ x = Depth * q + (x % Depth) /\ q \in Int /\ x % Depth \in Int
      /\ y = Depth * r + (y % Depth) /\ r \in Int
  BY ConstantsAssumption, DivMod
<1> HIDE DEF q, r
<1>2. Depth \in Nat \ {0}
  BY ConstantsAssumption
<1>3. y - x = Depth * r - Depth * q
  BY <1>1, <1>2
<1>4. Depth * r - Depth * q = Depth * (r - q) /\ r - q \in Int
  BY <1>1, <1>2
<1>5. Depth * (r - q) > 0 /\ Depth * (r - q) < Depth
  BY <1>2, <1>3, <1>4
<1> QED
  BY <1>2, <1>4, <1>5, Multiple

(* --- the window: what the ring holds ------------------------------------ *)

(* The frames of the window, those a late word may still be delivered for, *)
(* all have their snapshot in the ring; only while frames are re-run is    *)
(* the engine behind the newest frame, and never by the whole ring.        *)
WindowHeld ==
  active =>
    /\ sFrame <= newest /\ newest <= len
    /\ newest < sFrame + Depth
    /\ catchUp # "resim" => sFrame = newest
    /\ \A g \in base .. newest - 1 : newest < g + Depth => Entry(g).frame = g

(* The hook keeps the window in the ring: the slot it fills is that of no  *)
(* other frame of the window.                                              *)
LEMMA WindowHook ==
  ASSUME TypeOK, RollbackTargetHeld, WindowHeld, PortRbFrame
  PROVE  WindowHeld'
<1>1. PICK from \in Snapshots, row \in [Peers -> Keys], fed \in Memory : Simulated(from, row, fed)
  BY SimulatedFrame
<1> DEFINE x == from.frame
<1>2. /\ active /\ from = StartingPoint /\ sFrame' = x + 1 /\ len' = LenWith(x)
      /\ newest' = AtLeast(newest, x + 1) /\ base' = base
      /\ ring' = SaveTo([frame |-> x, mem |-> fed, frameCount |-> from.frameCount,
                         keysDown |-> row[Self]])
  BY <1>1 DEF Simulated
<1>3. x \in Nat /\ sFrame \in Nat /\ newest \in Nat /\ len \in Nat /\ base \in Nat /\ Depth \in Nat \ {0}
  BY ConstantsAssumption DEF Snapshots, Frames, TypeOK
<1>4. /\ sFrame <= newest /\ newest <= len /\ newest < sFrame + Depth
      /\ catchUp # "resim" => sFrame = newest
  BY <1>2 DEF WindowHeld
<1>5. newest < x + Depth /\ x <= newest
  <2>1. CASE catchUp = "asked"
    <3>1. x = catchUpTo /\ catchUpTo < sFrame /\ sFrame - catchUpTo < Depth
      BY <1>2, <2>1 DEF StartingPoint, RollbackTargetHeld
    <3> QED
      BY <1>3, <1>4, <2>1, <3>1
  <2>2. CASE catchUp # "asked"
    BY <1>2, <1>4, <2>2 DEF StartingPoint, Here
  <2> QED
    BY <2>1, <2>2
<1>6. catchUp' = "resim" \/ (catchUp = "idle" /\ x = newest) \/ x >= len - 1
  <2>1. catchUp' = IF CaughtUp(x) \/ catchUp = "idle" THEN "idle" ELSE "resim"
    BY <1>2 DEF PortRbFrame, Simulate
  <2>2. catchUp = "idle" => x = newest
    BY <1>2, <1>4 DEF StartingPoint, Here
  <2> QED
    BY <2>1, <2>2 DEF CaughtUp
<1> HIDE DEF x
<1>7. newest' = IF newest >= x + 1 THEN newest ELSE x + 1
  BY <1>2 DEF AtLeast
<1>8. len' = IF len >= x + 1 THEN len ELSE x + 1
  BY <1>2 DEF LenWith, AtLeast
<1>9. sFrame' <= newest' /\ newest' <= len' /\ newest' < sFrame' + Depth
  BY <1>2, <1>3, <1>4, <1>5, <1>7, <1>8
<1>10. catchUp' # "resim" => sFrame' = newest'
  BY <1>2, <1>3, <1>4, <1>6, <1>7
<1>11. ASSUME NEW g \in base .. newest' - 1, newest' < g + Depth
       PROVE  ring'[g % Depth].frame = g
  <2>1. g \in Nat /\ g % Depth \in 0 .. Depth - 1 /\ x % Depth \in 0 .. Depth - 1
    BY <1>3, RingIndex
  <2>2. CASE g = x
    BY <1>2, <2>1, <2>2 DEF SaveTo, TypeOK
  <2>3. CASE g # x
    <3>1. g < newest /\ newest < g + Depth /\ g < x + Depth /\ x < g + Depth
      BY <1>3, <1>5, <1>7, <1>11, <2>1, <2>3
    <3>2. g < x \/ x < g
      BY <1>3, <2>1, <2>3
    <3>3. g % Depth # x % Depth
      BY <1>3, <2>1, <3>1, <3>2, SlotsDiffer
    <3>4. ring'[g % Depth] = ring[g % Depth]
      BY <1>2, <2>1, <3>3 DEF SaveTo, TypeOK, x
    <3>5. g \in base .. newest - 1
      BY <1>3, <2>1, <3>1
    <3> QED
      BY <1>2, <3>1, <3>4, <3>5 DEF WindowHeld, Entry
  <2> QED
    BY <2>2, <2>3
<1> QED
  BY <1>2, <1>9, <1>10, <1>11 DEF WindowHeld, Entry

(* Every step keeps the window in the ring, if nothing is delivered while  *)
(* frames are re-run.                                                      *)
LEMMA WindowStep ==
  ASSUME "confirm" \notin Liberties, TypeOK, RollbackTargetHeld, WindowHeld, [Next]_vars
  PROVE  WindowHeld'
<1>1. CASE PortRbFrame
  BY <1>1, WindowHook
<1>2. CASE PortRbInit
  <2>1. /\ base' = frameCount /\ newest' = frameCount /\ sFrame' = frameCount /\ len' = frameCount
        /\ frameCount \in Nat /\ Depth \in Nat \ {0}
    BY <1>2, ConstantsAssumption DEF PortRbInit, Frames
  <2>2. newest' < sFrame' + Depth /\ \A g \in base' .. newest' - 1 : FALSE
    BY <2>1
  <2> QED
    BY <2>1, <2>2 DEF WindowHeld
<1>3. CASE PortRbShutdown
  BY <1>3 DEF PortRbShutdown, WindowHeld
<1>4. ASSUME NEW f \in Frames, len' = LenWith(f) \/ len' = len,
             UNCHANGED <<active, sFrame, newest, base, ring>>,
             catchUp' # "resim" => catchUp # "resim"
      PROVE  WindowHeld'
  <2>1. f + 1 \in 0 .. MaxFrame + 1 /\ MaxFrame + 1 \in Nat /\ len \in 0 .. MaxFrame + 1
    BY ConstantsAssumption DEF Frames, TypeOK
  <2>2. LenWith(f) \in Nat /\ len <= LenWith(f)
    <3>1. AtLeast(len, f + 1) \in 0 .. MaxFrame + 1 /\ len <= AtLeast(len, f + 1)
      BY <2>1, AtLeastType
    <3> QED
      BY <3>1 DEF LenWith
  <2>3. newest \in Nat /\ len \in Nat /\ len' \in Nat /\ len <= len'
    BY <1>4, <2>1, <2>2 DEF TypeOK
  <2>4. active => newest <= len'
    BY <2>3 DEF WindowHeld
  <2> QED
    BY <1>4, <2>4 DEF WindowHeld, Entry
<1>5. CASE LocalInput
  BY <1>4, <1>5 DEF LocalInput, PortRbSetLocalInput, session, history
<1>6. CASE PeerInput
  <2>1. PICK p \in Peers, f \in Frames, k \in Keys : PortRbConfirmInput(p, f, k)
    BY <1>6, ConstantsAssumption DEF PeerInput
  <2>2. catchUp # "resim"
    BY <1>6 DEF PeerInput
  <2> QED
    BY <1>4, <2>1, <2>2 DEF PortRbConfirmInput, history
<1>7. CASE UNCHANGED <<active, sFrame, newest, len, catchUp, base, ring>>
  BY <1>7 DEF WindowHeld, Entry
<1> QED
  BY <1>1, <1>2, <1>3, <1>5, <1>6, <1>7
  DEF Next, PresentFrame, RunFrame, Boot, Attach, Close, Schedule, AtBound, vars,
      PortRbScheduleEvent, timeline, session, history

(* What the proofs below stand on. *)
Ground ==
  /\ TypeOK /\ RingInv /\ RollbackTargetHeld /\ SnapshotsOnHistory
  /\ FrameNumbersAgree /\ LenCovers /\ WindowHeld

(* All of it holds always, if nothing is delivered while frames are re-run *)
(* and no session is attached from the await.                              *)
LEMMA GroundHolds ==
  ASSUME "confirm" \notin Liberties, "attach" \notin Liberties
  PROVE  Spec => []Ground
<1>1. Init => LenCovers /\ WindowHeld
  BY DEF Init, LenCovers, WindowHeld
<1>2. TypeOK /\ RollbackTargetHeld /\ WindowHeld /\ [Next]_vars => WindowHeld'
  BY WindowStep
<1> QED
  BY RingInvAlways, TargetIsHeld, SnapshotsBelongHere, NumbersAgree, LenStep, <1>1, <1>2, PTL
  DEF Spec, Ground

(* --- the game and the timeline ------------------------------------------ *)

(* A hook leaves the game where it stands or takes it back to an earlier   *)
(* frame of the same history; either way the frame it runs is the next of  *)
(* that history.                                                           *)
LEMMA HookGoesBack ==
  ASSUME Ground, phase = "hook", NEW from \in Snapshots, NEW row \in [Peers -> Keys],
         NEW fed \in Memory, Simulated(from, row, fed)
  PROVE  /\ Len(mem.hist) = sFrame
         /\ mem'.hist \in Seq(Inputs) /\ Len(mem'.hist) = from.frame /\ from.frame <= Len(mem.hist)
         /\ \A i \in 1 .. from.frame : mem'.hist[i] = mem.hist[i]
         /\ catchUp = "asked" => from.frame = catchUpTo
         /\ catchUp # "asked" => from.frame = Len(mem.hist)
<1>1. active /\ from = StartingPoint /\ mem'.hist = from.mem.hist
  BY DEF Simulated
<1>2. sFrame = frameCount /\ Len(mem.hist) = frameCount
  BY <1>1 DEF Ground, FrameNumbersAgree, RingInv, TypeOK
<1>3. from.frame - from.frameCount = sFrame - frameCount /\ Len(from.mem.hist) = from.frameCount
  BY <1>1, StartsWell DEF Ground, Snapshots
<1>4. from.frame \in Nat /\ from.frameCount \in Nat /\ sFrame \in Nat /\ frameCount \in Nat
  BY DEF Ground, TypeOK, Snapshots, Frames
<1>5. Len(from.mem.hist) = from.frame
  BY <1>2, <1>3, <1>4
<1>6. from.mem.hist \in Seq(Inputs) /\ mem.hist \in Seq(Inputs)
  BY DEF Snapshots, Memory, Ground, TypeOK
<1>7. CASE catchUp = "asked"
  <2>1. from = Entry(catchUpTo) /\ Entry(catchUpTo).frame = catchUpTo /\ catchUpTo < sFrame
    BY <1>1, <1>7 DEF StartingPoint, Ground, RollbackTargetHeld
  <2>2. catchUpTo % Depth \in DOMAIN ring /\ catchUpTo # -1
    BY RingIndex DEF Ground, TypeOK, Frames
  <2>3. from.mem.hist = SubSeq(mem.hist, 1, from.frame)
    BY <1>5, <2>1, <2>2 DEF Ground, SnapshotsOnHistory, Entry
  <2>4. from.frame <= Len(mem.hist)
    BY <1>2, <1>4, <2>1
  <2>5. \A i \in 1 .. from.frame : from.mem.hist[i] = mem.hist[i]
    BY <1>4, <1>6, <2>3, <2>4
  <2> QED
    BY <1>1, <1>2, <1>5, <1>6, <1>7, <2>1, <2>4, <2>5
<1>8. CASE catchUp # "asked"
  <2>1. from.mem = mem /\ from.frame = sFrame
    BY <1>1, <1>8 DEF StartingPoint, Here
  <2> QED
    BY <1>1, <1>2, <1>4, <1>5, <1>6, <1>8, <2>1
<1> QED
  BY <1>7, <1>8

(* Every player of the session drives the slot of its number, in play: the *)
(* seats a session starts with, so long as no slot event moves a player.   *)
SlotsAsSeated == active => \A p \in Players : slotPeer[p] = p /\ p < slotsInPlay

(* What SimulatedAsRecorded says of a frame no rollback is pending for.    *)
Agrees(f) ==
  /\ \A p \in Players : RunOn(f)[p] = keys[f][p]
  /\ f < Len(mem.hist) => mem.hist[f + 1].pad = keys[f][Self]

Pending(f) == catchUp = "asked" /\ f >= catchUpTo

(* The words a frame is run on reach the slots of the players.             *)
LEMMA FedToPlayers ==
  ASSUME NEW m \in Memory, NEW row \in [Peers -> Keys], NEW map \in SlotMaps,
         NEW count \in 1 .. NumPeers,
         NEW p \in Players, map[p] = p, p < count
  PROVE  ApplySlotInputs(m, row, map, count).held[p] = row[p]
<1>1. p \in Peers /\ p \in Slots /\ ~(p >= count)
  BY ConstantsAssumption, NumPeersAssumption DEF Players, Peers, Slots
<1> QED
  BY <1>1 DEF ApplySlotInputs

(* A hook runs its frame on what it writes into the timeline.              *)
LEMMA RecordedHook ==
  ASSUME Ground, SimulatedAsRecorded, SlotsAsSeated', phase = "hook", PortRbFrame
  PROVE  SimulatedAsRecorded'
<1>1. PICK from \in Snapshots, row \in [Peers -> Keys], fed \in Memory : Simulated(from, row, fed)
  BY SimulatedFrame DEF Ground
<1>2. /\ Len(mem'.hist) = from.frame /\ from.frame <= Len(mem.hist) /\ Len(mem.hist) = sFrame
      /\ \A i \in 1 .. from.frame : mem'.hist[i] = mem.hist[i]
      /\ catchUp = "asked" => from.frame = catchUpTo
  BY <1>1, HookGoesBack
<1>3. /\ active /\ active' /\ base' = base /\ sFrame' = from.frame + 1 /\ mem' = fed
      /\ fed = ApplySlotInputs(from.mem, row, slotPeer', slotsInPlay')
      /\ slotPeer' \in SlotMaps /\ slotsInPlay' \in 1 .. NumPeers
      /\ keys' = [keys EXCEPT ![from.frame] = row]
  BY <1>1 DEF Simulated
<1>4. from.frame \in Frames /\ from.frame \in Nat /\ from.mem \in Memory /\ base \in Nat /\ sFrame \in Nat
  BY DEF Snapshots, Frames, Ground, TypeOK
<1>5. ASSUME NEW f \in base' .. sFrame' - 1
      PROVE  Agrees(f)'
  <2>1. f \in Nat /\ f <= from.frame /\ f >= base
    BY <1>3, <1>4
  <2>2. CASE f = from.frame
    <3>1. RunOn(f)' = fed.held /\ ~(f < Len(mem'.hist))
      BY <1>2, <1>3, <1>4, <2>2 DEF RunOn
    <3>2. keys'[f] = row
      BY <1>3, <1>4, <2>2 DEF Ground, TypeOK
    <3>3. \A p \in Players : fed.held[p] = row[p]
      BY <1>3, <1>4, FedToPlayers DEF SlotsAsSeated
    <3> QED
      BY <3>1, <3>2, <3>3 DEF Agrees
  <2>3. CASE f # from.frame
    <3>1. f < from.frame /\ f < Len(mem'.hist) /\ f < Len(mem.hist) /\ f < sFrame
      BY <1>2, <1>4, <2>1, <2>3
    <3>2. f + 1 \in 1 .. from.frame /\ mem'.hist[f + 1] = mem.hist[f + 1]
      BY <1>2, <1>4, <2>1, <3>1
    <3>3. keys'[f] = keys[f]
      BY <1>3, <2>3 DEF Ground, TypeOK
    <3>4. Agrees(f)
      <4>1. f \in base .. sFrame - 1
        BY <1>4, <2>1, <3>1
      <4>2. ~Pending(f)
        BY <1>2, <1>4, <2>1, <3>1 DEF Pending
      <4> QED
        BY <1>3, <4>1, <4>2 DEF SimulatedAsRecorded, Agrees, Pending
    <3> QED
      BY <3>1, <3>2, <3>3, <3>4 DEF Agrees, RunOn
  <2> QED
    BY <2>2, <2>3
<1> QED
  BY <1>5 DEF SimulatedAsRecorded, Agrees

(* Running a frame records it: what is consumed is what was in memory, and *)
(* the timeline's word in the key register.                                *)
LEMMA RecordedRun ==
  ASSUME Ground, SimulatedAsRecorded, NEW host \in Keys, RunFrame(host)
  PROVE  SimulatedAsRecorded'
<1> DEFINE pad == UpdateKeyInput(host)
           consumed == [held |-> mem.held, pressed |-> mem.pressed, released |-> mem.released,
                        count |-> mem.count, pad |-> pad]
<1>1. consumed \in Inputs
  BY KeyInputType DEF RunFrame, Inputs, Ground, TypeOK, Memory
<1>2. mem'.hist = Append(mem.hist, consumed) /\ mem'.held = mem.held /\ mem.hist \in Seq(Inputs)
  BY DEF RunFrame, Ground, TypeOK, Memory
<1>3. /\ keys' = keys /\ active' = active /\ sFrame' = sFrame /\ base' = base
      /\ catchUp' = catchUp /\ catchUpTo' = catchUpTo
  BY DEF RunFrame, timeline, session, history
<1>4. consumed.held = mem.held /\ consumed.pad = pad
  OBVIOUS
<1> HIDE DEF consumed
<1> SUFFICES ASSUME active, NEW f \in base .. sFrame - 1, ~Pending(f)
             PROVE  Agrees(f)'
  BY <1>3 DEF SimulatedAsRecorded, Agrees, Pending
<1>5. Agrees(f)
  BY DEF SimulatedAsRecorded, Agrees, Pending
<1>6. f \in Nat /\ sFrame = Len(mem.hist) + 1 /\ frameCount = Len(mem.hist) /\ frameCount < len
  <2>1. phase = "await"
    BY DEF RunFrame
  <2>2. frameCount = Len(mem.hist) /\ frameCount \in Nat /\ sFrame = frameCount + 1
    <3>1. frameCount \in Nat
      BY DEF Ground, TypeOK
    <3>2. frameCount = Len(mem.hist)
      BY DEF Ground, RingInv
    <3>3. sFrame = frameCount + 1
      BY <2>1 DEF Ground, FrameNumbersAgree
    <3> QED
      BY <3>1, <3>2, <3>3
  <2>3. frameCount < len
    <3>1. len \in Nat
      BY DEF Ground, TypeOK
    <3>2. sFrame <= len
      BY DEF Ground, LenCovers
    <3> QED
      BY <2>2, <3>1, <3>2
  <2>4. f \in Nat
    BY DEF Ground, TypeOK, Frames
  <2> QED
    BY <2>2, <2>3, <2>4
<1>7. Len(mem.hist) \in Nat /\ Len(mem'.hist) = Len(mem.hist) + 1
  BY <1>1, <1>2
<1>8. CASE f < Len(mem.hist)
  <2>1. mem'.hist[f + 1] = mem.hist[f + 1] /\ f < Len(mem'.hist)
    BY <1>1, <1>2, <1>6, <1>7, <1>8
  <2> QED
    BY <1>3, <1>5, <1>8, <2>1 DEF Agrees, RunOn
<1>9. CASE f = Len(mem.hist)
  <2>1. mem'.hist[f + 1] = consumed /\ f < Len(mem'.hist) /\ ~(f < Len(mem.hist))
    BY <1>1, <1>2, <1>6, <1>7, <1>9
  <2>2. pad = keys[f][Self]
    BY <1>6, <1>9 DEF UpdateKeyInput
  <2> QED
    BY <1>3, <1>4, <1>5, <2>1, <2>2 DEF Agrees, RunOn
<1> QED
  BY <1>6, <1>7, <1>8, <1>9

(* A word that arrives for a frame that ran on another always finds the    *)
(* frame in the ring, and takes it and all later ones back.                *)
LEMMA RecordedConfirm ==
  ASSUME Ground, SimulatedAsRecorded, catchUp # "resim",
         NEW q \in Peers, NEW g \in Frames, NEW k \in Keys, PortRbConfirmInput(q, g, k)
  PROVE  SimulatedAsRecorded'
<1>1. /\ active /\ active' /\ ~TooLate(g) /\ keys' = [keys EXCEPT ![g][q] = k]
      /\ UNCHANGED <<sFrame, base, mem>>
  BY DEF PortRbConfirmInput, machine, history
<1> SUFFICES ASSUME NEW f \in base .. sFrame - 1, ~Pending(f)'
             PROVE  Agrees(f)'
  BY <1>1 DEF SimulatedAsRecorded, Agrees, Pending
<1>2. f \in Nat /\ sFrame \in Nat /\ f < sFrame /\ base <= f /\ g \in Nat
  BY DEF Ground, TypeOK, Frames
<1>3. catchUpTo \in Nat /\ catchUp \in {"idle", "asked"}
  BY DEF Ground, TypeOK, Frames
<1>4. Agrees(f)
  <2>1. ~Pending(f)
    <3>1. CASE UNCHANGED <<catchUp, catchUpTo>>
      BY <3>1 DEF Pending
    <3>2. CASE ~UNCHANGED <<catchUp, catchUpTo>>
      <4>1. catchUp' = "asked" /\ catchUpTo' = g /\ Deeper(g)
        BY <3>2 DEF PortRbConfirmInput
      <4> QED
        BY <1>2, <1>3, <4>1 DEF Pending, Deeper
    <3> QED
      BY <3>1, <3>2
  <2> QED
    BY <1>1, <2>1 DEF SimulatedAsRecorded, Agrees, Pending
<1>5. keys'[f] = keys[f]
  <2>1. CASE f # g
    BY <1>1, <2>1 DEF Ground, TypeOK
  <2>2. CASE keys[g][q] = k
    <3>1. keys[g] \in [Peers -> Keys] /\ keys'[g] = [keys[g] EXCEPT ![q] = k]
      BY <1>1 DEF Ground, TypeOK
    <3>2. keys'[g] = keys[g]
      BY <2>2, <3>1
    <3> QED
      BY <2>1, <3>2
  <2>3. CASE f = g /\ keys[g][q] # k
    <3>1. InRing(g)
      <4>1. sFrame = newest
        BY <1>1 DEF Ground, WindowHeld
      <4>2. newest < g + Depth
        BY <1>1, <1>2, <2>3, <4>1, ConstantsAssumption DEF TooLate
      <4>3. g \in base .. newest - 1
        BY <2>3, <4>1
      <4> QED
        BY <1>1, <4>2, <4>3 DEF Ground, WindowHeld, InRing
    <3>2. CASE Deeper(g)
      <4>1. catchUp' = "asked" /\ catchUpTo' = g
        BY <1>2, <2>3, <3>1, <3>2 DEF PortRbConfirmInput
      <4> QED
        BY <1>2, <2>3, <4>1 DEF Pending
    <3>3. CASE ~Deeper(g)
      <4>1. UNCHANGED <<catchUp, catchUpTo>>
        BY <3>3 DEF PortRbConfirmInput
      <4>2. Pending(f)'
        BY <1>2, <1>3, <2>3, <3>3, <4>1 DEF Pending, Deeper
      <4> QED
        BY <4>2
    <3> QED
      BY <3>2, <3>3
  <2> QED
    BY <2>1, <2>2, <2>3
<1> QED
  BY <1>1, <1>4, <1>5 DEF Agrees, RunOn

(* Every step keeps the game on the timeline.                              *)
LEMMA RecordedStep ==
  ASSUME "confirm" \notin Liberties, "attach" \notin Liberties,
         Ground, SimulatedAsRecorded, SlotsAsSeated', [Next]_vars
  PROVE  SimulatedAsRecorded'
<1>1. CASE PresentFrame /\ PortRbFrame
  BY <1>1, RecordedHook DEF PresentFrame
<1>2. CASE \E host \in Keys : RunFrame(host)
  BY <1>2, RecordedRun
<1>3. CASE PortRbInit
  <2>1. base' = frameCount /\ sFrame' = frameCount /\ frameCount \in Nat
    BY <1>3 DEF PortRbInit, Frames
  <2>2. \A f \in base' .. sFrame' - 1 : FALSE
    BY <2>1
  <2> QED
    BY <2>2 DEF SimulatedAsRecorded
<1>4. CASE PortRbShutdown \/ (PresentFrame /\ ~PortRbFrame)
  BY <1>4 DEF PortRbShutdown, PresentFrame, session, SimulatedAsRecorded
<1>5. CASE LocalInput
  <2>1. PICK k \in Keys : PortRbSetLocalInput(k)
    BY <1>5 DEF LocalInput
  <2>2. /\ keys' = [keys EXCEPT ![sFrame][Self] = k]
        /\ UNCHANGED <<active, sFrame, base, mem, catchUp, catchUpTo>>
    BY <2>1 DEF PortRbSetLocalInput, session, machine, history
  <2>3. \A f \in base .. sFrame - 1 : keys'[f] = keys[f]
    BY <2>2 DEF Ground, TypeOK, Frames
  <2> QED
    BY <2>2, <2>3 DEF SimulatedAsRecorded, RunOn
<1>6. CASE PeerInput
  <2>1. PICK q \in Peers, g \in Frames, k \in Keys : PortRbConfirmInput(q, g, k)
    BY <1>6, ConstantsAssumption DEF PeerInput
  <2>2. catchUp # "resim"
    BY <1>6 DEF PeerInput
  <2> QED
    BY <2>1, <2>2, RecordedConfirm
<1>7. CASE UNCHANGED <<active, sFrame, base, mem, catchUp, catchUpTo, keys>>
  BY <1>7 DEF SimulatedAsRecorded, RunOn
<1> QED
  BY <1>1, <1>2, <1>3, <1>4, <1>5, <1>6, <1>7
  DEF Next, Boot, Attach, Close, Schedule, AtBound, vars,
      PortRbScheduleEvent, timeline, session, machine, history

(* Outside the frames a pending rollback will run again, the buttons the   *)
(* game saw held are exactly those of the timeline, whatever was           *)
(* predicted, delivered late or run again on the way there; if nothing is  *)
(* delivered while frames are re-run, and the players keep their seats.    *)
(* Of the edges see EdgesFollowTimeline.                                   *)
THEOREM GameFollowsTimeline ==
  ASSUME "confirm" \notin Liberties, "attach" \notin Liberties
  PROVE  Spec /\ []SlotsAsSeated => []SimulatedAsRecorded
<1>1. Init => SimulatedAsRecorded
  BY DEF Init, SimulatedAsRecorded
<1>2. Ground /\ SimulatedAsRecorded /\ SlotsAsSeated' /\ [Next]_vars => SimulatedAsRecorded'
  BY RecordedStep
<1> QED
  BY GroundHolds, <1>1, <1>2, PTL DEF Spec

(* Where no events are kept the players keep their seats. *)
LEMMA SeatsKept ==
  ASSUME MaxEvents = 0
  PROVE  Spec => []SlotsAsSeated
<1> DEFINE Seated == /\ events = <<>>
                     /\ active => slotPeer = FirstSlotMap(NumPlayers) /\ slotsInPlay = NumPeers
<1>1. Init => Seated
  BY DEF Init
<1>2. TypeOK /\ Seated /\ [Next]_vars => Seated'
  <2> SUFFICES ASSUME TypeOK, Seated, [Next]_vars PROVE Seated'
    OBVIOUS
  <2>1. CASE PortRbFrame
    <3>1. PICK f : /\ slotPeer' = SlotMapAfter(slotPeer, events, f)
                   /\ slotsInPlay' = SlotsInPlayAfter(slotsInPlay, events, f)
                   /\ events' = events /\ active
      BY <2>1 DEF PortRbFrame, Simulate
    <3>2. At(<<>>, f) = {} /\ DOMAIN <<>> = {}
      BY DEF At
    <3>3. slotsInPlay' = slotsInPlay
      BY <3>1, <3>2 DEF SlotsInPlayAfter
    <3>4. SlotMapAfter(slotPeer, <<>>, f) = slotPeer
      <4>1. \A s \in Slots, p \in Peers : DrivesAfter(slotPeer, <<>>, f, s, p) <=> slotPeer[s] = p
        BY <3>2 DEF DrivesAfter
      <4>2. ASSUME NEW s \in Slots
            PROVE  (IF \E p \in Peers : DrivesAfter(slotPeer, <<>>, f, s, p)
                      THEN CHOOSE p \in Peers : DrivesAfter(slotPeer, <<>>, f, s, p)
                      ELSE AI) = slotPeer[s]
        <5>1. slotPeer[s] \in Peers \cup {AI} /\ AI \notin Peers
          BY NumPeersAssumption DEF TypeOK, SlotMaps, AI, Peers
        <5> QED
          BY <4>1, <5>1
      <4> QED
        BY <4>2 DEF SlotMapAfter, TypeOK, SlotMaps
    <3> QED
      BY <3>1, <3>3, <3>4
  <2>2. CASE PortRbInit \/ PortRbShutdown
    BY <2>2 DEF PortRbInit, PortRbShutdown
  <2>3. CASE UNCHANGED <<events, slotPeer, slotsInPlay, active>>
    BY <2>3
  <2>4. ~(\E e : PortRbScheduleEvent(e))
    BY DEF PortRbScheduleEvent
  <2> QED
    BY <2>1, <2>2, <2>3, <2>4
    DEF Next, PresentFrame, RunFrame, Boot, Attach, Close, LocalInput, PeerInput, Schedule, AtBound,
        vars, PortRbSetLocalInput, PortRbConfirmInput, slotting, session
<1>3. Seated => SlotsAsSeated
  BY ConstantsAssumption, NumPeersAssumption DEF SlotsAsSeated, FirstSlotMap, Players, Slots, Peers
<1> QED
  BY InitType, NextType, <1>1, <1>2, <1>3, PTL DEF Spec

(* The same of a session without events, as TLC runs it.                   *)
THEOREM GameFollowsTimelineWithoutEvents ==
  ASSUME "confirm" \notin Liberties, "attach" \notin Liberties, MaxEvents = 0
  PROVE  Spec => []SimulatedAsRecorded
BY GameFollowsTimeline, SeatsKept, PTL

(* --- the edges ----------------------------------------------------------- *)

(* Before a hook the words in memory are those of the frame that was run   *)
(* last: the edges of the next one are taken against them.                 *)
LastHeld ==
  phase = "hook" /\ Len(mem.hist) > 0 => mem.held = mem.hist[Len(mem.hist)].held

(* Every step keeps them so.                                               *)
LEMMA LastHeldStep == TypeOK /\ LastHeld /\ [Next]_vars => LastHeld'
<1> SUFFICES ASSUME TypeOK, LastHeld, [Next]_vars PROVE LastHeld'
  OBVIOUS
<1>1. CASE PresentFrame
  BY <1>1 DEF PresentFrame, LastHeld
<1>2. ASSUME NEW host \in Keys, RunFrame(host) PROVE LastHeld'
  <2> DEFINE consumed == [held |-> mem.held, pressed |-> mem.pressed, released |-> mem.released,
                          count |-> mem.count, pad |-> UpdateKeyInput(host)]
  <2>1. consumed \in Inputs
    BY <1>2, KeyInputType DEF RunFrame, Inputs, TypeOK, Memory
  <2>2. mem'.hist = Append(mem.hist, consumed) /\ mem'.held = mem.held /\ mem.hist \in Seq(Inputs)
    BY <1>2 DEF RunFrame, TypeOK, Memory
  <2>3. consumed.held = mem.held
    OBVIOUS
  <2> HIDE DEF consumed
  <2>4. Len(mem'.hist) = Len(mem.hist) + 1 /\ mem'.hist[Len(mem.hist) + 1] = consumed
    BY <2>1, <2>2
  <2> QED
    BY <2>2, <2>3, <2>4 DEF LastHeld
<1>3. CASE UNCHANGED <<mem, phase>>
  BY <1>3 DEF LastHeld
<1> QED
  BY <1>1, <1>2, <1>3
  DEF Next, Boot, Attach, Close, LocalInput, PeerInput, Schedule, AtBound, vars, machine,
      PortRbInit, PortRbShutdown, PortRbSetLocalInput, PortRbConfirmInput, PortRbScheduleEvent

(* The edges a slot in play is given, against the words in memory.         *)
LEMMA EdgesToPlayers ==
  ASSUME NEW m \in Memory, NEW row \in [Peers -> Keys], NEW map \in SlotMaps,
         NEW count \in 1 .. NumPeers,
         NEW p \in Players, map[p] = p, p < count
  PROVE  /\ ApplySlotInputs(m, row, map, count).pressed[p] = row[p] \ m.held[p]
         /\ ApplySlotInputs(m, row, map, count).released[p] = m.held[p] \ row[p]
<1>1. p \in Peers /\ p \in Slots /\ ~(p >= count)
  BY ConstantsAssumption, NumPeersAssumption DEF Players, Peers, Slots
<1> QED
  BY <1>1 DEF ApplySlotInputs

(* A hook that restores nothing gives its frame the edges of the timeline. *)
LEMMA HookGivesEdges ==
  ASSUME Ground, SimulatedAsRecorded, LastHeld, SlotsAsSeated', phase = "hook", PortRbFrame,
         catchUp # "asked", sFrame > base
  PROVE  EdgesBetween(mem', keys'[sFrame - 1], keys'[sFrame])
<1>1. PICK from \in Snapshots, row \in [Peers -> Keys], fed \in Memory : Simulated(from, row, fed)
  BY SimulatedFrame DEF Ground
<1>2. Len(mem.hist) = sFrame /\ from.frame = sFrame
  BY <1>1, HookGoesBack
<1>3. from.mem = mem
  BY <1>1 DEF Simulated, StartingPoint, Here
<1>4. /\ active /\ active' /\ mem' = ApplySlotInputs(mem, row, slotPeer', slotsInPlay')
      /\ slotPeer' \in SlotMaps /\ slotsInPlay' \in 1 .. NumPeers
      /\ keys' = [keys EXCEPT ![sFrame] = row]
  BY <1>1, <1>2, <1>3 DEF Simulated
<1>5. base \in Nat /\ sFrame \in Frames /\ sFrame \in Nat /\ mem \in Memory
  BY <1>2 DEF Ground, TypeOK, Snapshots, Frames
<1>6. sFrame - 1 \in base .. sFrame - 1 /\ sFrame - 1 < Len(mem.hist) /\ sFrame - 1 # sFrame
  BY <1>2, <1>5
<1>7. keys'[sFrame] = row /\ keys'[sFrame - 1] = keys[sFrame - 1]
  BY <1>4, <1>5, <1>6 DEF Ground, TypeOK
<1>8. \A p \in Players : mem.held[p] = keys[sFrame - 1][p]
  <2>1. RunOn(sFrame - 1) = mem.hist[sFrame].held
    BY <1>5, <1>6 DEF RunOn
  <2>2. mem.held = mem.hist[sFrame].held
    BY <1>2, <1>5, <1>6 DEF LastHeld
  <2>3. \A p \in Players : RunOn(sFrame - 1)[p] = keys[sFrame - 1][p]
    BY <1>4, <1>6 DEF SimulatedAsRecorded
  <2> QED
    BY <2>1, <2>2, <2>3
<1>9. ASSUME NEW p \in Players
      PROVE  /\ mem'.pressed[p] = row[p] \ mem.held[p]
             /\ mem'.released[p] = mem.held[p] \ row[p]
  <2>1. slotPeer'[p] = p /\ p < slotsInPlay'
    BY <1>4 DEF SlotsAsSeated
  <2> QED
    BY <1>4, <1>5, <2>1, EdgesToPlayers
<1> QED
  BY <1>7, <1>8, <1>9 DEF EdgesBetween

(* Only the frame a rollback restores loses its edges: every other is      *)
(* given those of the timeline, re-run or not, if nothing is delivered     *)
(* while frames are re-run and the players keep their seats.               *)
THEOREM EdgesFollowTimeline ==
  ASSUME "confirm" \notin Liberties, "attach" \notin Liberties
  PROVE  Spec /\ []SlotsAsSeated => EdgesUnlessRestored
<1>1. Init => LastHeld
  BY DEF Init, LastHeld, BootMemory
<1>2. Ground /\ SimulatedAsRecorded /\ LastHeld /\ SlotsAsSeated' /\ [Next]_vars
        => [(phase = "hook" /\ phase' = "await" /\ active /\ catchUp # "asked" /\ sFrame > base)
              => EdgesBetween(mem', keys'[sFrame - 1], keys'[sFrame])]_vars
  <2> SUFFICES ASSUME Ground, SimulatedAsRecorded, LastHeld, SlotsAsSeated', [Next]_vars,
                      phase = "hook", phase' = "await", active, catchUp # "asked", sFrame > base
               PROVE  EdgesBetween(mem', keys'[sFrame - 1], keys'[sFrame])
    OBVIOUS
  <2>1. PresentFrame
    BY DEF Next, RunFrame, Boot, Attach, Close, LocalInput, PeerInput, Schedule, AtBound, vars,
           PortRbInit, PortRbShutdown, PortRbSetLocalInput, PortRbConfirmInput, PortRbScheduleEvent
  <2>2. PortRbFrame
    BY <2>1 DEF PresentFrame
  <2> QED
    BY <2>2, HookGivesEdges
<1>3. Ground /\ LastHeld /\ [Next]_vars => LastHeld'
  BY LastHeldStep DEF Ground
<1> QED
  BY GroundHolds, GameFollowsTimeline, <1>1, <1>2, <1>3, PTL DEF Spec, EdgesUnlessRestored

(* --- the picture ---------------------------------------------------------- *)

(* The end of a catch-up gives the picture back, whatever callers do: only *)
(* a session that is ended or replaced before it leaves the picture off.   *)
THEOREM PictureIsGivenBack == Spec => DarkOnlyCatchingUp
<1> DEFINE GivenBack == LeftDark' => LeftDark \/ (~render /\ (PortRbShutdown \/ PortRbInit))
<1>1. [Next]_vars => [GivenBack]_vars
  <2> SUFFICES ASSUME [Next]_vars, LeftDark', ~LeftDark
               PROVE  ~render /\ (PortRbShutdown \/ PortRbInit)
    OBVIOUS
  <2>1. CASE PresentFrame /\ PortRbFrame
    BY <2>1 DEF PortRbFrame, Simulate, RenderFrom, LeftDark
  <2>2. ASSUME NEW q, NEW g, NEW k, PortRbConfirmInput(q, g, k) PROVE FALSE
    BY <2>2 DEF PortRbConfirmInput, LeftDark
  <2>3. CASE PortRbInit \/ PortRbShutdown
    BY <2>3 DEF PortRbInit, PortRbShutdown, LeftDark
  <2>4. CASE UNCHANGED <<catchUp, render>>
    BY <2>4 DEF LeftDark
  <2> QED
    BY <2>1, <2>2, <2>3, <2>4
    DEF Next, PresentFrame, RunFrame, Boot, Attach, Close, LocalInput, PeerInput, Schedule, AtBound, vars,
        PortRbSetLocalInput, PortRbScheduleEvent, session
<1> QED
  BY <1>1, PTL DEF Spec, DarkOnlyCatchingUp

(* --- the session as a lockstep session ---------------------------------- *)

(* The refinement mapping: the words given so far, and the frames settled. *)
Said   == [f \in Frames |-> [p \in Players |-> IF known[f][p] THEN keys[f][p] ELSE Nothing]]
Played == [i \in 1 .. Settled |-> [p \in Players |-> mem.hist[i].held[p]]]

(* A session that is not attached from the await is numbered from nought.  *)
FromNought == active => base = 0

LockstepInv ==
  /\ Ground /\ ConfirmedIsKnown /\ NeverRollsBackConfirmed /\ SimulatedAsRecorded /\ FromNought

(* A sequence of words read off the frames grows by the frames that follow. *)
LEMMA GrowsByFrames ==
  ASSUME NEW said, NEW a \in Nat, NEW b \in Nat, a <= b
  PROVE  [i \in 1 .. b |-> said[i - 1]]
           = [i \in 1 .. a |-> said[i - 1]] \o [i \in 1 .. b - a |-> said[a + i - 1]]
<1> DEFINE all  == [i \in 1 .. b |-> said[i - 1]]
           old  == [i \in 1 .. a |-> said[i - 1]]
           more == [i \in 1 .. b - a |-> said[a + i - 1]]
           both == old \o more
           S    == {said[i] : i \in Int}
<1>1. all \in Seq(S) /\ Len(all) = b /\ \A i \in 1 .. b : all[i] = said[i - 1]
  OBVIOUS
<1>2. old \in Seq(S) /\ Len(old) = a /\ \A i \in 1 .. a : old[i] = said[i - 1]
  OBVIOUS
<1>3. more \in Seq(S) /\ Len(more) = b - a /\ \A i \in 1 .. b - a : more[i] = said[a + i - 1]
  OBVIOUS
<1> HIDE DEF all, old, more, S
<1>4. /\ both \in Seq(S) /\ Len(both) = Len(old) + Len(more)
      /\ \A i \in 1 .. Len(old) + Len(more) :
           both[i] = IF i <= Len(old) THEN old[i] ELSE more[i - Len(old)]
  BY <1>2, <1>3, ConcatProperties
<1> HIDE DEF both
<1>5. Len(both) = Len(all)
  BY <1>1, <1>2, <1>3, <1>4
<1>6. ASSUME NEW i \in 1 .. Len(both) PROVE both[i] = all[i]
  <2>1. i \in 1 .. b /\ i \in 1 .. Len(old) + Len(more)
    BY <1>1, <1>4, <1>5
  <2>2. CASE i <= a
    <3>1. both[i] = old[i] /\ i \in 1 .. a
      BY <1>2, <1>4, <2>1, <2>2
    <3> QED
      BY <1>1, <1>2, <2>1, <3>1
  <2>3. CASE ~(i <= a)
    <3>1. both[i] = more[i - a] /\ i - a \in 1 .. b - a
      BY <1>2, <1>4, <2>1, <2>3
    <3>2. a + (i - a) - 1 = i - 1
      BY <2>1
    <3>3. more[i - a] = said[i - 1]
      BY <1>3, <3>1, <3>2
    <3> QED
      BY <1>1, <2>1, <3>1, <3>3
  <2> QED
    BY <2>2, <2>3
<1>7. both = all
  BY <1>1, <1>4, <1>5, <1>6, SeqEqual
<1> QED
  BY <1>7 DEF all, old, more, both

(* Every settled frame is known for everyone, and was played on the words  *)
(* that were given for it.                                                 *)
SettledAsSaid ==
  /\ Settled \in 0 .. MaxFrame + 1
  /\ \A i \in 1 .. Settled : i - 1 \in Frames /\ KnownToAll(i - 1)
  /\ Played = [i \in 1 .. Settled |-> Said[i - 1]]

(* This is so wherever the invariant holds.                                *)
LEMMA PlayedIsSaid == LockstepInv => SettledAsSaid
<1> SUFFICES ASSUME LockstepInv PROVE SettledAsSaid
  OBVIOUS
<1>1. /\ confirmed \in 0 .. MaxFrame + 1 /\ Len(mem.hist) \in 0 .. MaxFrame + 1
      /\ sFrame \in 0 .. MaxFrame + 1 /\ MaxFrame \in Nat
  BY ConstantsAssumption DEF LockstepInv, Ground, RingInv, TypeOK
<1>2. Settled \in 0 .. MaxFrame + 1 /\ Settled <= Len(mem.hist) /\ (active => Settled <= confirmed)
  BY <1>1 DEF Settled
<1>3. ASSUME NEW i \in 1 .. Settled
      PROVE  /\ i - 1 \in Frames /\ KnownToAll(i - 1)
             /\ \A p \in Players : mem.hist[i].held[p] = Said[i - 1][p]
  <2>1. active
    BY <1>1 DEF Settled
  <2>2. base = 0 /\ Len(mem.hist) <= sFrame
    BY <1>1, <2>1 DEF LockstepInv, FromNought, Ground, FrameNumbersAgree, RingInv, TypeOK
  <2>3. i - 1 \in Frames /\ i - 1 \in base .. confirmed - 1 /\ i - 1 \in base .. sFrame - 1 /\ i - 1 < Len(mem.hist)
    BY <1>1, <1>2, <2>1, <2>2 DEF Frames
  <2>4. KnownToAll(i - 1)
    BY <2>1, <2>3 DEF LockstepInv, ConfirmedIsKnown
  <2>5. ~Pending(i - 1)
    BY <1>1, <2>3 DEF Pending, LockstepInv, NeverRollsBackConfirmed, Ground, TypeOK, Frames
  <2>6. Agrees(i - 1)
    BY <2>1, <2>3, <2>5 DEF LockstepInv, SimulatedAsRecorded, Agrees, Pending
  <2>7. RunOn(i - 1) = mem.hist[i].held
    <3>1. (i - 1) + 1 = i
      OBVIOUS
    <3> QED
      BY <2>3, <3>1 DEF RunOn
  <2> QED
    BY <2>3, <2>4, <2>6, <2>7 DEF Agrees, Said, KnownToAll
<1>4. ASSUME NEW i \in 1 .. Settled
      PROVE  [p \in Players |-> mem.hist[i].held[p]] = Said[i - 1]
  BY <1>3 DEF Said
<1>5. Played = [i \in 1 .. Settled |-> Said[i - 1]]
  BY <1>4 DEF Played
<1> QED
  BY <1>2, <1>3, <1>5 DEF SettledAsSaid

(* The actions of Lockstep.tla under the mapping.                          *)
LEMMA MappedPlay ==
  ASSUME NEW n,
         n > Len(Played),
         \A f \in Len(Played) .. n - 1 : \A p \in Players : Said[f][p] # Nothing,
         Played' = Played \o [i \in 1 .. n - Len(Played) |-> Said[Len(Played) + i - 1]],
         Said' = Said
  PROVE  Session!Play(n)
BY ZenonT(40) DEF Session!Play, Said, Played

(* A word given is said.                                                   *)
LEMMA MappedSay ==
  ASSUME NEW f, NEW p, NEW k,
         Said[f][p] = Nothing, Said' = [Said EXCEPT ![f][p] = k], Played' = Played
  PROVE  Session!Say(f, p, k)
BY DEF Session!Say, Said, Played

(* A session that is over, or begins, has said and played nothing.         *)
LEMMA MappedLeave ==
  ASSUME Said' = [f \in Frames |-> [p \in Players |-> Nothing]], Played' = <<>>
  PROVE  Session!Leave
BY DEF Session!Leave, Session!Silence, Said, Played

(* Nothing said and nothing played is a stutter.                           *)
LEMMA MappedStutter ==
  ASSUME Said' = Said, Played' = Played
  PROVE  UNCHANGED Session!lockstepVars
BY DEF Session!lockstepVars, Said, Played

(* Frames that become settled are played, in order and once.               *)
LEMMA SettlingPlays ==
  ASSUME LockstepInv, LockstepInv', Nothing \notin Keys, Said' = Said, Settled <= Settled'
  PROVE  [Session!Next]_(Session!lockstepVars)
<1>1. SettledAsSaid /\ SettledAsSaid'
  BY PlayedIsSaid, PTL
<1>2. PICK a \in Nat, n \in 0 .. MaxFrame + 1 : a = Settled /\ n = Settled'
  BY <1>1 DEF SettledAsSaid
<1>3. a <= n /\ n \in Nat /\ MaxFrame \in Nat
  BY <1>2, ConstantsAssumption
<1>4. Played = [i \in 1 .. a |-> Said[i - 1]] /\ Len(Played) = a
  BY <1>1, <1>2 DEF SettledAsSaid
<1>5. Played' = [i \in 1 .. n |-> Said[i - 1]]
  BY <1>1, <1>2 DEF SettledAsSaid
<1>6. CASE n = a
  <2>1. Played' = Played
    BY <1>4, <1>5, <1>6
  <2> QED
    BY <2>1, MappedStutter
<1>7. CASE n # a
  <2>1. n > a /\ n - 1 \in Frames /\ (n - 1) + 1 = n
    BY <1>3, <1>7 DEF Frames
  <2>2. ASSUME NEW f \in a .. n - 1, NEW p \in Players
        PROVE  Said[f][p] # Nothing
    <3>1. f + 1 \in 1 .. n /\ (f + 1) - 1 = f
      BY <1>3
    <3>2. f \in Frames /\ known'[f][p]
      BY <1>1, <1>2, <3>1 DEF SettledAsSaid, KnownToAll
    <3>3. keys'[f][p] \in Keys
      <4>1. p \in Peers
        BY ConstantsAssumption, NumPeersAssumption DEF Players, Peers
      <4>2. keys' \in [Frames -> [Peers -> Keys]]
        BY DEF LockstepInv, Ground, TypeOK
      <4> QED
        BY <3>2, <4>1, <4>2
    <3>4. Said'[f][p] = keys'[f][p]
      BY <3>2 DEF Said
    <3> QED
      BY <3>3, <3>4
  <2>3. Played' = Played \o [i \in 1 .. n - a |-> Said[a + i - 1]]
    BY <1>3, <1>4, <1>5, GrowsByFrames
  <2>4. Session!Play(n)
    BY <1>4, <2>1, <2>2, <2>3, MappedPlay
  <2> QED
    BY <2>1, <2>4 DEF Session!Next
<1> QED
  BY <1>6, <1>7

(* A hook gives no word, and unsettles no frame.                           *)
LEMMA HookSettles ==
  ASSUME LockstepInv, phase = "hook", PortRbFrame
  PROVE  Said' = Said /\ Settled <= Settled'
<1>1. PICK from \in Snapshots, row \in [Peers -> Keys], fed \in Memory : Simulated(from, row, fed)
  BY SimulatedFrame DEF LockstepInv, Ground
<1>2. /\ Len(mem'.hist) = from.frame /\ from.frame <= Len(mem.hist)
      /\ catchUp = "asked" => from.frame = catchUpTo
      /\ catchUp # "asked" => from.frame = Len(mem.hist)
  BY <1>1, HookGoesBack DEF LockstepInv
<1>3. /\ active /\ active' /\ row = InputsFor(from.frame) /\ known' = known
      /\ keys' = [keys EXCEPT ![from.frame] = row]
      /\ AdvanceConfirmed(LenWith(from.frame))
  BY <1>1 DEF Simulated
<1>4. Said' = Said
  <2>1. ASSUME NEW f \in Frames, NEW p \in Players, known[f][p]
        PROVE  keys'[f][p] = keys[f][p]
    <3>1. from.frame \in Frames /\ p \in Peers
      BY ConstantsAssumption, NumPeersAssumption DEF Snapshots, Players, Peers
    <3>2. CASE f = from.frame
      <4>1. keys'[f][p] = row[p]
        BY <1>3, <3>1, <3>2 DEF LockstepInv, Ground, TypeOK
      <4>2. row[p] = keys[f][p]
        BY <1>3, <2>1, <3>1, <3>2 DEF InputsFor
      <4> QED
        BY <4>1, <4>2
    <3>3. CASE f # from.frame
      BY <1>3, <3>3 DEF LockstepInv, Ground, TypeOK
    <3> QED
      BY <3>2, <3>3
  <2> QED
    BY <1>3, <2>1 DEF Said
<1>5. Settled <= Settled'
  <2>1. PICK c \in confirmed .. LenWith(from.frame) : confirmed' = c
    BY <1>3 DEF AdvanceConfirmed
  <2>2. confirmed \in Nat /\ Len(mem.hist) \in Nat /\ from.frame \in Nat /\ c \in Int /\ confirmed <= c
    BY <2>1 DEF LockstepInv, Ground, RingInv, TypeOK, Snapshots, Frames
  <2>3. catchUp = "asked" => confirmed <= from.frame
    BY <1>2 DEF LockstepInv, NeverRollsBackConfirmed
  <2>4. Settled = IF confirmed <= Len(mem.hist) THEN confirmed ELSE Len(mem.hist)
    BY <1>3 DEF Settled
  <2>5. Settled' = IF c <= from.frame THEN c ELSE from.frame
    BY <1>2, <1>3, <2>1 DEF Settled
  <2> QED
    BY <1>2, <2>2, <2>3, <2>4, <2>5
<1> QED
  BY <1>4, <1>5

(* Running a frame gives no word, and may settle that frame.               *)
LEMMA RunSettles ==
  ASSUME LockstepInv, NEW host \in Keys, RunFrame(host)
  PROVE  Said' = Said /\ Settled <= Settled'
<1> DEFINE consumed == [held |-> mem.held, pressed |-> mem.pressed, released |-> mem.released,
                        count |-> mem.count, pad |-> UpdateKeyInput(host)]
<1>1. consumed \in Inputs
  BY KeyInputType DEF RunFrame, Inputs, LockstepInv, Ground, TypeOK, Memory
<1>2. mem'.hist = Append(mem.hist, consumed) /\ mem.hist \in Seq(Inputs)
  BY DEF RunFrame, LockstepInv, Ground, TypeOK, Memory
<1> HIDE DEF consumed
<1>3. Len(mem'.hist) = Len(mem.hist) + 1 /\ Len(mem.hist) \in Nat /\ confirmed \in Nat
  BY <1>1, <1>2 DEF LockstepInv, Ground, TypeOK
<1>4. UNCHANGED <<keys, known, active, confirmed>>
  BY DEF RunFrame, timeline, session
<1>5. Settled' = IF active THEN IF confirmed <= Len(mem.hist) + 1 THEN confirmed ELSE Len(mem.hist) + 1
                 ELSE 0
  BY <1>3, <1>4 DEF Settled
<1>6. Settled <= Settled'
  BY <1>3, <1>5 DEF Settled
<1> QED
  BY <1>4, <1>6 DEF Said

(* A word that was not known, written down and marked known, is said: by   *)
(* its player if it is one of the session, by nobody if not.               *)
LEMMA WordIsSaid ==
  ASSUME LockstepInv, NEW p \in Peers, NEW f \in Frames, NEW k \in Keys,
         ~known[f][p],
         keys' = [keys EXCEPT ![f][p] = k], known' = [known EXCEPT ![f][p] = TRUE],
         UNCHANGED <<active, confirmed, mem>>
  PROVE  [Session!Next]_(Session!lockstepVars)
<1>1. keys \in [Frames -> [Peers -> Keys]] /\ known \in [Frames -> [Peers -> BOOLEAN]]
  BY DEF LockstepInv, Ground, TypeOK
<1>2. Played' = Played
  BY DEF Played, Settled
<1>3. Players \subseteq Peers
  BY ConstantsAssumption, NumPeersAssumption DEF Players, Peers
<1>4. ASSUME NEW g \in Frames, NEW q \in Players, ~(g = f /\ q = p)
      PROVE  keys'[g][q] = keys[g][q] /\ known'[g][q] = known[g][q]
  BY <1>1, <1>3, <1>4
<1>5. keys'[f][p] = k /\ known'[f][p]
  BY <1>1
<1>6. CASE p \in Players
  <2>1. Said[f][p] = Nothing
    BY <1>6 DEF Said
  <2>2. ASSUME NEW g \in Frames, NEW q \in Players
        PROVE  Said'[g][q] = [Said EXCEPT ![f][p] = k][g][q]
    <3>1. CASE g = f /\ q = p
      BY <1>5, <1>6, <3>1 DEF Said
    <3>2. CASE ~(g = f /\ q = p)
      BY <1>4, <1>6, <3>2 DEF Said
    <3> QED
      BY <3>1, <3>2
  <2>3. Said' = [Said EXCEPT ![f][p] = k]
    <3> DEFINE S == Keys \cup {Nothing}
    <3>1. Said \in [Frames -> [Players -> S]]
      BY <1>1, <1>3 DEF Said
    <3>2. Said' \in [Frames -> [Players -> S]]
      <4>1. keys' \in [Frames -> [Peers -> Keys]] /\ known' \in [Frames -> [Peers -> BOOLEAN]]
        BY <1>1
      <4> QED
        BY <1>3, <4>1 DEF Said
    <3>3. [Said EXCEPT ![f][p] = k] \in [Frames -> [Players -> S]]
      BY <1>6, <3>1
    <3> HIDE DEF S
    <3> QED
      BY <2>2, <3>2, <3>3
  <2>4. Session!Say(f, p, k)
    BY <1>2, <2>1, <2>3, MappedSay
  <2> QED
    BY <1>6, <2>4 DEF Session!Next
<1>7. CASE p \notin Players
  <2>1. Said' = Said
    <3>1. ASSUME NEW g \in Frames, NEW q \in Players
          PROVE  (IF known'[g][q] THEN keys'[g][q] ELSE Nothing)
                   = (IF known[g][q] THEN keys[g][q] ELSE Nothing)
      BY <1>4, <1>7
    <3>2. ASSUME NEW g \in Frames
          PROVE  [q \in Players |-> IF known'[g][q] THEN keys'[g][q] ELSE Nothing]
                   = [q \in Players |-> IF known[g][q] THEN keys[g][q] ELSE Nothing]
      BY <3>1
    <3> QED
      BY <3>2 DEF Said
  <2> QED
    BY <1>2, <2>1, MappedStutter
<1> QED
  BY <1>6, <1>7

(* Every step of the engine is one of the lockstep session, or none.       *)
LEMMA StepIsLockstep ==
  ASSUME "input" \notin Liberties, "attach" \notin Liberties, Nothing \notin Keys,
         LockstepInv, LockstepInv', [Next]_vars
  PROVE  [Session!Next]_(Session!lockstepVars)
<1>1. CASE PresentFrame /\ PortRbFrame
  BY <1>1, HookSettles, SettlingPlays DEF PresentFrame
<1>2. CASE \E host \in Keys : RunFrame(host)
  BY <1>2, RunSettles, SettlingPlays
<1>3. CASE Boot \/ PortRbShutdown
  <2>1. keys' = NoKeys /\ known' = NoneKnown
    BY <1>3 DEF Boot, PortRbInit, PortRbShutdown
  <2>2. Players \subseteq Peers
    BY ConstantsAssumption, NumPeersAssumption DEF Players, Peers
  <2>3. Said' = [f \in Frames |-> [p \in Players |-> Nothing]]
    BY <2>1, <2>2 DEF Said, NoneKnown
  <2>4. Settled' = 0
    <3>1. CASE PortRbShutdown
      BY <3>1 DEF PortRbShutdown, Settled
    <3>2. CASE Boot
      <4>1. active' /\ confirmed' = 0 /\ mem' = mem /\ frameCount = 0
        BY <3>2 DEF Boot, AtBoot, PortRbInit, machine
      <4>2. Len(mem'.hist) = 0
        BY <4>1 DEF LockstepInv, Ground, RingInv
      <4> QED
        BY <4>1, <4>2 DEF Settled
    <3> QED
      BY <1>3, <3>1, <3>2
  <2>5. Played' = <<>>
    <3>1. Played' = [i \in 1 .. 0 |-> [p \in Players |-> mem'.hist[i].held[p]]]
      BY <2>4 DEF Played
    <3> QED
      BY <3>1
  <2> QED
    BY <2>3, <2>5, MappedLeave DEF Session!Next
<1>4. CASE LocalInput
  <2>1. PICK k \in Keys : PortRbSetLocalInput(k) /\ sFrame \in Frames /\ ~known[sFrame][Self]
    BY <1>4 DEF LocalInput
  <2>2. Self \in Peers
    BY ConstantsAssumption, NumPeersAssumption DEF Players, Peers
  <2> QED
    BY <2>1, <2>2, WordIsSaid DEF PortRbSetLocalInput, session, machine
<1>5. CASE PeerInput
  <2>1. PICK p \in Peers, f \in Frames, k \in Keys : PortRbConfirmInput(p, f, k)
    BY <1>5, ConstantsAssumption DEF PeerInput
  <2> QED
    BY <2>1, WordIsSaid DEF PortRbConfirmInput, Duplicate, machine
<1>6. CASE UNCHANGED <<keys, known, active, confirmed, mem>>
  <2>1. Said' = Said /\ Played' = Played
    BY <1>6 DEF Said, Played, Settled
  <2> QED
    BY <2>1, MappedStutter
<1> QED
  BY <1>1, <1>2, <1>3, <1>4, <1>5, <1>6
  DEF Next, PresentFrame, Attach, Close, Schedule, AtBound, vars,
      PortRbScheduleEvent, timeline, session, machine

(* The invariant of the refinement holds always.                           *)
LEMMA LockstepInvHolds ==
  ASSUME "confirm" \notin Liberties, "attach" \notin Liberties, Confirmers \subseteq Players
  PROVE  Spec /\ []SlotsAsSeated => []LockstepInv
<1>1. Init => FromNought /\ ConfirmedIsKnown
  BY DEF Init, FromNought, ConfirmedIsKnown
<1>2. FromNought /\ [Next]_vars => FromNought'
  <2> SUFFICES ASSUME FromNought, [Next]_vars PROVE FromNought'
    OBVIOUS
  <2>1. CASE PortRbFrame
    BY <2>1 DEF PortRbFrame, Simulate, FromNought
  <2>2. CASE Boot
    BY <2>2 DEF Boot, AtBoot, PortRbInit, FromNought
  <2>3. CASE PortRbShutdown
    BY <2>3 DEF PortRbShutdown, FromNought
  <2>4. CASE UNCHANGED <<active, base>>
    BY <2>4 DEF FromNought
  <2> QED
    BY <2>1, <2>2, <2>3, <2>4
    DEF Next, PresentFrame, RunFrame, Attach, Close, LocalInput, PeerInput, Schedule, AtBound, vars,
        PortRbSetLocalInput, PortRbConfirmInput, PortRbScheduleEvent, session, history
<1>3. TypeOK /\ ConfirmedIsKnown /\ [Next]_vars => ConfirmedIsKnown'
  BY ConfirmedStep
<1> QED
  BY GroundHolds, TypeCorrect, AgreedFramesStay, GameFollowsTimeline, <1>1, <1>2, <1>3, PTL
  DEF Spec, LockstepInv

(* Before anything has been said nothing has been played.                  *)
LEMMA InitIsLockstep == Init => Session!Init
<1> SUFFICES ASSUME Init PROVE Session!Init
  OBVIOUS
<1>1. Said = [f \in Frames |-> [p \in Players |-> Nothing]]
  <2>1. Players \subseteq Peers
    BY ConstantsAssumption, NumPeersAssumption DEF Players, Peers
  <2> QED
    BY <2>1 DEF Init, Said, NoneKnown
<1>2. Played = <<>>
  <2>1. Settled = 0
    BY DEF Init, Settled
  <2>2. Played = [i \in 1 .. 0 |-> [p \in Players |-> mem.hist[i].held[p]]]
    BY <2>1 DEF Played
  <2> QED
    BY <2>2
<1> QED
  BY <1>1, <1>2 DEF Session!Init, Session!Silence, Said, Played

(* A rollback session keeps the promise of a lockstep session: what is     *)
(* settled was played on the words the players gave, frame after frame,    *)
(* each word given once and none taken back.  The callers' part: nothing   *)
(* is delivered while frames are re-run, local input is reported once a    *)
(* frame, no session is attached from the await, and the words confirmed   *)
(* are those of players of the session, who keep their seats.              *)
THEOREM SessionIsLockstep ==
  ASSUME "confirm" \notin Liberties, "input" \notin Liberties, "attach" \notin Liberties,
         Confirmers \subseteq Players, Nothing \notin Keys
  PROVE  Spec /\ []SlotsAsSeated => PlaysLikeLockstep
<1>1. LockstepInv /\ LockstepInv' /\ [Next]_vars => [Session!Next]_(Session!lockstepVars)
  BY StepIsLockstep
<1> QED
  BY LockstepInvHolds, InitIsLockstep, <1>1, PTL DEF Spec, PlaysLikeLockstep, Session!Spec

(* The same of a session without events, as TLC runs it.                   *)
THEOREM SessionWithoutEventsIsLockstep ==
  ASSUME "confirm" \notin Liberties, "input" \notin Liberties, "attach" \notin Liberties,
         Confirmers \subseteq Players, Nothing \notin Keys, MaxEvents = 0
  PROVE  Spec => PlaysLikeLockstep
BY SessionIsLockstep, SeatsKept, PTL

=============================================================================
