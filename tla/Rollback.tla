------------------------------ MODULE Rollback ------------------------------
(***************************************************************************)
(* platform/rollback.c and the part of PortPresentFrame (platform/main.c)  *)
(* it hooks: predict the players whose input has not arrived, keep         *)
(* simulating, and when the truth disagrees restore the snapshot of that   *)
(* frame and run the frames again.                                         *)
(*                                                                         *)
(* One turn of the game loop is two steps.  PresentFrame is everything up  *)
(* to the host's await: the hook PortRbFrame at the top of                 *)
(* PortPresentFrame.  RunFrame is everything after it: the key latch, the  *)
(* frame counter and the frame of the game.  Between them (phase "await")  *)
(* the transport is polled and the host or the page may call the API.      *)
(*                                                                         *)
(* A button word is a set of buttons.  The memory of the game is a         *)
(* function of what it has been fed, so it is the history of what each     *)
(* frame consumed, with the per-slot input words the engine itself reads   *)
(* back and writes.                                                        *)
(***************************************************************************)
EXTENDS SlotEvents

CONSTANTS
  Buttons,      \* the buttons of PORT_RB_KEYS_MASK
  NumPlayers,   \* sPlayers: the peers the engine predicts and waits for
  Self,         \* SelfId(): the id the transport gave this console
  Confirmers,   \* the peers a transport confirms input for
  Depth,        \* sDepth: snapshots in the ring
  EventSlack,   \* what PortRbSuggestEventFrame adds beyond the window (8)
  AiKeys,       \* what the AI holds on its odd frames
  Liberties,    \* what callers allow themselves, see below
  MaxFrame,     \* bound: the last frame the model simulates
  Lead,         \* bound: how far ahead of us a peer's input may be
  MaxEvents,    \* MAX_EVENTS
  Nothing       \* "has not spoken", in the abstract specification

(* Liberties of the callers, none of which the engine refuses:             *)
(*   "confirm"  deliver a peer's input while frames are being re-run       *)
(*   "input"    report local input on a re-run frame, or twice in a frame  *)
(*   "close"    end the session at any time                                *)
(*   "attach"   start a session from the await, as an exported call does   *)
AllLiberties == {"confirm", "input", "close", "attach"}

Keys   == SUBSET Buttons
Frames == 0 .. MaxFrame
Players == 0 .. NumPlayers - 1

ASSUME ConstantsAssumption ==
  /\ NumPlayers \in 1 .. NumPeers
  /\ Self \in Players
  /\ Confirmers \subseteq Peers
  /\ Depth \in Nat \ {0}
  /\ MaxFrame \in Nat
  /\ EventSlack \in Nat /\ Lead \in Nat /\ MaxEvents \in Nat
  /\ AiKeys \in Keys
  /\ Liberties \subseteq AllLiberties

VARIABLES
  keys, known, len,                 \* sTl: the input timeline
  events, slotPeer, slotsInPlay,    \* sEvents, sSlotPeer, sSlotsInPlay
  active, sFrame, confirmed,        \* sActive, sFrame, sConfirmed
  catchUp, catchUpTo,               \* sCatchUp (0, 1, 2), sCatchUpTo
  ring,                             \* sRing with sRingFrame and sRingValid
  mem, frameCount, keysDown,        \* what a snapshot holds
  render, phase,                    \* sRender; where the game loop stands
  base, newest                      \* history: first and next new frame

timeline == <<keys, known, len>>
slotting == <<events, slotPeer, slotsInPlay>>
session  == <<active, sFrame, confirmed, catchUp, catchUpTo>>
machine  == <<mem, frameCount, keysDown>>
history  == <<base, newest>>
vars == <<timeline, slotting, session, ring, machine, render, phase, history>>

-----------------------------------------------------------------------------
(* Game memory: the words at GAME_HELD, GAME_PRESSED, GAME_RELEASED and    *)
(* GAME_PLAYER_COUNT, and hist, one record of everything a finished frame  *)
(* was fed.                                                                *)
Words  == [Slots -> Keys]
Inputs == [held: Words, pressed: Words, released: Words, count: 0 .. NumPeers, pad: Keys]
Memory == [held: Words, pressed: Words, released: Words, count: 0 .. NumPeers, hist: Seq(Inputs)]

Snapshots  == [frame: Frames, mem: Memory, frameCount: 0 .. MaxFrame + 1, keysDown: Keys]
NoSnapshot == [frame |-> -1]

(* GAME_AI_INPUT is written by the game, so it too is a function of the    *)
(* memory; alternating is enough to tell two frames apart.                 *)
AiInput(m) == IF Len(m.hist) % 2 = 1 THEN AiKeys ELSE {}

NoWords == [s \in Slots |-> {}]
BootMemory == [held |-> NoWords, pressed |-> NoWords, released |-> NoWords, count |-> 0, hist |-> <<>>]

NoKeys    == [f \in Frames |-> [p \in Peers |-> {}]]
NoneKnown == [f \in Frames |-> [p \in Peers |-> FALSE]]
EmptyRing == [i \in 0 .. Depth - 1 |-> NoSnapshot]

AtLeast(a, b) == IF a >= b THEN a ELSE b

Entry(frame)   == ring[frame % Depth]
TooLate(frame) == sFrame >= Depth /\ frame + Depth <= sFrame

(* Bug: a slot of the ring is trusted whatever frame it was filled for. *)
AnySlotInRing(frame) == frame % Depth \in DOMAIN ring
InRing(frame)  == Entry(frame).frame = frame

(* Bug: the last player is left out of the loop. *)
KnownToMost(f) == \A p \in 0 .. NumPlayers - 2 : known[f][p]
KnownToAll(f)  == \A p \in Players : known[f][p]

(* Bug: len counts writes rather than frames. *)
OneLonger(frame) == len + 1
LenWith(frame)   == AtLeast(len, frame + 1)

-----------------------------------------------------------------------------
Init ==
  /\ keys = NoKeys /\ known = NoneKnown /\ len = 0
  /\ events = <<>> /\ slotPeer = FirstSlotMap(0) /\ slotsInPlay = NumPeers
  /\ active = FALSE /\ sFrame = 0 /\ confirmed = 0 /\ catchUp = "idle" /\ catchUpTo = 0
  /\ ring = EmptyRing
  /\ mem = BootMemory /\ frameCount = 0 /\ keysDown = {}
  /\ render = TRUE /\ phase = "hook"
  /\ base = 0 /\ newest = 0

(* Bug: sRingValid is not cleared for the new session. *)
StaleRing == ring
ClearedRing == EmptyRing

(* The session is numbered from the frame counter of the moment. *)
PortRbInit ==
  /\ frameCount \in Frames
  /\ keys' = NoKeys /\ known' = NoneKnown /\ len' = frameCount
  /\ events' = <<>> /\ slotPeer' = FirstSlotMap(NumPlayers) /\ slotsInPlay' = NumPeers
  /\ active' = TRUE /\ sFrame' = frameCount /\ confirmed' = frameCount
  /\ catchUp' = "idle" /\ UNCHANGED catchUpTo
  /\ ring' = ClearedRing
  /\ base' = frameCount /\ newest' = frameCount
  /\ UNCHANGED <<machine, render, phase>>

PortRbShutdown ==
  /\ active
  /\ keys' = NoKeys /\ known' = NoneKnown /\ len' = 0
  /\ events' = <<>>
  /\ active' = FALSE /\ catchUp' = "idle"
  /\ ring' = EmptyRing
  /\ UNCHANGED <<slotPeer, slotsInPlay, sFrame, confirmed, catchUpTo, machine, render, phase, history>>

(* The local word for the frame about to run.  Nothing asks whether that   *)
(* frame already has one, or whether it is being run again.                *)
PortRbSetLocalInput(k) ==
  /\ active /\ sFrame \in Frames
  /\ keys' = [keys EXCEPT ![sFrame][Self] = k]
  /\ known' = [known EXCEPT ![sFrame][Self] = TRUE]
  /\ len' = LenWith(sFrame)
  /\ UNCHANGED <<slotting, session, ring, machine, render, phase, history>>

(* Bug: the first rollback asked for is the one performed. *)
FirstComeFirstServed(frame) == catchUp = "idle"
(* A request replaces a shallower one, but also counts as one while frames *)
(* are being re-run.                                                       *)
Deeper(frame) == catchUp = "idle" \/ frame < catchUpTo

(* Bug: a second word for a frame replaces the first. *)
NeverDuplicate(p, frame) == FALSE
Duplicate(p, frame) == known[frame][p]

(* A peer's word for a frame.  One that is too late for the ring, or for a *)
(* frame already known, is dropped and changes nothing but a counter.  A   *)
(* word that differs from the one a simulated frame ran on asks for a      *)
(* rollback, which the next hook performs.                                 *)
PortRbConfirmInput(p, frame, k) ==
  /\ active /\ ~TooLate(frame) /\ ~Duplicate(p, frame)
  /\ keys' = [keys EXCEPT ![frame][p] = k]
  /\ known' = [known EXCEPT ![frame][p] = TRUE]
  /\ len' = IF frame < sFrame THEN len ELSE LenWith(frame)
  /\ IF frame < sFrame /\ keys[frame][p] # k /\ InRing(frame) /\ Deeper(frame)
       THEN catchUp' = "asked" /\ catchUpTo' = frame
       ELSE UNCHANGED <<catchUp, catchUpTo>>
  /\ UNCHANGED <<slotting, active, sFrame, confirmed, ring, machine, render, phase, history>>

PortRbScheduleEvent(e) ==
  /\ active /\ Len(events) < MaxEvents
  /\ \E k \in 0 .. Len(events) :
       InsertedAfter(events, e, k) /\ events' = Insert(events, e, k)
  /\ UNCHANGED <<timeline, slotPeer, slotsInPlay, session, ring, machine, render, phase, history>>

PortRbSuggestEventFrame == sFrame + Depth + EventSlack

-----------------------------------------------------------------------------
(* The prediction: a player keeps holding what they were last known to. *)
LastKnown(p, frame, f) ==
  /\ f < frame /\ f < len /\ known[f][p]
  /\ \A g \in Frames : f < g /\ g < frame => ~(g < len /\ known[g][p])

PredictFor(p, frame) ==
  IF \E f \in Frames : LastKnown(p, frame, f)
    THEN keys[CHOOSE f \in Frames : LastKnown(p, frame, f)][p]
    ELSE {}

(* What the frame will run on, a guess written back where nothing is known. *)
InputsFor(frame) ==
  [p \in Peers |-> IF p \in Players /\ ~known[frame][p] THEN PredictFor(p, frame) ELSE keys[frame][p]]

(* Bug: the word in memory is read after it has been replaced. *)
NoEdges(m, row, map, count) ==
  LET held == [s \in Slots |-> IF s >= count THEN m.held[s]
                               ELSE IF map[s] \in Peers THEN row[map[s]] ELSE AiInput(m)]
  IN [held |-> held, pressed |-> NoWords, released |-> NoWords, count |-> count, hist |-> m.hist]

(* Every slot in play gets its driver's word, and the edges against the    *)
(* word that was in memory.                                                *)
ApplySlotInputs(m, row, map, count) ==
  LET now(s) == IF s >= count THEN m.held[s]
                ELSE IF map[s] \in Peers THEN row[map[s]] ELSE AiInput(m)
  IN [held |-> [s \in Slots |-> now(s)],
      pressed |-> [s \in Slots |-> IF s >= count THEN m.pressed[s] ELSE now(s) \ m.held[s]],
      released |-> [s \in Slots |-> IF s >= count THEN m.released[s] ELSE m.held[s] \ now(s)],
      count |-> count, hist |-> m.hist]

(* Known for every player as far as it goes, and no further. *)
AdvanceConfirmed(upTo) ==
  \E c \in confirmed .. upTo :
    /\ \A f \in confirmed .. c - 1 : KnownToAll(f)
    /\ c < upTo => ~KnownToAll(c)
    /\ confirmed' = c

(* The point the frame starts from: where the game stands, or the snapshot *)
(* a rollback restores (LoadFrom).  The slot map is not part of it.        *)
Here == [frame |-> sFrame, mem |-> mem, frameCount |-> frameCount, keysDown |-> keysDown]

(* Bugs: the memory is not restored (PORT_RB_BREAK=2 does this on purpose), *)
(* or the frame counter outside the map is not.                             *)
MemoryNotRestored ==
  IF catchUp = "asked" THEN [Entry(catchUpTo) EXCEPT !.mem = mem] ELSE Here
CounterNotRestored ==
  IF catchUp = "asked" THEN [Entry(catchUpTo) EXCEPT !.frameCount = frameCount] ELSE Here
StartingPoint == IF catchUp = "asked" THEN Entry(catchUpTo) ELSE Here

(* Bug: waiting for a frame past the timeline. *)
CaughtUpPastTheEnd(frame) == catchUp # "idle" /\ frame >= catchUpTo /\ frame > len
CaughtUp(frame) == catchUp # "idle" /\ frame >= catchUpTo /\ frame >= len - 1

(* Bug: the picture is taken away after the test that gives it back. *)
DarkFirst(frame) == IF catchUp = "asked" THEN FALSE ELSE IF CaughtUp(frame) THEN TRUE ELSE render
RenderFrom(frame) == IF CaughtUp(frame) THEN TRUE ELSE IF catchUp = "asked" THEN FALSE ELSE render

(* Bug: frames being re-run are not snapshotted again. *)
SavedOnce(point) == IF catchUp = "idle" THEN [ring EXCEPT ![point.frame % Depth] = point] ELSE ring
SaveTo(point) == [ring EXCEPT ![point.frame % Depth] = point]

(* The hook from its "Caught up?" test on, starting at from; the snapshot  *)
(* is taken last, with the frame's inputs already in memory.               *)
Simulate(from) ==
  LET f == from.frame
      row == InputsFor(f)
      map == SlotMapAfter(slotPeer, events, f)
      count == SlotsInPlayAfter(slotsInPlay, events, f)
      fed == ApplySlotInputs(from.mem, row, map, count)
  IN /\ catchUp' = IF CaughtUp(f) \/ catchUp = "idle" THEN "idle" ELSE "resim"
     /\ render' = RenderFrom(f)
     /\ slotPeer' = map /\ slotsInPlay' = count
     /\ keys' = [keys EXCEPT ![f] = row]
     /\ len' = LenWith(f)
     /\ mem' = fed /\ keysDown' = row[Self] /\ frameCount' = from.frameCount
     /\ ring' = SaveTo([frame |-> f, mem |-> fed, frameCount |-> from.frameCount,
                        keysDown |-> row[Self]])
     /\ AdvanceConfirmed(LenWith(f))
     /\ sFrame' = f + 1
     /\ newest' = AtLeast(newest, f + 1)
     /\ UNCHANGED <<known, events, active, catchUpTo, base>>

PortRbFrame ==
  /\ active /\ StartingPoint.frame \in Frames
  /\ Simulate(StartingPoint)

PresentFrame ==
  /\ phase = "hook" /\ phase' = "await"
  /\ \/ PortRbFrame
     \/ ~active /\ UNCHANGED <<timeline, slotting, session, ring, machine, render, history>>

(* The latch at the end of PortPresentFrame: the timeline wins over the    *)
(* host whenever it reaches the current frame (PortRbKeyOverride).         *)
UpdateKeyInput(host) ==
  IF active /\ frameCount < len THEN keys[frameCount][Self] ELSE host

RunFrame(host) ==
  /\ phase = "await" /\ phase' = "hook"
  /\ frameCount \in Frames
  /\ LET pad == UpdateKeyInput(host)
         consumed == [held |-> mem.held, pressed |-> mem.pressed, released |-> mem.released,
                      count |-> mem.count, pad |-> pad]
     IN keysDown' = pad /\ mem' = [mem EXCEPT !.hist = Append(@, consumed)]
  /\ frameCount' = frameCount + 1
  /\ UNCHANGED <<timeline, slotting, session, ring, render, history>>

-----------------------------------------------------------------------------
(* The callers.  The transport is polled and the page may call while the   *)
(* frame is in flight; the host may also call before the first frame.      *)
AtBoot  == phase = "hook" /\ frameCount = 0
MayCall == phase = "await" \/ AtBoot

Boot   == AtBoot /\ ~active /\ PortRbInit
Attach == phase = "await" /\ "attach" \in Liberties /\ PortRbInit
Close  == MayCall /\ "close" \in Liberties /\ PortRbShutdown

LocalInput ==
  /\ MayCall
  /\ "input" \in Liberties \/ (catchUp = "idle" /\ sFrame \in Frames /\ ~known[sFrame][Self])
  /\ \E k \in Keys : PortRbSetLocalInput(k)

PeerInput ==
  /\ MayCall
  /\ "confirm" \in Liberties \/ catchUp # "resim"
  /\ \E p \in Confirmers, frame \in Frames, k \in Keys :
       frame <= sFrame + Lead /\ PortRbConfirmInput(p, frame, k)

Schedule ==
  /\ MayCall /\ PortRbSuggestEventFrame \in Frames
  /\ \E e \in Events({PortRbSuggestEventFrame}) : PortRbScheduleEvent(e)

(* The model, not the game, ends here. *)
AtBound == frameCount > MaxFrame /\ catchUp # "asked" /\ UNCHANGED vars

Next ==
  \/ PresentFrame
  \/ \E host \in Keys : RunFrame(host)
  \/ Boot \/ Attach \/ Close
  \/ LocalInput \/ PeerInput \/ Schedule
  \/ AtBound

Spec == Init /\ [][Next]_vars

(* The game loop keeps turning: VBlankIntrWait always returns. *)
Fairness == WF_vars(PresentFrame) /\ WF_vars(\E host \in Keys : RunFrame(host))
FairSpec == Spec /\ Fairness

-----------------------------------------------------------------------------
(* PROPERTIES                                                              *)

(* Every variable keeps its type, snapshots and history included. *)
TypeOK ==
  /\ keys \in [Frames -> [Peers -> Keys]] /\ known \in [Frames -> [Peers -> BOOLEAN]]
  /\ len \in 0 .. MaxFrame + 1
  /\ events \in Seq(Events(Nat)) /\ slotPeer \in SlotMaps /\ slotsInPlay \in 1 .. NumPeers
  /\ active \in BOOLEAN
  /\ sFrame \in 0 .. MaxFrame + 1 /\ confirmed \in 0 .. MaxFrame + 1
  /\ catchUp \in {"idle", "resim", "asked"} /\ catchUpTo \in Frames
  /\ ring \in [0 .. Depth - 1 -> Snapshots \cup {NoSnapshot}]
  /\ mem \in Memory /\ frameCount \in 0 .. MaxFrame + 1 /\ keysDown \in Keys
  /\ render \in BOOLEAN /\ phase \in {"hook", "await"}
  /\ base \in Frames /\ newest \in 0 .. MaxFrame + 1

(* A rollback that has been asked for can be done: its frame was simulated *)
(* and its snapshot has not been overwritten, whatever was delivered,      *)
(* re-run or asked for in between.                                         *)
RollbackTargetHeld ==
  catchUp = "asked" =>
    /\ Entry(catchUpTo).frame = catchUpTo
    /\ catchUpTo < sFrame /\ sFrame - catchUpTo < Depth

(* What sConfirmed says: every player's input is known below it. *)
ConfirmedIsKnown ==
  active => \A f \in base .. confirmed - 1 : KnownToAll(f)

(* Agreed frames stay agreed: no rollback ever reaches below sConfirmed,   *)
(* so what a frame did may be reported or saved once it is confirmed.      *)
NeverRollsBackConfirmed ==
  catchUp = "asked" => confirmed <= catchUpTo

(* A snapshot of a frame already passed is a point of the history the game *)
(* is on, never of one that a rollback abandoned.                          *)
SnapshotsOnHistory ==
  \A i \in DOMAIN ring :
    LET snap == ring[i]
    IN snap.frame # -1 /\ snap.frame < sFrame =>
         /\ Len(snap.mem.hist) <= Len(mem.hist)
         /\ snap.mem.hist = SubSeq(mem.hist, 1, Len(snap.mem.hist))

(* The engine and main.c number the frames alike. *)
FrameNumbersAgree ==
  active => sFrame = frameCount + (IF phase = "await" THEN 1 ELSE 0)

(* The words frame f was run on; the frame of the moment is in memory. *)
RunOn(f) == IF f < Len(mem.hist) THEN mem.hist[f + 1].held ELSE mem.held

(* Outside the frames a pending rollback will re-run, the buttons the game *)
(* saw held, for every player and in the key register, are those the       *)
(* timeline now says.  It says nothing of the edges, pressed and released, *)
(* which have properties of their own below; two consoles whose timelines  *)
(* are equal need not have seen the same edges.                            *)
(* (Peers keep the slots they start with; the map has properties below.)   *)
SimulatedAsRecorded ==
  active =>
    \A f \in base .. sFrame - 1 :
      \/ catchUp = "asked" /\ f >= catchUpTo
      \/ /\ \A p \in Players : RunOn(f)[p] = keys[f][p]
         /\ f < Len(mem.hist) => mem.hist[f + 1].pad = keys[f][Self]

(* A confirmation that disagrees with a prediction already simulated is    *)
(* what triggers a rollback.                                               *)
DisagreementRollsBack ==
  [][\A f \in Frames, p \in Peers :
       (/\ ~known[f][p] /\ known'[f][p] /\ f < sFrame
        /\ keys'[f][p] # keys[f][p] /\ InRing(f))
       => catchUp' = "asked" /\ catchUpTo' <= f]_vars

(* The timeline, never the host, is what the game reads. *)
TimelineDrivesTheLatch ==
  [][(phase = "await" /\ phase' = "hook" /\ active /\ sFrame > base)
       => keysDown' = keys[sFrame - 1][Self]]_vars

(* A word that is known for a frame already simulated stays what it is:    *)
(* the timeline is appended to, not rewritten.                             *)
HistoryIsAppendOnly ==
  [][\A f \in Frames, p \in Peers :
       active /\ active' /\ f < newest /\ known[f][p] => keys'[f][p] = keys[f][p]]_vars

(* A peer drives at most one Kirby, whatever slot events are scheduled, in *)
(* whatever order, applied once or again after a rollback.                 *)
OneSlotPerPeer == Injective(slotPeer)

(* What frame f was given; the frame of the moment is in memory. *)
GivenAt(f) == IF f < Len(mem.hist) THEN mem.hist[f + 1] ELSE mem

(* The edges from one row of the timeline to the next. *)
EdgesBetween(given, before, now) ==
  \A p \in Players :
    given.pressed[p] = now[p] \ before[p] /\ given.released[p] = before[p] \ now[p]


(* The frame a rollback restores is the only one that loses its edges:     *)
(* every other, re-run or not, guessed or known, is given the edges of the *)
(* timeline.                                                               *)
EdgesUnlessRestored ==
  [][(phase = "hook" /\ phase' = "await" /\ active /\ catchUp # "asked" /\ sFrame > base)
       => EdgesBetween(mem', keys'[sFrame - 1], keys'[sFrame])]_vars

(* The picture comes back after a rollback, and after every other one that *)
(* is asked for before it has, as long as the session lasts and no peer    *)
(* runs ahead.  A word past the next new frame moves the end of the        *)
(* catch-up, and a peer that stays ahead moves it for ever; the bound on   *)
(* frames would end that in the model, so the condition says it instead.   *)
CatchUpEnds ==
  ~render /\ [](active /\ len <= newest + 1) ~> render

(* The picture is off and nothing is left to run again. *)
LeftDark == catchUp = "idle" /\ ~render

(* The end of a catch-up gives back the picture its re-run had taken, even *)
(* when the frame restored is the last one: only a session that is ended,  *)
(* or replaced, before that frame leaves the picture off.                  *)
DarkOnlyCatchingUp ==
  [][LeftDark' => LeftDark \/ (~render /\ (PortRbShutdown \/ PortRbInit))]_vars

-----------------------------------------------------------------------------
(* What a session promises, as a lockstep session would keep it: the       *)
(* frames settled so far are exactly the inputs the players gave.          *)
Settled == IF active THEN IF confirmed <= Len(mem.hist) THEN confirmed ELSE Len(mem.hist) ELSE 0

Session == INSTANCE Lockstep WITH
  said <- [f \in Frames |-> [p \in Players |-> IF known[f][p] THEN keys[f][p] ELSE Nothing]],
  played <- [i \in 1 .. Settled |-> [p \in Players |-> mem.hist[i].held[p]]]

PlaysLikeLockstep == Session!Spec
=============================================================================
