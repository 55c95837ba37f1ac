-------------------------------- MODULE Host --------------------------------
(***************************************************************************)
(* The native host, platform/native/host_sdl.c: how a run begins, what     *)
(* happens between two frames of the game (events, input, the script of a  *)
(* test, the samples taken of the picture), and how frames are paced.      *)
(***************************************************************************)
EXTENDS Integers, Sequences, SequencesExt, FiniteSetsExt

CONSTANTS
  Period,        \* ticks of the performance counter in a frame
  Delay,         \* what SDL_Delay may add to the time it was asked for
  Works,         \* the ticks the game takes for a frame
  Devices,       \* controllers
  NumPads,       \* 4
  Colours,       \* what may be counted in a picture, which names it
  SampleEvery,   \* 30
  MaxHashes,     \* MAX_FRAME_HASHES
  MaxPresses,    \* MAX_PRESSES
  HostButtons,   \* the buttons held, on the keyboard or on a controller
  Commands,      \* command lines
  Scales,        \* of the keys 1 to 6, those used
  LastFrame,     \* bound: frames of a run
  MaxSeen        \* bound: the events seen between two frames

(* What a command line may give; no --mash is a start of -1. *)
CommandLines ==
  [turbo : BOOLEAN, limit : Int, scale : Int, full : BOOLEAN, hold : SUBSET STRING, mp : BOOLEAN, mpAt : Int,
   mash : [start : Int, stop : Int, period : Int, mask : SUBSET STRING],
   press : Seq([frame : Int, mask : SUBSET STRING])]

ASSUME HostAssumption ==
  /\ Period \in Nat \ {0} /\ Delay \in Nat \ {0} /\ Works \subseteq Nat /\ MaxPresses \in Nat
  /\ Commands \subseteq CommandLines

NoOne    == "none"
Detached == "detached"   \* what a handle is once its controller is gone
Files == {"missing", "empty", "short", "not a cartridge", "another game", "the game"}

VARIABLES
  opts,        \* what the command line left
  where,       \* "args", "await", "game", "events", "pace", "sleep", "exited", "off"
  rom,         \* the file PortRomLoaded was told of
  plugged,     \* the controllers SDL lists
  pads,        \* sPads
  full, scale, \* sFullscreen, sScale
  picture,     \* the framebuffer
  best, hashes,           \* sBestColours, sFrameHashes
  count,                  \* sFrames
  pressed,                \* sPressMask
  down,                   \* what PortSetKeys was given
  attached,               \* sMpAttached
  now, next,              \* the performance counter, and sNextFrame (0 before the first)
  live, begun, seen       \* history: the buttons people held, when pacing
                          \* began, and the events since the frame

runVars  == <<rom, plugged, pads, full, scale>>
viewVars == <<picture, best, hashes>>
playVars == <<count, pressed, down, attached, live>>
timeVars == <<now, next, begun>>
hostVars == <<opts, where, runVars, viewVars, playVars, timeVars, seen>>

-----------------------------------------------------------------------------
(* ParseArgs: a command line is a record of what was given.                *)

Parsed(c) ==
  [c EXCEPT !.scale = Min({16, Max({1, c.scale})}),
            !.press = SubSeq(c.press, 1, Min({MaxPresses, Len(c.press)})),
            !.mp    = c.mp \/ c.mpAt >= 0,
            !.mpAt  = IF c.mp /\ c.mpAt < 0 THEN 60 ELSE c.mpAt]

(* OpenPads: a pad that is in use holds up the search for a free one. *)
OpenPads(list, open) ==
  LET Try(at, device) == IF at.slot > NumPads \/ at.pads[at.slot] # NoOne THEN at
                         ELSE [slot |-> at.slot + 1, pads |-> [at.pads EXCEPT ![at.slot] = device]]
  IN  FoldLeft(Try, [slot |-> 1, pads |-> open], list).pads

(* PortHostInit: the command line, then the window and the pads. *)
PortHostInit ==
  /\ where = "args"
  /\ opts' = Parsed(opts) /\ scale' = opts'.scale /\ full' = opts.full
  /\ where' = IF opts.mash.start >= 0 /\ opts.mash.period < 2 THEN "exited" ELSE "await"
  /\ pads' = OpenPads(plugged, pads)
  /\ UNCHANGED <<rom, plugged, viewVars, playVars, timeVars, seen>>

LoadRom(file) == file \in {"another game", "the game"}

(* PortAwaitRom: the file that was named or picked, or one dropped later.  *)
(* A controller that comes meanwhile is not opened: its event is dropped.  *)
PortAwaitRom ==
  /\ where = "await"
  /\ \/ \E file \in Files :
          /\ IF LoadRom(file) THEN rom' = file /\ where' = "game" ELSE UNCHANGED <<rom, where>>
          /\ UNCHANGED plugged
     \/ \E d \in Devices \ ToSet(plugged) : plugged' = Append(plugged, d) /\ UNCHANGED <<rom, where>>
     \/ where' = "exited" /\ UNCHANGED <<rom, plugged>>
  /\ UNCHANGED <<opts, pads, full, scale, viewVars, playVars, timeVars, seen>>

-----------------------------------------------------------------------------
(* The game runs a frame, and comes to PortAwaitAnimationFrame. *)

GameFrame ==
  /\ where = "game" /\ where' = "events" /\ seen' = 0
  /\ \E work \in Works : now' = now + work
  /\ picture' \in Colours
  /\ UNCHANGED <<opts, runVars, best, hashes, playVars, next, begun>>

(* SampleFrame. *)
Sample ==
  /\ best' = Max({best, picture})
  /\ hashes' = IF Contains(hashes, picture) \/ Len(hashes) = MaxHashes THEN hashes
               ELSE Append(hashes, picture)

Shutdown == where' = "exited" /\ Sample

ToggleFullscreen == full' = ~full

(* HandleEvents, one event. *)
HandleEvents ==
  /\ where = "events" /\ seen < MaxSeen /\ seen' = seen + 1
  /\ \/ Shutdown /\ UNCHANGED runVars
     \/ /\ \/ \E d \in Devices \ ToSet(plugged) :
                /\ plugged' = Append(plugged, d) /\ pads' = OpenPads(plugged', pads)
                /\ UNCHANGED <<full, scale>>
           \/ \E d \in ToSet(plugged) :
                /\ plugged' = SelectSeq(plugged, LAMBDA e : e # d)
                /\ pads' = [n \in DOMAIN pads |-> IF pads[n] = d THEN Detached ELSE pads[n]]
                /\ UNCHANGED <<full, scale>>
           \/ ToggleFullscreen /\ UNCHANGED <<plugged, pads, scale>>
           \/ \E n \in Scales :
                /\ scale' = n /\ IF full THEN ToggleFullscreen ELSE UNCHANGED full
                /\ UNCHANGED <<plugged, pads>>
        /\ UNCHANGED <<rom, best, hashes, where>>
  /\ UNCHANGED <<opts, picture, playVars, timeVars>>

(* ReadInput: people, what is held, what is tapped, what was pressed last. *)
Mashed ==
  LET m == opts.mash
  IN  IF /\ m.start >= 0 /\ count >= m.start /\ (m.stop < 0 \/ count < m.stop)
         /\ (count - m.start) % m.period < m.period \div 2
        THEN m.mask ELSE {}

PressedNow == {k \in DOMAIN opts.press : opts.press[k].frame = count}

ReadInput ==
  /\ \E keyboard \in SUBSET HostButtons, held \in [Devices -> SUBSET HostButtons] :
       /\ \A d \in Devices : d \notin ToSet(pads) => held[d] = {}
       /\ live' = keyboard \cup UNION {held[d] : d \in Devices}
  /\ pressed' = IF PressedNow = {} THEN pressed ELSE opts.press[Max(PressedNow)].mask
  /\ down' = live' \cup opts.hold \cup Mashed \cup pressed'

PortAwaitAnimationFrame ==
  /\ where = "events" /\ count < LastFrame
  /\ ReadInput
  /\ attached' = (attached \/ (opts.mp /\ count >= opts.mpAt))
  /\ count' = count + 1
  /\ IF opts.limit >= 0 /\ count' >= opts.limit THEN Shutdown
     ELSE /\ where' = "pace"
          /\ IF count' % SampleEvery = 0 THEN Sample ELSE UNCHANGED <<best, hashes>>
  /\ UNCHANGED <<opts, runVars, picture, timeVars, seen>>

-----------------------------------------------------------------------------
(* PaceFrame. *)

(* Bug: however late the game is, it catches up. *)
NeverGivesUp(time, due) == FALSE
TooLate(time, due) == time > due + 4 * Period

PaceFrame ==
  /\ where = "pace"
  /\ IF opts.turbo THEN where' = "game" /\ UNCHANGED <<next, begun>>
     ELSE LET due == (IF next = 0 THEN now ELSE next) + Period
          IN /\ begun' = IF next = 0 THEN now ELSE begun
             /\ next'  = IF TooLate(now, due) THEN now ELSE due
             /\ where' = IF now < next' THEN "sleep" ELSE "game"
  /\ UNCHANGED <<opts, runVars, viewVars, playVars, now, seen>>

(* SDL_Delay, for less than what is left, or for nothing; it never takes   *)
(* less than it was asked for.                                             *)
Sleep ==
  /\ where = "sleep"
  /\ \E asked \in 0 .. next - now - 1, over \in 1 .. Delay : now' = now + asked + over
  /\ where' = IF now' < next THEN "sleep" ELSE "game"
  /\ UNCHANGED <<opts, runVars, viewVars, playVars, next, begun, seen>>

HostOff ==
  /\ rom = NoOne /\ pads = [p \in 1 .. NumPads |-> NoOne] /\ full = FALSE /\ scale = 3
  /\ picture = 0 /\ best = 0 /\ hashes = <<>> /\ count = 0 /\ pressed = {} /\ down = {} /\ live = {}
  /\ attached = FALSE /\ now = 1 /\ next = 0 /\ begun = 0 /\ seen = 0

HostInit ==
  /\ HostOff /\ where = "args" /\ opts \in Commands
  /\ \E n \in 0 .. Cardinality(Devices) : plugged = SubSeq(SetToSeq(Devices), 1, n)

HostNext ==
  \/ PortHostInit \/ PortAwaitRom \/ GameFrame \/ HandleEvents
  \/ PortAwaitAnimationFrame \/ PaceFrame \/ Sleep

-----------------------------------------------------------------------------
(* PROPERTIES                                                              *)

(* The last press of a command line up to a frame, if there is one.        *)
Past(o, f) == {k \in DOMAIN o.press : o.press[k].frame \in 0 .. f}
LastPress(o, f) ==
  {k \in Past(o, f) : \A j \in Past(o, f) : o.press[j].frame < o.press[k].frame
                                            \/ (o.press[j].frame = o.press[k].frame /\ j <= k)}
PressedBy(o, f) == UNION {o.press[k].mask : k \in LastPress(o, f)}

(* The taps that are down in a frame.                                      *)
Taps(m, f) ==
  {n \in 0 .. f : m.start >= 0 /\ n * m.period <= f - m.start
                  /\ f - m.start < n * m.period + m.period \div 2}
TappedAt(m, f) == IF Taps(m, f) # {} /\ (m.stop < 0 \/ f < m.stop) THEN m.mask ELSE {}

Scripted(o, f) == o.hold \cup PressedBy(o, f) \cup TappedAt(o.mash, f)

(* The game is never ahead of the clock, and never more than four frames   *)
(* behind what it will try to earn back, however long a frame took; and    *)
(* the script of a run depends on nothing but the number of the frame: not *)
(* on the clock, nor on what people did.                                   *)
OnTimeAndOnScript ==
  where = "game" /\ count > 0 =>
    /\ down = live \cup Scripted(opts, count - 1)
    /\ ~opts.turbo =>
         /\ count * Period <= now - begun
         /\ now - next <= 4 * Period + Delay
=============================================================================
