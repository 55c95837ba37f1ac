------------------------------- MODULE Frame --------------------------------
(***************************************************************************)
(* A frame of the port: PortPresentFrame of platform/main.c with the       *)
(* scanline loop of platform/ppu.c, the channels of platform/dma.c, the    *)
(* VBlank window the transfers use up, the interrupts the game lets in,    *)
(* and the self test of platform/rollback.c that runs a frame twice.       *)
(* Before the first frame the memory map is reserved.                      *)
(*                                                                         *)
(* The picture and the link cable are in modules of their own; the game    *)
(* is external, and what it does is a choice from Requests.  The self test *)
(* replays the game: in its second pass the choices come from a tape.      *)
(***************************************************************************)
EXTENDS Dma, FiniteSets

CONSTANTS
  Lines,        \* SCREEN_H
  Budget,       \* PORT_VBLANK_BUDGET_BYTES, in halfwords
  Requests,     \* what the game asks of the channels: [channel, src, dest, control]
  Masks,        \* what the game lets in: IME, IE and the enable bits of DISPSTAT
  Raised,       \* what the link cable raises in a frame, with "none"
  KeySets,      \* what the host says is held
  MaxCalls,     \* bound: calls of the game
  MaxFrame,     \* bound: frames
  TestAt        \* the frame of the self test; its span is one frame

ASSUME FrameAssumption ==
  /\ Lines \in Nat \ {0} /\ Budget \in Nat \ {0} /\ MaxCalls \in Nat
  /\ MaxFrame \in Nat /\ TestAt \in 0 .. MaxFrame - 1
  /\ Requests \subseteq [channel : Channels, src : Nat, dest : Nat, control : Controls]
  /\ \A m \in Masks : m.ie \subseteq {"serial", "timer3", "vblank", "hblank", "vcount"}
  /\ Raised \subseteq {"none", "serial", "timer3"}

VARIABLES
  phase,     \* where the port is: see TypeOK
  space,     \* who owns which cell, the host, its page and the window
  span,      \* the spans reserved so far
  memo,      \* sMemoPage and sMemoOk
  bad,       \* sBadByShape as the shapes seen
  ch, enable,  \* sChannels, and the enable bits in their registers
  budget, frame, keys,   \* PortFrameState
  vblank, vcount,        \* DISPSTAT and VCOUNT
  mask,      \* the game's masks
  keyinput,  \* KEYINPUT, as the keys it stands for
  affine,    \* sAffineX in lines since the latch
  seen, copied,  \* the console's memory, as what has been done to it: the
             \* handlers of gIntrTable run, and the halfwords moved into it
  line,      \* of the scanline loop
  render,    \* sRender
  test,      \* sTestPhase: "armed", "first", "second", "passed", "failed"
  snap, end, \* sTestSnap and sTestHashEnd
  tape,      \* sTestKeys, and the game's choices with them
  calls,     \* bound
  moved,     \* history: halfwords moved since the window opened
  cells,     \* history: the cells the last transfer touched
  excused    \* history: what the test's frame has met that a snapshot leaves out

memVars  == <<space, span, memo, bad>>
simVars  == <<ch, enable, budget, frame, keys, vblank, vcount, mask, keyinput, affine, seen, copied>>
testVars == <<test, snap, end, tape>>
vars == <<phase, memVars, simVars, line, render, testVars, calls, moved, cells, excused>>

(* What a snapshot holds: the channels, the frame state, the reference     *)
(* points and the console's memory; the hash is of the memory without the *)
(* registers.                                                              *)
Snapshot ==
  [ch |-> ch, enable |-> enable, budget |-> budget, frame |-> frame, keys |-> keys,
   vblank |-> vblank, vcount |-> vcount, mask |-> mask, keyinput |-> keyinput,
   affine |-> affine, seen |-> seen, copied |-> copied]
Hash == [seen |-> seen, copied |-> copied]

NoHandlers == [i \in 0 .. 7 |-> 0]

Snapshots ==
  [ch : [Channels -> Channel], enable : [Channels -> BOOLEAN], budget : Int, frame : 0 .. MaxFrame,
   keys : KeySets \cup {0}, vblank : BOOLEAN, vcount : Nat, mask : Masks, keyinput : KeySets \cup {0},
   affine : Nat, seen : [0 .. 7 -> Nat], copied : Nat]

TypeOK ==
  /\ phase \in {"reserve", "fatal", "game", "hook", "render", "line", "vblank", "handler"}
  /\ space \in [host : {"posix", "win32"}, page : Nat \ {0}, owner : [Cells -> Others \cup {"ours"}],
                lo : Nat, hi : Nat]
  /\ span \in Nat
  /\ memo \in [page : Int, ok : BOOLEAN] /\ bad \subseteq SUBSET {"src", "dest"}
  /\ Snapshot \in Snapshots
  /\ line \in 0 .. Lines /\ render \in BOOLEAN
  /\ test \in {"armed", "first", "second", "passed", "failed"}
  /\ test = "first" => snap \in Snapshots
  /\ calls \in 0 .. MaxCalls /\ moved \in Nat /\ cells \subseteq Cells

Init ==
  /\ phase = "reserve" /\ span = 0 /\ memo = NoMemo /\ bad = {}
  /\ \E w \in Worlds :
       space = [host |-> w.host, page |-> w.page, owner |-> w.owner, lo |-> Top, hi |-> 0]
  /\ ch = [c \in Channels |-> Idle] /\ enable = [c \in Channels |-> FALSE]
  /\ budget = 0 /\ frame = 0 /\ keys = 0 /\ keyinput = 0
  /\ vblank = FALSE /\ vcount = 0 /\ mask \in Masks
  /\ affine = 0 /\ seen = NoHandlers /\ copied = 0 /\ line = 0 /\ render = TRUE
  /\ test = "armed" /\ snap = <<>> /\ end = <<>> /\ tape = <<>>
  /\ calls = 0 /\ moved = 0 /\ cells = {} /\ excused = {}

-----------------------------------------------------------------------------
(* PortNativeReserveMap: one span a step, and out if one is not free.      *)
Spans == Coalesce(space.page)

ReserveSpan ==
  /\ phase = "reserve" /\ span < Len(Spans)
  /\ LET s == Spans[span + 1]
     IN  IF AlreadyTaken(space.owner, s) # {}
           THEN phase' = "fatal" /\ UNCHANGED <<space, span>>
           ELSE /\ space' = [space EXCEPT
                     !.owner = [c \in Cells |-> IF c \in Span(s.base, s.size) THEN "ours" ELSE @[c]],
                     !.lo = IF s.base < @ THEN s.base ELSE @,
                     !.hi = IF s.base + s.size > @ THEN s.base + s.size ELSE @]
                /\ span' = span + 1 /\ UNCHANGED phase
  /\ UNCHANGED <<memo, bad, simVars, line, render, testVars, calls, moved, cells, excused>>

(* The probe of both ends, PortMemInit, the ROM and the first key latch.   *)
AgbMain ==
  /\ phase = "reserve" /\ span = Len(Spans)
  /\ phase' = "game"
  /\ keyinput' = keys
  /\ UNCHANGED <<memVars, ch, enable, budget, frame, keys, vblank, vcount, mask, affine, seen,
                 copied, line, render, testVars, calls, moved, cells, excused>>

-----------------------------------------------------------------------------
(* PortVBlankConsume, and PortVBlankEnd when the window is used up: the    *)
(* window [vblank, vcount, budget] after some halfwords.                   *)
Consumed(w, n) ==
  CASE ~w.vblank -> w
    [] w.vblank /\ w.budget - n <= 0 -> [vblank |-> FALSE, vcount |-> 0, budget |-> 0]
    [] OTHER -> [w EXCEPT !.budget = @ - n]

Window == [vblank |-> vblank, vcount |-> vcount, budget |-> budget]
WindowIs(w) == vblank' = w.vblank /\ vcount' = w.vcount /\ budget' = w.budget

(* RunTiming: the armed channels of one timing, in order.                  *)
Runs(table, c, timing) == table[c].armed /\ table[c].timing = timing

AfterChannel(st, c, timing) ==
  IF ~Runs(st.ch, c, timing) THEN st
  ELSE LET r == RunTransfer(space, st.memo, st.ch[c])
       IN  [ch |-> [st.ch EXCEPT ![c] = r.ch], memo |-> r.memo,
            bad |-> IF r.bad = {} THEN st.bad ELSE st.bad \cup {r.bad},
            window |-> Consumed(st.window, r.bytes),
            moved |-> st.moved + r.bytes, cells |-> st.cells \cup r.cells]

RunTiming(start, timing) ==
  LET after[n \in 0 .. NumChannels] ==
        IF n = 0 THEN start ELSE AfterChannel(after[n - 1], n - 1, timing)
  IN  after[NumChannels]

(* The memo's answer for its page is that of a longer range. *)
StaleMemo(m) ==
  IF m.ok # AddrValid(space.host, space.owner, space.page, m.page, 1) THEN {"memo"} ELSE {}

Start(w) == [ch |-> ch, memo |-> memo, bad |-> bad, window |-> w, moved |-> 0, cells |-> {}]

Ran(st, already, met) ==
  /\ ch' = st.ch /\ memo' = st.memo /\ bad' = st.bad /\ WindowIs(st.window)
  /\ moved' = already + st.moved /\ copied' = copied + st.moved /\ cells' = st.cells
  /\ excused' = excused \cup met \cup StaleMemo(st.memo)

-----------------------------------------------------------------------------
(* PortDispatchInterrupt: the index of gIntrTable called, if any.  Timer 3 *)
(* and the serial unit share index 0 and either enable bit.                *)
Index == [serial |-> 0, vblank |-> 1, hblank |-> 2, vcount |-> 3, timer3 |-> 0]

LetIn(flag) ==
  mask.ime /\ IF flag \in {"serial", "timer3"} THEN {"serial", "timer3"} \cap mask.ie # {}
                                               ELSE flag \in mask.ie

Dispatched(handlers, flag) ==
  IF LetIn(flag) THEN [handlers EXCEPT ![Index[flag]] = @ + 1] ELSE handlers

(* A choice of the game or the host: recorded in the first pass of the     *)
(* self test and taken from the record in the second.                      *)
Chosen(x) ==
  CASE test = "first"  -> tape' = Append(tape, x)
    [] test = "second" -> tape # <<>> /\ x = Head(tape) /\ tape' = Tail(tape)
    [] OTHER           -> UNCHANGED tape

-----------------------------------------------------------------------------
(* The game, between two frames or in its VBlank handler.                  *)
GameRuns == phase \in {"game", "handler"}
Bounded  == test = "second" \/ calls < MaxCalls
OneCall  == calls' = IF test = "second" THEN calls ELSE calls + 1

(* PortDmaSet: an immediate transfer runs now, and clears its enable bit.  *)
PortDmaSet(r) ==
  /\ GameRuns /\ Bounded /\ Chosen(<<"dma", r>>) /\ OneCall
  /\ LET set == [ch EXCEPT ![r.channel] = ChannelSet(r.src, r.dest, r.control)]
         now == r.control.enable /\ r.control.timing = "now"
         st  == [Start(Window) EXCEPT !.ch = set]
     IN  /\ Ran(IF now THEN AfterChannel(st, r.channel, "now") ELSE st, moved, {})
         /\ enable' = [enable EXCEPT ![r.channel] = r.control.enable /\ ~now]
  /\ UNCHANGED <<phase, space, span, frame, keys, mask, keyinput, affine, seen,
                 line, render, test, snap, end>>

PortDmaStop(c) ==
  /\ GameRuns /\ Bounded /\ Chosen(<<"stop", c>>) /\ OneCall
  /\ ch[c].armed
  /\ ch' = [ch EXCEPT ![c] = Stopped(@)] /\ enable' = [enable EXCEPT ![c] = FALSE]
  /\ cells' = {}
  /\ UNCHANGED <<phase, memVars, budget, frame, keys, vblank, vcount, mask, keyinput, affine, seen,
                 copied, line, render, test, snap, end, moved, excused>>

(* CpuSet and CpuFastSet, which rounds its count up to eight words: what   *)
(* is copied is the game's, how much of the window it costs is here.       *)
CpuSet(n) ==
  /\ GameRuns /\ Bounded /\ Chosen(<<"cpu", n>>) /\ OneCall
  /\ WindowIs(Consumed(Window, n)) /\ moved' = moved + n /\ copied' = copied + n
  /\ cells' = {}
  /\ UNCHANGED <<phase, memVars, ch, enable, frame, keys, mask, keyinput, affine, seen,
                 line, render, test, snap, end, excused>>

(* SoundMain, which ends the window first, then the spin at the tail of    *)
(* GameLoop and VBlankIntrWait.                                            *)
SoundMain ==
  /\ phase = "game" /\ Chosen(<<"wait">>)
  /\ phase' = "hook"
  /\ WindowIs([vblank |-> FALSE, vcount |-> 0, budget |-> 0])
  /\ cells' = {}
  /\ UNCHANGED <<memVars, ch, enable, frame, keys, mask, keyinput, affine, seen,
                 copied, line, render, test, snap, end, calls, moved, excused>>

-----------------------------------------------------------------------------
(* PortRbSelfTestStep, at the top of PortPresentFrame.                     *)
Presenting == phase' = "render"

TestSnapshot ==
  /\ test = "armed" /\ frame = TestAt
  /\ test' = "first" /\ snap' = Snapshot /\ tape' = <<>> /\ excused' = StaleMemo(memo)
  /\ Presenting
  /\ UNCHANGED <<memVars, simVars, line, render, end, calls, moved, cells>>

(* Bug: the channels are not part of the snapshot. *)
ChannelsStay(s) == ch
ChannelsLoaded(s) == s.ch

(* LoadFrom, and the picture off for the second pass. *)
TestRestore ==
  /\ test = "first" /\ frame = TestAt + 1
  /\ test' = "second" /\ end' = Hash
  /\ ch' = ChannelsLoaded(snap) /\ enable' = snap.enable /\ budget' = snap.budget
  /\ frame' = snap.frame /\ keys' = snap.keys /\ vblank' = snap.vblank /\ vcount' = snap.vcount
  /\ mask' = snap.mask /\ keyinput' = snap.keyinput /\ affine' = snap.affine
  /\ seen' = snap.seen /\ copied' = snap.copied
  /\ render' = FALSE /\ cells' = {}
  /\ Presenting
  /\ UNCHANGED <<memVars, line, snap, tape, calls, moved, excused>>

TestVerdict ==
  /\ test = "second" /\ frame = TestAt + 1
  /\ test' = IF Hash = end THEN "passed" ELSE "failed"
  /\ render' = TRUE
  /\ Presenting
  /\ UNCHANGED <<memVars, simVars, line, snap, end, tape, calls, moved, cells, excused>>

NoTestStep ==
  /\ ~(test = "armed" /\ frame = TestAt)
  /\ ~(test \in {"first", "second"} /\ frame = TestAt + 1)
  /\ Presenting
  /\ UNCHANGED <<memVars, simVars, line, render, testVars, calls, moved, cells, excused>>

PortRbSelfTestStep ==
  phase = "hook" /\ (TestSnapshot \/ TestRestore \/ TestVerdict \/ NoTestStep)

(* A dark frame goes past the whole of PortRenderFrame. *)
PortRenderFrame ==
  /\ phase = "render" /\ line' = 0
  /\ phase' = IF render THEN "line" ELSE "vblank"
  /\ affine' = IF render THEN 0 ELSE affine    \* LatchAffineReferencePoints
  /\ UNCHANGED <<memVars, ch, enable, budget, frame, keys, vblank, vcount, mask, keyinput, seen,
                 copied, render, testVars, calls, moved, cells, excused>>

VBlankOver == [Window EXCEPT !.vblank = FALSE, !.vcount = line]

(* One line: the flags, the picture, the reference points, the HBlank      *)
(* transfers and the two interrupts of the line.                           *)
Scanline ==
  /\ phase = "line" /\ line < Lines
  /\ LET st == RunTiming(Start(VBlankOver), "hblank")
         h  == IF mask.hblankIntr THEN Dispatched(seen, "hblank") ELSE seen
         v  == IF mask.vcountIntr /\ mask.vcountLine = line THEN Dispatched(h, "vcount") ELSE h
         work == v # seen \/ \E c \in Channels : Runs(ch, c, "hblank")
     IN  /\ Ran(st, moved, IF work THEN {"line"} ELSE {})
         /\ seen' = v
  /\ affine' = affine + 1                      \* AdvanceAffineReferencePoints
  /\ line' = line + 1
  /\ UNCHANGED <<phase, space, span, enable, frame, keys, mask, keyinput, render, testVars, calls>>

LinesDone ==
  /\ phase = "line" /\ line = Lines /\ phase' = "vblank"
  /\ UNCHANGED <<memVars, simVars, line, render, testVars, calls, moved, cells, excused>>

(* Bug: the window opens with what the last one left. *)
LeftOver == budget
WholeBudget == Budget

(* VBlank opens: the flush transfers, then the game's handler. *)
OpenVBlank ==
  /\ phase = "vblank" /\ phase' = "handler"
  /\ Ran(RunTiming(Start([vblank |-> TRUE, vcount |-> 160, budget |-> WholeBudget]), "vblank"), 0, {})
  /\ seen' = Dispatched(seen, "vblank")
  /\ UNCHANGED <<space, span, enable, frame, keys, mask, keyinput, affine,
                 line, render, testVars, calls>>

(* The handler returns; the cable may raise its interrupt; the picture is  *)
(* handed over; the host says what is held, or the tape does.              *)
EndFrame(raised, k) ==
  /\ phase = "handler" /\ frame < MaxFrame /\ phase' = "game"
  /\ Chosen(<<"end", raised, k>>)
  /\ seen' = IF raised = "none" THEN seen ELSE Dispatched(seen, raised)
  /\ keys' = k /\ keyinput' = k
  /\ frame' = frame + 1 /\ cells' = {}
  /\ UNCHANGED <<memVars, ch, enable, budget, vblank, vcount, mask, affine,
                 copied, line, render, test, snap, end, calls, moved, excused>>

(* The model, not the program, ends here. *)
AtBound == (phase = "fatal" \/ (phase = "handler" /\ frame = MaxFrame)) /\ UNCHANGED vars

Next ==
  \/ ReserveSpan \/ AgbMain
  \/ \E r \in Requests : PortDmaSet(r)
  \/ \E c \in Channels : PortDmaStop(c)
  \/ \E n \in {1, 8} : CpuSet(n)
  \/ SoundMain \/ PortRbSelfTestStep
  \/ PortRenderFrame \/ Scanline \/ LinesDone \/ OpenVBlank
  \/ \E raised \in Raised, k \in KeySets : EndFrame(raised, k)
  \/ AtBound

Spec == Init /\ [][Next]_vars

-----------------------------------------------------------------------------
(* PROPERTIES                                                              *)

(* When the game starts every cell the console decodes is ours, whatever   *)
(* the page size, and on the way there nothing of anybody else's was       *)
(* mapped over.                                                            *)
MapIsWhole ==
  /\ phase \notin {"reserve", "fatal"} => \A c \in RegionCells : space.owner[c] = "ours"
  /\ \E w \in Worlds : \A c \in Cells : w.owner[c] \in {"free", space.owner[c]}
  /\ \A i, j \in DOMAIN Spans :
       i < j => Spans[i].base + Spans[i].size < Spans[j].base

(* The copying loop never comes to a cell that nobody has mapped, to one   *)
(* of the window that the console does not decode, or, on Windows, to a    *)
(* guard page, whatever its direction and alignment, however often a       *)
(* channel has repeated, whatever the memo was left at by the transfer     *)
(* before.  On POSIX it may come to a guard page: mincore says that a page *)
(* is mapped, and the check asks no more.                                  *)
TouchesWhatIsThere ==
  \A c \in cells :
    /\ c \in Cells
    /\ space.owner[c] # "free"
    /\ space.owner[c] = "ours" => c \in RegionCells
    /\ space.owner[c] = "guard" => space.host = "posix"

(* The window is open exactly as long as the transfers since it opened     *)
(* have not used it up: the flush of the frame, the handler's and the      *)
(* game's together, and not those of the scanlines before.                 *)
WindowIsTheBudget ==
  phase = "handler" \/ (phase = "game" /\ frame > 0) => (vblank <=> moved < Budget)

(* The self test's second arrival is the first, if no line of its frame    *)
(* had work and the memo was never wrong about its page: on nothing else   *)
(* that the snapshot leaves out does a frame depend.                       *)
RerunIsTheSame == test = "failed" => excused # {}

(* The same of frames whose lines had work.  backend.h and ppu.c say a     *)
(* frame that is not looked at differs from one that is in nothing but the *)
(* picture.                                                                *)
DarkFramesAreTheSame == test = "failed" => "memo" \in excused
=============================================================================
