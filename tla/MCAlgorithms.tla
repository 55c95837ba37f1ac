---------------------------- MODULE MCAlgorithms ----------------------------
(* Instances of the parts that need nothing of each other; a behaviour is  *)
(* of one of them.  The log: every input of two players over four frames,  *)
(* and one input with every list of three events over two frames.  The     *)
(* picture: reels of frames that no hand chose.  The BIOS: every packing   *)
(* of short data, and every number.  The host: a run at the clock's pace,  *)
(* one without, and one of a wrong command line.                           *)
EXTENDS RbLog, Picture, Bios, Host

CONSTANTS ReelCount, ReelLength   \* bounds: the reels, and the frames of one

Input(w) == [f \in 0 .. MaxFrame - 1 |-> [p \in Peers |-> IF p < NumPlayers THEN w[<<f, p>>] ELSE 0]]
Telling == [f \in 0 .. MaxFrame - 1 |-> [p \in Peers |-> IF p < NumPlayers THEN f + 1 + MaxFrame * p ELSE 0]]

MCTapes ==
  { [input |-> Input(w), events |-> {}] : w \in [(0 .. MaxFrame - 1) \X (0 .. NumPlayers - 1) -> {0, 1}] }
    \cup { [input |-> Telling,
            events |-> {e \in Events(EventFrames) :
                          (e.type = "players" => e.a # 2) /\ (e.type = "slot" => e.a # 1)}] }

-----------------------------------------------------------------------------
(* A number below m that is anyone's guess, the k-th of seed s. *)
Guess(s, k, m) ==
  (((s * 173 + k * 307 + s * k * 29 + ((s * k) % 97) * ((3 * s + k) % 89)) % 9973) \div 7) % m
OneOf(s, k, list) == list[1 + Guess(s, k, Len(list))]
Mask(s, k) == {b \in 0 .. 5 : Guess(s, k + b, 3) # 0}
Often(s, k) == Guess(s, k, 3) # 0
Rarely(s, k) == Guess(s, k, 6) = 0

MCIo(s, y) ==
  LET r == s + 61 * y
  IN [ mode |-> OneOf(s, 1, <<0, 0, 1, 1, 2, 3>>), blank |-> Guess(r, 2, 12) = 0, oneD |-> Often(s, 3),
       layersOn |-> Mask(r, 4) \ {Blend}, winOn |-> {w \in {0, 1, Obj} : Guess(s, 10 + w, 2) = 0},
       mosaic |-> 1 + Guess(s, 16, 3),
       bg |-> [l \in 0 .. 3 |->
                LET k == 20 + 12 * l
                IN [priority |-> Guess(r, k, 4), mosaic |-> Rarely(s, k + 1), char |-> Guess(s, k + 2, 4),
                    screen |-> Guess(s, k + 3, 6), deep |-> ~Often(s, k + 4), size |-> Guess(s, k + 5, 4),
                    wrap |-> Often(s, k + 6), hofs |-> Guess(r, k + 7, 9), vofs |-> Guess(r, k + 8, 9)]],
       affine |-> [l \in {2, 3} |->
                LET k == 70 + 8 * l
                IN [pa |-> Guess(s, k, 7) - 3, pb |-> Guess(r, k + 1, 7) - 3, pc |-> Guess(s, k + 2, 5) - 2,
                    pd |-> Guess(r, k + 3, 7) - 3, x |-> Guess(r, k + 4, 20) - 8, y |-> Guess(r, k + 5, 20) - 8]],
       win |-> [w \in 0 .. 1 |->
                LET k == 110 + 4 * w
                IN [left |-> Guess(r, k, ScreenW + 2), right |-> Guess(r, k + 1, ScreenW + 2),
                    top |-> Guess(s, k + 2, ScreenH + 1), bottom |-> Guess(s, k + 3, ScreenH + 2)]],
       winin |-> [w \in 0 .. 1 |-> Mask(r, 120 + 6 * w)], winobj |-> Mask(r, 132), winout |-> Mask(r, 138),
       effect |-> OneOf(r, 144, <<"none", "alpha", "alpha", "up", "down">>),
       target1 |-> Mask(r, 145), target2 |-> Mask(r, 151),
       eva |-> Guess(r, 157, 20), evb |-> Guess(r, 158, 20), evy |-> Guess(r, 159, 20)]

MCSprite(s, n) ==
  LET k == 160 + 20 * n
  IN [ affine |-> ~Often(s, k), double |-> Rarely(s, k + 1), mode |-> OneOf(s, k + 2, <<"normal", "semi", "window", "normal", "none">>),
       deep |-> ~Often(s, k + 3), shape |-> OneOf(s, k + 4, <<"square", "wide", "tall">>), size |-> 1 + Guess(s, k + 5, 3),
       x |-> OneOf(s, k + 6, <<0, 1, 2, 511, 510>>), y |-> OneOf(s, k + 7, <<0, 1, 255, 254>>),
       tile |-> Guess(s, k + 8, 6), bank |-> Guess(s, k + 9, 3), priority |-> Guess(s, k + 10, 4),
       hflip |-> Often(s, k + 11), vflip |-> ~Often(s, k + 12), slot |-> Guess(s, k + 13, 2)]

(* The first of the memory holds maps: few tiles, some of them turned. *)
MCMemory(s) ==
  [ vram |-> [o \in 0 .. VramSize - 1 |->
                IF o >= 40 THEN IF Rarely(s, 300 + o) THEN 0 ELSE Guess(s, 400 + o, 256)
                ELSE IF o % 2 = 0 THEN Guess(s, 500 + o, 12) ELSE OneOf(s, 500 + o, <<0, 4, 8, 12, 16, 36, 1>>)],
    pal |-> [n \in 0 .. 511 |-> (7 * n + s) % 32],
    oam |-> [n \in 1 .. 3 |-> MCSprite(s, n)],
    matrix |-> [m \in 0 .. 1 |-> [pa |-> Guess(s, 240 + m, 5) - 2, pb |-> Guess(s, 242 + m, 5) - 2,
                                  pc |-> Guess(s, 244 + m, 5) - 2, pd |-> Guess(s, 246 + m, 5) - 2]],
    table |-> [y \in 0 .. ScreenH - 1 |-> MCIo(s, y)] ]

(* Everything as the game has it, or one layer of it whether it is on or not. *)
MCMasks == {<<Layers, {}>>, <<{2}, {2}>>}

MCReels == {[n \in 1 .. ReelLength |-> MCMemory(r * ReelLength + n)] : r \in 1 .. ReelCount}

-----------------------------------------------------------------------------
Command == [turbo |-> FALSE, limit |-> -1, scale |-> 3, full |-> FALSE, hold |-> {}, mp |-> FALSE, mpAt |-> -1,
            mash |-> [start |-> -1, stop |-> -1, period |-> 0, mask |-> {}], press |-> <<>>]
Press(f, buttons) == [frame |-> f, mask |-> buttons]

MCCommands ==
  { [Command EXCEPT !.mpAt = 2, !.limit = 4, !.hold = {"L"}, !.scale = 20,
                    !.press = <<Press(3, {}), Press(1, {"A"}), Press(1, {"B"}), Press(0, {"R"})>>],
    [Command EXCEPT !.turbo = TRUE, !.full = TRUE, !.mp = TRUE,
                    !.mash = [start |-> 1, stop |-> 4, period |-> 2, mask |-> {"A"}]],
    [Command EXCEPT !.mash = [start |-> 1, stop |-> -1, period |-> 1, mask |-> {"A"}]] }

-----------------------------------------------------------------------------
LogOff ==
  /\ NoEvents /\ PortRbInit /\ tape = [input |-> Telling, events |-> {}]
  /\ role = "off" /\ log = NoLog /\ fed = <<>> /\ sent = <<>>
PictureOff == PicInit /\ reel = <<>> /\ stage = "off"
BiosOff    == NoCall /\ job = "none" /\ data = <<>> /\ num = 0
NoHost     == HostOff /\ where = "off" /\ opts = Command /\ plugged = <<>>

Reeling == PicInit /\ reel \in Reels /\ stage = "top"

MCInit ==
  \/ Init   /\ PictureOff /\ BiosOff  /\ NoHost
  \/ LogOff /\ Reeling    /\ BiosOff  /\ NoHost
  \/ LogOff /\ PictureOff /\ CallInit /\ NoHost
  \/ LogOff /\ PictureOff /\ BiosOff  /\ HostInit

MCNext ==
  \/ Next     /\ UNCHANGED <<picVars, biosVars, hostVars>>
  \/ PicNext  /\ UNCHANGED <<vars, biosVars, hostVars>>
  \/ BiosNext /\ UNCHANGED <<vars, picVars, hostVars>>
  \/ HostNext /\ UNCHANGED <<vars, picVars, biosVars>>

MCSpec == MCInit /\ [][MCNext]_<<vars, picVars, biosVars, hostVars>>
=============================================================================
