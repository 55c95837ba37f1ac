------------------------------- MODULE Picture ------------------------------
(***************************************************************************)
(* The software PPU, platform/ppu.c.  A frame is drawn line by line from   *)
(* what the registers hold on that line; between two lines the HBlank DMA  *)
(* and the game's own handler put new values into them.  What the lines    *)
(* are drawn through (the buffers of the layers, the affine reference      *)
(* points) stays from line to line and from frame to frame, and some       *)
(* frames are not drawn at all.                                            *)
(*                                                                         *)
(* A colour has one channel here, 0 .. 31; the other two go the same way.  *)
(* A register that is a mask of layers is a set of layers, in which Blend  *)
(* is the bit that lets a window blend, or the backdrop.                   *)
(***************************************************************************)
EXTENDS Integers, Sequences, SequencesExt, FiniteSetsExt

CONSTANTS
  ScreenW, ScreenH,    \* SCREEN_W, SCREEN_H
  Tile,                \* 8, the side of a tile
  MapSide,             \* 32, the tiles across a block of a map, or the sheet of 2D sprites
  VramSize,            \* GBA_VRAM_SIZE
  CharBlock, ObjBase,  \* 0x4000 and 0x10000
  One,                 \* 256, the 1.0 of affine coordinates
  Masks,               \* bound: the debugging masks chosen
  Reels                \* the sequences of frames shown; a frame is the memory
                       \* it is drawn from, with the registers of every line

ASSUME PictureAssumption ==
  /\ \A n \in {ScreenW, ScreenH, Tile, MapSide, VramSize, CharBlock, One} : n \in Nat \ {0}
  /\ ObjBase \in Nat /\ Tile % 2 = 0 /\ MapSide % 2 = 0

VARIABLES
  reel, scene,    \* the frames shown, and the one being shown
  stage,          \* "top" of a frame, a "line", its "hblank", or "off"
  line,           \* VCOUNT
  render,         \* what PortRenderEnabled said at the top of the frame
  mask, force,    \* gPortLayerMask, gPortLayerForce
  scratch,        \* sLayerColour, sLayerOpaque and the sObj buffers, by pixel
  affine,         \* sAffineX, sAffineY
  screen,         \* gPortFramebuffer
  held            \* a snapshot: where it was taken, and PortPpuStateSave

picVars == <<reel, scene, stage, line, render, mask, force, scratch, affine, screen, held>>

Obj    == 4
Blend  == 5
None   == -1
Layers == 0 .. 4
Columns == 0 .. ScreenW - 1

Memory == reel[scene]
Io     == Memory.table[line]

NothingYet == [colour |-> [l \in Layers |-> 0], opaque |-> {}, priority |-> 3, semi |-> FALSE, window |-> FALSE]

-----------------------------------------------------------------------------
(* Tiles.  The number of a palette entry, and 0 for a transparent pixel.   *)

Byte(offset) == IF offset < VramSize THEN Memory.vram[offset] ELSE 0

FetchTilePixel(charBase, tile, x, y, deep, bank) ==
  LET pixel == (tile * Tile + y) * Tile + x
  IN  IF deep THEN Byte(charBase + pixel)
      ELSE LET two   == Byte(charBase + (pixel \div 2))
               index == IF x % 2 = 1 THEN two \div 16 ELSE two % 16
           IN  IF index = 0 THEN 0 ELSE bank * 16 + index

(* RenderTextBg: maps of more than one block are stored block after block. *)
Block == 2 * MapSide * MapSide
Mosaic(bg) == IF Io.bg[bg].mosaic THEN line - (line % Io.mosaic) ELSE line

TextPixel(bg, x) ==
  LET b    == Io.bg[bg]
      wide == IF b.size % 2 = 1 THEN 2 * MapSide ELSE MapSide
      high == IF b.size \div 2 = 1 THEN 2 * MapSide ELSE MapSide
      sx   == (x + b.hofs) % (wide * Tile)
      sy   == (Mosaic(bg) + b.vofs) % (high * Tile)
      tx   == sx \div Tile
      ty   == sy \div Tile
      map  == b.screen * Block
                + (IF tx >= MapSide THEN Block ELSE 0)
                + (IF ty < MapSide THEN 0 ELSE IF wide > MapSide THEN 2 * Block ELSE Block)
                + 2 * ((ty % MapSide) * MapSide + (tx % MapSide))
      hi   == Memory.vram[map + 1]
      Flip(bit, p) == IF (hi \div bit) % 2 = 1 THEN Tile - 1 - p ELSE p
  IN  IF map + 1 >= VramSize THEN 0
      ELSE FetchTilePixel(b.char * CharBlock, Memory.vram[map] + 256 * (hi % 4),
                          Flip(4, sx % Tile), Flip(8, sy % Tile), b.deep, hi \div 16)

(* RenderAffineBg, from the reference point of the line. *)
AffinePixel(bg, x, point) ==
  LET b     == Io.bg[bg]
      a     == Io.affine[bg]
      tiles == (MapSide \div 2) * 2 ^ b.size
      side  == tiles * Tile
      Wrapped(t) == IF b.wrap THEN t % side ELSE t
      tx    == Wrapped((point.x + a.pa * x) \div One)
      ty    == Wrapped((point.y + a.pc * x) \div One)
      map   == b.screen * Block + (ty \div Tile) * tiles + tx \div Tile
  IN  IF tx \notin 0 .. side - 1 \/ ty \notin 0 .. side - 1 \/ map >= VramSize THEN 0
      ELSE FetchTilePixel(b.char * CharBlock, Memory.vram[map], tx % Tile, ty % Tile, TRUE, 0)

-----------------------------------------------------------------------------
(* RenderSprites. *)

ObjWidth  == [square |-> <<1, 2, 4, 8>>, wide |-> <<2, 4, 4, 8>>, tall |-> <<1, 1, 2, 4>>]
ObjHeight == [square |-> <<1, 2, 4, 8>>, wide |-> <<1, 1, 2, 4>>, tall |-> <<2, 4, 4, 8>>]

(* The pixel of sprite s at column x of this line. *)
SpritePixel(s, x) ==
  LET w    == Tile * ObjWidth[s.shape][s.size]
      h    == Tile * ObjHeight[s.shape][s.size]
      box  == IF s.affine /\ s.double THEN 2 ELSE 1
      px   == x - (IF s.x >= ScreenW THEN s.x - 512 ELSE s.x)
      row  == line - (IF s.y >= ScreenH THEN s.y - 256 ELSE s.y)
      dx   == px - (box * w) \div 2
      dy   == row - (box * h) \div 2
      mat  == Memory.matrix[s.slot]
      tx   == IF s.affine THEN ((mat.pa * dx + mat.pb * dy) \div One) + w \div 2
              ELSE IF s.hflip THEN w - 1 - px ELSE px
      ty   == IF s.affine THEN ((mat.pc * dx + mat.pd * dy) \div One) + h \div 2
              ELSE IF s.vflip THEN h - 1 - row ELSE row
      each == IF s.deep THEN 2 ELSE 1       \* slots a tile takes
      tile == s.tile + (tx \div Tile) * each
                + (ty \div Tile) * (IF Io.oneD THEN (w \div Tile) * each ELSE MapSide)
      there == /\ s.affine \/ ~s.double     \* without a matrix the bit disables
               /\ s.mode # "none"
               /\ row \in 0 .. box * h - 1 /\ px \in 0 .. box * w - 1
               /\ tx \in 0 .. w - 1 /\ ty \in 0 .. h - 1
  IN  IF ~there THEN 0
      ELSE FetchTilePixel(ObjBase, IF s.deep THEN tile \div 2 ELSE tile, tx % Tile, ty % Tile, s.deep, s.bank)

(* One sprite on a pixel: an object window has a shape and no colour. *)
Paint(pixel, s, x) ==
  LET index == SpritePixel(s, x)
  IN  IF index = 0 THEN pixel
      ELSE IF s.mode = "window" THEN [pixel EXCEPT !.window = TRUE]
      ELSE [pixel EXCEPT !.colour[Obj] = Memory.pal[256 + index], !.opaque = @ \cup {Obj},
                         !.priority = s.priority, !.semi = s.mode = "semi"]

(* From the last sprite to the first, so that the first one stays. *)
RenderSprites(pixel, x) ==
  FoldLeft(LAMBDA seen, s : Paint(seen, s, x), pixel, Reverse(Memory.oam))

-----------------------------------------------------------------------------
(* WindowAllows: the layers a pixel's window lets through, and Blend. *)

Inside(w, x) ==
  LET win == Io.win[w]
      right  == IF win.right > ScreenW \/ win.right < win.left THEN ScreenW ELSE win.right
      bottom == IF win.bottom > ScreenH \/ win.bottom < win.top THEN ScreenH ELSE win.bottom
  IN  x \in win.left .. right - 1 /\ line \in win.top .. bottom - 1

WindowAllows(pixel, x) ==
  LET around == {w \in Io.winOn \ {Obj} : Inside(w, x)}
  IN  CASE Io.winOn = {} -> Layers \cup {Blend}
        [] around # {}   -> Io.winin[Min(around)]
        [] OTHER         -> IF Obj \in Io.winOn /\ pixel.window THEN Io.winobj ELSE Io.winout

BlendAlpha(top, bottom) ==
  Min({31, (top * Min({16, Io.eva}) + bottom * Min({16, Io.evb})) \div 16})
BlendBrightness(c, up) ==
  IF up THEN c + (((31 - c) * Min({16, Io.evy})) \div 16) ELSE c - ((c * Min({16, Io.evy})) \div 16)
ToRgba(c) == 8 * c + c \div 4

(* EffectiveDispcnt: the layers enabled, with the debugging masks applied. *)
EffectiveDispcnt == (Io.layersOn \cap mask) \cup force

(* What the first and the second layer of a pixel come to.  Nothing blends *)
(* the backdrop itself, but a layer may blend with it.                     *)
Result(pixel, allowed, top, second) ==
  LET upper  == pixel.colour[top]
      under   == IF second = None THEN Memory.pal[0] ELSE pixel.colour[second]
      target1 == top \in Io.target1
      target2 == (IF second = None THEN Blend ELSE second) \in Io.target2
  IN  CASE top = None -> Memory.pal[0]
        [] top # None /\ Blend \notin allowed -> upper
        [] OTHER ->
             IF target2 /\ ((top = Obj /\ pixel.semi) \/ (Io.effect = "alpha" /\ target1)) THEN BlendAlpha(upper, under)
             ELSE IF Io.effect \in {"up", "down"} /\ target1 THEN BlendBrightness(upper, Io.effect = "up")
             ELSE upper

(* ComposeScanline looks priority after priority through the layers, the   *)
(* objects first among those of one priority, for the first two.           *)
Passes == [n \in 1 .. 20 |-> [priority |-> (n - 1) \div 5, layer |-> IF n % 5 = 1 THEN Obj ELSE ((n - 1) % 5) - 1]]

ComposeScanline(pixel, x) ==
  LET allowed == WindowAllows(pixel, x)
      Seek(found, at) ==
        IF \/ (IF at.layer = Obj THEN pixel.priority ELSE Io.bg[at.layer].priority) # at.priority
           \/ at.layer \notin pixel.opaque \cap EffectiveDispcnt \cap allowed
           \/ Len(found) = 2
          THEN found ELSE Append(found, at.layer)
      found == FoldLeft(Seek, <<>>, Passes) \o <<None, None>>
  IN  ToRgba(Result(pixel, allowed, found[1], found[2]))

-----------------------------------------------------------------------------
(* The frame. *)

(* The layers of a mode that are drawn, as text or through a matrix. *)
TextLayers   == CASE Io.mode = 0 -> 0 .. 3 [] Io.mode = 1 -> 0 .. 1 [] OTHER -> {}
AffineLayers == CASE Io.mode = 1 -> {2} [] Io.mode = 2 -> 2 .. 3 [] OTHER -> {}

(* Bug: the object window of the line above stays. *)
WindowStays(pixel) == [pixel EXCEPT !.opaque = {}, !.semi = FALSE, !.priority = 3]
Cleared(pixel) == [pixel EXCEPT !.opaque = {}, !.semi = FALSE, !.priority = 3, !.window = FALSE]

BgPixel(l, x) ==
  CASE l \in TextLayers   -> TextPixel(l, x)
    [] l \in AffineLayers -> AffinePixel(l, x, affine[l])
    [] OTHER -> 0

Drawn(pixel, x) ==
  LET index == [l \in 0 .. 3 |-> IF l \in EffectiveDispcnt THEN BgPixel(l, x) ELSE 0]
      bgs   == [Cleared(pixel) EXCEPT
                  !.opaque = {l \in 0 .. 3 : index[l] # 0},
                  !.colour = [l \in Layers |-> IF l # Obj /\ index[l] # 0 THEN Memory.pal[index[l]] ELSE @[l]]]
  IN  IF Io.blank THEN Cleared(pixel)
      ELSE IF Obj \in EffectiveDispcnt THEN RenderSprites(bgs, x) ELSE bgs

RenderScanline ==
  /\ stage = "line" /\ stage' = "hblank"
  /\ IF render
       THEN /\ scratch' = [x \in Columns |-> Drawn(scratch[x], x)]
            /\ screen' = [screen EXCEPT ![line] =
                            [x \in Columns |-> IF Io.blank THEN 255 ELSE ComposeScanline(scratch'[x], x)]]
       ELSE UNCHANGED <<scratch, screen>>
  /\ UNCHANGED <<reel, scene, line, render, mask, force, affine, held>>

LatchAffineReferencePoints ==
  /\ stage = "top" /\ stage' = "line" /\ line' = 0
  /\ render' \in BOOLEAN
  /\ affine' = [l \in {2, 3} |-> LET a == Memory.table[0].affine[l] IN [x |-> a.x, y |-> a.y]]
  /\ UNCHANGED <<reel, scene, mask, force, scratch, screen, held>>

(* The points advance whether the line was drawn or not; then HBlank. *)
AdvanceAffineReferencePoints ==
  /\ stage = "hblank"
  /\ affine' = [l \in {2, 3} |-> LET a == Io.affine[l]
                                 IN  [x |-> affine[l].x + a.pb, y |-> affine[l].y + a.pd]]
  /\ IF line + 1 < ScreenH
       THEN stage' = "line" /\ line' = line + 1 /\ UNCHANGED scene
       ELSE /\ line' = 0
            /\ IF scene < Len(reel) THEN stage' = "top" /\ scene' = scene + 1
               ELSE stage' = "off" /\ UNCHANGED scene
  /\ UNCHANGED <<reel, render, mask, force, scratch, screen, held>>

(* Between two frames a snapshot is taken, or brought back; and the layers *)
(* to show are chosen.                                                     *)
PortPpuStateSave ==
  /\ stage = "top" /\ held = <<>> /\ held' = <<scene, affine>>
  /\ UNCHANGED <<reel, scene, stage, line, render, mask, force, scratch, affine, screen>>

PortPpuStateLoad ==
  /\ stage = "top" /\ held # <<>> /\ scene' = held[1] /\ affine' = held[2]
  /\ UNCHANGED <<reel, stage, line, render, mask, force, scratch, screen, held>>

PortSetLayerMask(and, or) ==
  /\ stage = "top" /\ mask' = and /\ force' = or
  /\ UNCHANGED <<reel, scene, stage, line, render, scratch, affine, screen, held>>

PicInit ==
  /\ scene = 1 /\ line = 0 /\ render = TRUE /\ mask = Layers /\ force = {} /\ held = <<>>
  /\ affine = [l \in {2, 3} |-> [x |-> 0, y |-> 0]]
  /\ scratch = [x \in Columns |-> NothingYet]
  /\ screen = [y \in 0 .. ScreenH - 1 |-> [x \in Columns |-> 0]]

PicNext ==
  \/ LatchAffineReferencePoints \/ RenderScanline \/ AdvanceAffineReferencePoints
  \/ PortPpuStateSave \/ PortPpuStateLoad
  \/ \E m \in Masks : PortSetLayerMask(m[1], m[2])

-----------------------------------------------------------------------------
(* PROPERTIES                                                              *)

(* What a pixel ought to be, from the memory of its frame alone: the tile  *)
(* of a text layer found in a map of whole blocks, the affine layers       *)
(* followed from the top of the frame, of the sprites the first that has   *)
(* a pixel here, of the layers the two that come before all others.        *)
Plane(bg, x) ==
  LET b == Io.bg[bg]
      across == IF b.size \in {1, 3} THEN 2 ELSE 1
      down   == IF b.size \in {2, 3} THEN 2 ELSE 1
      px == (x + b.hofs) % (across * MapSide * Tile)
      py == (Mosaic(bg) + b.vofs) % (down * MapSide * Tile)
      block == b.screen + px \div (MapSide * Tile) + across * (py \div (MapSide * Tile))
      at == block * Block + 2 * (((py \div Tile) % MapSide) * MapSide + ((px \div Tile) % MapSide))
      entry == Memory.vram[at] + 256 * Memory.vram[at + 1]
      Turned(bit, p) == IF (entry \div bit) % 2 = 1 THEN Tile - 1 - p ELSE p
  IN  IF at + 1 >= VramSize THEN 0
      ELSE FetchTilePixel(b.char * CharBlock, entry % 1024, Turned(1024, px % Tile), Turned(2048, py % Tile),
                          b.deep, entry \div 4096)

PointOf(l) ==
  LET Down(sum, k) == LET a == Memory.table[k - 1].affine[l] IN [x |-> sum.x + a.pb, y |-> sum.y + a.pd]
      top == Memory.table[0].affine[l]
  IN  FoldLeft(Down, [x |-> top.x, y |-> top.y], [k \in 1 .. line |-> k])

Expected(x) ==
  LET oam == Memory.oam
      On(l) == l \in EffectiveDispcnt
      Hit(modes) == {n \in 1 .. Len(oam) : oam[n].mode \in modes /\ SpritePixel(oam[n], x) # 0}
      visible == Hit({"normal", "semi"})
      sprite == oam[CHOOSE n \in visible : \A k \in visible : n <= k]
      index == [l \in 0 .. 3 |-> CASE l \in TextLayers -> Plane(l, x)
                                   [] l \in AffineLayers -> AffinePixel(l, x, PointOf(l)) [] OTHER -> 0]
      pixel == [window   |-> On(Obj) /\ Hit({"window"}) # {},
                semi     |-> visible # {} /\ sprite.mode = "semi",
                colour   |-> [l \in Layers |-> CASE l # Obj -> Memory.pal[index[l]]
                                          [] visible # {} -> Memory.pal[256 + SpritePixel(sprite, x)]
                                          [] OTHER -> 0]]
      shown == {l \in WindowAllows(pixel, x) \cap Layers :
                  On(l) /\ IF l = Obj THEN visible # {} ELSE index[l] # 0}
      Rank(l) == IF l = Obj THEN 10 * sprite.priority ELSE 10 * Io.bg[l].priority + l + 1
      FirstOf(S) == IF S = {} THEN None ELSE CHOOSE l \in S : \A k \in S : Rank(l) <= Rank(k)
      top == FirstOf(shown)
  IN  IF Io.blank THEN 255
      ELSE ToRgba(Result(pixel, WindowAllows(pixel, x), top, FirstOf(shown \ {top})))

(* Every line drawn is what the memory of the moment says, whatever frames *)
(* were drawn or skipped before it, whichever snapshot was brought back,   *)
(* and whatever the handlers wrote in between: nothing of another line     *)
(* shows through.                                                          *)
ShownAsMemoryStands ==
  stage = "hblank" /\ render => \A x \in Columns : screen[line][x] = Expected(x)
=============================================================================
