------------------------------ MODULE MCFrame -------------------------------
EXTENDS Frame

(* EWRAM, I/O behind it, ROM, and the save memory in the middle of ROM. *)
MCRegions == << [base |-> 4, size |-> 4], [base |-> 8, size |-> 2],
                [base |-> 12, size |-> 8], [base |-> 16, size |-> 2] >>

(* The port's own data from 20 to 24, the last page of it a guard or not; a *)
(* library in a hole of the map, which is in the way of it where what is    *)
(* reserved is rounded to more than a page.                                 *)
Own(guard) == [c \in Cells |-> CASE c \in 20 .. 21 -> "foreign"
                                 [] c \in 22 .. 23 -> guard
                                 [] OTHER -> "free"]
Library(at) == [c \in Cells |-> IF c \in {at, at + 1} THEN "foreign" ELSE Own("foreign")[c]]
World(host, page, owner) == [host |-> host, page |-> page, owner |-> owner]
MCWorlds == { World("posix", 2, Library(10)), World("win32", 4, Library(10)),
              World("posix", 2, Own("guard")), World("win32", 4, Own("guard")),
              World("posix", 4, Own("foreign")) }
MCWorld == { World("posix", 2, Own("foreign")) }

Ctl(count, unit, timing, repeat, s, d) ==
  [count |-> count, unit |-> unit, enable |-> TRUE, timing |-> timing, repeat |-> repeat,
   srcCtrl |-> s, destCtrl |-> d]
Req(c, src, dest, control) == [channel |-> c, src |-> src, dest |-> dest, control |-> control]

MCRequests == {
  Req(1, 21, 5, Ctl(2, 2, "now", FALSE, "fixed", "inc")),       \* DmaFill from a misaligned local
  Req(1, 17, 5, Ctl(0, 1, "now", FALSE, "dec", "dec")),         \* the maximum, down out of EWRAM
  Req(1, 21, 4, Ctl(2, 1, "now", FALSE, "inc", "inc")),         \* over two pages of the host
  Req(1, 16, 9, Ctl(2, 1, "now", FALSE, "inc", "inc")),         \* past the end of the registers
  Req(0, 4, 8, Ctl(1, 1, "hblank", TRUE, "inc", "reload")),     \* the scanline effect
  Req(1, 16, 4, Ctl(2, 1, "vblank", FALSE, "inc", "inc")),      \* the flush
  Req(0, 23, 4, Ctl(1, 1, "vblank", TRUE, "dec", "fixed")),     \* a repeating one that walks
  Req(1, 4, 6, Ctl(2, 1, "special", TRUE, "inc", "inc")),       \* armed for what never comes
  [channel |-> 0, src |-> 4, dest |-> 8,                        \* armed and not enabled
   control |-> [Ctl(1, 1, "hblank", TRUE, "inc", "reload") EXCEPT !.enable = FALSE]] }

Mask(ime, ie, h, v) ==
  [ime |-> ime, ie |-> ie, hblankIntr |-> h, vcountIntr |-> v, vcountLine |-> 1]
MCMasks == { Mask(TRUE, {"vblank", "serial"}, FALSE, FALSE),
             Mask(TRUE, {"vblank", "hblank", "vcount", "timer3"}, TRUE, TRUE),
             Mask(FALSE, {"vblank", "hblank", "serial"}, TRUE, FALSE) }
=============================================================================
