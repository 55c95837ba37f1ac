-------------------------------- MODULE Dma ---------------------------------
(***************************************************************************)
(* One channel of platform/dma.c: what arming it leaves, what one transfer *)
(* touches and how it leaves the channel.  A unit is 1 or 2 halfwords.     *)
(***************************************************************************)
EXTENDS MemMap

CONSTANTS
  NumChannels,  \* 4
  MaxCount      \* the count 0 stands for

ASSUME DmaAssumption == NumChannels \in Nat \ {0} /\ MaxCount \in Nat \ {0}

Channels == 0 .. NumChannels - 1
Ctrls    == {"inc", "dec", "fixed", "reload"}

(* A channel of special timing stays armed: nothing here runs it. *)
Timings == {"now", "vblank", "hblank", "special"}

Channel == [src : Int, dest : Int, srcReload : Int, destReload : Int, count : Nat, unit : {1, 2},
            timing : Timings, repeat : BOOLEAN, srcCtrl : Ctrls, destCtrl : Ctrls, armed : BOOLEAN]

(* What the game writes to a channel's registers. *)
Controls == [count : 0 .. MaxCount, unit : {1, 2}, enable : BOOLEAN, timing : Timings,
             repeat : BOOLEAN, srcCtrl : Ctrls, destCtrl : Ctrls]

Idle == [src |-> 0, dest |-> 0, srcReload |-> 0, destReload |-> 0, count |-> 0, unit |-> 1,
         timing |-> "now", repeat |-> FALSE, srcCtrl |-> "inc", destCtrl |-> "inc", armed |-> FALSE]

CountOf(count) == IF count = 0 THEN MaxCount ELSE count

(* PortDmaSet, before the transfer it may run. *)
ChannelSet(src, dest, control) ==
  [src |-> src, dest |-> dest, srcReload |-> src, destReload |-> dest,
   count |-> CountOf(control.count),
   unit |-> control.unit, timing |-> control.timing, repeat |-> control.repeat,
   srcCtrl |-> control.srcCtrl, destCtrl |-> control.destCtrl, armed |-> control.enable]

(* PortDmaStop. *)
Stopped(ch) ==
  [ch EXCEPT !.armed = FALSE, !.timing = "now", !.repeat = FALSE,
             !.unit = 1, !.srcCtrl = "inc", !.destCtrl = "inc"]

Aligned(addr, unit) == addr - (addr % unit)

(* Bug: the span of a descending run is taken upwards. *)
Upwards(start, ctrl, unit, count) ==
  IF ctrl = "fixed" THEN [lo |-> start, len |-> unit] ELSE [lo |-> start, len |-> count * unit]
SpanOf(start, ctrl, unit, count) ==
  CASE ctrl = "dec"   -> [lo |-> start - (count - 1) * unit, len |-> count * unit]
    [] ctrl = "fixed" -> [lo |-> start, len |-> unit]
    [] OTHER          -> [lo |-> start, len |-> count * unit]

Step(ctrl, unit) == CASE ctrl = "dec" -> -unit [] ctrl = "fixed" -> 0 [] OTHER -> unit

(* The cells the copying loop comes to. *)
Touched(start, ctrl, unit, count) ==
  {start + i * Step(ctrl, unit) + j : i \in 0 .. count - 1, j \in 0 .. unit - 1}

(* A repeating channel goes on from where it got to. *)
NextSrc(ch, src) == IF ch.srcCtrl = "fixed" THEN ch.srcReload ELSE src
NextDest(ch, dest) == IF ch.destCtrl = "reload" THEN ch.destReload ELSE dest

Moved(ch, src, dest) ==
  IF ch.repeat
    THEN [ch EXCEPT !.src = NextSrc(ch, src + ch.count * Step(ch.srcCtrl, ch.unit)),
                    !.dest = NextDest(ch, dest + ch.count * Step(ch.destCtrl, ch.unit))]
    ELSE [ch EXCEPT !.armed = FALSE]

(* RunTransfer: the channel and the memo it leaves, the halfwords it moved *)
(* and the cells it touched.  A refused one leaves the channel as it was.  *)
RunTransfer(space, memo, ch) ==
  LET src  == Aligned(ch.src, ch.unit)
      dest == Aligned(ch.dest, ch.unit)
      s == SpanOf(src, ch.srcCtrl, ch.unit, ch.count)
      d == SpanOf(dest, ch.destCtrl, ch.unit, ch.count)
      first  == RangeOk(space, memo, s.lo, s.len)
      second == RangeOk(space, first.memo, d.lo, d.len)
      \* the shape, for the counts of refused transfers, asks both again
      third  == RangeOk(space, IF first.ok THEN second.memo ELSE first.memo, s.lo, s.len)
      fourth == RangeOk(space, third.memo, d.lo, d.len)
  IN  CASE ch.count = 0 ->
             [ch |-> ch, memo |-> memo, bytes |-> 0, cells |-> {}, bad |-> {}]
        [] ch.count # 0 /\ first.ok /\ second.ok ->
             [ch |-> Moved(ch, src, dest), memo |-> second.memo, bytes |-> ch.count * ch.unit,
              cells |-> Touched(src, ch.srcCtrl, ch.unit, ch.count)
                          \cup Touched(dest, ch.destCtrl, ch.unit, ch.count),
              bad |-> {}]
        [] OTHER ->
             [ch |-> ch, memo |-> fourth.memo, bytes |-> 0, cells |-> {},
              bad |-> (IF third.ok THEN {} ELSE {"src"}) \cup (IF fourth.ok THEN {} ELSE {"dest"})]
=============================================================================
