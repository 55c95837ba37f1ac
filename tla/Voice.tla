------------------------------- MODULE Voice -------------------------------
(***************************************************************************)
(* One channel of the mixer, platform/m4a_mixer.c: the envelope MixChannel *)
(* steps once a frame and the walk through the sample that follows it.     *)
(*                                                                         *)
(* The status byte is a phase and the release bit: "start" is 0x80, "off"  *)
(* is none of 0xC7, the envelope phases 3, 2, 1 are "attack", "decay",     *)
(* "sustain", "echo" is 0x04 whatever its phase bits, and `stop' is 0x40.  *)
(* The loop bit is kept with the sample.  What a sample sounds like is     *)
(* left out; where it is read is not.                                      *)
(***************************************************************************)
EXTENDS Integers

CONSTANTS
  Full,       \* the top of the envelope, 255
  Whole,      \* the fraction that makes one sample, 2^23
  MaxStep,    \* the whole samples a step may hold, 127
  Rate,       \* sRate: the output rate
  FixedRate,  \* what PortMixerSetFixedRate was told
  Block       \* sBlockLen: frames of a block

ASSUME VoiceAssumption ==
  /\ Full \in Nat \ {0} /\ Whole \in Nat \ {0} /\ MaxStep \in Nat
  /\ Rate \in Nat \ {0} /\ FixedRate \in Nat /\ Block \in Nat \ {0}

Phases == {"off", "start", "attack", "decay", "sustain", "echo"}

(* status & 0xC7 *)
On(c) == c.phase # "off"

(* status = 0: whatever else the channel holds stays where it is. *)
Silent(c) == [c EXCEPT !.phase = "off", !.stop = FALSE]

(* status |= 0x40 on a channel that sounds. *)
Release(c) == IF On(c) THEN [c EXCEPT !.stop = TRUE] ELSE c

(* (x * ev) >> 8 *)
Scaled(x, ev) == (x * ev) \div (Full + 1)

(* A note picked up: from the first sample, with the envelope at nothing. *)
Started(c) ==
  [c EXCEPT !.pos = 0, !.remain = c.tone.size, !.fw = 0, !.ev = 0]

Attack(c) ==
  LET ev == c.ev + c.tone.attack
  IN IF ev >= Full THEN [c EXCEPT !.ev = Full, !.phase = "decay"]
                   ELSE [c EXCEPT !.ev = ev, !.phase = "attack"]

(* The note is done but for its tail; without a tail the channel stops. *)
Echo(c) ==
  IF c.echoVolume = 0 THEN Silent(c)
                      ELSE [c EXCEPT !.ev = c.echoVolume, !.phase = "echo"]

EchoTail(c) ==
  IF c.echoLength <= 1 THEN Silent(c) ELSE [c EXCEPT !.echoLength = @ - 1]

(* Bug: a release as quiet as the tail is not the end of the release. *)
FadesOn(c, ev) == IF ev >= c.echoVolume THEN [c EXCEPT !.ev = ev] ELSE Echo(c)

Faded(c, ev) == IF ev > c.echoVolume THEN [c EXCEPT !.ev = ev] ELSE Echo(c)

Decay(c) ==
  LET ev == Scaled(c.tone.decay, c.ev)
  IN CASE ev > c.tone.sustain -> [c EXCEPT !.ev = ev]
       [] ev <= c.tone.sustain /\ c.tone.sustain = 0 -> Echo(c)
       [] OTHER -> [c EXCEPT !.ev = c.tone.sustain, !.phase = "sustain"]

(* One frame of the envelope.  A note released in the frame it was struck  *)
(* in never sounds.                                                        *)
Envelope(c) ==
  CASE c.phase = "off"              -> c
    [] c.phase = "start" /\ c.stop  -> Silent(c)
    [] c.phase = "start" /\ ~c.stop -> Attack(Started(c))
    [] c.phase = "echo"             -> EchoTail(c)
    [] c.phase \in {"attack", "decay", "sustain"} /\ c.stop -> Faded(c, Scaled(c.tone.release, c.ev))
    [] c.phase = "attack" /\ ~c.stop  -> Attack(c)
    [] c.phase = "decay" /\ ~c.stop   -> Decay(c)
    [] c.phase = "sustain" /\ ~c.stop -> c

-----------------------------------------------------------------------------
(* The phase step, capped at what the fraction format holds. *)
StepFor(freq) ==
  LET step == (freq * Whole) \div Rate
  IN IF step > MaxStep * Whole THEN MaxStep * Whole ELSE step

(* A key below the lowest counts as the lowest. *)
Freq(c) == IF c.tone.freq + c.pit < 0 THEN 0 ELSE c.tone.freq + c.pit

Step(c) == StepFor(IF c.tone.fix THEN FixedRate ELSE Freq(c))

LoopLength(c) == IF c.tone.loop THEN c.tone.size - c.tone.loopStart ELSE 0

(* Bug: the sample after the last one is played too. *)
OnePastTheEnd(remain) == remain >= 0

Left(remain) == remain > 0

(* The loop length added back until there is something left. *)
Rewound(remain, loop) == remain + loop * ((-remain) \div loop + 1)

(* The step from one frame of output to the next. *)
Advance(c) ==
  LET fw == c.fw + Step(c)
      adv == fw \div Whole
      remain == c.remain - adv
      loop == LoopLength(c)
      back == Rewound(remain, loop)
  IN CASE ~On(c)   -> c
       [] On(c) /\ adv = 0 -> [c EXCEPT !.fw = fw]
       [] On(c) /\ adv # 0 /\ Left(remain) ->
            [c EXCEPT !.fw = fw % Whole, !.remain = remain, !.pos = @ + adv]
       [] On(c) /\ adv # 0 /\ ~Left(remain) /\ loop = 0 -> Silent(c)
       [] On(c) /\ adv # 0 /\ ~Left(remain) /\ loop # 0 ->
            [c EXCEPT !.fw = fw % Whole, !.remain = back, !.pos = c.tone.loopStart + (loop - back)]

(* The walk of one block, and what it leaves: written back unless the      *)
(* sample ended in it.                                                     *)
Walk(c) ==
  LET after[n \in 0 .. Block] == IF n = 0 THEN c ELSE Advance(after[n - 1])
  IN after

Samples(c) == IF On(Walk(c)[Block]) THEN Walk(c)[Block] ELSE Silent(c)

(* The bytes a block reads: every frame of output lies between the sample  *)
(* under the position and the one after it.                                *)
ReadAt(c) == IF On(c) THEN {c.pos, c.pos + 1} ELSE {}

BlockReads(c) == UNION {ReadAt(Walk(Envelope(c))[n]) : n \in 0 .. Block - 1}

MixChannel(c) == Samples(Envelope(c))
=============================================================================
