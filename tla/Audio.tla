-------------------------------- MODULE Audio -------------------------------
(***************************************************************************)
(* Sound on its way out: the block clock of platform/audio.c, the staging  *)
(* block of m4a_mixer.c, and the three transports below audio_out.c --     *)
(* the ring of native/audio_sdl.c, drained by a thread of the device, the  *)
(* worklet and the script processor of web/audio_out_web.c, and the model  *)
(* of a device a headless page has.  A sample is its number; what it       *)
(* sounds like is the mixer's and is not here.  The ring two threads share *)
(* is modelled sample by sample; those of the page, which one thread each  *)
(* fills and empties, by how much they hold.                               *)
(***************************************************************************)
EXTENDS Integers, Sequences, FiniteSetsExt, Functions

CONSTANTS
  Hosts,        \* the transports looked at
  Nominal,      \* sNominal: samples a frame plays
  Gentle,       \* 8: a block makes up that part of what the queue is off
  Part,         \* 32: and no more than that part of a block
  MaxBlock,     \* PORT_AUDIO_MAX_BLOCK
  ReverbBlocks, \* PORT_REVERB_BLOCKS
  Cap,          \* RING_FRAMES, or ringCap on the web
  Wrap,         \* 2^32: where the counters of the native ring start over
  Chunk,        \* samples the device asks for at a time
  MaxPending,   \* 8: blocks kept while the worklet is being loaded
  ReportEvery,  \* 32: calls of process between two reports of the depth
  InFlight,     \* bound: messages the page and the worklet have under way
  Ahead,        \* bound: what the page pushes without a report, the device asleep
  Modes         \* what the game and the test tone may want of a frame

ASSUME AudioAssumption ==
  /\ Hosts \subseteq {"sdl", "worklet", "script", "headless"}
  /\ Modes \subseteq {"on", "off", "tone"}
  /\ {Nominal, Gentle, Part, MaxBlock, ReverbBlocks, Cap, Wrap, Chunk, ReportEvery} \subseteq Nat \ {0}
  /\ Nominal <= MaxBlock /\ Wrap % Cap = 0 /\ Wrap > Cap /\ MaxPending <= InFlight /\ Ahead \in Nat

VARIABLES
  host, mode,
  phase,            \* where the frame is: "vsync" between two frames
  block,            \* sBlock of audio.c
  blockLen, stage,  \* sBlockLen, sStageFrames of m4a_mixer.c
  count, copied,    \* the block being handed over, and how much of it is copied
  ring, wr, rd,     \* sRing, sWrite, sRead
  drain,            \* Drain: what it will take, how much of it it has
  have,             \* what the worklet's or the script's ring holds
  ready, pending,   \* is there a node; the blocks that wait for one
  mail, reports,    \* under way to the worklet, and from it
  depth, pushed,    \* what the page believes is queued
  tick,             \* calls of process, to the next report
  clock, due,       \* "free", then "steady": samples the device still takes
  heard             \* history: the last sample heard

mainVars   == <<mode, phase, block, blockLen, stage, count, copied>>
ringVars   == <<ring, wr>>
drainVars  == <<rd, drain, heard>>
sinkVars   == <<have, tick>>
pageVars   == <<ready, pending, depth, pushed>>
clockVars  == <<clock, due>>
nativeVars == <<ringVars, drainVars>>
webVars    == <<sinkVars, pageVars, mail, reports>>
audioVars  == <<host, mainVars, nativeVars, webVars, clockVars>>

Idle == [busy |-> FALSE, take |-> 0, at |-> 0]

(* PortAudioStartup: one nominal block, and a mixer as wide as it. *)
AudioInit ==
  /\ host \in Hosts /\ mode \in Modes
  /\ phase = "vsync" /\ block = Nominal /\ blockLen = Nominal /\ stage = 0
  /\ count = 0 /\ copied = 0
  /\ ring = [s \in 0 .. Cap - 1 |-> Wrap] /\ wr = 0 /\ rd = 0 /\ drain = Idle
  /\ have = 0 /\ tick = 0
  /\ ready = (host # "worklet") /\ pending = <<>> /\ mail = <<>> /\ reports = <<>>
  /\ depth = 0 /\ pushed = 0
  /\ clock = "free" /\ due = 0
  /\ heard = Wrap - 1

-----------------------------------------------------------------------------
(* The frame: m4aSoundVSync, call by call, and SoundMain behind it.        *)

Steady == clock = "steady"

(* The length of what is pushed: the tone and silence are as long as       *)
(* audio.c wants them, music as long as the mixer rendered it.             *)
PushLength == IF mode = "on" /\ stage > 0 THEN stage ELSE block

m4aSoundVSync ==
  /\ phase = "vsync" /\ Len(mail) < InFlight
  /\ IF Steady THEN due < Chunk /\ reports = <<>> ELSE pushed <= Ahead
  /\ phase' = "submit" /\ count' = PushLength
  /\ stage' = IF mode = "on" THEN 0 ELSE stage
  /\ due' = IF Steady /\ host # "headless" THEN due + Nominal ELSE due
  /\ UNCHANGED <<host, mode, block, blockLen, copied, nativeVars, webVars, clock>>

(* sWrite - sRead. *)
InRing == (wr - rd) % Wrap

(* PortAudioQueued. *)
PortAudioQueued == IF host = "sdl" THEN InRing ELSE depth + pushed

(* Bug: the ring takes one sample more than it has room for. *)
OneTooMany == Cap + 1 - InRing
SpaceInRing == Cap - InRing

(* PortAudioSubmit of audio_sdl.c: the room is looked at once, the samples *)
(* are copied, and then they are published.                                *)
Submit ==
  /\ phase = "submit" /\ host = "sdl"
  /\ count' = Min({count, SpaceInRing}) /\ copied' = 0 /\ phase' = "copy"
  /\ UNCHANGED <<host, mode, block, blockLen, stage, nativeVars, webVars, clockVars>>

CopySample ==
  /\ phase = "copy" /\ copied < count
  /\ ring' = [ring EXCEPT ![(wr + copied) % Cap] = (wr + copied) % Wrap]
  /\ copied' = copied + 1
  /\ UNCHANGED <<host, mode, phase, block, blockLen, stage, count, wr, drainVars, webVars, clockVars>>

Publish ==
  /\ phase = "copy" /\ copied = count
  /\ wr' = (wr + count) % Wrap
  /\ phase' = "choose" /\ count' = 0 /\ copied' = 0
  /\ UNCHANGED <<host, mode, block, blockLen, stage, ring, drainVars, webVars, clockVars>>

(* The ring of the worklet and of the script processor takes what fits of  *)
(* a block; the newest samples are the ones dropped.                       *)
Fits(n) == Min({n, Cap - have})

(* PortAudioSubmit of audio_out_web.c. *)
SubmitWeb ==
  /\ phase = "submit" /\ phase' = "choose" /\ count' = 0
  /\ CASE host = "worklet" /\ ready ->
            /\ mail' = Append(mail, count) /\ pushed' = pushed + count
            /\ UNCHANGED <<have, pending, depth>>
       [] host = "worklet" /\ ~ready ->
            /\ pending' = IF Len(pending) < MaxPending THEN Append(pending, count) ELSE pending
            /\ UNCHANGED <<have, mail, depth, pushed>>
       [] host = "script" ->
            /\ have' = have + Fits(count) /\ pushed' = pushed + Fits(count)
            /\ UNCHANGED <<mail, pending, depth>>
       [] host = "headless" ->
            /\ depth' = Max({depth + count - Nominal, 0})
            /\ UNCHANGED <<have, mail, pending, pushed>>
       [] OTHER -> FALSE
  /\ UNCHANGED <<host, mode, block, blockLen, stage, copied, nativeVars, tick, ready, reports, clockVars>>

-----------------------------------------------------------------------------
(* The block clock.                                                        *)

(* Division as C has it. *)
Quotient(n, by) == IF n < 0 THEN -((-n) \div by) ELSE n \div by
Within(n, lo, hi) == Max({lo, Min({hi, n})})

(* Bug: a full queue is given longer blocks. *)
WrongWay(queued) == Within(Quotient(queued - 2 * Nominal, Gentle), -(Nominal \div Part), Nominal \div Part)
Nudge(queued) == Within(Quotient(2 * Nominal - queued, Gentle), -(Nominal \div Part), Nominal \div Part)

(* PortMixerSetBlock refuses what does not fit its reverb ring, and that   *)
(* ring is as many nominal blocks as there are taps.                       *)
MixerTakes(n) == n > 0 /\ n <= MaxBlock /\ n * ReverbBlocks <= Nominal * ReverbBlocks

ChooseBlockSize ==
  /\ phase = "choose" /\ phase' = "main"
  /\ LET next == Within(Nominal + Nudge(PortAudioQueued), 1, MaxBlock)
     IN /\ block' = next
        /\ blockLen' = IF MixerTakes(next) THEN next ELSE blockLen
  /\ UNCHANGED <<host, mode, stage, count, copied, nativeVars, webVars, clockVars>>

(* SoundMain, of which only the length of its block matters here, renders  *)
(* one unless the game has switched sound off; in the frame that follows   *)
(* it may be on or off.                                                    *)
RenderBlock(next) ==
  /\ phase = "main" /\ phase' = "vsync"
  /\ stage' = IF mode = "off" THEN stage ELSE blockLen
  /\ mode' = next
  /\ UNCHANGED <<host, block, blockLen, count, copied, nativeVars, webVars, clockVars>>

-----------------------------------------------------------------------------
(* The device.                                                             *)

Asked == Steady => due >= Chunk
Answered == due' = IF Steady THEN due - Chunk ELSE due

(* Drain, on the device's thread: both counters are read, the samples are  *)
(* copied one by one, and then given back.                                 *)
DrainBegin ==
  /\ host = "sdl" /\ ~drain.busy /\ Asked /\ Answered
  /\ drain' = [busy |-> TRUE, take |-> Min({Chunk, InRing}), at |-> 0]
  /\ UNCHANGED <<host, mainVars, ringVars, rd, heard, webVars, clock>>

DrainSample ==
  /\ drain.busy /\ drain.at < drain.take
  /\ heard' = ring[(rd + drain.at) % Cap]
  /\ drain' = [drain EXCEPT !.at = @ + 1]
  /\ UNCHANGED <<host, mainVars, ringVars, rd, webVars, clockVars>>

DrainEnd ==
  /\ drain.busy /\ drain.at = drain.take /\ drain' = Idle
  /\ rd' = (rd + drain.take) % Wrap
  /\ UNCHANGED <<host, mainVars, ringVars, heard, webVars, clockVars>>

(* process of the worklet, which every so many calls says what it has left. *)
Process ==
  /\ host = "worklet" /\ ready /\ Asked /\ Answered
  /\ Steady => mail = <<>>
  /\ reports = <<>>     \* bound: a report arrives before the next call
  /\ have' = have - Min({Chunk, have}) /\ tick' = (tick + 1) % ReportEvery
  /\ reports' = IF tick' = 0 THEN Append(reports, have') ELSE reports
  /\ UNCHANGED <<host, mainVars, nativeVars, pageVars, mail, clock>>

(* onaudioprocess, on the page's own thread: only between two frames. *)
OnAudioProcess ==
  /\ host = "script" /\ phase = "vsync" /\ Asked /\ Answered
  /\ have' = have - Min({Chunk, have}) /\ depth' = have' /\ pushed' = 0
  /\ UNCHANGED <<host, mainVars, nativeVars, tick, ready, pending, mail, reports, clock>>

(* take, on the worklet's thread. *)
Take ==
  /\ host = "worklet" /\ mail # <<>>
  /\ have' = have + Fits(Head(mail)) /\ mail' = Tail(mail)
  /\ UNCHANGED <<host, mainVars, nativeVars, tick, pageVars, reports, clockVars>>

(* The page hears of the depth, between two frames. *)
Reported ==
  /\ phase = "vsync" /\ reports # <<>>
  /\ depth' = Head(reports) /\ pushed' = 0 /\ reports' = Tail(reports)
  /\ UNCHANGED <<host, mainVars, nativeVars, sinkVars, ready, pending, mail, clockVars>>

(* The worklet's module has been loaded, between two frames: the blocks    *)
(* that waited are posted.  If it could not be, the script processor       *)
(* stands in and they go into its ring.                                    *)
StartWorklet ==
  /\ ~ready /\ phase = "vsync"
  /\ ready' = TRUE /\ pending' = <<>>
  /\ mail' = mail \o pending /\ pushed' = pushed + SumFunction(pending)
  /\ UNCHANGED <<host, mainVars, nativeVars, sinkVars, depth, reports, clockVars>>

StartScriptProcessor ==
  /\ ~ready /\ phase = "vsync"
  /\ host' = "script" /\ ready' = TRUE /\ pending' = <<>>
  /\ have' = Fits(SumFunction(pending)) /\ pushed' = have'
  /\ UNCHANGED <<mainVars, nativeVars, tick, depth, mail, reports, clockVars>>

(* External: from some moment on the device plays exactly what the frames  *)
(* are worth, and a message arrives before the device's next call or the   *)
(* page's next frame; before it, either may run ahead of the other.        *)
Settle ==
  /\ clock = "free" /\ ready /\ clock' = "steady"
  /\ UNCHANGED <<host, mainVars, nativeVars, webVars, due>>

AudioFrame == m4aSoundVSync \/ Submit \/ CopySample \/ Publish \/ SubmitWeb \/ ChooseBlockSize
                \/ \E next \in Modes : RenderBlock(next)
Device == DrainBegin \/ DrainSample \/ DrainEnd \/ Process \/ OnAudioProcess
Page == Reported \/ StartWorklet \/ StartScriptProcessor

AudioNext == AudioFrame \/ Device \/ Take \/ Page \/ Settle

AudioSpec == AudioInit /\ [][AudioNext]_audioVars

(* The frame loop turns, the device plays, and messages arrive. *)
AudioFairness ==
  /\ WF_audioVars(AudioFrame) /\ WF_audioVars(Device)
  /\ WF_audioVars(Take) /\ WF_audioVars(Reported)
AudioFairSpec == AudioSpec /\ AudioFairness

-----------------------------------------------------------------------------
(* PROPERTIES                                                              *)

(* What is heard is what the ring took, sample after sample: none is       *)
(* overwritten before it is played, played before it is there, played      *)
(* twice or skipped -- whatever the two threads do between each other's    *)
(* steps, over a full ring, an empty one and the wrap of the counters.     *)
HeardAsQueued ==
  [][drain'.at > drain.at => heard' = (heard + 1) % Wrap]_audioVars

(* The samples a transport has been given and has not played. *)
Queued == IF host = "sdl" THEN InRing ELSE have + SumFunction(mail)

(* "The block is nudged ... to hold the queue at its target depth": once   *)
(* the clocks agree, what has piled up before is worked off.               *)
SurplusGoes ==
  Steady ~> phase = "main" /\ (host # "headless" => Queued <= 2 * Nominal + Gentle)

(* And what was missing is made up. *)
DeficitGoes ==
  Steady ~> phase = "main" /\ (host # "headless" => Queued >= 2 * Nominal - Gentle)
=============================================================================
