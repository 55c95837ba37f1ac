------------------------------- MODULE Mixer -------------------------------
(***************************************************************************)
(* The sound engine of platform/m4a_mixer.c: one player's tracks run their *)
(* commands, strike notes on channels they take from one another, and the  *)
(* mixer steps every channel.  One call of SoundMain is cut into its       *)
(* steps, `pc' says where it is:                                           *)
(*   "idle" -> "tick" -> ("gates" -> "commands")* -> "tick" -> ...         *)
(*          -> "push"* -> "cgb" -> "mix"* -> "idle"                        *)
(* and `at' is the track or the channel the loop is at.                    *)
(*                                                                         *)
(* A song is a sequence of commands per track; the bytes of a command and  *)
(* running status are left out.  Tracks and channels are numbers in the    *)
(* order of their addresses; 0 is NULL.  What the game's own m4a.c does    *)
(* (MPlayStart, MPlayStop, FadeOutBody, TrkVolPitSet, ClearModM, CgbSound) *)
(* is external.                                                            *)
(***************************************************************************)
EXTENDS Voice, SequencesExt

CONSTANTS
  NumTracks,    \* tracks of the player
  MaxChans,     \* soundInfo->maxChans: direct sound channels
  NumCgb,       \* soundInfo->cgbChans
  Voices,       \* name -> voice: [kind: "wave", "cgb" or "split", ...]
  Songs,        \* the songs, each a function from tracks to programs
  TopKey,       \* the highest key (127)
  Beat,         \* tempo counts of a tick (150)
  MaxPriority,  \* the highest priority (255)
  Levels,       \* how deep patterns nest (3)
  FullVolX,     \* the volume of a track no fade has turned down (64)
  Wheel         \* counts of the LFO's wave (256)

ASSUME MixerAssumption ==
  /\ NumTracks \in Nat \ {0} /\ MaxChans \in Nat \ {0} /\ NumCgb \in Nat
  /\ Beat \in Nat \ {0} /\ MaxPriority \in Nat /\ Levels \in Nat /\ FullVolX \in Nat
  /\ Wheel \in Nat \ {0} /\ Wheel % 4 = 0 /\ TopKey \in Nat

Keys    == 0 .. TopKey
Tracks  == 1 .. NumTracks
Direct  == 1 .. MaxChans
Chans   == 1 .. MaxChans + NumCgb
CgbOf(tone) == MaxChans + tone.cgb

(* The voice a track has before it has chosen one: tone.type = 1. *)
NoVoice == "none"

(* A voice is a sample or a CGB oscillator, or a table of voices by key.   *)
ASSUME VoicesAssumption ==
  /\ NoVoice \in DOMAIN Voices /\ Voices[NoVoice].kind = "cgb"
  /\ \A v \in DOMAIN Voices :
       LET voice == Voices[v]
       IN IF voice.kind = "split" THEN voice.sub \in [Keys -> DOMAIN Voices]
          ELSE /\ voice.kind \in {"wave", "cgb"}
               /\ voice.kind = "cgb" => voice.cgb \in 1 .. NumCgb
               /\ voice.size \in Nat \ {0} /\ voice.loopStart \in 0 .. voice.size
               /\ \A f \in {"freq", "attack", "decay", "sustain", "release"} : voice[f] \in Nat
               /\ voice.loop \in BOOLEAN /\ voice.fix \in BOOLEAN

(* The commands of a program of n commands. *)
Commands(n) ==
  [op : {"rest", "tempo", "prio", "delay", "echoVolume", "echoLength", "vol", "mod", "speed", "modT"}, n : Nat]
    \cup [op : {"pit"}, n : Int] \cup [op : {"voice"}, n : DOMAIN Voices]
    \cup [op : {"note"}, key : Keys, gate : Nat] \cup [op : {"endtie"}, key : Keys]
    \cup [op : {"goto", "patt"}, to : 1 .. n] \cup [op : {"rept"}, n : Nat, to : 1 .. n]
    \cup [op : {"fine", "pend"}]

(* A program jumps within itself, and its last command leaves it for good. *)
ASSUME SongsAssumption ==
  \A prog \in Songs :
    /\ DOMAIN prog = Tracks
    /\ \A t \in Tracks :
         /\ prog[t] \in Seq(Commands(Len(prog[t])))
         /\ prog[t] # <<>> => prog[t][Len(prog[t])].op \in {"goto", "fine"}

VARIABLES
  tracks,   \* MusicPlayerTrack, by number
  chans,    \* SoundChannel and CgbChannel, by number
  song,     \* the program each track's cmdPtr points into
  paused,   \* status < 0
  tempoC, tempoI,
  active,   \* activeMask of the tick
  pc, at

vars == <<tracks, chans, song, paused, tempoC, tempoI, active, pc, at>>

FreshTrack ==
  [exist |-> FALSE, start |-> FALSE, vlchg |-> FALSE, ptchg |-> FALSE, wait |-> 0,
   pos |-> 1, stack |-> <<>>, rep |-> 0, voice |-> NoVoice, vol |-> 0, volX |-> 0, pit |-> 0,
   key |-> 0, gate |-> 0, prio |-> 0, chan |-> 0,
   speed |-> 0, mod |-> 0, modT |-> 0, modM |-> 0, phase |-> 0, delay |-> 0, delayC |-> 0,
   echoVolume |-> 0, echoLength |-> 0]

FreshChan ==
  [phase |-> "off", stop |-> FALSE, track |-> 0, np |-> 0, pp |-> 0, gt |-> 0, mk |-> 0,
   pr |-> 0, ev |-> 0, vol |-> 0, pit |-> 0, tone |-> Voices[NoVoice], echoVolume |-> 0,
   echoLength |-> 0, pos |-> 0, remain |-> 0, fw |-> 0, stale |-> FALSE]

Init ==
  /\ tracks = [t \in Tracks |-> FreshTrack]
  /\ chans = [c \in Chans |-> FreshChan]
  /\ song = [t \in Tracks |-> <<>>]
  /\ paused = TRUE
  /\ tempoC = 0 /\ tempoI = Beat
  /\ active = {}
  /\ pc = "idle" /\ at = 1

-----------------------------------------------------------------------------
(* The channels of a track: a doubly linked list, newest first.            *)

(* The list from channel c on, cut off where it is too long to be one. *)
NextIn(ch, c) == IF c = 0 THEN 0 ELSE ch[c].np

ChainFrom(ch, c) ==
  LET nth[n \in 1 .. MaxChans + NumCgb] == IF n = 1 THEN c ELSE NextIn(ch, nth[n - 1])
  IN [n \in {m \in 1 .. MaxChans + NumCgb : nth[m] # 0} |-> nth[n]]

Chain(t) == ChainFrom(chans, tracks[t].chan)

(* The two structures a command works on. *)
State == [tr |-> tracks, ch |-> chans]
Becomes(s) == tracks' = s.tr /\ chans' = s.ch

(* Bug: the channel after this one keeps pointing back to it. *)
BackToTheCut(ch, c) == ch

(* The channel after this one points back to where this one did. *)
BackPast(ch, c) == IF ch[c].np = 0 THEN ch ELSE [ch EXCEPT ![ch[c].np].pp = ch[c].pp]

RealClearChain(s, c) ==
  LET t == s.ch[c].track  np == s.ch[c].np  pp == s.ch[c].pp
      back == BackPast(s.ch, c)
  IN CASE t = 0 -> s
       [] t # 0 /\ pp = 0 -> [tr |-> [s.tr EXCEPT ![t].chan = np], ch |-> [back EXCEPT ![c].track = 0]]
       [] t # 0 /\ pp # 0 -> [tr |-> s.tr, ch |-> [back EXCEPT ![pp].np = np, ![c].track = 0]]

(* Those of the notes that are to go, unlinked one after the other. *)
Cut(s, c, gone) == IF c \in gone THEN RealClearChain(s, c) ELSE s

Unlinked(s, notes, gone) ==
  LET after[n \in 0 .. Len(notes)] == IF n = 0 THEN s ELSE Cut(after[n - 1], notes[n], gone)
  IN after[Len(notes)]

Linked(s, c, t) ==
  LET first == s.tr[t].chan
      back == IF first = 0 THEN s.ch ELSE [s.ch EXCEPT ![first].pp = c]
  IN [tr |-> [s.tr EXCEPT ![t].chan = c],
      ch |-> [back EXCEPT ![c].track = t, ![c].np = first, ![c].pp = 0]]

(* Bug: the notes of a track that ends stay in its list. *)
StillHeld(s, notes) == s
LetGo(s, notes) == Unlinked(s, notes, Chans)

(* The change marks taken away, and all the flags. *)
Clean(tr) == [tr EXCEPT !.vlchg = FALSE, !.ptchg = FALSE]
Ended(tr) == [Clean(tr) EXCEPT !.exist = FALSE, !.start = FALSE]

(* End of track: every note it holds goes into release and its own way. *)
Fine(s, t) ==
  LET notes == ChainFrom(s.ch, s.tr[t].chan)
      released == [c \in Chans |-> IF c \in ToSet(notes) THEN Release(s.ch[c]) ELSE s.ch[c]]
      free == LetGo([tr |-> s.tr, ch |-> released], notes)
  IN [tr |-> [free.tr EXCEPT ![t] = Ended(@)], ch |-> free.ch]

(* Every channel of the track silenced at once. *)
TrackStop(s, t) ==
  LET notes == ChainFrom(s.ch, s.tr[t].chan)
  IN IF ~s.tr[t].exist THEN s
     ELSE [tr |-> [s.tr EXCEPT ![t].chan = 0],
           ch |-> [c \in Chans |->
                     IF c \in ToSet(notes) THEN [Silent(s.ch[c]) EXCEPT !.track = 0]
                                           ELSE s.ch[c]]]

-----------------------------------------------------------------------------
(* TrkVolPitSet and ClearModM of the game's m4a.c, external.               *)
VolumeOf(tr) == tr.vol * tr.volX + IF tr.modT = 0 THEN 0 ELSE tr.modM
PitchOf(tr)  == tr.pit + IF tr.modT = 0 THEN tr.modM ELSE 0
ModFlagged(tr) == IF tr.modT = 0 THEN [tr EXCEPT !.ptchg = TRUE] ELSE [tr EXCEPT !.vlchg = TRUE]
ClearModM(tr) == ModFlagged([tr EXCEPT !.phase = 0, !.modM = 0])

(* One step of the LFO: a triangle, kept at full width for the fold while  *)
(* its low byte is stored.                                                 *)
Signed(x) == IF x % Wheel >= Wheel \div 2 THEN (x % Wheel) - Wheel ELSE x % Wheel

Triangle(phase) ==
  IF Signed(phase - Wheel \div 4) < 0 THEN Signed(phase) ELSE Wheel \div 2 - phase

Wave(tr) ==
  LET phase == tr.phase + tr.speed
      depth == (Triangle(phase) * tr.mod) \div (Wheel \div 4)
      turned == [tr EXCEPT !.phase = phase % Wheel]
  IN IF depth = tr.modM THEN turned ELSE ModFlagged([turned EXCEPT !.modM = depth])

(* The rest counted down, and the LFO with it. *)
Waited(tr) ==
  LET less == [tr EXCEPT !.wait = @ - 1]
  IN CASE tr.speed = 0 \/ tr.mod = 0 -> less
       [] tr.speed # 0 /\ tr.mod # 0 /\ tr.delayC # 0 -> [less EXCEPT !.delayC = @ - 1]
       [] tr.speed # 0 /\ tr.mod # 0 /\ tr.delayC = 0 -> Wave(less)

-----------------------------------------------------------------------------
First(S) == CHOOSE i \in S : \A j \in S : i <= j

(* ply_note: which channel a note takes.  Tracks are compared by address,  *)
(* and a channel of no track counts as track 0.                            *)
Chosen(cand, i, c) ==
  [best |-> i, track |-> c.track, priority |-> c.pr, releasing |-> cand.releasing]

AtLeastAsBad(cand, c) == c.pr < cand.priority \/ (c.pr = cand.priority /\ c.track >= cand.track)

(* Bug: a channel being released is only another candidate. *)
NoPreference(cand, i, c) == IF AtLeastAsBad(cand, c) THEN Chosen(cand, i, c) ELSE cand

(* One turn of the loop over the direct sound channels. *)
Better(cand, i, c) ==
  CASE c.stop /\ ~cand.releasing -> [Chosen(cand, i, c) EXCEPT !.releasing = TRUE]
    [] ~c.stop /\ cand.releasing -> cand
    [] c.stop = cand.releasing -> IF AtLeastAsBad(cand, c) THEN Chosen(cand, i, c) ELSE cand

(* The channel for a note of track t, 0 if every channel outranks it.  A   *)
(* channel that is free ends the search.                                   *)
DirectFor(t, priority) ==
  LET free == {i \in Direct : ~On(chans[i])}
      none == [best |-> 0, track |-> t, priority |-> priority, releasing |-> FALSE]
      found[n \in 0 .. MaxChans] == IF n = 0 THEN none ELSE Better(found[n - 1], n, chans[n])
  IN IF free # {} THEN First(free) ELSE found[MaxChans].best

(* A CGB voice has one channel: its note may be evicted by a better one,   *)
(* or an equal one of a track at the same or a lower address.              *)
CgbFor(t, priority, i) ==
  LET c == chans[i]
  IN IF On(c) /\ ~c.stop /\ (c.pr > priority \/ (c.pr = priority /\ c.track < t)) THEN 0 ELSE i

ChannelFor(t, priority, tone) ==
  IF tone.kind = "cgb" THEN CgbFor(t, priority, CgbOf(tone)) ELSE DirectFor(t, priority)

(* The voice behind a key split; a split behind a split plays nothing. *)
Behind(voice, key) == IF voice.kind = "split" THEN Voices[voice.sub[key]] ELSE voice

(* The note on the channel it took, cut from whatever chain it was in.  It *)
(* clears the marks of the track; `stale' (a history) are the notes of the *)
(* track that will not hear what was marked.                               *)
Struck(s, t, c, tone, priority) ==
  LET mine == Linked(RealClearChain(s, c), c, t)
      tr == IF mine.tr[t].delay = 0 THEN mine.tr[t] ELSE ClearModM(mine.tr[t])
      unheard(d) == mine.ch[d].track = t /\ (tr.vlchg \/ tr.ptchg)
  IN [tr |-> [mine.tr EXCEPT ![t] = [Clean(tr) EXCEPT !.delayC = tr.delay]],
      ch |-> [d \in Chans |->
        IF d # c THEN [mine.ch[d] EXCEPT !.stale = @ \/ unheard(d)]
        ELSE [mine.ch[d] EXCEPT
               !.phase = "start", !.stop = FALSE, !.stale = FALSE, !.gt = tr.gate, !.mk = tr.key,
               !.pr = priority, !.tone = tone, !.vol = VolumeOf(tr), !.pit = PitchOf(tr),
               !.echoVolume = tr.echoVolume, !.echoLength = tr.echoLength]]]

-----------------------------------------------------------------------------
(* One action per command.  Cmd is the command the track at `at' is at;    *)
(* Past is the track with the command behind it.                           *)
Cmd == song[at][tracks[at].pos]
Reads(op) == pc = "commands" /\ tracks[at].exist /\ tracks[at].wait = 0 /\ Cmd.op = op
Past == [tracks[at] EXCEPT !.pos = @ + 1]
With(tr) == [tr |-> [tracks EXCEPT ![at] = tr], ch |-> chans]
SongUnchanged == UNCHANGED <<song, paused, tempoC, active, pc, at>>
Does(s) == Becomes(s) /\ SongUnchanged /\ UNCHANGED tempoI
Sets(tr) == Does(With(tr))

Rest == Reads("rest") /\ Sets([Past EXCEPT !.wait = Cmd.n])

(* A note; key 0 stands for the key of the note before. *)
PlyNote ==
  /\ Reads("note")
  /\ LET tr == [Past EXCEPT !.gate = Cmd.gate, !.key = IF Cmd.key = 0 THEN @ ELSE Cmd.key]
         tone == Behind(Voices[tr.voice], tr.key)
         priority == IF tr.prio > MaxPriority THEN MaxPriority ELSE tr.prio
         c == ChannelFor(at, priority, tone)
     IN IF tone.kind = "split" \/ c = 0 THEN Sets(tr) ELSE Does(Struck(With(tr), at, c, tone, priority))

(* A note ended by its key. *)
PlyEndtie ==
  /\ Reads("endtie")
  /\ LET notes == Chain(at)
         held(c) == On(chans[c]) /\ ~chans[c].stop /\ chans[c].mk = Cmd.key
         tied == {i \in DOMAIN notes : held(notes[i])}
         s == With([Past EXCEPT !.key = Cmd.key])
     IN Does(IF tied = {} THEN s
             ELSE [tr |-> s.tr, ch |-> [chans EXCEPT ![notes[First(tied)]].stop = TRUE]])

PlyFine == Reads("fine") /\ Does(Fine(With(Past), at))

PlyGoto == Reads("goto") /\ Sets([tracks[at] EXCEPT !.pos = Cmd.to])

MayNest(tr) == Len(tr.stack) < Levels

PlyPatt ==
  /\ Reads("patt")
  /\ IF ~MayNest(tracks[at]) THEN Does(Fine(With(Past), at))
     ELSE Sets([tracks[at] EXCEPT !.stack = Append(@, Past.pos), !.pos = Cmd.to])

PlyPend ==
  /\ Reads("pend")
  /\ LET stack == tracks[at].stack
     IN Sets(IF stack = <<>> THEN Past ELSE [Past EXCEPT !.pos = Last(stack), !.stack = Front(stack)])

PlyRept ==
  /\ Reads("rept")
  /\ LET n == tracks[at].rep + 1
     IN Sets(CASE Cmd.n = 0 -> [Past EXCEPT !.pos = Cmd.to]
               [] Cmd.n # 0 /\ n < Cmd.n -> [Past EXCEPT !.rep = n, !.pos = Cmd.to]
               [] Cmd.n # 0 /\ n >= Cmd.n -> [Past EXCEPT !.rep = 0])

PlyTempo == Reads("tempo") /\ Becomes(With(Past)) /\ tempoI' = Cmd.n /\ SongUnchanged

(* prio, voice, lfodl; xcmd's echo volume and length. *)
PlyPlain  == \E f \in {"prio", "voice", "delay", "echoVolume", "echoLength"} :
               Reads(f) /\ Sets([Past EXCEPT ![f] = Cmd.n])
(* vol and pan. *)
PlyVolume == Reads("vol") /\ Sets([Past EXCEPT !.vol = Cmd.n, !.vlchg = TRUE])
(* keysh, bend, bendr and tune. *)
PlyPitch  == Reads("pit") /\ Sets([Past EXCEPT !.pit = Cmd.n, !.ptchg = TRUE])

PlyMod ==
  \E f \in {"mod", "speed"} :
    /\ Reads(f)
    /\ LET tr == [Past EXCEPT ![f] = Cmd.n] IN Sets(IF Cmd.n = 0 THEN ClearModM(tr) ELSE tr)

PlyModt ==
  /\ Reads("modT")
  /\ Sets(IF tracks[at].modT = Cmd.n THEN Past
          ELSE [Past EXCEPT !.modT = Cmd.n, !.vlchg = TRUE, !.ptchg = TRUE])

Command ==
  \/ Rest \/ PlyNote \/ PlyEndtie \/ PlyFine \/ PlyGoto \/ PlyPatt \/ PlyPend \/ PlyRept
  \/ PlyTempo \/ PlyPlain \/ PlyVolume \/ PlyPitch \/ PlyMod \/ PlyModt

-----------------------------------------------------------------------------
(* MPlayMain and SoundMain.                                                *)
Goes(where, i) == pc' = where /\ at' = i

(* A player that is paused has no frame. *)
Skipped == paused /\ Goes("cgb", 1) /\ UNCHANGED <<tracks, chans, paused, tempoC>>

(* Every track stopped: what the game's MPlayStop does, and its fades.     *)
Stopped ==
  LET after[t \in 0 .. NumTracks] == IF t = 0 THEN State ELSE TrackStop(after[t - 1], t)
  IN after[NumTracks]

(* The game's FadeOutBody, external: a fade that has come to its end stops *)
(* the tracks, for good or to be resumed, and the player with them.        *)
FadedOut ==
  /\ ~paused
  /\ \E resumed \in BOOLEAN :
       Becomes(IF resumed THEN Stopped
               ELSE [tr |-> [t \in Tracks |-> Ended(Stopped.tr[t])], ch |-> Stopped.ch])
  /\ paused' = TRUE /\ Goes("cgb", 1)
  /\ UNCHANGED tempoC

(* A step of a fade turns every track that plays to its volume. *)
Turned(x) ==
  [t \in Tracks |-> IF tracks[t].exist THEN [tracks[t] EXCEPT !.volX = x, !.vlchg = TRUE] ELSE tracks[t]]

Sequenced ==
  /\ ~paused
  /\ tracks' = tracks \/ \E x \in 0 .. FullVolX : tracks' = Turned(x)
  /\ tempoC' = tempoC + tempoI /\ Goes("tick", 1)
  /\ UNCHANGED <<chans, paused>>

SoundMain ==
  /\ pc = "idle"
  /\ Skipped \/ FadedOut \/ Sequenced
  /\ UNCHANGED <<song, tempoI, active>>

Tick ==
  /\ pc = "tick"
  /\ IF tempoC >= Beat THEN tempoC' = tempoC - Beat /\ active' = {} /\ Goes("gates", 1)
                       ELSE UNCHANGED <<tempoC, active>> /\ Goes("push", 1)
  /\ UNCHANGED <<tracks, chans, song, paused, tempoI>>

(* The end of a tick: a player without a track stops. *)
EndOfTick(act) ==
  IF act = {} THEN paused' = TRUE /\ Goes("cgb", 1) ELSE paused' = FALSE /\ Goes("tick", 1)

NextTrack(act) == IF at = NumTracks THEN EndOfTick(act) ELSE UNCHANGED paused /\ Goes("gates", at + 1)

(* One count off a note, which is released at the last. *)
Counted(c) ==
  IF c.gt = 0 THEN c ELSE [c EXCEPT !.gt = @ - 1, !.stop = @ \/ c.gt = 1]

(* The notes of a track that has a tick: counted, or unlinked if over. *)
Gated(s, t) ==
  LET notes == ChainFrom(s.ch, s.tr[t].chan)
      sounding == {c \in ToSet(notes) : On(s.ch[c])}
      counted == [c \in Chans |-> IF c \in sounding THEN Counted(s.ch[c]) ELSE s.ch[c]]
  IN Unlinked([tr |-> s.tr, ch |-> counted], notes, Chans \ sounding)

(* What Clear64byte leaves of a track that is being started: where it is   *)
(* in its song.                                                            *)
Reset(tr) ==
  IF ~tr.start THEN tr ELSE [FreshTrack EXCEPT !.exist = TRUE, !.volX = FullVolX, !.speed = 1, !.pos = tr.pos]

Gates ==
  /\ pc = "gates"
  /\ IF ~tracks[at].exist
     THEN NextTrack(active) /\ UNCHANGED <<tracks, chans, active>>
     ELSE /\ LET s == Gated(State, at)
             IN Becomes([tr |-> [s.tr EXCEPT ![at] = Reset(@)], ch |-> s.ch])
          /\ active' = active \cup {at}
          /\ pc' = "commands" /\ UNCHANGED <<at, paused>>
  /\ UNCHANGED <<song, tempoC, tempoI>>

(* The track waits, or it has ended. *)
Rested ==
  /\ pc = "commands" /\ (tracks[at].wait # 0 \/ ~tracks[at].exist)
  /\ tracks' = IF tracks[at].exist THEN [tracks EXCEPT ![at] = Waited(@)] ELSE tracks
  /\ NextTrack(active)
  /\ UNCHANGED <<chans, song, tempoC, tempoI, active>>

(* The second pass: what the commands changed, pushed into the notes that  *)
(* sound.                                                                  *)
Pushed(s, t) ==
  LET tr == s.tr[t]
      notes == ChainFrom(s.ch, tr.chan)
      sounding == {c \in ToSet(notes) : On(s.ch[c])}
      heard == [c \in Chans |->
        IF c \notin sounding THEN s.ch[c]
        ELSE [s.ch[c] EXCEPT !.vol = IF tr.vlchg THEN VolumeOf(tr) ELSE @,
                             !.pit = IF tr.ptchg THEN PitchOf(tr) ELSE @]]
      free == Unlinked([tr |-> s.tr, ch |-> heard], notes, Chans \ sounding)
  IN [tr |-> [free.tr EXCEPT ![t] = Clean(@)], ch |-> free.ch]

(* Bug: a track whose pitch alone has changed is passed over. *)
VolumeOnly(tr) == tr.exist /\ tr.vlchg

Changed(tr) == tr.exist /\ (tr.vlchg \/ tr.ptchg)

Push ==
  /\ pc = "push"
  /\ Becomes(IF Changed(tracks[at]) THEN Pushed(State, at) ELSE State)
  /\ IF at = NumTracks THEN Goes("cgb", 1) ELSE Goes("push", at + 1)
  /\ UNCHANGED <<song, paused, tempoC, tempoI, active>>

(* The game's CgbSound, external: a note starts to sound, and one that was *)
(* released goes quiet sooner or later.                                    *)
CgbSound ==
  /\ pc = "cgb"
  /\ \E quiet \in SUBSET {c \in Chans \ Direct : chans[c].stop} :
       chans' = [c \in Chans |->
         CASE c \in quiet -> Silent(chans[c])
           [] c \in Chans \ (Direct \cup quiet) /\ chans[c].phase = "start" ->
                [chans[c] EXCEPT !.phase = "sustain"]
           [] OTHER -> chans[c]]
  /\ Goes("mix", 1)
  /\ UNCHANGED <<tracks, song, paused, tempoC, tempoI, active>>

(* PortMixerRender, one channel. *)
Render ==
  /\ pc = "mix"
  /\ chans' = [chans EXCEPT ![at] = MixChannel(@)]
  /\ IF at = MaxChans THEN Goes("idle", 1) ELSE Goes("mix", at + 1)
  /\ UNCHANGED <<tracks, song, paused, tempoC, tempoI, active>>

-----------------------------------------------------------------------------
(* The game's MPlayStart and MPlayStop, external, between two frames. *)
MPlayStart ==
  /\ pc = "idle"
  /\ \E prog \in Songs :
       /\ song' = prog
       /\ Becomes([tr |-> [t \in Tracks |->
                             [Stopped.tr[t] EXCEPT !.exist = (prog[t] # <<>>), !.start = (prog[t] # <<>>),
                                                   !.chan = 0, !.pos = 1]],
                   ch |-> Stopped.ch])
  /\ paused' = FALSE /\ tempoC' = 0 /\ tempoI' = Beat
  /\ UNCHANGED <<active, pc, at>>

MPlayStop ==
  /\ pc = "idle"
  /\ Becomes(Stopped)
  /\ paused' = TRUE
  /\ UNCHANGED <<song, tempoC, tempoI, active, pc, at>>

Frame == SoundMain \/ Tick \/ Gates \/ Command \/ Rested \/ Push \/ CgbSound \/ Render
Next == Frame \/ MPlayStart \/ MPlayStop

Spec == Init /\ [][Next]_vars

(* The game calls SoundMain on every VBlank, again and again. *)
FairSpec == Spec /\ []<><<SoundMain>>_vars

-----------------------------------------------------------------------------
(* PROPERTIES                                                              *)

(* The lists of the tracks are what they claim: every channel that names a *)
(* track is in the list of that track, once, and of no other, and the list *)
(* reads the same backwards -- through notes cut by another track, notes   *)
(* that ended by themselves, ended tracks and songs started over.          *)
ChainIntegrity ==
  \A t \in Tracks :
    LET notes == Chain(t)
    IN /\ \A c \in Chans : chans[c].track = t <=> c \in ToSet(notes)
       /\ \A i, j \in DOMAIN notes : i # j => notes[i] # notes[j]
       /\ \A i \in DOMAIN notes : chans[notes[i]].pp = IF i = 1 THEN 0 ELSE notes[i - 1]

(* Nobody starves: a note takes a free channel if there is one, else the   *)
(* least of those being released if there is one, and cuts a held note     *)
(* only for a better note or an equal one of a track that is not before    *)
(* its own.                                                                *)
LeastHeardIsTaken ==
  \A t \in Tracks, priority \in 0 .. MaxPriority :
    LET i == DirectFor(t, priority)
        free == {c \in Direct : ~On(chans[c])}
        releasing == {c \in Direct : chans[c].stop}
        outranked == {c \in Direct : chans[c].pr < priority \/ (chans[c].pr = priority /\ chans[c].track >= t)}
        below(c, d) == chans[c].pr < chans[d].pr \/ (chans[c].pr = chans[d].pr /\ chans[c].track >= chans[d].track)
    IN CASE free # {} -> i \in free
         [] free = {} /\ releasing # {} -> i \in releasing /\ \A c \in releasing : below(i, c)
         [] free = {} /\ releasing = {} /\ outranked # {} -> i \in outranked /\ \A c \in Direct : below(i, c)
         [] OTHER -> i = 0

(* A track that has ended leaves no note behind that it would have to end. *)
EndedTracksHoldNothing ==
  \A c \in Chans : chans[c].track # 0 => tracks[chans[c].track].exist

(* Between frames every note sounds as its track is set, but for the notes *)
(* a newer note of the track took the marks away from.                     *)
NotesSoundAsSet ==
  pc = "idle" =>
    \A c \in Chans :
      LET t == chans[c].track
      IN On(chans[c]) /\ t # 0 /\ ~chans[c].stale =>
           chans[c].vol = VolumeOf(tracks[t]) /\ chans[c].pit = PitchOf(tracks[t])

(* The position in a sample and what is left of it always add up, and no   *)
(* frame of a block that is about to be mixed reads further than the byte  *)
(* after the last: each reads the sample it is at and the next, and at the *)
(* last one that byte is not the note's.  However far a step goes past the *)
(* end, and however often the loop is gone through, it is one byte.        *)
InsideTheSample ==
  /\ \A c \in Direct :
       On(chans[c]) /\ chans[c].phase # "start" =>
         /\ chans[c].pos + chans[c].remain = chans[c].tone.size
         /\ chans[c].pos \in 0 .. chans[c].tone.size - 1
  /\ pc = "mix" => BlockReads(chans[at]) \subseteq 0 .. chans[at].tone.size

(* A note that is released falls silent, or its channel is taken. *)
ReleasedNotesEnd ==
  \A c \in Direct : chans[c].stop ~> ~chans[c].stop
=============================================================================
