-------------------------------- MODULE RbLog -------------------------------
(***************************************************************************)
(* The log of platform/rollback.c, and the late joiner who replays it.  A  *)
(* session plays, schedules events and applies them (the loops are those   *)
(* of SlotMap.tla); at some frame it encodes its log; the log reaches      *)
(* another process, whole or cut short, which starts a session of its own, *)
(* decodes it, takes a vacant seat, and runs the game from frame 0 to      *)
(* where the host was.                                                     *)
(***************************************************************************)
EXTENDS SlotMap, SequencesExt, FiniteSetsExt

CONSTANTS
  RunMax,     \* RUN_MAX: the frames the six bits of a run can count
  Depth,      \* sDepth, and with Slack what is added to it for an event
  Slack,
  MaxFrame,   \* bound: the frames the host plays
  Tapes       \* what is played: the words of every peer at every frame, and
              \* the events that may be scheduled meanwhile

ASSUME RbLogAssumption ==
  /\ RunMax \in Nat \ {0} /\ Depth \in Nat \ {0} /\ Slack \in Nat /\ MaxFrame \in Nat
  /\ \A t \in Tapes : t.input \in [0 .. MaxFrame - 1 -> [Peers -> Nat]] /\ t.events \subseteq Events(EventFrames)

VARIABLES
  tape,
  role,         \* "host", then "sent", then "joiner" or "refused"
  keys, len,    \* sTl: frame by frame, the words of the peers
  frame,        \* sFrame
  players,      \* sPlayers
  catchUpTo,    \* sCatchUpTo, or -1 with sCatchUp 0
  log,          \* the blob
  fed,          \* history: what every frame wrote for every Kirby
  sent          \* history: the host at the moment of the encoding

logVars == <<tape, role, keys, len, frame, players, catchUpTo, log, fed, sent>>
vars == <<loopVars, logVars>>

NoKeys == [p \in Peers |-> 0]
NoLog  == [size |-> 0, frames |-> 0, players |-> 0, count |-> 0, runs |-> <<>>, words |-> <<>>, events |-> <<>>]

(* PortRbInit. *)
PortRbInit ==
  /\ keys = [f \in 0 .. MaxFrame |-> NoKeys] /\ len = 0
  /\ frame = 0 /\ players = NumPlayers /\ catchUpTo = -1

Init ==
  /\ NoEvents /\ PortRbInit
  /\ tape \in Tapes /\ role = "host" /\ log = NoLog /\ fed = <<>> /\ sent = <<>>

-----------------------------------------------------------------------------
(* PortRbFrame, as far as the log is concerned: events, then the words the *)
(* timeline has for the frame, written for every Kirby in play.            *)

Live == role = "host" \/ role = "joiner"

Hook ==
  /\ Live /\ pc = "idle" /\ frame < MaxFrame
  /\ role = "joiner" => frame < catchUpTo
  /\ ApplyEventsFor(frame)
  /\ keys' = IF frame >= len THEN [keys EXCEPT ![frame] = tape.input[frame]] ELSE keys
  /\ len' = Max({len, frame + 1})
  /\ UNCHANGED <<tape, role, frame, players, catchUpTo, log, fed, sent>>

Untouched == UNCHANGED logVars

(* ApplySlotInputs. *)
WordsFor ==
  [s \in Slots |-> IF s >= slotsInPlay THEN <<"out of play">>
                   ELSE IF slotPeer[s] = AI THEN <<"the AI">> ELSE <<"held", keys[arg][slotPeer[s]]>>]

ApplySlotInputs ==
  /\ Applied
  /\ fed' = Append(fed, WordsFor) /\ frame' = frame + 1
  /\ UNCHANGED <<tape, role, keys, len, players, catchUpTo, log, sent>>

(* Events are scheduled past the frame of the moment (see                  *)
(* PortRbSuggestEventFrame).                                               *)
PortRbScheduleEvent ==
  /\ role = "host" /\ \E e \in tape.events : e.frame >= frame /\ ScheduleEvent(e)
  /\ Untouched

-----------------------------------------------------------------------------
(* The encoding: a header that counts what follows, per peer runs of       *)
(* [word, frames - 1] at two bytes each, and events at seven.              *)

Header == 12 + 4 * NumPeers

(* How long the word at frame f is held, as far as a run can say. *)
(* Bug: a run of a frame more than its six bits hold. *)
PastTheField(column, f) ==
  Max({n \in 1 .. Min({RunMax + 1, Len(column) - f}) : \A k \in 1 .. n : column[f + k] = column[f + 1]})
RunAt(column, f) ==
  Max({n \in 1 .. Min({RunMax, Len(column) - f}) : \A k \in 1 .. n : column[f + k] = column[f + 1]})

Runs(column) ==
  LET from[f \in 0 .. Len(column)] ==
        IF f = Len(column) THEN <<>>
        ELSE LET n == RunAt(column, f)
             IN  <<[word |-> column[f + 1], more |-> (n - 1) % RunMax]>> \o from[f + n]
  IN from[0]

Column(p) == [f \in 1 .. len |-> keys[f - 1][p]]

EncodeLog ==
  LET runs == [p \in 1 .. players |-> Runs(Column(p - 1))]
  IN [size |-> Header + 2 * Len(FlattenSeq(runs)) + 7 * Len(events),
      frames |-> len, players |-> players, count |-> Len(events),
      runs  |-> [p \in 1 .. NumPeers |-> IF p <= players THEN Len(runs[p]) ELSE 0],
      words |-> FlattenSeq(runs),
      events |-> events]

PortRbEncodeLog ==
  /\ role = "host" /\ pc = "idle" /\ role' = "sent"
  /\ log' = EncodeLog
  /\ sent' = [keys |-> keys, len |-> len, events |-> events, fed |-> fed,
              map |-> slotPeer, count |-> slotsInPlay]
  /\ UNCHANGED <<loopVars, tape, keys, len, frame, players, catchUpTo, fed>>

(* PortRbVacantSlot: a seat the session runs and nobody has. *)
Vacant == {s \in Slots : s < sent.count /\ sent.map[s] = AI}

-----------------------------------------------------------------------------
(* The decoding.  A player's runs are spread out over the frames, and have *)
(* to cover exactly those; what comes after the last frame is dropped.     *)

Spread(run) == [k \in 1 .. run.more + 1 |-> run.word]

Before(blob, p) ==
  LET before[q \in 0 .. p] == IF q = 0 THEN 0 ELSE before[q - 1] + blob.runs[q]
  IN  before[p]
RunsOf(blob, p) == SubSeq(blob.words, Before(blob, p) + 1, Min({Before(blob, p + 1), Len(blob.words)}))
Decoded(blob, p) ==
  LET all == FlattenSeq([r \in DOMAIN RunsOf(blob, p) |-> Spread(RunsOf(blob, p)[r])])
  IN  SubSeq(all, 1, Min({Len(all), blob.frames}))

(* The events there are, as far as the array holds them. *)
EventsRead(blob) == SubSeq(blob.events, 1, Min({Len(blob.events), MaxEvents}))

(* What is refused unread, though it is more than a header takes. *)
TooShort(blob) == blob.size < 16 + 4 * NumPeers

(* Are there as many runs as the counts say, and do they cover the frames? *)
Covered(blob) ==
  /\ \A p \in 0 .. blob.players - 1 : Len(Decoded(blob, p)) = blob.frames
  /\ Before(blob, blob.players) = Len(blob.words)

WellFormed(blob) ==
  /\ ~TooShort(blob) /\ Covered(blob)
  /\ Len(blob.events) >= Min({blob.count, MaxEvents})

(* The first n bytes, as whole runs and whole events. *)
Cut(blob, n) ==
  LET Fit(items, from, each) ==
        SubSeq(items, 1, Max({k \in 0 .. Len(items) : k = 0 \/ from + k * each <= n}))
  IN [size |-> n, frames |-> blob.frames, players |-> blob.players, count |-> blob.count, runs |-> blob.runs,
      words  |-> Fit(blob.words, Header, 2),
      events |-> Fit(blob.events, Header + 2 * Len(blob.words), 7)]

(* PortRbDecodeLog puts a column where it belongs as it reads it, so a     *)
(* blob that proves malformed leaves what was read, and the rest empty.    *)
Filled(blob) ==
  [f \in 0 .. MaxFrame |->
     [p \in Peers |-> IF p < blob.players /\ f < Len(Decoded(blob, p)) THEN Decoded(blob, p)[f + 1] ELSE 0]]

(* The process that joins starts with a session of its own, at frame 0,    *)
(* and its seat is an event past the window, inserted as SlotMap.tla does: *)
(* PortRbInit and PortRbJoin.                                              *)
Seat(slot, peer) == [frame |-> log.frames + Depth + Slack, type |-> "slot", a |-> slot, b |-> peer]

StartsOver ==
  /\ slotPeer' = FirstSlotMap(NumPlayers) /\ slotsInPlay' = NumPeers
  /\ i' = 0 /\ arg' = 0 /\ pc' = "idle"
  /\ frame' = 0 /\ fed' = <<>>
  /\ UNCHANGED <<tape, log, sent>>

PortRbJoin(slot, peer) ==
  /\ role = "sent" /\ WellFormed(log) /\ slot \in Vacant /\ peer \notin {sent.map[s] : s \in Slots}
  /\ StartsOver
  /\ keys' = Filled(log) /\ len' = log.frames /\ players' = log.players
  /\ LET decoded == EventsRead(log)
     IN IF Len(decoded) < MaxEvents
          THEN /\ role' = "joiner" /\ catchUpTo' = log.frames
               /\ \E k \in 0 .. Len(decoded) :
                    /\ InsertedAfter(decoded, Seat(slot, peer), k)
                    /\ events' = Insert(decoded, Seat(slot, peer), k)
          ELSE role' = "refused" /\ catchUpTo' = -1 /\ events' = decoded
  /\ first' = [events |-> events', map |-> slotPeer', count |-> slotsInPlay']

(* Of the blob its first n bytes arrived, or it was refused as it was.     *)
JoinRefused(n) ==
  LET blob == Cut(log, n)
  IN /\ role = "sent" /\ ~WellFormed(blob)
     /\ StartsOver /\ role' = "refused" /\ len' = 0
     /\ keys' = IF TooShort(blob) THEN [f \in 0 .. MaxFrame |-> NoKeys] ELSE Filled(blob)
     /\ events' = IF TooShort(blob) \/ ~Covered(blob) THEN <<>> ELSE EventsRead(blob)
     /\ first' = [events |-> events', map |-> slotPeer', count |-> slotsInPlay']
     /\ UNCHANGED <<players, catchUpTo>>

Next ==
  \/ Hook \/ ApplySlotInputs \/ PortRbScheduleEvent
  \/ (Shift \/ Place \/ ApplyEvent) /\ Untouched
  \/ PortRbEncodeLog
  \/ \E slot \in Slots, peer \in Peers : PortRbJoin(slot, peer)
  \/ \E n \in 0 .. log.size : JoinRefused(n)

Spec == Init /\ [][Next]_vars

-----------------------------------------------------------------------------
(* PROPERTIES                                                              *)

(* A late joiner plays what the host played (PortRbEncodeLog, PortRbJoin): *)
(* a log that arrives whole is taken, unless it is too short to be looked  *)
(* at, as one of a session without frames is, or of a lone player who held *)
(* one thing; and it brings back the word of every player at every frame,  *)
(* whatever the lengths of its runs, and the events in their order, with   *)
(* the new seat among them; so that, frame after frame, every Kirby is     *)
(* given what it was given on the host, and the seats end as they were.    *)
JoinerFollows ==
  /\ role = "sent" => (WellFormed(log) <=> ~TooShort(log))
  /\ role = "joiner" =>
       /\ len = sent.len
       /\ \A f \in 0 .. len - 1, p \in 0 .. players - 1 : keys[f][p] = sent.keys[f][p]
       /\ \E slot \in Slots, peer \in Peers, k \in 0 .. Len(sent.events) :
            events = Insert(sent.events, Seat(slot, peer), k)
       /\ IsPrefix(fed, sent.fed)
       /\ pc = "idle" /\ frame = sent.len => slotPeer = sent.map /\ slotsInPlay = sent.count
=============================================================================
