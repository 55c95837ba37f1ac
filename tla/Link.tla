-------------------------------- MODULE Link --------------------------------
(***************************************************************************)
(* The link cable: platform/mp.c (which transport is attached),            *)
(* platform/sio.c (the serial unit), platform/multi_sio_intr.c (the game's *)
(* interrupt), platform/mp_loopback.c (the synthetic far end, standing     *)
(* also for the far end of a page's transport), platform/multi_boot.c and  *)
(* the way the game drives them.                                           *)
(*                                                                         *)
(* A frame is three phases.  "game": the page may attach or detach, then   *)
(* the game makes at most one of its calls.  "present": PortMpFrame polls  *)
(* and refreshes SIOCNT.  "slots": the transfers of the frame, one step    *)
(* each, until the cable is not armed, stalls, or the slots are used up.   *)
(***************************************************************************)
EXTENDS PeerLobby

CONSTANTS
  Slots,       \* PORT_SIO_SLOTS
  Sessions     \* what the game and the host may do in a run: the slots the
               \* game may occupy, the players, the transports attached, the
               \* calls made (of AllCalls) and how many frames of them (bound)

AllCalls == {"attach", "init", "main", "idle", "boot", "lobby", "normal"}

ASSUME LinkAssumption ==
  /\ Slots \in Nat /\ PacketHw <= Slots    \* 14 and 16
  /\ \A s \in Sessions :
       /\ s.selfIds \subseteq Units /\ s.players \in 2 .. NumUnits
       /\ s.transports \subseteq {"loopback", "js"}
       /\ s.calls \subseteq AllCalls /\ s.frames \in 0 .. MaxFrames

VARIABLES
  session,                \* which of Sessions it is
  phase, slot, frame,
  transport, link,        \* sTransport, and up and selfId of sLink
  self,                   \* sSelfId of the loopback, or what the page says
  cnt,                    \* SIOCNT: multi-play mode, SD, ID (and SI), START
  mltSend, multi,         \* SIOMLT_SEND, SIOMULTI0..3
  handler,                \* gIntrTable[0]: MultiSioIntr, or the lobby's own
  parent, kicked,         \* gMultiSioArea.type; MultiSioMain has set START
  sendCounter, sendp, sendBuf,        \* the two send buffers and who is which
  recvCounter, recvp, recvBuf, flag,  \* per unit: three buffers and who is which
  inbox, got,             \* what the last call took from each unit, and before
  peers,                  \* sPeers of mp_loopback.c
  lobby,                  \* sPeers of mp_peer_lobby.c
  clientBit,              \* client_bit, response_bit and probe_target_bit
  whole,                  \* history: frames in a row that ran every slot
  count,                  \* history: the lobby's counter before it is wrapped
  heard, climb,           \* history: per slot, the last word heard there since
                          \* a hello, and the steps heard in a row
  carried                 \* history: the last word this session carried

sioVars   == <<cnt, mltSend, multi>>
areaVars  == <<parent, kicked, sendCounter, sendp, sendBuf, recvCounter, recvp, recvBuf, flag>>
gameVars  == <<handler, areaVars, inbox, got>>
linkVars  == <<session, transport, link, self>>
farVars   == <<peers, lobby>>
lobbyVars == <<clientBit, count, heard, climb, carried>>
vars == <<phase, slot, frame, linkVars, sioVars, gameVars, farVars, lobbyVars, whole>>

Down == [up |-> FALSE, self |-> 0]
NoPeer == [present |-> FALSE, at |-> 0, packet |-> NoPacket,
           recvAt |-> 0, recvBuf |-> EmptyBuffer, payload |-> NoPacket]

Unheard == <<"none">>

Present == {u \in Units : peers[u].present}

(* SIOCNT after MultiSioInit: multi-play mode and nothing else. *)
Cleared == [multi |-> TRUE, sd |-> FALSE, id |-> 0, start |-> FALSE]

-----------------------------------------------------------------------------
Init ==
  /\ phase = "game" /\ slot = 0 /\ frame = 1
  /\ transport = "none" /\ link = Down
  /\ session \in Sessions /\ self \in session.selfIds
  /\ cnt = Cleared /\ mltSend = Empty /\ multi = [u \in Units |-> Empty]
  /\ handler = "multisio" /\ parent = FALSE /\ kicked = FALSE
  /\ sendCounter = 0 /\ sendp = [current |-> 2, next |-> 1]
  /\ sendBuf = [b \in 1 .. 2 |-> NoPacket]
  /\ recvCounter = [u \in Units |-> 0]
  /\ recvp = [u \in Units |-> [current |-> 1, last |-> 2, check |-> 3]]
  /\ recvBuf = [u \in Units |-> [b \in 1 .. 3 |-> EmptyBuffer]]
  /\ flag = [u \in Units |-> FALSE]
  /\ inbox = [u \in Units |-> NoPacket] /\ got = [u \in Units |-> NoPacket]
  /\ peers = [u \in Units |-> NoPeer] /\ lobby = [u \in Units |-> NotRecognised]
  /\ clientBit = {} /\ count = 0
  /\ heard = [u \in Units |-> Unheard] /\ climb = [u \in Units |-> 0] /\ carried = Empty
  /\ whole = 0

(* The registry.  Detach closes; attaching detaches first, and a transport *)
(* that refuses to open leaves nothing attached.                           *)
Attached(t) == transport' = t /\ link' = Down

(* BuildPacket: the packet of this frame, and the counter rewound. *)
Built(peer) == [peer EXCEPT !.at = -1, !.packet = frame]

(* LoopOpen: the peers start over; the stand-ins of the lobby do not. *)
Opened(players) ==
  [u \in Units |-> IF u < players /\ u # self THEN Built([NoPeer EXCEPT !.present = TRUE]) ELSE NoPeer]

PortMpAttach(t, players) ==
  /\ phase = "game" /\ "attach" \in session.calls /\ frame < session.frames
  /\ Attached(t)
  /\ peers' = Opened(players)
  /\ whole' = 0 /\ carried' = Empty
  /\ UNCHANGED <<session, phase, slot, frame, self, sioVars, gameVars, lobby, clientBit, count, heard, climb>>

PortMpAttachRefused ==
  /\ phase = "game" /\ "attach" \in session.calls /\ "js" \in session.transports
  /\ Attached("none")
  /\ whole' = 0 /\ carried' = Empty
  /\ UNCHANGED <<session, phase, slot, frame, self, sioVars, gameVars, farVars, clientBit, count, heard, climb>>

PortMpDetach ==
  /\ phase = "game" /\ "attach" \in session.calls /\ transport # "none"
  /\ Attached("none")
  /\ whole' = 0 /\ carried' = Empty
  /\ UNCHANGED <<session, phase, slot, frame, self, sioVars, gameVars, farVars, clientBit, count, heard, climb>>

-----------------------------------------------------------------------------
(* What the game does in its frame.  All but the calls into this layer are *)
(* external, and only what they do to the registers is here.               *)

GameCall(call) == phase = "game" /\ frame < session.frames /\ call \in session.calls /\ phase' = "present"

NothingCalled ==
  /\ GameCall("idle") /\ whole' = 0
  /\ UNCHANGED <<slot, frame, linkVars, sioVars, gameVars, farVars, lobbyVars>>

(* MultiSioInit: everything of the library, and SIOCNT, starts over. *)
MultiSioInit ==
  /\ GameCall("init")
  /\ cnt' = Cleared /\ handler' = "multisio"
  /\ parent' = FALSE /\ kicked' = FALSE
  /\ sendCounter' = 0 /\ sendp' = [current |-> 2, next |-> 1]
  /\ sendBuf' = [b \in 1 .. 2 |-> NoPacket]
  /\ recvCounter' = [u \in Units |-> 0]
  /\ recvp' = [u \in Units |-> [current |-> 1, last |-> 2, check |-> 3]]
  /\ recvBuf' = [u \in Units |-> [b \in 1 .. 3 |-> EmptyBuffer]]
  /\ flag' = [u \in Units |-> FALSE]
  /\ inbox' = [u \in Units |-> NoPacket]
  /\ whole' = 0
  /\ UNCHANGED <<slot, frame, linkVars, mltSend, multi, got, farVars, lobbyVars>>

(* Bug: the flags are handed over and stay. *)
FlagsStay == flag
FlagsTaken == [u \in Units |-> FALSE]

(* MultiSioRecvBufChange: the buffers last completed become the ones to    *)
(* look at, and the flags say which of them are new.                       *)
MultiSioRecvBufChange ==
  /\ recvp' = [u \in Units |-> [recvp[u] EXCEPT !.check = recvp[u].last, !.last = recvp[u].check]]
  /\ flag' = FlagsTaken

(* MultiSioMain, called by the game's loop or by the self test: become the *)
(* parent if the cable says so, fill the buffer that is not being sent,    *)
(* look at what has come, and start the first transfer.                    *)
MultiSioMain ==
  /\ GameCall("main") /\ handler = "multisio" /\ cnt.multi
  /\ parent' = (parent \/ (cnt.sd /\ cnt.id = 0))
  /\ kicked' = (kicked \/ parent')
  /\ cnt' = [cnt EXCEPT !.start = @ \/ (parent' /\ ~kicked)]
  /\ sendBuf' = [sendBuf EXCEPT ![sendp.next] = frame] /\ sendCounter' = -1
  /\ MultiSioRecvBufChange
  /\ inbox' = [u \in Units |-> IF flag[u] THEN PacketIn(recvBuf[u][recvp'[u].check], u) ELSE NoPacket]
  /\ got' = [u \in Units |-> IF inbox'[u] # NoPacket THEN inbox'[u] ELSE got[u]]
  /\ UNCHANGED <<slot, frame, handler, sendp, recvCounter, recvBuf,
                 mltSend, multi, linkVars, farVars, lobbyVars, whole>>

(* The handshake of multi_sio_08158934.c: 32-bit normal mode. *)
NormalMode ==
  /\ GameCall("normal")
  /\ cnt' = [cnt EXCEPT !.multi = FALSE, !.start = FALSE] /\ whole' = 0
  /\ UNCHANGED <<slot, frame, mltSend, multi, linkVars, gameVars, farVars, lobbyVars>>

(* Bug: only a bare console is a client. *)
BareConsole(w) == w[1] = "bare"
IsClientReply(w) == w[1] = "same"

(* Bug: the slots are walked from our own. *)
WithOurOwn == {u \in Units : multi[u] = Hello \/ IsClientReply(multi[u])}
Clients == {u \in Units \ {0} : IsClientReply(multi[u])}

(* MultiBootMain: arm one transfer with the hello, and take the clients    *)
(* from what the registers still hold of the transfer before.              *)
MultiBootMain ==
  /\ GameCall("boot")
  /\ whole' = 0
  /\ IF transport = "none" \/ ~link.up
       THEN clientBit' = {} /\ UNCHANGED <<cnt, mltSend, handler>>
       ELSE /\ handler' = "lobby"
            /\ IF link.self # 0
                 THEN clientBit' = {} /\ UNCHANGED <<cnt, mltSend>>
                 ELSE /\ mltSend' = Hello /\ cnt' = [cnt EXCEPT !.multi = TRUE, !.start = TRUE]
                      /\ clientBit' = Clients
  /\ UNCHANGED <<slot, frame, multi, linkVars, areaVars, inbox, got, farVars, count, heard, climb, carried>>

(* The parent half of the game's lobby: the counter, or the start word. *)
LobbyWord(w) ==
  /\ GameCall("lobby") /\ handler = "lobby" /\ cnt.multi
  /\ mltSend' = w /\ cnt' = [cnt EXCEPT !.start = TRUE]
  /\ whole' = 0
  /\ UNCHANGED <<slot, frame, multi, linkVars, gameVars, farVars, clientBit, heard, climb, carried>>

Turn == SeqMask - SeqMin + 1
SeqOf(n) == Seq(SeqMin + (n % Turn))

(* Bound: nobody misses a whole turn of the counter, two minutes of it,    *)
(* after which the next word would look like the one that follows.         *)
LobbyCounts ==
  /\ LobbyWord(SeqOf(count + 1)) /\ count' = count + 1
  /\ \A u \in Units : heard[u][1] = "count" => count' - heard[u][2] <= Turn
LobbyStarts == LobbyWord(LobbyStart) /\ UNCHANGED count

-----------------------------------------------------------------------------
NextFrame == phase' = "game" /\ slot' = 0 /\ frame' = frame + 1

(* What a poll says, and leaves of the peers.  The loopback builds a fresh *)
(* packet each time; the far end of a page's transport may be late, or     *)
(* down.                                                                   *)
LoopPoll ==
  /\ link' = [up |-> TRUE, self |-> self]
  /\ peers' = [u \in Units |-> IF peers[u].present THEN Built(peers[u]) ELSE peers[u]]

JsPoll ==
  \/ LoopPoll
  \/ link' = [up |-> TRUE, self |-> self] /\ UNCHANGED peers
  \/ link' = Down /\ UNCHANGED peers

PortMpPoll == IF transport = "loopback" THEN LoopPoll ELSE JsPoll

(* The bits of SIOCNT the cable drives, if it is in multi-play mode. *)
RefreshStatus(on) ==
  IF cnt.multi THEN [cnt EXCEPT !.sd = on.up, !.id = on.self] ELSE cnt

(* PortMpFrame and PortSioFrame as far as the first slot. *)
PortMpFrame ==
  /\ phase = "present"
  /\ IF transport = "none"
       THEN NextFrame /\ UNCHANGED <<link, peers, cnt>>
       ELSE /\ PortMpPoll
            /\ cnt' = RefreshStatus(link')
            /\ IF cnt.multi /\ link'.up
                 THEN phase' = "slots" /\ UNCHANGED <<slot, frame>>
                 ELSE NextFrame
  /\ whole' = IF phase' = "slots" /\ peers' # peers THEN whole ELSE 0
  /\ UNCHANGED <<session, transport, self, mltSend, multi, gameVars, lobby, lobbyVars>>

Armed == link.self # 0 \/ cnt.start

(* What each slot of the cable reads as after an exchange. *)
PeerReply(u) ==
  IF transport = "loopback" THEN Reply(lobby[u], u, mltSend) ELSE Empty

OnTheBus ==
  [u \in Units |->
     CASE u = link.self -> mltSend
       [] u # link.self /\ ~peers[u].present -> Empty
       [] OTHER -> IF PeerReply(u) # Empty THEN PeerReply(u)
                   ELSE WordAt(peers[u].at, u, peers[u].packet)]

(* PeerSend and PeerRecv of a peer that did not answer as of the lobby. *)
PeerTransferred(u) ==
  LET p == peers[u]
      buffer == Stored(p.recvBuf, p.recvAt, mltSend)
      taken == PacketIn(buffer, link.self)
  IN  [p EXCEPT !.at = Stepped(@), !.recvAt = Received(@, mltSend), !.recvBuf = buffer,
                !.payload = IF Completes(p.recvAt, mltSend) /\ taken # NoPacket THEN taken ELSE @]

StandsIn(u) == transport = "loopback" /\ peers[u].present

Exchange ==
  /\ peers' = [u \in Units |->
                 IF peers[u].present /\ PeerReply(u) = Empty THEN PeerTransferred(u) ELSE peers[u]]
  /\ lobby' = [u \in Units |-> IF StandsIn(u) THEN PeerAfter(lobby[u], u, mltSend) ELSE lobby[u]]

(* Bug: the buffer that is done becomes the last one, and stays current. *)
KeepsWriting(p) == [p EXCEPT !.last = p.current]
Rotated(p) == [p EXCEPT !.last = p.current, !.current = p.last]

(* Bug: the packet is streamed from the buffer the game fills. *)
SendsNext == sendp
SendSwapped == [current |-> sendp.next, next |-> sendp.current]

(* MultiSioIntr. *)
MultiSioIntr(words) ==
  /\ sendp' = IF sendCounter = -1 THEN SendSwapped ELSE sendp
  /\ mltSend' = WordAt(sendCounter, link.self, sendBuf[sendp.current])
  /\ sendCounter' = Stepped(sendCounter)
  /\ recvBuf' = [u \in Units |->
                   [recvBuf[u] EXCEPT ![recvp[u].current] = Stored(@, recvCounter[u], words[u])]]
  /\ recvp' = [u \in Units |->
                 IF Completes(recvCounter[u], words[u]) THEN Rotated(recvp[u]) ELSE recvp[u]]
  /\ flag' = [u \in Units |-> flag[u] \/ Completes(recvCounter[u], words[u])]
  /\ recvCounter' = [u \in Units |-> Received(recvCounter[u], words[u])]
  /\ UNCHANGED <<handler, parent, kicked, sendBuf, inbox, got>>

(* History: what a stand-in has of the word that is carried, a value of    *)
(* the counter or the low bits of something else; and whether that word is *)
(* the step after what it had, by the counter's own count if it can be.    *)
Remembered ==
  CASE mltSend = Hello -> Unheard
    [] mltSend = SeqOf(count) -> <<"count", count>>
    [] OTHER -> <<"other", LowBits(mltSend)>>
Climbs(before) ==
  /\ mltSend # Hello /\ before # Unheard
  /\ IF before[1] = "count" /\ mltSend = SeqOf(count) THEN before[2] = count - 1
     ELSE Low(mltSend) = NextSeq(IF before[1] = "count" THEN Low(SeqOf(before[2])) ELSE before[2])

(* RunTransfer.  The parent's interrupt arms the next one. *)
RunTransfer ==
  /\ phase = "slots" /\ slot < Slots /\ Armed
  /\ slot' = slot + 1
  /\ multi' = OnTheBus
  /\ Exchange
  /\ IF handler = "multisio"
       THEN MultiSioIntr(OnTheBus) /\ cnt' = [cnt EXCEPT !.start = parent]
       ELSE cnt' = [cnt EXCEPT !.start = FALSE] /\ UNCHANGED <<gameVars, mltSend>>
  /\ carried' = mltSend
  /\ heard' = [u \in Units |-> IF StandsIn(u) THEN Remembered ELSE heard[u]]
  /\ climb' = [u \in Units |-> CASE ~StandsIn(u) -> climb[u]
                                [] StandsIn(u) /\ Climbs(heard[u]) -> climb[u] + 1
                                [] OTHER -> 0]
  /\ UNCHANGED <<phase, frame, linkVars, clientBit, count, whole>>

(* Bug: START is cleared before the transport is asked. *)
DisarmedFirst == [cnt EXCEPT !.start = FALSE]
AfterStall == cnt

Stall ==
  /\ phase = "slots" /\ slot < Slots /\ Armed /\ transport = "js"
  /\ cnt' = AfterStall
  /\ NextFrame /\ whole' = 0
  /\ UNCHANGED <<linkVars, mltSend, multi, gameVars, farVars, lobbyVars>>

(* The slots are used up, or nothing is armed. *)
SlotsOver ==
  /\ phase = "slots" /\ (slot = Slots \/ ~Armed)
  /\ NextFrame
  /\ whole' = IF slot = Slots THEN whole + 1 ELSE 0
  /\ UNCHANGED <<linkVars, sioVars, gameVars, farVars, lobbyVars>>

(* The model, not the program, ends here. *)
AtBound == phase = "game" /\ frame = session.frames /\ UNCHANGED vars

Next ==
  \/ \E t \in session.transports, players \in 2 .. session.players : PortMpAttach(t, players)
  \/ PortMpAttachRefused \/ PortMpDetach
  \/ NothingCalled \/ MultiSioInit \/ MultiSioMain \/ NormalMode
  \/ MultiBootMain \/ LobbyCounts \/ LobbyStarts
  \/ PortMpFrame \/ RunTransfer \/ Stall \/ SlotsOver
  \/ AtBound

Spec == Init /\ [][Next]_vars

-----------------------------------------------------------------------------
(* PROPERTIES                                                              *)

(* What the game looks at, and what it fills, is never what the interrupt  *)
(* writes or sends: a transfer leaves both alone, whoever swapped last.    *)
ApartFromTheInterrupt ==
  [][phase = "slots" => /\ \A u \in Units : recvBuf'[u][recvp[u].check] = recvBuf[u][recvp[u].check]
                        /\ \A u \in Units : recvp'[u].check = recvp[u].check
                        /\ \A u \in Units : recvp'[u].last # recvp'[u].current
                        /\ sendp'.next # sendp'.current]_vars

(* No stand-in peer answers in place of the transport. *)
NoneInLobby ==
  transport = "loopback" => \A u \in Present \ {0} : lobby[u].phase # "lobby"

(* No packet is handed to the game twice, or after a later one. *)
EachPacketOnce ==
  [][sendBuf' # sendBuf => \A u \in Units : inbox'[u] # NoPacket => inbox'[u] > got[u]]_vars

(* Whatever moment the cable stalled at, two frames that run every slot    *)
(* put both ends back in step: the packet of the second is taken whole, by *)
(* the game from every unit, its own included, and by every unit from it.  *)
(* A stand-in peer the game has left in its lobby answers there, whatever  *)
(* is streamed, and takes no part.                                         *)
TwoFramesRealign ==
  phase = "game" /\ whole >= 2 /\ NoneInLobby =>
    /\ \A u \in Present \cup {link.self} :
         flag[u] /\ PacketIn(recvBuf[u][recvp[u].last], u) = frame - 1
    /\ \A u \in Present : peers[u].payload = frame - 1

(* Once the parent has been started the cable stays armed: no stall, child *)
(* or frame without a call leaves it waiting for a start nobody gives.     *)
StaysArmed ==
  phase = "game" /\ handler = "multisio" /\ cnt.multi /\ kicked /\ parent /\ link.self = 0 => cnt.start

(* The stand-in peer (PortMpPeerLobbyReply) says it is settled exactly when *)
(* it has heard more than SettleFrames steps with none missing since it    *)
(* was recognised: over the wrap of the counter, over a session that was   *)
(* closed and opened again, and whatever the game sends to a peer it has   *)
(* left in the lobby.  A step is the counter's next value, or a word of    *)
(* the game with the low bits of it, which is all that is compared.        *)
SettledAsHeard ==
  phase = "game" /\ transport = "loopback" /\ carried \notin {Empty, Hello, LobbyStart} =>
    \A u \in Present \ {0} :
      lobby[u].phase = "lobby" => (multi[u] = ChildReady <=> climb[u] > SettleFrames)

(* A probe that follows one the session has carried finds every client    *)
(* that is there, and none of an earlier session.                          *)
ClientsAreThere ==
  [][(carried = Hello /\ transport = "loopback" /\ handler' = "lobby"
      /\ ~cnt.start /\ cnt'.start /\ mltSend' = Hello) => clientBit' = Present \ {0}]_vars
=============================================================================
