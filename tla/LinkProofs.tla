----------------------------- MODULE LinkProofs -----------------------------
(***************************************************************************)
(* What the link cable keeps, for any number of units, any length of a     *)
(* packet and any number of transfers a frame: Link.tla, proved.           *)
(***************************************************************************)
EXTENDS Link, TLAPS

(* --- words -------------------------------------------------------------- *)

(* Everything that can be on the cable or in a buffer. *)
PacketWords == {Halfword(u, n, i) : u \in Units, n \in Nat, i \in Nat}
OtherWords  == {Sync, Empty, Hello, LobbyStart, ChildAlive, ChildReady}
                 \cup {SameGame(u) : u \in Units} \cup {Seq(k) : k \in Int}
Words == PacketWords \cup OtherWords

(* A halfword tells its unit, its packet and its place. *)
LEMMA HalfwordsDiffer ==
  ASSUME NEW u, NEW n, NEW i, NEW v, NEW m, NEW j, Halfword(u, n, i) = Halfword(v, m, j)
  PROVE  u = v /\ n = m /\ i = j
BY DEF Halfword

(* No other word is a halfword of a packet. *)
LEMMA OthersAreNoHalfwords ==
  ASSUME NEW w \in OtherWords, NEW u, NEW n, NEW i
  PROVE  w # Halfword(u, n, i)
BY DEF OtherWords, Halfword, Sync, Empty, Hello, LobbyStart, ChildAlive, ChildReady, SameGame, Seq

(* The packet a word of the cable is of is a number. *)
LEMMA PacketIsNumber ==
  ASSUME NEW w \in Words, NEW u, NEW n, NEW i, w = Halfword(u, n, i)
  PROVE  n \in Nat
<1>1. w \in PacketWords
  BY OthersAreNoHalfwords DEF Words
<1>2. PICK v \in Units, m \in Nat, j \in Nat : w = Halfword(v, m, j)
  BY <1>1 DEF PacketWords
<1>3. Halfword(u, n, i) = Halfword(v, m, j)
  BY <1>2
<1>4. n = m
  BY <1>3, HalfwordsDiffer
<1> QED
  BY <1>4

(* The stand-in of the lobby never answers with a word of a packet. *)
LEMMA RepliesAreOthers ==
  ASSUME NEW peer, NEW u \in Units, NEW w
  PROVE  Reply(peer, u, w) \in OtherWords
BY DEF Reply, OtherWords

(* What a unit streams is a word; it opens a packet at the first halfword. *)
LEMMA StreamedWord ==
  ASSUME NEW c \in Counters, NEW u \in Units, NEW n \in Nat
  PROVE  /\ WordAt(c, u, n) \in Words
         /\ \A m : WordAt(c, u, n) = Halfword(u, m, 0) => c = 0 /\ m = n
<1>1. CASE c = -1
  <2>1. WordAt(c, u, n) = Sync /\ Sync \in OtherWords
    BY <1>1 DEF WordAt, OtherWords
  <2> QED
    BY <2>1, OthersAreNoHalfwords DEF Words
<1>2. CASE c # -1
  <2>1. WordAt(c, u, n) = Halfword(u, n, c) /\ c \in Nat
    BY <1>2 DEF WordAt, Counters
  <2>2. WordAt(c, u, n) \in Words
    BY <2>1 DEF Words, PacketWords
  <2> QED
    BY <2>1, <2>2, HalfwordsDiffer
<1> QED
  BY <1>1, <1>2

(* What the checksum lets through began with its first halfword.           *)
LEMMA PacketBegan ==
  ASSUME NEW b \in [Data -> Words], NEW u
  PROVE  /\ PacketIn(b, u) \in Nat
         /\ PacketIn(b, u) # NoPacket => b[0] = Halfword(u, PacketIn(b, u), 0)
<1>1. 0 \in Data
  BY MultiSioAssumption DEF Data, LastHw
<1> DEFINE n == IF b[0][1] = "packet" THEN b[0][3] ELSE NoPacket
<1>2. PacketIn(b, u) = IF n # NoPacket /\ \A i \in Data : b[i] = Halfword(u, n, i) THEN n ELSE NoPacket
  BY DEF PacketIn
<1> HIDE DEF n
<1>3. CASE n # NoPacket /\ \A i \in Data : b[i] = Halfword(u, n, i)
  <2>1. PacketIn(b, u) = n /\ b[0] = Halfword(u, n, 0)
    BY <1>1, <1>2, <1>3
  <2>2. n \in Nat
    BY <1>1, <2>1, PacketIsNumber
  <2> QED
    BY <2>1, <2>2
<1>4. CASE ~(n # NoPacket /\ \A i \in Data : b[i] = Halfword(u, n, i))
  BY <1>2, <1>4 DEF NoPacket
<1> QED
  BY <1>3, <1>4

(* --- types -------------------------------------------------------------- *)

Turns   == {t \in [current : 1 .. 2, next : 1 .. 2] : t.current # t.next}
Buffers == {b \in [current : 1 .. 3, last : 1 .. 3, check : 1 .. 3] :
              b.current # b.last /\ b.last # b.check /\ b.check # b.current}
Far     == [present : BOOLEAN, at : Counters, packet : Nat,
            recvAt : Counters, recvBuf : [Data -> Words], payload : Nat]

(* The types of what a packet passes through; and a far end that is there  *)
(* is not ours, and streams a packet of a frame that has been.             *)
WireType ==
  /\ phase \in {"game", "present", "slots"} /\ frame \in Nat \ {0}
  /\ session \in Sessions /\ self \in Units /\ link \in [up : BOOLEAN, self : Units]
  /\ phase = "slots" => link.self = self
  /\ count \in Nat
  /\ mltSend \in Words
  /\ sendp \in Turns /\ sendBuf \in [1 .. 2 -> Nat] /\ sendCounter \in Counters
  /\ recvp \in [Units -> Buffers] /\ recvBuf \in [Units -> [1 .. 3 -> [Data -> Words]]]
  /\ recvCounter \in [Units -> Counters] /\ flag \in [Units -> BOOLEAN]
  /\ inbox \in [Units -> Nat] /\ got \in [Units -> Nat]
  /\ peers \in [Units -> Far]
  /\ ~peers[self].present
  /\ \A u \in Units : peers[u].present => peers[u].packet \in 1 .. frame

(* A cable that is down. *)
LEMMA DownType == 0 \in Units /\ Down \in [up : BOOLEAN, self : Units] /\ ~Down.up
<1>1. 0 \in Units
  BY MultiSioAssumption DEF Units
<1> QED
  BY <1>1 DEF Down

(* A word of the lobby's counter is a word. *)
LEMMA CountedWord ==
  ASSUME NEW n \in Nat
  PROVE  SeqOf(n) \in Words
<1>1. SeqMin + (n % Turn) \in Int
  BY PeerLobbyAssumption DEF Turn
<1> QED
  BY <1>1 DEF SeqOf, Words, OtherWords

(* Counters stay counters. *)
LEMMA CounterTypes ==
  ASSUME NEW c \in Counters, NEW w
  PROVE  /\ Stepped(c) \in Counters /\ Stepped(c) # -1
         /\ Received(c, w) \in Counters
         /\ 0 \in Data /\ -1 \in Counters /\ 0 \in Counters /\ LastHw \in Nat \ {0}
BY MultiSioAssumption DEF Counters, Stepped, Received, Realigns, Data, LastHw

(* A buffer a word has been stored in is a buffer. *)
LEMMA StoredType ==
  ASSUME NEW b \in [Data -> Words], NEW c \in Counters, NEW w \in Words
  PROVE  Stored(b, c, w) \in [Data -> Words]
BY DEF Stored

(* An empty buffer, and a far end that is not there. *)
LEMMA NothingType ==
  /\ EmptyBuffer \in [Data -> Words] /\ NoPeer \in Far /\ ~NoPeer.present
  /\ Empty \in Words /\ Hello \in Words /\ LobbyStart \in Words
  /\ \A n \in Int : Seq(n) \in Words
<1>1. Empty \in Words /\ Hello \in Words /\ LobbyStart \in Words /\ \A n \in Int : Seq(n) \in Words
  BY DEF Words, OtherWords
<1>2. EmptyBuffer \in [Data -> Words]
  BY <1>1 DEF EmptyBuffer
<1>3. 0 \in Counters
  BY MultiSioAssumption DEF Counters
<1> QED
  BY <1>1, <1>2, <1>3 DEF NoPeer, Far, NoPacket

(* A far end that has been given a packet of the frame. *)
LEMMA BuiltType ==
  ASSUME NEW p \in Far, frame \in Nat
  PROVE  /\ Built(p) \in Far /\ Built(p).present = p.present
         /\ Built(p).packet = frame /\ Built(p).at = -1
<1>1. -1 \in Counters
  BY MultiSioAssumption DEF Counters
<1> QED
  BY <1>1 DEF Built, Far

(* The words of a transfer are words. *)
LEMMA BusType ==
  ASSUME WireType
  PROVE  OnTheBus \in [Units -> Words] /\ \A u \in Units : PeerReply(u) \in OtherWords
<1>1. ASSUME NEW u \in Units PROVE PeerReply(u) \in OtherWords
  <2>1. Empty \in OtherWords
    BY DEF OtherWords
  <2> QED
    BY <2>1, RepliesAreOthers DEF PeerReply
<1>2. ASSUME NEW u \in Units PROVE WordAt(peers[u].at, u, peers[u].packet) \in Words
  <2>1. peers[u].at \in Counters /\ peers[u].packet \in Nat
    BY DEF WireType, Far
  <2> QED
    BY <2>1, StreamedWord
<1>3. ASSUME NEW u \in Units PROVE OnTheBus[u] \in Words
  <2>1. mltSend \in Words /\ Empty \in Words /\ PeerReply(u) \in Words
    BY <1>1, NothingType DEF WireType, Words
  <2> QED
    BY <1>2, <2>1 DEF OnTheBus
<1> QED
  BY <1>1, <1>3 DEF OnTheBus

(* A far end after a transfer. *)
LEMMA TransferredType ==
  ASSUME WireType, NEW u \in Units
  PROVE  /\ PeerTransferred(u) \in Far
         /\ PeerTransferred(u).present = peers[u].present
         /\ PeerTransferred(u).packet = peers[u].packet
         /\ PeerTransferred(u).at = Stepped(peers[u].at)
<1> DEFINE p == peers[u]
           b == Stored(p.recvBuf, p.recvAt, mltSend)
           taken == PacketIn(b, link.self)
           load == IF Completes(p.recvAt, mltSend) /\ taken # NoPacket THEN taken ELSE p.payload
<1>1. p \in Far /\ mltSend \in Words
  BY DEF WireType
<1>2. b \in [Data -> Words]
  BY <1>1, StoredType DEF Far
<1>3. taken \in Nat
  BY <1>2, PacketBegan
<1>4. load \in Nat
  BY <1>1, <1>3 DEF Far
<1>5. Stepped(p.at) \in Counters /\ Received(p.recvAt, mltSend) \in Counters
  BY <1>1, CounterTypes DEF Far
<1>6. PeerTransferred(u) = [p EXCEPT !.at = Stepped(p.at), !.recvAt = Received(p.recvAt, mltSend),
                                     !.recvBuf = b, !.payload = load]
  BY DEF PeerTransferred
<1> HIDE DEF p, b, load
<1>7. PeerTransferred(u) \in Far
  BY <1>1, <1>2, <1>4, <1>5, <1>6 DEF Far
<1>8. /\ PeerTransferred(u).present = p.present /\ PeerTransferred(u).packet = p.packet
      /\ PeerTransferred(u).at = Stepped(p.at)
  BY <1>1, <1>6 DEF Far
<1> QED
  BY <1>7, <1>8 DEF p

(* The far ends a transport opens with. *)
LEMMA OpenedType ==
  ASSUME WireType, NEW players
  PROVE  /\ Opened(players) \in [Units -> Far] /\ ~Opened(players)[self].present
         /\ \A u \in Units : Opened(players)[u].present =>
              Opened(players)[u].packet = frame /\ Opened(players)[u].at = -1
<1> DEFINE there == [NoPeer EXCEPT !.present = TRUE]
<1>1. NoPeer \in Far /\ ~NoPeer.present
  BY NothingType
<1>2. there \in Far
  BY <1>1 DEF Far
<1> HIDE DEF there
<1>3. frame \in Nat /\ self \in Units
  BY DEF WireType
<1>4. Built(there) \in Far /\ Built(there).packet = frame /\ Built(there).at = -1
  BY <1>2, <1>3, BuiltType
<1>5. Opened(players) = [u \in Units |-> IF u < players /\ u # self THEN Built(there) ELSE NoPeer]
  BY DEF Opened, there
<1> QED
  BY <1>1, <1>3, <1>4, <1>5

(* The interrupt of a transfer leaves the buffers buffers. *)
LEMMA InterruptType ==
  ASSUME WireType, phase = "slots", MultiSioIntr(OnTheBus)
  PROVE  /\ mltSend' \in Words
         /\ sendp' \in Turns /\ sendBuf' \in [1 .. 2 -> Nat] /\ sendCounter' \in Counters
         /\ recvp' \in [Units -> Buffers] /\ recvBuf' \in [Units -> [1 .. 3 -> [Data -> Words]]]
         /\ recvCounter' \in [Units -> Counters] /\ flag' \in [Units -> BOOLEAN]
         /\ inbox' = inbox /\ got' = got
<1>1. OnTheBus \in [Units -> Words]
  BY BusType
<1>2. mltSend' \in Words
  <2>1. sendBuf[sendp.current] \in Nat /\ sendCounter \in Counters /\ link.self \in Units
    BY DEF WireType, Turns
  <2> QED
    BY <2>1, StreamedWord DEF MultiSioIntr
<1>3. sendp' \in Turns
  BY DEF MultiSioIntr, SendSwapped, Turns, WireType
<1>4. sendBuf' \in [1 .. 2 -> Nat] /\ inbox' = inbox /\ got' = got
  BY DEF MultiSioIntr, WireType
<1>5. sendCounter' \in Counters
  BY CounterTypes DEF MultiSioIntr, WireType
<1>6. ASSUME NEW u \in Units
      PROVE  [recvBuf[u] EXCEPT ![recvp[u].current] = Stored(@, recvCounter[u], OnTheBus[u])]
               \in [1 .. 3 -> [Data -> Words]]
  <2>1. /\ recvBuf[u] \in [1 .. 3 -> [Data -> Words]] /\ recvp[u].current \in 1 .. 3
        /\ recvCounter[u] \in Counters /\ OnTheBus[u] \in Words
    BY <1>1 DEF WireType, Buffers
  <2>2. Stored(recvBuf[u][recvp[u].current], recvCounter[u], OnTheBus[u]) \in [Data -> Words]
    BY <2>1, StoredType
  <2> QED
    BY <2>1, <2>2
<1>7. recvBuf' \in [Units -> [1 .. 3 -> [Data -> Words]]]
  BY <1>6 DEF MultiSioIntr
<1>8. recvp' \in [Units -> Buffers]
  <2>1. \A b \in Buffers : Rotated(b) \in Buffers
    BY DEF Rotated, Buffers
  <2> QED
    BY <2>1 DEF MultiSioIntr, WireType
<1>9. recvCounter' \in [Units -> Counters]
  BY CounterTypes DEF MultiSioIntr, WireType
<1>10. flag' \in [Units -> BOOLEAN]
  BY DEF MultiSioIntr, WireType, Completes
<1> QED
  BY <1>2, <1>3, <1>4, <1>5, <1>7, <1>8, <1>9, <1>10

(* The far ends of a transfer. *)
LEMMA ExchangeType ==
  ASSUME WireType, Exchange
  PROVE  /\ peers' \in [Units -> Far]
         /\ \A u \in Units : /\ peers'[u].present = peers[u].present
                             /\ peers'[u].packet = peers[u].packet
                             /\ peers'[u].at \in {peers[u].at, Stepped(peers[u].at)}
                             /\ peers[u].present /\ PeerReply(u) = Empty =>
                                  peers'[u].at = Stepped(peers[u].at)
BY TransferredType DEF Exchange, WireType

(* The game's turn swaps the buffers completed and looked at. *)
LEMMA BuffersSwapped ==
  ASSUME MultiSioMain
  PROVE  /\ recvp' = [u \in Units |-> [recvp[u] EXCEPT !.check = recvp[u].last, !.last = recvp[u].check]]
         /\ flag' = [u \in Units |-> FALSE]
<1>1. MultiSioRecvBufChange
  BY Zenon DEF MultiSioMain
<1> QED
  BY <1>1 DEF MultiSioRecvBufChange, FlagsTaken

(* The game's turn, from what it fills and looks at. *)
LEMMA MainType ==
  ASSUME WireType, MultiSioMain
  PROVE  /\ sendp' = sendp /\ sendBuf' \in [1 .. 2 -> Nat] /\ sendCounter' \in Counters
         /\ recvp' \in [Units -> Buffers] /\ flag' \in [Units -> BOOLEAN]
         /\ inbox' \in [Units -> Nat] /\ got' \in [Units -> Nat]
<1>1. sendp' = sendp /\ sendBuf' \in [1 .. 2 -> Nat] /\ sendCounter' \in Counters
  BY CounterTypes DEF MultiSioMain, WireType, Turns
<1>2. recvp' \in [Units -> Buffers]
  <2>1. \A b \in Buffers : [b EXCEPT !.check = b.last, !.last = b.check] \in Buffers
    BY DEF Buffers
  <2>2. recvp \in [Units -> Buffers]
    BY DEF WireType
  <2> QED
    BY <2>1, <2>2, BuffersSwapped
<1>3. flag' \in [Units -> BOOLEAN]
  BY BuffersSwapped
<1>4. ASSUME NEW u \in Units PROVE PacketIn(recvBuf[u][recvp'[u].check], u) \in Nat
  <2>1. recvBuf[u][recvp'[u].check] \in [Data -> Words]
    BY <1>2 DEF WireType, Buffers
  <2> QED
    BY <2>1, PacketBegan
<1>5. inbox' \in [Units -> Nat]
  BY <1>4 DEF MultiSioMain, NoPacket
<1>6. got' \in [Units -> Nat]
  BY <1>5 DEF MultiSioMain, WireType
<1> QED
  BY <1>1, <1>2, <1>3, <1>5, <1>6

(* At the start everything is empty and in its place. *)
LEMMA InitWireType == Init => WireType
<1> SUFFICES ASSUME Init PROVE WireType
  OBVIOUS
<1>1. self \in Units /\ session \in Sessions
  BY LinkAssumption DEF Init
<1>2. 0 \in Units /\ link \in [up : BOOLEAN, self : Units]
  BY DownType DEF Init
<1>3. mltSend \in Words /\ recvBuf \in [Units -> [1 .. 3 -> [Data -> Words]]]
  BY NothingType DEF Init
<1>4. peers \in [Units -> Far] /\ \A u \in Units : ~peers[u].present
  BY NothingType DEF Init
<1>5. sendp \in Turns /\ sendCounter \in Counters /\ recvCounter \in [Units -> Counters]
  BY MultiSioAssumption DEF Init, Turns, Counters
<1>6. recvp \in [Units -> Buffers]
  BY DEF Init, Buffers
<1>7. /\ sendBuf \in [1 .. 2 -> Nat] /\ flag \in [Units -> BOOLEAN]
      /\ inbox \in [Units -> Nat] /\ got \in [Units -> Nat]
      /\ phase = "game" /\ frame \in Nat \ {0} /\ count \in Nat
  BY DEF Init, NoPacket
<1> QED
  BY <1>1, <1>2, <1>3, <1>4, <1>5, <1>6, <1>7 DEF WireType

(* A poll, and the frame it opens or ends. *)
LEMMA PollType ==
  ASSUME WireType, PortMpFrame
  PROVE  /\ peers' \in [Units -> Far] /\ link' \in [up : BOOLEAN, self : Units]
         /\ \A u \in Units : /\ peers'[u].present = peers[u].present
                             /\ \/ peers'[u] = peers[u]
                                \/ peers'[u].packet = frame /\ peers'[u].at = -1
         /\ \/ phase' = "slots" /\ link'.self = self /\ frame' = frame
            \/ phase' = "game" /\ frame' = frame + 1
<1>1. frame \in Nat /\ peers \in [Units -> Far] /\ self \in Units /\ link \in [up : BOOLEAN, self : Units]
  BY DEF WireType
<1>2. CASE transport = "none"
  BY <1>1, <1>2 DEF PortMpFrame, NextFrame
<1>3. CASE transport # "none"
  <2>1. PortMpPoll
    BY <1>3 DEF PortMpFrame
  <2>2. /\ peers' \in [Units -> Far]
        /\ \A u \in Units : /\ peers'[u].present = peers[u].present
                            /\ \/ peers'[u] = peers[u]
                               \/ peers'[u].packet = frame /\ peers'[u].at = -1
    <3>1. CASE UNCHANGED peers
      BY <1>1, <3>1
    <3>2. CASE peers' = [u \in Units |-> IF peers[u].present THEN Built(peers[u]) ELSE peers[u]]
      BY <1>1, <3>2, BuiltType
    <3> QED
      BY <2>1, <3>1, <3>2 DEF PortMpPoll, LoopPoll, JsPoll
  <2>3. link' = [up |-> TRUE, self |-> self] \/ link' = Down
    BY <2>1 DEF PortMpPoll, LoopPoll, JsPoll
  <2>4. link' \in [up : BOOLEAN, self : Units] /\ (link'.up => link'.self = self)
    <3>1. CASE link' = [up |-> TRUE, self |-> self]
      BY <1>1, <3>1
    <3>2. CASE link' = Down
      BY <3>2, DownType
    <3> QED
      BY <2>3, <3>1, <3>2
  <2>5. \/ phase' = "slots" /\ link'.up /\ frame' = frame
        \/ phase' = "game" /\ frame' = frame + 1
    BY <1>3 DEF PortMpFrame, NextFrame
  <2> QED
    BY <2>2, <2>4, <2>5
<1> QED
  BY <1>2, <1>3

(* Every step keeps the types. *)
LEMMA WireTypeStep == WireType /\ [Next]_vars => WireType'
<1> SUFFICES ASSUME WireType, [Next]_vars PROVE WireType'
  OBVIOUS
<1> USE DEF linkVars, sioVars, areaVars, gameVars, farVars, lobbyVars
<1>1. ASSUME NEW t, NEW players, PortMpAttach(t, players)
      PROVE  WireType'
  <2>1. Opened(players) \in [Units -> Far] /\ ~Opened(players)[self].present
    BY OpenedType
  <2>2. \A u \in Units : Opened(players)[u].present => Opened(players)[u].packet \in 1 .. frame
    BY OpenedType DEF WireType
  <2>3. link' \in [up : BOOLEAN, self : Units]
    BY <1>1, DownType DEF PortMpAttach, Attached
  <2>4. phase = "game" /\ peers' = Opened(players)
    BY <1>1 DEF PortMpAttach
  <2> QED
    BY <1>1, <2>1, <2>2, <2>3, <2>4 DEF PortMpAttach, WireType
<1>2. CASE PortMpAttachRefused \/ PortMpDetach
  <2>1. link' \in [up : BOOLEAN, self : Units] /\ phase = "game"
    BY <1>2, DownType DEF PortMpAttachRefused, PortMpDetach, Attached
  <2> QED
    BY <1>2, <2>1 DEF PortMpAttachRefused, PortMpDetach, WireType
<1>3. CASE NothingCalled \/ NormalMode
  BY <1>3 DEF NothingCalled, NormalMode, GameCall, WireType
<1>4. CASE MultiSioInit
  <2>1. recvBuf' \in [Units -> [1 .. 3 -> [Data -> Words]]]
    BY <1>4, NothingType DEF MultiSioInit
  <2>2. sendp' \in Turns /\ sendCounter' \in Counters /\ recvCounter' \in [Units -> Counters]
    <3>1. 0 \in Counters
      BY MultiSioAssumption DEF Counters
    <3> QED
      BY <1>4, <3>1 DEF MultiSioInit, Turns
  <2>3. recvp' \in [Units -> Buffers] /\ flag' \in [Units -> BOOLEAN]
    BY <1>4 DEF MultiSioInit, Buffers
  <2>4. sendBuf' \in [1 .. 2 -> Nat] /\ inbox' \in [Units -> Nat] /\ phase' = "present"
    BY <1>4 DEF MultiSioInit, NoPacket, GameCall
  <2> QED
    BY <1>4, <2>1, <2>2, <2>3, <2>4 DEF MultiSioInit, WireType
<1>5. CASE MultiSioMain
  <2>1. /\ phase' = "present"
        /\ UNCHANGED <<frame, recvCounter, recvBuf, mltSend, session, self, link, peers, count>>
    BY <1>5 DEF MultiSioMain, GameCall
  <2> QED
    BY <1>5, <2>1, MainType DEF WireType
<1>6. CASE MultiBootMain
  <2>1. mltSend' \in Words /\ phase' = "present"
    BY <1>6, NothingType DEF MultiBootMain, GameCall, WireType
  <2> QED
    BY <1>6, <2>1 DEF MultiBootMain, WireType
<1>7. CASE LobbyCounts \/ LobbyStarts
  <2>1. count' \in Nat /\ mltSend' \in Words
    <3>1. count + 1 \in Nat
      BY DEF WireType
    <3>2. LobbyStart \in Words /\ SeqOf(count + 1) \in Words
      BY <3>1, NothingType, CountedWord
    <3> QED
      BY <1>7, <3>1, <3>2 DEF LobbyCounts, LobbyStarts, LobbyWord, WireType
  <2>2. /\ phase' = "present"
        /\ UNCHANGED <<frame, session, self, link, areaVars, inbox, got, peers>>
    BY <1>7 DEF LobbyCounts, LobbyStarts, LobbyWord, GameCall
  <2> QED
    BY <2>1, <2>2 DEF WireType
<1>8. CASE PortMpFrame
  <2>1. UNCHANGED <<session, self, mltSend, areaVars, inbox, got, count>>
    BY <1>8 DEF PortMpFrame
  <2>2. ASSUME NEW u \in Units, peers'[u].present
        PROVE  peers'[u].packet \in 1 .. frame'
    <3>1. frame \in Nat \ {0} /\ frame' \in {frame, frame + 1}
      BY <1>8, PollType DEF WireType
    <3>2. peers'[u].packet \in 1 .. frame
      <4>1. CASE peers'[u] = peers[u]
        BY <2>2, <4>1 DEF WireType
      <4>2. CASE peers'[u].packet = frame
        BY <3>1, <4>2
      <4> QED
        BY <1>8, <4>1, <4>2, PollType
    <3> QED
      BY <3>1, <3>2
  <2>3. frame' \in Nat \ {0} /\ phase' \in {"game", "present", "slots"}
    BY <1>8, PollType DEF WireType
  <2> QED
    BY <1>8, <2>1, <2>2, <2>3, PollType DEF WireType
<1>9. CASE RunTransfer
  <2>1. phase = "slots" /\ Exchange /\ UNCHANGED <<phase, frame, session, self, link, count>>
    BY <1>9 DEF RunTransfer
  <2>2. CASE handler = "multisio"
    <3>1. MultiSioIntr(OnTheBus)
      BY <1>9, <2>2 DEF RunTransfer
    <3> QED
      BY <2>1, <3>1, InterruptType, ExchangeType DEF WireType
  <2>3. CASE handler # "multisio"
    <3>1. UNCHANGED <<areaVars, inbox, got, mltSend>>
      BY <1>9, <2>3 DEF RunTransfer
    <3> QED
      BY <2>1, <3>1, ExchangeType DEF WireType
  <2> QED
    BY <2>2, <2>3
<1>10. CASE Stall \/ SlotsOver
  BY <1>10 DEF Stall, SlotsOver, NextFrame, WireType
<1>11. CASE UNCHANGED vars
  BY <1>11 DEF vars, WireType
<1> QED
  BY <1>1, <1>2, <1>3, <1>4, <1>5, <1>6, <1>7, <1>8, <1>9, <1>10, <1>11
  DEF Next, AtBound

(* --- the cable stays armed ---------------------------------------------- *)

(* Only a parent has started the first transfer; and from then on the      *)
(* library's interrupt and the game leave START set, until the library is  *)
(* reset or the mode is changed.                                           *)
Registers == [multi : BOOLEAN, sd : BOOLEAN, id : Units, start : BOOLEAN]

Started ==
  /\ cnt \in Registers /\ parent \in BOOLEAN /\ kicked \in BOOLEAN
  /\ kicked => parent
  /\ handler = "multisio" /\ cnt.multi /\ kicked => cnt.start

(* Every step keeps it so.                                                 *)
LEMMA StartedStep == WireType /\ Started /\ [Next]_vars => Started'
<1> SUFFICES ASSUME WireType, Started, [Next]_vars PROVE Started'
  OBVIOUS
<1>1. CASE MultiSioInit
  <2>1. Cleared \in Registers
    BY DownType DEF Cleared, Registers
  <2> QED
    BY <1>1, <2>1 DEF MultiSioInit, Started
<1>2. CASE MultiSioMain
  <2> DEFINE start == cnt.start \/ (parent' /\ ~kicked)
  <2>1. /\ parent' = (parent \/ (cnt.sd /\ cnt.id = 0)) /\ kicked' = (kicked \/ parent')
        /\ cnt' = [cnt EXCEPT !.start = start]
        /\ handler = "multisio" /\ cnt.multi
    BY <1>2 DEF MultiSioMain
  <2>2. parent' \in BOOLEAN /\ kicked' \in BOOLEAN /\ start \in BOOLEAN
    BY <2>1, Zenon DEF Started
  <2>3. kicked' => parent'
    BY <2>1, Zenon DEF Started
  <2>4. kicked' => start
    BY <2>1, Zenon DEF Started
  <2> HIDE DEF start
  <2>5. cnt' \in Registers /\ cnt'.start = start
    BY <2>1, <2>2 DEF Started, Registers
  <2> QED
    BY <2>2, <2>3, <2>4, <2>5 DEF Started
<1>3. CASE NormalMode
  <2>1. cnt' \in Registers /\ ~cnt'.multi /\ UNCHANGED <<parent, kicked>>
    BY <1>3 DEF NormalMode, Started, Registers, gameVars, areaVars
  <2> QED
    BY <2>1 DEF Started
<1>4. CASE MultiBootMain
  <2>1. UNCHANGED <<parent, kicked>> /\ \/ UNCHANGED <<cnt, handler>>
                                        \/ handler' = "lobby" /\ cnt' = cnt
                                        \/ handler' = "lobby" /\ cnt' = [cnt EXCEPT !.multi = TRUE, !.start = TRUE]
    BY <1>4 DEF MultiBootMain, areaVars
  <2> QED
    BY <2>1 DEF Started, Registers
<1>5. CASE LobbyCounts \/ LobbyStarts
  <2>1. handler = "lobby" /\ UNCHANGED <<handler, parent, kicked>> /\ cnt' = [cnt EXCEPT !.start = TRUE]
    BY <1>5 DEF LobbyCounts, LobbyStarts, LobbyWord, gameVars, areaVars
  <2> QED
    BY <2>1 DEF Started, Registers
<1>6. CASE PortMpFrame
  <2>1. UNCHANGED <<handler, parent, kicked>>
    BY <1>6 DEF PortMpFrame, gameVars, areaVars
  <2>2. cnt' \in Registers /\ cnt'.multi = cnt.multi /\ cnt'.start = cnt.start
    <3>1. cnt' = cnt \/ cnt' = [cnt EXCEPT !.sd = link'.up, !.id = link'.self]
      BY <1>6 DEF PortMpFrame, RefreshStatus
    <3>2. link'.up \in BOOLEAN /\ link'.self \in Units
      BY <1>6, PollType
    <3> QED
      BY <3>1, <3>2 DEF Started, Registers
  <2> QED
    BY <2>1, <2>2 DEF Started
<1>7. CASE RunTransfer
  <2>1. CASE handler = "multisio"
    <3>1. cnt' = [cnt EXCEPT !.start = parent] /\ UNCHANGED <<handler, parent, kicked>>
      BY <1>7, <2>1 DEF RunTransfer, MultiSioIntr
    <3> QED
      BY <3>1 DEF Started, Registers
  <2>2. CASE handler # "multisio"
    <3>1. cnt' = [cnt EXCEPT !.start = FALSE] /\ UNCHANGED <<handler, parent, kicked>>
      BY <1>7, <2>2 DEF RunTransfer, gameVars, areaVars
    <3> QED
      BY <2>2, <3>1 DEF Started, Registers
  <2> QED
    BY <2>1, <2>2
<1>8. CASE UNCHANGED <<handler, cnt, parent, kicked>>
  BY <1>8 DEF Started
<1> QED
  BY <1>1, <1>2, <1>3, <1>4, <1>5, <1>6, <1>7, <1>8
  DEF Next, PortMpAttach, PortMpAttachRefused, PortMpDetach, NothingCalled, Stall, AfterStall, SlotsOver,
      AtBound, vars, sioVars, gameVars, areaVars

(* Once the parent has been started the cable stays armed, whatever        *)
(* stalls, comes and goes, or is not called: nobody is left waiting for a  *)
(* start that nobody gives.                                                *)
THEOREM CableStaysArmed == Spec => []StaysArmed
<1>1. Init => Started
  <2>1. Cleared \in Registers
    BY DownType DEF Cleared, Registers
  <2> QED
    BY <2>1 DEF Init, Started
<1>2. Started => StaysArmed
  BY DEF Started, StaysArmed
<1> QED
  BY InitWireType, WireTypeStep, StartedStep, <1>1, <1>2, PTL DEF Spec

(* --- buffers ------------------------------------------------------------ *)

(* The interrupt never writes the buffer the game looks at, nor sends the  *)
(* one it fills: the buffers of a unit stay three, each in one role.       *)
THEOREM BuffersAreApart == Spec => ApartFromTheInterrupt
<1>1. WireType /\ [Next]_vars =>
        [phase = "slots" => /\ \A u \in Units : recvBuf'[u][recvp[u].check] = recvBuf[u][recvp[u].check]
                            /\ \A u \in Units : recvp'[u].check = recvp[u].check
                            /\ \A u \in Units : recvp'[u].last # recvp'[u].current
                            /\ sendp'.next # sendp'.current]_vars
  <2> SUFFICES ASSUME WireType, [Next]_vars, phase = "slots"
               PROVE  /\ \A u \in Units : recvBuf'[u][recvp[u].check] = recvBuf[u][recvp[u].check]
                      /\ \A u \in Units : recvp'[u].check = recvp[u].check
                      /\ \A u \in Units : recvp'[u].last # recvp'[u].current
                      /\ sendp'.next # sendp'.current
    OBVIOUS
  <2>1. WireType'
    BY WireTypeStep
  <2>2. sendp'.next # sendp'.current /\ \A u \in Units : recvp'[u].last # recvp'[u].current
    BY <2>1 DEF WireType, Turns, Buffers
  <2>3. CASE RunTransfer /\ handler = "multisio"
    <3>1. MultiSioIntr(OnTheBus)
      BY <2>3 DEF RunTransfer
    <3>2. ASSUME NEW u \in Units
          PROVE  recvBuf'[u][recvp[u].check] = recvBuf[u][recvp[u].check]
      <4>1. recvp[u].check \in 1 .. 3 /\ recvp[u].check # recvp[u].current
        BY DEF WireType, Buffers
      <4>2. recvBuf'[u] = [recvBuf[u] EXCEPT ![recvp[u].current] = Stored(@, recvCounter[u], OnTheBus[u])]
        BY <3>1 DEF MultiSioIntr
      <4> QED
        BY <4>1, <4>2 DEF WireType
    <3>3. \A u \in Units : recvp'[u].check = recvp[u].check
      <4>1. \A u \in Units : recvp[u] \in Buffers /\ recvp'[u] \in {recvp[u], Rotated(recvp[u])}
        BY <3>1 DEF MultiSioIntr, WireType
      <4> QED
        BY <4>1 DEF Rotated, Buffers
    <3> QED
      BY <2>2, <3>2, <3>3
  <2>4. CASE UNCHANGED <<recvBuf, recvp>>
    BY <2>2, <2>4
  <2> QED
    BY <2>3, <2>4
    DEF Next, PortMpAttach, PortMpAttachRefused, PortMpDetach, NothingCalled, MultiSioInit, MultiSioMain,
        NormalMode, MultiBootMain, LobbyCounts, LobbyStarts, LobbyWord, GameCall, PortMpFrame, RunTransfer,
        Stall, SlotsOver, AtBound, vars, gameVars, areaVars
<1> QED
  BY InitWireType, WireTypeStep, <1>1, PTL DEF Spec, ApartFromTheInterrupt

(* --- packets ------------------------------------------------------------ *)

Packets == Nat \ {NoPacket}

(* The packet whose first halfword opened the buffer being written.        *)
Begun(u, n) == recvCounter[u] \in 1 .. LastHw /\ recvBuf[u][recvp[u].current][0] = Halfword(u, n, 0)

(* The packet that opened the buffer completed last, still to be looked at. *)
Had(u, n) == flag[u] /\ recvBuf[u][recvp[u].last][0] = Halfword(u, n, 0)

(* Our own packet that will be streamed behind the word on its way out.    *)
Queued(n) ==
  \/ sendCounter = 0 /\ n = sendBuf[sendp.current]
  \/ sendCounter = -1 /\ n = sendBuf[sendp.next]

(* A packet of a unit whose first halfword may still come over the cable,  *)
(* of those that have been built; of a far end any later one may.          *)
Floor(u) == IF peers[u].at <= 0 THEN peers[u].packet ELSE peers[u].packet + 1
ToOpen(u, n) ==
  IF u = self THEN mltSend = Halfword(u, n, 0) \/ Queued(n)
              ELSE peers[u].present /\ n >= Floor(u)

(* What has come over the cable is of frames before this.                  *)
Limit == IF phase = "slots" THEN frame + 1 ELSE frame

(* It is a frame.                                                          *)
LEMMA LimitType ==
  ASSUME NEW n \in Nat, NEW p
  PROVE  (IF p = "slots" THEN n + 1 ELSE n) \in Nat
OBVIOUS

(* The packets of a unit on their way to the game, each behind the one     *)
(* before it: handed over, completed, being received, and to come.         *)
UnitInOrder(u) ==
  /\ got[u] < Limit
  /\ \A n \in Packets : Had(u, n) => got[u] < n /\ n < Limit
  /\ \A n \in Packets : Begun(u, n) => got[u] < n /\ n < Limit
  /\ \A n, m \in Packets : Had(u, m) /\ Begun(u, n) => m < n
  /\ \A n \in Packets : ToOpen(u, n) => got[u] < n
  /\ \A n, m \in Packets : ToOpen(u, n) /\ (Had(u, m) \/ Begun(u, m)) => m < n

OwnInOrder ==
  /\ \A n \in Packets : mltSend = Halfword(self, n, 0) => n < Limit
  /\ \A n, m \in Packets : mltSend = Halfword(self, n, 0) /\ Queued(m) => n < m
  /\ \A n \in Packets : Queued(n) => n <= frame /\ (phase = "game" => n < frame)

InOrder == OwnInOrder /\ \A u \in Units : UnitInOrder(u)

(* The order of a unit stands if nothing more has come from it, and what   *)
(* may come is what might, or is of this frame.                            *)
LEMMA OrderStands ==
  ASSUME NEW u \in Units, WireType, UnitInOrder(u), got'[u] = got[u],
         frame' \in Nat, Limit <= Limit',
         \A n \in Packets : Had(u, n)' => Had(u, n),
         \A n \in Packets : Begun(u, n)' => Begun(u, n),
         \A n \in Packets : ToOpen(u, n)' => ToOpen(u, n) \/ n >= Limit
  PROVE  UnitInOrder(u)'
<1>1. got[u] \in Nat /\ Limit \in Nat /\ Limit' \in Nat /\ Packets \subseteq Nat
  <2>1. got[u] \in Nat /\ frame \in Nat /\ Packets \subseteq Nat
    BY DEF WireType, Packets
  <2>2. Limit \in Nat
    BY <2>1, LimitType DEF Limit
  <2>3. Limit' \in Nat
    BY LimitType DEF Limit
  <2> QED
    BY <2>1, <2>2, <2>3
<1>2. got'[u] < Limit'
  BY <1>1 DEF UnitInOrder
<1>3. ASSUME NEW n \in Packets, Had(u, n)'
      PROVE  got'[u] < n /\ n < Limit'
  BY <1>1, <1>3 DEF UnitInOrder
<1>4. ASSUME NEW n \in Packets, Begun(u, n)'
      PROVE  got'[u] < n /\ n < Limit'
  BY <1>1, <1>4 DEF UnitInOrder
<1>5. ASSUME NEW n \in Packets, NEW m \in Packets, Had(u, m)', Begun(u, n)'
      PROVE  m < n
  BY <1>5 DEF UnitInOrder
<1>6. ASSUME NEW n \in Packets, ToOpen(u, n)'
      PROVE  got'[u] < n
  BY <1>1, <1>6 DEF UnitInOrder
<1>7. ASSUME NEW n \in Packets, NEW m \in Packets, ToOpen(u, n)', Had(u, m)' \/ Begun(u, m)'
      PROVE  m < n
  BY <1>1, <1>7 DEF UnitInOrder
<1> QED
  BY <1>2, <1>3, <1>4, <1>5, <1>6, <1>7 DEF UnitInOrder

(* What we send stands in order if the word on its way is the one before,  *)
(* or opens nothing, and what waits behind it is what waited, or less.     *)
LEMMA OwnStands ==
  ASSUME WireType, OwnInOrder, frame' \in Nat, Limit <= Limit', frame <= frame', self' = self,
         phase' = "game" => phase = "game" \/ frame < frame',
         \A n \in Packets : mltSend' = Halfword(self, n, 0) => mltSend = Halfword(self, n, 0),
         \A n \in Packets : Queued(n)' => Queued(n)
  PROVE  OwnInOrder'
<1>1. frame \in Nat /\ Limit \in Nat /\ Limit' \in Nat /\ Packets \subseteq Nat
  <2>1. frame \in Nat /\ Packets \subseteq Nat
    BY DEF WireType, Packets
  <2>2. Limit \in Nat
    BY <2>1, LimitType DEF Limit
  <2>3. Limit' \in Nat
    BY LimitType DEF Limit
  <2> QED
    BY <2>1, <2>2, <2>3
<1>2. ASSUME NEW n \in Packets, mltSend' = Halfword(self, n, 0) PROVE n < Limit'
  BY <1>1, <1>2 DEF OwnInOrder
<1>3. ASSUME NEW n \in Packets, NEW m \in Packets, mltSend' = Halfword(self, n, 0), Queued(m)' PROVE n < m
  BY <1>3 DEF OwnInOrder
<1>4. ASSUME NEW n \in Packets, Queued(n)' PROVE n <= frame' /\ (phase' = "game" => n < frame')
  BY <1>1, <1>4 DEF OwnInOrder
<1> QED
  BY <1>2, <1>3, <1>4 DEF OwnInOrder

(* The game takes what was completed: of a later packet than it had.       *)
LEMMA TakenIsLater ==
  ASSUME WireType, InOrder, MultiSioMain, NEW u \in Units
  PROVE  /\ inbox'[u] # NoPacket => Had(u, inbox'[u]) /\ inbox'[u] \in Packets
         /\ got'[u] = IF inbox'[u] # NoPacket THEN inbox'[u] ELSE got[u]
<1>1. recvp'[u].check = recvp[u].last /\ recvp[u].last \in 1 .. 3
  <2>1. recvp[u] \in Buffers
    BY DEF WireType
  <2>2. recvp'[u] = [recvp[u] EXCEPT !.check = recvp[u].last, !.last = recvp[u].check]
    BY BuffersSwapped
  <2> QED
    BY <2>1, <2>2 DEF Buffers
<1>2. recvBuf[u][recvp[u].last] \in [Data -> Words]
  BY <1>1 DEF WireType
<1>3. inbox'[u] = IF flag[u] THEN PacketIn(recvBuf[u][recvp[u].last], u) ELSE NoPacket
  BY <1>1 DEF MultiSioMain
<1>4. inbox'[u] # NoPacket => Had(u, inbox'[u]) /\ inbox'[u] \in Packets
  <2> SUFFICES ASSUME inbox'[u] # NoPacket PROVE Had(u, inbox'[u]) /\ inbox'[u] \in Packets
    OBVIOUS
  <2>1. flag[u] /\ inbox'[u] = PacketIn(recvBuf[u][recvp[u].last], u)
    BY <1>3
  <2> QED
    BY <1>2, <2>1, PacketBegan DEF Had, Packets
<1>5. got'[u] = IF inbox'[u] # NoPacket THEN inbox'[u] ELSE got[u]
  BY DEF MultiSioMain
<1> QED
  BY <1>4, <1>5

(* The game's turn leaves every packet behind the one before it.           *)
LEMMA MainInOrder ==
  ASSUME WireType, InOrder, MultiSioMain
  PROVE  InOrder'
<1>1. /\ phase = "game" /\ phase' = "present" /\ frame' = frame /\ frame \in Nat
      /\ UNCHANGED <<recvCounter, recvBuf, mltSend, self, peers, sendp>>
      /\ sendCounter' = -1 /\ sendBuf' = [sendBuf EXCEPT ![sendp.next] = frame]
  BY MainType DEF MultiSioMain, GameCall, WireType, linkVars, farVars
<1>2. Limit = frame /\ Limit' = frame /\ Packets \subseteq Nat
  BY <1>1 DEF Limit, Packets
<1>3. \A n : Queued(n)' <=> n = frame
  <2>1. sendBuf'[sendp'.next] = frame
    BY <1>1 DEF WireType, Turns
  <2> QED
    BY <1>1, <2>1 DEF Queued
<1>4. OwnInOrder'
  <2>1. \A n \in Packets : mltSend' = Halfword(self', n, 0) => n < frame
    BY <1>1, <1>2 DEF InOrder, OwnInOrder
  <2> QED
    BY <1>1, <1>2, <1>3, <2>1 DEF OwnInOrder
<1>5. ASSUME NEW u \in Units PROVE UnitInOrder(u)'
  <2>1. UnitInOrder(u)
    BY DEF InOrder
  <2>2. \A n : Begun(u, n)' <=> Begun(u, n)
    <3>1. recvp'[u] = [recvp[u] EXCEPT !.check = recvp[u].last, !.last = recvp[u].check]
      BY BuffersSwapped
    <3>2. recvp'[u].current = recvp[u].current
      BY <3>1 DEF WireType, Buffers
    <3> QED
      BY <1>1, <3>2 DEF Begun
  <2>3. \A n : ~Had(u, n)'
    BY BuffersSwapped DEF Had
  <2>4. ASSUME NEW n \in Packets, ToOpen(u, n)'
        PROVE  (u = self /\ n = frame) \/ ToOpen(u, n)
    BY <1>1, <1>3, <2>4 DEF ToOpen, Floor
  <2>5. got'[u] = got[u] \/ (Had(u, got'[u]) /\ got'[u] \in Packets)
    BY TakenIsLater
  <2>6. got'[u] \in Nat /\ got'[u] < frame
    BY <1>1, <1>2, <2>1, <2>5, MainType DEF UnitInOrder
  <2>7. ASSUME NEW n \in Packets, Begun(u, n)'
        PROVE  got'[u] < n /\ n < frame
    BY <1>2, <2>1, <2>2, <2>5, <2>7 DEF UnitInOrder
  <2>8. ASSUME NEW n \in Packets, ToOpen(u, n)'
        PROVE  got'[u] < n
    BY <2>1, <2>4, <2>5, <2>6, <2>8 DEF UnitInOrder
  <2>9. ASSUME NEW n \in Packets, NEW m \in Packets, ToOpen(u, n)', Begun(u, m)'
        PROVE  m < n
    BY <1>2, <2>1, <2>2, <2>4, <2>7, <2>9 DEF UnitInOrder
  <2> QED
    BY <1>2, <2>3, <2>6, <2>7, <2>8, <2>9 DEF UnitInOrder
<1> QED
  BY <1>4, <1>5 DEF InOrder

(* What a transfer does to what a unit's buffers began with: nothing, or   *)
(* the buffer being written begins with the word that came, or it has been *)
(* completed and is the last one.                                          *)
LEMMA HeardWord ==
  ASSUME WireType, MultiSioIntr(OnTheBus), NEW u \in Units
  PROVE  \/ \A n : (Had(u, n)' => Had(u, n)) /\ (Begun(u, n)' => Begun(u, n))
         \/ \A n : (Had(u, n)' => Had(u, n)) /\ (Begun(u, n)' => OnTheBus[u] = Halfword(u, n, 0))
         \/ \A n : (Had(u, n)' => Begun(u, n)) /\ ~Begun(u, n)'
<1> DEFINE w == OnTheBus[u]
           c == recvCounter[u]
           r == recvp[u]
           b == recvBuf[u][r.current]
<1>1. /\ c \in Counters /\ r \in Buffers /\ b \in [Data -> Words]
      /\ r.current \in 1 .. 3 /\ r.last \in 1 .. 3 /\ r.last # r.current
      /\ recvBuf[u] \in [1 .. 3 -> [Data -> Words]]
  BY DEF WireType, Buffers
<1>2. /\ recvBuf'[u] = [recvBuf[u] EXCEPT ![r.current] = Stored(b, c, w)]
      /\ recvp'[u] = IF Completes(c, w) THEN Rotated(r) ELSE r
      /\ flag'[u] = (flag[u] \/ Completes(c, w))
      /\ recvCounter'[u] = Received(c, w)
  BY DEF MultiSioIntr
<1>3. recvBuf'[u][r.current] = Stored(b, c, w) /\ recvBuf'[u][r.last] = recvBuf[u][r.last]
  BY <1>1, <1>2
<1>4. 0 \in Data /\ LastHw \in Nat \ {0} /\ LastHw = PacketHw - 3 /\ PacketHw \in Nat
  BY MultiSioAssumption DEF Data, LastHw
<1> HIDE DEF w, c, r, b
<1>5. CASE Completes(c, w)
  <2>1. c = LastHw /\ Received(c, w) = LastHw + 1
    BY <1>4, <1>5 DEF Completes, Received, Stepped
  <2>2. recvp'[u].last = r.current
    BY <1>1, <1>2, <1>5 DEF Rotated, Buffers
  <2>3. Stored(b, c, w)[0] = b[0]
    BY <1>1, <1>4, <2>1 DEF Stored
  <2>4. \A n : ~Begun(u, n)'
    BY <1>2, <1>4, <2>1 DEF Begun
  <2>5. \A n : Had(u, n)' => Begun(u, n)
    BY <1>3, <1>4, <2>1, <2>2, <2>3 DEF Had, Begun, b, c, r
  <2> QED
    BY <2>4, <2>5
<1>6. CASE ~Completes(c, w)
  <2>1. recvp'[u] = r /\ (flag'[u] <=> flag[u])
    BY <1>2, <1>6
  <2>2. \A n : Had(u, n)' => Had(u, n)
    BY <1>3, <2>1 DEF Had, r
  <2>3. CASE Realigns(w, c)
    <3>1. recvCounter'[u] = 0
      BY <1>2, <1>4, <2>3 DEF Received, Stepped
    <3>2. \A n : ~Begun(u, n)'
      BY <3>1 DEF Begun
    <3> QED
      BY <2>2, <3>2
  <2>4. CASE ~Realigns(w, c) /\ c = 0
    <3>1. Stored(b, c, w)[0] = w
      BY <1>1, <1>4, <2>4 DEF Stored
    <3>2. recvBuf'[u][recvp'[u].current][0] = w
      BY <1>3, <2>1, <3>1
    <3> QED
      BY <2>2, <3>2 DEF Begun, w
  <2>5. CASE ~Realigns(w, c) /\ c # 0
    <3>1. Stored(b, c, w)[0] = b[0]
      BY <1>1, <1>4, <2>5 DEF Stored
    <3>2. recvCounter'[u] \in 1 .. LastHw => c \in 1 .. LastHw
      BY <1>1, <1>2, <1>4, <2>5 DEF Received, Stepped, Counters
    <3>3. recvBuf'[u][recvp'[u].current][0] = b[0]
      BY <1>3, <2>1, <3>1
    <3>4. \A n : Begun(u, n)' => Begun(u, n)
      BY <3>2, <3>3 DEF Begun, b, c, r
    <3> QED
      BY <2>2, <3>4
  <2> QED
    BY <2>3, <2>4, <2>5
<1> QED
  BY <1>5, <1>6

(* The interrupt streams what was queued: the word it puts out opens the   *)
(* queued packet, and what it queues is what the game had filled.          *)
LEMMA StreamsQueued ==
  ASSUME WireType, phase = "slots", MultiSioIntr(OnTheBus)
  PROVE  /\ \A n : mltSend' = Halfword(self, n, 0) => Queued(n) /\ sendCounter = 0
         /\ \A n : Queued(n)' => Queued(n) /\ sendCounter = -1
<1>1. /\ mltSend' = WordAt(sendCounter, self, sendBuf[sendp.current])
      /\ sendCounter' = Stepped(sendCounter) /\ sendBuf' = sendBuf
      /\ sendp' = IF sendCounter = -1 THEN SendSwapped ELSE sendp
  BY DEF MultiSioIntr, WireType
<1>2. sendCounter \in Counters /\ self \in Units /\ sendBuf[sendp.current] \in Nat
  BY DEF WireType, Turns
<1>3. ASSUME NEW n, mltSend' = Halfword(self, n, 0)
      PROVE  Queued(n) /\ sendCounter = 0
  <2>1. WordAt(sendCounter, self, sendBuf[sendp.current]) = Halfword(self, n, 0)
    BY <1>1, <1>3
  <2>2. sendCounter = 0 /\ n = sendBuf[sendp.current]
    BY <1>2, <2>1, StreamedWord
  <2> QED
    BY <2>2 DEF Queued
<1>4. ASSUME NEW n, Queued(n)'
      PROVE  Queued(n) /\ sendCounter = -1
  <2>1. sendCounter' # -1
    BY <1>1, <1>2, CounterTypes
  <2>2. sendCounter' = 0 /\ n = sendBuf[sendp'.current]
    BY <1>1, <1>4, <2>1 DEF Queued
  <2>3. sendCounter = -1
    BY <1>1, <1>2, <2>2, MultiSioAssumption DEF Stepped, Counters
  <2>4. sendp'.current = sendp.next
    BY <1>1, <2>3 DEF SendSwapped
  <2> QED
    BY <2>2, <2>3, <2>4 DEF Queued
<1> QED
  BY <1>3, <1>4


(* A far end that has come as far as a transfer has no earlier packet to   *)
(* open after it.                                                          *)
LEMMA FarStands ==
  ASSUME WireType, self' = self, Exchange, NEW u \in Units, u # self, NEW m \in Packets, ToOpen(u, m)'
  PROVE  ToOpen(u, m)
<1> DEFINE at == peers[u].at
           was == peers[u].packet
<1>1. /\ at \in Counters /\ was \in Nat /\ m \in Nat
      /\ peers'[u].present = peers[u].present /\ peers'[u].packet = was
      /\ peers'[u].at \in {at, Stepped(at)}
  BY ExchangeType DEF WireType, Far, Packets
<1> PICK now : now = peers'[u].at
  OBVIOUS
<1>2. peers[u].present /\ m >= (IF now <= 0 THEN was ELSE was + 1)
  BY <1>1 DEF ToOpen, Floor
<1> HIDE DEF at, was
<1>3. Stepped(at) \in Int /\ Stepped(at) >= at /\ at \in Int
  BY <1>1, MultiSioAssumption DEF Stepped, Counters
<1>4. now \in Int /\ now >= at
  BY <1>1, <1>3
<1>5. m >= (IF at <= 0 THEN was ELSE was + 1)
  BY <1>1, <1>2, <1>3, <1>4
<1> QED
  BY <1>2, <1>5 DEF ToOpen, Floor, at, was

(* What a unit may still open after a transfer it might have opened before *)
(* it, and comes behind the packet that the transfer has opened.           *)
LEMMA BusInOrder ==
  ASSUME WireType, OwnInOrder, phase = "slots", self' = self, Exchange, MultiSioIntr(OnTheBus),
         NEW u \in Units
  PROVE  /\ \A m \in Packets : ToOpen(u, m)' => ToOpen(u, m)
         /\ \A n \in Packets : OnTheBus[u] = Halfword(u, n, 0) =>
              /\ ToOpen(u, n) /\ n < frame + 1
              /\ \A m \in Packets : ToOpen(u, m)' => n < m
<1>1. self \in Units /\ link.self = self /\ frame \in Nat
  BY DEF WireType
<1>2. CASE u = self
  <2>1. \A m \in Packets : ToOpen(u, m)' => Queued(m)
    BY <1>2, StreamsQueued DEF ToOpen
  <2>2. OnTheBus[u] = mltSend
    BY <1>1, <1>2 DEF OnTheBus
  <2>3. ASSUME NEW n \in Packets, OnTheBus[u] = Halfword(u, n, 0)
        PROVE  ToOpen(u, n) /\ n < frame + 1
    BY <1>2, <2>2, <2>3 DEF ToOpen, OwnInOrder, Limit
  <2>4. ASSUME NEW n \in Packets, OnTheBus[u] = Halfword(u, n, 0), NEW m \in Packets, ToOpen(u, m)'
        PROVE  n < m
    BY <1>2, <2>1, <2>2, <2>4 DEF OwnInOrder
  <2> QED
    BY <1>2, <2>1, <2>3, <2>4 DEF ToOpen
<1>3. CASE u # self
  <2> DEFINE at == peers[u].at
             was == peers[u].packet
  <2>1. /\ at \in Counters /\ was \in Nat /\ (peers[u].present => was <= frame)
        /\ peers'[u].present = peers[u].present /\ peers'[u].packet = was
        /\ peers'[u].at \in {at, Stepped(at)}
        /\ (peers[u].present /\ PeerReply(u) = Empty => peers'[u].at = Stepped(at))
    BY ExchangeType DEF WireType, Far
  <2>2. PacketHw \in Nat /\ PacketHw > 3 /\ Packets \subseteq Nat
    BY MultiSioAssumption DEF Packets
  <2> HIDE DEF at, was
  <2>3. Stepped(at) >= at /\ (at = 0 => Stepped(at) = 1)
    BY <2>1, <2>2 DEF Stepped, Counters
  <2>4. ASSUME NEW m \in Packets, ToOpen(u, m)'
        PROVE  ToOpen(u, m)
    BY <1>3, <2>4, FarStands
  <2>5. ASSUME NEW n \in Packets, OnTheBus[u] = Halfword(u, n, 0)
        PROVE  /\ ToOpen(u, n) /\ n < frame + 1
               /\ \A m \in Packets : ToOpen(u, m)' => n < m
    <3>1. OnTheBus[u] \notin OtherWords /\ Empty \in OtherWords /\ PeerReply(u) \in OtherWords
      BY <2>5, OthersAreNoHalfwords, BusType DEF OtherWords
    <3>2. peers[u].present /\ PeerReply(u) = Empty /\ OnTheBus[u] = WordAt(at, u, was)
      BY <1>1, <1>3, <3>1 DEF OnTheBus, at, was
    <3>3. WordAt(at, u, was) = Halfword(u, n, 0)
      BY <2>5, <3>2
    <3>4. at = 0 /\ n = was
      BY <2>1, <3>3, StreamedWord
    <3>5. ToOpen(u, n) /\ n < frame + 1
      <4>1. Floor(u) = n
        BY <3>4 DEF Floor, at, was
      <4> QED
        BY <1>1, <1>3, <2>1, <2>2, <3>2, <3>4, <4>1 DEF ToOpen
    <3>6. ASSUME NEW m \in Packets, ToOpen(u, m)'
          PROVE  n < m
      <4>1. peers'[u].at = 1
        BY <2>1, <2>3, <3>2, <3>4
      <4>2. m >= was + 1
        BY <1>3, <2>1, <3>6, <4>1 DEF ToOpen, Floor
      <4> QED
        BY <2>1, <2>2, <3>4, <4>2
    <3> QED
      BY <3>5, <3>6
  <2> QED
    BY <2>4, <2>5
<1> QED
  BY <1>2, <1>3

(* The interrupt of a transfer keeps every packet behind the one before.   *)
LEMMA HeardInOrder ==
  ASSUME WireType, InOrder, RunTransfer, handler = "multisio"
  PROVE  InOrder'
<1>1. /\ phase = "slots" /\ phase' = "slots" /\ frame' = frame /\ self' = self
      /\ Exchange /\ MultiSioIntr(OnTheBus)
  BY DEF RunTransfer, linkVars
<1>2. frame \in Nat /\ Limit = frame + 1 /\ Limit' = frame + 1 /\ Packets \subseteq Nat
  BY <1>1 DEF Limit, WireType, Packets
<1>3. OwnInOrder /\ \A u \in Units : UnitInOrder(u)
  BY DEF InOrder
<1>4. OwnInOrder'
  <2>1. /\ \A n : mltSend' = Halfword(self, n, 0) => Queued(n) /\ sendCounter = 0
        /\ \A n : Queued(n)' => Queued(n) /\ sendCounter = -1
    BY <1>1, StreamsQueued
  <2>2. \A n \in Packets : Queued(n) => n <= frame /\ n < frame + 1
    BY <1>2, <1>3 DEF OwnInOrder
  <2> QED
    BY <1>1, <1>2, <2>1, <2>2 DEF OwnInOrder
<1>5. ASSUME NEW u \in Units PROVE UnitInOrder(u)'
  <2>1. UnitInOrder(u) /\ got'[u] = got[u]
    BY <1>1, <1>3 DEF MultiSioIntr
  <2>2. \A m \in Packets : ToOpen(u, m)' => ToOpen(u, m)
    BY <1>1, <1>3, BusInOrder
  <2>3. \A n \in Packets : OnTheBus[u] = Halfword(u, n, 0) =>
          /\ ToOpen(u, n) /\ n < frame + 1
          /\ \A m \in Packets : ToOpen(u, m)' => n < m
    BY <1>1, <1>3, BusInOrder
  <2>4. CASE \A n : (Had(u, n)' => Had(u, n)) /\ (Begun(u, n)' => Begun(u, n))
    BY <1>2, <2>1, <2>2, <2>4 DEF UnitInOrder
  <2>5. CASE \A n : (Had(u, n)' => Had(u, n)) /\ (Begun(u, n)' => OnTheBus[u] = Halfword(u, n, 0))
    BY <1>2, <2>1, <2>2, <2>3, <2>5 DEF UnitInOrder
  <2>6. CASE \A n : (Had(u, n)' => Begun(u, n)) /\ ~Begun(u, n)'
    BY <1>2, <2>1, <2>2, <2>6 DEF UnitInOrder
  <2> QED
    BY <1>1, <2>4, <2>5, <2>6, HeardWord
<1> QED
  BY <1>4, <1>5 DEF InOrder


(* How a step moves through the frame. *)
Moves ==
  \/ frame' = frame /\ phase' = phase
  \/ frame' = frame /\ phase = "game" /\ phase' = "present"
  \/ frame' = frame /\ phase = "present" /\ phase' = "slots"
  \/ frame' = frame + 1 /\ phase \in {"present", "slots"} /\ phase' = "game"

(* The limit never goes back. *)
LEMMA LimitRises ==
  ASSUME WireType, Moves
  PROVE  /\ frame' \in Nat /\ frame <= frame' /\ Limit <= Limit'
         /\ (phase' = "game" => phase = "game" \/ frame < frame')
<1>1. frame \in Nat
  BY DEF WireType
<1> PICK now : now = frame'
  OBVIOUS
<1>2. now = frame \/ now = frame + 1
  BY DEF Moves
<1>3. Limit' = IF phase' = "slots" THEN now + 1 ELSE now
  BY DEF Limit
<1>4. Limit <= Limit'
  <2>1. CASE now = frame /\ phase' = phase
    BY <1>1, <1>3, <2>1 DEF Limit
  <2>2. CASE now = frame /\ phase # "slots"
    BY <1>1, <1>3, <2>2 DEF Limit
  <2>3. CASE now = frame + 1 /\ phase' = "game"
    BY <1>1, <1>3, <2>3 DEF Limit
  <2> QED
    BY <2>1, <2>2, <2>3 DEF Moves
<1>5. phase' = "game" => phase = "game" \/ now = frame + 1
  BY DEF Moves
<1> QED
  BY <1>1, <1>2, <1>4, <1>5

(* A step that leaves the buffers alone, and sends what it sent or a word  *)
(* of no packet, keeps the order if the far ends keep theirs.              *)
LEMMA QuietInOrder ==
  ASSUME WireType, InOrder, Moves,
         UNCHANGED <<sendCounter, sendp, sendBuf, recvCounter, recvp, recvBuf, flag, got, self>>,
         mltSend' = mltSend \/ mltSend' \in OtherWords,
         \A u \in Units : \A n \in Packets :
           u # self /\ ToOpen(u, n)' => ToOpen(u, n) \/ n >= Limit
  PROVE  InOrder'
<1>1. /\ frame' \in Nat /\ frame <= frame' /\ Limit <= Limit'
      /\ (phase' = "game" => phase = "game" \/ frame < frame')
  BY LimitRises
<1>2. \A n : mltSend' = Halfword(self, n, 0) => mltSend = Halfword(self, n, 0)
  BY OthersAreNoHalfwords
<1>3. \A n : Queued(n)' => Queued(n)
  BY DEF Queued
<1>4. OwnInOrder'
  BY <1>1, <1>2, <1>3, OwnStands DEF InOrder
<1>5. ASSUME NEW u \in Units PROVE UnitInOrder(u)'
  <2>1. \A n \in Packets : (Had(u, n)' => Had(u, n)) /\ (Begun(u, n)' => Begun(u, n))
    BY DEF Had, Begun
  <2>2. \A n \in Packets : ToOpen(u, n)' => ToOpen(u, n) \/ n >= Limit
    BY <1>2, <1>3 DEF ToOpen
  <2>3. UnitInOrder(u) /\ got'[u] = got[u]
    BY DEF InOrder
  <2> QED
    BY <1>1, <2>1, <2>2, <2>3, OrderStands
<1> QED
  BY <1>4, <1>5 DEF InOrder

(* MultiSioInit empties what is kept for the game, and what would be sent. *)
LEMMA RestartInOrder ==
  ASSUME WireType, InOrder, MultiSioInit
  PROVE  InOrder'
<1>1. /\ UNCHANGED <<frame, self, mltSend, got, peers>> /\ sendCounter' = 0
      /\ sendp' = [current |-> 2, next |-> 1] /\ sendBuf' = [b \in 1 .. 2 |-> NoPacket]
      /\ recvCounter' = [u \in Units |-> 0] /\ flag' = [u \in Units |-> FALSE]
      /\ phase = "game" /\ phase' = "present"
  BY DEF MultiSioInit, GameCall, linkVars, farVars
<1>2. Moves
  BY <1>1 DEF Moves
<1>3. /\ frame' \in Nat /\ frame <= frame' /\ Limit <= Limit'
      /\ (phase' = "game" => phase = "game" \/ frame < frame')
  BY <1>2, LimitRises
<1>4. \A n \in Packets : ~Queued(n)'
  BY <1>1 DEF Queued, Packets, NoPacket
<1>5. OwnInOrder'
  BY <1>1, <1>3, <1>4, OwnStands DEF InOrder
<1>6. ASSUME NEW u \in Units PROVE UnitInOrder(u)'
  <2>1. \A n \in Packets : ~Had(u, n)' /\ ~Begun(u, n)'
    BY <1>1 DEF Had, Begun
  <2>2. \A n \in Packets : ToOpen(u, n)' => ToOpen(u, n)
    BY <1>1, <1>4 DEF ToOpen, Floor
  <2>3. UnitInOrder(u) /\ got'[u] = got[u]
    BY <1>1 DEF InOrder
  <2> QED
    BY <1>3, <2>1, <2>2, <2>3, OrderStands
<1> QED
  BY <1>5, <1>6 DEF InOrder

(* Every step keeps every packet behind the one before it. *)
LEMMA InOrderStep == WireType /\ InOrder /\ [Next]_vars => InOrder'
<1> SUFFICES ASSUME WireType, InOrder, [Next]_vars PROVE InOrder'
  OBVIOUS
<1> USE DEF linkVars, sioVars, areaVars, gameVars, farVars
<1>1. ASSUME NEW t, NEW players, PortMpAttach(t, players)
      PROVE  InOrder'
  <2>1. phase = "game" /\ Moves /\ peers' = Opened(players) /\ self' = self
    BY <1>1 DEF PortMpAttach, Moves
  <2>2. ASSUME NEW u \in Units, NEW n \in Packets, u # self, ToOpen(u, n)'
        PROVE  n >= Limit
    <3>1. peers'[u].present /\ n >= Floor(u)'
      BY <2>1, <2>2 DEF ToOpen
    <3>2. Floor(u)' = frame
      BY <2>1, <3>1, OpenedType DEF Floor
    <3> QED
      BY <2>1, <3>1, <3>2 DEF Limit
  <2> QED
    BY <1>1, <2>1, <2>2, QuietInOrder DEF PortMpAttach
<1>2. CASE PortMpAttachRefused \/ PortMpDetach \/ NothingCalled \/ NormalMode
  <2>1. /\ UNCHANGED <<sendCounter, sendp, sendBuf, recvCounter, recvp, recvBuf, flag, got, self,
                       mltSend, peers>>
        /\ Moves
    BY <1>2 DEF PortMpAttachRefused, PortMpDetach, NothingCalled, NormalMode, GameCall, Moves
  <2> QED
    BY <2>1, QuietInOrder DEF ToOpen, Floor
<1>3. CASE MultiSioInit
  BY <1>3, RestartInOrder
<1>4. CASE MultiSioMain
  BY <1>4, MainInOrder
<1>5. CASE MultiBootMain
  <2>1. /\ UNCHANGED <<sendCounter, sendp, sendBuf, recvCounter, recvp, recvBuf, flag, got, self, peers>>
        /\ Moves /\ (mltSend' = mltSend \/ mltSend' = Hello)
    BY <1>5 DEF MultiBootMain, GameCall, Moves
  <2>2. Hello \in OtherWords
    BY DEF OtherWords
  <2> QED
    BY <2>1, <2>2, QuietInOrder DEF ToOpen, Floor
<1>6. CASE LobbyCounts \/ LobbyStarts
  <2>1. /\ UNCHANGED <<sendCounter, sendp, sendBuf, recvCounter, recvp, recvBuf, flag, got, self, peers>>
        /\ Moves /\ (mltSend' = SeqOf(count + 1) \/ mltSend' = LobbyStart)
    BY <1>6 DEF LobbyCounts, LobbyStarts, LobbyWord, GameCall, Moves
  <2>2. LobbyStart \in OtherWords /\ SeqOf(count + 1) \in OtherWords
    <3>1. SeqMin + ((count + 1) % Turn) \in Int
      BY PeerLobbyAssumption DEF WireType, Turn
    <3> QED
      BY <3>1 DEF SeqOf, OtherWords
  <2> QED
    BY <2>1, <2>2, QuietInOrder DEF ToOpen, Floor
<1>7. CASE PortMpFrame
  <2>1. /\ UNCHANGED <<sendCounter, sendp, sendBuf, recvCounter, recvp, recvBuf, flag, got, self, mltSend>>
        /\ phase = "present"
    BY <1>7 DEF PortMpFrame
  <2>2. Moves
    BY <1>7, <2>1, PollType DEF Moves
  <2>3. ASSUME NEW u \in Units, NEW n \in Packets, u # self, ToOpen(u, n)'
        PROVE  ToOpen(u, n) \/ n >= Limit
    <3>1. peers'[u].present /\ n >= Floor(u)'
      BY <2>1, <2>3 DEF ToOpen
    <3>2. CASE peers'[u] = peers[u]
      BY <2>3, <3>1, <3>2 DEF ToOpen, Floor
    <3>3. CASE peers'[u].packet = frame /\ peers'[u].at = -1
      <4>1. Floor(u)' = frame
        BY <3>3 DEF Floor
      <4> QED
        BY <2>1, <3>1, <4>1 DEF Limit
    <3> QED
      BY <1>7, <3>2, <3>3, PollType
  <2> QED
    BY <2>1, <2>2, <2>3, QuietInOrder
<1>8. CASE RunTransfer /\ handler = "multisio"
  BY <1>8, HeardInOrder
<1>9. CASE RunTransfer /\ handler # "multisio"
  <2>1. /\ UNCHANGED <<sendCounter, sendp, sendBuf, recvCounter, recvp, recvBuf, flag, got, self, mltSend>>
        /\ Moves /\ Exchange
    BY <1>9 DEF RunTransfer, Moves
  <2>2. \A u \in Units : \A n \in Packets : u # self /\ ToOpen(u, n)' => ToOpen(u, n)
    BY <2>1, FarStands
  <2> QED
    BY <2>1, <2>2, QuietInOrder
<1>10. CASE Stall \/ SlotsOver
  <2>1. /\ UNCHANGED <<sendCounter, sendp, sendBuf, recvCounter, recvp, recvBuf, flag, got, self,
                       mltSend, peers>>
        /\ Moves
    BY <1>10 DEF Stall, SlotsOver, NextFrame, Moves
  <2> QED
    BY <2>1, QuietInOrder DEF ToOpen, Floor
<1>11. CASE UNCHANGED vars
  <2>1. /\ UNCHANGED <<sendCounter, sendp, sendBuf, recvCounter, recvp, recvBuf, flag, got, self,
                       mltSend, peers>>
        /\ Moves
    BY <1>11 DEF vars, Moves
  <2> QED
    BY <2>1, QuietInOrder DEF ToOpen, Floor
<1> QED
  BY <1>1, <1>2, <1>3, <1>4, <1>5, <1>6, <1>7, <1>8, <1>9, <1>10, <1>11 DEF Next, AtBound

(* At the start nothing has been sent, and nothing is there. *)
LEMMA InitInOrder == Init => InOrder
<1> SUFFICES ASSUME Init PROVE InOrder
  OBVIOUS
<1>1. mltSend \in OtherWords /\ sendCounter = 0 /\ Limit = 1 /\ frame = 1
  BY DEF Init, OtherWords, Limit
<1>2. \A n : mltSend # Halfword(self, n, 0)
  BY <1>1, OthersAreNoHalfwords
<1>3. \A n \in Packets : ~Queued(n)
  BY DEF Init, Queued, Packets, NoPacket
<1>4. ASSUME NEW u \in Units PROVE UnitInOrder(u)
  <2>1. got[u] = 0 /\ ~flag[u] /\ recvCounter[u] = 0 /\ ~peers[u].present
    BY DEF Init, NoPacket, NoPeer
  <2>2. \A n \in Packets : ~Had(u, n) /\ ~Begun(u, n) /\ ~ToOpen(u, n)
    BY <1>2, <1>3, <2>1 DEF Had, Begun, ToOpen
  <2> QED
    BY <1>1, <2>1, <2>2 DEF UnitInOrder
<1> QED
  BY <1>2, <1>3, <1>4 DEF InOrder, OwnInOrder

(* No packet is handed to the game twice, or after a later one, whatever   *)
(* stalled, was restarted, or was detached and attached on the way.        *)
THEOREM PacketsOnceInOrder == Spec => EachPacketOnce
<1>1. WireType /\ InOrder /\ [Next]_vars =>
        [sendBuf' # sendBuf => \A u \in Units : inbox'[u] # NoPacket => inbox'[u] > got[u]]_vars
  <2> SUFFICES ASSUME WireType, InOrder, [Next]_vars, sendBuf' # sendBuf,
                      NEW u \in Units, inbox'[u] # NoPacket
               PROVE  inbox'[u] > got[u]
    OBVIOUS
  <2>1. MultiSioMain \/ MultiSioInit
    BY DEF Next, PortMpAttach, PortMpAttachRefused, PortMpDetach, NothingCalled,
           NormalMode, MultiBootMain, LobbyCounts, LobbyStarts, LobbyWord, PortMpFrame, RunTransfer,
           MultiSioIntr, Stall, SlotsOver, AtBound, vars, gameVars, areaVars
  <2>2. MultiSioMain
    BY <2>1 DEF MultiSioInit
  <2>3. Had(u, inbox'[u]) /\ inbox'[u] \in Packets
    BY <2>2, TakenIsLater
  <2>4. inbox'[u] \in Nat /\ got[u] \in Nat
    BY <2>2, MainType DEF WireType
  <2> QED
    BY <2>3, <2>4 DEF InOrder, UnitInOrder
<1> QED
  BY InitWireType, WireTypeStep, InitInOrder, InOrderStep, <1>1, PTL DEF Spec, EachPacketOnce

(* --- the probe ---------------------------------------------------------- *)

(* Once the session has carried a hello the registers hold the answer of   *)
(* every far end that is there, and of nobody else.                        *)
Probed ==
  carried = Hello /\ transport = "loopback" =>
    \A u \in Units \ {0} : IsClientReply(multi[u]) <=> peers[u].present

(* What the cable carries of a hello.                                      *)
LEMMA HelloAnswered ==
  ASSUME WireType, phase = "slots", transport = "loopback", mltSend = Hello, NEW u \in Units \ {0}
  PROVE  IsClientReply(OnTheBus[u]) <=> peers[u].present
<1>1. link.self = self /\ ~peers[self].present
  BY DEF WireType
<1>2. CASE u = self
  <2>1. OnTheBus[u] = Hello
    BY <1>1, <1>2 DEF OnTheBus
  <2> QED
    BY <1>1, <1>2, <2>1 DEF IsClientReply, Hello
<1>3. CASE u # self /\ ~peers[u].present
  <2>1. OnTheBus[u] = Empty
    BY <1>1, <1>3 DEF OnTheBus
  <2> QED
    BY <1>3, <2>1 DEF IsClientReply, Empty
<1>4. CASE u # self /\ peers[u].present
  <2>1. PeerReply(u) = SameGame(u)
    <3>1. PeerReply(u) = Reply(lobby[u], u, Hello) /\ u # 0
      BY DEF PeerReply
    <3>2. Reply(lobby[u], u, Hello) = SameGame(u)
      BY <3>1 DEF Reply
    <3> QED
      BY <3>1, <3>2
  <2>2. SameGame(u) # Empty
    BY DEF SameGame, Empty
  <2>3. OnTheBus[u] = SameGame(u)
    BY <1>1, <1>4, <2>1, <2>2 DEF OnTheBus
  <2> QED
    BY <1>4, <2>3 DEF IsClientReply, SameGame
<1> QED
  BY <1>2, <1>3, <1>4

(* Every step keeps it so.                                                 *)
LEMMA ProbedStep == WireType /\ Probed /\ [Next]_vars => Probed'
<1> SUFFICES ASSUME WireType, Probed, [Next]_vars PROVE Probed'
  OBVIOUS
<1>1. CASE carried' = Empty
  BY <1>1 DEF Probed, Empty, Hello
<1>2. CASE RunTransfer
  <2>1. phase = "slots" /\ Exchange /\ multi' = OnTheBus /\ carried' = mltSend /\ transport' = transport
    BY <1>2 DEF RunTransfer, linkVars
  <2>2. \A u \in Units : peers'[u].present = peers[u].present
    BY <2>1, ExchangeType
  <2> QED
    BY <2>1, <2>2, HelloAnswered DEF Probed
<1>3. CASE PortMpFrame
  <2>1. UNCHANGED <<carried, transport, multi>>
    BY <1>3 DEF PortMpFrame, lobbyVars
  <2> QED
    BY <1>3, <2>1, PollType DEF Probed
<1>4. CASE UNCHANGED <<carried, transport, multi, peers>>
  BY <1>4 DEF Probed
<1> QED
  BY <1>1, <1>2, <1>3, <1>4
  DEF Next, PortMpAttach, PortMpAttachRefused, PortMpDetach, NothingCalled, MultiSioInit, MultiSioMain,
      NormalMode, MultiBootMain, LobbyCounts, LobbyStarts, LobbyWord, Stall, SlotsOver,
      AtBound, vars, linkVars, sioVars, farVars, lobbyVars

(* A probe that follows one the session has carried takes for clients      *)
(* exactly the units that are there: MultiBootMain, for any session.       *)
THEOREM ProbeFindsClients == Spec => ClientsAreThere
<1>1. Init => Probed
  BY DEF Init, Probed, Empty, Hello
<1>2. WireType /\ Started /\ Probed /\ [Next]_vars =>
        [(carried = Hello /\ transport = "loopback" /\ handler' = "lobby"
          /\ ~cnt.start /\ cnt'.start /\ mltSend' = Hello) => clientBit' = Present \ {0}]_vars
  <2> SUFFICES ASSUME WireType, Started, Probed, Next, carried = Hello, transport = "loopback", handler' = "lobby",
                      ~cnt.start, cnt'.start, mltSend' = Hello
               PROVE  clientBit' = Present \ {0}
    BY DEF vars, sioVars
  <2>1. ~RunTransfer
    <3> SUFFICES ASSUME RunTransfer PROVE FALSE
      OBVIOUS
    <3>1. handler # "multisio"
      BY DEF RunTransfer, MultiSioIntr
    <3>2. cnt' = [cnt EXCEPT !.start = FALSE] /\ cnt \in Registers
      BY <3>1 DEF RunTransfer, Started
    <3> QED
      BY <3>2 DEF Registers
  <2>2. ~PortMpFrame
    <3> SUFFICES ASSUME PortMpFrame PROVE FALSE
      OBVIOUS
    <3>1. cnt' = cnt \/ cnt' = [cnt EXCEPT !.sd = link'.up, !.id = link'.self]
      BY DEF PortMpFrame, RefreshStatus
    <3> QED
      BY <3>1 DEF Started, Registers
  <2>3. ~LobbyCounts /\ ~LobbyStarts
    BY DEF LobbyCounts, LobbyStarts, LobbyWord, SeqOf, Seq, LobbyStart, Hello
  <2>4. ~MultiSioMain /\ ~MultiSioInit
    BY DEF MultiSioMain, MultiSioInit
  <2>5. ~NormalMode
    <3> SUFFICES ASSUME NormalMode PROVE FALSE
      OBVIOUS
    <3>1. cnt' = [cnt EXCEPT !.multi = FALSE, !.start = FALSE] /\ cnt \in Registers
      BY DEF NormalMode, Started
    <3> QED
      BY <3>1 DEF Registers
  <2>6. MultiBootMain
    BY <2>1, <2>2, <2>3, <2>4, <2>5
    DEF Next, PortMpAttach, PortMpAttachRefused, PortMpDetach, NothingCalled, Stall, AfterStall, SlotsOver,
        AtBound, vars, sioVars
  <2>7. clientBit' = Clients
    BY <2>6 DEF MultiBootMain
  <2>8. Clients = {u \in Units \ {0} : peers[u].present}
    BY DEF Clients, Probed
  <2> QED
    BY <2>7, <2>8 DEF Present
<1>3. Init => Started
  <2>1. Cleared \in Registers
    BY DownType DEF Cleared, Registers
  <2> QED
    BY <2>1 DEF Init, Started
<1> QED
  BY InitWireType, WireTypeStep, StartedStep, ProbedStep, <1>1, <1>2, <1>3, PTL DEF Spec, ClientsAreThere

(* --- the lobby ---------------------------------------------------------- *)

(* Division. *)
LEMMA Divided ==
  ASSUME NEW n \in Nat, NEW t \in Nat \ {0}
  PROVE  n % t \in 0 .. t - 1 /\ \E q \in Int : n = t * q + (n % t)
<1>1. n \div t \in Int /\ n = t * (n \div t) + (n % t) /\ n % t \in 0 .. t - 1
  OBVIOUS
<1> QED
  BY <1>1

(* A multiple that is nearer to zero than what it is a multiple of is zero. *)
LEMMA NearMultiple ==
  ASSUME NEW t \in Nat \ {0}, NEW k \in Int, t * k < t, t * k > -t
  PROVE  k = 0
<1>1. CASE k >= 1
  BY <1>1
<1>2. CASE k <= -1
  BY <1>2
<1> QED
  BY <1>1, <1>2

(* Two counts less than a turn apart that look alike are the same. *)
LEMMA NearCounts ==
  ASSUME NEW n \in Nat, NEW m \in Nat, NEW t \in Nat \ {0}, n - m < t, m - n < t, n % t = m % t
  PROVE  n = m
<1> DEFINE r == n % t
<1>1. PICK a \in Int : n = t * a + r
  BY Divided
<1>2. PICK b \in Int : m = t * b + r
  BY Divided
<1>3. r \in Int
  BY Divided
<1> HIDE DEF r
<1>4. n - m = t * (a - b)
  BY <1>1, <1>2, <1>3
<1>5. a - b = 0
  BY <1>4, NearMultiple
<1>6. n - m = 0
  BY <1>4, <1>5
<1> QED
  BY <1>6

(* The remainder of the next number. *)
LEMMA NextRemainder ==
  ASSUME NEW n \in Nat, NEW t \in Nat \ {0}
  PROVE  (n + 1) % t = IF (n % t) + 1 < t THEN (n % t) + 1 ELSE 0
<1> DEFINE r == n % t
           s == (n + 1) % t
<1>1. PICK a \in Int : n = t * a + r
  BY Divided
<1>2. n + 1 \in Nat
  OBVIOUS
<1>3. PICK b \in Int : n + 1 = t * b + s
  BY <1>2, Divided
<1>4. r \in 0 .. t - 1 /\ s \in 0 .. t - 1
  BY <1>2, Divided
<1> SUFFICES s = IF r + 1 < t THEN r + 1 ELSE 0
  OBVIOUS
<1> HIDE DEF r, s
<1>5. t * (b - a) = r + 1 - s
  BY <1>1, <1>3, <1>4
<1>6. CASE r + 1 < t
  <2>1. b - a = 0
    BY <1>4, <1>5, <1>6, NearMultiple
  <2>2. r + 1 - s = 0
    BY <1>5, <2>1
  <2> QED
    BY <1>4, <1>6, <2>2
<1>7. CASE r + 1 = t
  <2>1. t * (b - a - 1) = -s
    BY <1>4, <1>5, <1>7
  <2>2. b - a - 1 = 0
    BY <1>4, <2>1, NearMultiple
  <2>3. -s = 0
    BY <2>1, <2>2
  <2> QED
    BY <1>4, <1>7, <2>3
<1> QED
  BY <1>4, <1>6, <1>7

(* The peer's step of the sequence is the master's, over the wrap too. *)
LEMMA NextInTurn ==
  ASSUME NEW n \in Nat
  PROVE  NextSeq(SeqMin + (n % Turn)) = SeqMin + ((n + 1) % Turn)
<1>1. Turn \in Nat \ {0} /\ SeqMask + 1 = SeqMin + Turn /\ SeqMin \in Nat \ {0} /\ SeqMask \in Nat
  BY PeerLobbyAssumption DEF Turn
<1>2. PICK r \in 0 .. Turn - 1 : r = n % Turn
  BY <1>1, Divided
<1>3. (n + 1) % Turn = IF r + 1 < Turn THEN r + 1 ELSE 0
  BY <1>1, <1>2, NextRemainder
<1>4. (SeqMin + r + 1) % (SeqMask + 1) = IF r + 1 < Turn THEN SeqMin + r + 1 ELSE 0
  <2>1. SeqMin + r \in Nat /\ SeqMask + 1 \in Nat \ {0} /\ SeqMin + r < SeqMask + 1
    BY <1>1
  <2>2. (SeqMin + r) % (SeqMask + 1) = SeqMin + r
    BY <2>1
  <2>3. (SeqMin + r + 1) % (SeqMask + 1) =
          IF (SeqMin + r) + 1 < SeqMask + 1 THEN SeqMin + r + 1 ELSE 0
    BY <2>1, <2>2, NextRemainder
  <2> QED
    BY <1>1, <2>3
<1> QED
  BY <1>1, <1>2, <1>3, <1>4 DEF NextSeq

(* What follows the last word heard is the next of the counter, as long as *)
(* no whole turn was missed.                                               *)
LEMMA NextIsNext ==
  ASSUME NEW h \in Nat, NEW n \in Nat, h <= n, n - h <= Turn
  PROVE  SeqOf(n)[2] = NextSeq(SeqOf(h)[2]) <=> n = h + 1
<1>1. Turn \in Nat \ {0, 1} /\ SeqMin \in Nat
  BY PeerLobbyAssumption DEF Turn
<1>2. SeqOf(n)[2] = SeqMin + (n % Turn) /\ NextSeq(SeqOf(h)[2]) = SeqMin + ((h + 1) % Turn)
  BY NextInTurn DEF SeqOf, Seq
<1>3. h + 1 \in Nat /\ n % Turn \in Int /\ (h + 1) % Turn \in Int
  BY <1>1, Divided
<1>4. ASSUME n % Turn = (h + 1) % Turn PROVE n = h + 1
  <2>1. PICK m \in Nat, t \in Nat \ {0} : m = h + 1 /\ t = Turn /\ n - m < t /\ m - n < t
    BY <1>1, <1>3
  <2>2. n % t = m % t
    BY <1>4, <2>1
  <2>3. n = m
    BY <2>1, <2>2, NearCounts, Zenon
  <2> QED
    BY <2>1, <2>3
<1>5. n = h + 1 => n % Turn = (h + 1) % Turn
  OBVIOUS
<1>6. \A x, y \in Int : SeqMin + x = SeqMin + y <=> x = y
  BY <1>1
<1>7. SeqMin + (n % Turn) = SeqMin + ((h + 1) % Turn) <=> n % Turn = (h + 1) % Turn
  BY <1>3, <1>6, Zenon
<1> QED
  BY <1>2, <1>4, <1>5, <1>7, Zenon

Stands == [phase : LobbyPhases, lastSeq : Words, settled : Nat, haveSeq : BOOLEAN]

(* The low bits of what a stand-in remembers. *)
LowOf(before) == IF before[1] = "count" THEN Low(SeqOf(before[2])) ELSE before[2]

(* A stand-in counts the steps it has heard. *)
InStep(u) ==
  lobby[u].phase = "lobby" =>
    /\ lobby[u].settled = climb[u]
    /\ lobby[u].haveSeq <=> heard[u] # Unheard
    /\ lobby[u].haveSeq => Low(lobby[u].lastSeq) = LowOf(heard[u])

(* It has answered as it counts. *)
Answered(u) ==
  peers[u].present /\ lobby[u].phase = "lobby" =>
    (multi[u] = ChildReady <=> lobby[u].settled > SettleFrames)

(* A word of the lobby's counter on its way is the counter's. *)
OnCount == mltSend[1] = "seq" => count > 0 /\ mltSend = SeqOf(count)

LobbyInv ==
  /\ lobby \in [Units -> Stands] /\ climb \in [Units -> Nat]
  /\ \A u \in Units : heard[u][1] = "count" =>
       heard[u][2] \in Nat /\ heard[u][2] <= count /\ count - heard[u][2] <= Turn
  /\ OnCount
  /\ \A u \in Units \ {0} : InStep(u)
  /\ transport = "loopback" /\ carried \notin {Empty, Hello, LobbyStart} => \A u \in Units \ {0} : Answered(u)

(* What a stand-in makes of a word. *)
LEMMA PeerAfterType ==
  ASSUME NEW p \in Stands, NEW u, NEW w \in Words
  PROVE  PeerAfter(p, u, w) \in Stands
<1>1. Followed(p, w) \in Stands
  <2>1. p.settled + 1 \in Nat /\ 0 \in Nat
    BY DEF Stands
  <2>2. ASSUME NEW n \in Nat
        PROVE  [p EXCEPT !.settled = n, !.lastSeq = w, !.haveSeq = TRUE] \in Stands
    BY DEF Stands
  <2> QED
    BY <2>1, <2>2 DEF Followed
<1>2. /\ [p EXCEPT !.phase = "lobby", !.settled = 0, !.haveSeq = FALSE] \in Stands
      /\ [p EXCEPT !.phase = "playing"] \in Stands
  BY DEF Stands, LobbyPhases
<1>3. Hello # LobbyStart
  BY DEF Hello, LobbyStart
<1> QED
  BY <1>1, <1>2, <1>3 DEF PeerAfter

(* A transfer: the stand-in that is in the lobby hears the counter.        *)
LEMMA StandInHears ==
  ASSUME WireType, LobbyInv, RunTransfer, NEW u \in Units \ {0}
  PROVE  InStep(u)' /\ (transport = "loopback" /\ mltSend \notin {Hello, LobbyStart} => Answered(u)')
<1>1. /\ lobby'[u] = IF StandsIn(u) THEN PeerAfter(lobby[u], u, mltSend) ELSE lobby[u]
      /\ multi' = OnTheBus /\ count' = count /\ link.self = self
      /\ peers'[u].present = peers[u].present
  <2>1. Exchange /\ phase = "slots"
    BY DEF RunTransfer
  <2>2. peers'[u].present = peers[u].present
    BY <2>1, ExchangeType
  <2>3. lobby'[u] = IF StandsIn(u) THEN PeerAfter(lobby[u], u, mltSend) ELSE lobby[u]
    BY <2>1 DEF Exchange
  <2> QED
    BY <2>1, <2>2, <2>3 DEF RunTransfer, WireType
<1>2. /\ lobby[u] \in Stands /\ climb[u] \in Nat /\ InStep(u)
      /\ count \in Nat /\ mltSend \in Words /\ ~peers[self].present
  BY DEF LobbyInv, WireType
<1>3. CASE ~StandsIn(u)
  <2>1. lobby'[u] = lobby[u] /\ heard'[u] = heard[u] /\ climb'[u] = climb[u]
    BY <1>1, <1>3 DEF RunTransfer
  <2>2. InStep(u)'
    BY <1>1, <1>2, <2>1 DEF InStep
  <2>3. transport = "loopback" => Answered(u)'
    BY <1>1, <1>3 DEF StandsIn, Answered
  <2> QED
    BY <2>2, <2>3
<1>4. CASE StandsIn(u)
  <2>1. heard'[u] = Remembered
    BY <1>4 DEF RunTransfer
  <2>2. climb'[u] = IF Climbs(heard[u]) THEN climb[u] + 1 ELSE 0
    BY <1>4 DEF RunTransfer
  <2>3. u # 0 /\ u # self /\ transport = "loopback" /\ peers[u].present
    BY <1>2, <1>4 DEF StandsIn
  <2>4. Hello # SeqOf(count) /\ Hello[1] # "seq" /\ Hello # LobbyStart /\ LobbyStart[1] # "seq"
    BY DEF Hello, SeqOf, Seq, LobbyStart
  <2>5. CASE mltSend = Hello
    <3>1. lobby'[u] = [lobby[u] EXCEPT !.phase = "lobby", !.settled = 0, !.haveSeq = FALSE]
      BY <1>1, <1>4, <2>3, <2>5 DEF PeerAfter
    <3>2. lobby'[u].settled = 0 /\ ~lobby'[u].haveSeq
      BY <1>2, <3>1 DEF Stands
    <3>3. heard'[u] = Unheard /\ climb'[u] = 0
      BY <2>1, <2>2, <2>4, <2>5 DEF Remembered, Climbs
    <3> QED
      BY <2>5, <3>2, <3>3 DEF InStep
  <2>6. CASE mltSend # Hello /\ (mltSend = LobbyStart \/ lobby[u].phase # "lobby")
    <3>1. lobby'[u] = IF mltSend = LobbyStart THEN [lobby[u] EXCEPT !.phase = "playing"] ELSE lobby[u]
      BY <1>1, <1>4, <2>3, <2>6 DEF PeerAfter
    <3>2. lobby'[u].phase # "lobby"
      BY <1>2, <2>6, <3>1 DEF Stands
    <3> QED
      BY <3>2 DEF InStep, Answered
  <2>7. CASE mltSend # Hello /\ mltSend # LobbyStart /\ lobby[u].phase = "lobby"
    <3>1. lobby'[u] = Followed(lobby[u], mltSend)
      BY <1>1, <1>4, <2>3, <2>7 DEF PeerAfter
    <3>2. /\ lobby'[u].settled = IF Follows(lobby[u], mltSend) THEN lobby[u].settled + 1 ELSE 0
          /\ lobby'[u].lastSeq = mltSend /\ lobby'[u].haveSeq
      BY <1>2, <3>1 DEF Followed, Stands
    <3>3. mltSend[1] = "seq" => mltSend = SeqOf(count) /\ count > 0
      BY DEF LobbyInv, OnCount
    <3>4. Follows(lobby[u], mltSend) <=> Climbs(heard[u])
      <4>1. /\ lobby[u].haveSeq <=> heard[u] # Unheard
            /\ lobby[u].haveSeq => Low(lobby[u].lastSeq) = LowOf(heard[u])
        BY <2>7 DEF InStep, LobbyInv
      <4>2. CASE heard[u] = Unheard
        BY <4>1, <4>2 DEF Follows, Climbs
      <4>3. CASE heard[u] # Unheard /\ heard[u][1] = "count" /\ mltSend = SeqOf(count)
        <5>1. PICK h \in Nat : h = heard[u][2] /\ h <= count /\ count - h <= Turn
          BY <4>3 DEF LobbyInv
        <5>2. SeqOf(count)[2] = NextSeq(SeqOf(h)[2]) <=> count = h + 1
          BY <1>2, <5>1, NextIsNext
        <5>3. Low(SeqOf(count)) = SeqOf(count)[2] /\ Low(SeqOf(h)) = SeqOf(h)[2]
          BY DEF Low, SeqOf, Seq
        <5>4. count = h + 1 <=> h = count - 1
          BY <1>2
        <5>5. Follows(lobby[u], mltSend) <=> Low(SeqOf(count)) = NextSeq(Low(SeqOf(h)))
          BY <4>1, <4>3, <5>1 DEF Follows, LowOf
        <5>6. Climbs(heard[u]) <=> h = count - 1
          BY <2>7, <4>3, <5>1 DEF Climbs
        <5> QED
          BY <5>2, <5>3, <5>4, <5>5, <5>6
      <4>4. CASE heard[u] # Unheard /\ ~(heard[u][1] = "count" /\ mltSend = SeqOf(count))
        BY <2>7, <4>1, <4>4 DEF Follows, Climbs, LowOf
      <4> QED
        BY <4>2, <4>3, <4>4
    <3>5. lobby'[u].settled = climb'[u]
      BY <2>2, <2>7, <3>2, <3>4 DEF InStep, LobbyInv
    <3>6. InStep(u)'
      <4>1. heard'[u] # Unheard
        BY <2>1, <2>7 DEF Remembered, Unheard
      <4>2. Low(mltSend) = LowOf(heard[u])'
        <5>1. CASE mltSend = SeqOf(count)
          BY <1>1, <2>1, <2>7, <5>1 DEF Remembered, LowOf
        <5>2. CASE mltSend # SeqOf(count)
          BY <1>1, <2>1, <2>7, <3>3, <5>2 DEF Remembered, LowOf, Low
        <5> QED
          BY <5>1, <5>2
      <4> QED
        BY <3>2, <3>5, <4>1, <4>2 DEF InStep
    <3>7. Answered(u)'
      <4>1. PeerReply(u) = Reply(lobby[u], u, mltSend)
        BY <2>3 DEF PeerReply
      <4>2. Reply(lobby[u], u, mltSend) =
                IF Followed(lobby[u], mltSend).settled > SettleFrames THEN ChildReady ELSE ChildAlive
        BY <2>3, <2>7 DEF Reply
      <4>3. ChildReady # ChildAlive /\ ChildReady # Empty /\ ChildAlive # Empty
        BY DEF ChildReady, ChildAlive, Empty
      <4>4. multi'[u] = PeerReply(u)
        BY <1>1, <2>3, <4>1, <4>2, <4>3 DEF OnTheBus
      <4> QED
        BY <3>1, <4>1, <4>2, <4>3, <4>4 DEF Answered
    <3> QED
      BY <3>6, <3>7
  <2> QED
    BY <2>5, <2>6, <2>7
<1> QED
  BY <1>3, <1>4

(* Every step keeps it so. *)
LEMMA LobbyStep == WireType /\ LobbyInv /\ [Next]_vars => LobbyInv'
<1> SUFFICES ASSUME WireType, LobbyInv, [Next]_vars PROVE LobbyInv'
  OBVIOUS
<1> USE DEF linkVars, sioVars, areaVars, gameVars, farVars, lobbyVars
<1>1. CASE RunTransfer
  <2>1. Exchange /\ phase = "slots" /\ carried' = mltSend /\ UNCHANGED <<count, transport>>
    BY <1>1 DEF RunTransfer
  <2>2. lobby' \in [Units -> Stands]
    BY <2>1, PeerAfterType DEF Exchange, LobbyInv, WireType
  <2>3. climb' \in [Units -> Nat]
    BY <1>1 DEF RunTransfer, LobbyInv, WireType
  <2>4. ASSUME NEW u \in Units, heard'[u][1] = "count"
        PROVE  heard'[u][2] \in Nat /\ heard'[u][2] <= count' /\ count' - heard'[u][2] <= Turn
    <3>1. heard'[u] = heard[u] \/ heard'[u] = <<"count", count>>
      <4>1. heard'[u] = heard[u] \/ heard'[u] = Remembered
        BY <1>1 DEF RunTransfer
      <4> QED
        BY <2>4, <4>1 DEF Remembered, Unheard
    <3>2. Turn \in Nat /\ count \in Nat
      BY PeerLobbyAssumption DEF Turn, WireType
    <3> QED
      BY <2>1, <2>4, <3>1, <3>2 DEF LobbyInv
  <2>5. OnCount'
    <3>1. CASE handler = "multisio"
      <4>1. mltSend' = WordAt(sendCounter, link.self, sendBuf[sendp.current])
        BY <1>1, <3>1 DEF RunTransfer, MultiSioIntr
      <4>2. mltSend'[1] # "seq"
        BY <4>1 DEF WordAt, Sync, Halfword
      <4> QED
        BY <4>2 DEF OnCount
    <3>2. CASE handler # "multisio"
      <4>1. mltSend' = mltSend
        BY <1>1, <3>2 DEF RunTransfer
      <4> QED
        BY <2>1, <4>1 DEF OnCount, LobbyInv
    <3> QED
      BY <3>1, <3>2
  <2>6. \A u \in Units \ {0} :
          InStep(u)' /\ (transport = "loopback" /\ mltSend \notin {Hello, LobbyStart} => Answered(u)')
    BY <1>1, StandInHears
  <2> QED
    BY <2>1, <2>2, <2>3, <2>4, <2>5, <2>6 DEF LobbyInv
<1>2. CASE LobbyCounts
  <2>1. /\ count' = count + 1 /\ mltSend' = SeqOf(count')
        /\ \A u \in Units : heard[u][1] = "count" => count' - heard[u][2] <= Turn
        /\ UNCHANGED <<lobby, heard, climb, carried, transport, multi, peers>>
    BY <1>2 DEF LobbyCounts, LobbyWord
  <2>2. OnCount'
    BY <2>1 DEF OnCount, WireType
  <2>3. \A u \in Units : heard'[u][1] = "count" =>
          heard'[u][2] \in Nat /\ heard'[u][2] <= count' /\ count' - heard'[u][2] <= Turn
    BY <2>1 DEF LobbyInv, WireType
  <2>4. \A u \in Units \ {0} : InStep(u)'
    BY <2>1 DEF LobbyInv, InStep
  <2>5. transport' = "loopback" /\ carried' \notin {Empty, Hello, LobbyStart} => \A u \in Units \ {0} : Answered(u)'
    BY <2>1 DEF LobbyInv, Answered
  <2> QED
    BY <2>1, <2>2, <2>3, <2>4, <2>5 DEF LobbyInv
<1>3. CASE UNCHANGED <<lobby, heard, climb, count>> /\ (UNCHANGED mltSend \/ mltSend' \in {Hello, LobbyStart})
           /\ (carried' = Empty \/ (UNCHANGED <<carried, transport, multi>>
                                    /\ \A u \in Units : peers'[u].present = peers[u].present))
  <2>1. OnCount'
    BY <1>3 DEF LobbyInv, OnCount, Hello, LobbyStart
  <2>2. transport' = "loopback" /\ carried' \notin {Empty, Hello, LobbyStart} => \A u \in Units \ {0} : Answered(u)'
    BY <1>3 DEF LobbyInv, Answered, Empty
  <2>3. \A u \in Units \ {0} : InStep(u)'
    BY <1>3 DEF LobbyInv, InStep
  <2> QED
    BY <1>3, <2>1, <2>2, <2>3 DEF LobbyInv
<1>4. CASE PortMpFrame
  BY <1>3, <1>4, PollType DEF PortMpFrame
<1> QED
  BY <1>1, <1>2, <1>3, <1>4
  DEF Next, PortMpAttach, PortMpAttachRefused, PortMpDetach, NothingCalled, MultiSioInit, MultiSioMain,
      NormalMode, MultiBootMain, LobbyStarts, LobbyWord, Stall, SlotsOver, AtBound, vars

(* The stand-in peer (PortMpPeerLobbyReply) says it is settled exactly when *)
(* it has heard more than SettleFrames steps since it was recognised: for  *)
(* any range of the counter, any settle time, and whatever low bits the    *)
(* words of the game have that reach it in its lobby phase, which count as *)
(* steps if those are the counter's next.                                  *)
THEOREM SettlesAsItHears == Spec => []SettledAsHeard
<1>1. Init => LobbyInv
  <2> SUFFICES ASSUME Init PROVE LobbyInv
    OBVIOUS
  <2>1. lobby \in [Units -> Stands]
    BY NothingType DEF Init, NotRecognised, Stands, LobbyPhases
  <2>2. /\ heard = [u \in Units |-> Unheard] /\ climb = [u \in Units |-> 0]
        /\ mltSend = Empty /\ carried = Empty /\ lobby = [u \in Units |-> NotRecognised]
    BY DEF Init
  <2>3. OnCount
    BY <2>2 DEF OnCount, Empty
  <2>5. \A u \in Units : heard[u][1] # "count"
    BY <2>2 DEF Unheard
  <2>4. \A u \in Units : lobby[u].phase # "lobby"
    BY <2>2 DEF NotRecognised
  <2> QED
    BY <2>1, <2>2, <2>3, <2>4, <2>5 DEF LobbyInv, InStep
<1>2. LobbyInv => SettledAsHeard
  BY DEF LobbyInv, SettledAsHeard, Present, InStep, Answered
<1> QED
  BY InitWireType, WireTypeStep, LobbyStep, <1>1, <1>2, PTL DEF Spec

(* --- two whole frames --------------------------------------------------- *)

(* No stand-in has been left in the lobby, where it answers for the peer. *)
NobodyInLobby == \A u \in Units : lobby[u].phase # "lobby"

Plain(w) == w \notin {Sync, Hello, LobbyStart}

(* Whoever receives is past the end of a packet, and waits for a sync. *)
Waiting ==
  /\ Plain(mltSend)
  /\ \A u \in Units : recvCounter[u] > LastHw
  /\ \A u \in Present : peers[u].recvAt > LastHw

(* After k transfers of a frame whoever receives has come at least so far, *)
(* and after the first two there is no sync left on the cable.             *)
AtLeast(c, k) == c >= k - 2 \/ c > LastHw
Filling(k) ==
  /\ k >= 1 => sendCounter >= 0 /\ mltSend \notin {Hello, LobbyStart}
  /\ k >= 2 => mltSend # Sync /\ \A u \in Present : peers[u].at >= 0
  /\ \A u \in Units : AtLeast(recvCounter[u], k)
  /\ \A u \in Present : AtLeast(peers[u].recvAt, k)

(* A counter that starts at -1, after n steps. *)
After(n) == IF n <= PacketHw THEN n - 1 ELSE PacketHw - 1

(* After j words of packet n, the sync word the first. *)
Along(j, c, b, u, n) ==
  IF j <= 0 THEN c > LastHw ELSE c = j - 1 /\ \A i \in 0 .. j - 2 : b[i] = Halfword(u, n, i)

(* The word that comes next of it, or one that means nothing before it. *)
ComesNext(w, j, u, n) == IF j < 0 THEN w # Sync ELSE w = WordAt(After(j), u, n)

HeardOf(u, j) ==
  IF j <= LastHw + 1 THEN Along(j, recvCounter[u], recvBuf[u][recvp[u].current], u, frame)
  ELSE recvCounter[u] > LastHw /\ flag[u] /\ PacketIn(recvBuf[u][recvp[u].last], u) = frame

HeardBy(u, j) ==
  IF j <= LastHw + 1 THEN Along(j, peers[u].recvAt, peers[u].recvBuf, self, frame)
  ELSE peers[u].recvAt > LastHw /\ peers[u].payload = frame

(* The second of two whole frames, after k transfers: our own stream is a  *)
(* transfer behind that of the others.                                     *)
Streaming(k) ==
  /\ sendCounter = After(k)
  /\ IF k = 0 THEN sendBuf[sendp.next] = frame /\ Plain(mltSend)
              ELSE sendBuf[sendp.current] = frame /\ mltSend = WordAt(After(k - 1), self, frame)
  /\ HeardOf(self, k - 1)
  /\ \A u \in Present : /\ peers[u].packet = frame /\ peers[u].at = After(k)
                        /\ HeardOf(u, k) /\ HeardBy(u, k - 1)

RealignInv ==
  /\ slot \in Nat /\ slot <= Slots /\ (phase # "slots" => slot = 0) /\ whole \in Nat
  /\ phase = "slots" /\ handler = "multisio" => Filling(slot)
  /\ phase = "game" /\ handler = "multisio" /\ whole >= 1 => Waiting
  /\ phase # "game" /\ whole >= 1 => handler = "multisio"
  /\ phase = "present" /\ whole >= 1 => Waiting /\ sendCounter = -1 /\ sendBuf[sendp.next] = frame
  /\ phase = "slots" /\ whole >= 1 => Streaming(slot)
  /\ TwoFramesRealign

(* One word of a packet, heard in its turn: until the last real halfword   *)
(* the receiver is one further along, there it has the packet, and after   *)
(* it the overrun is passed over.                                          *)
LEMMA WordHeard ==
  ASSUME NEW j \in Int, j >= -1, NEW c \in Counters, NEW b \in [Data -> Words],
         NEW u \in Units, NEW n \in Nat \ {0}, NEW w \in Words, ComesNext(w, j, u, n)
  PROVE  /\ j <= LastHw /\ Along(j, c, b, u, n) =>
              /\ Along(j + 1, Received(c, w), Stored(b, c, w), u, n)
              /\ ~Completes(c, w)
         /\ j = LastHw + 1 /\ Along(j, c, b, u, n) =>
              /\ Completes(c, w) /\ Received(c, w) > LastHw
              /\ PacketIn(Stored(b, c, w), u) = n
         /\ j > LastHw + 1 /\ c > LastHw =>
              /\ ~Completes(c, w) /\ Received(c, w) > LastHw /\ Stored(b, c, w) = b
<1>1. LastHw \in Nat \ {0} /\ PacketHw = LastHw + 3 /\ Counters = -1 .. LastHw + 2 /\ Data = 0 .. LastHw
  BY MultiSioAssumption DEF LastHw, Counters, Data
<1>2. \A i : Halfword(u, n, i) # Sync
  BY DEF Halfword, Sync
<1>3. CASE j = -1
  <2>1. w # Sync
    BY <1>3 DEF ComesNext
  <2>2. c > LastHw => Received(c, w) > LastHw /\ ~Completes(c, w)
    BY <1>1, <2>1 DEF Received, Realigns, Stepped, Completes
  <2> QED
    BY <1>1, <1>3, <2>2 DEF Along
<1>4. CASE j = 0
  <2>1. w = Sync
    BY <1>1, <1>4 DEF ComesNext, After, WordAt
  <2>2. c > LastHw => Received(c, w) = 0 /\ ~Completes(c, w)
    BY <1>1, <2>1 DEF Received, Realigns, Stepped, Completes
  <2> QED
    BY <1>1, <1>4, <2>2 DEF Along
<1>5. CASE j > 0
  <2>1. After(j) >= 0 /\ (j <= LastHw + 1 => After(j) = j - 1)
    BY <1>1, <1>5 DEF After
  <2>2. w = Halfword(u, n, After(j)) /\ w # Sync
    BY <1>2, <1>5, <2>1 DEF ComesNext, WordAt
  <2>3. Received(c, w) = Stepped(c) /\ (Completes(c, w) <=> c = LastHw)
        /\ Stored(b, c, w) = IF c \in Data THEN [b EXCEPT ![c] = w] ELSE b
    BY <2>2 DEF Received, Realigns, Completes, Stored
  <2>4. CASE j <= LastHw + 1
    <3> SUFFICES ASSUME Along(j, c, b, u, n)
                 PROVE  /\ j <= LastHw => /\ Along(j + 1, Received(c, w), Stored(b, c, w), u, n)
                                          /\ ~Completes(c, w)
                        /\ j = LastHw + 1 => /\ Completes(c, w) /\ Received(c, w) > LastHw
                                             /\ PacketIn(Stored(b, c, w), u) = n
      BY <1>1, <2>4
    <3>1. c = j - 1 /\ \A i \in 0 .. j - 2 : b[i] = Halfword(u, n, i)
      BY <1>5 DEF Along
    <3>2. c \in Data /\ w = Halfword(u, n, c)
      BY <1>1, <1>5, <2>1, <2>2, <2>4, <3>1
    <3>3. Stored(b, c, w) = [b EXCEPT ![c] = w]
      BY <2>3, <3>2
    <3>4. \A i \in 0 .. j - 1 : Stored(b, c, w)[i] = Halfword(u, n, i)
      <4> SUFFICES ASSUME NEW i \in 0 .. j - 1 PROVE Stored(b, c, w)[i] = Halfword(u, n, i)
        OBVIOUS
      <4>1. i \in Data
        BY <1>1, <2>4
      <4>2. CASE i = c
        BY <3>2, <3>3, <4>2
      <4>3. CASE i # c
        <5>1. i \in 0 .. j - 2
          BY <1>5, <3>1, <4>3
        <5>2. Stored(b, c, w)[i] = b[i]
          BY <3>3, <4>1, <4>3
        <5> QED
          BY <3>1, <5>1, <5>2
      <4> QED
        BY <4>2, <4>3
    <3>5. Received(c, w) = j
      BY <1>1, <1>5, <2>3, <2>4, <3>1 DEF Stepped
    <3>6. CASE j <= LastHw
      <4>1. ~Completes(c, w)
        BY <1>1, <2>3, <3>1, <3>6
      <4>2. Along(j + 1, Received(c, w), Stored(b, c, w), u, n)
        BY <1>5, <3>4, <3>5 DEF Along
      <4> QED
        BY <1>1, <3>6, <4>1, <4>2
    <3>7. CASE j = LastHw + 1
      <4>1. Completes(c, w) /\ Received(c, w) > LastHw
        BY <1>1, <2>3, <3>1, <3>5, <3>7
      <4>2. \A i \in Data : Stored(b, c, w)[i] = Halfword(u, n, i)
        BY <1>1, <3>4, <3>7
      <4>3. PacketIn(Stored(b, c, w), u) = n
        <5>1. 0 \in Data
          BY <1>1
        <5>2. Stored(b, c, w)[0][1] = "packet" /\ Stored(b, c, w)[0][3] = n
          BY <4>2, <5>1 DEF Halfword
        <5> QED
          BY <4>2, <5>2 DEF PacketIn, NoPacket
      <4> QED
        BY <1>1, <3>7, <4>1, <4>3
    <3> QED
      BY <1>1, <2>4, <3>6, <3>7
  <2>5. CASE j > LastHw + 1
    BY <1>1, <2>3, <2>5 DEF Stepped
  <2> QED
    BY <1>1, <2>4, <2>5
<1> QED
  BY <1>3, <1>4, <1>5


(* What the interrupt hears of a unit. *)
LEMMA UnitHeard ==
  ASSUME WireType, phase = "slots", MultiSioIntr(OnTheBus), NEW u \in Units, NEW j \in Int, j >= -1,
         frame' = frame, HeardOf(u, j), ComesNext(OnTheBus[u], j, u, frame)
  PROVE  HeardOf(u, j + 1)'
<1> DEFINE c == recvCounter[u]
           b == recvBuf[u][recvp[u].current]
           w == OnTheBus[u]
<1>1. /\ c \in Counters /\ recvp[u] \in Buffers /\ recvBuf[u] \in [1 .. 3 -> [Data -> Words]]
      /\ frame \in Nat \ {0} /\ LastHw \in Nat
  BY CounterTypes DEF WireType
<1>2. b \in [Data -> Words] /\ recvp[u].current \in 1 .. 3 /\ recvp[u].last \in 1 .. 3
      /\ recvp[u].last # recvp[u].current
  BY <1>1 DEF Buffers
<1>3. w \in Words
  BY BusType
<1>4. /\ recvCounter'[u] = Received(c, w)
      /\ recvBuf'[u] = [recvBuf[u] EXCEPT ![recvp[u].current] = Stored(b, c, w)]
      /\ recvp'[u] = IF Completes(c, w) THEN Rotated(recvp[u]) ELSE recvp[u]
      /\ flag'[u] = (flag[u] \/ Completes(c, w))
  BY DEF MultiSioIntr
<1>5. ComesNext(w, j, u, frame)
  OBVIOUS
<1> HIDE DEF c, b, w
<1>6. /\ recvBuf'[u][recvp[u].current] = Stored(b, c, w)
      /\ recvBuf'[u][recvp[u].last] = recvBuf[u][recvp[u].last]
  BY <1>1, <1>2, <1>4
<1>7. CASE j <= LastHw
  <2>1. Along(j, c, b, u, frame)
    BY <1>1, <1>7 DEF HeardOf, c, b
  <2>2. Along(j + 1, Received(c, w), Stored(b, c, w), u, frame) /\ ~Completes(c, w)
    BY <1>1, <1>2, <1>3, <1>5, <1>7, <2>1, WordHeard
  <2>3. recvp'[u] = recvp[u]
    BY <1>4, <2>2
  <2> QED
    BY <1>1, <1>4, <1>6, <1>7, <2>2, <2>3 DEF HeardOf
<1>8. CASE j = LastHw + 1
  <2>1. Along(j, c, b, u, frame)
    BY <1>1, <1>8 DEF HeardOf, c, b
  <2>2. Completes(c, w) /\ Received(c, w) > LastHw /\ PacketIn(Stored(b, c, w), u) = frame
    BY <1>1, <1>2, <1>3, <1>5, <1>8, <2>1, WordHeard
  <2>3. recvp'[u].last = recvp[u].current
    BY <1>1, <1>4, <2>2 DEF Rotated, Buffers
  <2>4. recvBuf'[u][recvp'[u].last] = Stored(b, c, w)
    BY <1>6, <2>3
  <2>5. flag'[u] /\ recvCounter'[u] > LastHw
    BY <1>4, <2>2
  <2>6. PacketIn(recvBuf'[u][recvp'[u].last], u) = frame'
    BY <2>2, <2>4
  <2> QED
    BY <1>1, <1>8, <2>5, <2>6 DEF HeardOf
<1>9. CASE j > LastHw + 1
  <2>1. c > LastHw /\ flag[u] /\ PacketIn(recvBuf[u][recvp[u].last], u) = frame
    BY <1>1, <1>9 DEF HeardOf, c
  <2>2. ~Completes(c, w) /\ Received(c, w) > LastHw
    BY <1>1, <1>2, <1>3, <1>5, <1>9, <2>1, WordHeard
  <2>3. recvp'[u] = recvp[u]
    BY <1>4, <2>2
  <2>4. recvBuf'[u][recvp'[u].last] = recvBuf[u][recvp[u].last]
    BY <1>6, <2>3
  <2>5. flag'[u] /\ recvCounter'[u] > LastHw
    BY <1>4, <2>1, <2>2
  <2>6. PacketIn(recvBuf'[u][recvp'[u].last], u) = frame'
    BY <2>1, <2>4
  <2> QED
    BY <1>1, <1>9, <2>5, <2>6 DEF HeardOf
<1> QED
  BY <1>1, <1>7, <1>8, <1>9

(* What a far end hears of the game. *)
LEMMA GameHeard ==
  ASSUME WireType, Exchange, NEW u \in Units, NEW j \in Int, j >= -1, peers[u].present,
         PeerReply(u) = Empty, link.self = self, frame' = frame, self' = self,
         HeardBy(u, j), ComesNext(mltSend, j, self, frame)
  PROVE  HeardBy(u, j + 1)'
<1> DEFINE p == peers[u]
           c == p.recvAt
           b == p.recvBuf
           w == mltSend
           taken == PacketIn(Stored(b, c, w), self)
<1>1. /\ p \in Far /\ frame \in Nat \ {0} /\ LastHw \in Nat /\ w \in Words /\ self \in Units
  BY CounterTypes DEF WireType
<1>2. b \in [Data -> Words] /\ c \in Counters
  BY <1>1 DEF Far
<1>3. peers'[u] = PeerTransferred(u)
  BY DEF Exchange
<1>4. PeerTransferred(u) =
        [p EXCEPT !.at = Stepped(p.at), !.recvAt = Received(c, w), !.recvBuf = Stored(b, c, w),
                  !.payload = IF Completes(c, w) /\ taken # NoPacket THEN taken ELSE p.payload]
  BY DEF PeerTransferred
<1> HIDE DEF p, taken
<1>5. /\ peers'[u].recvAt = Received(c, w) /\ peers'[u].recvBuf = Stored(b, c, w)
      /\ peers'[u].payload = IF Completes(c, w) /\ taken # NoPacket THEN taken ELSE p.payload
  BY <1>1, <1>3, <1>4 DEF Far
<1>6. HeardBy(u, j) <=> IF j <= LastHw + 1 THEN Along(j, c, b, self, frame)
                        ELSE c > LastHw /\ p.payload = frame
  BY DEF HeardBy, p
<1>7. ComesNext(w, j, self, frame)
  OBVIOUS
<1> HIDE DEF c, b, w
<1>8. CASE j <= LastHw
  <2>1. Along(j + 1, Received(c, w), Stored(b, c, w), self, frame)
    BY <1>1, <1>2, <1>6, <1>7, <1>8, WordHeard
  <2> QED
    BY <1>1, <1>5, <1>8, <2>1 DEF HeardBy
<1>9. CASE j = LastHw + 1
  <2>1. Completes(c, w) /\ Received(c, w) > LastHw /\ taken = frame
    BY <1>1, <1>2, <1>6, <1>7, <1>9, WordHeard DEF taken
  <2> QED
    BY <1>1, <1>5, <1>9, <2>1 DEF HeardBy, NoPacket
<1>10. CASE j > LastHw + 1
  <2>1. c > LastHw /\ p.payload = frame
    BY <1>1, <1>6, <1>10
  <2>2. ~Completes(c, w) /\ Received(c, w) > LastHw
    BY <1>1, <1>2, <1>7, <1>10, <2>1, WordHeard
  <2> QED
    BY <1>1, <1>5, <1>10, <2>1, <2>2 DEF HeardBy
<1> QED
  BY <1>1, <1>8, <1>9, <1>10

(* What is on the cable while the game plays, and what it makes of the far *)
(* ends that are there.                                                    *)
LEMMA PlayBus ==
  ASSUME WireType, NobodyInLobby, phase = "slots", mltSend \notin {Hello, LobbyStart}
  PROVE  /\ link.self = self /\ OnTheBus[self] = mltSend
         /\ \A u \in Units : PeerReply(u) = Empty
         /\ \A u \in Present : u # self /\ OnTheBus[u] = WordAt(peers[u].at, u, peers[u].packet)
         /\ \A u \in Units : u # self /\ u \notin Present => OnTheBus[u] = Empty
<1>1. link.self = self /\ self \in Units /\ ~peers[self].present
  BY DEF WireType
<1>2. \A u \in Units : PeerReply(u) = Empty
  BY DEF PeerReply, Reply, NobodyInLobby
<1>3. OnTheBus[self] = mltSend
  BY <1>1 DEF OnTheBus
<1>4. ASSUME NEW u \in Present PROVE u # self /\ OnTheBus[u] = WordAt(peers[u].at, u, peers[u].packet)
  <2>1. u \in Units /\ u # self /\ peers[u].present
    BY <1>1 DEF Present
  <2> QED
    BY <1>1, <1>2, <2>1 DEF OnTheBus
<1>5. ASSUME NEW u \in Units, u # self, u \notin Present PROVE OnTheBus[u] = Empty
  BY <1>1, <1>5 DEF Present, OnTheBus
<1> QED
  BY <1>1, <1>2, <1>3, <1>4, <1>5

(* What a transfer of the game's does, and what it leaves. *)
LEMMA TransferParts ==
  ASSUME WireType, RunTransfer, handler = "multisio"
  PROVE  /\ phase = "slots" /\ slot < Slots /\ slot' = slot + 1 /\ MultiSioIntr(OnTheBus) /\ Exchange
         /\ UNCHANGED <<phase, frame, self, link, handler, whole, sendBuf>>
         /\ Present' = Present
         /\ sendCounter' = Stepped(sendCounter)
         /\ mltSend' = WordAt(sendCounter, self, sendBuf[sendp.current])
         /\ sendp' = IF sendCounter = -1 THEN SendSwapped ELSE sendp
         /\ \A u \in Units : recvCounter'[u] = Received(recvCounter[u], OnTheBus[u])
<1>1. /\ phase = "slots" /\ slot < Slots /\ slot' = slot + 1 /\ MultiSioIntr(OnTheBus) /\ Exchange
      /\ UNCHANGED <<phase, frame, self, link, whole>>
  BY DEF RunTransfer, linkVars
<1>2. \A u \in Units : peers'[u].present = peers[u].present
  BY <1>1, ExchangeType
<1> QED
  BY <1>1, <1>2 DEF MultiSioIntr, Present, WireType

(* A receiver comes a step further, unless a sync takes it back. *)
LEMMA FurtherAlong ==
  ASSUME NEW c \in Counters, NEW w, NEW k \in Nat, AtLeast(c, k), k >= 2 => w # Sync
  PROVE  AtLeast(Received(c, w), k + 1)
<1>1. LastHw \in Nat \ {0} /\ PacketHw = LastHw + 3 /\ Counters = -1 .. LastHw + 2
  BY MultiSioAssumption DEF LastHw, Counters
<1>2. Received(c, w) = IF w = Sync /\ c > LastHw THEN 0 ELSE IF c < LastHw + 2 THEN c + 1 ELSE c
  BY <1>1 DEF Received, Realigns, Stepped
<1> QED
  BY <1>1, <1>2 DEF AtLeast

(* A transfer brings everybody a step further into the frame. *)
LEMMA FillingStep ==
  ASSUME WireType, NobodyInLobby, RunTransfer, handler = "multisio", NEW k \in Nat, Filling(k)
  PROVE  Filling(k + 1)'
<1>1. /\ sendCounter \in Counters /\ self \in Units /\ recvCounter \in [Units -> Counters]
      /\ peers \in [Units -> Far] /\ Present \subseteq Units
  BY DEF WireType, Present
<1>2. sendCounter' >= 0 /\ mltSend' \notin {Hello, LobbyStart}
  <2>1. sendCounter' = Stepped(sendCounter) /\ mltSend' = WordAt(sendCounter, self, sendBuf[sendp.current])
    BY TransferParts
  <2>2. sendCounter' >= 0
    BY <1>1, <2>1, CounterTypes DEF Counters
  <2> QED
    BY <2>1, <2>2 DEF WordAt, Sync, Halfword, Hello, LobbyStart
<1>3. CASE k = 0
  <2>1. WireType'
    BY WireTypeStep DEF Next
  <2>2. \A u \in Units : recvCounter'[u] >= -1 /\ peers'[u].recvAt >= -1
    BY <2>1 DEF WireType, Far, Counters
  <2> QED
    BY <1>2, <1>3, <2>2, TransferParts DEF Filling, AtLeast, Present
<1>4. CASE k >= 1
  <2>1. phase = "slots" /\ sendCounter >= 0 /\ mltSend \notin {Hello, LobbyStart}
    BY <1>4, TransferParts DEF Filling
  <2>2. mltSend' # Sync
    BY <2>1, TransferParts DEF WordAt, Sync, Halfword
  <2>3. ASSUME NEW u \in Present PROVE peers'[u].at >= 0 /\ AtLeast(peers'[u].recvAt, k + 1)
    <3>1. peers[u] \in Far /\ u \in Units /\ peers[u].present
      BY <1>1 DEF Present
    <3>2. PeerReply(u) = Empty
      BY <2>1, <3>1, PlayBus
    <3>3. peers'[u] = PeerTransferred(u)
      BY <3>1, <3>2, TransferParts DEF Exchange
    <3>4. peers'[u].recvAt = Received(peers[u].recvAt, mltSend)
      BY <3>1, <3>3 DEF PeerTransferred, Far
    <3>5. peers'[u].at = Stepped(peers[u].at)
      BY <3>1, <3>3, TransferredType
    <3>6. AtLeast(peers[u].recvAt, k) /\ (k >= 2 => mltSend # Sync)
      BY DEF Filling
    <3>7. AtLeast(peers'[u].recvAt, k + 1)
      BY <3>1, <3>4, <3>6, FurtherAlong DEF Far
    <3> QED
      BY <3>1, <3>5, <3>7, CounterTypes DEF Far, Counters
  <2>4. ASSUME NEW u \in Units PROVE AtLeast(recvCounter'[u], k + 1)
    <3>1. k >= 2 => OnTheBus[u] # Sync
      <4> SUFFICES ASSUME k >= 2 PROVE OnTheBus[u] # Sync
        OBVIOUS
      <4>1. CASE u = self
        BY <2>1, <4>1, PlayBus DEF Filling
      <4>2. CASE u \in Present
        <5>1. peers[u].at >= 0 /\ OnTheBus[u] = WordAt(peers[u].at, u, peers[u].packet)
          BY <2>1, <4>2, PlayBus DEF Filling
        <5> QED
          BY <5>1 DEF WordAt, Sync, Halfword
      <4>3. CASE u # self /\ u \notin Present
        BY <2>1, <4>3, PlayBus DEF Empty, Sync
      <4> QED
        BY <4>1, <4>2, <4>3
    <3>2. recvCounter[u] \in Counters /\ AtLeast(recvCounter[u], k)
      BY <1>1 DEF Filling
    <3>3. AtLeast(Received(recvCounter[u], OnTheBus[u]), k + 1)
      BY <3>1, <3>2, FurtherAlong
    <3> QED
      BY <3>3, TransferParts
  <2>5. Present' = Present
    BY TransferParts
  <2> QED
    BY <1>2, <2>2, <2>3, <2>4, <2>5 DEF Filling
<1> QED
  BY <1>3, <1>4

(* Once the slots are used up nobody is left inside a packet. *)
LEMMA FilledWaits == Filling(Slots) /\ WireType => Waiting
<1> SUFFICES ASSUME Filling(Slots), WireType PROVE Waiting
  OBVIOUS
<1>1. LastHw \in Nat /\ Slots \in Nat /\ Slots - 2 > LastHw /\ Slots >= 2
  BY MultiSioAssumption, LinkAssumption DEF LastHw
<1>2. \A c \in Counters : AtLeast(c, Slots) => c > LastHw
  BY <1>1 DEF AtLeast, Counters
<1>3. (\A u \in Units : recvCounter[u] \in Counters) /\ \A u \in Present : peers[u].recvAt \in Counters
  BY DEF WireType, Far, Present
<1> QED
  BY <1>1, <1>2, <1>3 DEF Filling, Waiting, Plain

(* A transfer of the second whole frame. *)
LEMMA StreamingStep ==
  ASSUME WireType, NobodyInLobby, RunTransfer, handler = "multisio", NEW k \in Nat, Streaming(k)
  PROVE  Streaming(k + 1)'
<1>1. /\ sendCounter \in Counters /\ self \in Units /\ frame \in Nat \ {0} /\ sendp \in Turns
      /\ peers \in [Units -> Far] /\ Present \subseteq Units /\ sendBuf \in [1 .. 2 -> Nat]
  BY DEF WireType, Present
<1>2. Stepped(After(k)) = After(k + 1) /\ (After(k) = -1 <=> k = 0) /\ After(0) = -1
  BY MultiSioAssumption DEF After, Stepped
<1>3. phase = "slots" /\ mltSend \notin {Hello, LobbyStart}
  <2>1. CASE k = 0
    BY <2>1, TransferParts DEF Streaming, Plain
  <2>2. CASE k # 0
    BY <2>2, TransferParts DEF Streaming, WordAt, Sync, Halfword, Hello, LobbyStart
  <2> QED
    BY <2>1, <2>2
<1>4. ComesNext(mltSend, k - 1, self, frame)
  BY <1>1 DEF Streaming, ComesNext, Plain
<1>5. sendCounter' = After(k + 1)
  BY <1>2, TransferParts DEF Streaming
<1>6. sendBuf'[sendp'.current] = frame /\ mltSend' = WordAt(After(k), self, frame)
  <2>1. CASE k = 0
    <3>1. sendCounter = -1 /\ sendBuf[sendp.next] = frame
      BY <1>2, <2>1 DEF Streaming
    <3>2. sendp' = SendSwapped /\ sendBuf' = sendBuf
      BY <3>1, TransferParts
    <3>3. mltSend' = Sync
      BY <3>1, TransferParts DEF WordAt
    <3> QED
      BY <1>2, <2>1, <3>1, <3>2, <3>3 DEF SendSwapped, WordAt
  <2>2. CASE k # 0
    <3>1. sendCounter = After(k) /\ sendCounter # -1 /\ sendBuf[sendp.current] = frame
      BY <1>2, <2>2 DEF Streaming
    <3>2. sendp' = sendp /\ sendBuf' = sendBuf
      BY <3>1, TransferParts
    <3> QED
      BY <3>1, <3>2, TransferParts
  <2> QED
    BY <2>1, <2>2
<1>7. HeardOf(self, k)'
  <2>1. OnTheBus[self] = mltSend
    BY <1>3, PlayBus
  <2>2. HeardOf(self, k - 1) /\ k - 1 \in Int /\ k - 1 >= -1 /\ (k - 1) + 1 = k
    BY DEF Streaming
  <2>3. ComesNext(OnTheBus[self], k - 1, self, frame)
    BY <1>4, <2>1
  <2>4. HeardOf(self, (k - 1) + 1)'
    BY <1>1, <2>2, <2>3, UnitHeard, TransferParts
  <2> QED
    BY <2>2, <2>4
<1>8. ASSUME NEW u \in Present
      PROVE  /\ peers'[u].packet = frame /\ peers'[u].at = After(k + 1)
             /\ HeardOf(u, k + 1)' /\ HeardBy(u, k)'
  <2>1. u \in Units /\ peers[u].present /\ peers[u].packet = frame /\ peers[u].at = After(k)
    BY <1>1 DEF Present, Streaming
  <2>2. PeerReply(u) = Empty /\ link.self = self /\ OnTheBus[u] = WordAt(After(k), u, frame)
    BY <1>3, <2>1, PlayBus
  <2>3. peers'[u].packet = frame /\ peers'[u].at = After(k + 1)
    BY <1>2, <2>1, <2>2, TransferParts, TransferredType DEF Exchange
  <2>4. HeardOf(u, k + 1)'
    <3>1. HeardOf(u, k)
      BY DEF Streaming
    <3>2. ComesNext(OnTheBus[u], k, u, frame)
      BY <2>2 DEF ComesNext
    <3> QED
      BY <2>1, <3>1, <3>2, UnitHeard, TransferParts
  <2>5. HeardBy(u, k)'
    <3>1. HeardBy(u, k - 1) /\ k - 1 \in Int /\ k - 1 >= -1 /\ (k - 1) + 1 = k
      BY DEF Streaming
    <3>2. HeardBy(u, (k - 1) + 1)'
      BY <1>4, <2>1, <2>2, <3>1, GameHeard, TransferParts
    <3> QED
      BY <3>1, <3>2
  <2> QED
    BY <2>3, <2>4, <2>5
<1>9. Present' = Present /\ frame' = frame /\ self' = self /\ (k + 1) - 1 = k /\ k + 1 # 0
  BY TransferParts
<1> QED
  BY <1>5, <1>6, <1>7, <1>8, <1>9 DEF Streaming

(* After the second whole frame everybody has its packet. *)
LEMMA StreamedWhole ==
  ASSUME WireType, Streaming(Slots)
  PROVE  /\ \A u \in Present \cup {self} : flag[u] /\ PacketIn(recvBuf[u][recvp[u].last], u) = frame
         /\ \A u \in Present : peers[u].payload = frame
<1>1. LastHw \in Nat /\ Slots \in Nat /\ ~(Slots <= LastHw + 1) /\ ~(Slots - 1 <= LastHw + 1)
  BY MultiSioAssumption, LinkAssumption DEF LastHw
<1>2. HeardOf(self, Slots - 1) /\ \A u \in Present : HeardOf(u, Slots) /\ HeardBy(u, Slots - 1)
  BY DEF Streaming
<1> QED
  BY <1>1, <1>2 DEF HeardOf, HeardBy

(* A poll that keeps the count of whole frames gives every far end that is *)
(* there a packet of the frame.                                            *)
LEMMA PollBuilds ==
  ASSUME WireType, RealignInv, PortMpFrame, whole' >= 1
  PROVE  /\ phase = "present" /\ phase' = "slots" /\ whole' = whole /\ handler = "multisio"
         /\ UNCHANGED <<slot, frame>> /\ Present' = Present
         /\ \A u \in Present : /\ peers'[u].packet = frame /\ peers'[u].at = -1
                               /\ peers'[u].recvAt = peers[u].recvAt
<1>1. /\ phase = "present" /\ phase' = "slots" /\ peers' # peers /\ whole' = whole
      /\ handler = "multisio"
  BY DEF PortMpFrame, RealignInv
<1>2. transport # "none" /\ UNCHANGED <<slot, frame>>
  BY <1>1 DEF PortMpFrame, NextFrame
<1>3. LoopPoll
  BY <1>1, <1>2 DEF PortMpFrame, PortMpPoll, JsPoll
<1>4. peers \in [Units -> Far] /\ frame \in Nat
  BY DEF WireType
<1>5. ASSUME NEW u \in Present
      PROVE  /\ peers'[u].packet = frame /\ peers'[u].at = -1
             /\ peers'[u].recvAt = peers[u].recvAt
  <2>1. u \in Units /\ peers[u] \in Far /\ peers[u].present
    BY <1>4 DEF Present
  <2>2. peers'[u] = Built(peers[u])
    BY <1>3, <2>1 DEF LoopPoll
  <2>3. Built(peers[u]).recvAt = peers[u].recvAt
    BY <2>1 DEF Built, Far
  <2> QED
    BY <1>4, <2>1, <2>2, <2>3, BuiltType
<1>6. Present' = Present
  BY PollType DEF Present
<1> QED
  BY <1>1, <1>2, <1>5, <1>6

(* Every step keeps the two ends on the way back into step. *)
LEMMA RealignStep == WireType /\ RealignInv /\ NobodyInLobby /\ [Next]_vars => RealignInv'
<1> SUFFICES ASSUME WireType, RealignInv, NobodyInLobby, [Next]_vars PROVE RealignInv'
  OBVIOUS
<1> USE DEF linkVars, sioVars, areaVars, gameVars, farVars, lobbyVars
<1>1. Slots \in Nat /\ slot \in Nat /\ slot <= Slots /\ whole \in Nat /\ (phase # "slots" => slot = 0)
  BY LinkAssumption DEF RealignInv
<1>2. WireType'
  BY WireTypeStep
<1>3. CASE phase' # "slots" /\ slot' = 0 /\ whole' = 0
  BY <1>1, <1>3 DEF RealignInv, TwoFramesRealign
<1>4. CASE MultiSioMain
  <2>1. /\ phase = "game" /\ phase' = "present" /\ handler = "multisio"
        /\ sendCounter' = -1 /\ sendp' = sendp /\ sendBuf' = [sendBuf EXCEPT ![sendp.next] = frame]
        /\ UNCHANGED <<slot, frame, handler, mltSend, recvCounter, peers, whole>>
    BY <1>4 DEF MultiSioMain, GameCall
  <2>2. sendBuf'[sendp'.next] = frame'
    BY <2>1 DEF WireType, Turns
  <2>3. whole >= 1 => Waiting'
    BY <2>1 DEF RealignInv, Waiting, Present
  <2> QED
    BY <1>1, <2>1, <2>2, <2>3 DEF RealignInv, TwoFramesRealign
<1>5. CASE PortMpFrame /\ whole' = 0
  <2>1. phase = "present" /\ ((phase' = "slots" /\ slot' = slot) \/ (phase' = "game" /\ slot' = 0))
    BY <1>5 DEF PortMpFrame, NextFrame
  <2>2. CASE phase' = "game"
    BY <1>3, <1>5, <2>1, <2>2
  <2>3. CASE phase' = "slots"
    <3>1. slot' = 0
      BY <1>1, <2>1, <2>3
    <3>2. Filling(0)'
      BY <1>2 DEF Filling, AtLeast, WireType, Far, Counters, Present
    <3> QED
      BY <1>1, <1>5, <2>3, <3>1, <3>2 DEF RealignInv, TwoFramesRealign
  <2> QED
    BY <2>1, <2>2, <2>3
<1>6. CASE PortMpFrame /\ whole' # 0
  <2>1. whole' \in Nat /\ whole' >= 1
    BY <1>1, <1>6 DEF PortMpFrame
  <2>2. /\ phase = "present" /\ phase' = "slots" /\ whole' = whole /\ handler = "multisio"
        /\ UNCHANGED <<slot, frame>> /\ Present' = Present
        /\ \A u \in Present : /\ peers'[u].packet = frame /\ peers'[u].at = -1
                              /\ peers'[u].recvAt = peers[u].recvAt
    BY <1>6, <2>1, PollBuilds
  <2>3. slot' = 0
    BY <1>1, <2>2
  <2>4. Filling(0)'
    BY <1>2 DEF Filling, AtLeast, WireType, Far, Counters, Present
  <2>5. UNCHANGED <<self, mltSend, handler, sendCounter, sendp, sendBuf, recvCounter>>
    BY <1>6 DEF PortMpFrame
  <2>6. /\ Waiting /\ sendCounter = -1 /\ sendBuf[sendp.next] = frame
        /\ self \in Units /\ Present \subseteq Units /\ LastHw \in Nat
    BY <2>1, <2>2, CounterTypes DEF RealignInv, WireType, Present
  <2>7. HeardOf(self, -1)'
    BY <2>5, <2>6 DEF HeardOf, Along, Waiting
  <2>8. ASSUME NEW u \in Present PROVE HeardOf(u, 0)' /\ HeardBy(u, -1)'
    BY <2>2, <2>5, <2>6 DEF HeardOf, HeardBy, Along, Waiting
  <2>9. After(0) = -1
    BY MultiSioAssumption DEF After
  <2>10. Streaming(0)'
    BY <2>2, <2>5, <2>6, <2>7, <2>8, <2>9 DEF Streaming, Waiting
  <2> QED
    BY <1>1, <2>1, <2>2, <2>3, <2>4, <2>5, <2>10 DEF RealignInv, TwoFramesRealign
<1>7. CASE RunTransfer /\ handler = "multisio"
  <2>1. phase = "slots" /\ slot < Slots /\ slot' = slot + 1 /\ UNCHANGED <<phase, handler, whole>>
    BY <1>7, TransferParts
  <2>2. PICK k \in Nat : k = slot
    BY <1>1
  <2>3. Filling(k) /\ (whole >= 1 => Streaming(k))
    BY <1>7, <2>1, <2>2 DEF RealignInv
  <2>4. Filling(k + 1)'
    BY <1>7, <2>3, FillingStep
  <2>5. whole >= 1 => Streaming(k + 1)'
    BY <1>7, <2>3, StreamingStep
  <2>6. slot' = k + 1
    BY <2>1, <2>2
  <2> QED
    BY <1>1, <1>7, <2>1, <2>4, <2>5, <2>6 DEF RealignInv, TwoFramesRealign
<1>8. CASE RunTransfer /\ handler # "multisio"
  <2>1. phase = "slots" /\ slot < Slots /\ slot' = slot + 1 /\ UNCHANGED <<phase, handler, whole>>
    BY <1>8 DEF RunTransfer
  <2> QED
    BY <1>1, <1>8, <2>1 DEF RealignInv, TwoFramesRealign
<1>9. CASE SlotsOver /\ slot = Slots
  <2>1. /\ phase = "slots" /\ phase' = "game" /\ slot' = 0 /\ frame' = frame + 1 /\ whole' = whole + 1
        /\ UNCHANGED <<mltSend, multi, gameVars, farVars, link, self>>
    BY <1>9 DEF SlotsOver, NextFrame
  <2>2. handler = "multisio" => Waiting
    BY <1>9, <2>1, FilledWaits DEF RealignInv
  <2>3. handler' = "multisio" => Waiting'
    BY <2>1, <2>2 DEF Waiting, Present
  <2>4. TwoFramesRealign'
    <3> SUFFICES ASSUME whole' >= 2
                 PROVE  /\ \A u \in Present' \cup {link'.self} :
                             flag'[u] /\ PacketIn(recvBuf'[u][recvp'[u].last], u) = frame' - 1
                        /\ \A u \in Present' : peers'[u].payload = frame' - 1
      BY DEF TwoFramesRealign
    <3>1. Streaming(Slots)
      BY <1>1, <1>9, <2>1 DEF RealignInv
    <3>2. frame' - 1 = frame /\ link.self = self /\ Present' = Present
      BY <2>1 DEF WireType, Present
    <3> QED
      BY <2>1, <3>1, <3>2, StreamedWhole
  <2> QED
    BY <1>1, <2>1, <2>3, <2>4 DEF RealignInv
<1>10. CASE SlotsOver /\ slot # Slots
  BY <1>3, <1>10 DEF SlotsOver, NextFrame
<1>11. CASE UNCHANGED vars
  BY <1>11 DEF vars, RealignInv, TwoFramesRealign, NoneInLobby, Filling, Streaming, Waiting, HeardOf, HeardBy,
                Present
<1>12. CASE PortMpAttachRefused \/ PortMpDetach \/ NothingCalled \/ MultiSioInit
            \/ NormalMode \/ MultiBootMain \/ LobbyCounts \/ LobbyStarts \/ Stall
  <2>1. slot' = 0 /\ whole' = 0 /\ phase' # "slots"
    BY <1>1, <1>12 DEF PortMpAttachRefused, PortMpDetach, NothingCalled, MultiSioInit, GameCall,
       NormalMode, MultiBootMain, LobbyCounts, LobbyStarts, LobbyWord, Stall, NextFrame
  <2> QED
    BY <1>3, <2>1
<1>13. ASSUME NEW t, NEW players, PortMpAttach(t, players) PROVE RealignInv'
  <2>1. slot' = 0 /\ whole' = 0 /\ phase' # "slots"
    BY <1>1, <1>13 DEF PortMpAttach
  <2> QED
    BY <1>3, <2>1
<1> QED
  BY <1>4, <1>5, <1>6, <1>7, <1>8, <1>9, <1>10, <1>11, <1>12, <1>13 DEF Next, AtBound

(* Whatever moment the cable stalled at, two frames that run every slot    *)
(* put both ends back in step, for any number of units, any packet and any *)
(* session, as long as no stand-in peer is left in the lobby: it answers   *)
(* for the peer there, whatever the game streams.                          *)
THEOREM TwoFramesAreEnough == Spec /\ []NobodyInLobby => []TwoFramesRealign
<1>1. Init => RealignInv
  BY LinkAssumption DEF Init, RealignInv, TwoFramesRealign
<1>2. RealignInv => TwoFramesRealign
  BY DEF RealignInv
<1> QED
  BY InitWireType, WireTypeStep, RealignStep, <1>1, <1>2, PTL DEF Spec

(* Where nothing probes the cable no stand-in is ever in the lobby, and so *)
(* two whole frames are enough in every session of the game proper.        *)
THEOREM PlayRealigns ==
  ASSUME \A s \in Sessions : "boot" \notin s.calls
  PROVE  Spec => []TwoFramesRealign
<1> DEFINE NotProbed == lobby \in [Units -> Stands] /\ NobodyInLobby /\ mltSend # Hello
<1>1. Init => NotProbed
  <2>1. NotRecognised \in Stands /\ NotRecognised.phase # "lobby"
    BY NothingType DEF NotRecognised, Stands, LobbyPhases
  <2> QED
    BY <2>1 DEF Init, NobodyInLobby, Empty, Hello
<1>2. WireType /\ NotProbed /\ [Next]_vars => NotProbed'
  <2> SUFFICES ASSUME WireType, NotProbed, [Next]_vars PROVE NotProbed'
    OBVIOUS
  <2> USE DEF linkVars, sioVars, areaVars, gameVars, farVars, lobbyVars
  <2>1. ~MultiBootMain
    BY DEF MultiBootMain, GameCall, WireType
  <2>2. CASE RunTransfer
    <3>1. ASSUME NEW u \in Units PROVE lobby'[u] \in Stands /\ lobby'[u].phase # "lobby"
      <4>1. lobby'[u] = IF StandsIn(u) THEN PeerAfter(lobby[u], u, mltSend) ELSE lobby[u]
        BY <2>2 DEF RunTransfer, Exchange
      <4>2. /\ [lobby[u] EXCEPT !.phase = "playing"] \in Stands
            /\ [lobby[u] EXCEPT !.phase = "playing"].phase # "lobby"
        BY DEF Stands, LobbyPhases
      <4> QED
        BY <4>1, <4>2 DEF NobodyInLobby, PeerAfter
    <3>2. mltSend' # Hello
      <4>1. CASE handler = "multisio"
        BY <2>2, <4>1 DEF RunTransfer, MultiSioIntr, WordAt, Sync, Halfword, Hello
      <4>2. CASE handler # "multisio"
        BY <2>2, <4>2 DEF RunTransfer
      <4> QED
        BY <4>1, <4>2
    <3>3. lobby' = [u \in Units |-> lobby'[u]]
      BY <2>2 DEF RunTransfer, Exchange
    <3> QED
      BY <3>1, <3>2, <3>3 DEF NobodyInLobby
  <2>3. CASE LobbyCounts \/ LobbyStarts
    BY <2>3 DEF LobbyCounts, LobbyStarts, LobbyWord, NobodyInLobby, SeqOf, Seq, LobbyStart, Hello
  <2>4. CASE UNCHANGED <<mltSend, lobby>>
    BY <2>4 DEF NobodyInLobby
  <2> QED
    BY <2>1, <2>2, <2>3, <2>4
    DEF Next, PortMpAttach, PortMpAttachRefused, PortMpDetach, NothingCalled, MultiSioInit, MultiSioMain,
        NormalMode, PortMpFrame, Stall, SlotsOver, AtBound, vars
<1>3. NotProbed => NobodyInLobby
  OBVIOUS
<1> HIDE DEF NotProbed
<1> QED
  BY InitWireType, WireTypeStep, TwoFramesAreEnough, <1>1, <1>2, <1>3, PTL DEF Spec

=============================================================================
