----------------------------- MODULE PeerLobby -----------------------------
(***************************************************************************)
(* platform/mp_peer_lobby.c: what the stand-in peer of the loopback makes  *)
(* of the master's word while the game is in its link lobby.               *)
(***************************************************************************)
EXTENDS MultiSio

CONSTANTS
  SeqMin, SeqMask,   \* SEQ_MIN and SEQ_MASK: the range of the master's counter
  SettleFrames,      \* SETTLE_FRAMES
  LowBits(_)         \* the bits of SEQ_MASK of a word that is not of the counter

ASSUME PeerLobbyAssumption ==
  /\ SeqMin \in Nat \ {0} /\ SeqMask \in Nat /\ SeqMin < SeqMask
  /\ SettleFrames \in Nat

Hello == <<"hello">>            \* 0x62XX
LobbyStart == <<"start">>       \* 0xE4E4
Seq(k) == <<"seq", k>>          \* 0x2XXX
SameGame(slot) == <<"same", slot>>  \* 0x8F5X
ChildAlive == <<"alive">>       \* 0x8F51
ChildReady == <<"ready">>       \* 0x70AE

LobbyPhases == {"idle", "lobby", "playing"}
NotRecognised == [phase |-> "idle", lastSeq |-> Empty, settled |-> 0, haveSeq |-> FALSE]

(* Bug: the wrap goes to zero and not to the floor. *)
NoFloor(k) == (k + 1) % (SeqMask + 1)
NextSeq(k) ==
  LET next == (k + 1) % (SeqMask + 1) IN IF next < SeqMin THEN SeqMin ELSE next

(* Of a word that is no hello and no start, whoever it was for, only the    *)
(* low bits are looked at.                                                 *)
Low(w) == IF w[1] = "seq" THEN w[2] ELSE LowBits(w)

Follows(peer, w) == peer.haveSeq /\ Low(w) = NextSeq(Low(peer.lastSeq))

(* Bug: a word out of the sequence does not cost the settle. *)
NeverStartsOver(peer, w) ==
  [peer EXCEPT !.settled = IF Follows(peer, w) THEN @ + 1 ELSE @, !.lastSeq = w, !.haveSeq = TRUE]
Followed(peer, w) ==
  [peer EXCEPT !.settled = IF Follows(peer, w) THEN @ + 1 ELSE 0, !.lastSeq = w, !.haveSeq = TRUE]

(* What PortMpPeerLobbyReply leaves of the peer in a slot, and its answer. *)
PeerAfter(peer, slot, w) ==
  IF slot = 0 THEN peer
  ELSE IF w = Hello THEN [peer EXCEPT !.phase = "lobby", !.settled = 0, !.haveSeq = FALSE]
  ELSE IF w = LobbyStart THEN [peer EXCEPT !.phase = "playing"]
  ELSE IF peer.phase = "lobby" THEN Followed(peer, w) ELSE peer

Reply(peer, slot, w) ==
  IF slot = 0 THEN Empty
  ELSE IF w = Hello THEN SameGame(slot)
  ELSE IF w = LobbyStart THEN LobbyStart
  ELSE IF peer.phase # "lobby" THEN Empty
  ELSE IF Followed(peer, w).settled > SettleFrames THEN ChildReady ELSE ChildAlive
=============================================================================
