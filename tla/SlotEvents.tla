----------------------------- MODULE SlotEvents -----------------------------
(***************************************************************************)
(* The event timeline of platform/rollback.c: who drives which Kirby, and  *)
(* how many Kirbys are in play.  An event is a record                      *)
(*                                                                         *)
(*    [frame, type, a, b]                                                  *)
(*                                                                         *)
(* "players": a Kirbys are in play (b is unused);                          *)
(* "slot":    slot a is driven by peer b, or by the AI when b = AI.        *)
(*                                                                         *)
(* ApplyEventsFor is a loop over the list.  Its net effect on one frame is *)
(* written here without the loop: a slot ends with the peer of the last    *)
(* event that gave it one, unless a later event gave the slot or the peer  *)
(* away.  SlotMap.tla runs the loop itself, one event at a time, and       *)
(* checks that the two agree.                                              *)
(***************************************************************************)
EXTENDS Integers, Sequences

CONSTANT NumPeers       \* PORT_RB_PLAYERS: as many peers as slots

ASSUME NumPeersAssumption == NumPeers \in Nat \ {0}

Peers == 0 .. NumPeers - 1
Slots == Peers
AI    == -1             \* sSlotPeer's "the AI is driving this Kirby"

SlotMaps == [Slots -> Peers \cup {AI}]

PlayersEvents(frames) == [frame: frames, type: {"players"}, a: 1 .. NumPeers, b: {0}]
SlotEvents(frames)    == [frame: frames, type: {"slot"}, a: Slots, b: Peers \cup {AI}]
Events(frames)        == PlayersEvents(frames) \cup SlotEvents(frames)

(* Slots start one for one with the peers of the session. *)
FirstSlotMap(players) == [s \in Slots |-> IF s < players THEN s ELSE AI]

(* Ordered by frame, and behind every event already on the same frame:     *)
(* e lands after the first k events.                                       *)
InsertedAfter(evs, e, k) ==
  /\ \A i \in 1 .. k : evs[i].frame <= e.frame
  /\ \A i \in k + 1 .. Len(evs) : evs[i].frame > e.frame

Insert(evs, e, k) ==
  [i \in 1 .. Len(evs) + 1 |->
     IF i <= k THEN evs[i] ELSE IF i = k + 1 THEN e ELSE evs[i - 1]]

(* The first slot a peer holds (PortRbPeerSlot). *)
SlotOf(map, p) == CHOOSE s \in Slots : map[s] = p /\ \A t \in Slots : map[t] = p => s <= t

(* --- the whole loop, for the events of one frame ----------------------- *)
At(evs, frame) == {i \in DOMAIN evs : evs[i].frame = frame}

(* Bug: a move leaves the peer in its old slot as well. *)
TakesSlotOnly(evs, i, s, p) == evs[i].type = "slot" /\ evs[i].a = s
Gives(evs, i, s, p) == evs[i].type = "slot" /\ evs[i].a = s /\ evs[i].b = p
Takes(evs, i, s, p) == evs[i].type = "slot" /\ (evs[i].a = s \/ evs[i].b = p)

DrivesAfter(map, evs, frame, s, p) ==
  \/ map[s] = p /\ \A i \in At(evs, frame) : ~Takes(evs, i, s, p)
  \/ \E i \in At(evs, frame) :
        /\ Gives(evs, i, s, p)
        /\ \A j \in At(evs, frame) : j > i => ~Takes(evs, j, s, p)

SlotMapAfter(map, evs, frame) ==
  [s \in Slots |->
     IF \E p \in Peers : DrivesAfter(map, evs, frame, s, p)
       THEN CHOOSE p \in Peers : DrivesAfter(map, evs, frame, s, p)
       ELSE AI]

LastCount(evs, frame, i) ==
  /\ i \in At(evs, frame) /\ evs[i].type = "players"
  /\ \A j \in At(evs, frame) : j > i => evs[j].type # "players"

SlotsInPlayAfter(count, evs, frame) ==
  IF \E i \in DOMAIN evs : LastCount(evs, frame, i)
    THEN evs[CHOOSE i \in DOMAIN evs : LastCount(evs, frame, i)].a
    ELSE count

(* No peer drives two Kirbys. *)
Injective(map) == \A s, t \in Slots : map[s] = map[t] /\ map[s] # AI => s = t
=============================================================================
