------------------------------ MODULE SlotMap -------------------------------
(***************************************************************************)
(* The two loops over sEvents in platform/rollback.c, one turn at a time:  *)
(* PortRbScheduleEvent shifts later events up until the new one fits, and  *)
(* ApplyEventsFor walks the list and applies the events of one frame.      *)
(* SlotEvents.tla says what the loops amount to; here they are run, by the *)
(* session of RbLog.tla.                                                   *)
(***************************************************************************)
EXTENDS SlotEvents

CONSTANTS
  MaxEvents,     \* MAX_EVENTS
  EventFrames,   \* the frames events are scheduled for
  NumPlayers     \* peers seated at the start

ASSUME SlotMapAssumption ==
  /\ MaxEvents \in Nat /\ EventFrames \subseteq Nat /\ NumPlayers \in 1 .. NumPeers

VARIABLES
  events,                  \* sEvents
  slotPeer, slotsInPlay,   \* sSlotPeer, sSlotsInPlay
  pc,                      \* "idle", or the loop being run
  i,                       \* its counter: i events lie before the cursor
  arg,                     \* the event being inserted, or the frame applied
  first                    \* history: list, map and count when the loop began

loopVars == <<events, slotPeer, slotsInPlay, pc, i, arg, first>>

Now == [events |-> events, map |-> slotPeer, count |-> slotsInPlay]

NoEvents ==
  /\ events = <<>> /\ slotPeer = FirstSlotMap(NumPlayers) /\ slotsInPlay = NumPeers
  /\ pc = "idle" /\ i = 0 /\ arg = 0
  /\ first = [events |-> <<>>, map |-> slotPeer, count |-> slotsInPlay]

(* PortRbScheduleEvent: the list grows by one cell, and the hole moves     *)
(* down from its end.                                                      *)
ScheduleEvent(e) ==
  /\ pc = "idle" /\ Len(events) < MaxEvents
  /\ pc' = "insert" /\ arg' = e /\ i' = Len(events)
  /\ events' = Append(events, e)
  /\ first' = Now
  /\ UNCHANGED <<slotPeer, slotsInPlay>>

Later(frame) == events[i].frame > frame

Shift ==
  /\ pc = "insert" /\ i > 0 /\ Later(arg.frame)
  /\ events' = [events EXCEPT ![i + 1] = events[i]]
  /\ i' = i - 1
  /\ UNCHANGED <<slotPeer, slotsInPlay, pc, arg, first>>

Place ==
  /\ pc = "insert" /\ ~(i > 0 /\ Later(arg.frame))
  /\ events' = [events EXCEPT ![i + 1] = arg]
  /\ pc' = "idle"
  /\ UNCHANGED <<slotPeer, slotsInPlay, i, arg, first>>

(* ApplyEventsFor. *)
ApplyEventsFor(frame) ==
  /\ pc = "idle" /\ pc' = "apply" /\ arg' = frame /\ i' = 0
  /\ first' = Now
  /\ UNCHANGED <<events, slotPeer, slotsInPlay>>

(* Bug: the old slot is not vacated. *)
AssignOnly(map, slot, p) == [map EXCEPT ![slot] = p]

(* A peer holds one slot, so taking a new one gives the old one back. *)
AssignSlot(map, slot, p) ==
  IF p = AI \/ \A s \in Slots : map[s] # p
    THEN [map EXCEPT ![slot] = p]
    ELSE [map EXCEPT ![SlotOf(map, p)] = AI, ![slot] = p]

ApplyEvent ==
  /\ pc = "apply" /\ i < Len(events) /\ i' = i + 1
  /\ LET e == events[i + 1]
     IN \/ e.frame # arg /\ UNCHANGED <<slotPeer, slotsInPlay>>
        \/ e.frame = arg /\ e.type = "players" /\ slotsInPlay' = e.a /\ UNCHANGED slotPeer
        \/ /\ e.frame = arg /\ e.type = "slot"
           /\ slotPeer' = AssignSlot(slotPeer, e.a, e.b)
           /\ UNCHANGED slotsInPlay
  /\ UNCHANGED <<events, pc, arg, first>>

Applied ==
  /\ pc = "apply" /\ i = Len(events) /\ pc' = "idle"
  /\ UNCHANGED <<events, slotPeer, slotsInPlay, i, arg, first>>

-----------------------------------------------------------------------------
(* What SlotEvents.tla says of the two loops without running them is what  *)
(* they do.  When the insertion ends the list is ordered, and the new      *)
(* event is behind those of its frame: Insert, at a place InsertedAfter.   *)
(* When the application ends, the map and the count are the closed forms;  *)
(* and applying the events of a frame a second time, as every frame after  *)
(* a rollback is applied, would change nothing more.                       *)
LoopsAreClosedForms ==
  /\ pc = "idle" /\ Len(events) > Len(first.events) =>
       \E k \in 0 .. Len(first.events) :
         InsertedAfter(first.events, arg, k) /\ events = Insert(first.events, arg, k)
  /\ pc = "apply" /\ i = Len(events) =>
       /\ slotPeer = SlotMapAfter(first.map, events, arg)
       /\ slotsInPlay = SlotsInPlayAfter(first.count, events, arg)
       /\ SlotMapAfter(slotPeer, events, arg) = slotPeer
=============================================================================
