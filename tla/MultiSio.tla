------------------------------ MODULE MultiSio ------------------------------
(***************************************************************************)
(* The words on the cable and the two ends of a MultiSio packet:           *)
(* platform/multi_sio_intr.c, and its mirror in platform/mp_loopback.c.    *)
(* A packet crosses one halfword per transfer behind a sync word.  Its     *)
(* data is abstracted to who built it and which packet it was, so that a   *)
(* buffer put together from two packets can be told from a whole one: the  *)
(* checksum of the code is taken to be a perfect one.                      *)
(***************************************************************************)
EXTENDS Integers

CONSTANTS
  NumUnits,   \* PORT_MP_PLAYERS
  PacketHw,   \* PACKET_HW: halfwords of a packet, the two of overrun included
  MaxFrames   \* bound: frames, and with them packets

ASSUME MultiSioAssumption ==
  /\ NumUnits \in Nat \ {0, 1} /\ MaxFrames \in Nat
  /\ PacketHw \in Nat /\ PacketHw > 3

Units == 0 .. NumUnits - 1

(* The last real halfword, where a receive buffer is complete. *)
LastHw == PacketHw - 3
Data   == 0 .. LastHw

(* The words.  0xFFFF is what a slot with nobody in it reads as, and what  *)
(* the stand-in peer answers for "not mine".                               *)
Sync == <<"sync">>
Empty == <<"empty">>
Halfword(unit, packet, i) == <<"packet", unit, packet, i>>

Counters == -1 .. PacketHw - 1

(* Both counters stop at the last halfword. *)
Stepped(counter) == IF counter < PacketHw - 1 THEN counter + 1 ELSE counter

(* What a unit puts on the bus, and what the next one will be. *)
WordAt(counter, unit, packet) ==
  IF counter = -1 THEN Sync ELSE Halfword(unit, packet, counter)

(* The sync word counts only after the payload should have ended. *)
Realigns(w, counter) == w = Sync /\ counter > LastHw

(* Bug: the counter is set to the first halfword and then stepped. *)
SkipsOne(counter, w) == Stepped(IF Realigns(w, counter) THEN 0 ELSE counter)
Received(counter, w) == Stepped(IF Realigns(w, counter) THEN -1 ELSE counter)

(* The halfword goes into the buffer, unless it is in the overrun. *)
Stored(buffer, counter, w) ==
  IF ~Realigns(w, counter) /\ counter \in Data THEN [buffer EXCEPT ![counter] = w] ELSE buffer

Completes(counter, w) == ~Realigns(w, counter) /\ counter = LastHw

NoPacket == 0
EmptyBuffer == [i \in Data |-> Empty]

(* What the checksum lets through: one packet, whole. *)
PacketIn(buffer, unit) ==
  LET n == IF buffer[0][1] = "packet" THEN buffer[0][3] ELSE NoPacket
  IN  IF n # NoPacket /\ \A i \in Data : buffer[i] = Halfword(unit, n, i) THEN n ELSE NoPacket
=============================================================================
