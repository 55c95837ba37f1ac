------------------------------ MODULE Lockstep ------------------------------
(***************************************************************************)
(* What a session promises its players: every frame is played on exactly   *)
(* the words the players gave for it, in order, and never taken back.  It  *)
(* is what the game's own lockstep link does by waiting; Rollback.tla      *)
(* shows that predicting and re-running keeps the same promise.            *)
(***************************************************************************)
EXTENDS Integers, Sequences

CONSTANTS Keys, Frames, Players, Nothing

VARIABLES
  said,      \* said[f][p]: the word player p gave for frame f, or Nothing
  played     \* the words of the frames played so far

lockstepVars == <<said, played>>

Silence == [f \in Frames |-> [p \in Players |-> Nothing]]

Init == said = Silence /\ played = <<>>

(* A player speaks once for a frame, and not for one already played. *)
Say(f, p, k) ==
  /\ said[f][p] = Nothing
  /\ said' = [said EXCEPT ![f][p] = k]
  /\ UNCHANGED played

(* The next n frames are played: everyone has spoken for each of them. *)
Play(n) ==
  /\ n > Len(played)
  /\ \A f \in Len(played) .. n - 1 : \A p \in Players : said[f][p] # Nothing
  /\ played' = played \o [i \in 1 .. n - Len(played) |-> said[Len(played) + i - 1]]
  /\ UNCHANGED said

(* The session ends and is forgotten. *)
Leave == said' = Silence /\ played' = <<>>

Next ==
  \/ \E f \in Frames, p \in Players, k \in Keys : Say(f, p, k)
  \/ \E f \in Frames : Play(f + 1)
  \/ Leave

Spec == Init /\ [][Next]_lockstepVars
=============================================================================
