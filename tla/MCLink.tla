------------------------------- MODULE MCLink -------------------------------
EXTENDS Link

(* Two consoles and the packets of the game, over either transport; for    *)
(* longer, over a page's; three, the MultiBoot probe and the lobby,        *)
(* against the stand-in peers, longer than the counter takes to wrap; and  *)
(* a lobby left for the game's own packets, with a start word or without   *)
(* one, and entered again.                                                 *)
MCSessions ==
  { [selfIds |-> {0, 1}, players |-> 2, transports |-> {"loopback", "js"}, frames |-> 5,
     calls |-> {"attach", "init", "main", "idle"}],
    [selfIds |-> {1}, players |-> 2, transports |-> {"js"}, frames |-> 6,
     calls |-> {"attach", "main"}],
    [selfIds |-> {0, 1}, players |-> 3, transports |-> {"loopback"}, frames |-> 8,
     calls |-> {"attach", "boot", "lobby", "normal"}],
    [selfIds |-> {0, 1}, players |-> 2, transports |-> {"loopback"}, frames |-> 8,
     calls |-> {"attach", "boot", "lobby", "init", "main"}] }

(* Some halfwords of a packet climb by one, others do not. *)
MCLowBits(w) ==
  CASE w[1] = "packet" -> (w[3] + w[4]) % (SeqMask + 1)
    [] w = Sync -> SeqMask - 1
    [] OTHER -> SeqMask
=============================================================================
