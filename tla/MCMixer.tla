------------------------------ MODULE MCMixer ------------------------------
(* Voices and songs for Mixer: two tracks on two direct sound channels and *)
(* one CGB channel.                                                        *)
EXTENDS Mixer

Held  == [kind |-> "wave", cgb |-> 0, attack |-> 3, decay |-> 2, sustain |-> 1, release |-> 2,
          size |-> 3, loopStart |-> 1, loop |-> TRUE, fix |-> FALSE, freq |-> 3]
Once  == [Held EXCEPT !.loop = FALSE, !.attack = 2, !.sustain = 0, !.freq = 1]
Fixed == [Held EXCEPT !.fix = TRUE, !.loopStart = 2, !.release = 3]
Pulse == [Held EXCEPT !.kind = "cgb", !.cgb = 1]
Split == [kind |-> "split", sub |-> [k \in 0 .. 2 |-> IF k = 1 THEN "held" ELSE "split"]]

MCVoices == [none |-> Pulse, held |-> Held, once |-> Once, fixed |-> Fixed, split |-> Split]

Op(op) == [op |-> op]
Set(op, n) == [op |-> op, n |-> n]
Note(key, gate) == [op |-> "note", key |-> key, gate |-> gate]
To(op, to) == [op |-> op, to |-> to]
Rept(n, to) == [op |-> "rept", n |-> n, to |-> to]
Endtie(key) == [op |-> "endtie", key |-> key]

(* Held notes fought over, ties, priorities and a note that overtakes. *)
Melody == <<Set("voice", "held"), Set("vol", 1), Note(1, 0), Set("prio", 1), Note(2, 1), Set("rest", 1),
            Set("vol", 2), Set("pit", 1), Note(0, 2), Set("rest", 1), Endtie(1), Set("rest", 1), Op("fine")>>
Bass   == <<Set("voice", "once"), Set("echoVolume", 1), Set("echoLength", 2), Note(1, 1), Set("rest", 2),
            Set("voice", "split"), Note(2, 1), Note(1, 2), Set("rest", 1), To("goto", 5)>>
(* Tempo, repeats, a CGB note, a voice of fixed pitch. *)
Beep   == <<Set("pit", 1), Note(1, 0), Set("tempo", 3), Set("rest", 1), Set("voice", "fixed"), Note(2, 0), Note(1, 3),
            Set("rest", 2), Rept(2, 2), Rept(0, 1), Op("fine")>>
(* A note held under the LFO, in both of its uses. *)
Lfo    == <<Set("delay", 1), Set("voice", "held"), Set("speed", 1), Set("mod", 3), Note(1, 0), Set("rest", 3),
            Set("modT", 1), Set("rest", 2), Set("mod", 0), Set("rest", 1), To("goto", 3)>>
(* A pattern that calls itself, and one that returns. *)
Nested == <<To("patt", 3), Op("fine"), Set("rest", 1), Note(2, 1), To("patt", 3), Op("fine")>>
Calls  == <<To("patt", 3), To("goto", 1), Set("voice", "held"), Set("rest", 1), Note(1, 1), Op("pend"), Op("fine")>>

MCSongs == {<<Melody, Bass>>, <<Lfo, Beep>>, <<Nested, Beep>>, <<Calls, <<>>>>}
=============================================================================
