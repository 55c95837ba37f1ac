----------------------------- MODULE MixerProofs -----------------------------
(***************************************************************************)
(* Theorems about Mixer: the lists of notes, the choice of a channel, what *)
(* a note sounds like and where its sample is read, for any number of      *)
(* tracks and channels, any voices and any songs.                          *)
(***************************************************************************)
EXTENDS Mixer, TLAPS, NaturalsInduction, SequenceTheorems, FiniteSetTheorems

(* --- the invariants ----------------------------------------------------- *)

Tones == {Voices[v] : v \in {w \in DOMAIN Voices : Voices[w].kind # "split"}}

Track ==
  [exist : BOOLEAN, start : BOOLEAN, vlchg : BOOLEAN, ptchg : BOOLEAN, wait : Nat,
   pos : Nat, stack : Seq(Nat), rep : Nat, voice : DOMAIN Voices, vol : Int, volX : Nat, pit : Int,
   key : Keys, gate : Nat, prio : Nat, chan : Chans \cup {0},
   speed : Nat, mod : Nat, modT : Nat, modM : Int, phase : Int, delay : Nat, delayC : Nat,
   echoVolume : Nat, echoLength : Nat]

Channel ==
  [phase : Phases, stop : BOOLEAN, track : Tracks \cup {0}, np : Chans \cup {0},
   pp : Chans \cup {0}, gt : Nat, mk : Keys, pr : Nat, ev : Int, vol : Int, pit : Int,
   tone : Tones, echoVolume : Nat, echoLength : Nat, pos : Int, remain : Int, fw : Nat,
   stale : BOOLEAN]

Pairs == [tr : [Tracks -> Track], ch : [Chans -> Channel]]

(* The lists behind the links: one of distinct channels per track.         *)
Listed(L, tr, ch) ==
  /\ L \in [Tracks -> Seq(Chans)]
  /\ \A t \in Tracks : tr[t].chan = IF L[t] = <<>> THEN 0 ELSE L[t][1]
  /\ \A t \in Tracks : \A i \in DOMAIN L[t] :
       /\ ch[L[t][i]].track = t
       /\ ch[L[t][i]].np = IF i = Len(L[t]) THEN 0 ELSE L[t][i + 1]
       /\ ch[L[t][i]].pp = IF i = 1 THEN 0 ELSE L[t][i - 1]
  /\ \A t \in Tracks : \A i, j \in DOMAIN L[t] : i # j => L[t][i] # L[t][j]
  /\ \A c \in Chans : ch[c].track # 0 => \E i \in DOMAIN L[ch[c].track] : L[ch[c].track][i] = c

Orderly(s) == s \in Pairs /\ \E L : Listed(L, s.tr, s.ch)

(* A note belongs to a track that plays.                                   *)
Owned(s) == \A c \in Chans :
  s.ch[c].track # 0 => s.tr[s.ch[c].track].exist /\ ~s.tr[s.ch[c].track].start

(* A note that sounds is as its track is set, or its track is marked.      *)
Heard(a, tr) ==
  On(a) /\ ~a.stale => (tr.vlchg \/ a.vol = VolumeOf(tr)) /\ (tr.ptchg \/ a.pit = PitchOf(tr))

AsSet(s) == \A c \in Chans : s.ch[c].track # 0 => Heard(s.ch[c], s.tr[s.ch[c].track])

(* The walk through a sample stands on one of its samples.                 *)
Stands(a) ==
  On(a) /\ a.phase # "start" => a.remain \in 1 .. a.tone.size /\ a.pos = a.tone.size - a.remain

Standing(s) == \A c \in Direct : Stands(s.ch[c])

Unmarked(tr) == ~tr.vlchg /\ ~tr.ptchg

Sound(s) ==
  /\ Orderly(s) /\ Owned(s) /\ AsSet(s) /\ Standing(s)
  /\ \A t \in Tracks : ~s.tr[t].exist => Unmarked(s.tr[t])

(* Where a frame stands: which tracks the tick has counted, and where the  *)
(* marks are gone.                                                         *)
Placed ==
  /\ pc \in {"gates", "commands", "push"} => at \in Tracks
  /\ pc = "mix" => at \in Direct
  /\ pc \in {"idle", "cgb", "mix"} => \A t \in Tracks : Unmarked(tracks[t])
  /\ pc = "push" => \A t \in Tracks : t < at => Unmarked(tracks[t])
  /\ pc \in {"gates", "commands"} => \A t \in Tracks : t < at /\ tracks[t].exist => t \in active
  /\ pc = "commands" => at \in active /\ ~tracks[at].start

(* A track reads its program, and comes back to it from its patterns.      *)
Follows(tr, prog) ==
  /\ prog \in Seq(Commands(Len(prog)))
  /\ prog # <<>> => prog[Len(prog)].op \in {"goto", "fine"}
  /\ tr.exist => tr.pos \in DOMAIN prog
  /\ tr.exist /\ ~tr.start => tr.stack \in Seq(DOMAIN prog)

InPrograms == \A t \in Tracks : Follows(tracks[t], song[t])

MixerInv == Sound(State) /\ Placed /\ InPrograms

(* --- counting up --------------------------------------------------------- *)

(* A set of numbers that is not empty has a least.                         *)
LEMMA LeastOf ==
  ASSUME NEW S \in SUBSET Nat, S # {}
  PROVE  \E i \in S : \A j \in S : i <= j
<1>1. PICK i \in S : \A j \in S : <<j, i>> \notin OpToRel(<, Nat)
  BY NatLessThanWellFounded, WFMin
<1>2. ASSUME NEW j \in S PROVE ~(j < i)
  <2>1. <<j, i>> \notin {ss \in Nat \X Nat : ss[1] < ss[2]}
    BY <1>1 DEF OpToRel
  <2>2. j \in Nat /\ i \in Nat
    OBVIOUS
  <2> QED
    BY <2>1, <2>2
<1> QED
  BY <1>2

(* The least member chosen is a member.                                    *)
LEMMA FirstIn ==
  ASSUME NEW S \in SUBSET Nat, S # {}
  PROVE  First(S) \in S
BY LeastOf DEF First

(* What holds at 0 and goes from one to the next holds up to N.            *)
LEMMA UpTo ==
  ASSUME NEW N \in Nat, NEW S, 0 \in S, \A n \in 1 .. N : n - 1 \in S => n \in S
  PROVE  \A n \in 0 .. N : n \in S
<1> SUFFICES ASSUME NEW m \in 0 .. N, m \notin S PROVE FALSE
  OBVIOUS
<1> DEFINE Out == {n \in 0 .. N : n \notin S}
<1>1. Out \in SUBSET Nat /\ Out # {}
  OBVIOUS
<1> HIDE DEF Out
<1>2. PICK n \in Out : \A j \in Out : n <= j
  BY <1>1, LeastOf
<1>3. n \in 1 .. N /\ n \notin S
  BY <1>2 DEF Out
<1>4. n - 1 \in 0 .. N /\ n - 1 \notin Out
  BY <1>2, <1>3
<1> QED
  BY <1>3, <1>4 DEF Out

(* A function that is defined step by step is there.                       *)
Steps(f, N, s, F) == \A n \in 0 .. N : f[n] = IF n = 0 THEN s ELSE F[n][f[n - 1]]

(* Steps that stay in a set can be taken one after the other.              *)
LEMMA Iterates ==
  ASSUME NEW N \in Nat, NEW S, NEW s \in S, NEW F \in [1 .. N -> [S -> S]]
  PROVE  \E f \in [0 .. N -> S] : Steps(f, N, s, F)
<1> DEFINE Up(f, m) == \A n \in 0 .. m : f[n] = IF n = 0 THEN s ELSE F[n][f[n - 1]]
           There == {m \in 0 .. N : \E f \in [0 .. N -> S] : Up(f, m)}
<1>1. 0 \in There
  <2> DEFINE f == [n \in 0 .. N |-> s]
  <2>1. f \in [0 .. N -> S]
    OBVIOUS
  <2>2. ASSUME NEW n \in 0 .. 0 PROVE f[n] = IF n = 0 THEN s ELSE F[n][f[n - 1]]
    BY <2>2
  <2>3. 0 \in 0 .. N
    OBVIOUS
  <2> QED
    BY <2>1, <2>2, <2>3
<1>2. ASSUME NEW m \in 1 .. N, m - 1 \in There PROVE m \in There
  <2>1. PICK f \in [0 .. N -> S] : Up(f, m - 1)
    BY <1>2
  <2> DEFINE g == [f EXCEPT ![m] = F[m][f[m - 1]]]
  <2>2. g \in [0 .. N -> S]
    OBVIOUS
  <2>3. ASSUME NEW n \in 0 .. m PROVE g[n] = IF n = 0 THEN s ELSE F[n][g[n - 1]]
    <3>1. CASE n = m
      BY <3>1
    <3>2. CASE n # m
      <4>1. n \in 0 .. m - 1 /\ n \in 0 .. N
        BY <3>2
      <4>2. f[n] = IF n = 0 THEN s ELSE F[n][f[n - 1]]
        BY <2>1, <4>1
      <4>3. g[n] = f[n] /\ (n # 0 => g[n - 1] = f[n - 1])
        BY <4>1, <3>2
      <4> QED
        BY <4>2, <4>3
    <3> QED
      BY <3>1, <3>2
  <2>4. Up(g, m)
    BY <2>3
  <2>5. m \in 0 .. N
    OBVIOUS
  <2> HIDE DEF g, Up
  <2> QED
    BY <2>2, <2>4, <2>5
<1>3. N \in There
  <2> HIDE DEF There
  <2>1. \A n \in 0 .. N : n \in There
    BY <1>1, <1>2, UpTo
  <2> QED
    BY <2>1
<1> QED
  BY <1>3 DEF Steps

(* Distinct channels are no more than there are.                           *)
LEMMA NoMoreThanThere ==
  ASSUME NEW n \in Nat, NEW l \in Seq(1 .. n), \A i, j \in DOMAIN l : i # j => l[i] # l[j]
  PROVE  Len(l) <= n
<1>1. Len(l) \in Nat /\ l \in [1 .. Len(l) -> 1 .. n]
  OBVIOUS
<1>2. /\ IsFiniteSet(1 .. n) /\ Cardinality(1 .. n) = n
      /\ IsFiniteSet(1 .. Len(l)) /\ Cardinality(1 .. Len(l)) = Len(l)
  <2>1. 1 \in Int /\ n \in Int /\ Len(l) \in Int
    BY <1>1
  <2>2. /\ IsFiniteSet(1 .. n) /\ Cardinality(1 .. n) = IF 1 > n THEN 0 ELSE n - 1 + 1
        /\ IsFiniteSet(1 .. Len(l)) /\ Cardinality(1 .. Len(l)) = IF 1 > Len(l) THEN 0 ELSE Len(l) - 1 + 1
    BY <2>1, FS_Interval
  <2> QED
    BY <1>1, <2>2
<1>3. ~(n < Len(l))
  <2> SUFFICES ASSUME n < Len(l) PROVE FALSE
    OBVIOUS
  <2> DEFINE S == 1 .. Len(l)  T == 1 .. n
  <2>1. IsFiniteSet(S) /\ IsFiniteSet(T) /\ Cardinality(T) < Cardinality(S) /\ l \in [S -> T]
    BY <1>1, <1>2
  <2>2. \A x, y \in S : x # y => l[x] # l[y]
    BY <1>1
  <2> HIDE DEF S, T
  <2>3. \E x, y \in S : x # y /\ l[x] = l[y]
    BY <2>1, FS_PigeonHole
  <2> QED
    BY <2>2, <2>3
<1> QED
  BY <1>1, <1>3

(* --- the lists of notes -------------------------------------------------- *)

(* The tracks and the channels are numbers.                                *)
LEMMA Numbers ==
  /\ MaxChans \in Nat \ {0} /\ NumCgb \in Nat /\ MaxChans + NumCgb \in Nat \ {0}
  /\ Chans = 1 .. MaxChans + NumCgb /\ Direct = 1 .. MaxChans /\ Direct \subseteq Chans
  /\ Chans \subseteq Nat \ {0} /\ Tracks \subseteq Nat \ {0} /\ Tracks = 1 .. NumTracks
  /\ NumTracks \in Nat \ {0}
BY MixerAssumption DEF Chans, Direct, Tracks

(* Following the links gives the list, whole and in order.                 *)
LEMMA ChainIsTheList ==
  ASSUME NEW tr, NEW ch, NEW L, Listed(L, tr, ch), NEW t \in Tracks
  PROVE  ChainFrom(ch, tr[t].chan) = L[t]
<1> DEFINE N == MaxChans + NumCgb
           c == tr[t].chan
           l == L[t]
           nth == CHOOSE f : f = [n \in 1 .. N |-> IF n = 1 THEN c ELSE NextIn(ch, f[n - 1])]
           known == [n \in 1 .. N |-> IF n <= Len(l) THEN l[n] ELSE 0]
<1>1. ChainFrom(ch, c) = [n \in {m \in 1 .. N : nth[m] # 0} |-> nth[n]]
  BY DEF ChainFrom
<1>2. N \in Nat \ {0} /\ Chans = 1 .. N /\ 0 \notin Chans
  BY Numbers
<1>3. l \in Seq(Chans) /\ Len(l) \in Nat /\ DOMAIN l = 1 .. Len(l) /\ \A i \in 1 .. Len(l) : l[i] \in Chans
  BY DEF Listed
<1>4. Len(l) <= N
  <2>1. \A i, j \in DOMAIN l : i # j => l[i] # l[j]
    BY DEF Listed
  <2>2. N \in Nat /\ l \in Seq(1 .. N)
    BY <1>2, <1>3
  <2> HIDE DEF N, l
  <2> QED
    BY <2>1, <2>2, NoMoreThanThere
<1>5. c = IF l = <<>> THEN 0 ELSE l[1]
  BY DEF Listed
<1>6. \A i \in 1 .. Len(l) : ch[l[i]].np = IF i = Len(l) THEN 0 ELSE l[i + 1]
  <2>1. \A i \in DOMAIN L[t] : ch[L[t][i]].np = IF i = Len(L[t]) THEN 0 ELSE L[t][i + 1]
    BY DEF Listed
  <2> QED
    BY <2>1, <1>3
<1>7. l = <<>> <=> Len(l) = 0
  BY <1>3, EmptySeq
<1> HIDE DEF c, l, N
<1>8. \A n \in 1 .. N : known[n] = IF n = 1 THEN c ELSE NextIn(ch, known[n - 1])
  <2> SUFFICES ASSUME NEW n \in 1 .. N
               PROVE  known[n] = IF n = 1 THEN c ELSE NextIn(ch, known[n - 1])
    OBVIOUS
  <2>0. n \in Nat /\ n >= 1 /\ n <= N /\ N \in Nat
    BY <1>2
  <2>1. CASE n = 1
    <3>1. known[n] = IF 1 <= Len(l) THEN l[1] ELSE 0
      BY <2>1
    <3> QED
      BY <3>1, <2>1, <1>3, <1>5, <1>7
  <2>2. CASE n # 1 /\ n - 1 <= Len(l)
    <3>1. n - 1 \in 1 .. N /\ n - 1 \in 1 .. Len(l)
      BY <2>0, <2>2, <1>3
    <3>2. known[n - 1] = l[n - 1]
      BY <3>1, <2>2
    <3>3. l[n - 1] # 0
      BY <3>1, <1>3, <1>2
    <3>4. NextIn(ch, known[n - 1]) = ch[l[n - 1]].np
      BY <3>2, <3>3 DEF NextIn
    <3>5. ch[l[n - 1]].np = IF n - 1 = Len(l) THEN 0 ELSE l[n - 1 + 1]
      BY <3>1, <1>6
    <3>6. n - 1 + 1 = n
      BY <2>0
    <3>7. known[n] = IF n <= Len(l) THEN l[n] ELSE 0
      OBVIOUS
    <3>8. n <= Len(l) <=> n - 1 # Len(l)
      BY <2>0, <2>2, <1>3
    <3> QED
      BY <2>2, <3>4, <3>5, <3>6, <3>7, <3>8
  <2>3. CASE n # 1 /\ ~(n - 1 <= Len(l))
    <3>1. n - 1 \in 1 .. N /\ ~(n <= Len(l))
      BY <2>0, <2>3, <1>3
    <3>2. known[n - 1] = 0 /\ known[n] = 0
      BY <3>1, <2>3
    <3> QED
      BY <3>2, <2>3 DEF NextIn
  <2> QED
    BY <2>1, <2>2, <2>3
<1>9. known = [n \in 1 .. N |-> IF n = 1 THEN c ELSE NextIn(ch, known[n - 1])]
  <2> HIDE DEF known
  <2>1. known = [n \in 1 .. N |-> known[n]]
    BY DEF known
  <2> QED
    BY <2>1, <1>8
<1>10. nth = [n \in 1 .. N |-> IF n = 1 THEN c ELSE NextIn(ch, nth[n - 1])]
  <2> HIDE DEF known
  <2> QED
    BY <1>9
<1> HIDE DEF nth
<1>11. \A n \in 1 .. N : nth[n] = known[n]
  <2> DEFINE S == {m \in 0 .. N : m = 0 \/ nth[m] = known[m]}
  <2>1. 0 \in S
    BY <1>2
  <2>2. ASSUME NEW n \in 1 .. N, n - 1 \in S PROVE n \in S
    <3>1. nth[n] = IF n = 1 THEN c ELSE NextIn(ch, nth[n - 1])
      BY <1>10
    <3>2. known[n] = IF n = 1 THEN c ELSE NextIn(ch, known[n - 1])
      BY <1>8
    <3>3. n # 1 => nth[n - 1] = known[n - 1]
      BY <2>2, <1>2
    <3>4. n \in 0 .. N
      BY <1>2
    <3> HIDE DEF known
    <3> QED
      BY <3>1, <3>2, <3>3, <3>4
  <2>3. N \in Nat
    BY <1>2
  <2> HIDE DEF S
  <2>4. \A n \in 0 .. N : n \in S
    BY <2>1, <2>2, <2>3, UpTo
  <2>5. ASSUME NEW n \in 1 .. N PROVE n \in 0 .. N /\ n # 0
    BY <2>3
  <2>6. ASSUME NEW n \in 1 .. N PROVE n \in S
    BY <2>4, <2>5
  <2> QED
    BY <2>5, <2>6 DEF S
<1>12. {m \in 1 .. N : nth[m] # 0} = 1 .. Len(l)
  <2>1. \A m \in 1 .. N : nth[m] # 0 <=> m <= Len(l)
    BY <1>11, <1>2, <1>3
  <2> QED
    BY <2>1, <1>2, <1>3, <1>4
<1>13. \A m \in 1 .. Len(l) : nth[m] = l[m]
  BY <1>11, <1>2, <1>3, <1>4
<1>14. [n \in 1 .. Len(l) |-> nth[n]] = l
  BY <1>13, <1>3
<1> QED
  BY <1>1, <1>12, <1>14 DEF c, l, N

(* Two notes alike but for the list they are in, two tracks but for theirs. *)
SameNote(a, b) ==
  /\ b.phase = a.phase /\ b.stop = a.stop /\ b.stale = a.stale
  /\ b.vol = a.vol /\ b.pit = a.pit /\ b.tone = a.tone
  /\ b.pos = a.pos /\ b.remain = a.remain /\ b.fw = a.fw

SameTrack(a, b) ==
  /\ b.exist = a.exist /\ b.start = a.start /\ b.vlchg = a.vlchg /\ b.ptchg = a.ptchg
  /\ b.pos = a.pos /\ b.stack = a.stack
  /\ b.vol = a.vol /\ b.volX = a.volX /\ b.pit = a.pit /\ b.modT = a.modT /\ b.modM = a.modM

Relinked(s, r) ==
  /\ r \in Pairs
  /\ \A c \in Chans : SameNote(s.ch[c], r.ch[c])
  /\ \A t \in Tracks : SameTrack(s.tr[t], r.tr[t])

(* The fields the lists are made of.                                       *)
LEMMA LinkTypes ==
  /\ \A s \in Pairs : s.tr \in [Tracks -> Track] /\ s.ch \in [Chans -> Channel]
  /\ \A a \in Channel : a.track \in Tracks \cup {0} /\ a.np \in Chans \cup {0} /\ a.pp \in Chans \cup {0}
  /\ \A a : SameNote(a, a) /\ SameTrack(a, a)
  /\ \A a \in Track : a.chan \in Chans \cup {0}
BY DEF Pairs, Channel, Track, SameNote, SameTrack

(* Likeness carries over from one step to the next.                        *)
LEMMA SameAgain ==
  /\ \A a, b, c : SameNote(a, b) /\ SameNote(b, c) => SameNote(a, c)
  /\ \A a, b, c : SameTrack(a, b) /\ SameTrack(b, c) => SameTrack(a, c)
BY DEF SameNote, SameTrack

(* What RealClearChain does to the links.                                  *)
LEMMA ClearedLinks ==
  ASSUME NEW s \in Pairs, NEW c \in Chans, s.ch[c].track # 0,
         NEW r, r = RealClearChain(s, c)
  PROVE  /\ Relinked(s, r)
         /\ \A d \in Chans : r.ch[d].track = IF d = c THEN 0 ELSE s.ch[d].track
         /\ \A d \in Chans : r.ch[d].np = IF d = s.ch[c].pp THEN s.ch[c].np ELSE s.ch[d].np
         /\ \A d \in Chans : r.ch[d].pp = IF d = s.ch[c].np THEN s.ch[c].pp ELSE s.ch[d].pp
         /\ \A t \in Tracks : r.tr[t].chan = IF t = s.ch[c].track /\ s.ch[c].pp = 0 THEN s.ch[c].np
                                                                                     ELSE s.tr[t].chan
<1> DEFINE t0 == s.ch[c].track  np == s.ch[c].np  pp == s.ch[c].pp
<1>1. /\ s.tr \in [Tracks -> Track] /\ s.ch \in [Chans -> Channel] /\ 0 \notin Chans
      /\ t0 \in Tracks /\ np \in Chans \cup {0} /\ pp \in Chans \cup {0}
  BY LinkTypes, Numbers
<1>2. PICK back : back = BackPast(s.ch, c)
  OBVIOUS
<1>3. /\ back \in [Chans -> Channel]
      /\ \A d \in Chans : back[d] = IF d = np THEN [s.ch[d] EXCEPT !.pp = pp] ELSE s.ch[d]
  <2>1. CASE np = 0
    BY <1>1, <1>2, <2>1 DEF BackPast
  <2>2. CASE np # 0
    <3>1. back = [s.ch EXCEPT ![np] = [s.ch[np] EXCEPT !.pp = pp]]
      BY <1>2, <2>2 DEF BackPast
    <3>2. s.ch[np] \in Channel
      BY <1>1, <2>2
    <3>3. [s.ch[np] EXCEPT !.pp = pp] \in Channel
      BY <1>1, <3>2 DEF Channel
    <3> QED
      BY <1>1, <2>2, <3>1, <3>3
  <2> QED
    BY <2>1, <2>2
<1>4. \A d \in Chans : /\ SameNote(s.ch[d], back[d]) /\ back[d].np = s.ch[d].np
                       /\ back[d].track = s.ch[d].track
                       /\ back[d].pp = IF d = np THEN pp ELSE s.ch[d].pp
  <2> SUFFICES ASSUME NEW d \in Chans
               PROVE  /\ SameNote(s.ch[d], back[d]) /\ back[d].np = s.ch[d].np
                      /\ back[d].track = s.ch[d].track
                      /\ back[d].pp = IF d = np THEN pp ELSE s.ch[d].pp
    OBVIOUS
  <2>1. s.ch[d] \in Channel /\ SameNote(s.ch[d], s.ch[d])
    BY <1>1, LinkTypes
  <2> QED
    BY <1>1, <1>3, <2>1 DEF Channel, SameNote
<1>5. CASE pp = 0
  <2>1. r = [tr |-> [s.tr EXCEPT ![t0] = [s.tr[t0] EXCEPT !.chan = np]],
             ch |-> [back EXCEPT ![c] = [back[c] EXCEPT !.track = 0]]]
    BY <1>2, <1>5 DEF RealClearChain
  <2>2. [s.tr[t0] EXCEPT !.chan = np] \in Track /\ [back[c] EXCEPT !.track = 0] \in Channel
    <3>1. s.tr[t0] \in Track /\ back[c] \in Channel
      BY <1>1, <1>3
    <3> QED
      BY <1>1, <3>1 DEF Track, Channel
  <2>3. /\ r.tr \in [Tracks -> Track] /\ r.ch \in [Chans -> Channel] /\ r \in Pairs
        /\ \A d \in Chans : r.ch[d] = IF d = c THEN [back[c] EXCEPT !.track = 0] ELSE back[d]
        /\ \A t \in Tracks : r.tr[t] = IF t = t0 THEN [s.tr[t0] EXCEPT !.chan = np] ELSE s.tr[t]
    <3>1. [s.tr EXCEPT ![t0] = [s.tr[t0] EXCEPT !.chan = np]] \in [Tracks -> Track]
      BY <1>1, <2>2
    <3>2. [back EXCEPT ![c] = [back[c] EXCEPT !.track = 0]] \in [Chans -> Channel]
      BY <1>3, <2>2
    <3>3. /\ r \in Pairs /\ r.tr = [s.tr EXCEPT ![t0] = [s.tr[t0] EXCEPT !.chan = np]]
          /\ r.ch = [back EXCEPT ![c] = [back[c] EXCEPT !.track = 0]]
      BY <2>1, <3>1, <3>2 DEF Pairs
    <3> QED
      BY <1>1, <1>3, <3>1, <3>2, <3>3
  <2>4. \A d \in Chans : /\ SameNote(back[d], r.ch[d]) /\ r.ch[d].np = back[d].np /\ r.ch[d].pp = back[d].pp
                         /\ r.ch[d].track = IF d = c THEN 0 ELSE back[d].track
    <3> SUFFICES ASSUME NEW d \in Chans
                 PROVE  /\ SameNote(back[d], r.ch[d]) /\ r.ch[d].np = back[d].np /\ r.ch[d].pp = back[d].pp
                        /\ r.ch[d].track = IF d = c THEN 0 ELSE back[d].track
      OBVIOUS
    <3>1. back[d] \in Channel /\ SameNote(back[d], back[d])
      BY <1>3, LinkTypes
    <3> QED
      BY <2>3, <3>1 DEF Channel, SameNote
  <2>5. \A t \in Tracks : SameTrack(s.tr[t], r.tr[t]) /\ r.tr[t].chan = IF t = t0 THEN np ELSE s.tr[t].chan
    <3> SUFFICES ASSUME NEW t \in Tracks
                 PROVE  SameTrack(s.tr[t], r.tr[t]) /\ r.tr[t].chan = IF t = t0 THEN np ELSE s.tr[t].chan
      OBVIOUS
    <3>1. s.tr[t] \in Track /\ SameTrack(s.tr[t], s.tr[t])
      BY <1>1, LinkTypes
    <3> QED
      <4>1. CASE t = t0
        <5>1. r.tr[t] = [s.tr[t] EXCEPT !.chan = np]
          BY <1>1, <2>3, <4>1
        <5>2. r.tr[t].chan = np
          BY <3>1, <5>1 DEF Track
        <5>3. SameTrack(s.tr[t], r.tr[t])
          BY <3>1, <5>1 DEF Track, SameTrack
        <5> QED
          BY <4>1, <5>2, <5>3
      <4>2. CASE t # t0
        BY <2>3, <3>1, <4>2
      <4> QED
        BY <4>1, <4>2
  <2>6. Relinked(s, r)
    BY <1>4, <2>3, <2>4, <2>5, SameAgain DEF Relinked
  <2> QED
    BY <1>1, <1>4, <1>5, <2>4, <2>5, <2>6
<1>6. CASE pp # 0
  <2> DEFINE mid == [back EXCEPT ![pp] = [back[pp] EXCEPT !.np = np]]
  <2>1. r = [tr |-> s.tr, ch |-> [mid EXCEPT ![c] = [mid[c] EXCEPT !.track = 0]]]
    BY <1>2, <1>6, <1>1 DEF RealClearChain
  <2>2. /\ mid \in [Chans -> Channel]
        /\ \A d \in Chans : mid[d] = IF d = pp THEN [back[d] EXCEPT !.np = np] ELSE back[d]
    <3>1. back[pp] \in Channel
      BY <1>1, <1>3, <1>6
    <3>2. [back[pp] EXCEPT !.np = np] \in Channel
      BY <1>1, <3>1 DEF Channel
    <3> QED
      BY <1>1, <1>3, <1>6, <3>2
  <2> HIDE DEF mid
  <2>3. \A d \in Chans : /\ SameNote(back[d], mid[d]) /\ mid[d].track = back[d].track /\ mid[d].pp = back[d].pp
                         /\ mid[d].np = IF d = pp THEN np ELSE back[d].np
    <3> SUFFICES ASSUME NEW d \in Chans
                 PROVE  /\ SameNote(back[d], mid[d]) /\ mid[d].track = back[d].track /\ mid[d].pp = back[d].pp
                        /\ mid[d].np = IF d = pp THEN np ELSE back[d].np
      OBVIOUS
    <3>1. back[d] \in Channel /\ SameNote(back[d], back[d])
      BY <1>3, LinkTypes
    <3> QED
      BY <1>1, <2>2, <3>1 DEF Channel, SameNote
  <2>4. [mid[c] EXCEPT !.track = 0] \in Channel
    BY <2>2 DEF Channel
  <2>5. /\ r.tr = s.tr /\ r.ch \in [Chans -> Channel] /\ r \in Pairs
        /\ \A d \in Chans : r.ch[d] = IF d = c THEN [mid[c] EXCEPT !.track = 0] ELSE mid[d]
    <3>1. [mid EXCEPT ![c] = [mid[c] EXCEPT !.track = 0]] \in [Chans -> Channel]
      BY <2>2, <2>4
    <3>2. r.tr = s.tr /\ r \in Pairs /\ r.ch = [mid EXCEPT ![c] = [mid[c] EXCEPT !.track = 0]]
      BY <1>1, <2>1, <3>1 DEF Pairs
    <3> QED
      BY <2>2, <3>1, <3>2
  <2>6. \A d \in Chans : /\ SameNote(mid[d], r.ch[d]) /\ r.ch[d].np = mid[d].np /\ r.ch[d].pp = mid[d].pp
                         /\ r.ch[d].track = IF d = c THEN 0 ELSE mid[d].track
    <3> SUFFICES ASSUME NEW d \in Chans
                 PROVE  /\ SameNote(mid[d], r.ch[d]) /\ r.ch[d].np = mid[d].np /\ r.ch[d].pp = mid[d].pp
                        /\ r.ch[d].track = IF d = c THEN 0 ELSE mid[d].track
      OBVIOUS
    <3>1. mid[d] \in Channel /\ SameNote(mid[d], mid[d])
      BY <2>2, LinkTypes
    <3> QED
      BY <2>5, <3>1 DEF Channel, SameNote
  <2>7. \A d \in Chans : SameNote(s.ch[d], r.ch[d])
    BY <1>4, <2>3, <2>6, SameAgain
  <2>8. \A t \in Tracks : SameTrack(s.tr[t], r.tr[t])
    BY <1>1, <2>5, LinkTypes
  <2>9. Relinked(s, r)
    BY <2>5, <2>7, <2>8 DEF Relinked
  <2> QED
    BY <1>1, <1>4, <1>6, <2>3, <2>5, <2>6, <2>9
<1> QED
  BY <1>5, <1>6

(* A list without its i-th.                                                *)
Without(l, i) == [j \in 1 .. Len(l) - 1 |-> IF j < i THEN l[j] ELSE l[j + 1]]

(* A list one of whose members is taken out.                               *)
LEMMA WithoutList ==
  ASSUME NEW l \in Seq(Chans), NEW i \in 1 .. Len(l), \A j, k \in 1 .. Len(l) : j # k => l[j] # l[k]
  PROVE  LET m == Without(l, i) IN
         /\ m \in Seq(Chans) /\ Len(m) = Len(l) - 1 /\ DOMAIN m = 1 .. Len(m)
         /\ \A j, k \in 1 .. Len(m) : j # k => m[j] # m[k]
         /\ \A k \in 1 .. Len(l) : k # i => \E j \in 1 .. Len(m) : m[j] = l[k]
         /\ \A j \in 1 .. Len(m) : m[j] # l[i]
<1> DEFINE n == Len(l)  m == Without(l, i)
<1>1. n \in Nat /\ n - 1 \in Nat /\ i \in Nat /\ i >= 1 /\ i <= n /\ \A j \in 1 .. n : l[j] \in Chans
  OBVIOUS
<1> HIDE DEF n
<1>2. m = [j \in 1 .. n - 1 |-> IF j < i THEN l[j] ELSE l[j + 1]]
  BY DEF Without, n
<1> HIDE DEF m
<1>3. \A j \in 1 .. n - 1 : m[j] = IF j < i THEN l[j] ELSE l[j + 1]
  BY <1>2
<1>4. \A j \in 1 .. n - 1 : j \in 1 .. n /\ j + 1 \in 1 .. n /\ (j < i => j # i) /\ (~(j < i) => j + 1 # i)
  BY <1>1
<1>5. m \in [1 .. n - 1 -> Chans]
  BY <1>1, <1>2, <1>4
<1>6. m \in Seq(Chans) /\ Len(m) = n - 1 /\ DOMAIN m = 1 .. n - 1
  BY <1>1, <1>5
<1>7. \A j, k \in 1 .. n : j # k => l[j] # l[k]
  BY DEF n
<1>8. \A j, k \in 1 .. n - 1 : j # k => m[j] # m[k]
  <2> SUFFICES ASSUME NEW j \in 1 .. n - 1, NEW k \in 1 .. n - 1, j # k PROVE m[j] # m[k]
    OBVIOUS
  <2> DEFINE a == IF j < i THEN j ELSE j + 1  b == IF k < i THEN k ELSE k + 1
  <2>1. a \in 1 .. n /\ b \in 1 .. n /\ a # b
    BY <1>1
  <2>2. m[j] = l[a] /\ m[k] = l[b]
    BY <1>3
  <2> QED
    BY <1>7, <2>1, <2>2
<1>9. ASSUME NEW k \in 1 .. n, k # i PROVE \E j \in 1 .. n - 1 : m[j] = l[k]
  <2>1. CASE k < i
    <3>1. k \in 1 .. n - 1
      BY <1>1, <2>1
    <3> QED
      BY <1>3, <2>1, <3>1
  <2>2. CASE ~(k < i)
    <3>1. k - 1 \in 1 .. n - 1 /\ ~(k - 1 < i) /\ k - 1 + 1 = k
      BY <1>1, <1>9, <2>2
    <3> QED
      BY <1>3, <3>1
  <2> QED
    BY <2>1, <2>2
<1>10. \A j \in 1 .. n - 1 : m[j] # l[i]
  BY <1>1, <1>3, <1>4, <1>7
<1> QED
  BY <1>6, <1>8, <1>9, <1>10 DEF n, m

(* A channel cut from its list: the lists without it.                      *)
LEMMA ClearedLists ==
  ASSUME NEW s \in Pairs, NEW c \in Chans, NEW L, Listed(L, s.tr, s.ch), NEW r, r = RealClearChain(s, c)
  PROVE  /\ Relinked(s, r)
         /\ \A d \in Chans : r.ch[d].track = IF d = c THEN 0 ELSE s.ch[d].track
         /\ \E M : Listed(M, r.tr, r.ch)
<1>1. CASE s.ch[c].track = 0
  <2>1. r = s
    BY <1>1 DEF RealClearChain
  <2>2. Relinked(s, r)
    BY <2>1, LinkTypes DEF Relinked
  <2> QED
    BY <1>1, <2>1, <2>2
<1>2. CASE s.ch[c].track # 0
  <2> DEFINE t0 == s.ch[c].track  np == s.ch[c].np  pp == s.ch[c].pp  l == L[t0]
  <2>1. /\ s.tr \in [Tracks -> Track] /\ s.ch \in [Chans -> Channel] /\ 0 \notin Chans /\ 0 \notin Tracks
        /\ t0 \in Tracks /\ np \in Chans \cup {0} /\ pp \in Chans \cup {0}
    BY <1>2, LinkTypes, Numbers
  <2>2. /\ Relinked(s, r)
        /\ \A d \in Chans : r.ch[d].track = IF d = c THEN 0 ELSE s.ch[d].track
        /\ \A d \in Chans : r.ch[d].np = IF d = pp THEN np ELSE s.ch[d].np
        /\ \A d \in Chans : r.ch[d].pp = IF d = np THEN pp ELSE s.ch[d].pp
        /\ \A t \in Tracks : r.tr[t].chan = IF t = t0 /\ pp = 0 THEN np ELSE s.tr[t].chan
    BY <1>2, ClearedLinks
  <2>3. PICK i \in DOMAIN l : l[i] = c
    BY <1>2, <2>1 DEF Listed
  <2>4. /\ l \in Seq(Chans) /\ DOMAIN l = 1 .. Len(l) /\ Len(l) \in Nat
        /\ \A j, k \in 1 .. Len(l) : j # k => l[j] # l[k]
        /\ \A j \in 1 .. Len(l) : l[j] \in Chans
    BY <2>1 DEF Listed
  <2>5. \A j \in 1 .. Len(l) : /\ s.ch[l[j]].track = t0
                               /\ s.ch[l[j]].np = IF j = Len(l) THEN 0 ELSE l[j + 1]
                               /\ s.ch[l[j]].pp = IF j = 1 THEN 0 ELSE l[j - 1]
    <3>1. \A j \in DOMAIN L[t0] : /\ s.ch[L[t0][j]].track = t0
                                  /\ s.ch[L[t0][j]].np = IF j = Len(L[t0]) THEN 0 ELSE L[t0][j + 1]
                                  /\ s.ch[L[t0][j]].pp = IF j = 1 THEN 0 ELSE L[t0][j - 1]
      BY <2>1 DEF Listed
    <3> QED
      BY <2>4, <3>1
  <2>6. PICK m : m = Without(l, i)
    OBVIOUS
  <2>7. i \in 1 .. Len(l)
    BY <2>3, <2>4
  <2>8. /\ m \in Seq(Chans) /\ Len(m) = Len(l) - 1 /\ DOMAIN m = 1 .. Len(m)
        /\ \A j, k \in 1 .. Len(m) : j # k => m[j] # m[k]
        /\ \A k \in 1 .. Len(l) : k # i => \E j \in 1 .. Len(m) : m[j] = l[k]
        /\ \A j \in 1 .. Len(m) : m[j] # l[i]
    <3> DEFINE w == Without(l, i)
    <3> HIDE DEF l
    <3>1. l \in Seq(Chans) /\ i \in 1 .. Len(l) /\ \A j, k \in 1 .. Len(l) : j # k => l[j] # l[k]
      BY <2>4, <2>7
    <3>2. /\ w \in Seq(Chans) /\ Len(w) = Len(l) - 1 /\ DOMAIN w = 1 .. Len(w)
          /\ \A j, k \in 1 .. Len(w) : j # k => w[j] # w[k]
          /\ \A k \in 1 .. Len(l) : k # i => \E j \in 1 .. Len(w) : w[j] = l[k]
          /\ \A j \in 1 .. Len(w) : w[j] # l[i]
      BY <3>1, WithoutList, Zenon
    <3> QED
      BY <2>6, <3>2
  <2>9. \A j \in 1 .. Len(m) : m[j] = IF j < i THEN l[j] ELSE l[j + 1]
    BY <2>4, <2>6, <2>8 DEF Without
  <2>10. /\ np = IF i = Len(l) THEN 0 ELSE l[i + 1]
         /\ pp = IF i = 1 THEN 0 ELSE l[i - 1]
    BY <2>3, <2>5, <2>7
  <2> DEFINE M == [L EXCEPT ![t0] = m]
  <2>11. L \in [Tracks -> Seq(Chans)]
    BY DEF Listed
  <2>12. M \in [Tracks -> Seq(Chans)] /\ M[t0] = m /\ \A t \in Tracks : t # t0 => M[t] = L[t]
    BY <2>1, <2>8, <2>11
  <2> HIDE DEF M, np, pp, l, t0
  <2>13. \A t \in Tracks : r.tr[t].chan = IF M[t] = <<>> THEN 0 ELSE M[t][1]
    <3> SUFFICES ASSUME NEW t \in Tracks PROVE r.tr[t].chan = IF M[t] = <<>> THEN 0 ELSE M[t][1]
      OBVIOUS
    <3>1. s.tr[t].chan = IF L[t] = <<>> THEN 0 ELSE L[t][1]
      BY DEF Listed
    <3>2. CASE t # t0
      BY <2>2, <2>12, <3>1, <3>2
    <3>3. CASE t = t0
      <4>1. m = <<>> <=> Len(m) = 0
        BY <2>8, EmptySeq
      <4>2. l # <<>> /\ s.tr[t].chan = l[1]
        BY <2>7, <2>4, <3>1, <3>3 DEF l
      <4>3. CASE i = 1
        <5>1. pp = 0 /\ r.tr[t].chan = np
          BY <2>2, <2>10, <3>3, <4>3
        <5>2. Len(m) = 0 <=> Len(l) = 1
          BY <2>8, <2>4
        <5>3. Len(m) # 0 => m[1] = l[2]
          BY <2>8, <2>9, <4>3
        <5> QED
          BY <2>10, <2>12, <3>3, <4>1, <4>3, <5>1, <5>2, <5>3
      <4>4. CASE i # 1
        <5>1. pp = l[i - 1] /\ i - 1 \in 1 .. Len(l)
          BY <2>7, <2>10, <2>4, <4>4
        <5>2. pp # 0
          BY <2>1, <2>4, <5>1
        <5>3. r.tr[t].chan = l[1]
          BY <2>2, <4>2, <5>2
        <5>4. 1 \in 1 .. Len(m) /\ 1 < i
          BY <2>7, <2>8, <2>4, <4>4
        <5> QED
          BY <2>9, <2>12, <3>3, <4>1, <5>3, <5>4
      <4> QED
        BY <4>3, <4>4
    <3> QED
      BY <3>2, <3>3
  <2>14. \A t \in Tracks : \A k \in DOMAIN M[t] :
           /\ r.ch[M[t][k]].track = t
           /\ r.ch[M[t][k]].np = IF k = Len(M[t]) THEN 0 ELSE M[t][k + 1]
           /\ r.ch[M[t][k]].pp = IF k = 1 THEN 0 ELSE M[t][k - 1]
    <3> SUFFICES ASSUME NEW t \in Tracks, NEW k \in DOMAIN M[t]
                 PROVE  /\ r.ch[M[t][k]].track = t
                        /\ r.ch[M[t][k]].np = IF k = Len(M[t]) THEN 0 ELSE M[t][k + 1]
                        /\ r.ch[M[t][k]].pp = IF k = 1 THEN 0 ELSE M[t][k - 1]
      OBVIOUS
    <3>1. CASE t # t0
      <4>1. M[t] = L[t] /\ k \in DOMAIN L[t] /\ L[t][k] \in Chans
        BY <2>11, <2>12, <3>1
      <4>2. /\ s.ch[L[t][k]].track = t
            /\ s.ch[L[t][k]].np = IF k = Len(L[t]) THEN 0 ELSE L[t][k + 1]
            /\ s.ch[L[t][k]].pp = IF k = 1 THEN 0 ELSE L[t][k - 1]
        BY <4>1 DEF Listed
      <4>3. L[t][k] # c
        BY <3>1, <4>2 DEF t0
      <4>4. \A j \in 1 .. Len(l) : L[t][k] # l[j]
        BY <2>5, <3>1, <4>2
      <4>5. np # 0 => np = l[i + 1] /\ i + 1 \in 1 .. Len(l)
        BY <2>4, <2>7, <2>10
      <4>6. pp # 0 => pp = l[i - 1] /\ i - 1 \in 1 .. Len(l)
        BY <2>4, <2>7, <2>10
      <4>7. L[t][k] # np /\ L[t][k] # pp
        BY <2>1, <4>1, <4>4, <4>5, <4>6
      <4> QED
        BY <2>2, <4>1, <4>2, <4>3, <4>7
    <3>2. CASE t = t0
      <4>1. k \in 1 .. Len(m) /\ M[t] = m /\ k \in Nat /\ k >= 1 /\ k <= Len(l) - 1 /\ i \in Nat /\ i >= 1 /\ i <= Len(l)
        BY <2>4, <2>7, <2>8, <2>12, <3>2
      <4> DEFINE d == m[k]
      <4>2. d \in Chans /\ d # c
        BY <2>3, <2>8, <4>1
      <4>3. CASE k < i
        <5>1. d = l[k] /\ k \in 1 .. Len(l) /\ k # Len(l)
          <6>1. d = l[k]
            BY <2>9, <4>1, <4>3
          <6>2. Len(l) \in Nat
            BY <2>4
          <6>3. k \in 1 .. Len(l) /\ k # Len(l)
            BY <4>1, <6>2
          <6> QED
            BY <6>1, <6>3
        <5>2. /\ s.ch[d].track = t0 /\ s.ch[d].np = l[k + 1]
              /\ s.ch[d].pp = IF k = 1 THEN 0 ELSE l[k - 1]
          BY <2>5, <5>1
        <5>3. d = pp <=> k = i - 1
          <6>1. CASE i = 1
            BY <2>1, <2>10, <4>1, <4>2, <4>3, <6>1
          <6>2. CASE i # 1
            <7>1. i - 1 \in 1 .. Len(l) /\ pp = l[i - 1]
              BY <2>10, <2>4, <4>1, <6>2
            <7> QED
              BY <2>4, <5>1, <7>1
          <6> QED
            BY <6>1, <6>2
        <5>4. d # np
          <6>1. CASE i = Len(l)
            BY <2>1, <2>10, <4>2, <6>1
          <6>2. CASE i # Len(l)
            <7>1. i + 1 \in 1 .. Len(l) /\ np = l[i + 1] /\ i + 1 # k
              BY <2>10, <2>4, <4>1, <4>3, <6>2
            <7> QED
              BY <2>4, <5>1, <7>1
          <6> QED
            BY <6>1, <6>2
        <5>5. r.ch[d].track = t0 /\ r.ch[d].pp = IF k = 1 THEN 0 ELSE l[k - 1]
          BY <2>2, <4>2, <5>2, <5>4
        <5>6. k # 1 => m[k - 1] = l[k - 1]
          <6> SUFFICES ASSUME k # 1 PROVE m[k - 1] = l[k - 1]
            OBVIOUS
          <6>1. k - 1 \in 1 .. Len(m) /\ k - 1 < i
            BY <2>8, <2>4, <4>1, <4>3
          <6> QED
            BY <2>9, <6>1
        <5>7. r.ch[d].np = IF k = Len(m) THEN 0 ELSE m[k + 1]
          <6>1. CASE k = i - 1
            <7>1. r.ch[d].np = np
              BY <2>2, <4>2, <5>3, <6>1
            <7>2. k + 1 = i /\ (k = Len(m) <=> i = Len(l))
              BY <2>8, <2>4, <4>1, <6>1
            <7>3. k # Len(m) => m[i] = l[i + 1]
              <8> SUFFICES ASSUME k # Len(m) PROVE m[i] = l[i + 1]
                OBVIOUS
              <8>1. i \in 1 .. Len(m) /\ ~(i < i)
                BY <2>8, <2>4, <4>1, <7>2
              <8> QED
                BY <2>9, <8>1
            <7> QED
              BY <2>10, <7>1, <7>2, <7>3
          <6>2. CASE k # i - 1
            <7>1. r.ch[d].np = l[k + 1]
              BY <2>2, <4>2, <5>2, <5>3, <6>2
            <7>2. k + 1 \in 1 .. Len(m) /\ k + 1 < i /\ k # Len(m)
              BY <2>8, <2>4, <4>1, <4>3, <6>2
            <7> QED
              BY <2>9, <7>1, <7>2
          <6> QED
            BY <6>1, <6>2
        <5> QED
          BY <3>2, <4>1, <5>5, <5>6, <5>7
      <4>4. CASE ~(k < i)
        <5>1. d = l[k + 1] /\ k + 1 \in 1 .. Len(l) /\ k + 1 # 1 /\ k + 1 - 1 = k
          BY <2>4, <2>9, <4>1, <4>4
        <5>2. /\ s.ch[d].track = t0 /\ s.ch[d].pp = l[k]
              /\ s.ch[d].np = IF k + 1 = Len(l) THEN 0 ELSE l[k + 1 + 1]
          <6> DEFINE j == k + 1
          <6>1. j \in 1 .. Len(l) /\ j # 1 /\ j - 1 = k /\ d = l[j]
            BY <4>1, <5>1
          <6> HIDE DEF j
          <6>2. /\ s.ch[d].track = t0 /\ s.ch[d].pp = l[k]
                /\ s.ch[d].np = IF j = Len(l) THEN 0 ELSE l[j + 1]
            BY <2>5, <6>1
          <6> QED
            BY <6>2 DEF j
        <5>3. d = np <=> k = i
          <6>1. CASE i = Len(l)
            BY <4>1, <4>4, <6>1, <2>4
          <6>2. CASE i # Len(l)
            <7>1. i + 1 \in 1 .. Len(l) /\ np = l[i + 1] /\ (i + 1 = k + 1 <=> k = i)
              BY <2>10, <2>4, <4>1, <6>2
            <7> QED
              BY <2>4, <5>1, <7>1
          <6> QED
            BY <6>1, <6>2
        <5>4. d # pp
          <6>1. CASE i = 1
            BY <2>1, <2>10, <4>2, <6>1
          <6>2. CASE i # 1
            <7>1. i - 1 \in 1 .. Len(l) /\ pp = l[i - 1] /\ i - 1 # k + 1
              BY <2>10, <2>4, <4>1, <4>4, <6>2
            <7> QED
              BY <2>4, <5>1, <7>1
          <6> QED
            BY <6>1, <6>2
        <5>5. r.ch[d].track = t0 /\ r.ch[d].np = IF k + 1 = Len(l) THEN 0 ELSE l[k + 1 + 1]
          BY <2>2, <4>2, <5>2, <5>4
        <5>6. (k + 1 = Len(l) <=> k = Len(m)) /\ (k # Len(m) => m[k + 1] = l[k + 1 + 1])
          <6>1. k + 1 = Len(l) <=> k = Len(m)
            BY <2>8, <2>4, <4>1
          <6>2. ASSUME k # Len(m) PROVE m[k + 1] = l[k + 1 + 1]
            <7>1. k + 1 \in 1 .. Len(m) /\ ~(k + 1 < i)
              BY <2>8, <2>4, <4>1, <4>4, <6>2
            <7> QED
              BY <2>9, <7>1
          <6> QED
            BY <6>1, <6>2
        <5>7. r.ch[d].pp = IF k = 1 THEN 0 ELSE m[k - 1]
          <6>1. CASE k = i
            <7>1. r.ch[d].pp = pp
              BY <2>2, <4>2, <5>3, <6>1
            <7>2. k # 1 => m[k - 1] = l[k - 1]
              <8> SUFFICES ASSUME k # 1 PROVE m[k - 1] = l[k - 1]
                OBVIOUS
              <8>1. k - 1 \in 1 .. Len(m) /\ k - 1 < i
                BY <2>8, <2>4, <4>1, <6>1
              <8> QED
                BY <2>9, <8>1
            <7> QED
              BY <2>10, <6>1, <7>1, <7>2
          <6>2. CASE k # i
            <7>1. r.ch[d].pp = l[k]
              BY <2>2, <4>2, <5>2, <5>3, <6>2
            <7>2. k - 1 \in 1 .. Len(m) /\ ~(k - 1 < i) /\ k - 1 + 1 = k /\ k # 1
              BY <2>8, <2>4, <4>1, <4>4, <6>2
            <7> QED
              BY <2>9, <7>1, <7>2
          <6> QED
            BY <6>1, <6>2
        <5> QED
          BY <3>2, <4>1, <5>5, <5>6, <5>7
      <4> QED
        BY <4>3, <4>4
    <3> QED
      BY <3>1, <3>2
  <2>15. \A t \in Tracks : \A j, k \in DOMAIN M[t] : j # k => M[t][j] # M[t][k]
    <3>1. \A t \in Tracks : \A j, k \in DOMAIN L[t] : j # k => L[t][j] # L[t][k]
      BY DEF Listed
    <3> QED
      BY <2>8, <2>12, <3>1
  <2>16. \A d \in Chans : r.ch[d].track # 0 => \E k \in DOMAIN M[r.ch[d].track] : M[r.ch[d].track][k] = d
    <3> SUFFICES ASSUME NEW d \in Chans, r.ch[d].track # 0
                 PROVE  \E k \in DOMAIN M[r.ch[d].track] : M[r.ch[d].track][k] = d
      OBVIOUS
    <3>1. d # c /\ r.ch[d].track = s.ch[d].track
      BY <2>2
    <3>2. s.ch[d].track \in Tracks
      BY <2>1, <3>1, LinkTypes
    <3>3. PICK k \in DOMAIN L[s.ch[d].track] : L[s.ch[d].track][k] = d
      BY <3>1 DEF Listed
    <3>4. CASE s.ch[d].track # t0
      BY <2>12, <3>1, <3>2, <3>3, <3>4
    <3>5. CASE s.ch[d].track = t0
      <4>1. k \in 1 .. Len(l) /\ l[k] = d /\ k # i
        BY <2>3, <2>4, <3>1, <3>3, <3>5 DEF l
      <4> QED
        <5>1. PICK j \in 1 .. Len(m) : m[j] = l[k]
          BY <2>8, <4>1
        <5>2. M[r.ch[d].track] = m /\ j \in DOMAIN m /\ m[j] = d
          BY <2>8, <2>12, <3>1, <3>5, <4>1, <5>1
        <5> QED
          BY <5>2
    <3> QED
      BY <3>4, <3>5
  <2>17. Listed(M, r.tr, r.ch)
    BY <2>12, <2>13, <2>14, <2>15, <2>16 DEF Listed
  <2> QED
    BY <2>2, <2>17
<1> QED
  BY <1>1, <1>2

(* What ply_note does to the links when it puts a channel before a list.   *)
LEMMA LinkedLinks ==
  ASSUME NEW s \in Pairs, NEW c \in Chans, NEW t \in Tracks, s.tr[t].chan # c, NEW r, r = Linked(s, c, t)
  PROVE  /\ Relinked(s, r)
         /\ \A d \in Chans : r.ch[d].track = IF d = c THEN t ELSE s.ch[d].track
         /\ \A d \in Chans : r.ch[d].np = IF d = c THEN s.tr[t].chan ELSE s.ch[d].np
         /\ \A d \in Chans : r.ch[d].pp = IF d = c THEN 0 ELSE IF d = s.tr[t].chan THEN c ELSE s.ch[d].pp
         /\ \A u \in Tracks : r.tr[u].chan = IF u = t THEN c ELSE s.tr[u].chan
<1> DEFINE first == s.tr[t].chan
<1>1. /\ s.tr \in [Tracks -> Track] /\ s.ch \in [Chans -> Channel] /\ 0 \notin Chans
      /\ first \in Chans \cup {0}
  BY LinkTypes, Numbers
<1>2. PICK back : back = IF first = 0 THEN s.ch ELSE [s.ch EXCEPT ![first] = [s.ch[first] EXCEPT !.pp = c]]
  OBVIOUS
<1>3. /\ back \in [Chans -> Channel]
      /\ \A d \in Chans : d # first => back[d] = s.ch[d]
      /\ first # 0 => back[first] = [s.ch[first] EXCEPT !.pp = c]
  <2>1. CASE first = 0
    BY <1>1, <1>2, <2>1
  <2>2. CASE first # 0
    <3>1. s.ch[first] \in Channel
      BY <1>1, <2>2
    <3>2. [s.ch[first] EXCEPT !.pp = c] \in Channel
      BY <3>1 DEF Channel
    <3> QED
      BY <1>1, <1>2, <2>2, <3>2
  <2> QED
    BY <2>1, <2>2
<1>4. \A d \in Chans : /\ SameNote(s.ch[d], back[d]) /\ back[d].np = s.ch[d].np
                       /\ back[d].track = s.ch[d].track
                       /\ back[d].pp = IF d = first THEN c ELSE s.ch[d].pp
  <2> SUFFICES ASSUME NEW d \in Chans
               PROVE  /\ SameNote(s.ch[d], back[d]) /\ back[d].np = s.ch[d].np
                      /\ back[d].track = s.ch[d].track
                      /\ back[d].pp = IF d = first THEN c ELSE s.ch[d].pp
    OBVIOUS
  <2>1. s.ch[d] \in Channel /\ SameNote(s.ch[d], s.ch[d])
    BY <1>1, LinkTypes
  <2>2. CASE d # first
    BY <1>3, <2>1, <2>2
  <2>3. CASE d = first
    <3>1. back[d] = [s.ch[d] EXCEPT !.pp = c]
      BY <1>1, <1>3, <2>3
    <3> QED
      BY <2>1, <2>3, <3>1 DEF Channel, SameNote
  <2> QED
    BY <2>2, <2>3
<1> DEFINE new == [back[c] EXCEPT !.track = t, !.np = first, !.pp = 0]
           old == [s.tr[t] EXCEPT !.chan = c]
<1>5. r = [tr |-> [s.tr EXCEPT ![t] = old], ch |-> [back EXCEPT ![c] = new]]
  BY <1>1, <1>2, <1>3 DEF Linked
<1>6. back[c] \in Channel /\ s.tr[t] \in Track
  BY <1>1, <1>3
<1>7. /\ new \in Channel /\ SameNote(back[c], new)
      /\ new.track = t /\ new.np = first /\ new.pp = 0
  BY <1>1, <1>6 DEF Channel, SameNote
<1>8. old \in Track /\ SameTrack(s.tr[t], old) /\ old.chan = c
  BY <1>6 DEF Track, SameTrack
<1> HIDE DEF new, old
<1>9. /\ [s.tr EXCEPT ![t] = old] \in [Tracks -> Track]
      /\ [back EXCEPT ![c] = new] \in [Chans -> Channel]
  BY <1>1, <1>3, <1>7, <1>8
<1>10. /\ r \in Pairs /\ r.tr = [s.tr EXCEPT ![t] = old] /\ r.ch = [back EXCEPT ![c] = new]
  BY <1>5, <1>9 DEF Pairs
<1>11. /\ \A d \in Chans : r.ch[d] = IF d = c THEN new ELSE back[d]
       /\ \A u \in Tracks : r.tr[u] = IF u = t THEN old ELSE s.tr[u]
  BY <1>1, <1>3, <1>10
<1>12. \A d \in Chans : SameNote(back[d], r.ch[d])
  BY <1>7, <1>11, LinkTypes
<1>13. \A u \in Tracks : SameTrack(s.tr[u], r.tr[u])
  BY <1>8, <1>11, LinkTypes
<1>14. Relinked(s, r)
  BY <1>4, <1>10, <1>12, <1>13, SameAgain DEF Relinked
<1> QED
  BY <1>1, <1>4, <1>7, <1>8, <1>11, <1>14

(* A channel of no track put before a list.                                *)
Ahead(c, l) == [j \in 1 .. Len(l) + 1 |-> IF j = 1 THEN c ELSE l[j - 1]]

(* Linked puts the channel at the head of the list of the track.           *)
LEMMA LinkedLists ==
  ASSUME NEW s \in Pairs, NEW c \in Chans, NEW t \in Tracks, s.ch[c].track = 0,
         NEW L, Listed(L, s.tr, s.ch), NEW r, r = Linked(s, c, t)
  PROVE  /\ Relinked(s, r)
         /\ \A d \in Chans : r.ch[d].track = IF d = c THEN t ELSE s.ch[d].track
         /\ \E M : Listed(M, r.tr, r.ch)
<1> DEFINE l == L[t]  first == s.tr[t].chan
<1>1. /\ s.tr \in [Tracks -> Track] /\ s.ch \in [Chans -> Channel] /\ 0 \notin Chans /\ 0 \notin Tracks
      /\ L \in [Tracks -> Seq(Chans)]
  BY LinkTypes, Numbers DEF Listed
<1>2. /\ l \in Seq(Chans) /\ DOMAIN l = 1 .. Len(l) /\ Len(l) \in Nat
      /\ \A j \in 1 .. Len(l) : l[j] \in Chans
      /\ l = <<>> <=> Len(l) = 0
  BY <1>1, EmptySeq
<1>3. \A u \in Tracks : \A k \in DOMAIN L[u] :
        /\ s.ch[L[u][k]].track = u
        /\ s.ch[L[u][k]].np = IF k = Len(L[u]) THEN 0 ELSE L[u][k + 1]
        /\ s.ch[L[u][k]].pp = IF k = 1 THEN 0 ELSE L[u][k - 1]
        /\ L[u][k] \in Chans /\ L[u][k] # c
  <2>1. \A u \in Tracks : \A k \in DOMAIN L[u] :
          /\ s.ch[L[u][k]].track = u
          /\ s.ch[L[u][k]].np = IF k = Len(L[u]) THEN 0 ELSE L[u][k + 1]
          /\ s.ch[L[u][k]].pp = IF k = 1 THEN 0 ELSE L[u][k - 1]
    BY DEF Listed
  <2> QED
    BY <1>1, <2>1
<1>4. \A u \in Tracks : s.tr[u].chan = IF L[u] = <<>> THEN 0 ELSE L[u][1]
  BY DEF Listed
<1>5. first = IF Len(l) = 0 THEN 0 ELSE l[1]
  BY <1>2, <1>4
<1>6. first # c
  BY <1>1, <1>2, <1>3, <1>5
<1>7. /\ Relinked(s, r)
      /\ \A d \in Chans : r.ch[d].track = IF d = c THEN t ELSE s.ch[d].track
      /\ \A d \in Chans : r.ch[d].np = IF d = c THEN first ELSE s.ch[d].np
      /\ \A d \in Chans : r.ch[d].pp = IF d = c THEN 0 ELSE IF d = first THEN c ELSE s.ch[d].pp
      /\ \A u \in Tracks : r.tr[u].chan = IF u = t THEN c ELSE s.tr[u].chan
  BY <1>6, LinkedLinks
<1>8. PICK m : m = Ahead(c, l)
  OBVIOUS
<1> HIDE DEF l, first
<1>9. /\ m \in Seq(Chans) /\ Len(m) = Len(l) + 1 /\ DOMAIN m = 1 .. Len(m) /\ m # <<>>
      /\ \A j \in 1 .. Len(m) : m[j] = IF j = 1 THEN c ELSE l[j - 1]
  <2>1. m = [j \in 1 .. Len(l) + 1 |-> IF j = 1 THEN c ELSE l[j - 1]]
    BY <1>8 DEF Ahead
  <2>2. \A j \in 1 .. Len(l) + 1 : j # 1 => j - 1 \in 1 .. Len(l)
    BY <1>2
  <2>3. m \in [1 .. Len(l) + 1 -> Chans] /\ Len(l) + 1 \in Nat
    BY <1>2, <2>1, <2>2
  <2>4. m \in Seq(Chans) /\ Len(m) = Len(l) + 1 /\ DOMAIN m = 1 .. Len(l) + 1
    BY <2>3
  <2>5. m # <<>>
    BY <1>2, <2>4
  <2> QED
    BY <2>1, <2>4, <2>5
<1> DEFINE M == [L EXCEPT ![t] = m]
<1>10. M \in [Tracks -> Seq(Chans)] /\ M[t] = m /\ \A u \in Tracks : u # t => M[u] = L[u]
  BY <1>1, <1>9
<1> HIDE DEF M
<1>11. \A u \in Tracks : r.tr[u].chan = IF M[u] = <<>> THEN 0 ELSE M[u][1]
  <2>1. m[1] = c
    BY <1>2, <1>9
  <2> QED
    BY <1>4, <1>7, <1>9, <1>10, <2>1
<1>12. \A u \in Tracks : \A k \in DOMAIN M[u] :
         /\ r.ch[M[u][k]].track = u
         /\ r.ch[M[u][k]].np = IF k = Len(M[u]) THEN 0 ELSE M[u][k + 1]
         /\ r.ch[M[u][k]].pp = IF k = 1 THEN 0 ELSE M[u][k - 1]
  <2> SUFFICES ASSUME NEW u \in Tracks, NEW k \in DOMAIN M[u]
               PROVE  /\ r.ch[M[u][k]].track = u
                      /\ r.ch[M[u][k]].np = IF k = Len(M[u]) THEN 0 ELSE M[u][k + 1]
                      /\ r.ch[M[u][k]].pp = IF k = 1 THEN 0 ELSE M[u][k - 1]
    OBVIOUS
  <2>1. CASE u # t
    <3>1. M[u] = L[u] /\ k \in DOMAIN L[u]
      BY <1>10, <2>1
    <3>2. /\ s.ch[L[u][k]].track = u
          /\ s.ch[L[u][k]].np = IF k = Len(L[u]) THEN 0 ELSE L[u][k + 1]
          /\ s.ch[L[u][k]].pp = IF k = 1 THEN 0 ELSE L[u][k - 1]
          /\ L[u][k] \in Chans /\ L[u][k] # c
      BY <1>3, <3>1
    <3>3. first # 0 => s.ch[first].track = t
      <4>1. first # 0 => first = L[t][1] /\ 1 \in DOMAIN L[t]
        BY <1>2, <1>5 DEF l
      <4> QED
        BY <1>3, <4>1
    <3>4. L[u][k] # first
      BY <1>1, <2>1, <3>2, <3>3
    <3> QED
      BY <1>7, <3>1, <3>2, <3>4
  <2>2. CASE u = t /\ k = 1
    <3>1. M[u] = m /\ m[k] = c
      BY <1>9, <1>10, <2>2
    <3>2. k = Len(m) <=> Len(l) = 0
      BY <1>2, <1>9, <2>2
    <3>3. Len(l) # 0 => m[k + 1] = l[1]
      <4> SUFFICES ASSUME Len(l) # 0 PROVE m[2] = l[1]
        BY <2>2
      <4>1. 2 \in 1 .. Len(m)
        BY <1>2, <1>9
      <4> QED
        BY <1>9, <4>1
    <3> QED
      BY <1>5, <1>7, <2>2, <3>1, <3>2, <3>3
  <2>3. CASE u = t /\ k # 1
    <3>1. PICK j \in 1 .. Len(l) : j = k - 1
      BY <1>2, <1>9, <1>10, <2>3
    <3>2. k \in Nat /\ k \in 1 .. Len(m) /\ M[u] = m /\ k = j + 1 /\ j \in Nat
      BY <1>9, <1>10, <2>3, <3>1
    <3>3. m[k] = l[j] /\ l[j] \in Chans
      BY <1>2, <1>9, <2>3, <3>1, <3>2
    <3>4. /\ s.ch[l[j]].track = t /\ l[j] # c
          /\ s.ch[l[j]].np = IF j = Len(l) THEN 0 ELSE l[j + 1]
          /\ s.ch[l[j]].pp = IF j = 1 THEN 0 ELSE l[j - 1]
      <4>1. j \in DOMAIN L[t]
        BY <1>2, <3>1 DEF l
      <4> QED
        <5>1. /\ s.ch[L[t][j]].track = t /\ L[t][j] # c
              /\ s.ch[L[t][j]].np = IF j = Len(L[t]) THEN 0 ELSE L[t][j + 1]
              /\ s.ch[L[t][j]].pp = IF j = 1 THEN 0 ELSE L[t][j - 1]
          BY <1>3, <4>1
        <5> QED
          BY <5>1 DEF l
    <3>5. l[j] = first <=> j = 1
      <4>1. \A i \in DOMAIN L[t] : i # 1 /\ 1 \in DOMAIN L[t] => L[t][i] # L[t][1]
        BY DEF Listed
      <4>2. 1 \in 1 .. Len(l) /\ first = l[1]
        BY <1>2, <1>5, <3>1
      <4> QED
        BY <1>2, <3>1, <4>1, <4>2 DEF l
    <3>6. r.ch[m[k]].track = t /\ r.ch[m[k]].np = IF j = Len(l) THEN 0 ELSE l[j + 1]
      BY <1>7, <3>3, <3>4
    <3>7. r.ch[m[k]].pp = IF j = 1 THEN c ELSE l[j - 1]
      BY <1>7, <3>3, <3>4, <3>5
    <3>8. (j = Len(l) <=> k = Len(m)) /\ (k # Len(m) => m[k + 1] = l[j + 1])
      <4>1. j = Len(l) <=> k = Len(m)
        BY <1>2, <1>9, <3>1, <3>2
      <4>2. ASSUME k # Len(m) PROVE m[k + 1] = l[j + 1]
        <5> DEFINE i == k + 1
        <5>1. i \in 1 .. Len(m) /\ i # 1 /\ i - 1 = j + 1
          BY <1>2, <1>9, <3>1, <3>2, <4>2
        <5> HIDE DEF i
        <5>2. m[i] = l[j + 1]
          BY <1>9, <5>1
        <5> QED
          BY <5>2 DEF i
      <4> QED
        BY <4>1, <4>2
    <3>9. m[k - 1] = IF j = 1 THEN c ELSE l[j - 1]
      <4>1. k - 1 = j /\ j \in 1 .. Len(m)
        BY <1>2, <1>9, <3>1, <3>2
      <4> QED
        BY <1>9, <4>1
    <3> QED
      BY <2>3, <3>2, <3>6, <3>7, <3>8, <3>9
  <2> QED
    BY <2>1, <2>2, <2>3
<1>13. \A u \in Tracks : \A j, k \in DOMAIN M[u] : j # k => M[u][j] # M[u][k]
  <2>1. \A u \in Tracks : \A j, k \in DOMAIN L[u] : j # k => L[u][j] # L[u][k]
    BY DEF Listed
  <2>2. \A j, k \in 1 .. Len(l) : j # k => l[j] # l[k]
    BY <1>2, <2>1 DEF l
  <2>3. \A j \in 1 .. Len(l) : l[j] # c
    BY <1>2, <1>3 DEF l
  <2>4. ASSUME NEW j \in 1 .. Len(m), NEW k \in 1 .. Len(m), j # k PROVE m[j] # m[k]
    <3>1. (j # 1 => j - 1 \in 1 .. Len(l)) /\ (k # 1 => k - 1 \in 1 .. Len(l)) /\ j - 1 # k - 1
      BY <1>2, <1>9, <2>4
    <3>2. m[j] = (IF j = 1 THEN c ELSE l[j - 1]) /\ m[k] = (IF k = 1 THEN c ELSE l[k - 1])
      BY <1>9
    <3> QED
      BY <2>2, <2>3, <2>4, <3>1, <3>2
  <2> QED
    BY <1>9, <1>10, <2>1, <2>4
<1>14. \A d \in Chans : r.ch[d].track # 0 => \E k \in DOMAIN M[r.ch[d].track] : M[r.ch[d].track][k] = d
  <2> SUFFICES ASSUME NEW d \in Chans, r.ch[d].track # 0
               PROVE  \E k \in DOMAIN M[r.ch[d].track] : M[r.ch[d].track][k] = d
    OBVIOUS
  <2>1. CASE d = c
    <3>1. r.ch[d].track = t /\ 1 \in DOMAIN m /\ m[1] = c
      BY <1>2, <1>7, <1>9, <2>1
    <3> QED
      BY <1>10, <2>1, <3>1
  <2>2. CASE d # c
    <3>1. r.ch[d].track = s.ch[d].track /\ s.ch[d].track \in Tracks
      BY <1>1, <1>7, <2>2, LinkTypes
    <3>2. PICK k \in DOMAIN L[s.ch[d].track] : L[s.ch[d].track][k] = d
      BY <3>1 DEF Listed
    <3>3. CASE s.ch[d].track # t
      BY <1>10, <3>1, <3>2, <3>3
    <3>4. CASE s.ch[d].track = t
      <4>1. k \in 1 .. Len(l) /\ l[k] = d
        BY <1>2, <3>2, <3>4 DEF l
      <4>2. k + 1 \in 1 .. Len(m) /\ k + 1 # 1 /\ k + 1 - 1 = k
        BY <1>2, <1>9, <4>1
      <4>3. m[k + 1] = d
        BY <1>9, <4>1, <4>2
      <4> QED
        BY <1>9, <1>10, <3>1, <3>4, <4>2, <4>3
    <3> QED
      BY <3>3, <3>4
  <2> QED
    BY <2>1, <2>2
<1>15. Listed(M, r.tr, r.ch)
  BY <1>10, <1>11, <1>12, <1>13, <1>14 DEF Listed
<1> QED
  BY <1>7, <1>15

(* A run of cuts: the notes that are to go are out of every list, and the  *)
(* lists are whole.                                                        *)
LEMMA CutLists ==
  ASSUME NEW s \in Pairs, Orderly(s), NEW c \in Chans, NEW gone, NEW r, r = Cut(s, c, gone)
  PROVE  /\ Orderly(r) /\ Relinked(s, r)
         /\ \A d \in Chans : r.ch[d].track = IF d = c /\ c \in gone THEN 0 ELSE s.ch[d].track
<1>1. CASE c \notin gone
  <2>1. r = s
    BY <1>1 DEF Cut
  <2> QED
    BY <1>1, <2>1, LinkTypes DEF Relinked
<1>2. CASE c \in gone
  <2>1. r = RealClearChain(s, c)
    BY <1>2 DEF Cut
  <2>2. PICK L : Listed(L, s.tr, s.ch)
    BY DEF Orderly
  <2>3. /\ Relinked(s, r)
        /\ \A d \in Chans : r.ch[d].track = IF d = c THEN 0 ELSE s.ch[d].track
        /\ \E M : Listed(M, r.tr, r.ch)
    BY <2>1, <2>2, ClearedLists
  <2> QED
    BY <1>2, <2>3 DEF Orderly, Relinked
<1> QED
  BY <1>1, <1>2

(* Two relinkings are one.                                                 *)
LEMMA RelinkedAgain ==
  ASSUME NEW s, NEW q, NEW r, Relinked(s, q), Relinked(q, r)
  PROVE  Relinked(s, r)
BY SameAgain DEF Relinked

(* Unlinking the notes of a track that are to go leaves lists that are in  *)
(* order.                                                                  *)
LEMMA UnlinkedNotes ==
  ASSUME NEW s \in Pairs, Orderly(s), NEW notes \in Seq(Chans), NEW gone, NEW r, r = Unlinked(s, notes, gone)
  PROVE  /\ Orderly(r) /\ Relinked(s, r)
         /\ \A d \in Chans : r.ch[d].track = IF d \in ToSet(notes) \cap gone THEN 0 ELSE s.ch[d].track
<1> DEFINE N == Len(notes)
           Neat == {q \in Pairs : Orderly(q)}
           F == [n \in 1 .. N |-> [q \in Neat |-> Cut(q, notes[n], gone)]]
           after == CHOOSE f : f = [n \in 0 .. N |-> IF n = 0 THEN s ELSE Cut(f[n - 1], notes[n], gone)]
<1>1. N \in Nat /\ \A n \in 1 .. N : notes[n] \in Chans
  OBVIOUS
<1>2. \A q \in Neat : q \in Pairs /\ Orderly(q)
  OBVIOUS
<1>3. s \in Neat
  OBVIOUS
<1>4. r = after[N]
  BY DEF Unlinked
<1> HIDE DEF N
<1>5. ASSUME NEW n \in 1 .. N, NEW q \in Neat PROVE Cut(q, notes[n], gone) \in Neat
  <2>1. q \in Pairs /\ Orderly(q) /\ notes[n] \in Chans
    BY <1>1
  <2>2. Orderly(Cut(q, notes[n], gone))
    BY <2>1, CutLists
  <2> QED
    BY <2>2 DEF Orderly
<1> HIDE DEF Neat
<1>6. F \in [1 .. N -> [Neat -> Neat]]
  BY <1>5
<1>7. PICK f \in [0 .. N -> Neat] : \A n \in 0 .. N : f[n] = IF n = 0 THEN s ELSE F[n][f[n - 1]]
  <2>1. PICK G : G = F
    OBVIOUS
  <2>2. G \in [1 .. N -> [Neat -> Neat]]
    BY <1>6, <2>1
  <2> HIDE DEF F
  <2>3. \E f \in [0 .. N -> Neat] : Steps(f, N, s, G)
    BY <1>1, <1>3, <2>2, Iterates
  <2> QED
    BY <2>1, <2>3 DEF Steps
<1>8. f = [n \in 0 .. N |-> IF n = 0 THEN s ELSE Cut(f[n - 1], notes[n], gone)]
  <2>1. ASSUME NEW n \in 0 .. N
        PROVE f[n] = IF n = 0 THEN s ELSE Cut(f[n - 1], notes[n], gone)
    <3>1. CASE n = 0
      BY <1>7, <3>1, <1>1
    <3>2. CASE n # 0
      <4>1. n \in 1 .. N /\ n - 1 \in 0 .. N
        BY <1>1, <3>2
      <4>2. f[n] = F[n][f[n - 1]]
        BY <1>7, <3>2, <4>1
      <4>3. f[n - 1] \in Neat
        BY <1>7, <4>1
      <4> QED
        BY <3>2, <4>1, <4>2, <4>3
    <3> QED
      BY <3>1, <3>2
  <2>2. f = [n \in 0 .. N |-> f[n]]
    BY <1>7
  <2> QED
    BY <2>1, <2>2
<1>9. after = [n \in 0 .. N |-> IF n = 0 THEN s ELSE Cut(after[n - 1], notes[n], gone)]
  BY <1>8
<1> HIDE DEF after, F
<1> DEFINE Out(n) == {notes[m] : m \in 1 .. n} \cap gone
           Done(n) == /\ after[n] \in Pairs /\ Orderly(after[n]) /\ Relinked(s, after[n])
                      /\ \A d \in Chans : after[n].ch[d].track = IF d \in Out(n) THEN 0 ELSE s.ch[d].track
           So == {n \in 0 .. N : Done(n)}
<1>10. 0 \in So
  <2>1. after[0] = s /\ 0 \in 0 .. N
    BY <1>1, <1>9
  <2>2. Out(0) = {}
    OBVIOUS
  <2>3. Relinked(s, s)
    BY LinkTypes DEF Relinked
  <2>4. Done(0)
    BY <2>1, <2>2, <2>3
  <2> HIDE DEF Done
  <2> QED
    BY <2>1, <2>4
<1>11. ASSUME NEW n \in 1 .. N, n - 1 \in So PROVE n \in So
  <2>1. Done(n - 1) /\ n \in 0 .. N /\ n # 0
    BY <1>11, <1>1
  <2>2. after[n] = Cut(after[n - 1], notes[n], gone) /\ notes[n] \in Chans
    BY <1>1, <1>9, <2>1
  <2>3. PICK q : q = after[n - 1]
    OBVIOUS
  <2>4. /\ q \in Pairs /\ Orderly(q) /\ Relinked(s, q)
        /\ \A d \in Chans : q.ch[d].track = IF d \in Out(n - 1) THEN 0 ELSE s.ch[d].track
    BY <2>1, <2>3
  <2>5. /\ Orderly(after[n]) /\ Relinked(q, after[n])
        /\ \A d \in Chans : after[n].ch[d].track = IF d = notes[n] /\ notes[n] \in gone THEN 0 ELSE q.ch[d].track
    <3>1. PICK u : u = after[n]
      OBVIOUS
    <3>2. PICK c \in Chans : c = notes[n]
      BY <2>2
    <3>3. u = Cut(q, c, gone)
      BY <2>2, <2>3, <3>1, <3>2
    <3>4. /\ Orderly(u) /\ Relinked(q, u)
          /\ \A d \in Chans : u.ch[d].track = IF d = c /\ c \in gone THEN 0 ELSE q.ch[d].track
      BY <2>4, <3>3, CutLists
    <3> QED
      BY <3>1, <3>2, <3>4
  <2>6. Relinked(s, after[n])
    BY <2>4, <2>5, RelinkedAgain
  <2>7. \A d : d \in Out(n) <=> (d \in Out(n - 1) \/ (d = notes[n] /\ notes[n] \in gone))
    <3>1. \A m : m \in 1 .. n <=> (m \in 1 .. n - 1 \/ m = n)
      BY <1>1
    <3> QED
      BY <3>1
  <2> HIDE DEF Out
  <2>8. \A d \in Chans : after[n].ch[d].track = IF d \in Out(n) THEN 0 ELSE s.ch[d].track
    BY <2>4, <2>5, <2>7
  <2>9. Done(n)
    BY <2>5, <2>6, <2>8 DEF Orderly
  <2> HIDE DEF Done
  <2> QED
    BY <2>1, <2>9
<1>12. Done(N)
  <2> HIDE DEF So
  <2>1. \A n \in 0 .. N : n \in So
    BY <1>1, <1>10, <1>11, UpTo
  <2>2. N \in So
    BY <1>1, <2>1
  <2> HIDE DEF Done
  <2> QED
    BY <2>2 DEF So
<1>13. Out(N) = ToSet(notes) \cap gone
  BY <1>1 DEF ToSet, N
<1> HIDE DEF Out
<1> QED
  BY <1>4, <1>12, <1>13

(* --- what keeps the two structures sound --------------------------------- *)

SameLinks(a, b) == b.track = a.track /\ b.np = a.np /\ b.pp = a.pp

(* Only the links matter to the lists.                                     *)
LEMMA ListedAlso ==
  ASSUME NEW s \in Pairs, NEW r \in Pairs, Orderly(s),
         \A c \in Chans : SameLinks(s.ch[c], r.ch[c]),
         \A t \in Tracks : r.tr[t].chan = s.tr[t].chan
  PROVE  Orderly(r)
<1>1. PICK L : Listed(L, s.tr, s.ch)
  BY DEF Orderly
<1>2. \A c \in Chans : r.ch[c].track = s.ch[c].track /\ r.ch[c].np = s.ch[c].np /\ r.ch[c].pp = s.ch[c].pp
  BY DEF SameLinks
<1>3. \A t \in Tracks : \A i \in DOMAIN L[t] : L[t][i] \in Chans
  BY <1>1 DEF Listed
<1>4. Listed(L, r.tr, r.ch)
  <2>1. L \in [Tracks -> Seq(Chans)]
    BY <1>1 DEF Listed
  <2>2. \A t \in Tracks : r.tr[t].chan = IF L[t] = <<>> THEN 0 ELSE L[t][1]
    BY <1>1 DEF Listed
  <2>3. \A t \in Tracks : \A i \in DOMAIN L[t] :
          /\ r.ch[L[t][i]].track = t
          /\ r.ch[L[t][i]].np = IF i = Len(L[t]) THEN 0 ELSE L[t][i + 1]
          /\ r.ch[L[t][i]].pp = IF i = 1 THEN 0 ELSE L[t][i - 1]
    BY <1>1, <1>2, <1>3 DEF Listed
  <2>4. \A t \in Tracks : \A i, j \in DOMAIN L[t] : i # j => L[t][i] # L[t][j]
    BY <1>1 DEF Listed
  <2>5. \A c \in Chans : r.ch[c].track # 0 => \E i \in DOMAIN L[r.ch[c].track] : L[r.ch[c].track][i] = c
    BY <1>1, <1>2 DEF Listed
  <2> QED
    BY <2>1, <2>2, <2>3, <2>4, <2>5 DEF Listed
<1> QED
  BY <1>4 DEF Orderly

(* Notes that are moved between lists, or out of them, stay as they are.   *)
LEMMA AlikeHeard ==
  ASSUME NEW a, NEW b, NEW tr, NEW tq, SameNote(a, b), SameTrack(tr, tq)
  PROVE  /\ Heard(a, tr) => Heard(b, tq)
         /\ Stands(a) => Stands(b)
<1>1. VolumeOf(tq) = VolumeOf(tr) /\ PitchOf(tq) = PitchOf(tr)
  BY DEF SameTrack, VolumeOf, PitchOf
<1>2. Heard(a, tr) => Heard(b, tq)
  BY <1>1 DEF SameNote, SameTrack, Heard, On
<1>3. Stands(a) => Stands(b)
  BY DEF SameNote, Stands, On
<1> QED
  BY <1>2, <1>3

(* Taking notes out of their lists leaves everything else as it was.       *)
LEMMA RelinkedSound ==
  ASSUME NEW s \in Pairs, Sound(s), NEW r, Relinked(s, r), Orderly(r),
         \A c \in Chans : r.ch[c].track \in {0, s.ch[c].track}
  PROVE  Sound(r)
<1>1. /\ \A c \in Chans : SameNote(s.ch[c], r.ch[c])
      /\ \A t \in Tracks : SameTrack(s.tr[t], r.tr[t])
  BY DEF Relinked
<1>2. \A c \in Chans : s.ch[c].track \in Tracks \cup {0}
  BY LinkTypes
<1>3. Owned(r)
  <2>1. Owned(s)
    BY DEF Sound
  <2>2. \A t \in Tracks : r.tr[t].exist = s.tr[t].exist /\ r.tr[t].start = s.tr[t].start
    BY <1>1 DEF SameTrack
  <2> QED
    BY <1>2, <2>1, <2>2 DEF Owned
<1>4. AsSet(r)
  <2> SUFFICES ASSUME NEW c \in Chans, r.ch[c].track # 0
               PROVE  Heard(r.ch[c], r.tr[r.ch[c].track])
    BY DEF AsSet
  <2>1. r.ch[c].track = s.ch[c].track /\ s.ch[c].track \in Tracks
    BY <1>2
  <2>2. Heard(s.ch[c], s.tr[s.ch[c].track])
    BY <2>1 DEF Sound, AsSet
  <2>3. PICK t \in Tracks : t = s.ch[c].track
    BY <2>1
  <2>4. SameNote(s.ch[c], r.ch[c]) /\ SameTrack(s.tr[t], r.tr[t]) /\ Heard(s.ch[c], s.tr[t])
    BY <1>1, <2>2, <2>3
  <2>5. Heard(r.ch[c], r.tr[t])
    BY <2>4, AlikeHeard
  <2> QED
    BY <2>1, <2>3, <2>5
<1>5. Standing(r)
  <2> SUFFICES ASSUME NEW c \in Direct PROVE Stands(r.ch[c])
    BY DEF Standing
  <2>1. c \in Chans /\ Stands(s.ch[c])
    BY Numbers DEF Sound, Standing
  <2>2. SameNote(s.ch[c], r.ch[c])
    BY <1>1, <2>1
  <2> QED
    BY <2>1, <2>2 DEF SameNote, Stands, On
<1>6. \A t \in Tracks : ~r.tr[t].exist => Unmarked(r.tr[t])
  BY <1>1 DEF Sound, SameTrack, Unmarked
<1> QED
  BY <1>3, <1>4, <1>5, <1>6 DEF Sound

(* Channels that keep their links.                                         *)
LEMMA ChannelsSound ==
  ASSUME NEW s \in Pairs, Sound(s), NEW r \in Pairs, r.tr = s.tr,
         \A c \in Chans : SameLinks(s.ch[c], r.ch[c]),
         \A c \in Chans : s.ch[c].track # 0 => Heard(r.ch[c], s.tr[s.ch[c].track]),
         \A c \in Direct : Stands(r.ch[c])
  PROVE  Sound(r)
<1>1. \A c \in Chans : r.ch[c].track = s.ch[c].track
  BY DEF SameLinks
<1>2. Orderly(r)
  BY ListedAlso DEF Sound
<1>3. Owned(r)
  BY <1>1 DEF Owned, Sound
<1>4. AsSet(r)
  BY <1>1 DEF AsSet
<1>5. Standing(r)
  BY DEF Standing
<1> QED
  BY <1>2, <1>3, <1>4, <1>5 DEF Sound

(* One track, which keeps its list.                                        *)
LEMMA TrackSound ==
  ASSUME NEW s \in Pairs, Sound(s), NEW r \in Pairs, r.ch = s.ch, NEW t \in Tracks,
         \A u \in Tracks : u # t => r.tr[u] = s.tr[u],
         r.tr[t].chan = s.tr[t].chan,
         ~r.tr[t].exist => Unmarked(r.tr[t]),
         \A c \in Chans : s.ch[c].track = t =>
           r.tr[t].exist /\ ~r.tr[t].start /\ Heard(s.ch[c], r.tr[t])
  PROVE  Sound(r)
<1>1. \A c \in Chans : s.ch[c].track \in Tracks \cup {0}
  BY LinkTypes
<1>2. Orderly(r)
  <2>1. \A c \in Chans : SameLinks(s.ch[c], r.ch[c])
    BY DEF SameLinks
  <2>2. \A u \in Tracks : r.tr[u].chan = s.tr[u].chan
    OBVIOUS
  <2> QED
    BY <2>1, <2>2, ListedAlso DEF Sound
<1>3. Owned(r)
  BY <1>1 DEF Owned, Sound
<1>4. AsSet(r)
  BY <1>1 DEF AsSet, Sound
<1>5. Standing(r)
  BY DEF Standing, Sound
<1>6. \A u \in Tracks : ~r.tr[u].exist => Unmarked(r.tr[u])
  BY DEF Sound
<1> QED
  BY <1>2, <1>3, <1>4, <1>5, <1>6 DEF Sound

(* A channel that sounds no more than before, and as it did.               *)
Quieter(a, b) ==
  /\ SameLinks(a, b) /\ (On(b) => On(a)) /\ b.stale = a.stale /\ b.vol = a.vol /\ b.pit = a.pit

(* Channels that sound no more than before break nothing.                  *)
LEMMA QuieterSound ==
  ASSUME NEW s \in Pairs, Sound(s), NEW r \in Pairs, r.tr = s.tr,
         \A c \in Chans : Quieter(s.ch[c], r.ch[c]),
         \A c \in Direct : Stands(r.ch[c])
  PROVE  Sound(r)
<1>1. \A c \in Chans : SameLinks(s.ch[c], r.ch[c])
  BY DEF Quieter
<1>2. ASSUME NEW c \in Chans, s.ch[c].track # 0 PROVE Heard(r.ch[c], s.tr[s.ch[c].track])
  <2>1. Heard(s.ch[c], s.tr[s.ch[c].track])
    BY <1>2 DEF Sound, AsSet
  <2>2. Quieter(s.ch[c], r.ch[c])
    OBVIOUS
  <2> QED
    BY <2>1, <2>2 DEF Heard, Quieter
<1> QED
  BY <1>1, <1>2, ChannelsSound

(* The list of a track holds the channels that name it, and no other.      *)
LEMMA ChainHolds ==
  ASSUME NEW s \in Pairs, Orderly(s), NEW t \in Tracks, NEW notes, notes = ChainFrom(s.ch, s.tr[t].chan)
  PROVE  /\ notes \in Seq(Chans)
         /\ \A c \in Chans : s.ch[c].track = t <=> c \in ToSet(notes)
         /\ \A i, j \in DOMAIN notes : i # j => notes[i] # notes[j]
         /\ \A i \in DOMAIN notes : s.ch[notes[i]].pp = IF i = 1 THEN 0 ELSE notes[i - 1]
         /\ s.tr[t].chan = IF notes = <<>> THEN 0 ELSE notes[1]
<1>1. PICK L : Listed(L, s.tr, s.ch)
  BY DEF Orderly
<1>2. notes = L[t]
  BY <1>1, ChainIsTheList
<1>3. notes \in Seq(Chans)
  BY <1>1, <1>2 DEF Listed
<1>4. ToSet(notes) = {notes[i] : i \in DOMAIN notes}
  BY <1>3 DEF ToSet
<1>5. t # 0
  BY Numbers
<1>6. \A i \in DOMAIN notes : s.ch[notes[i]].track = t /\ s.ch[notes[i]].pp = IF i = 1 THEN 0 ELSE notes[i - 1]
  BY <1>1, <1>2 DEF Listed
<1>7. \A c \in Chans : s.ch[c].track = t => \E i \in DOMAIN notes : notes[i] = c
  BY <1>1, <1>2, <1>5 DEF Listed
<1>8. \A i, j \in DOMAIN notes : i # j => notes[i] # notes[j]
  BY <1>1, <1>2 DEF Listed
<1>9. s.tr[t].chan = IF notes = <<>> THEN 0 ELSE notes[1]
  BY <1>1, <1>2 DEF Listed
<1>10. \A c \in Chans : s.ch[c].track = t <=> c \in ToSet(notes)
  BY <1>4, <1>6, <1>7
<1> QED
  BY <1>3, <1>6, <1>8, <1>9, <1>10

(* --- one operation after the other --------------------------------------- *)

(* A note that is released is where it was.                                *)
LEMMA ReleaseQuieter ==
  ASSUME NEW a \in Channel
  PROVE  Release(a) \in Channel /\ Quieter(a, Release(a)) /\ (Stands(a) => Stands(Release(a)))
BY DEF Release, Channel, Quieter, SameLinks, On, Stands

(* The end of a track: its notes go their own way, none names it.          *)
LEMMA FineSound ==
  ASSUME NEW s \in Pairs, Sound(s), NEW t \in Tracks, NEW r, r = Fine(s, t)
  PROVE  /\ r \in Pairs /\ Sound(r)
         /\ ~r.tr[t].exist /\ ~r.tr[t].start /\ \A u \in Tracks : u # t => SameTrack(s.tr[u], r.tr[u])
<1> DEFINE notes == ChainFrom(s.ch, s.tr[t].chan)
           released == [c \in Chans |-> IF c \in ToSet(notes) THEN Release(s.ch[c]) ELSE s.ch[c]]
           p == [tr |-> s.tr, ch |-> released]
           free == Unlinked(p, notes, Chans)
<1>1. /\ s.tr \in [Tracks -> Track] /\ s.ch \in [Chans -> Channel]
  BY LinkTypes
<1>2. notes \in Seq(Chans) /\ \A c \in Chans : s.ch[c].track = t <=> c \in ToSet(notes)
  BY ChainHolds DEF Sound
<1>3. r = [tr |-> [free.tr EXCEPT ![t] = Ended(free.tr[t])], ch |-> free.ch]
  BY DEF Fine, LetGo
<1>4. PICK q : q = p
  OBVIOUS
<1> HIDE DEF notes
<1>5. q \in Pairs /\ q.tr = s.tr /\ q.ch = released
  <2>1. released \in [Chans -> Channel]
    BY <1>1, ReleaseQuieter
  <2> HIDE DEF released
  <2> QED
    BY <1>1, <1>4, <2>1 DEF Pairs
<1>6. \A c \in Chans : Quieter(s.ch[c], q.ch[c]) /\ q.ch[c].track = s.ch[c].track
  <2> SUFFICES ASSUME NEW c \in Chans PROVE Quieter(s.ch[c], q.ch[c]) /\ q.ch[c].track = s.ch[c].track
    OBVIOUS
  <2>1. Quieter(s.ch[c], s.ch[c])
    BY DEF Quieter, SameLinks
  <2>2. Quieter(s.ch[c], q.ch[c])
    BY <1>1, <1>5, <2>1, ReleaseQuieter
  <2> QED
    BY <2>2 DEF Quieter, SameLinks
<1>7. \A c \in Direct : Stands(q.ch[c])
  <2> SUFFICES ASSUME NEW c \in Direct PROVE Stands(q.ch[c])
    OBVIOUS
  <2>1. c \in Chans /\ Stands(s.ch[c])
    BY Numbers DEF Sound, Standing
  <2>2. q.ch[c] = IF c \in ToSet(notes) THEN Release(s.ch[c]) ELSE s.ch[c]
    BY <1>5, <2>1
  <2> QED
    BY <1>1, <2>1, <2>2, ReleaseQuieter
<1>8. Sound(q)
  BY <1>5, <1>6, <1>7, QuieterSound
<1>9. PICK f : f = free
  OBVIOUS
<1>10. f = Unlinked(q, notes, Chans)
  BY <1>4, <1>9
<1>11. /\ Orderly(f) /\ Relinked(q, f)
       /\ \A d \in Chans : f.ch[d].track = IF d \in ToSet(notes) \cap Chans THEN 0 ELSE q.ch[d].track
  BY <1>2, <1>5, <1>8, <1>10, UnlinkedNotes DEF Sound
<1>12. Sound(f) /\ f \in Pairs
  <2>1. \A c \in Chans : f.ch[c].track \in {0, q.ch[c].track}
    BY <1>11
  <2> QED
    BY <1>5, <1>8, <1>11, <2>1, RelinkedSound DEF Relinked
<1>13. \A c \in Chans : f.ch[c].track # t
  <2>1. t # 0
    BY Numbers
  <2> QED
    BY <1>2, <1>6, <1>11, <2>1
<1>14. PICK e : e = Ended(f.tr[t])
  OBVIOUS
<1>15. r = [tr |-> [f.tr EXCEPT ![t] = e], ch |-> f.ch]
  BY <1>3, <1>9, <1>14
<1> HIDE DEF free, p, released
<1>16. f.tr \in [Tracks -> Track] /\ f.ch \in [Chans -> Channel] /\ f.tr[t] \in Track
  BY <1>12, LinkTypes
<1>17. e \in Track /\ e.chan = f.tr[t].chan /\ ~e.exist /\ ~e.start /\ Unmarked(e)
  BY <1>14, <1>16 DEF Track, Ended, Clean, Unmarked
<1>18. /\ r \in Pairs /\ r.ch = f.ch /\ r.tr[t] = e
       /\ \A u \in Tracks : u # t => r.tr[u] = f.tr[u]
  BY <1>15, <1>16, <1>17 DEF Pairs
<1>19. Sound(r)
  BY <1>12, <1>13, <1>17, <1>18, TrackSound
<1>20. \A u \in Tracks : u # t => SameTrack(s.tr[u], r.tr[u])
  BY <1>5, <1>11, <1>18 DEF Relinked
<1> QED
  BY <1>17, <1>18, <1>19, <1>20

(* The notes counted, and those that are over let go.                      *)
LEMMA CountedQuieter ==
  ASSUME NEW a \in Channel
  PROVE  Counted(a) \in Channel /\ Quieter(a, Counted(a)) /\ (Stands(a) => Stands(Counted(a)))
<1>1. CASE a.gt = 0
  BY <1>1 DEF Counted, Quieter, SameLinks
<1>2. CASE a.gt # 0
  <2>1. PICK b \in BOOLEAN : b = (a.stop \/ a.gt = 1)
    OBVIOUS
  <2>2. Counted(a) = [a EXCEPT !.gt = a.gt - 1, !.stop = b]
    BY <1>2, <2>1 DEF Counted
  <2>3. a.gt - 1 \in Nat
    BY <1>2 DEF Channel
  <2>4. PICK n \in Nat, r \in BOOLEAN : Counted(a) = [a EXCEPT !.gt = n, !.stop = r]
    BY <2>1, <2>2, <2>3
  <2>5. Counted(a) \in Channel
    BY <2>4, ZenonT(40) DEF Channel
  <2> QED
    BY <2>4, <2>5 DEF Channel, Quieter, SameLinks, On, Stands
<1> QED
  BY <1>1, <1>2

(* The gates of a track; one that is being started has no notes.           *)
LEMMA GatedSound ==
  ASSUME NEW s \in Pairs, Sound(s), NEW t \in Tracks, NEW r, r = Gated(s, t)
  PROVE  /\ r \in Pairs /\ Sound(r)
         /\ \A u \in Tracks : SameTrack(s.tr[u], r.tr[u])
         /\ s.tr[t].start => r.tr[t].chan = 0 /\ \A c \in Chans : r.ch[c].track # t
<1> DEFINE notes == ChainFrom(s.ch, s.tr[t].chan)
           sounding == {c \in ToSet(notes) : On(s.ch[c])}
           counted == [c \in Chans |-> IF c \in sounding THEN Counted(s.ch[c]) ELSE s.ch[c]]
           p == [tr |-> s.tr, ch |-> counted]
<1>1. /\ s.tr \in [Tracks -> Track] /\ s.ch \in [Chans -> Channel]
  BY LinkTypes
<1>2. notes \in Seq(Chans) /\ \A c \in Chans : s.ch[c].track = t <=> c \in ToSet(notes)
  BY ChainHolds DEF Sound
<1>3. r = Unlinked(p, notes, Chans \ sounding)
  BY DEF Gated
<1>4. PICK q : q = p
  OBVIOUS
<1> HIDE DEF notes, sounding
<1>5. q \in Pairs /\ q.tr = s.tr /\ q.ch = counted
  <2>1. counted \in [Chans -> Channel]
    BY <1>1, CountedQuieter
  <2> HIDE DEF counted
  <2> QED
    BY <1>1, <1>4, <2>1 DEF Pairs
<1>6. \A c \in Chans : Quieter(s.ch[c], q.ch[c]) /\ q.ch[c].track = s.ch[c].track
  <2> SUFFICES ASSUME NEW c \in Chans PROVE Quieter(s.ch[c], q.ch[c]) /\ q.ch[c].track = s.ch[c].track
    OBVIOUS
  <2>1. Quieter(s.ch[c], s.ch[c])
    BY DEF Quieter, SameLinks
  <2>2. Quieter(s.ch[c], q.ch[c])
    BY <1>1, <1>5, <2>1, CountedQuieter
  <2> QED
    BY <2>2 DEF Quieter, SameLinks
<1>7. \A c \in Direct : Stands(q.ch[c])
  <2> SUFFICES ASSUME NEW c \in Direct PROVE Stands(q.ch[c])
    OBVIOUS
  <2>1. c \in Chans /\ Stands(s.ch[c])
    BY Numbers DEF Sound, Standing
  <2>2. q.ch[c] = IF c \in sounding THEN Counted(s.ch[c]) ELSE s.ch[c]
    BY <1>5, <2>1
  <2> QED
    BY <1>1, <2>1, <2>2, CountedQuieter
<1>8. Sound(q)
  BY <1>5, <1>6, <1>7, QuieterSound
<1>9. PICK gone : gone = Chans \ sounding
  OBVIOUS
<1>10. r = Unlinked(q, notes, gone)
  BY <1>3, <1>4, <1>9
<1>11. /\ Orderly(r) /\ Relinked(q, r)
       /\ \A d \in Chans : r.ch[d].track = IF d \in ToSet(notes) \cap gone THEN 0 ELSE q.ch[d].track
  BY <1>2, <1>5, <1>8, <1>10, UnlinkedNotes DEF Sound
<1>12. Sound(r) /\ r \in Pairs
  <2>1. \A c \in Chans : r.ch[c].track \in {0, q.ch[c].track}
    BY <1>11
  <2> QED
    BY <1>5, <1>8, <1>11, <2>1, RelinkedSound DEF Relinked
<1>13. \A u \in Tracks : SameTrack(s.tr[u], r.tr[u])
  BY <1>5, <1>11 DEF Relinked
<1>14. ASSUME s.tr[t].start PROVE r.tr[t].chan = 0 /\ \A c \in Chans : r.ch[c].track # t
  <2>1. r.tr[t].start
    BY <1>13, <1>14 DEF SameTrack
  <2>2. \A c \in Chans : r.ch[c].track # t
    <3>1. t # 0
      BY Numbers
    <3> QED
      BY <1>12, <2>1, <3>1 DEF Sound, Owned
  <2>3. PICK l : l = ChainFrom(r.ch, r.tr[t].chan)
    OBVIOUS
  <2>4. /\ l \in Seq(Chans) /\ \A c \in Chans : r.ch[c].track = t <=> c \in ToSet(l)
        /\ r.tr[t].chan = IF l = <<>> THEN 0 ELSE l[1]
    BY <1>12, <2>3, ChainHolds DEF Sound
  <2>5. l # <<>> => l[1] \in Chans /\ l[1] \in ToSet(l)
    BY <2>4 DEF ToSet
  <2> QED
    BY <2>2, <2>4, <2>5
<1> QED
  BY <1>12, <1>13, <1>14

(* A track at the same place of its song.                                  *)
SamePlace(a, b) == b.exist = a.exist /\ b.start = a.start /\ b.pos = a.pos /\ b.stack = a.stack

(* What TrkVolPitSet works out is a number.                                *)
LEMMA SumsAreNumbers ==
  ASSUME NEW tr \in Track
  PROVE  VolumeOf(tr) \in Int /\ PitchOf(tr) \in Int
<1>1. tr.vol \in Int /\ tr.volX \in Int /\ tr.pit \in Int /\ tr.modM \in Int
  BY DEF Track
<1>2. tr.vol * tr.volX \in Int
  BY <1>1
<1> QED
  BY <1>1, <1>2 DEF VolumeOf, PitchOf

(* ClearModM marks the track for what it may have changed.                 *)
LEMMA ClearedModM ==
  ASSUME NEW tr \in Track
  PROVE  /\ ClearModM(tr) \in Track /\ SamePlace(tr, ClearModM(tr)) /\ ClearModM(tr).chan = tr.chan
         /\ ClearModM(tr).vlchg \/ ClearModM(tr).ptchg
         /\ tr.vlchg => ClearModM(tr).vlchg
         /\ tr.ptchg => ClearModM(tr).ptchg
         /\ \/ ClearModM(tr).vlchg /\ PitchOf(ClearModM(tr)) = PitchOf(tr)
            \/ ClearModM(tr).ptchg /\ VolumeOf(ClearModM(tr)) = VolumeOf(tr)
<1> DEFINE still == [tr EXCEPT !.phase = 0, !.modM = 0]
<1>1. still \in Track /\ tr.vol \in Int /\ tr.pit \in Int
  <2>1. PICK z \in Int : z = 0
    OBVIOUS
  <2>2. [tr EXCEPT !.phase = z, !.modM = z] \in Track
    BY DEF Track
  <2> QED
    BY <2>1, <2>2 DEF Track
<1>2. CASE tr.modT = 0
  <2>1. PICK b : b = ClearModM(tr)
    OBVIOUS
  <2>2. b = [still EXCEPT !.ptchg = TRUE]
    BY <1>2, <2>1 DEF ClearModM, ModFlagged, Track
  <2>3. b \in Track /\ SamePlace(tr, b) /\ b.chan = tr.chan /\ b.ptchg /\ b.vlchg = tr.vlchg
    BY <1>1, <2>2 DEF Track, SamePlace
  <2>4. b.vol = tr.vol /\ b.volX = tr.volX /\ b.modT = tr.modT
    BY <1>1, <2>2 DEF Track
  <2> QED
    BY <1>2, <2>1, <2>3, <2>4 DEF VolumeOf
<1>3. CASE tr.modT # 0
  <2>1. PICK b : b = ClearModM(tr)
    OBVIOUS
  <2>2. b = [still EXCEPT !.vlchg = TRUE]
    BY <1>3, <2>1 DEF ClearModM, ModFlagged, Track
  <2>3. b \in Track /\ SamePlace(tr, b) /\ b.chan = tr.chan /\ b.vlchg /\ b.ptchg = tr.ptchg
    BY <1>1, <2>2 DEF Track, SamePlace
  <2>4. b.pit = tr.pit /\ b.modT = tr.modT
    BY <1>1, <2>2 DEF Track
  <2> QED
    BY <1>3, <2>1, <2>3, <2>4 DEF PitchOf
<1> QED
  BY <1>2, <1>3

(* What a track's commands changed, in the notes that sound.               *)
LEMMA PushedSound ==
  ASSUME NEW s \in Pairs, Sound(s), NEW t \in Tracks, s.tr[t].exist, NEW r, r = Pushed(s, t)
  PROVE  /\ r \in Pairs /\ Sound(r)
         /\ Unmarked(r.tr[t]) /\ SamePlace(s.tr[t], r.tr[t])
         /\ \A u \in Tracks : u # t => SameTrack(s.tr[u], r.tr[u])
<1> DEFINE tr == s.tr[t]
           notes == ChainFrom(s.ch, tr.chan)
           sounding == {c \in ToSet(notes) : On(s.ch[c])}
           heard == [c \in Chans |->
             IF c \notin sounding THEN s.ch[c]
             ELSE [s.ch[c] EXCEPT !.vol = IF tr.vlchg THEN VolumeOf(tr) ELSE s.ch[c].vol,
                                  !.pit = IF tr.ptchg THEN PitchOf(tr) ELSE s.ch[c].pit]]
           p == [tr |-> s.tr, ch |-> heard]
           free == Unlinked(p, notes, Chans \ sounding)
<1>1. /\ s.tr \in [Tracks -> Track] /\ s.ch \in [Chans -> Channel] /\ tr \in Track
  BY LinkTypes
<1>2. notes \in Seq(Chans) /\ \A c \in Chans : s.ch[c].track = t <=> c \in ToSet(notes)
  BY ChainHolds DEF Sound
<1>3. r = [tr |-> [free.tr EXCEPT ![t] = Clean(free.tr[t])], ch |-> free.ch]
  BY DEF Pushed
<1>4. PICK q : q = p
  OBVIOUS
<1>5. \A c \in sounding : On(s.ch[c])
  OBVIOUS
<1>6. \A c \in Chans : c \in ToSet(notes) /\ c \notin sounding => ~On(s.ch[c])
  OBVIOUS
<1>7. VolumeOf(tr) \in Int /\ PitchOf(tr) \in Int
  BY <1>1, SumsAreNumbers
<1>8. ASSUME NEW c \in Chans
      PROVE  LET h == heard[c] IN
             /\ h \in Channel /\ SameLinks(s.ch[c], h) /\ h.phase = s.ch[c].phase /\ h.stale = s.ch[c].stale
             /\ (Stands(s.ch[c]) => Stands(h))
             /\ c \notin sounding => h = s.ch[c]
             /\ c \in sounding => /\ h.vol = IF tr.vlchg THEN VolumeOf(tr) ELSE s.ch[c].vol
                                  /\ h.pit = IF tr.ptchg THEN PitchOf(tr) ELSE s.ch[c].pit
  <2> HIDE DEF sounding, notes, tr
  <2>1. s.ch[c] \in Channel
    BY <1>1
  <2> DEFINE v == IF tr.vlchg THEN VolumeOf(tr) ELSE s.ch[c].vol
             w == IF tr.ptchg THEN PitchOf(tr) ELSE s.ch[c].pit
  <2>2. v \in Int /\ w \in Int
    BY <1>7, <2>1 DEF Channel
  <2>3. heard[c] = IF c \notin sounding THEN s.ch[c] ELSE [s.ch[c] EXCEPT !.vol = v, !.pit = w]
    OBVIOUS
  <2> HIDE DEF heard, v, w
  <2>4. CASE c \notin sounding
    BY <2>1, <2>3, <2>4 DEF SameLinks
  <2>5. CASE c \in sounding
    <3>1. heard[c] = [s.ch[c] EXCEPT !.vol = v, !.pit = w]
      BY <2>3, <2>5
    <3>2. /\ heard[c] \in Channel /\ SameLinks(s.ch[c], heard[c])
          /\ heard[c].phase = s.ch[c].phase /\ heard[c].stale = s.ch[c].stale
          /\ (Stands(s.ch[c]) => Stands(heard[c]))
          /\ heard[c].vol = v /\ heard[c].pit = w
      <4>1. heard[c] \in Channel /\ heard[c].vol = v /\ heard[c].pit = w
        <5>1. PICK x \in Int, y \in Int : x = v /\ y = w
          BY <2>2
        <5>2. /\ [s.ch[c] EXCEPT !.vol = x, !.pit = y] \in Channel
              /\ [s.ch[c] EXCEPT !.vol = x, !.pit = y].vol = x
              /\ [s.ch[c] EXCEPT !.vol = x, !.pit = y].pit = y
          BY <2>1 DEF Channel
        <5> QED
          BY <3>1, <5>1, <5>2
      <4>2. SameLinks(s.ch[c], heard[c]) /\ heard[c].stale = s.ch[c].stale
        BY <2>1, <3>1 DEF Channel, SameLinks
      <4>3. heard[c].phase = s.ch[c].phase /\ (Stands(s.ch[c]) => Stands(heard[c]))
        BY <2>1, <3>1 DEF Channel, Stands, On
      <4> QED
        BY <4>1, <4>2, <4>3
    <3> QED
      BY <2>5, <3>2 DEF v, w
  <2> QED
    BY <2>4, <2>5
<1> HIDE DEF notes, sounding, tr
<1>9. q \in Pairs /\ q.tr = s.tr /\ q.ch = heard
  <2>1. heard \in [Chans -> Channel]
    <3>1. \A c \in Chans : heard[c] \in Channel
      BY <1>8
    <3> QED
      BY <3>1
  <2> HIDE DEF heard
  <2> QED
    BY <1>1, <1>4, <2>1 DEF Pairs
<1> HIDE DEF heard
<1>10. ASSUME NEW c \in Chans
       PROVE  /\ SameLinks(s.ch[c], q.ch[c]) /\ (Stands(s.ch[c]) => Stands(q.ch[c]))
              /\ s.ch[c].track # 0 => Heard(q.ch[c], s.tr[s.ch[c].track])
  <2>1. SameLinks(s.ch[c], q.ch[c]) /\ (Stands(s.ch[c]) => Stands(q.ch[c]))
    BY <1>8, <1>9
  <2>2. ASSUME s.ch[c].track # 0 PROVE Heard(q.ch[c], s.tr[s.ch[c].track])
    <3>1. Heard(s.ch[c], s.tr[s.ch[c].track])
      BY <2>2 DEF Sound, AsSet
    <3>2. CASE c \notin sounding
      BY <1>8, <1>9, <3>1, <3>2
    <3>3. CASE c \in sounding
      <4>1. s.ch[c].track = t
        BY <1>2, <3>3 DEF sounding
      <4>2. q.ch[c].phase = s.ch[c].phase /\ q.ch[c].stale = s.ch[c].stale
        BY <1>8, <1>9
      <4>3. (~tr.vlchg => q.ch[c].vol = s.ch[c].vol) /\ (~tr.ptchg => q.ch[c].pit = s.ch[c].pit)
        BY <1>8, <1>9, <3>3
      <4> QED
        BY <3>1, <4>1, <4>2, <4>3 DEF Heard, On, tr
    <3> QED
      BY <3>2, <3>3
  <2> QED
    BY <2>1, <2>2
<1>11. Sound(q)
  <2>1. \A c \in Direct : Stands(q.ch[c])
    BY <1>10, Numbers DEF Sound, Standing
  <2>2. \A c \in Chans : SameLinks(s.ch[c], q.ch[c])
    BY <1>10
  <2>3. \A c \in Chans : s.ch[c].track # 0 => Heard(q.ch[c], s.tr[s.ch[c].track])
    BY <1>10
  <2> QED
    BY <1>9, <2>1, <2>2, <2>3, ChannelsSound
<1>12. PICK f : f = free
  OBVIOUS
<1>13. PICK gone : gone = Chans \ sounding
  OBVIOUS
<1>14. f = Unlinked(q, notes, gone)
  BY <1>4, <1>12, <1>13
<1>15. /\ Orderly(f) /\ Relinked(q, f)
       /\ \A d \in Chans : f.ch[d].track = IF d \in ToSet(notes) \cap gone THEN 0 ELSE q.ch[d].track
  BY <1>2, <1>9, <1>11, <1>14, UnlinkedNotes DEF Sound
<1>16. Sound(f) /\ f \in Pairs
  <2>1. \A c \in Chans : f.ch[c].track \in {0, q.ch[c].track}
    BY <1>15
  <2> QED
    BY <1>9, <1>11, <1>15, <2>1, RelinkedSound DEF Relinked
<1>17. PICK e : e = Clean(f.tr[t])
  OBVIOUS
<1>18. r = [tr |-> [f.tr EXCEPT ![t] = e], ch |-> f.ch]
  BY <1>3, <1>12, <1>17
<1> HIDE DEF free, p
<1>19. f.tr \in [Tracks -> Track] /\ f.ch \in [Chans -> Channel] /\ f.tr[t] \in Track
  BY <1>16, LinkTypes
<1>20. SameTrack(tr, f.tr[t])
  BY <1>9, <1>15 DEF Relinked, tr
<1>21. /\ e \in Track /\ e.chan = f.tr[t].chan /\ Unmarked(e) /\ SamePlace(tr, e)
       /\ VolumeOf(e) = VolumeOf(tr) /\ PitchOf(e) = PitchOf(tr)
  BY <1>17, <1>19, <1>20 DEF Track, Clean, Unmarked, SamePlace, SameTrack, VolumeOf, PitchOf
<1>22. /\ r \in Pairs /\ r.ch = f.ch /\ r.tr[t] = e
       /\ \A u \in Tracks : u # t => r.tr[u] = f.tr[u]
  BY <1>18, <1>19, <1>21 DEF Pairs
<1>23. ASSUME NEW c \in Chans, f.ch[c].track = t PROVE e.exist /\ ~e.start /\ Heard(f.ch[c], e)
  <2>1. q.ch[c].track = t /\ c \notin ToSet(notes) \cap gone /\ s.ch[c].track = t
    <3>1. t # 0
      BY Numbers
    <3> QED
      BY <1>10, <1>15, <1>23, <3>1 DEF SameLinks
  <2>2. c \in sounding
    BY <1>2, <1>13, <2>1
  <2>3. SameNote(q.ch[c], f.ch[c])
    BY <1>15 DEF Relinked
  <2>4. /\ q.ch[c].vol = IF tr.vlchg THEN VolumeOf(tr) ELSE s.ch[c].vol
        /\ q.ch[c].pit = IF tr.ptchg THEN PitchOf(tr) ELSE s.ch[c].pit
        /\ q.ch[c].phase = s.ch[c].phase /\ q.ch[c].stale = s.ch[c].stale
    BY <1>8, <1>9, <2>2
  <2>5. Heard(s.ch[c], tr)
    <3>1. s.ch[c].track # 0
      BY <2>1, Numbers
    <3> QED
      BY <2>1, <3>1 DEF Sound, AsSet, tr
  <2>6. Heard(f.ch[c], e)
    BY <1>21, <2>3, <2>4, <2>5 DEF Heard, SameNote, On
  <2>7. e.exist /\ ~e.start
    <3>1. tr.exist /\ ~tr.start
      BY <2>1, Numbers DEF Sound, Owned, tr
    <3> QED
      BY <1>21, <3>1 DEF SamePlace
  <2> QED
    BY <2>6, <2>7
<1>24. Sound(r)
  BY <1>16, <1>21, <1>22, <1>23, TrackSound
<1>25. \A u \in Tracks : u # t => SameTrack(s.tr[u], r.tr[u])
  BY <1>9, <1>15, <1>22 DEF Relinked
<1> QED
  BY <1>21, <1>22, <1>24, <1>25 DEF tr

(* A note struck on channel c.                                             *)
LEMMA StruckSound ==
  ASSUME NEW s \in Pairs, Sound(s), NEW t \in Tracks, s.tr[t].exist, ~s.tr[t].start,
         NEW c \in Chans, NEW tone \in Tones, NEW priority \in Nat,
         NEW r, r = Struck(s, t, c, tone, priority)
  PROVE  /\ r \in Pairs /\ Sound(r) /\ SamePlace(s.tr[t], r.tr[t])
         /\ \A u \in Tracks : u # t => SameTrack(s.tr[u], r.tr[u])
<1> DEFINE cut == RealClearChain(s, c)
           mine == Linked(cut, c, t)
           tr == IF mine.tr[t].delay = 0 THEN mine.tr[t] ELSE ClearModM(mine.tr[t])
           unheard(d) == mine.ch[d].track = t /\ (tr.vlchg \/ tr.ptchg)
           new == [mine.ch[c] EXCEPT
               !.phase = "start", !.stop = FALSE, !.stale = FALSE, !.gt = tr.gate, !.mk = tr.key,
               !.pr = priority, !.tone = tone, !.vol = VolumeOf(tr), !.pit = PitchOf(tr),
               !.echoVolume = tr.echoVolume, !.echoLength = tr.echoLength]
           left == [Clean(tr) EXCEPT !.delayC = tr.delay]
           sounds == [d \in Chans |->
             IF d # c THEN [mine.ch[d] EXCEPT !.stale = mine.ch[d].stale \/ unheard(d)] ELSE new]
<1>1. PICK q : q = cut
  OBVIOUS
<1>2. /\ Relinked(s, q) /\ q \in Pairs /\ Orderly(q)
      /\ \A d \in Chans : q.ch[d].track = IF d = c THEN 0 ELSE s.ch[d].track
  <2>1. PICK L : Listed(L, s.tr, s.ch)
    BY DEF Sound, Orderly
  <2>2. /\ Relinked(s, q)
        /\ \A d \in Chans : q.ch[d].track = IF d = c THEN 0 ELSE s.ch[d].track
        /\ \E M : Listed(M, q.tr, q.ch)
    BY <1>1, <2>1, ClearedLists
  <2> QED
    BY <2>2 DEF Relinked, Orderly
<1>3. PICK m : m = mine
  OBVIOUS
<1>4. m = Linked(q, c, t)
  BY <1>1, <1>3
<1>5. /\ Relinked(s, m) /\ m \in Pairs /\ Orderly(m)
      /\ \A d \in Chans : m.ch[d].track = IF d = c THEN t ELSE s.ch[d].track
  <2>1. PICK L : Listed(L, q.tr, q.ch)
    BY <1>2 DEF Orderly
  <2>2. q.ch[c].track = 0
    BY <1>2
  <2>3. /\ Relinked(q, m)
        /\ \A d \in Chans : m.ch[d].track = IF d = c THEN t ELSE q.ch[d].track
        /\ \E M : Listed(M, m.tr, m.ch)
    BY <1>2, <1>4, <2>1, <2>2, LinkedLists
  <2>4. Relinked(s, m)
    BY <1>2, <2>3, RelinkedAgain
  <2> QED
    BY <1>2, <2>3, <2>4 DEF Relinked, Orderly
<1>6. r = [tr |-> [mine.tr EXCEPT ![t] = left], ch |-> sounds]
  BY DEF Struck
<1>7. PICK tq : tq = tr
  OBVIOUS
<1>8. PICK b : b = new
  OBVIOUS
<1>9. PICK e : e = left
  OBVIOUS
<1>10. r = [tr |-> [m.tr EXCEPT ![t] = e],
            ch |-> [d \in Chans |->
              IF d # c THEN [m.ch[d] EXCEPT !.stale = m.ch[d].stale \/ (m.ch[d].track = t /\ (tq.vlchg \/ tq.ptchg))]
                       ELSE b]]
  BY <1>3, <1>6, <1>7, <1>8, <1>9
<1>11. tq = IF m.tr[t].delay = 0 THEN m.tr[t] ELSE ClearModM(m.tr[t])
  BY <1>3, <1>7
<1>12. b = [m.ch[c] EXCEPT
               !.phase = "start", !.stop = FALSE, !.stale = FALSE, !.gt = tq.gate, !.mk = tq.key,
               !.pr = priority, !.tone = tone, !.vol = VolumeOf(tq), !.pit = PitchOf(tq),
               !.echoVolume = tq.echoVolume, !.echoLength = tq.echoLength]
  BY <1>3, <1>7, <1>8
<1>13. e = [Clean(tq) EXCEPT !.delayC = tq.delay]
  BY <1>7, <1>9
<1> HIDE DEF cut, mine, tr, unheard, new, left, sounds
<1>14. /\ m.tr \in [Tracks -> Track] /\ m.ch \in [Chans -> Channel] /\ m.tr[t] \in Track
       /\ s.tr \in [Tracks -> Track] /\ s.ch \in [Chans -> Channel]
  BY <1>5, LinkTypes
<1>15. SameTrack(s.tr[t], m.tr[t]) /\ SamePlace(m.tr[t], m.tr[t]) /\ SamePlace(s.tr[t], m.tr[t])
  BY <1>5 DEF Relinked, SameTrack, SamePlace
<1>16. /\ tq \in Track /\ tq.chan = m.tr[t].chan /\ SamePlace(m.tr[t], tq)
       /\ ~tq.vlchg /\ ~tq.ptchg => tq = m.tr[t]
  BY <1>11, <1>14, <1>15, ClearedModM
<1>17. /\ e \in Track /\ e.chan = tq.chan /\ SamePlace(tq, e) /\ Unmarked(e)
       /\ VolumeOf(e) = VolumeOf(tq) /\ PitchOf(e) = PitchOf(tq)
  <2>1. PICK k : k = Clean(tq)
    OBVIOUS
  <2>2. /\ k \in Track /\ k.chan = tq.chan /\ SamePlace(tq, k) /\ Unmarked(k)
        /\ VolumeOf(k) = VolumeOf(tq) /\ PitchOf(k) = PitchOf(tq)
    BY <1>16, <2>1 DEF Track, Clean, SamePlace, Unmarked, VolumeOf, PitchOf
  <2>3. tq.delay \in Nat /\ e = [k EXCEPT !.delayC = tq.delay]
    BY <1>13, <1>16, <2>1 DEF Track
  <2>4. /\ e \in Track /\ e.chan = k.chan /\ SamePlace(k, e) /\ Unmarked(e)
        /\ VolumeOf(e) = VolumeOf(k) /\ PitchOf(e) = PitchOf(k)
    BY <2>2, <2>3 DEF Track, SamePlace, Unmarked, VolumeOf, PitchOf
  <2> QED
    BY <2>2, <2>4 DEF SamePlace
<1>18. /\ b \in Channel /\ SameLinks(m.ch[c], b) /\ b.phase = "start"
       /\ b.vol = VolumeOf(tq) /\ b.pit = PitchOf(tq)
  <2>1. /\ tq.gate \in Nat /\ tq.key \in Keys /\ tq.echoVolume \in Nat /\ tq.echoLength \in Nat
    BY <1>16 DEF Track
  <2>2. VolumeOf(tq) \in Int /\ PitchOf(tq) \in Int
    BY <1>16, SumsAreNumbers
  <2>3. PICK a \in Channel : a = m.ch[c]
    BY <1>14
  <2>4. PICK gt \in Nat, mk \in Keys, vol \in Int, pit \in Int, ev \in Nat, el \in Nat :
          /\ gt = tq.gate /\ mk = tq.key /\ vol = VolumeOf(tq) /\ pit = PitchOf(tq)
          /\ ev = tq.echoVolume /\ el = tq.echoLength
    BY <2>1, <2>2
  <2>5. b = [a EXCEPT !.phase = "start", !.stop = FALSE, !.stale = FALSE, !.gt = gt, !.mk = mk,
                      !.pr = priority, !.tone = tone, !.vol = vol, !.pit = pit,
                      !.echoVolume = ev, !.echoLength = el]
    BY <1>12, <2>3, <2>4
  <2>6. b \in Channel /\ SameLinks(a, b) /\ b.phase = "start" /\ b.vol = vol /\ b.pit = pit
    <3>1. "start" \in Phases /\ FALSE \in BOOLEAN
      BY DEF Phases
    <3>2. b \in Channel
      BY <2>5, <3>1 DEF Channel
    <3>3. SameLinks(a, b)
      BY <2>5 DEF SameLinks, Channel
    <3>4. b.phase = "start" /\ b.vol = vol /\ b.pit = pit
      BY <2>5 DEF Channel
    <3> QED
      BY <3>2, <3>3, <3>4
  <2> QED
    BY <2>3, <2>4, <2>6
<1>19. /\ r \in Pairs /\ r.tr[t] = e /\ r.ch[c] = b
       /\ \A u \in Tracks : u # t => r.tr[u] = m.tr[u]
       /\ \A d \in Chans : d # c =>
            /\ SameLinks(m.ch[d], r.ch[d]) /\ r.ch[d].phase = m.ch[d].phase
            /\ r.ch[d].vol = m.ch[d].vol /\ r.ch[d].pit = m.ch[d].pit
            /\ (Stands(m.ch[d]) => Stands(r.ch[d]))
            /\ r.ch[d].stale = (m.ch[d].stale \/ (m.ch[d].track = t /\ (tq.vlchg \/ tq.ptchg)))
  <2>1. PICK rt : rt = [m.tr EXCEPT ![t] = e]
    OBVIOUS
  <2>2. PICK rc : rc = [d \in Chans |->
              IF d # c THEN [m.ch[d] EXCEPT !.stale = m.ch[d].stale \/ (m.ch[d].track = t /\ (tq.vlchg \/ tq.ptchg))]
                       ELSE b]
    OBVIOUS
  <2>3. rc[c] = b
    BY <2>2
  <2>4. ASSUME NEW d \in Chans, d # c
        PROVE  /\ rc[d] \in Channel /\ SameLinks(m.ch[d], rc[d]) /\ rc[d].phase = m.ch[d].phase
               /\ rc[d].vol = m.ch[d].vol /\ rc[d].pit = m.ch[d].pit
               /\ (Stands(m.ch[d]) => Stands(rc[d]))
               /\ rc[d].stale = (m.ch[d].stale \/ (m.ch[d].track = t /\ (tq.vlchg \/ tq.ptchg)))
    <3>1. PICK a \in Channel : a = m.ch[d]
      BY <1>14
    <3>2. PICK x \in BOOLEAN : x = (m.ch[d].stale \/ (m.ch[d].track = t /\ (tq.vlchg \/ tq.ptchg)))
      OBVIOUS
    <3>3. rc[d] = [a EXCEPT !.stale = x]
      BY <2>2, <2>4, <3>1, <3>2
    <3>4. /\ rc[d] \in Channel /\ rc[d].phase = a.phase
          /\ rc[d].vol = a.vol /\ rc[d].pit = a.pit /\ rc[d].stale = x
      BY <3>3 DEF Channel
    <3>5. SameLinks(a, rc[d])
      BY <3>3 DEF Channel, SameLinks
    <3>6. Stands(a) => Stands(rc[d])
      BY <3>3 DEF Channel, Stands, On
    <3> QED
      BY <3>1, <3>2, <3>4, <3>5, <3>6
  <2>5. rc \in [Chans -> Channel]
    <3>1. \A d \in Chans : rc[d] \in Channel
      BY <1>18, <2>3, <2>4
    <3> QED
      BY <2>2, <3>1
  <2>6. rt \in [Tracks -> Track] /\ rt[t] = e /\ \A u \in Tracks : u # t => rt[u] = m.tr[u]
    BY <1>14, <1>17, <2>1
  <2>7. r = [tr |-> rt, ch |-> rc]
    BY <1>10, <2>1, <2>2
  <2>8. r \in Pairs /\ r.tr = rt /\ r.ch = rc
    BY <2>5, <2>6, <2>7 DEF Pairs
  <2> QED
    BY <2>3, <2>4, <2>6, <2>8
<1>20. Orderly(r)
  <2>1. \A d \in Chans : SameLinks(m.ch[d], r.ch[d])
    BY <1>18, <1>19
  <2>2. \A u \in Tracks : r.tr[u].chan = m.tr[u].chan
    BY <1>16, <1>17, <1>19
  <2> QED
    BY <1>5, <1>19, <2>1, <2>2, ListedAlso
<1>21. \A d \in Chans : r.ch[d].track = IF d = c THEN t ELSE s.ch[d].track
  BY <1>5, <1>18, <1>19 DEF SameLinks
<1>22. SamePlace(s.tr[t], r.tr[t])
  BY <1>15, <1>16, <1>17, <1>19 DEF SamePlace
<1>23. \A u \in Tracks : u # t => SameTrack(s.tr[u], r.tr[u])
  BY <1>5, <1>19 DEF Relinked
<1>24. Owned(r)
  <2> SUFFICES ASSUME NEW d \in Chans, r.ch[d].track # 0
               PROVE  r.tr[r.ch[d].track].exist /\ ~r.tr[r.ch[d].track].start
    BY DEF Owned
  <2>1. CASE r.ch[d].track = t
    BY <1>22, <2>1 DEF SamePlace
  <2>2. CASE r.ch[d].track # t
    <3>1. r.ch[d].track = s.ch[d].track
      BY <1>21, <2>2
    <3>2. PICK u \in Tracks : u = s.ch[d].track
      BY <3>1, LinkTypes
    <3>3. s.tr[u].exist /\ ~s.tr[u].start
      BY <3>1, <3>2 DEF Sound, Owned
    <3>4. SameTrack(s.tr[u], r.tr[u])
      BY <1>23, <2>2, <3>1, <3>2
    <3> QED
      BY <3>1, <3>2, <3>3, <3>4 DEF SameTrack
  <2> QED
    BY <2>1, <2>2
<1>25. AsSet(r)
  <2> SUFFICES ASSUME NEW d \in Chans, r.ch[d].track # 0
               PROVE  Heard(r.ch[d], r.tr[r.ch[d].track])
    BY DEF AsSet
  <2>1. CASE d = c
    <3>1. r.ch[d] = b /\ r.ch[d].track = t
      BY <1>19, <1>21, <2>1
    <3>2. Heard(b, e)
      BY <1>17, <1>18 DEF Heard
    <3> QED
      BY <1>19, <3>1, <3>2
  <2>2. CASE d # c
    <3>1. r.ch[d].track = s.ch[d].track /\ m.ch[d].track = s.ch[d].track
      BY <1>5, <1>21, <2>2
    <3>2. PICK u \in Tracks : u = s.ch[d].track
      BY <3>1, LinkTypes
    <3>3. Heard(s.ch[d], s.tr[u])
      BY <3>1, <3>2 DEF Sound, AsSet
    <3>4. SameNote(s.ch[d], m.ch[d]) /\ SameTrack(s.tr[u], m.tr[u])
      BY <1>5 DEF Relinked
    <3>5. Heard(m.ch[d], m.tr[u])
      BY <3>3, <3>4, AlikeHeard
    <3>6. /\ r.ch[d].phase = m.ch[d].phase /\ r.ch[d].vol = m.ch[d].vol /\ r.ch[d].pit = m.ch[d].pit
          /\ r.ch[d].stale = (m.ch[d].stale \/ (m.ch[d].track = t /\ (tq.vlchg \/ tq.ptchg)))
      BY <1>19, <2>2
    <3>7. CASE u # t
      <4>1. r.tr[u] = m.tr[u]
        BY <1>19, <3>7
      <4> QED
        BY <3>1, <3>2, <3>5, <3>6, <4>1 DEF Heard, On
    <3>8. CASE u = t
      <4>1. Heard(r.ch[d], e)
        <5>1. CASE tq.vlchg \/ tq.ptchg
          BY <3>1, <3>2, <3>6, <3>8, <5>1 DEF Heard
        <5>2. CASE ~tq.vlchg /\ ~tq.ptchg
          BY <1>16, <1>17, <3>5, <3>6, <3>8, <5>2 DEF Heard, On
        <5> QED
          BY <5>1, <5>2
      <4> QED
        BY <1>19, <3>1, <3>2, <3>8, <4>1
    <3> QED
      BY <3>7, <3>8
  <2> QED
    BY <2>1, <2>2
<1>26. Standing(r)
  <2> SUFFICES ASSUME NEW d \in Direct PROVE Stands(r.ch[d])
    BY DEF Standing
  <2>1. CASE d = c
    BY <1>18, <1>19, <2>1 DEF Stands
  <2>2. CASE d # c
    <3>1. d \in Chans /\ Stands(s.ch[d])
      BY Numbers DEF Sound, Standing
    <3>2. SameNote(s.ch[d], m.ch[d])
      BY <1>5, <3>1 DEF Relinked
    <3>3. Stands(m.ch[d])
      BY <3>1, <3>2 DEF SameNote, Stands, On
    <3> QED
      BY <1>19, <2>2, <3>1, <3>3
  <2> QED
    BY <2>1, <2>2
<1>27. \A u \in Tracks : ~r.tr[u].exist => Unmarked(r.tr[u])
  <2> SUFFICES ASSUME NEW u \in Tracks, ~r.tr[u].exist PROVE Unmarked(r.tr[u])
    OBVIOUS
  <2>1. CASE u = t
    BY <1>17, <1>19, <2>1
  <2>2. CASE u # t
    <3>1. ~s.tr[u].exist => Unmarked(s.tr[u])
      BY DEF Sound
    <3> QED
      BY <1>23, <2>2, <3>1 DEF SameTrack, Unmarked
  <2> QED
    BY <2>1, <2>2
<1> QED
  BY <1>19, <1>20, <1>22, <1>23, <1>24, <1>25, <1>26, <1>27 DEF Sound

(* A track that is stopped: its notes are silent, and of no track.         *)
LEMMA SilentStands ==
  ASSUME NEW a \in Channel
  PROVE  Silent(a) \in Channel /\ Quieter(a, Silent(a)) /\ Stands(Silent(a)) /\ ~On(Silent(a))
<1>1. "off" \in Phases
  BY DEF Phases
<1> QED
  BY <1>1 DEF Silent, Channel, Quieter, SameLinks, Stands, On

(* A track stopped: no channel names it.                                   *)
LEMMA TrackStopped ==
  ASSUME NEW s \in Pairs, Sound(s), NEW t \in Tracks, NEW r, r = TrackStop(s, t)
  PROVE  /\ r \in Pairs /\ Sound(r) /\ \A u \in Tracks : SameTrack(s.tr[u], r.tr[u])
         /\ \A c \in Chans : r.ch[c].track = IF s.ch[c].track = t THEN 0 ELSE s.ch[c].track
<1>0. t # 0 /\ 0 \notin Chans
  BY Numbers
<1>1. CASE ~s.tr[t].exist
  <2>1. r = s
    BY <1>1 DEF TrackStop
  <2>2. \A c \in Chans : s.ch[c].track # t
    BY <1>0, <1>1 DEF Sound, Owned
  <2> QED
    BY <2>1, <2>2, LinkTypes
<1>2. CASE s.tr[t].exist
  <2> DEFINE notes == ChainFrom(s.ch, s.tr[t].chan)
             quiet == [c \in Chans |->
               IF c \in ToSet(notes) THEN [Silent(s.ch[c]) EXCEPT !.track = 0] ELSE s.ch[c]]
  <2>1. /\ s.tr \in [Tracks -> Track] /\ s.ch \in [Chans -> Channel]
    BY LinkTypes
  <2>2. notes \in Seq(Chans) /\ \A c \in Chans : s.ch[c].track = t <=> c \in ToSet(notes)
    BY ChainHolds DEF Sound
  <2>3. r = [tr |-> [s.tr EXCEPT ![t].chan = 0], ch |-> quiet]
    BY <1>2 DEF TrackStop
  <2> HIDE DEF notes
  <2>4. ASSUME NEW c \in Chans, c \in ToSet(notes)
        PROVE  quiet[c] \in Channel /\ quiet[c].track = 0 /\ ~On(quiet[c])
    <3>1. PICK b \in Channel : b = Silent(s.ch[c]) /\ ~On(b)
      BY <2>1, SilentStands
    <3>2. quiet[c] = [b EXCEPT !.track = 0]
      BY <2>4, <3>1
    <3> QED
      BY <3>1, <3>2 DEF Channel, On
  <2>5. \A c \in Chans : c \notin ToSet(notes) => quiet[c] = s.ch[c]
    OBVIOUS
  <2>6. quiet \in [Chans -> Channel]
    <3>1. \A c \in Chans : quiet[c] \in Channel
      BY <2>1, <2>4, <2>5
    <3> QED
      BY <3>1
  <2> HIDE DEF quiet
  <2>7. PICK e : e = [s.tr[t] EXCEPT !.chan = 0]
    OBVIOUS
  <2>8. e \in Track /\ e.chan = 0 /\ SameTrack(s.tr[t], e)
    <3>1. PICK z \in Chans \cup {0} : z = 0
      OBVIOUS
    <3>2. e \in Track /\ e.chan = 0
      <4>1. PICK a \in Track : a = s.tr[t]
        BY <2>1
      <4>2. [a EXCEPT !.chan = z] \in Track /\ [a EXCEPT !.chan = z].chan = z
        BY DEF Track
      <4> QED
        BY <2>7, <3>1, <4>1, <4>2
    <3>3. SameTrack(s.tr[t], e)
      BY <2>1, <2>7 DEF Track, SameTrack
    <3> QED
      BY <3>2, <3>3
  <2>9. r = [tr |-> [s.tr EXCEPT ![t] = e], ch |-> quiet]
    BY <2>3, <2>7
  <2>10. /\ r \in Pairs /\ r.ch = quiet /\ r.tr[t] = e
         /\ \A u \in Tracks : u # t => r.tr[u] = s.tr[u]
    BY <2>1, <2>6, <2>8, <2>9 DEF Pairs
  <2>11. \A u \in Tracks : SameTrack(s.tr[u], r.tr[u])
    BY <2>8, <2>10, LinkTypes
  <2>12. \A c \in Chans : r.ch[c].track = IF s.ch[c].track = t THEN 0 ELSE s.ch[c].track
    BY <2>2, <2>4, <2>5, <2>10
  <2>13. \A c \in Chans : r.ch[c].track # 0 => r.ch[c] = s.ch[c] /\ s.ch[c].track # t
    BY <1>0, <2>2, <2>4, <2>5, <2>10
  <2>14. Orderly(r)
    <3>1. PICK L : Listed(L, s.tr, s.ch)
      BY DEF Sound, Orderly
    <3>2. PICK M : M = [L EXCEPT ![t] = <<>>]
      OBVIOUS
    <3>3. L \in [Tracks -> Seq(Chans)] /\ <<>> \in Seq(Chans)
      BY <3>1 DEF Listed
    <3>4. M \in [Tracks -> Seq(Chans)] /\ M[t] = <<>> /\ \A u \in Tracks : u # t => M[u] = L[u]
      BY <3>2, <3>3
    <3>5. \A u \in Tracks : r.tr[u].chan = IF M[u] = <<>> THEN 0 ELSE M[u][1]
      <4>1. \A u \in Tracks : s.tr[u].chan = IF L[u] = <<>> THEN 0 ELSE L[u][1]
        BY <3>1 DEF Listed
      <4>2. ASSUME NEW u \in Tracks PROVE r.tr[u].chan = IF M[u] = <<>> THEN 0 ELSE M[u][1]
        <5>1. CASE u = t
          BY <2>8, <2>10, <3>4, <5>1
        <5>2. CASE u # t
          BY <2>10, <3>4, <4>1, <5>2
        <5> QED
          BY <5>1, <5>2
      <4> QED
        BY <4>2
    <3>6. ASSUME NEW u \in Tracks, NEW i \in DOMAIN M[u]
          PROVE  /\ r.ch[M[u][i]].track = u
                 /\ r.ch[M[u][i]].np = IF i = Len(M[u]) THEN 0 ELSE M[u][i + 1]
                 /\ r.ch[M[u][i]].pp = IF i = 1 THEN 0 ELSE M[u][i - 1]
      <4>1. u # t
        <5>1. DOMAIN M[t] = {}
          BY <3>4
        <5> QED
          BY <5>1
      <4>2. M[u] = L[u] /\ i \in DOMAIN L[u] /\ L[u][i] \in Chans
        BY <3>3, <3>4, <4>1
      <4>3. s.ch[L[u][i]].track = u
        BY <3>1, <4>2 DEF Listed
      <4>4. r.ch[L[u][i]] = s.ch[L[u][i]]
        BY <2>2, <2>5, <2>10, <4>1, <4>2, <4>3
      <4> QED
        BY <3>1, <4>2, <4>4 DEF Listed
    <3>7. \A u \in Tracks : \A i, j \in DOMAIN M[u] : i # j => M[u][i] # M[u][j]
      <4>1. \A u \in Tracks : \A i, j \in DOMAIN L[u] : i # j => L[u][i] # L[u][j]
        BY <3>1 DEF Listed
      <4>2. DOMAIN M[t] = {}
        BY <3>4
      <4> QED
        BY <3>4, <4>1, <4>2
    <3>8. \A c \in Chans : r.ch[c].track # 0 => \E i \in DOMAIN M[r.ch[c].track] : M[r.ch[c].track][i] = c
      <4> SUFFICES ASSUME NEW c \in Chans, r.ch[c].track # 0
                   PROVE  \E i \in DOMAIN M[r.ch[c].track] : M[r.ch[c].track][i] = c
        OBVIOUS
      <4>1. r.ch[c] = s.ch[c] /\ s.ch[c].track # t /\ s.ch[c].track # 0
        BY <2>13
      <4>2. PICK u \in Tracks : u = s.ch[c].track
        BY <4>1, LinkTypes
      <4>3. \E i \in DOMAIN L[u] : L[u][i] = c
        BY <3>1, <4>1, <4>2 DEF Listed
      <4> QED
        BY <3>4, <4>1, <4>2, <4>3
    <3>9. Listed(M, r.tr, r.ch)
      BY <3>4, <3>5, <3>6, <3>7, <3>8 DEF Listed
    <3> QED
      BY <2>10, <3>9 DEF Orderly
  <2>15. \A c \in Chans : s.ch[c].track \in Tracks \cup {0}
    BY LinkTypes
  <2>16. Owned(r)
    BY <2>10, <2>13, <2>15 DEF Sound, Owned
  <2>17. AsSet(r)
    BY <2>10, <2>13, <2>15 DEF Sound, AsSet
  <2>18. Standing(r)
    <3> SUFFICES ASSUME NEW c \in Direct PROVE Stands(r.ch[c])
      BY DEF Standing
    <3>1. c \in Chans /\ Stands(s.ch[c])
      BY Numbers DEF Sound, Standing
    <3>2. ~On(r.ch[c]) \/ r.ch[c] = s.ch[c]
      BY <2>4, <2>5, <2>10, <3>1
    <3> QED
      BY <3>1, <3>2 DEF Stands
  <2>19. \A u \in Tracks : ~r.tr[u].exist => Unmarked(r.tr[u])
    BY <2>11 DEF Sound, SameTrack, Unmarked
  <2> QED
    BY <2>10, <2>11, <2>12, <2>14, <2>16, <2>17, <2>18, <2>19 DEF Sound
<1> QED
  BY <1>1, <1>2

(* Every track stopped: no channel names a track.                          *)
LEMMA StoppedSound ==
  ASSUME NEW s \in Pairs, s = State, Sound(s), NEW r, r = Stopped
  PROVE  /\ r \in Pairs /\ Sound(r) /\ \A u \in Tracks : SameTrack(s.tr[u], r.tr[u])
         /\ \A c \in Chans : r.ch[c].track = 0
<1> DEFINE Fit == {q \in Pairs : Sound(q)}
           F == [t \in 1 .. NumTracks |-> [q \in Fit |-> TrackStop(q, t)]]
           after == CHOOSE f : f = [t \in 0 .. NumTracks |-> IF t = 0 THEN s ELSE TrackStop(f[t - 1], t)]
<1>1. NumTracks \in Nat /\ Tracks = 1 .. NumTracks
  BY Numbers
<1>2. r = after[NumTracks]
  BY DEF Stopped
<1>3. s \in Fit /\ \A q \in Fit : q \in Pairs /\ Sound(q)
  OBVIOUS
<1>4. ASSUME NEW t \in 1 .. NumTracks, NEW q \in Fit PROVE TrackStop(q, t) \in Fit
  <2>1. TrackStop(q, t) \in Pairs /\ Sound(TrackStop(q, t))
    BY <1>1, <1>3, TrackStopped
  <2> QED
    BY <2>1
<1> HIDE DEF Fit
<1>5. F \in [1 .. NumTracks -> [Fit -> Fit]]
  BY <1>4
<1>6. PICK f \in [0 .. NumTracks -> Fit] :
        \A t \in 0 .. NumTracks : f[t] = IF t = 0 THEN s ELSE F[t][f[t - 1]]
  <2>1. PICK G : G = F
    OBVIOUS
  <2>2. G \in [1 .. NumTracks -> [Fit -> Fit]]
    BY <1>5, <2>1
  <2> HIDE DEF F
  <2>3. \E f \in [0 .. NumTracks -> Fit] : Steps(f, NumTracks, s, G)
    BY <1>1, <1>3, <2>2, Iterates
  <2> QED
    BY <2>1, <2>3 DEF Steps
<1>7. f = [t \in 0 .. NumTracks |-> IF t = 0 THEN s ELSE TrackStop(f[t - 1], t)]
  <2>1. ASSUME NEW t \in 0 .. NumTracks
        PROVE f[t] = IF t = 0 THEN s ELSE TrackStop(f[t - 1], t)
    <3>1. CASE t = 0
      BY <1>6, <3>1, <1>1
    <3>2. CASE t # 0
      <4>1. t \in 1 .. NumTracks /\ t - 1 \in 0 .. NumTracks
        BY <1>1, <3>2
      <4>2. f[t] = F[t][f[t - 1]]
        BY <1>6, <3>2, <4>1
      <4>3. f[t - 1] \in Fit
        BY <1>6, <4>1
      <4> QED
        BY <3>2, <4>1, <4>2, <4>3
    <3> QED
      BY <3>1, <3>2
  <2>2. f = [t \in 0 .. NumTracks |-> f[t]]
    BY <1>6
  <2> QED
    BY <2>1, <2>2
<1>8. after = [t \in 0 .. NumTracks |-> IF t = 0 THEN s ELSE TrackStop(after[t - 1], t)]
  BY <1>7
<1> HIDE DEF after, F
<1> DEFINE Done(n) == /\ after[n] \in Pairs /\ Sound(after[n])
                      /\ \A u \in Tracks : SameTrack(s.tr[u], after[n].tr[u])
                      /\ \A c \in Chans : after[n].ch[c].track \notin 1 .. n
           So == {n \in 0 .. NumTracks : Done(n)}
<1>9. 0 \in So
  <2>1. after[0] = s /\ 0 \in 0 .. NumTracks
    BY <1>1, <1>8
  <2>2. \A u \in Tracks : SameTrack(s.tr[u], s.tr[u])
    BY LinkTypes
  <2>3. 1 .. 0 = {}
    OBVIOUS
  <2>4. Done(0)
    BY <2>1, <2>2, <2>3
  <2> HIDE DEF Done
  <2> QED
    BY <2>1, <2>4
<1>10. ASSUME NEW n \in 1 .. NumTracks, n - 1 \in So PROVE n \in So
  <2>1. Done(n - 1) /\ n \in 0 .. NumTracks /\ n # 0 /\ n \in Tracks
    BY <1>10, <1>1
  <2>2. PICK q : q = after[n - 1]
    OBVIOUS
  <2>3. PICK u : u = after[n]
    OBVIOUS
  <2>4. u = TrackStop(q, n)
    BY <1>8, <2>1, <2>2, <2>3
  <2>5. /\ q \in Pairs /\ Sound(q) /\ \A v \in Tracks : SameTrack(s.tr[v], q.tr[v])
        /\ \A c \in Chans : q.ch[c].track \notin 1 .. n - 1
    BY <2>1, <2>2
  <2>6. /\ u \in Pairs /\ Sound(u) /\ \A v \in Tracks : SameTrack(q.tr[v], u.tr[v])
        /\ \A c \in Chans : u.ch[c].track = IF q.ch[c].track = n THEN 0 ELSE q.ch[c].track
    BY <2>1, <2>4, <2>5, TrackStopped
  <2>7. \A v \in Tracks : SameTrack(s.tr[v], u.tr[v])
    BY <2>5, <2>6, SameAgain
  <2>8. ASSUME NEW c \in Chans PROVE u.ch[c].track \notin 1 .. n
    <3>1. CASE q.ch[c].track = n
      <4>1. u.ch[c].track = 0
        BY <2>6, <3>1
      <4>2. 0 \notin 1 .. n
        BY <1>1
      <4> QED
        BY <4>1, <4>2
    <3>2. CASE q.ch[c].track # n
      <4>1. u.ch[c].track = q.ch[c].track /\ q.ch[c].track \notin 1 .. n - 1
        BY <2>5, <2>6, <3>2
      <4>2. \A m \in 1 .. n : m = n \/ m \in 1 .. n - 1
        BY <1>1
      <4> QED
        BY <3>2, <4>1, <4>2
    <3> QED
      BY <3>1, <3>2
  <2>9. Done(n)
    BY <2>3, <2>6, <2>7, <2>8
  <2> HIDE DEF Done
  <2> QED
    BY <2>1, <2>9
<1>11. Done(NumTracks)
  <2> HIDE DEF So
  <2>1. \A n \in 0 .. NumTracks : n \in So
    BY <1>1, <1>9, <1>10, UpTo
  <2>2. NumTracks \in So
    BY <1>1, <2>1
  <2> HIDE DEF Done
  <2> QED
    BY <2>2 DEF So
<1>12. r \in Pairs /\ Sound(r) /\ \A u \in Tracks : SameTrack(s.tr[u], r.tr[u])
  BY <1>2, <1>11
<1>13. \A c \in Chans : r.ch[c].track \in Tracks \cup {0} /\ r.ch[c].track \notin 1 .. NumTracks
  BY <1>2, <1>11, <1>12, LinkTypes
<1> QED
  BY <1>1, <1>12, <1>13

(* --- the voice: a step of the envelope, a walk through the sample -------- *)

(* The fields of a voice that is no key split.                             *)
LEMMA ToneTypes ==
  ASSUME NEW tone \in Tones
  PROVE  /\ tone.kind \in {"wave", "cgb"} /\ (tone.kind = "cgb" => tone.cgb \in 1 .. NumCgb)
         /\ tone.size \in Nat \ {0} /\ tone.loopStart \in 0 .. tone.size /\ tone.freq \in Nat
         /\ tone.attack \in Nat /\ tone.decay \in Nat /\ tone.sustain \in Nat /\ tone.release \in Nat
<1>1. PICK v \in DOMAIN Voices : Voices[v].kind # "split" /\ tone = Voices[v]
  BY DEF Tones
<1>2. /\ tone.kind \in {"wave", "cgb"} /\ (tone.kind = "cgb" => tone.cgb \in 1 .. NumCgb)
      /\ tone.size \in Nat \ {0} /\ tone.loopStart \in 0 .. tone.size
  BY <1>1, VoicesAssumption
<1>3. \A f \in {"freq", "attack", "decay", "sustain", "release"} : tone[f] \in Nat
  BY <1>1, VoicesAssumption
<1> QED
  BY <1>2, <1>3

(* Division with a remainder.                                              *)
LEMMA DivMod ==
  ASSUME NEW x \in Int, NEW m \in Nat \ {0}
  PROVE  /\ x % m \in Int /\ 0 <= x % m /\ x % m < m
         /\ x \div m \in Int /\ x = m * (x \div m) + (x % m)
OBVIOUS

(* Division of a natural number.                                           *)
LEMMA WholePart ==
  ASSUME NEW x \in Nat, NEW m \in Nat \ {0}
  PROVE  x \div m \in Nat /\ x % m \in Nat
OBVIOUS

(* The step of a channel is never negative, whatever its pitch.            *)
LEMMA StepIsNat ==
  ASSUME NEW a \in Channel
  PROVE  Step(a) \in Nat
<1>1. /\ a.tone \in Tones /\ a.pit \in Int
  BY DEF Channel
<1>2. a.tone.freq \in Nat
  BY <1>1, ToneTypes
<1>3. Freq(a) \in Nat
  BY <1>1, <1>2 DEF Freq
<1>4. ASSUME NEW freq \in Nat PROVE StepFor(freq) \in Nat
  <2>1. freq * Whole \in Nat /\ MaxStep * Whole \in Nat /\ Rate \in Nat \ {0}
    BY VoiceAssumption
  <2>2. PICK x \in Nat : x = freq * Whole
    BY <2>1
  <2>3. x \div Rate \in Nat
    BY <2>1, WholePart
  <2> QED
    BY <2>1, <2>2, <2>3 DEF StepFor
<1>5. FixedRate \in Nat
  BY VoiceAssumption
<1>6. PICK freq \in Nat : freq = IF a.tone.fix THEN FixedRate ELSE Freq(a)
  BY <1>3, <1>5
<1> QED
  BY <1>4, <1>6 DEF Step

(* The loop length put back leaves between one sample and all of the loop. *)
LEMMA RewoundInLoop ==
  ASSUME NEW remain \in Int, remain <= 0, NEW loop \in Nat \ {0}
  PROVE  Rewound(remain, loop) \in 1 .. loop
<1>1. PICK x \in Nat : x = -remain
  <2>1. -remain \in Nat
    OBVIOUS
  <2> QED
    BY <2>1
<1>2. PICK q \in Int, m \in Int : q = x \div loop /\ m = x % loop
  BY <1>1, DivMod
<1>3. 0 <= m /\ m < loop /\ x = loop * q + m
  BY <1>1, <1>2, DivMod
<1>4. Rewound(remain, loop) = remain + loop * (q + 1)
  BY <1>1, <1>2 DEF Rewound
<1>5. loop * (q + 1) = loop * q + loop
  BY <1>2
<1>6. loop * q \in Int
  BY <1>2
<1>7. Rewound(remain, loop) = loop - m
  BY <1>1, <1>3, <1>4, <1>5, <1>6
<1> QED
  BY <1>2, <1>3, <1>7

(* What one turn of the walk or one frame of the envelope may do.          *)
Plays(a, b) ==
  /\ b \in Channel /\ Quieter(a, b) /\ b.phase # "start" /\ Stands(b)
  /\ b.tone = a.tone

(* One step of a channel after another.                                    *)
LEMMA PlaysAgain ==
  ASSUME NEW a, NEW b, NEW c, Plays(a, b), Plays(b, c)
  PROVE  Plays(a, c)
BY DEF Plays, Quieter, SameLinks

(* A channel that falls silent.                                            *)
LEMMA SilentPlays ==
  ASSUME NEW a \in Channel
  PROVE  Plays(a, Silent(a))
<1>1. Silent(a).tone = a.tone
  BY DEF Silent, Channel
<1> QED
  BY <1>1, SilentStands DEF Plays, On

(* A walking channel that only moves in its sample.                        *)
LEMMA MovedPlays ==
  ASSUME NEW a \in Channel, a.phase # "start", NEW fw \in Nat,
         NEW remain \in 1 .. a.tone.size, NEW pos, pos = a.tone.size - remain,
         NEW b, b = [a EXCEPT !.fw = fw, !.remain = remain, !.pos = pos]
  PROVE  Plays(a, b)
<1>1. a.tone.size \in Nat
  <2>1. a.tone \in Tones
    BY DEF Channel
  <2> QED
    BY <2>1, ToneTypes
<1>2. remain \in Int /\ pos \in Int
  BY <1>1
<1>3. b \in Channel /\ b.remain = remain /\ b.pos = pos /\ b.tone = a.tone /\ b.phase = a.phase
  <2>1. PICK x \in Int, y \in Int : x = remain /\ y = pos
    BY <1>2
  <2>2. [a EXCEPT !.fw = fw, !.remain = x, !.pos = y] \in Channel
    BY DEF Channel
  <2>3. b \in Channel
    BY <2>1, <2>2
  <2>4. b.remain = remain /\ b.pos = pos /\ b.tone = a.tone /\ b.phase = a.phase
    BY DEF Channel
  <2> QED
    BY <2>3, <2>4
<1>4. Quieter(a, b)
  BY DEF Quieter, SameLinks, On, Channel
<1> QED
  BY <1>3, <1>4 DEF Plays, Stands

(* One frame of output: the walk stays inside the sample, or ends.         *)
LEMMA AdvancePlays ==
  ASSUME NEW a \in Channel, Stands(a), a.phase # "start"
  PROVE  Plays(a, Advance(a))
<1>1. /\ a.tone \in Tones /\ a.fw \in Nat /\ a.remain \in Int /\ a.pos \in Int
  BY DEF Channel
<1>2. /\ a.tone.size \in Nat \ {0} /\ a.tone.loopStart \in 0 .. a.tone.size
  BY <1>1, ToneTypes
<1>3. Whole \in Nat \ {0}
  BY VoiceAssumption
<1>4. PICK fw \in Nat : fw = a.fw + Step(a)
  <2>1. a.fw + Step(a) \in Nat
    BY <1>1, StepIsNat
  <2> QED
    BY <2>1
<1>5. PICK adv \in Nat, part \in Nat : adv = fw \div Whole /\ part = fw % Whole
  BY <1>3, WholePart
<1>6. PICK remain \in Int : remain = a.remain - adv
  BY <1>1
<1>7. PICK loop \in Nat : loop = LoopLength(a) /\ loop <= a.tone.size
                          /\ (loop # 0 => loop = a.tone.size - a.tone.loopStart)
  <2>1. CASE a.tone.loop
    BY <1>2, <2>1 DEF LoopLength
  <2>2. CASE ~a.tone.loop
    BY <1>2, <2>2 DEF LoopLength
  <2> QED
    BY <2>1, <2>2
<1>8. PICK back : back = Rewound(remain, loop)
  OBVIOUS
<1>9. Advance(a) =
        CASE ~On(a) -> a
          [] On(a) /\ adv = 0 -> [a EXCEPT !.fw = fw]
          [] On(a) /\ adv # 0 /\ Left(remain) ->
               [a EXCEPT !.fw = part, !.remain = remain, !.pos = a.pos + adv]
          [] On(a) /\ adv # 0 /\ ~Left(remain) /\ loop = 0 -> Silent(a)
          [] On(a) /\ adv # 0 /\ ~Left(remain) /\ loop # 0 ->
               [a EXCEPT !.fw = part, !.remain = back, !.pos = a.tone.loopStart + (loop - back)]
  BY <1>4, <1>5, <1>6, <1>7, <1>8 DEF Advance
<1>10. PICK b : b = Advance(a)
  OBVIOUS
<1>11. On(a) => a.remain \in 1 .. a.tone.size /\ a.pos = a.tone.size - a.remain
  BY DEF Stands
<1>12. CASE ~On(a)
  <2>1. b = a
    BY <1>9, <1>10, <1>12
  <2> QED
    BY <1>10, <2>1 DEF Plays, Quieter, SameLinks
<1>13. CASE On(a) /\ adv = 0
  <2>1. b = [a EXCEPT !.fw = fw]
    BY <1>9, <1>10, <1>13
  <2>2. b \in Channel
    BY <2>1 DEF Channel
  <2>3. Quieter(a, b) /\ b.phase = a.phase
    BY <2>1 DEF Channel, Quieter, SameLinks, On
  <2>4. b.tone = a.tone /\ b.pos = a.pos /\ b.remain = a.remain
    BY <2>1 DEF Channel
  <2> QED
    BY <1>10, <2>2, <2>3, <2>4 DEF Plays, Stands, On
<1>14. CASE On(a) /\ adv # 0 /\ Left(remain)
  <2>1. b = [a EXCEPT !.fw = part, !.remain = remain, !.pos = a.pos + adv]
    BY <1>9, <1>10, <1>14
  <2>2. remain \in 1 .. a.tone.size /\ a.pos + adv = a.tone.size - remain
    BY <1>1, <1>2, <1>6, <1>11, <1>14 DEF Left
  <2>3. PICK pos : pos = a.tone.size - remain
    OBVIOUS
  <2>4. b = [a EXCEPT !.fw = part, !.remain = remain, !.pos = pos]
    BY <2>1, <2>2, <2>3
  <2> QED
    BY <1>10, <2>2, <2>3, <2>4, MovedPlays
<1>15. CASE On(a) /\ adv # 0 /\ ~Left(remain) /\ loop = 0
  <2>1. b = Silent(a)
    BY <1>9, <1>10, <1>15
  <2> QED
    BY <1>10, <2>1, SilentPlays
<1>16. CASE On(a) /\ adv # 0 /\ ~Left(remain) /\ loop # 0
  <2>1. b = [a EXCEPT !.fw = part, !.remain = back, !.pos = a.tone.loopStart + (loop - back)]
    BY <1>9, <1>10, <1>16
  <2>2. back \in 1 .. loop
    BY <1>6, <1>7, <1>8, <1>16, RewoundInLoop DEF Left
  <2>3. back \in 1 .. a.tone.size /\ a.tone.loopStart + (loop - back) = a.tone.size - back
    BY <1>2, <1>7, <1>16, <2>2
  <2>4. PICK pos : pos = a.tone.size - back
    OBVIOUS
  <2>5. b = [a EXCEPT !.fw = part, !.remain = back, !.pos = pos]
    BY <2>1, <2>3, <2>4
  <2> QED
    BY <1>10, <2>3, <2>4, <2>5, MovedPlays
<1> QED
  BY <1>12, <1>13, <1>14, <1>15, <1>16

(* A channel that only changes its level, and its phase with it.           *)
LEMMA LevelPlays ==
  ASSUME NEW a \in Channel, Stands(a), On(a), a.phase # "start", NEW ev \in Int,
         NEW phase \in Phases, phase # "start", NEW b, b = [a EXCEPT !.ev = ev, !.phase = phase]
  PROVE  Plays(a, b)
<1>1. b \in Channel
  BY DEF Channel
<1>2. b.phase = phase /\ b.tone = a.tone /\ b.pos = a.pos /\ b.remain = a.remain
  BY DEF Channel
<1>3. Quieter(a, b)
  BY DEF Quieter, SameLinks, Channel
<1> QED
  BY <1>1, <1>2, <1>3 DEF Plays, Stands, On

(* The envelope scaled is a number.                                        *)
LEMMA ScaledIsInt ==
  ASSUME NEW x \in Nat, NEW ev \in Int
  PROVE  Scaled(x, ev) \in Int
<1>1. x * ev \in Int /\ Full + 1 \in Nat \ {0}
  BY VoiceAssumption
<1>2. PICK y \in Int, m \in Nat \ {0} : y = x * ev /\ m = Full + 1
  BY <1>1
<1>3. y \div m \in Int
  BY <1>2, DivMod
<1> QED
  BY <1>2, <1>3 DEF Scaled

(* The attack moves only the envelope.                                     *)
LEMMA AttackPlays ==
  ASSUME NEW a \in Channel, Stands(a), On(a), a.phase # "start"
  PROVE  Plays(a, Attack(a))
<1>1. a.ev \in Int /\ a.tone \in Tones
  BY DEF Channel
<1>2. PICK ev \in Int : ev = a.ev + a.tone.attack
  <2>1. a.tone.attack \in Nat
    BY <1>1, ToneTypes
  <2> QED
    BY <1>1, <2>1
<1>3. Attack(a) = IF ev >= Full THEN [a EXCEPT !.ev = Full, !.phase = "decay"]
                                ELSE [a EXCEPT !.ev = ev, !.phase = "attack"]
  BY <1>2 DEF Attack
<1>4. Full \in Int /\ {"attack", "decay"} \subseteq Phases
  BY VoiceAssumption DEF Phases
<1>5. PICK b : b = Attack(a)
  OBVIOUS
<1>6. CASE ev >= Full
  <2>1. PICK f \in Int, p \in Phases : f = Full /\ p = "decay"
    BY <1>4
  <2>2. b = [a EXCEPT !.ev = f, !.phase = p]
    BY <1>3, <1>5, <1>6, <2>1
  <2>3. Plays(a, b)
    BY <2>1, <2>2, LevelPlays
  <2> QED
    BY <1>5, <2>3
<1>7. CASE ~(ev >= Full)
  <2>1. PICK p \in Phases : p = "attack"
    BY <1>4
  <2>2. b = [a EXCEPT !.ev = ev, !.phase = p]
    BY <1>3, <1>5, <1>7, <2>1
  <2>3. Plays(a, b)
    BY <2>1, <2>2, LevelPlays
  <2> QED
    BY <1>5, <2>3
<1> QED
  BY <1>6, <1>7

(* The echo moves only the envelope, or ends the note.                     *)
LEMMA EchoPlays ==
  ASSUME NEW a \in Channel, Stands(a), On(a), a.phase # "start"
  PROVE  Plays(a, Echo(a)) /\ Plays(a, EchoTail(a))
<1>1. Plays(a, Echo(a))
  <2>1. CASE a.echoVolume = 0
    BY <2>1, SilentPlays DEF Echo
  <2>2. CASE a.echoVolume # 0
    <3>1. PICK ev \in Int, p \in Phases : ev = a.echoVolume /\ p = "echo"
      <4>1. a.echoVolume \in Nat /\ "echo" \in Phases
        BY DEF Channel, Phases
      <4>2. a.echoVolume \in Int
        BY <4>1
      <4> QED
        BY <4>1, <4>2
    <3>2. PICK b : b = Echo(a)
      OBVIOUS
    <3>3. b = [a EXCEPT !.ev = ev, !.phase = p]
      BY <2>2, <3>1, <3>2 DEF Echo
    <3>4. Plays(a, b)
      BY <3>1, <3>3, LevelPlays
    <3> QED
      BY <3>2, <3>4
  <2> QED
    BY <2>1, <2>2
<1>2. Plays(a, EchoTail(a))
  <2>1. CASE a.echoLength <= 1
    BY <2>1, SilentPlays DEF EchoTail
  <2>2. CASE ~(a.echoLength <= 1)
    <3>1. PICK el \in Nat : el = a.echoLength - 1
      <4>1. a.echoLength \in Nat
        BY DEF Channel
      <4>2. a.echoLength - 1 \in Nat
        BY <2>2, <4>1
      <4> QED
        BY <4>2
    <3>2. PICK b : b = EchoTail(a)
      OBVIOUS
    <3>3. b = [a EXCEPT !.echoLength = el]
      BY <2>2, <3>1, <3>2 DEF EchoTail
    <3>4. b \in Channel
      BY <3>3 DEF Channel
    <3>5. b.phase = a.phase /\ b.tone = a.tone /\ b.pos = a.pos /\ b.remain = a.remain
      BY <3>3 DEF Channel
    <3>6. Quieter(a, b)
      BY <3>3 DEF Quieter, SameLinks, On, Channel
    <3> QED
      BY <3>2, <3>4, <3>5, <3>6 DEF Plays, Stands, On
  <2> QED
    BY <2>1, <2>2
<1> QED
  BY <1>1, <1>2

(* Release and decay move only the envelope, or end the note.              *)
LEMMA FallingPlays ==
  ASSUME NEW a \in Channel, Stands(a), On(a), a.phase # "start"
  PROVE  /\ Plays(a, Faded(a, Scaled(a.tone.release, a.ev)))
         /\ Plays(a, Decay(a))
<1>1. /\ a.ev \in Int /\ a.echoVolume \in Nat /\ a.phase \in Phases
      /\ a.tone.release \in Nat /\ a.tone.decay \in Nat /\ a.tone.sustain \in Nat
  <2>1. a.ev \in Int /\ a.echoVolume \in Nat /\ a.phase \in Phases /\ a.tone \in Tones
    BY DEF Channel
  <2> QED
    BY <2>1, ToneTypes
<1>2. ASSUME NEW ev \in Int, NEW b, b = [a EXCEPT !.ev = ev] PROVE Plays(a, b)
  <2>1. PICK p \in Phases : p = a.phase
    BY <1>1
  <2>2. b = [a EXCEPT !.ev = ev, !.phase = p]
    BY <1>2, <2>1 DEF Channel
  <2> QED
    BY <2>1, <2>2, LevelPlays
<1>3. Plays(a, Faded(a, Scaled(a.tone.release, a.ev)))
  <2>1. PICK ev \in Int : ev = Scaled(a.tone.release, a.ev)
    BY <1>1, ScaledIsInt
  <2>2. PICK b : b = Faded(a, ev)
    OBVIOUS
  <2>3. CASE ev > a.echoVolume
    <3>1. b = [a EXCEPT !.ev = ev]
      BY <2>2, <2>3 DEF Faded
    <3> QED
      BY <1>2, <2>1, <2>2, <3>1
  <2>4. CASE ~(ev > a.echoVolume)
    <3>1. b = Echo(a)
      BY <2>2, <2>4 DEF Faded
    <3> QED
      BY <2>1, <2>2, <3>1, EchoPlays
  <2> QED
    BY <2>3, <2>4
<1>4. Plays(a, Decay(a))
  <2>1. PICK ev \in Int : ev = Scaled(a.tone.decay, a.ev)
    BY <1>1, ScaledIsInt
  <2>2. PICK b : b = Decay(a)
    OBVIOUS
  <2>3. b = CASE ev > a.tone.sustain -> [a EXCEPT !.ev = ev]
              [] ev <= a.tone.sustain /\ a.tone.sustain = 0 -> Echo(a)
              [] OTHER -> [a EXCEPT !.ev = a.tone.sustain, !.phase = "sustain"]
    BY <2>1, <2>2 DEF Decay
  <2>4. CASE ev > a.tone.sustain
    <3>1. ~(ev <= a.tone.sustain)
      BY <1>1, <2>1, <2>4
    <3>2. b = [a EXCEPT !.ev = ev]
      BY <2>3, <2>4, <3>1
    <3> QED
      BY <1>2, <2>2, <3>2
  <2>5. CASE ~(ev > a.tone.sustain) /\ a.tone.sustain = 0
    <3>1. ev <= a.tone.sustain
      BY <1>1, <2>1, <2>5
    <3>2. b = Echo(a)
      BY <2>3, <2>5, <3>1
    <3> QED
      BY <2>2, <3>2, EchoPlays
  <2>6. CASE ~(ev > a.tone.sustain) /\ a.tone.sustain # 0
    <3>1. b = [a EXCEPT !.ev = a.tone.sustain, !.phase = "sustain"]
      BY <2>3, <2>6
    <3>2. PICK x \in Int, p \in Phases : x = a.tone.sustain /\ p = "sustain"
      <4>1. a.tone.sustain \in Int /\ "sustain" \in Phases
        BY <1>1 DEF Phases
      <4> QED
        BY <4>1
    <3>3. b = [a EXCEPT !.ev = x, !.phase = p]
      BY <3>1, <3>2
    <3>4. Plays(a, b)
      BY <3>2, <3>3, LevelPlays
    <3> QED
      BY <2>2, <3>4
  <2> QED
    BY <2>4, <2>5, <2>6
<1> QED
  BY <1>3, <1>4

(* A note picked up stands on the first sample, and is not yet walking.    *)
LEMMA StartedPlays ==
  ASSUME NEW a \in Channel, a.phase = "start"
  PROVE  Plays(a, Attack(Started(a)))
<1>1. PICK size \in Nat \ {0} : size = a.tone.size
  <2>1. a.tone \in Tones
    BY DEF Channel
  <2> QED
    BY <2>1, ToneTypes
<1>2. PICK b : b = [a EXCEPT !.pos = 0, !.remain = size, !.fw = 0, !.ev = 0, !.phase = "attack"]
  OBVIOUS
<1>3. b \in Channel
  <2>1. PICK z \in Nat, i \in Int, n \in Int, p \in Phases : z = 0 /\ i = 0 /\ n = size /\ p = "attack"
    BY <1>1 DEF Phases
  <2>2. [a EXCEPT !.pos = i, !.remain = n, !.fw = z, !.ev = i, !.phase = p] \in Channel
    BY DEF Channel
  <2> QED
    BY <1>2, <2>1, <2>2
<1>4. b.pos = 0 /\ b.remain = size /\ b.ev = 0 /\ b.phase = "attack" /\ b.tone = a.tone
  BY <1>2 DEF Channel
<1>5. Quieter(a, b)
  BY <1>2 DEF Quieter, SameLinks, On, Channel
<1>6. Stands(b) /\ On(b)
  BY <1>1, <1>4 DEF Stands, On
<1>7. Plays(b, Attack(b))
  BY <1>3, <1>4, <1>6, AttackPlays
<1>8. Attack(Started(a)) = Attack(b)
  <2>1. PICK st : st = Started(a)
    OBVIOUS
  <2>2. st = [a EXCEPT !.pos = 0, !.remain = size, !.fw = 0, !.ev = 0]
    BY <1>1, <2>1 DEF Started
  <2>3. b = [st EXCEPT !.phase = "attack"]
    BY <1>2, <2>2 DEF Channel
  <2>4. st.ev = b.ev /\ st.tone = b.tone
    BY <1>2, <2>2 DEF Channel
  <2>5. \A x, p : [st EXCEPT !.ev = x, !.phase = p] = [b EXCEPT !.ev = x, !.phase = p]
    BY <1>2, <2>2 DEF Channel
  <2> QED
    BY <2>1, <2>4, <2>5 DEF Attack
<1> QED
  BY <1>4, <1>5, <1>7, <1>8 DEF Plays, Quieter, SameLinks

(* One frame of the envelope, whatever the phase.                          *)
LEMMA EnvelopePlays ==
  ASSUME NEW a \in Channel, Stands(a)
  PROVE  Plays(a, Envelope(a))
<1>1. a.phase \in Phases
  BY DEF Channel
<1>2. CASE a.phase = "off"
  <2>1. Envelope(a) = a
    BY <1>2 DEF Envelope
  <2> QED
    BY <1>2, <2>1 DEF Plays, Quieter, SameLinks
<1>3. CASE a.phase = "start"
  <2>1. Envelope(a) = IF a.stop THEN Silent(a) ELSE Attack(Started(a))
    BY <1>3 DEF Envelope
  <2> QED
    BY <1>3, <2>1, SilentPlays, StartedPlays
<1>4. CASE a.phase = "echo"
  <2>1. Envelope(a) = EchoTail(a)
    BY <1>4 DEF Envelope
  <2> QED
    BY <1>4, <2>1, EchoPlays DEF On
<1>5. CASE a.phase \in {"attack", "decay", "sustain"}
  <2>1. On(a) /\ a.phase # "start"
    BY <1>5 DEF On
  <2>2. CASE a.stop
    <3>1. Envelope(a) = Faded(a, Scaled(a.tone.release, a.ev))
      BY <1>5, <2>2 DEF Envelope
    <3> QED
      BY <2>1, <3>1, FallingPlays
  <2>3. CASE ~a.stop /\ a.phase = "attack"
    <3>1. Envelope(a) = Attack(a)
      BY <2>3 DEF Envelope
    <3> QED
      BY <2>1, <3>1, AttackPlays
  <2>4. CASE ~a.stop /\ a.phase = "decay"
    <3>1. Envelope(a) = Decay(a)
      BY <2>4 DEF Envelope
    <3> QED
      BY <2>1, <3>1, FallingPlays
  <2>5. CASE ~a.stop /\ a.phase = "sustain"
    <3>1. Envelope(a) = a
      BY <2>5 DEF Envelope
    <3> QED
      BY <2>1, <3>1 DEF Plays, Quieter, SameLinks
  <2> QED
    BY <1>5, <2>2, <2>3, <2>4, <2>5
<1> QED
  BY <1>1, <1>2, <1>3, <1>4, <1>5 DEF Phases

(* The walk of a block, sample by sample.                                  *)
LEMMA WalkPlays ==
  ASSUME NEW a \in Channel, Stands(a), a.phase # "start"
  PROVE  \A n \in 0 .. Block : Walk(a)[n] \in Channel /\ Plays(a, Walk(a)[n])
<1> DEFINE Walks == {b \in Channel : Plays(a, b)}
           F == [n \in 1 .. Block |-> [b \in Walks |-> Advance(b)]]
           after == CHOOSE f : f = [n \in 0 .. Block |-> IF n = 0 THEN a ELSE Advance(f[n - 1])]
<1>1. Block \in Nat
  BY VoiceAssumption
<1>2. Walk(a) = after
  BY DEF Walk
<1>3. a \in Walks
  BY DEF Plays, Quieter, SameLinks
<1>4. \A b \in Walks : Advance(b) \in Walks
  <2> SUFFICES ASSUME NEW b \in Walks PROVE Advance(b) \in Walks
    OBVIOUS
  <2>1. Plays(a, b) /\ b \in Channel
    OBVIOUS
  <2>2. Plays(b, Advance(b))
    BY <2>1, AdvancePlays DEF Plays
  <2>3. Plays(a, Advance(b))
    BY <2>1, <2>2, PlaysAgain
  <2> QED
    BY <2>3 DEF Plays
<1>5. \A b \in Walks : b \in Channel /\ Plays(a, b)
  OBVIOUS
<1> HIDE DEF Walks
<1>6. F \in [1 .. Block -> [Walks -> Walks]]
  BY <1>4
<1>7. PICK f \in [0 .. Block -> Walks] : \A n \in 0 .. Block : f[n] = IF n = 0 THEN a ELSE F[n][f[n - 1]]
  <2>1. PICK G : G = F
    OBVIOUS
  <2>2. G \in [1 .. Block -> [Walks -> Walks]]
    BY <1>6, <2>1
  <2> HIDE DEF F
  <2>3. \E f \in [0 .. Block -> Walks] : Steps(f, Block, a, G)
    BY <1>1, <1>3, <2>2, Iterates
  <2> QED
    BY <2>1, <2>3 DEF Steps
<1>8. f = [n \in 0 .. Block |-> IF n = 0 THEN a ELSE Advance(f[n - 1])]
  <2>1. ASSUME NEW n \in 0 .. Block PROVE f[n] = IF n = 0 THEN a ELSE Advance(f[n - 1])
    <3>1. CASE n = 0
      BY <1>1, <1>7, <3>1
    <3>2. CASE n # 0
      <4>1. n \in 1 .. Block /\ n - 1 \in 0 .. Block
        BY <1>1, <3>2
      <4>2. f[n] = F[n][f[n - 1]] /\ f[n - 1] \in Walks
        BY <1>7, <3>2, <4>1
      <4> QED
        BY <3>2, <4>1, <4>2
    <3> QED
      BY <3>1, <3>2
  <2>2. f = [n \in 0 .. Block |-> f[n]]
    BY <1>7
  <2> QED
    BY <2>1, <2>2
<1>9. after = [n \in 0 .. Block |-> IF n = 0 THEN a ELSE Advance(after[n - 1])]
  BY <1>8
<1> HIDE DEF after, F
<1> DEFINE So == {n \in 0 .. Block : after[n] \in Walks}
<1>10. 0 \in So
  BY <1>1, <1>3, <1>9
<1>11. ASSUME NEW n \in 1 .. Block, n - 1 \in So PROVE n \in So
  <2>1. n \in 0 .. Block /\ n # 0
    BY <1>1
  <2>2. after[n] = Advance(after[n - 1])
    BY <1>9, <2>1
  <2> QED
    BY <1>4, <1>11, <2>1, <2>2
<1>12. \A n \in 0 .. Block : after[n] \in Walks
  <2> HIDE DEF So
  <2>1. \A n \in 0 .. Block : n \in So
    BY <1>1, <1>10, <1>11, UpTo
  <2> QED
    BY <2>1 DEF So
<1> QED
  BY <1>2, <1>5, <1>12

(* What the walk of a block leaves.                                        *)
LEMMA SamplesPlay ==
  ASSUME NEW a \in Channel, Stands(a), a.phase # "start"
  PROVE  Plays(a, Samples(a))
<1>1. Block \in 0 .. Block
  BY VoiceAssumption
<1>2. PICK b \in Channel : b = Walk(a)[Block] /\ Plays(a, b)
  BY <1>1, WalkPlays
<1>3. Samples(a) = IF On(b) THEN b ELSE Silent(a)
  BY <1>2 DEF Samples
<1> QED
  BY <1>2, <1>3, SilentPlays

(* A block reads no further than the byte after the last of its sample.    *)
LEMMA ReadsInside ==
  ASSUME NEW a \in Channel, Stands(a)
  PROVE  BlockReads(a) \subseteq 0 .. a.tone.size
<1>1. PICK b : b = Envelope(a) /\ Plays(a, b)
  BY EnvelopePlays
<1>2. \A n \in 0 .. Block : Plays(b, Walk(b)[n])
  BY <1>1, WalkPlays DEF Plays
<1>3. ASSUME NEW n \in 0 .. Block - 1 PROVE ReadAt(Walk(b)[n]) \subseteq 0 .. a.tone.size
  <2>1. n \in 0 .. Block
    BY VoiceAssumption
  <2>2. PICK w : w = Walk(b)[n] /\ Plays(b, w)
    BY <1>2, <2>1
  <2>3. w \in Channel /\ Stands(w) /\ w.phase # "start" /\ w.tone = a.tone
    BY <1>1, <2>2 DEF Plays
  <2>4. PICK size \in Nat : size = a.tone.size
    BY ToneTypes DEF Channel
  <2>5. On(w) => w.remain \in 1 .. size /\ w.pos = size - w.remain
    BY <2>3, <2>4 DEF Stands
  <2>6. On(w) => w.pos \in 0 .. size /\ w.pos + 1 \in 0 .. size
    BY <2>4, <2>5
  <2> QED
    BY <2>2, <2>4, <2>6 DEF ReadAt
<1>4. BlockReads(a) = UNION {ReadAt(Walk(b)[n]) : n \in 0 .. Block - 1}
  BY <1>1 DEF BlockReads
<1> QED
  BY <1>3, <1>4

(* MixChannel keeps a channel that stands on a sample on one.              *)
LEMMA MixedPlays ==
  ASSUME NEW a \in Channel, Stands(a)
  PROVE  Plays(a, MixChannel(a))
<1>1. PICK b : b = Envelope(a)
  OBVIOUS
<1>2. Plays(a, b)
  BY <1>1, EnvelopePlays
<1>3. Plays(b, Samples(b))
  BY <1>2, SamplesPlay DEF Plays
<1> QED
  BY <1>1, <1>2, <1>3, PlaysAgain DEF MixChannel

(* --- the choice of a channel --------------------------------------------- *)

Cand == [best : Direct \cup {0}, track : Nat, priority : Nat, releasing : BOOLEAN]

(* A channel before another in the order ply_note cuts them in, before a   *)
(* note of a track, and the candidate that is that channel.                *)
Under(c, d) == chans[c].pr < chans[d].pr \/ (chans[c].pr = chans[d].pr /\ chans[c].track >= chans[d].track)
Yields(c, t, p) == chans[c].pr < p \/ (chans[c].pr = p /\ chans[c].track >= t)
Names(cand, i) == cand.best = i /\ cand.track = chans[i].track /\ cand.priority = chans[i].pr

(* What the loop knows after n channels.                                   *)
Kept(cand, n, t, p) ==
  /\ cand \in Cand
  /\ cand.releasing <=> \E c \in 1 .. n : chans[c].stop
  /\ cand.releasing =>
       \E i \in 1 .. n : Names(cand, i) /\ chans[i].stop /\ \A c \in 1 .. n : chans[c].stop => Under(i, c)
  /\ ~cand.releasing =>
       \/ \E i \in 1 .. n : Names(cand, i) /\ Yields(i, t, p) /\ \A c \in 1 .. n : Under(i, c)
       \/ /\ cand.best = 0 /\ cand.track = t /\ cand.priority = p
          /\ \A c \in 1 .. n : ~Yields(c, t, p)

(* The order in which ply_note cuts notes is a total one.                  *)
LEMMA Ranks ==
  ASSUME chans \in [Chans -> Channel]
  PROVE  /\ \A c \in Direct : /\ chans[c].pr \in Nat /\ chans[c].track \in Nat /\ chans[c].stop \in BOOLEAN
                              /\ Under(c, c)
         /\ \A c, d \in Direct : Under(c, d) \/ Under(d, c)
         /\ \A c, d, e \in Direct : Under(c, d) /\ Under(d, e) => Under(c, e)
         /\ \A t \in Nat, p \in Nat, c, d \in Direct : Yields(d, t, p) /\ Under(c, d) => Yields(c, t, p)
         /\ \A t \in Nat, p \in Nat, c, d \in Direct : Yields(c, t, p) /\ ~Yields(d, t, p) => Under(c, d)
<1>1. \A c \in Direct : chans[c].pr \in Nat /\ chans[c].track \in Nat /\ chans[c].stop \in BOOLEAN
  <2>1. \A a \in Channel : a.pr \in Nat /\ a.track \in Tracks \cup {0} /\ a.stop \in BOOLEAN
    BY DEF Channel
  <2> QED
    BY <2>1, Numbers
<1>2. \A c \in Direct : Under(c, c)
  BY <1>1 DEF Under
<1>3. \A c, d \in Direct : Under(c, d) \/ Under(d, c)
  BY <1>1 DEF Under
<1>4. \A c, d, e \in Direct : Under(c, d) /\ Under(d, e) => Under(c, e)
  BY <1>1 DEF Under
<1>5. \A t \in Nat, p \in Nat, c, d \in Direct : Yields(d, t, p) /\ Under(c, d) => Yields(c, t, p)
  BY <1>1 DEF Under, Yields
<1>6. \A t \in Nat, p \in Nat, c, d \in Direct : Yields(c, t, p) /\ ~Yields(d, t, p) => Under(c, d)
  BY <1>1 DEF Under, Yields
<1> QED
  BY <1>1, <1>2, <1>3, <1>4, <1>5, <1>6

(* One turn of the loop keeps what it knows.                               *)
LEMMA BetterKeeps ==
  ASSUME chans \in [Chans -> Channel], NEW t \in Nat, NEW p \in Nat, NEW n \in Direct,
         NEW cand, Kept(cand, n - 1, t, p), NEW new, new = Better(cand, n, chans[n])
  PROVE  Kept(new, n, t, p)
<1> DEFINE a == chans[n]
<1>1. /\ n \in Nat /\ n >= 1 /\ Direct \subseteq Nat
      /\ \A c \in 1 .. n : c \in Direct /\ (c = n \/ c \in 1 .. n - 1)
      /\ \A c \in 1 .. n - 1 : c \in 1 .. n /\ c \in Direct
      /\ n \in 1 .. n
  BY Numbers
<1>2. /\ cand \in Cand
      /\ cand.releasing <=> \E c \in 1 .. n - 1 : chans[c].stop
      /\ cand.releasing =>
           \E i \in 1 .. n - 1 : Names(cand, i) /\ chans[i].stop /\ \A c \in 1 .. n - 1 : chans[c].stop => Under(i, c)
      /\ ~cand.releasing =>
           \/ \E i \in 1 .. n - 1 : Names(cand, i) /\ Yields(i, t, p) /\ \A c \in 1 .. n - 1 : Under(i, c)
           \/ /\ cand.best = 0 /\ cand.track = t /\ cand.priority = p
              /\ \A c \in 1 .. n - 1 : ~Yields(c, t, p)
  BY DEF Kept
<1>3. a.pr \in Nat /\ a.track \in Nat /\ a.stop \in BOOLEAN
  BY Ranks
<1>4. cand.releasing \in BOOLEAN /\ cand.track \in Nat /\ cand.priority \in Nat
  BY <1>2 DEF Cand
<1>5. PICK chosen : chosen = Chosen(cand, n, a)
  OBVIOUS
<1>6. chosen \in Cand /\ Names(chosen, n) /\ chosen.releasing = cand.releasing
  BY <1>3, <1>4, <1>5 DEF Chosen, Cand, Names
<1>7. ASSUME NEW i \in 1 .. n - 1, Names(cand, i) PROVE AtLeastAsBad(cand, a) <=> Under(n, i)
  BY <1>7 DEF AtLeastAsBad, Under, Names
<1> HIDE DEF a
<1>8. CASE a.stop /\ ~cand.releasing
  <2>1. new = [chosen EXCEPT !.releasing = TRUE]
    BY <1>5, <1>8 DEF Better, a
  <2>2. new \in Cand /\ Names(new, n) /\ new.releasing
    BY <1>6, <2>1 DEF Cand, Names
  <2>3. chans[n].stop /\ \A c \in 1 .. n : chans[c].stop => Under(n, c)
    BY <1>1, <1>2, <1>8, Ranks DEF a
  <2> QED
    BY <1>1, <2>2, <2>3 DEF Kept
<1>9. CASE ~a.stop /\ cand.releasing
  <2>1. new = cand
    BY <1>3, <1>4, <1>9 DEF Better, a
  <2>2. PICK i \in 1 .. n - 1 : Names(cand, i) /\ chans[i].stop /\ \A c \in 1 .. n - 1 : chans[c].stop => Under(i, c)
    BY <1>2, <1>9
  <2>3. i \in 1 .. n /\ \A c \in 1 .. n : chans[c].stop => Under(i, c)
    BY <1>1, <1>9, <2>2 DEF a
  <2> QED
    BY <1>1, <1>2, <1>9, <2>1, <2>2, <2>3 DEF Kept
<1>10. CASE a.stop /\ cand.releasing
  <2>1. new = IF AtLeastAsBad(cand, a) THEN chosen ELSE cand
    BY <1>3, <1>4, <1>5, <1>10 DEF Better, a
  <2>2. PICK i \in 1 .. n - 1 : Names(cand, i) /\ chans[i].stop /\ \A c \in 1 .. n - 1 : chans[c].stop => Under(i, c)
    BY <1>2, <1>10
  <2>3. CASE AtLeastAsBad(cand, a)
    <3>1. Under(n, i)
      BY <1>7, <2>2, <2>3
    <3>2. \A c \in 1 .. n : chans[c].stop => Under(n, c)
      BY <1>1, <2>2, <3>1, Ranks
    <3>3. chans[n].stop /\ new = chosen
      BY <1>10, <2>1, <2>3 DEF a
    <3> QED
      BY <1>1, <1>6, <1>10, <3>2, <3>3 DEF Kept
  <2>4. CASE ~AtLeastAsBad(cand, a)
    <3>1. Under(i, n)
      BY <1>1, <1>7, <2>2, <2>4, Ranks
    <3>2. i \in 1 .. n /\ \A c \in 1 .. n : chans[c].stop => Under(i, c)
      BY <1>1, <2>2, <3>1
    <3>3. new = cand
      BY <2>1, <2>4
    <3> QED
      BY <1>1, <1>2, <1>10, <2>2, <3>2, <3>3 DEF Kept
  <2> QED
    BY <2>3, <2>4
<1>11. CASE ~a.stop /\ ~cand.releasing
  <2>1. new = IF AtLeastAsBad(cand, a) THEN chosen ELSE cand
    BY <1>3, <1>4, <1>5, <1>11 DEF Better, a
  <2>2. ~(\E c \in 1 .. n : chans[c].stop)
    BY <1>1, <1>2, <1>11 DEF a
  <2>3. CASE \E i \in 1 .. n - 1 : Names(cand, i) /\ Yields(i, t, p) /\ \A c \in 1 .. n - 1 : Under(i, c)
    <3>1. PICK i \in 1 .. n - 1 : Names(cand, i) /\ Yields(i, t, p) /\ \A c \in 1 .. n - 1 : Under(i, c)
      BY <2>3
    <3>2. CASE AtLeastAsBad(cand, a)
      <4>1. Under(n, i)
        BY <1>7, <3>1, <3>2
      <4>2. Yields(n, t, p) /\ \A c \in 1 .. n : Under(n, c)
        BY <1>1, <3>1, <4>1, Ranks
      <4>3. new = chosen
        BY <2>1, <3>2
      <4> QED
        BY <1>1, <1>6, <1>11, <2>2, <4>2, <4>3 DEF Kept
    <3>3. CASE ~AtLeastAsBad(cand, a)
      <4>1. Under(i, n)
        BY <1>1, <1>7, <3>1, <3>3, Ranks
      <4>2. i \in 1 .. n /\ \A c \in 1 .. n : Under(i, c)
        BY <1>1, <3>1, <4>1
      <4>3. new = cand
        BY <2>1, <3>3
      <4> QED
        BY <1>2, <1>11, <2>2, <3>1, <4>2, <4>3 DEF Kept
    <3> QED
      BY <3>2, <3>3
  <2>4. CASE /\ cand.best = 0 /\ cand.track = t /\ cand.priority = p
             /\ \A c \in 1 .. n - 1 : ~Yields(c, t, p)
    <3>1. AtLeastAsBad(cand, a) <=> Yields(n, t, p)
      BY <2>4 DEF AtLeastAsBad, Yields, a
    <3>2. CASE Yields(n, t, p)
      <4>1. \A c \in 1 .. n : Under(n, c)
        BY <1>1, <2>4, <3>2, Ranks
      <4>2. new = chosen
        BY <2>1, <3>1, <3>2
      <4> QED
        BY <1>1, <1>6, <1>11, <2>2, <3>2, <4>1, <4>2 DEF Kept
    <3>3. CASE ~Yields(n, t, p)
      <4>1. \A c \in 1 .. n : ~Yields(c, t, p)
        BY <1>1, <2>4, <3>3
      <4>2. new = cand
        BY <2>1, <3>1, <3>3
      <4> QED
        BY <1>2, <1>11, <2>2, <2>4, <4>1, <4>2 DEF Kept
    <3> QED
      BY <3>2, <3>3
  <2> QED
    BY <1>2, <1>11, <2>3, <2>4
<1> QED
  BY <1>3, <1>4, <1>8, <1>9, <1>10, <1>11

(* What DirectFor returns: a free channel, or what the loop ends with.     *)
LEMMA DirectChosen ==
  ASSUME chans \in [Chans -> Channel], NEW t \in Tracks, NEW p \in Nat
  PROVE  \/ /\ {c \in Direct : ~On(chans[c])} # {}
            /\ DirectFor(t, p) \in {c \in Direct : ~On(chans[c])}
         \/ /\ {c \in Direct : ~On(chans[c])} = {}
            /\ \E cand : Kept(cand, MaxChans, t, p) /\ DirectFor(t, p) = cand.best
<1> DEFINE free == {i \in Direct : ~On(chans[i])}
           none == [best |-> 0, track |-> t, priority |-> p, releasing |-> FALSE]
           found == CHOOSE f : f = [n \in 0 .. MaxChans |-> IF n = 0 THEN none ELSE Better(f[n - 1], n, chans[n])]
           F == [n \in 1 .. MaxChans |-> [c \in Cand |-> Better(c, n, chans[n])]]
<1>1. DirectFor(t, p) = IF free # {} THEN First(free) ELSE found[MaxChans].best
  BY DEF DirectFor
<1>2. CASE free # {}
  <2>1. free \in SUBSET Nat
    BY Numbers
  <2> HIDE DEF free
  <2>2. First(free) \in free
    BY <1>2, <2>1, FirstIn
  <2>3. DirectFor(t, p) \in free
    BY <1>1, <1>2, <2>2
  <2> QED
    BY <1>2, <2>3 DEF free
<1>3. CASE free = {}
  <2>1. MaxChans \in Nat /\ Direct = 1 .. MaxChans /\ t \in Nat
    BY Numbers
  <2>2. none \in Cand
    BY <2>1 DEF Cand
  <2>3. ASSUME NEW n \in 1 .. MaxChans, NEW c \in Cand PROVE Better(c, n, chans[n]) \in Cand
    <3>1. chans[n].pr \in Nat /\ chans[n].track \in Nat /\ chans[n].stop \in BOOLEAN /\ n \in Direct
      BY <2>1, Ranks
    <3>2. PICK chosen : chosen = Chosen(c, n, chans[n])
      OBVIOUS
    <3>3. c.releasing \in BOOLEAN
      BY DEF Cand
    <3>4. chosen \in Cand
      BY <3>1, <3>2, <3>3 DEF Chosen, Cand
    <3>5. [chosen EXCEPT !.releasing = TRUE] \in Cand
      BY <3>4 DEF Cand
    <3>6. Better(c, n, chans[n]) \in {[chosen EXCEPT !.releasing = TRUE], chosen, c}
      BY <3>1, <3>2, <3>3 DEF Better
    <3> QED
      BY <3>4, <3>5, <3>6
  <2> HIDE DEF none, found
  <2>4. F \in [1 .. MaxChans -> [Cand -> Cand]]
    BY <2>3
  <2>5. PICK f \in [0 .. MaxChans -> Cand] : \A n \in 0 .. MaxChans : f[n] = IF n = 0 THEN none ELSE F[n][f[n - 1]]
    <3>1. PICK G : G = F
      OBVIOUS
    <3>2. G \in [1 .. MaxChans -> [Cand -> Cand]]
      BY <2>4, <3>1
    <3> HIDE DEF F
    <3>3. \E f \in [0 .. MaxChans -> Cand] : Steps(f, MaxChans, none, G)
      BY <2>1, <2>2, <3>2, Iterates
    <3> QED
      BY <3>1, <3>3 DEF Steps
  <2>6. f = [n \in 0 .. MaxChans |-> IF n = 0 THEN none ELSE Better(f[n - 1], n, chans[n])]
    <3>1. ASSUME NEW n \in 0 .. MaxChans PROVE f[n] = IF n = 0 THEN none ELSE Better(f[n - 1], n, chans[n])
      <4>1. CASE n = 0
        BY <2>1, <2>5, <4>1
      <4>2. CASE n # 0
        <5>1. n \in 1 .. MaxChans /\ n - 1 \in 0 .. MaxChans
          BY <2>1, <4>2
        <5>2. f[n] = F[n][f[n - 1]] /\ f[n - 1] \in Cand
          BY <2>5, <4>2, <5>1
        <5> QED
          BY <4>2, <5>1, <5>2
      <4> QED
        BY <4>1, <4>2
    <3>2. f = [n \in 0 .. MaxChans |-> f[n]]
      BY <2>5
    <3> QED
      BY <3>1, <3>2
  <2>7. found = [n \in 0 .. MaxChans |-> IF n = 0 THEN none ELSE Better(found[n - 1], n, chans[n])]
    BY <2>6 DEF found
  <2> HIDE DEF F
  <2> DEFINE So == {n \in 0 .. MaxChans : Kept(found[n], n, t, p)}
  <2>8. 0 \in So
    <3>1. found[0] = none /\ 1 .. 0 = {} /\ 0 \in 0 .. MaxChans
      BY <2>1, <2>7
    <3>2. none.best = 0 /\ none.track = t /\ none.priority = p /\ none.releasing = FALSE
      BY DEF none
    <3>3. Kept(none, 0, t, p)
      BY <2>2, <3>1, <3>2 DEF Kept
    <3> QED
      BY <3>1, <3>3
  <2>9. ASSUME NEW n \in 1 .. MaxChans, n - 1 \in So PROVE n \in So
    <3>1. n \in 0 .. MaxChans /\ n # 0 /\ n \in Direct
      BY <2>1
    <3>2. PICK cand : cand = found[n - 1]
      OBVIOUS
    <3>3. PICK new : new = found[n]
      OBVIOUS
    <3>4. new = Better(cand, n, chans[n]) /\ Kept(cand, n - 1, t, p)
      BY <2>7, <2>9, <3>1, <3>2, <3>3
    <3>5. Kept(new, n, t, p)
      BY <2>1, <3>1, <3>4, BetterKeeps
    <3> QED
      BY <3>1, <3>3, <3>5
  <2>10. Kept(found[MaxChans], MaxChans, t, p)
    <3> HIDE DEF So
    <3>1. \A n \in 0 .. MaxChans : n \in So
      BY <2>1, <2>8, <2>9, UpTo
    <3>2. MaxChans \in 0 .. MaxChans
      BY <2>1
    <3> QED
      BY <3>1, <3>2 DEF So
  <2> HIDE DEF So, free
  <2>11. DirectFor(t, p) = found[MaxChans].best
    BY <1>1, <1>3
  <2> QED
    BY <1>3, <2>10, <2>11 DEF free
<1> QED
  BY <1>2, <1>3

(* The search of ply_note finds the channel that is least heard.           *)
LEMMA ChoiceIsLeast ==
  ASSUME chans \in [Chans -> Channel]
  PROVE  LeastHeardIsTaken
<1> SUFFICES ASSUME NEW t \in Tracks, NEW p \in 0 .. MaxPriority
             PROVE  LET i == DirectFor(t, p)
                        free == {c \in Direct : ~On(chans[c])}
                        releasing == {c \in Direct : chans[c].stop}
                        outranked == {c \in Direct : chans[c].pr < p \/ (chans[c].pr = p /\ chans[c].track >= t)}
                        below(c, d) == chans[c].pr < chans[d].pr \/ (chans[c].pr = chans[d].pr /\ chans[c].track >= chans[d].track)
                    IN CASE free # {} -> i \in free
                         [] free = {} /\ releasing # {} -> i \in releasing /\ \A c \in releasing : below(i, c)
                         [] free = {} /\ releasing = {} /\ outranked # {} -> i \in outranked /\ \A c \in Direct : below(i, c)
                         [] OTHER -> i = 0
  BY DEF LeastHeardIsTaken
<1> DEFINE free == {c \in Direct : ~On(chans[c])}
           releasing == {c \in Direct : chans[c].stop}
           outranked == {c \in Direct : Yields(c, t, p)}
<1>0. p \in Nat /\ MaxChans \in Nat /\ Direct = 1 .. MaxChans
  BY MixerAssumption, Numbers
<1>1. PICK i : i = DirectFor(t, p)
  OBVIOUS
<1>2. \/ free # {} /\ i \in free
      \/ free = {} /\ \E cand : Kept(cand, MaxChans, t, p) /\ i = cand.best
  BY <1>0, <1>1, DirectChosen
<1>3. CASE free # {}
  BY <1>1, <1>2, <1>3
<1>4. CASE free = {}
  <2>1. PICK cand : Kept(cand, MaxChans, t, p) /\ i = cand.best
    BY <1>2, <1>4
  <2>2. CASE releasing # {}
    <3>1. cand.releasing
      BY <1>0, <2>1, <2>2 DEF Kept
    <3>2. PICK j \in Direct : Names(cand, j) /\ chans[j].stop /\ \A c \in Direct : chans[c].stop => Under(j, c)
      BY <1>0, <2>1, <3>1 DEF Kept
    <3>3. i \in releasing /\ \A c \in releasing : Under(i, c)
      BY <2>1, <3>2 DEF Names
    <3> QED
      BY <1>1, <1>4, <2>2, <3>3 DEF Under
  <2>3. CASE releasing = {}
    <3>1. ~cand.releasing
      BY <1>0, <2>1, <2>3 DEF Kept
    <3>2. \/ \E j \in Direct : Names(cand, j) /\ Yields(j, t, p) /\ \A c \in Direct : Under(j, c)
          \/ cand.best = 0 /\ \A c \in Direct : ~Yields(c, t, p)
      BY <1>0, <2>1, <3>1 DEF Kept
    <3>3. CASE outranked # {}
      <4>1. PICK j \in Direct : Names(cand, j) /\ Yields(j, t, p) /\ \A c \in Direct : Under(j, c)
        BY <3>2, <3>3
      <4>2. i \in outranked /\ \A c \in Direct : Under(i, c)
        BY <2>1, <4>1 DEF Names
      <4> QED
        BY <1>1, <1>4, <2>3, <3>3, <4>2 DEF Under, Yields
    <3>4. CASE outranked = {}
      <4>1. i = 0
        BY <2>1, <3>2, <3>4
      <4> QED
        BY <1>1, <1>4, <2>3, <3>4, <4>1 DEF Yields
    <3> QED
      BY <3>3, <3>4
  <2> QED
    BY <2>2, <2>3
<1> QED
  BY <1>3, <1>4

(* --- what a command finds ------------------------------------------------ *)

(* The operands of a command.                                              *)
LEMMA CommandIs ==
  ASSUME NEW n \in Nat, NEW cmd \in Commands(n)
  PROVE  /\ cmd.op \in {"rest", "tempo", "prio", "delay", "echoVolume", "echoLength", "vol", "mod",
                        "speed", "modT"} => cmd.n \in Nat
         /\ cmd.op = "pit" => cmd.n \in Int
         /\ cmd.op = "voice" => cmd.n \in DOMAIN Voices
         /\ cmd.op = "note" => cmd.key \in Keys /\ cmd.gate \in Nat
         /\ cmd.op = "endtie" => cmd.key \in Keys
         /\ cmd.op \in {"goto", "patt"} => cmd.to \in 1 .. n
         /\ cmd.op = "rept" => cmd.n \in Nat /\ cmd.to \in 1 .. n
<1>1. CASE cmd \in [op : {"rest", "tempo", "prio", "delay", "echoVolume", "echoLength", "vol", "mod",
                          "speed", "modT"}, n : Nat]
  BY <1>1
<1>2. CASE cmd \in [op : {"pit"}, n : Int]
  BY <1>2
<1>3. CASE cmd \in [op : {"voice"}, n : DOMAIN Voices]
  BY <1>3
<1>4. CASE cmd \in [op : {"note"}, key : Keys, gate : Nat]
  BY <1>4
<1>5. CASE cmd \in [op : {"endtie"}, key : Keys]
  BY <1>5
<1>6. CASE cmd \in [op : {"goto", "patt"}, to : 1 .. n]
  BY <1>6
<1>7. CASE cmd \in [op : {"rept"}, n : Nat, to : 1 .. n]
  BY <1>7
<1>8. CASE cmd \in [op : {"fine", "pend"}]
  BY <1>8
<1> QED
  BY <1>1, <1>2, <1>3, <1>4, <1>5, <1>6, <1>7, <1>8 DEF Commands

(* The track at `at' reads a command of its program, and is not its last   *)
(* but for a jump or the end.                                              *)
Here == song[at]

(* A track that reads a command: where it is in its program.               *)
LEMMA Reading ==
  ASSUME MixerInv, pc = "commands", tracks[at].exist
  PROVE  /\ State \in Pairs /\ Sound(State) /\ State.tr = tracks /\ State.ch = chans
         /\ tracks \in [Tracks -> Track] /\ chans \in [Chans -> Channel]
         /\ at \in Tracks /\ tracks[at] \in Track /\ ~tracks[at].start
         /\ Here \in Seq(Commands(Len(Here))) /\ Len(Here) \in Nat /\ DOMAIN Here = 1 .. Len(Here)
         /\ tracks[at].pos \in DOMAIN Here /\ tracks[at].stack \in Seq(DOMAIN Here)
         /\ Cmd \in Commands(Len(Here))
         /\ Cmd.op \notin {"goto", "fine"} => tracks[at].pos + 1 \in DOMAIN Here
<1>1. State \in Pairs /\ Sound(State) /\ State.tr = tracks /\ State.ch = chans
  BY DEF MixerInv, Sound, Orderly, State
<1>2. tracks \in [Tracks -> Track] /\ chans \in [Chans -> Channel]
  BY <1>1, LinkTypes
<1>3. at \in Tracks /\ ~tracks[at].start
  BY DEF MixerInv, Placed
<1>4. Follows(tracks[at], Here)
  BY <1>3 DEF MixerInv, InPrograms, Here
<1>5. /\ Here \in Seq(Commands(Len(Here))) /\ tracks[at].pos \in DOMAIN Here
      /\ tracks[at].stack \in Seq(DOMAIN Here)
  BY <1>3, <1>4 DEF Follows
<1>6. Len(Here) \in Nat /\ DOMAIN Here = 1 .. Len(Here)
  BY <1>5
<1>7. Cmd \in Commands(Len(Here))
  <2>1. Cmd = Here[tracks[at].pos]
    BY DEF Cmd, Here
  <2>2. \A i \in 1 .. Len(Here) : Here[i] \in Commands(Len(Here))
    BY <1>5
  <2> QED
    BY <1>5, <1>6, <2>1, <2>2
<1>8. ASSUME Cmd.op \notin {"goto", "fine"} PROVE tracks[at].pos + 1 \in DOMAIN Here
  <2>1. Here # <<>>
    BY <1>5
  <2>2. Here[Len(Here)].op \in {"goto", "fine"}
    BY <1>4, <2>1 DEF Follows
  <2>3. tracks[at].pos # Len(Here)
    BY <1>8, <2>2 DEF Cmd, Here
  <2> QED
    BY <1>5, <1>6, <2>3
<1> QED
  BY <1>1, <1>2, <1>3, <1>5, <1>6, <1>7, <1>8

(* What a command leaves: its track at a place of its program, or ended.   *)
LEMMA CommandKeeps ==
  ASSUME MixerInv, pc = "commands", NEW s \in Pairs, Sound(s), tracks' = s.tr, chans' = s.ch,
         \A u \in Tracks : u # at => SameTrack(tracks[u], s.tr[u]),
         Follows(s.tr[at], song[at]), ~s.tr[at].start, SongUnchanged
  PROVE  MixerInv'
<1>1. State' = s
  BY DEF State, Pairs
<1>2. Sound(State)'
  BY <1>1
<1>3. /\ song' = song /\ pc' = pc /\ at' = at /\ active' = active
  BY DEF SongUnchanged
<1>4. Placed'
  <2>1. \A u \in Tracks : u # at => s.tr[u].exist = tracks[u].exist
    BY DEF SameTrack
  <2>2. \A u \in Tracks : u < at => u # at
    BY Numbers DEF MixerInv, Placed
  <2>3. \A t \in Tracks : t < at /\ s.tr[t].exist => t \in active
    BY <2>1, <2>2 DEF MixerInv, Placed
  <2>4. at \in Tracks /\ at \in active /\ ~s.tr[at].start
    BY DEF MixerInv, Placed
  <2> QED
    BY <1>3, <2>3, <2>4 DEF Placed
<1>5. InPrograms'
  <2>1. ASSUME NEW t \in Tracks PROVE Follows(s.tr[t], song[t])
    <3>1. CASE t = at
      BY <3>1
    <3>2. CASE t # at
      <4>1. Follows(tracks[t], song[t])
        BY DEF MixerInv, InPrograms
      <4>2. SameTrack(tracks[t], s.tr[t])
        BY <3>2
      <4> QED
        BY <4>1, <4>2 DEF Follows, SameTrack
    <3> QED
      BY <3>1, <3>2
  <2> QED
    BY <1>3, <2>1 DEF InPrograms
<1> QED
  BY <1>2, <1>4, <1>5 DEF MixerInv

(* A track whose sound has changed is marked.                              *)
Louder(a, b) ==
  /\ b.vlchg \/ (~a.vlchg /\ VolumeOf(b) = VolumeOf(a))
  /\ b.ptchg \/ (~a.ptchg /\ PitchOf(b) = PitchOf(a))

(* A track that is marked for what it changed tells its notes later.       *)
LEMMA LouderHeard ==
  ASSUME NEW c, NEW a, NEW b, Heard(c, a), Louder(a, b)
  PROVE  Heard(c, b)
BY DEF Heard, Louder

(* The track at work replaced by one that is marked for what it changed.   *)
LEMMA WithSound ==
  ASSUME MixerInv, pc = "commands", tracks[at].exist,
         NEW u \in Track, u.chan = tracks[at].chan, u.exist, ~u.start, Louder(tracks[at], u)
  PROVE  With(u) \in Pairs /\ Sound(With(u)) /\ With(u).tr = [tracks EXCEPT ![at] = u] /\ With(u).ch = chans
<1>1. /\ State \in Pairs /\ Sound(State) /\ State.tr = tracks /\ State.ch = chans
      /\ tracks \in [Tracks -> Track] /\ chans \in [Chans -> Channel] /\ at \in Tracks
  BY Reading
<1>2. PICK r : r = With(u)
  OBVIOUS
<1>3. /\ r \in Pairs /\ r.tr = [tracks EXCEPT ![at] = u] /\ r.ch = chans
      /\ r.tr[at] = u /\ \A v \in Tracks : v # at => r.tr[v] = tracks[v]
  <2>1. [tracks EXCEPT ![at] = u] \in [Tracks -> Track]
    BY <1>1
  <2> QED
    BY <1>1, <1>2, <2>1 DEF With, Pairs
<1>4. ASSUME NEW c \in Chans, chans[c].track = at PROVE u.exist /\ ~u.start /\ Heard(chans[c], u)
  <2>1. Heard(chans[c], tracks[at])
    <3>1. chans[c].track # 0
      BY <1>1, <1>4, Numbers
    <3> QED
      BY <1>1, <1>4, <3>1 DEF Sound, AsSet
  <2> QED
    BY <2>1, LouderHeard
<1>5. PICK s \in Pairs : s = State
  BY <1>1
<1>6. Sound(r)
  <2>1. /\ Sound(s) /\ r.ch = s.ch /\ r.tr[at].chan = s.tr[at].chan
        /\ \A v \in Tracks : v # at => r.tr[v] = s.tr[v]
        /\ ~r.tr[at].exist => Unmarked(r.tr[at])
    BY <1>1, <1>3, <1>5
  <2>2. \A c \in Chans : s.ch[c].track = at =>
          r.tr[at].exist /\ ~r.tr[at].start /\ Heard(s.ch[c], r.tr[at])
    BY <1>1, <1>3, <1>4, <1>5
  <2> QED
    BY <1>1, <1>3, <2>1, <2>2, TrackSound
<1> QED
  BY <1>2, <1>3, <1>6

(* A command that only sets its track.                                     *)
LEMMA SetsKeeps ==
  ASSUME MixerInv, pc = "commands", tracks[at].exist,
         NEW u \in Track, u.chan = tracks[at].chan, u.exist, ~u.start, Louder(tracks[at], u),
         u.pos \in DOMAIN Here, u.stack \in Seq(DOMAIN Here), Becomes(With(u)), SongUnchanged
  PROVE  MixerInv'
<1>1. PICK s : s = With(u)
  OBVIOUS
<1>2. s \in Pairs /\ Sound(s) /\ s.tr = [tracks EXCEPT ![at] = u] /\ s.ch = chans
  BY <1>1, WithSound
<1>3. tracks' = s.tr /\ chans' = s.ch
  BY <1>1 DEF Becomes
<1>4. at \in Tracks /\ tracks \in [Tracks -> Track]
  BY Reading
<1>5. s.tr[at] = u /\ \A v \in Tracks : v # at => SameTrack(tracks[v], s.tr[v])
  BY <1>2, <1>4, LinkTypes
<1>6. Follows(u, song[at])
  <2>1. Follows(tracks[at], song[at])
    BY <1>4 DEF MixerInv, InPrograms
  <2> QED
    BY <2>1 DEF Follows, Here
<1> QED
  BY <1>2, <1>3, <1>5, <1>6, CommandKeeps

(* --- the commands -------------------------------------------------------- *)

(* The track with the command behind it.                                   *)
LEMMA PastIs ==
  ASSUME MixerInv, pc = "commands", tracks[at].exist
  PROVE  /\ Past \in Track /\ Past.chan = tracks[at].chan /\ Past.exist /\ ~Past.start
         /\ Past.stack = tracks[at].stack /\ Past.stack \in Seq(DOMAIN Here)
         /\ Past.pos = tracks[at].pos + 1
         /\ Cmd.op \notin {"goto", "fine"} => Past.pos \in DOMAIN Here
         /\ Past.vlchg = tracks[at].vlchg /\ Past.ptchg = tracks[at].ptchg
         /\ VolumeOf(Past) = VolumeOf(tracks[at]) /\ PitchOf(Past) = PitchOf(tracks[at])
<1>1. /\ tracks[at] \in Track /\ ~tracks[at].start /\ tracks[at].stack \in Seq(DOMAIN Here)
      /\ tracks[at].pos \in DOMAIN Here
      /\ Cmd.op \notin {"goto", "fine"} => tracks[at].pos + 1 \in DOMAIN Here
  BY Reading
<1>2. PICK a \in Track : a = tracks[at]
  BY <1>1
<1>3. PICK pos \in Nat : pos = a.pos + 1
  <2>1. a.pos \in Nat
    BY DEF Track
  <2>2. a.pos + 1 \in Nat
    BY <2>1
  <2> QED
    BY <2>2
<1>4. PICK p : p = Past
  OBVIOUS
<1>5. p = [a EXCEPT !.pos = pos]
  BY <1>2, <1>3, <1>4 DEF Past
<1>6. p \in Track
  BY <1>5 DEF Track
<1>7. /\ p.chan = a.chan /\ p.exist = a.exist /\ p.start = a.start /\ p.stack = a.stack
      /\ p.pos = pos /\ p.vlchg = a.vlchg /\ p.ptchg = a.ptchg
  BY <1>5 DEF Track
<1>8. VolumeOf(p) = VolumeOf(a) /\ PitchOf(p) = PitchOf(a)
  BY <1>5 DEF VolumeOf, PitchOf, Track
<1> QED
  BY <1>1, <1>2, <1>3, <1>4, <1>6, <1>7, <1>8

(* A command that sets its track once it is behind.                        *)
LEMMA PastKeeps ==
  ASSUME MixerInv, pc = "commands", tracks[at].exist,
         NEW u \in Track, u.chan = Past.chan, u.exist = Past.exist, u.start = Past.start,
         Louder(Past, u), u.pos \in DOMAIN Here, u.stack \in Seq(DOMAIN Here),
         Becomes(With(u)), SongUnchanged
  PROVE  MixerInv'
<1>1. Louder(tracks[at], u)
  BY PastIs DEF Louder
<1> QED
  BY <1>1, PastIs, SetsKeeps

(* A command that sets fields of its track and goes on to the next.        *)
LEMMA SetsPast ==
  ASSUME MixerInv, NEW u \in Track, NEW op, Reads(op), u.chan = Past.chan, u.exist = Past.exist,
         u.start = Past.start, Louder(Past, u), u.pos \in DOMAIN Here, u.stack \in Seq(DOMAIN Here),
         Sets(u)
  PROVE  MixerInv'
BY PastKeeps DEF Reads, Sets, Does

(* rest: the track waits.                                                  *)
LEMMA RestKeeps ==
  ASSUME MixerInv, Rest
  PROVE  MixerInv'
<1>1. PICK p \in Track : p = Past /\ p.pos \in DOMAIN Here /\ p.stack \in Seq(DOMAIN Here)
  BY PastIs DEF Rest, Reads
<1>2. PICK n \in Nat : n = Cmd.n
  BY Reading, CommandIs DEF Rest, Reads
<1>3. PICK u : u = [p EXCEPT !.wait = n]
  OBVIOUS
<1>4. u \in Track
  BY <1>3 DEF Track
<1>5. u.chan = p.chan /\ u.exist = p.exist /\ u.start = p.start /\ u.pos = p.pos /\ u.stack = p.stack
  BY <1>3 DEF Track
<1>6. Louder(p, u)
  BY <1>3 DEF Louder, VolumeOf, PitchOf, Track
<1> QED
  BY <1>1, <1>2, <1>3, <1>4, <1>5, <1>6, SetsPast DEF Rest

(* goto: the track is at a command of its program.                         *)
LEMMA PlyGotoKeeps ==
  ASSUME MixerInv, PlyGoto
  PROVE  MixerInv'
<1>1. PICK a \in Track : a = tracks[at] /\ a.exist /\ ~a.start /\ a.stack \in Seq(DOMAIN Here)
  BY Reading DEF PlyGoto, Reads
<1>2. PICK to \in DOMAIN Here : to = Cmd.to
  BY Reading, CommandIs DEF PlyGoto, Reads
<1>3. to \in Nat
  BY Reading DEF PlyGoto, Reads
<1>4. PICK u : u = [a EXCEPT !.pos = to]
  OBVIOUS
<1>5. u \in Track
  BY <1>3, <1>4 DEF Track
<1>6. u.chan = a.chan /\ u.exist = a.exist /\ u.start = a.start /\ u.pos = to /\ u.stack = a.stack
  BY <1>4 DEF Track
<1>7. Louder(a, u)
  BY <1>4 DEF Louder, VolumeOf, PitchOf, Track
<1> QED
  BY <1>1, <1>2, <1>4, <1>5, <1>6, <1>7, SetsKeeps DEF PlyGoto, Reads, Sets, Does

(* tempo: neither structure changes but for the place in the program.      *)
LEMMA PlyTempoKeeps ==
  ASSUME MixerInv, PlyTempo
  PROVE  MixerInv'
<1>1. PICK p \in Track : p = Past /\ p.pos \in DOMAIN Here /\ p.stack \in Seq(DOMAIN Here)
  BY PastIs DEF PlyTempo, Reads
<1>2. Louder(p, p)
  BY Zenon DEF Louder
<1> QED
  BY <1>1, <1>2, PastKeeps DEF PlyTempo, Reads

(* The commands that set one field no note hears of.                       *)
LEMMA PlyPlainKeeps ==
  ASSUME MixerInv, PlyPlain
  PROVE  MixerInv'
<1>1. PICK f \in {"prio", "voice", "delay", "echoVolume", "echoLength"} :
        Reads(f) /\ Sets([Past EXCEPT ![f] = Cmd.n])
  BY DEF PlyPlain
<1>2. PICK p \in Track : p = Past /\ p.pos \in DOMAIN Here /\ p.stack \in Seq(DOMAIN Here)
  BY <1>1, PastIs DEF Reads
<1>3. PICK n : n = Cmd.n
  OBVIOUS
<1>4. (f = "voice" => n \in DOMAIN Voices) /\ (f # "voice" => n \in Nat)
  BY <1>1, <1>3, Reading, CommandIs DEF Reads
<1>5. PICK u : u = [p EXCEPT ![f] = n]
  OBVIOUS
<1>6. u \in Track
  <2>1. CASE f = "voice"
    <3>1. n \in DOMAIN Voices /\ u = [p EXCEPT !.voice = n]
      BY <1>4, <1>5, <2>1
    <3> QED
      BY <3>1, ZenonT(40) DEF Track
  <2>2. CASE f = "prio"
    <3>1. n \in Nat /\ u = [p EXCEPT !.prio = n]
      BY <1>4, <1>5, <2>2
    <3> QED
      BY <3>1, ZenonT(40) DEF Track
  <2>3. CASE f = "delay"
    <3>1. n \in Nat /\ u = [p EXCEPT !.delay = n]
      BY <1>4, <1>5, <2>3
    <3> QED
      BY <3>1, ZenonT(40) DEF Track
  <2>4. CASE f = "echoVolume"
    <3>1. n \in Nat /\ u = [p EXCEPT !.echoVolume = n]
      BY <1>4, <1>5, <2>4
    <3> QED
      BY <3>1, ZenonT(40) DEF Track
  <2>5. CASE f = "echoLength"
    <3>1. n \in Nat /\ u = [p EXCEPT !.echoLength = n]
      BY <1>4, <1>5, <2>5
    <3> QED
      BY <3>1, ZenonT(40) DEF Track
  <2> QED
    BY <2>1, <2>2, <2>3, <2>4, <2>5
<1>7. u.chan = p.chan /\ u.exist = p.exist /\ u.start = p.start /\ u.pos = p.pos /\ u.stack = p.stack
  BY <1>5 DEF Track
<1>8. /\ u.vlchg = p.vlchg /\ u.ptchg = p.ptchg /\ u.vol = p.vol /\ u.volX = p.volX /\ u.pit = p.pit
      /\ u.modT = p.modT /\ u.modM = p.modM
  BY <1>5 DEF Track
<1>9. Louder(p, u)
  BY <1>8 DEF Louder, VolumeOf, PitchOf, Track
<1> QED
  BY <1>1, <1>2, <1>3, <1>5, <1>6, <1>7, <1>9, SetsPast

(* vol and pan: the track is marked.                                       *)
LEMMA PlyVolumeKeeps ==
  ASSUME MixerInv, PlyVolume
  PROVE  MixerInv'
<1>1. PICK p \in Track : p = Past /\ p.pos \in DOMAIN Here /\ p.stack \in Seq(DOMAIN Here)
  BY PastIs DEF PlyVolume, Reads
<1>2. PICK n \in Int : n = Cmd.n
  <2>1. Cmd.n \in Nat
    BY Reading, CommandIs DEF PlyVolume, Reads
  <2>2. Cmd.n \in Int
    BY <2>1
  <2> QED
    BY <2>2
<1>3. PICK u : u = [p EXCEPT !.vol = n, !.vlchg = TRUE]
  OBVIOUS
<1>4. u \in Track
  BY <1>3 DEF Track
<1>5. u.chan = p.chan /\ u.exist = p.exist /\ u.start = p.start /\ u.pos = p.pos /\ u.stack = p.stack
  BY <1>3 DEF Track
<1>6. Louder(p, u)
  BY <1>3 DEF Louder, PitchOf, Track
<1> QED
  BY <1>1, <1>2, <1>3, <1>4, <1>5, <1>6, SetsPast DEF PlyVolume

(* keysh, bend, bendr and tune: the track is marked.                       *)
LEMMA PlyPitchKeeps ==
  ASSUME MixerInv, PlyPitch
  PROVE  MixerInv'
<1>1. PICK p \in Track : p = Past /\ p.pos \in DOMAIN Here /\ p.stack \in Seq(DOMAIN Here)
  BY PastIs DEF PlyPitch, Reads
<1>2. PICK n \in Int : n = Cmd.n
  BY Reading, CommandIs DEF PlyPitch, Reads
<1>3. PICK u : u = [p EXCEPT !.pit = n, !.ptchg = TRUE]
  OBVIOUS
<1>4. u \in Track
  BY <1>3 DEF Track
<1>5. u.chan = p.chan /\ u.exist = p.exist /\ u.start = p.start /\ u.pos = p.pos /\ u.stack = p.stack
  BY <1>3 DEF Track
<1>6. Louder(p, u)
  BY <1>3 DEF Louder, VolumeOf, Track
<1> QED
  BY <1>1, <1>2, <1>3, <1>4, <1>5, <1>6, SetsPast DEF PlyPitch

(* mod and lfos: the track is marked if its modulation is cleared.         *)
LEMMA PlyModKeeps ==
  ASSUME MixerInv, PlyMod
  PROVE  MixerInv'
<1>1. PICK f \in {"mod", "speed"} :
        Reads(f) /\ LET tr == [Past EXCEPT ![f] = Cmd.n] IN Sets(IF Cmd.n = 0 THEN ClearModM(tr) ELSE tr)
  BY DEF PlyMod
<1>2. PICK p \in Track : p = Past /\ p.pos \in DOMAIN Here /\ p.stack \in Seq(DOMAIN Here)
  BY <1>1, PastIs DEF Reads
<1>3. PICK n \in Nat : n = Cmd.n
  BY <1>1, Reading, CommandIs DEF Reads
<1>4. PICK u : u = [p EXCEPT ![f] = n]
  OBVIOUS
<1>5. u \in Track
  BY <1>4 DEF Track
<1>6. u.chan = p.chan /\ u.exist = p.exist /\ u.start = p.start /\ u.pos = p.pos /\ u.stack = p.stack
  BY <1>4 DEF Track
<1>7. /\ u.vlchg = p.vlchg /\ u.ptchg = p.ptchg /\ u.vol = p.vol /\ u.volX = p.volX /\ u.pit = p.pit
      /\ u.modT = p.modT /\ u.modM = p.modM
  BY <1>4 DEF Track
<1>8. VolumeOf(u) = VolumeOf(p) /\ PitchOf(u) = PitchOf(p)
  BY <1>7 DEF VolumeOf, PitchOf
<1>9. CASE n # 0
  <2>1. Louder(p, u)
    BY <1>7, <1>8, Zenon DEF Louder
  <2>2. Sets(u)
    BY <1>1, <1>2, <1>3, <1>4, <1>9
  <2> QED
    BY <1>1, <1>2, <1>5, <1>6, <2>1, <2>2, SetsPast
<1>10. CASE n = 0
  <2>1. PICK v : v = ClearModM(u)
    OBVIOUS
  <2>2. v \in Track /\ SamePlace(u, v) /\ v.chan = u.chan
    BY <1>5, <2>1, ClearedModM
  <2>3. Louder(p, v)
    <3>1. /\ v.vlchg \/ v.ptchg
          /\ u.vlchg => v.vlchg
          /\ u.ptchg => v.ptchg
          /\ \/ v.vlchg /\ PitchOf(v) = PitchOf(u)
             \/ v.ptchg /\ VolumeOf(v) = VolumeOf(u)
      BY <1>5, <2>1, ClearedModM
    <3> QED
      BY <1>7, <1>8, <3>1 DEF Louder
  <2>4. Sets(v)
    BY <1>1, <1>2, <1>3, <1>4, <1>10, <2>1
  <2>5. v.chan = p.chan /\ v.exist = p.exist /\ v.start = p.start /\ v.pos = p.pos /\ v.stack = p.stack
    BY <1>6, <2>2 DEF SamePlace
  <2> QED
    BY <1>1, <1>2, <2>2, <2>3, <2>4, <2>5, SetsPast
<1> QED
  BY <1>9, <1>10

(* modt: the track is marked for both, since the modulation moves over.    *)
LEMMA PlyModtKeeps ==
  ASSUME MixerInv, PlyModt
  PROVE  MixerInv'
<1>1. PICK p \in Track : p = Past /\ p.pos \in DOMAIN Here /\ p.stack \in Seq(DOMAIN Here)
  BY PastIs DEF PlyModt, Reads
<1>2. PICK n \in Nat : n = Cmd.n
  BY Reading, CommandIs DEF PlyModt, Reads
<1>3. CASE tracks[at].modT = n
  <2>1. Louder(p, p)
    BY Zenon DEF Louder
  <2>2. Sets(p)
    BY <1>1, <1>2, <1>3 DEF PlyModt
  <2> QED
    BY <1>1, <2>1, <2>2, SetsPast DEF PlyModt
<1>4. CASE tracks[at].modT # n
  <2>1. PICK u : u = [p EXCEPT !.modT = n, !.vlchg = TRUE, !.ptchg = TRUE]
    OBVIOUS
  <2>2. u \in Track
    BY <2>1 DEF Track
  <2>3. u.chan = p.chan /\ u.exist = p.exist /\ u.start = p.start /\ u.pos = p.pos /\ u.stack = p.stack
    BY <2>1 DEF Track
  <2>4. Louder(p, u)
    BY <2>1 DEF Louder, Track
  <2>5. Sets(u)
    BY <1>1, <1>2, <1>4, <2>1 DEF PlyModt
  <2> QED
    BY <1>1, <2>2, <2>3, <2>4, <2>5, SetsPast DEF PlyModt
<1> QED
  BY <1>3, <1>4

(* rept: back to the command it names, or on.                              *)
LEMMA PlyReptKeeps ==
  ASSUME MixerInv, PlyRept
  PROVE  MixerInv'
<1>1. PICK p \in Track : p = Past /\ p.pos \in DOMAIN Here /\ p.stack \in Seq(DOMAIN Here)
  BY PastIs DEF PlyRept, Reads
<1>2. PICK to \in DOMAIN Here : to = Cmd.to /\ Cmd.n \in Nat
  BY Reading, CommandIs DEF PlyRept, Reads
<1>3. PICK n \in Nat : n = tracks[at].rep + 1
  <2>1. tracks[at].rep \in Nat
    BY Reading DEF PlyRept, Reads, Track
  <2>2. tracks[at].rep + 1 \in Nat
    BY <2>1
  <2> QED
    BY <2>2
<1>4. to \in Nat
  BY Reading DEF PlyRept, Reads
<1>5. ASSUME NEW rep \in Nat, NEW pos \in Nat, pos \in DOMAIN Here, NEW u,
             u = [p EXCEPT !.rep = rep, !.pos = pos], Sets(u)
      PROVE  MixerInv'
  <2>1. u \in Track
    BY <1>5 DEF Track
  <2>2. u.chan = p.chan /\ u.exist = p.exist /\ u.start = p.start /\ u.pos = pos /\ u.stack = p.stack
    BY <1>5 DEF Track
  <2>3. Louder(p, u)
    BY <1>5 DEF Louder, VolumeOf, PitchOf, Track
  <2> QED
    BY <1>1, <1>5, <2>1, <2>2, <2>3, SetsPast DEF PlyRept
<1>6. Sets(CASE Cmd.n = 0 -> [p EXCEPT !.pos = to]
             [] Cmd.n # 0 /\ n < Cmd.n -> [p EXCEPT !.rep = n, !.pos = to]
             [] Cmd.n # 0 /\ n >= Cmd.n -> [p EXCEPT !.rep = 0])
  BY <1>1, <1>2, <1>3 DEF PlyRept
<1>7. p.rep \in Nat /\ p.pos \in Nat
  BY DEF Track
<1>8. CASE Cmd.n = 0
  <2>1. PICK u : u = [p EXCEPT !.pos = to]
    OBVIOUS
  <2>2. Sets(u)
    BY <1>6, <1>8, <2>1
  <2>3. u = [p EXCEPT !.rep = p.rep, !.pos = to]
    BY <2>1 DEF Track
  <2> QED
    BY <1>4, <1>5, <1>7, <2>2, <2>3
<1>9. CASE Cmd.n # 0 /\ n < Cmd.n
  <2>1. PICK u : u = [p EXCEPT !.rep = n, !.pos = to]
    OBVIOUS
  <2>2. Sets(u)
    BY <1>2, <1>6, <1>9, <2>1
  <2> QED
    BY <1>4, <1>5, <2>1, <2>2
<1>10. CASE Cmd.n # 0 /\ ~(n < Cmd.n)
  <2>1. PICK u : u = [p EXCEPT !.rep = 0]
    OBVIOUS
  <2>2. n >= Cmd.n
    BY <1>2, <1>10
  <2>3. Sets(u)
    BY <1>6, <1>10, <2>1, <2>2
  <2>4. u = [p EXCEPT !.rep = 0, !.pos = p.pos]
    BY <2>1 DEF Track
  <2> QED
    BY <1>1, <1>5, <1>7, <2>3, <2>4
<1> QED
  BY <1>8, <1>9, <1>10

(* The top of a pattern stack and what is below it.                        *)
LEMMA LastAndFront ==
  ASSUME NEW S, NEW q \in Seq(S), q # <<>>
  PROVE  Last(q) \in S /\ Front(q) \in Seq(S)
<1>1. Len(q) \in Nat \ {0} /\ \A i \in 1 .. Len(q) : q[i] \in S
  BY EmptySeq
<1>2. Last(q) \in S
  BY <1>1 DEF Last
<1>3. Front(q) \in Seq(S)
  <2>1. Front(q) = SubSeq(q, 1, Len(q) - 1)
    BY DEF Front
  <2> QED
    BY <1>1, <2>1
<1> QED
  BY <1>2, <1>3

(* pend: back to where the pattern was called from.                        *)
LEMMA PlyPendKeeps ==
  ASSUME MixerInv, PlyPend
  PROVE  MixerInv'
<1>1. PICK p \in Track : p = Past /\ p.pos \in DOMAIN Here /\ p.stack \in Seq(DOMAIN Here)
  BY PastIs DEF PlyPend, Reads
<1>2. PICK stack \in Seq(DOMAIN Here) : stack = tracks[at].stack
  BY Reading DEF PlyPend, Reads
<1>3. CASE stack = <<>>
  <2>1. Louder(p, p)
    BY Zenon DEF Louder
  <2>2. Sets(p)
    BY <1>1, <1>2, <1>3 DEF PlyPend
  <2> QED
    BY <1>1, <2>1, <2>2, SetsPast DEF PlyPend
<1>4. CASE stack # <<>>
  <2>1. PICK to \in DOMAIN Here, rest \in Seq(DOMAIN Here) : to = Last(stack) /\ rest = Front(stack)
    BY <1>4, LastAndFront
  <2>2. to \in Nat /\ rest \in Seq(Nat)
    <3>1. DOMAIN Here \subseteq Nat
      BY Reading DEF PlyPend, Reads
    <3>2. rest \in Seq(Nat)
      BY <2>1, <3>1
    <3> QED
      BY <3>1, <3>2
  <2>3. PICK u : u = [p EXCEPT !.pos = to, !.stack = rest]
    OBVIOUS
  <2>4. u \in Track
    BY <2>2, <2>3 DEF Track
  <2>5. u.chan = p.chan /\ u.exist = p.exist /\ u.start = p.start /\ u.pos = to /\ u.stack = rest
    BY <2>3 DEF Track
  <2>6. Louder(p, u)
    BY <2>3 DEF Louder, VolumeOf, PitchOf, Track
  <2>7. Sets(u)
    BY <1>1, <1>2, <1>4, <2>1, <2>3 DEF PlyPend
  <2> QED
    BY <1>1, <2>1, <2>4, <2>5, <2>6, <2>7, SetsPast DEF PlyPend
<1> QED
  BY <1>3, <1>4

(* The end of a track, by its command or by patterns that nest too deep.   *)
LEMMA EndKeeps ==
  ASSUME MixerInv, pc = "commands", tracks[at].exist, Does(Fine(With(Past), at))
  PROVE  MixerInv'
<1>1. PICK p : p = Past
  OBVIOUS
<1>2. /\ p \in Track /\ p.chan = tracks[at].chan /\ p.exist /\ ~p.start /\ Louder(tracks[at], p)
  BY <1>1, PastIs DEF Louder
<1>3. PICK s : s = With(p)
  OBVIOUS
<1>4. s \in Pairs /\ Sound(s) /\ s.tr = [tracks EXCEPT ![at] = p] /\ s.ch = chans
  BY <1>2, <1>3, WithSound
<1>5. PICK r : r = Fine(s, at)
  OBVIOUS
<1>6. at \in Tracks /\ tracks \in [Tracks -> Track]
  BY Reading
<1>7. /\ r \in Pairs /\ Sound(r)
      /\ ~r.tr[at].exist /\ ~r.tr[at].start /\ \A u \in Tracks : u # at => SameTrack(s.tr[u], r.tr[u])
  BY <1>4, <1>5, <1>6, FineSound
<1>8. tracks' = r.tr /\ chans' = r.ch /\ SongUnchanged
  BY <1>1, <1>3, <1>5 DEF Does, Becomes
<1>9. \A u \in Tracks : u # at => SameTrack(tracks[u], r.tr[u])
  BY <1>4, <1>6, <1>7
<1>10. Follows(r.tr[at], song[at])
  <2>1. Follows(tracks[at], song[at])
    BY <1>6 DEF MixerInv, InPrograms
  <2> QED
    BY <1>7, <2>1 DEF Follows
<1> QED
  BY <1>7, <1>8, <1>9, <1>10, CommandKeeps

(* fine: the track ends.                                                   *)
LEMMA PlyFineKeeps ==
  ASSUME MixerInv, PlyFine
  PROVE  MixerInv'
BY EndKeeps DEF PlyFine, Reads

(* patt: into the pattern, or the end of the track if it nests too deep.   *)
LEMMA PlyPattKeeps ==
  ASSUME MixerInv, PlyPatt
  PROVE  MixerInv'
<1>1. CASE ~MayNest(tracks[at])
  <2>1. Does(Fine(With(Past), at))
    BY <1>1 DEF PlyPatt
  <2> QED
    BY <2>1, EndKeeps DEF PlyPatt, Reads
<1>2. CASE MayNest(tracks[at])
  <2>1. /\ tracks[at] \in Track /\ tracks[at].exist /\ ~tracks[at].start
        /\ tracks[at].stack \in Seq(DOMAIN Here) /\ Past.pos \in DOMAIN Here
    BY Reading, PastIs DEF PlyPatt, Reads
  <2>2. PICK a \in Track : a = tracks[at]
    BY <2>1
  <2>3. PICK to \in DOMAIN Here : to = Cmd.to
    BY Reading, CommandIs DEF PlyPatt, Reads
  <2>4. PICK stack \in Seq(DOMAIN Here) : stack = Append(a.stack, Past.pos)
    <3>1. Append(a.stack, Past.pos) \in Seq(DOMAIN Here)
      BY <2>1, <2>2
    <3> QED
      BY <3>1
  <2>5. to \in Nat /\ stack \in Seq(Nat)
    <3>1. DOMAIN Here \subseteq Nat
      BY Reading DEF PlyPatt, Reads
    <3>2. stack \in Seq(Nat)
      BY <2>4, <3>1
    <3> QED
      BY <3>1, <3>2
  <2>6. PICK u : u = [a EXCEPT !.stack = stack, !.pos = to]
    OBVIOUS
  <2>7. u \in Track
    BY <2>5, <2>6 DEF Track
  <2>8. u.chan = a.chan /\ u.exist = a.exist /\ u.start = a.start /\ u.pos = to /\ u.stack = stack
    BY <2>6 DEF Track
  <2>9. Louder(a, u)
    BY <2>6 DEF Louder, VolumeOf, PitchOf, Track
  <2>10. Sets(u)
    BY <1>2, <2>2, <2>3, <2>4, <2>6 DEF PlyPatt
  <2> QED
    BY <2>1, <2>2, <2>3, <2>4, <2>7, <2>8, <2>9, <2>10, SetsKeeps DEF PlyPatt, Reads, Sets, Does
<1> QED
  BY <1>1, <1>2

(* The tie that is ended: one of the notes of the track, released.         *)
LEMMA PlyEndtieKeeps ==
  ASSUME MixerInv, PlyEndtie
  PROVE  MixerInv'
<1>1. PICK p \in Track : p = Past /\ p.pos \in DOMAIN Here /\ p.stack \in Seq(DOMAIN Here)
                          /\ p.chan = tracks[at].chan /\ p.exist /\ ~p.start
  BY PastIs DEF PlyEndtie, Reads
<1>2. PICK key \in Keys : key = Cmd.key
  BY Reading, CommandIs DEF PlyEndtie, Reads
<1>3. PICK u : u = [p EXCEPT !.key = key]
  OBVIOUS
<1>4. u \in Track
  BY <1>3 DEF Track
<1>5. u.chan = p.chan /\ u.exist = p.exist /\ u.start = p.start /\ u.pos = p.pos /\ u.stack = p.stack
  BY <1>3 DEF Track
<1>6. Louder(p, u)
  BY <1>3 DEF Louder, VolumeOf, PitchOf, Track
<1>7. Louder(tracks[at], u)
  BY <1>1, <1>6, PastIs DEF Louder, PlyEndtie, Reads
<1>8. PICK s : s = With(u)
  OBVIOUS
<1>9. s \in Pairs /\ Sound(s) /\ s.tr = [tracks EXCEPT ![at] = u] /\ s.ch = chans
  BY <1>1, <1>4, <1>5, <1>7, <1>8, WithSound DEF PlyEndtie, Reads
<1>10. at \in Tracks /\ tracks \in [Tracks -> Track] /\ chans \in [Chans -> Channel] /\ Sound(State)
       /\ State \in Pairs /\ State.tr = tracks /\ State.ch = chans
  BY Reading DEF PlyEndtie, Reads
<1> DEFINE held(c) == On(chans[c]) /\ ~chans[c].stop /\ chans[c].mk = Cmd.key
<1>11. PICK notes : notes = Chain(at)
  OBVIOUS
<1>12. notes \in Seq(Chans)
  BY <1>10, <1>11, ChainHolds DEF Sound, Chain
<1>13. PICK tied : tied = {i \in DOMAIN notes : held(notes[i])}
  OBVIOUS
<1>14. SongUnchanged /\ pc = "commands"
  BY DEF PlyEndtie, Does, Reads
<1>15. s.tr[at] = u /\ \A v \in Tracks : v # at => SameTrack(tracks[v], s.tr[v])
  BY <1>9, <1>10, LinkTypes
<1>16. Follows(u, song[at])
  <2>1. Follows(tracks[at], song[at])
    BY <1>10 DEF MixerInv, InPrograms
  <2> QED
    BY <1>1, <1>5, <2>1 DEF Follows, Here
<1>17. CASE tied = {}
  <2>1. Becomes(s)
    BY <1>1, <1>2, <1>3, <1>8, <1>11, <1>13, <1>17 DEF PlyEndtie, Does
  <2> QED
    BY <1>1, <1>5, <1>9, <1>14, <1>15, <1>16, <2>1, CommandKeeps DEF Becomes
<1>18. CASE tied # {}
  <2>1. First(tied) \in tied
    <3>1. tied \in SUBSET Nat
      BY <1>12, <1>13
    <3> QED
      BY <1>18, <3>1, FirstIn
  <2>2. PICK c \in Chans : c = notes[First(tied)]
    <3>1. PICK i \in DOMAIN notes : i = First(tied)
      BY <1>13, <2>1
    <3>2. notes[i] \in Chans
      BY <1>12
    <3> QED
      BY <3>1, <3>2
  <2>3. PICK new : new = [chans EXCEPT ![c] = [chans[c] EXCEPT !.stop = TRUE]]
    OBVIOUS
  <2>4. PICK r : r = [tr |-> s.tr, ch |-> new]
    OBVIOUS
  <2>5. Becomes(r)
    BY <1>1, <1>2, <1>3, <1>8, <1>11, <1>13, <1>18, <2>2, <2>3, <2>4 DEF PlyEndtie, Does
  <2>6. PICK b : b = [chans[c] EXCEPT !.stop = TRUE]
    OBVIOUS
  <2>7. b \in Channel /\ Quieter(chans[c], b) /\ (Stands(chans[c]) => Stands(b))
    <3>1. PICK a \in Channel : a = chans[c]
      BY <1>10
    <3>2. b = [a EXCEPT !.stop = TRUE]
      BY <2>6, <3>1
    <3>3. b \in Channel /\ Quieter(a, b) /\ (Stands(a) => Stands(b))
      BY <3>2 DEF Channel, Quieter, SameLinks, On, Stands
    <3> QED
      BY <3>1, <3>3
  <2>8. new \in [Chans -> Channel] /\ new[c] = b /\ \A d \in Chans : d # c => new[d] = chans[d]
    BY <1>10, <2>3, <2>6, <2>7
  <2>9. r \in Pairs /\ r.tr = s.tr /\ r.ch = new
    BY <1>9, <2>4, <2>8 DEF Pairs
  <2>10. \A d \in Chans : Quieter(s.ch[d], r.ch[d])
    <3>1. \A d \in Chans : Quieter(chans[d], chans[d])
      BY DEF Quieter, SameLinks
    <3> QED
      BY <1>9, <2>7, <2>8, <2>9, <3>1
  <2>11. \A d \in Direct : Stands(r.ch[d])
    <3>1. \A d \in Direct : d \in Chans /\ Stands(chans[d])
      BY <1>9, Numbers DEF Sound, Standing
    <3> QED
      BY <2>7, <2>8, <2>9, <3>1
  <2>12. Sound(r)
    BY <1>9, <2>9, <2>10, <2>11, QuieterSound
  <2>13. tracks' = r.tr /\ chans' = r.ch
    BY <2>5 DEF Becomes
  <2> QED
    BY <1>1, <1>5, <1>14, <1>15, <1>16, <2>9, <2>12, <2>13, CommandKeeps
<1> QED
  BY <1>17, <1>18

(* The channel of a note, and the tone behind its voice.                   *)
LEMMA ChannelIs ==
  ASSUME chans \in [Chans -> Channel], NEW t \in Tracks, NEW p \in Nat, NEW tone \in Tones
  PROVE  ChannelFor(t, p, tone) \in Chans \cup {0}
<1>1. CASE tone.kind = "cgb"
  <2>1. tone.cgb \in 1 .. NumCgb
    BY <1>1, ToneTypes
  <2>2. CgbOf(tone) \in Chans
    BY <2>1, Numbers DEF CgbOf
  <2>3. ChannelFor(t, p, tone) = CgbFor(t, p, CgbOf(tone))
    BY <1>1 DEF ChannelFor
  <2> QED
    BY <2>2, <2>3 DEF CgbFor
<1>2. CASE tone.kind # "cgb"
  <2>1. ChannelFor(t, p, tone) = DirectFor(t, p)
    BY <1>2 DEF ChannelFor
  <2>2. CASE DirectFor(t, p) \in {c \in Direct : ~On(chans[c])}
    BY <2>1, <2>2, Numbers
  <2>3. CASE \E cand : Kept(cand, MaxChans, t, p) /\ DirectFor(t, p) = cand.best
    <3>1. PICK cand : cand \in Cand /\ DirectFor(t, p) = cand.best
      BY <2>3 DEF Kept
    <3>2. cand.best \in Direct \cup {0}
      BY <3>1 DEF Cand
    <3> QED
      BY <2>1, <3>1, <3>2, Numbers
  <2> QED
    BY <2>2, <2>3, DirectChosen
<1> QED
  BY <1>1, <1>2

(* The voice a note sounds with is one of those that sound.                *)
LEMMA BehindIs ==
  ASSUME NEW v \in DOMAIN Voices, NEW key \in Keys, NEW tone, tone = Behind(Voices[v], key), tone.kind # "split"
  PROVE  tone \in Tones
<1>1. CASE Voices[v].kind = "split"
  <2>1. Voices[v].sub \in [Keys -> DOMAIN Voices]
    BY <1>1, VoicesAssumption
  <2>2. PICK w \in DOMAIN Voices : w = Voices[v].sub[key]
    BY <2>1
  <2>3. tone = Voices[w]
    BY <1>1, <2>2 DEF Behind
  <2> QED
    BY <2>2, <2>3 DEF Tones
<1>2. CASE Voices[v].kind # "split"
  <2>1. tone = Voices[v]
    BY <1>2 DEF Behind
  <2> QED
    BY <1>2, <2>1 DEF Tones
<1> QED
  BY <1>1, <1>2

(* note: a channel is taken, cut from its list and put at the head of that *)
(* of the track.                                                           *)
LEMMA PlyNoteKeeps ==
  ASSUME MixerInv, PlyNote
  PROVE  MixerInv'
<1>1. PICK p \in Track : p = Past /\ p.pos \in DOMAIN Here /\ p.stack \in Seq(DOMAIN Here)
                          /\ p.chan = tracks[at].chan /\ p.exist /\ ~p.start
  BY PastIs DEF PlyNote, Reads
<1>2. Cmd.key \in Keys /\ Cmd.gate \in Nat
  BY Reading, CommandIs DEF PlyNote, Reads
<1>3. PICK key \in Keys, gate \in Nat : gate = Cmd.gate /\ key = IF Cmd.key = 0 THEN p.key ELSE Cmd.key
  <2>1. p.key \in Keys
    BY DEF Track
  <2> QED
    BY <1>2, <2>1
<1>4. PICK u : u = [p EXCEPT !.gate = gate, !.key = key]
  OBVIOUS
<1>5. u \in Track
  BY <1>4 DEF Track
<1>6. /\ u.chan = p.chan /\ u.exist = p.exist /\ u.start = p.start /\ u.pos = p.pos /\ u.stack = p.stack
      /\ u.key = key
  BY <1>4 DEF Track
<1>7. Louder(p, u)
  BY <1>4 DEF Louder, VolumeOf, PitchOf, Track
<1>8. PICK tone : tone = Behind(Voices[u.voice], u.key)
  OBVIOUS
<1>9. PICK priority \in Nat : priority = IF u.prio > MaxPriority THEN MaxPriority ELSE u.prio
  <2>1. u.prio \in Nat /\ MaxPriority \in Nat
    BY <1>5, MixerAssumption DEF Track
  <2> QED
    BY <2>1
<1>10. PICK c : c = ChannelFor(at, priority, tone)
  OBVIOUS
<1>11. IF tone.kind = "split" \/ c = 0 THEN Sets(u) ELSE Does(Struck(With(u), at, c, tone, priority))
  <2>1. u = [Past EXCEPT !.gate = Cmd.gate, !.key = IF Cmd.key = 0 THEN Past.key ELSE Cmd.key]
    BY <1>1, <1>3, <1>4
  <2> QED
    BY <1>8, <1>9, <1>10, <2>1 DEF PlyNote
<1>12. CASE tone.kind = "split" \/ c = 0
  <2>1. Sets(u)
    BY <1>11, <1>12
  <2> QED
    BY <1>1, <1>5, <1>6, <1>7, <2>1, SetsPast DEF PlyNote
<1>13. CASE ~(tone.kind = "split" \/ c = 0)
  <2>1. pc = "commands" /\ tracks[at].exist
    BY DEF PlyNote, Reads
  <2>2. at \in Tracks /\ tracks \in [Tracks -> Track] /\ chans \in [Chans -> Channel]
    BY <2>1, Reading
  <2>3. tone \in Tones
    <3>1. u.voice \in DOMAIN Voices
      BY <1>5 DEF Track
    <3> QED
      BY <1>6, <1>8, <1>13, <3>1, BehindIs
  <2>4. c \in Chans
    BY <1>10, <1>13, <2>2, <2>3, ChannelIs
  <2>5. Louder(tracks[at], u)
    BY <1>1, <1>7, <2>1, PastIs DEF Louder
  <2>6. PICK s : s = With(u)
    OBVIOUS
  <2>7. s \in Pairs /\ Sound(s) /\ s.tr = [tracks EXCEPT ![at] = u]
    BY <1>1, <1>5, <1>6, <2>1, <2>5, <2>6, WithSound
  <2>8. s.tr[at] = u /\ \A v \in Tracks : v # at => s.tr[v] = tracks[v]
    BY <2>2, <2>7
  <2>9. PICK r : r = Struck(s, at, c, tone, priority)
    OBVIOUS
  <2>10. s.tr[at].exist /\ ~s.tr[at].start
    BY <1>1, <1>6, <2>8
  <2>11. /\ r \in Pairs /\ Sound(r) /\ SamePlace(s.tr[at], r.tr[at])
         /\ \A v \in Tracks : v # at => SameTrack(s.tr[v], r.tr[v])
    BY <2>2, <2>3, <2>4, <2>7, <2>9, <2>10, StruckSound
  <2>12. tracks' = r.tr /\ chans' = r.ch /\ SongUnchanged
    BY <1>11, <1>13, <2>6, <2>9 DEF Does, Becomes
  <2>13. \A v \in Tracks : v # at => SameTrack(tracks[v], r.tr[v])
    BY <2>8, <2>11
  <2>14. Follows(r.tr[at], song[at])
    <3>1. Follows(tracks[at], song[at])
      BY <2>2 DEF MixerInv, InPrograms
    <3>2. r.tr[at].pos = u.pos /\ r.tr[at].stack = u.stack
      BY <2>8, <2>11 DEF SamePlace
    <3> QED
      BY <1>1, <1>6, <3>1, <3>2 DEF Follows, Here
  <2>15. ~r.tr[at].start
    BY <2>10, <2>11 DEF SamePlace
  <2> QED
    BY <2>1, <2>11, <2>12, <2>13, <2>14, <2>15, CommandKeeps
<1> QED
  BY <1>12, <1>13

(* Every command keeps the invariant.                                      *)
LEMMA CommandStep ==
  ASSUME MixerInv, Command
  PROVE  MixerInv'
BY RestKeeps, PlyNoteKeeps, PlyEndtieKeeps, PlyFineKeeps, PlyGotoKeeps, PlyPattKeeps, PlyPendKeeps,
   PlyReptKeeps, PlyTempoKeeps, PlyPlainKeeps, PlyVolumeKeeps, PlyPitchKeeps, PlyModKeeps, PlyModtKeeps
DEF Command

(* --- the steps of a frame ------------------------------------------------ *)

(* What the invariant says of the two structures.                          *)
LEMMA Standstill ==
  ASSUME MixerInv
  PROVE  /\ State \in Pairs /\ Sound(State) /\ State.tr = tracks /\ State.ch = chans
         /\ tracks \in [Tracks -> Track] /\ chans \in [Chans -> Channel]
         /\ \A t \in Tracks : Follows(tracks[t], song[t])
<1>1. State \in Pairs /\ Sound(State) /\ State.tr = tracks /\ State.ch = chans
  BY DEF MixerInv, Sound, Orderly, State
<1>2. tracks \in [Tracks -> Track] /\ chans \in [Chans -> Channel]
  BY <1>1, LinkTypes
<1> QED
  BY <1>1, <1>2 DEF MixerInv, InPrograms

(* A step that leaves both structures alone.                               *)
LEMMA OnlyGoes ==
  ASSUME MixerInv, tracks' = tracks, chans' = chans, song' = song
  PROVE  Sound(State)' /\ InPrograms'
BY DEF MixerInv, State, Sound, Orderly, Owned, AsSet, Standing, InPrograms

(* The next tick, or the second pass.                                      *)
LEMMA TickKeeps ==
  ASSUME MixerInv, Tick
  PROVE  MixerInv'
<1>1. tracks' = tracks /\ chans' = chans /\ song' = song /\ pc = "tick"
  BY DEF Tick
<1>2. pc' \in {"gates", "push"} /\ at' = 1
  BY DEF Tick, Goes
<1>3. 1 \in Tracks /\ \A t \in Tracks : ~(t < 1)
  BY Numbers
<1>4. Placed'
  BY <1>1, <1>2, <1>3 DEF Placed
<1> QED
  BY <1>1, <1>4, OnlyGoes DEF MixerInv

(* The track after this one, or the end of the tick.                       *)
LEMMA NextPlaced ==
  ASSUME MixerInv, at \in Tracks, NextTrack(active), active' = active,
         \A t \in Tracks : ~tracks'[t].exist => Unmarked(tracks'[t]),
         \A t \in Tracks : t <= at /\ tracks'[t].exist => t \in active
  PROVE  Placed'
<1>0. Tracks = 1 .. NumTracks /\ NumTracks \in Nat /\ at \in Nat
  BY Numbers
<1>1. CASE at # NumTracks
  <2>1. pc' = "gates" /\ at' = at + 1
    BY <1>1 DEF NextTrack, Goes
  <2>2. at + 1 \in Tracks /\ \A t \in Tracks : t < at + 1 => t <= at
    BY <1>0, <1>1
  <2> QED
    BY <2>1, <2>2 DEF Placed
<1>2. CASE at = NumTracks /\ active # {}
  <2>1. pc' = "tick"
    BY <1>2 DEF NextTrack, EndOfTick, Goes
  <2> QED
    BY <2>1 DEF Placed
<1>3. CASE at = NumTracks /\ active = {}
  <2>1. pc' = "cgb"
    BY <1>3 DEF NextTrack, EndOfTick, Goes
  <2>2. \A t \in Tracks : t <= at
    BY <1>0, <1>3
  <2>3. \A t \in Tracks : Unmarked(tracks'[t])
    BY <1>3, <2>2
  <2>4. \A t \in Tracks : Unmarked(tracks[t])'
    BY <2>3 DEF Unmarked
  <2> QED
    BY <2>1, <2>4 DEF Placed
<1> QED
  BY <1>1, <1>2, <1>3

(* A step that leaves two structures that are sound.                       *)
LEMMA NowSound ==
  ASSUME NEW r \in Pairs, Sound(r), tracks' = r.tr, chans' = r.ch
  PROVE  Sound(State)'
<1>1. State' = r
  BY DEF State, Pairs
<1> QED
  BY <1>1

(* A track at the same place follows the same program.                     *)
LEMMA FollowsOn ==
  ASSUME NEW a, NEW b, NEW prog, Follows(a, prog), SamePlace(a, b)
  PROVE  Follows(b, prog)
BY DEF Follows, SamePlace

(* The wave of the LFO marks the track whose sound it moves.               *)
LEMMA WaveTypes ==
  ASSUME NEW tr \in Track
  PROVE  LET phase == tr.phase + tr.speed
         IN (Triangle(phase) * tr.mod) \div (Wheel \div 4) \in Int /\ phase % Wheel \in Int
<1>1. PICK phase \in Int : phase = tr.phase + tr.speed
  <2>1. tr.phase \in Int /\ tr.speed \in Nat
    BY DEF Track
  <2>2. tr.phase + tr.speed \in Int
    BY <2>1
  <2> QED
    BY <2>2
<1>2. Wheel \in Nat \ {0} /\ Wheel % 4 = 0
  BY MixerAssumption
<1>3. PICK q \in Nat \ {0} : q = Wheel \div 4
  <2>1. Wheel \div 4 \in Int /\ Wheel = 4 * (Wheel \div 4) + (Wheel % 4)
    BY <1>2, DivMod
  <2>2. PICK d \in Int : d = Wheel \div 4
    BY <2>1
  <2>3. Wheel = 4 * d
    BY <1>2, <2>1, <2>2
  <2>4. d \in Nat \ {0}
    BY <1>2, <2>3
  <2> QED
    BY <2>2, <2>4
<1>4. \A x \in Int : Signed(x) \in Int
  <2> SUFFICES ASSUME NEW x \in Int PROVE Signed(x) \in Int
    OBVIOUS
  <2>1. PICK m \in Int : m = x % Wheel
    BY <1>2, DivMod
  <2> QED
    BY <1>2, <2>1 DEF Signed
<1>5. Triangle(phase) \in Int
  <2>1. Signed(phase) \in Int
    BY <1>4
  <2>2. Wheel \div 2 \in Int
    BY <1>2, DivMod
  <2>3. PICK h \in Int : h = Wheel \div 2
    BY <2>2
  <2>4. h - phase \in Int
    OBVIOUS
  <2> QED
    BY <2>1, <2>3, <2>4 DEF Triangle
<1>6. PICK x \in Int : x = Triangle(phase) * tr.mod
  <2>1. tr.mod \in Nat
    BY DEF Track
  <2>2. Triangle(phase) * tr.mod \in Int
    BY <1>5, <2>1
  <2> QED
    BY <2>2
<1>7. x \div q \in Int /\ phase % Wheel \in Int
  BY <1>2, DivMod
<1> QED
  BY <1>1, <1>3, <1>6, <1>7

(* ModFlagged marks the track for what its modulation moves.               *)
LEMMA FlaggedLouder ==
  ASSUME NEW a \in Track, NEW x \in Track,
         x.vlchg = a.vlchg, x.ptchg = a.ptchg, x.vol = a.vol /\ x.volX = a.volX, x.pit = a.pit, x.modT = a.modT,
         NEW v, v = ModFlagged(x)
  PROVE  v \in Track /\ v.chan = x.chan /\ SamePlace(x, v) /\ Louder(a, v)
<1>1. a.vol \in Int /\ a.pit \in Int
  BY DEF Track
<1>2. CASE x.modT = 0
  <2>1. PICK yes \in BOOLEAN : yes /\ v = [x EXCEPT !.ptchg = yes]
    BY <1>2 DEF ModFlagged
  <2>2. v \in Track /\ v.chan = x.chan /\ SamePlace(x, v)
    <3>1. v \in Track
      BY <2>1, ZenonT(40) DEF Track
    <3> QED
      BY <2>1, <3>1 DEF Track, SamePlace
  <2>3. v.ptchg /\ v.vlchg = x.vlchg /\ v.vol = x.vol /\ v.volX = x.volX /\ v.modT = x.modT
    BY <2>1 DEF Track
  <2>4. VolumeOf(v) = VolumeOf(a)
    BY <1>2, <2>3 DEF VolumeOf
  <2>5. a.vlchg \in BOOLEAN
    BY DEF Track
  <2> QED
    BY <2>2, <2>3, <2>4, <2>5 DEF Louder
<1>3. CASE x.modT # 0
  <2>1. PICK yes \in BOOLEAN : yes /\ v = [x EXCEPT !.vlchg = yes]
    BY <1>3 DEF ModFlagged
  <2>2. v \in Track /\ v.chan = x.chan /\ SamePlace(x, v)
    <3>1. v \in Track
      BY <2>1, ZenonT(40) DEF Track
    <3> QED
      BY <2>1, <3>1 DEF Track, SamePlace
  <2>3. v.vlchg /\ v.ptchg = x.ptchg /\ v.pit = x.pit /\ v.modT = x.modT
    BY <2>1 DEF Track
  <2>4. PitchOf(v) = PitchOf(a)
    BY <1>3, <2>3 DEF PitchOf
  <2>5. a.ptchg \in BOOLEAN
    BY DEF Track
  <2> QED
    BY <2>2, <2>3, <2>4, <2>5 DEF Louder
<1> QED
  BY <1>2, <1>3

(* A rest counted down, and the LFO with it.                               *)
LEMMA WaitedLouder ==
  ASSUME NEW a \in Track, a.wait # 0, NEW u, u = Waited(a)
  PROVE  u \in Track /\ u.chan = a.chan /\ SamePlace(a, u) /\ Louder(a, u)
<1>1. PICK wait \in Nat : wait = a.wait - 1
  <2>1. a.wait \in Nat
    BY DEF Track
  <2>2. a.wait - 1 \in Nat
    BY <2>1
  <2> QED
    BY <2>2
<1>2. PICK less : less = [a EXCEPT !.wait = wait]
  OBVIOUS
<1>3. less \in Track
  BY <1>2 DEF Track
<1>4. /\ less.chan = a.chan /\ SamePlace(a, less)
      /\ less.vlchg = a.vlchg /\ less.ptchg = a.ptchg /\ less.vol = a.vol /\ less.volX = a.volX /\ less.pit = a.pit
      /\ less.modT = a.modT /\ less.modM = a.modM
  BY <1>2 DEF Track, SamePlace
<1>5. Louder(a, less)
  <2>1. VolumeOf(less) = VolumeOf(a) /\ PitchOf(less) = PitchOf(a)
    BY <1>4 DEF VolumeOf, PitchOf
  <2> QED
    BY <1>4, <2>1, Zenon DEF Louder
<1>6. u = CASE a.speed = 0 \/ a.mod = 0 -> less
            [] a.speed # 0 /\ a.mod # 0 /\ a.delayC # 0 -> [less EXCEPT !.delayC = less.delayC - 1]
            [] a.speed # 0 /\ a.mod # 0 /\ a.delayC = 0 -> Wave(less)
  BY <1>1, <1>2 DEF Waited
<1>7. CASE a.speed = 0 \/ a.mod = 0
  <2>1. u = less
    BY <1>6, <1>7
  <2> QED
    BY <1>3, <1>4, <1>5, <2>1
<1>8. CASE a.speed # 0 /\ a.mod # 0 /\ a.delayC # 0
  <2>1. PICK n \in Nat : n = less.delayC - 1
    <3>1. a.delayC \in Nat /\ less.delayC = a.delayC
      BY <1>2 DEF Track
    <3>2. less.delayC - 1 \in Nat
      BY <1>8, <3>1
    <3> QED
      BY <3>2
  <2>2. u = [less EXCEPT !.delayC = n]
    BY <1>6, <1>8, <2>1
  <2>3. u \in Track
    BY <1>3, <2>2, ZenonT(40) DEF Track
  <2>4. u.chan = less.chan /\ SamePlace(less, u)
    BY <1>3, <2>2 DEF Track, SamePlace
  <2>5. Louder(less, u)
    <3>1. /\ u.vlchg = less.vlchg /\ u.ptchg = less.ptchg /\ u.vol = less.vol /\ u.volX = less.volX /\ u.pit = less.pit
          /\ u.modT = less.modT /\ u.modM = less.modM
      BY <1>3, <2>2 DEF Track
    <3>2. VolumeOf(u) = VolumeOf(less) /\ PitchOf(u) = PitchOf(less)
      BY <3>1 DEF VolumeOf, PitchOf
    <3> QED
      BY <3>1, <3>2, Zenon DEF Louder
  <2>6. Louder(a, u)
    BY <1>4, <1>5, <2>5 DEF Louder
  <2> QED
    BY <1>4, <2>3, <2>4, <2>6 DEF SamePlace
<1>9. CASE a.speed # 0 /\ a.mod # 0 /\ a.delayC = 0
  <2>1. u = Wave(less)
    BY <1>6, <1>9
  <2>2. PICK phase \in Int, depth \in Int :
          /\ phase = (less.phase + less.speed) % Wheel
          /\ depth = (Triangle(less.phase + less.speed) * less.mod) \div (Wheel \div 4)
    BY <1>3, WaveTypes
  <2>3. PICK turned : turned = [less EXCEPT !.phase = phase]
    OBVIOUS
  <2>4. turned \in Track
    BY <1>3, <2>3 DEF Track
  <2>5. /\ turned.chan = less.chan /\ SamePlace(less, turned) /\ turned.modM = less.modM
        /\ turned.vlchg = less.vlchg /\ turned.ptchg = less.ptchg /\ turned.vol = less.vol /\ turned.volX = less.volX
        /\ turned.pit = less.pit /\ turned.modT = less.modT
    BY <1>3, <2>3 DEF Track, SamePlace
  <2>6. u = IF depth = less.modM THEN turned ELSE ModFlagged([turned EXCEPT !.modM = depth])
    BY <2>1, <2>2, <2>3 DEF Wave
  <2>7. CASE depth = less.modM
    <3>1. u = turned
      BY <2>6, <2>7
    <3>2. VolumeOf(turned) = VolumeOf(less) /\ PitchOf(turned) = PitchOf(less)
      BY <2>5 DEF VolumeOf, PitchOf
    <3>3. Louder(a, turned)
      BY <1>4, <1>5, <2>5, <3>2 DEF Louder
    <3> QED
      BY <1>4, <2>4, <2>5, <3>1, <3>3 DEF SamePlace
  <2>8. CASE depth # less.modM
    <3>1. PICK x : x = [turned EXCEPT !.modM = depth]
      OBVIOUS
    <3>2. x \in Track
      BY <2>4, <3>1 DEF Track
    <3>3. /\ x.chan = turned.chan /\ SamePlace(turned, x)
          /\ x.vlchg = turned.vlchg /\ x.ptchg = turned.ptchg /\ x.vol = turned.vol /\ x.volX = turned.volX
          /\ x.pit = turned.pit /\ x.modT = turned.modT
      BY <2>4, <3>1 DEF Track, SamePlace
    <3>4. u = ModFlagged(x)
      BY <2>6, <2>8, <3>1
    <3>5. u \in Track /\ u.chan = x.chan /\ SamePlace(x, u) /\ Louder(a, u)
      BY <1>4, <2>5, <3>2, <3>3, <3>4, FlaggedLouder
    <3> QED
      BY <1>4, <2>5, <3>3, <3>5 DEF SamePlace
  <2> QED
    BY <2>7, <2>8
<1> QED
  BY <1>7, <1>8, <1>9

(* A track that waits or has ended.                                        *)
LEMMA RestedKeeps ==
  ASSUME MixerInv, Rested
  PROVE  MixerInv'
<1>1. /\ State \in Pairs /\ Sound(State) /\ State.tr = tracks /\ State.ch = chans
      /\ tracks \in [Tracks -> Track] /\ chans \in [Chans -> Channel]
      /\ \A t \in Tracks : Follows(tracks[t], song[t])
  BY Standstill
<1>2. /\ pc = "commands" /\ (tracks[at].wait # 0 \/ ~tracks[at].exist)
      /\ NextTrack(active) /\ chans' = chans /\ song' = song /\ active' = active
  BY DEF Rested
<1>3. at \in Tracks /\ at \in active /\ ~tracks[at].start
      /\ \A t \in Tracks : t < at /\ tracks[t].exist => t \in active
  BY <1>2 DEF MixerInv, Placed
<1>4. CASE ~tracks[at].exist
  <2>1. tracks' = tracks
    BY <1>4 DEF Rested
  <2>2. \A t \in Tracks : ~tracks'[t].exist => Unmarked(tracks'[t])
    BY <1>1, <2>1 DEF Sound
  <2>3. \A t \in Tracks : t <= at /\ tracks'[t].exist => t \in active
    BY <1>3, <2>1, Numbers
  <2>4. Placed'
    BY <1>2, <1>3, <2>2, <2>3, NextPlaced
  <2> QED
    BY <1>2, <2>1, <2>4, OnlyGoes DEF MixerInv
<1>5. CASE tracks[at].exist
  <2>1. PICK u : u = Waited(tracks[at])
    OBVIOUS
  <2>2. tracks' = [tracks EXCEPT ![at] = u]
    BY <1>5, <2>1 DEF Rested
  <2>3. u \in Track /\ u.chan = tracks[at].chan /\ SamePlace(tracks[at], u) /\ Louder(tracks[at], u)
    BY <1>1, <1>2, <1>3, <1>5, <2>1, WaitedLouder
  <2>4. u.exist /\ ~u.start
    BY <1>3, <1>5, <2>3 DEF SamePlace
  <2>5. PICK s : s = With(u)
    OBVIOUS
  <2>6. s \in Pairs /\ Sound(s) /\ s.tr = [tracks EXCEPT ![at] = u] /\ s.ch = chans
    BY <1>2, <1>5, <2>3, <2>4, <2>5, WithSound
  <2>7. tracks' = s.tr /\ chans' = s.ch
    BY <1>2, <2>2, <2>6
  <2>8. Sound(State)'
    BY <2>6, <2>7, NowSound
  <2>9. tracks'[at] = u /\ \A t \in Tracks : t # at => tracks'[t] = tracks[t]
    BY <1>1, <1>3, <2>2
  <2>10. Placed'
    <3>1. \A t \in Tracks : ~tracks'[t].exist => Unmarked(tracks'[t])
      BY <2>6, <2>7 DEF Sound
    <3>2. \A t \in Tracks : t <= at /\ tracks'[t].exist => t \in active
      BY <1>3, <2>9, Numbers
    <3> QED
      BY <1>2, <1>3, <3>1, <3>2, NextPlaced
  <2>11. InPrograms'
    <3>1. \A t \in Tracks : Follows(tracks'[t], song[t])
      <4>1. Follows(u, song[at])
        BY <1>1, <1>3, <2>3, FollowsOn
      <4> QED
        BY <1>1, <2>9, <4>1
    <3> QED
      BY <1>2, <3>1 DEF InPrograms
  <2> QED
    BY <2>8, <2>10, <2>11 DEF MixerInv
<1> QED
  BY <1>4, <1>5


(* Tracks that differ in their lists alone are at the same place.          *)
LEMMA SamePlaces ==
  \A a, b : SameTrack(a, b) => SamePlace(a, b) /\ (Unmarked(b) <=> Unmarked(a))
BY DEF SameTrack, SamePlace, Unmarked

(* What a track is cleared to when its song starts.                        *)
LEMMA ResetIs ==
  ASSUME NEW tr \in Track, tr.start, NEW u, u = Reset(tr)
  PROVE  u \in Track /\ u.exist /\ ~u.start /\ u.chan = 0 /\ u.pos = tr.pos /\ u.stack = <<>>
<1>1. NoVoice \in DOMAIN Voices /\ 0 \in Keys /\ tr.pos \in Nat
  BY VoicesAssumption, MixerAssumption DEF Keys, Track
<1>2. PICK p \in Nat : p = tr.pos
  BY <1>1
<1>3. u = [FreshTrack EXCEPT !.exist = TRUE, !.volX = FullVolX, !.speed = 1, !.pos = p]
  BY <1>2 DEF Reset
<1>4. <<>> \in Seq(Nat)
  OBVIOUS
<1>5. FreshTrack \in Track
  BY <1>1, <1>4 DEF FreshTrack, Track
<1>6. u \in Track
  <2>1. PICK one \in Nat, full \in Nat, yes \in BOOLEAN : one = 1 /\ full = FullVolX /\ yes = TRUE
    BY MixerAssumption
  <2>2. u = [FreshTrack EXCEPT !.exist = yes, !.volX = full, !.speed = one, !.pos = p]
    BY <1>3, <2>1
  <2> QED
    BY <1>5, <2>2, ZenonT(40) DEF Track
<1>7. u.exist /\ ~u.start /\ u.chan = 0 /\ u.pos = tr.pos /\ u.stack = <<>>
  BY <1>2, <1>3 DEF FreshTrack
<1> QED
  BY <1>6, <1>7

(* The gates of a track: its notes are counted, and it is cleared if it is *)
(* being started; then it reads its commands.                              *)
LEMMA GatesKeeps ==
  ASSUME MixerInv, Gates
  PROVE  MixerInv'
<1>1. /\ State \in Pairs /\ Sound(State) /\ State.tr = tracks /\ State.ch = chans
      /\ tracks \in [Tracks -> Track] /\ chans \in [Chans -> Channel]
      /\ \A t \in Tracks : Follows(tracks[t], song[t])
  BY Standstill
<1>2. pc = "gates" /\ song' = song
  BY DEF Gates
<1>3. at \in Tracks /\ \A t \in Tracks : t < at /\ tracks[t].exist => t \in active
  BY <1>2 DEF MixerInv, Placed
<1>4. CASE ~tracks[at].exist
  <2>1. NextTrack(active) /\ tracks' = tracks /\ chans' = chans /\ active' = active
    BY <1>4 DEF Gates
  <2>2. \A t \in Tracks : ~tracks'[t].exist => Unmarked(tracks'[t])
    BY <1>1, <2>1 DEF Sound
  <2>3. \A t \in Tracks : t <= at /\ tracks'[t].exist => t \in active
    <3>1. \A t \in Tracks : t <= at => t < at \/ t = at
      BY <1>3, Numbers
    <3> QED
      BY <1>3, <1>4, <2>1, <3>1
  <2>4. Placed'
    BY <1>3, <2>1, <2>2, <2>3, NextPlaced
  <2> QED
    BY <1>2, <2>1, <2>4, OnlyGoes DEF MixerInv
<1>5. CASE tracks[at].exist
  <2>1. PICK s : s = Gated(State, at)
    OBVIOUS
  <2>2. /\ s \in Pairs /\ Sound(s)
        /\ \A u \in Tracks : SameTrack(tracks[u], s.tr[u])
        /\ tracks[at].start => s.tr[at].chan = 0 /\ \A c \in Chans : s.ch[c].track # at
    BY <1>1, <1>3, <2>1, GatedSound
  <2>3. PICK u : u = Reset(s.tr[at])
    OBVIOUS
  <2>4. PICK r : r = [tr |-> [s.tr EXCEPT ![at] = u], ch |-> s.ch]
    OBVIOUS
  <2>5. s.tr \in [Tracks -> Track] /\ s.ch \in [Chans -> Channel] /\ s.tr[at] \in Track
    BY <1>3, <2>2 DEF Pairs
  <2>6. tracks' = r.tr /\ chans' = r.ch /\ active' = active \cup {at} /\ pc' = "commands" /\ at' = at
    BY <1>5, <2>1, <2>3, <2>4 DEF Gates, Becomes
  <2>7. s.tr[at].exist /\ s.tr[at].start = tracks[at].start /\ SamePlace(tracks[at], s.tr[at])
    BY <1>3, <1>5, <2>2 DEF SameTrack, SamePlace
  <2>8. /\ u \in Track /\ u.exist /\ ~u.start /\ u.pos = tracks[at].pos /\ u.chan = s.tr[at].chan
        /\ u.stack = <<>> \/ (~tracks[at].start /\ u.stack = tracks[at].stack)
        /\ tracks[at].start \/ u = s.tr[at]
    <3>1. CASE tracks[at].start
      BY <2>2, <2>3, <2>5, <2>7, <3>1, ResetIs DEF SamePlace
    <3>2. CASE ~tracks[at].start
      <4>1. u = s.tr[at]
        BY <2>3, <2>7, <3>2 DEF Reset
      <4> QED
        BY <2>5, <2>7, <3>2, <4>1 DEF SamePlace
    <3> QED
      BY <3>1, <3>2
  <2>9. /\ r \in Pairs /\ r.ch = s.ch /\ r.tr[at] = u
        /\ \A t \in Tracks : t # at => r.tr[t] = s.tr[t]
    BY <1>3, <2>4, <2>5, <2>8 DEF Pairs
  <2>10. ASSUME NEW c \in Chans, s.ch[c].track = at
         PROVE  Heard(s.ch[c], u)
    <3>1. ~tracks[at].start
      BY <2>2, <2>10
    <3>2. at # 0
      BY <1>3, Numbers
    <3>3. Heard(s.ch[c], s.tr[at])
      BY <2>2, <2>10, <3>2 DEF Sound, AsSet
    <3> QED
      BY <2>8, <3>1, <3>3
  <2>11. Sound(r)
    <3>1. r.tr[at].chan = s.tr[at].chan /\ r.tr[at].exist /\ ~r.tr[at].start
      BY <2>8, <2>9
    <3>2. \A c \in Chans : s.ch[c].track = at => r.tr[at].exist /\ ~r.tr[at].start /\ Heard(s.ch[c], r.tr[at])
      BY <2>9, <2>10, <3>1
    <3> QED
      BY <1>3, <2>2, <2>9, <3>1, <3>2, TrackSound
  <2>12. Sound(State)'
    BY <2>6, <2>9, <2>11, NowSound
  <2>13. tracks'[at] = u /\ \A t \in Tracks : t # at => tracks'[t] = s.tr[t] /\ SameTrack(tracks[t], tracks'[t])
    BY <2>2, <2>6, <2>9
  <2>14. Placed'
    <3>1. \A t \in Tracks : t < at /\ tracks'[t].exist => t \in active'
      <4>1. \A t \in Tracks : t < at => t # at
        BY <1>3, Numbers
      <4>2. \A t \in Tracks : t # at => tracks'[t].exist = tracks[t].exist
        BY <2>13 DEF SameTrack
      <4> QED
        BY <1>3, <2>6, <4>1, <4>2
    <3>2. at \in active' /\ ~tracks'[at].start
      BY <2>6, <2>8, <2>13
    <3> QED
      BY <1>3, <2>6, <3>1, <3>2 DEF Placed
  <2>15. InPrograms'
    <3>1. Follows(u, song[at])
      <4>1. Follows(tracks[at], song[at])
        BY <1>1, <1>3
      <4>2. song[at] \in Seq(Commands(Len(song[at]))) /\ <<>> \in Seq(DOMAIN song[at])
        BY <4>1 DEF Follows
      <4>3. u.stack \in Seq(DOMAIN song[at])
        BY <1>5, <2>8, <4>1, <4>2 DEF Follows
      <4> QED
        BY <1>5, <2>8, <4>1, <4>3 DEF Follows
    <3>2. \A t \in Tracks : t # at => Follows(tracks'[t], song[t])
      BY <1>1, <2>13, SamePlaces, FollowsOn
    <3>3. \A t \in Tracks : Follows(tracks'[t], song'[t])
      BY <1>2, <2>13, <3>1, <3>2
    <3> QED
      BY <3>3 DEF InPrograms
  <2> QED
    BY <2>12, <2>14, <2>15 DEF MixerInv
<1> QED
  BY <1>4, <1>5

(* The second pass: a track that was marked has told its notes.            *)
LEMMA PushKeeps ==
  ASSUME MixerInv, Push
  PROVE  MixerInv'
<1>1. /\ State \in Pairs /\ Sound(State) /\ State.tr = tracks /\ State.ch = chans
      /\ tracks \in [Tracks -> Track] /\ chans \in [Chans -> Channel]
      /\ \A t \in Tracks : Follows(tracks[t], song[t])
  BY Standstill
<1>2. pc = "push" /\ song' = song
  BY DEF Push
<1>3. at \in Tracks /\ \A t \in Tracks : t < at => Unmarked(tracks[t])
  BY <1>2 DEF MixerInv, Placed
<1>4. PICK r : r = IF Changed(tracks[at]) THEN Pushed(State, at) ELSE State
  OBVIOUS
<1>5. tracks' = r.tr /\ chans' = r.ch
  BY <1>4 DEF Push, Becomes
<1>6. /\ r \in Pairs /\ Sound(r) /\ Unmarked(r.tr[at]) /\ SamePlace(tracks[at], r.tr[at])
      /\ \A t \in Tracks : t # at => SameTrack(tracks[t], r.tr[t])
  <2>1. CASE Changed(tracks[at])
    <3>1. tracks[at].exist /\ r = Pushed(State, at)
      BY <1>4, <2>1 DEF Changed
    <3> QED
      BY <1>1, <1>3, <3>1, PushedSound
  <2>2. CASE ~Changed(tracks[at])
    <3>1. r = State
      BY <1>4, <2>2
    <3>2. Unmarked(tracks[at])
      BY <1>1, <1>3, <2>2 DEF Changed, Unmarked, Sound
    <3> QED
      BY <1>1, <3>1, <3>2, LinkTypes DEF SamePlace
  <2> QED
    BY <2>1, <2>2
<1>7. Sound(State)'
  BY <1>5, <1>6, NowSound
<1>8. \A t \in Tracks : t <= at => Unmarked(tracks'[t])
  <2>1. \A t \in Tracks : t <= at => t = at \/ (t # at /\ t < at)
    BY <1>3, Numbers
  <2> QED
    BY <1>3, <1>5, <1>6, <2>1, SamePlaces
<1>9. Placed'
  <2>1. NumTracks \in Nat /\ at \in 1 .. NumTracks /\ Tracks = 1 .. NumTracks
    BY <1>3, Numbers
  <2>2. CASE at = NumTracks
    <3>1. pc' = "cgb"
      BY <2>2 DEF Push, Goes
    <3>2. \A t \in Tracks : Unmarked(tracks'[t])
      BY <1>8, <2>1, <2>2
    <3> QED
      BY <3>1, <3>2 DEF Placed
  <2>3. CASE at # NumTracks
    <3>1. pc' = "push" /\ at' = at + 1
      BY <2>3 DEF Push, Goes
    <3>2. at + 1 \in Tracks /\ \A t \in Tracks : t < at + 1 => t <= at
      BY <2>1, <2>3
    <3>3. \A t \in Tracks : t < at' => Unmarked(tracks'[t])
      BY <1>8, <3>1, <3>2
    <3> QED
      BY <3>1, <3>2, <3>3 DEF Placed
  <2> QED
    BY <2>2, <2>3
<1>10. InPrograms'
  <2>1. \A t \in Tracks : SamePlace(tracks[t], r.tr[t])
    BY <1>6, SamePlaces
  <2>2. \A t \in Tracks : Follows(tracks'[t], song'[t])
    BY <1>1, <1>2, <1>5, <2>1, FollowsOn
  <2> QED
    BY <2>2 DEF InPrograms
<1> QED
  BY <1>7, <1>9, <1>10 DEF MixerInv


(* The game's CgbSound: a channel that was released may fall silent, and   *)
(* one that was struck sounds.                                             *)
LEMMA CgbSoundKeeps ==
  ASSUME MixerInv, CgbSound
  PROVE  MixerInv'
<1>1. /\ State \in Pairs /\ Sound(State) /\ State.tr = tracks /\ State.ch = chans
      /\ tracks \in [Tracks -> Track] /\ chans \in [Chans -> Channel]
      /\ \A t \in Tracks : Follows(tracks[t], song[t])
  BY Standstill
<1>2. pc = "cgb" /\ pc' = "mix" /\ at' = 1 /\ tracks' = tracks /\ song' = song
  BY DEF CgbSound, Goes
<1>3. PICK quiet \in SUBSET {c \in Chans \ Direct : chans[c].stop} :
        chans' = [c \in Chans |->
          CASE c \in quiet -> Silent(chans[c])
            [] c \in Chans \ (Direct \cup quiet) /\ chans[c].phase = "start" ->
                 [chans[c] EXCEPT !.phase = "sustain"]
            [] OTHER -> chans[c]]
  BY DEF CgbSound
<1>4. ASSUME NEW c \in Chans
      PROVE  chans'[c] \in Channel /\ Quieter(chans[c], chans'[c]) /\ (c \in Direct => Stands(chans'[c]))
  <2>1. PICK a \in Channel : a = chans[c]
    BY <1>1
  <2>2. chans'[c] = CASE c \in quiet -> Silent(a)
                      [] c \in Chans \ (Direct \cup quiet) /\ a.phase = "start" -> [a EXCEPT !.phase = "sustain"]
                      [] OTHER -> a
    BY <1>3, <2>1
  <2>3. c \in Direct => Stands(a)
    BY <1>1, <2>1 DEF Sound, Standing
  <2>4. CASE c \in quiet
    <3>1. chans'[c] = Silent(a)
      BY <2>2, <2>4
    <3> QED
      BY <2>1, <3>1, SilentStands
  <2>5. CASE c \notin quiet /\ c \notin Direct /\ a.phase = "start"
    <3>1. chans'[c] = [a EXCEPT !.phase = "sustain"]
      BY <2>2, <2>5
    <3>2. chans'[c] \in Channel
      BY <3>1 DEF Channel, Phases
    <3>3. Quieter(a, chans'[c])
      BY <2>5, <3>1 DEF Channel, Quieter, SameLinks, On
    <3> QED
      BY <2>1, <2>5, <3>2, <3>3
  <2>6. CASE c \notin quiet /\ ~(c \notin Direct /\ a.phase = "start")
    <3>1. chans'[c] = a
      BY <2>2, <2>6
    <3> QED
      BY <2>1, <2>3, <3>1 DEF Quieter, SameLinks
  <2> QED
    BY <2>4, <2>5, <2>6
<1>5. PICK r : r = [tr |-> tracks, ch |-> chans']
  OBVIOUS
<1>6. chans' \in [Chans -> Channel]
  <2>1. PICK f : chans' = [c \in Chans |-> f[c]] /\ \A c \in Chans : f[c] = chans'[c]
    <3>1. chans' = [c \in Chans |-> chans'[c]]
      BY <1>3
    <3> QED
      BY <3>1
  <2> QED
    BY <1>4, <2>1
<1>7. r \in Pairs /\ r.tr = tracks /\ r.ch = chans'
  BY <1>1, <1>5, <1>6 DEF Pairs
<1>8. Sound(r)
  <2>1. \A c \in Chans : Quieter(State.ch[c], r.ch[c])
    BY <1>1, <1>4, <1>7
  <2>2. \A c \in Direct : Stands(r.ch[c])
    BY <1>4, <1>7, Numbers
  <2> QED
    BY <1>1, <1>7, <2>1, <2>2, QuieterSound
<1>9. Sound(State)'
  BY <1>2, <1>7, <1>8, NowSound
<1>10. Placed'
  <2>1. 1 \in Direct /\ \A t \in Tracks : Unmarked(tracks[t])
    BY <1>2, Numbers DEF MixerInv, Placed
  <2> QED
    BY <1>2, <2>1 DEF Placed
<1>11. InPrograms'
  BY <1>2 DEF MixerInv, InPrograms
<1> QED
  BY <1>9, <1>10, <1>11 DEF MixerInv

(* One channel mixed.                                                      *)
LEMMA RenderKeeps ==
  ASSUME MixerInv, Render
  PROVE  MixerInv'
<1>1. /\ State \in Pairs /\ Sound(State) /\ State.tr = tracks /\ State.ch = chans
      /\ tracks \in [Tracks -> Track] /\ chans \in [Chans -> Channel]
      /\ \A t \in Tracks : Follows(tracks[t], song[t])
  BY Standstill
<1>2. pc = "mix" /\ tracks' = tracks /\ song' = song
  BY DEF Render
<1>3. at \in Direct /\ at \in Chans /\ \A t \in Tracks : Unmarked(tracks[t])
  BY <1>2, Numbers DEF MixerInv, Placed
<1>4. PICK b : b = MixChannel(chans[at])
  OBVIOUS
<1>5. chans' = [chans EXCEPT ![at] = b]
  BY <1>4 DEF Render
<1>6. b \in Channel /\ Quieter(chans[at], b) /\ Stands(b)
  <2>1. chans[at] \in Channel /\ Stands(chans[at])
    BY <1>1, <1>3 DEF Sound, Standing
  <2> QED
    BY <1>4, <2>1, MixedPlays DEF Plays
<1>7. /\ chans' \in [Chans -> Channel] /\ chans'[at] = b
      /\ \A c \in Chans : c # at => chans'[c] = chans[c]
  BY <1>1, <1>3, <1>5, <1>6
<1>8. PICK r : r = [tr |-> tracks, ch |-> chans']
  OBVIOUS
<1>9. r \in Pairs /\ r.tr = tracks /\ r.ch = chans'
  BY <1>1, <1>7, <1>8 DEF Pairs
<1>10. Sound(r)
  <2>1. \A c \in Chans : Quieter(State.ch[c], r.ch[c])
    <3>1. \A a : Quieter(a, a)
      BY DEF Quieter, SameLinks
    <3> QED
      BY <1>1, <1>6, <1>7, <1>9, <3>1
  <2>2. \A c \in Direct : Stands(r.ch[c])
    BY <1>1, <1>6, <1>7, <1>9, Numbers DEF Sound, Standing
  <2> QED
    BY <1>1, <1>9, <2>1, <2>2, QuieterSound
<1>11. Sound(State)'
  BY <1>2, <1>9, <1>10, NowSound
<1>12. Placed'
  <2>1. MaxChans \in Nat /\ at \in 1 .. MaxChans /\ Direct = 1 .. MaxChans
    BY <1>3, Numbers
  <2>2. CASE at = MaxChans
    <3>1. pc' = "idle"
      BY <2>2 DEF Render, Goes
    <3> QED
      BY <1>2, <1>3, <3>1 DEF Placed
  <2>3. CASE at # MaxChans
    <3>1. pc' = "mix" /\ at' = at + 1
      BY <2>3 DEF Render, Goes
    <3>2. at + 1 \in Direct
      BY <2>1, <2>3
    <3> QED
      BY <1>2, <1>3, <3>1, <3>2 DEF Placed
  <2> QED
    BY <2>2, <2>3
<1>13. InPrograms'
  BY <1>2 DEF MixerInv, InPrograms
<1> QED
  BY <1>11, <1>12, <1>13 DEF MixerInv

(* Every note cut off and every list empty.                                *)
LEMMA NowStopped ==
  ASSUME MixerInv, pc = "idle", NEW s, s = Stopped
  PROVE  /\ s \in Pairs /\ Sound(s)
         /\ \A t \in Tracks : SameTrack(tracks[t], s.tr[t]) /\ Unmarked(s.tr[t])
         /\ \A c \in Chans : s.ch[c].track = 0
<1>1. State \in Pairs /\ Sound(State) /\ State.tr = tracks
  BY Standstill
<1>2. \A t \in Tracks : Unmarked(tracks[t])
  BY DEF MixerInv, Placed
<1>3. /\ s \in Pairs /\ Sound(s) /\ \A t \in Tracks : SameTrack(tracks[t], s.tr[t])
      /\ \A c \in Chans : s.ch[c].track = 0
  BY <1>1, StoppedSound
<1> QED
  BY <1>2, <1>3, SamePlaces

(* The player stopped.                                                     *)
LEMMA MPlayStopKeeps ==
  ASSUME MixerInv, MPlayStop
  PROVE  MixerInv'
<1>1. pc = "idle" /\ pc' = pc /\ at' = at /\ song' = song /\ active' = active
  BY DEF MPlayStop
<1>2. PICK s : s = Stopped
  OBVIOUS
<1>3. tracks' = s.tr /\ chans' = s.ch
  BY <1>2 DEF MPlayStop, Becomes
<1>4. /\ s \in Pairs /\ Sound(s)
      /\ \A t \in Tracks : SameTrack(tracks[t], s.tr[t]) /\ Unmarked(s.tr[t])
  BY <1>1, <1>2, NowStopped
<1>5. Sound(State)'
  BY <1>3, <1>4, NowSound
<1>6. Placed'
  BY <1>1, <1>3, <1>4 DEF Placed
<1>7. InPrograms'
  <2>1. \A t \in Tracks : SamePlace(tracks[t], s.tr[t]) /\ Follows(tracks[t], song[t])
    BY <1>4, SamePlaces DEF MixerInv, InPrograms
  <2>2. \A t \in Tracks : Follows(tracks'[t], song'[t])
    BY <1>1, <1>3, <2>1, FollowsOn
  <2> QED
    BY <2>2 DEF InPrograms
<1> QED
  BY <1>5, <1>6, <1>7 DEF MixerInv


(* A structure without a note in it.                                       *)
LEMMA EmptySound ==
  ASSUME NEW r \in Pairs, \A c \in Chans : r.ch[c].track = 0, \A t \in Tracks : r.tr[t].chan = 0,
         \A c \in Direct : Stands(r.ch[c]), \A t \in Tracks : Unmarked(r.tr[t])
  PROVE  Sound(r)
<1>1. PICK L : L = [t \in Tracks |-> <<>>]
  OBVIOUS
<1>2. L \in [Tracks -> Seq(Chans)] /\ \A t \in Tracks : L[t] = <<>> /\ DOMAIN L[t] = {}
  BY <1>1
<1>3. Listed(L, r.tr, r.ch)
  BY <1>2 DEF Listed
<1>4. Orderly(r)
  BY <1>3 DEF Orderly
<1> QED
  BY <1>4 DEF Sound, Owned, AsSet, Standing

(* Without a channel that names it a track has no list.                    *)
LEMMA NoNotes ==
  ASSUME NEW s, Sound(s), \A c \in Chans : s.ch[c].track = 0, NEW t \in Tracks
  PROVE  s.tr[t].chan = 0
<1>1. PICK L : Listed(L, s.tr, s.ch)
  BY DEF Sound, Orderly
<1>2. L[t] \in Seq(Chans) /\ s.tr[t].chan = IF L[t] = <<>> THEN 0 ELSE L[t][1]
  BY <1>1 DEF Listed
<1>3. CASE L[t] # <<>>
  <2>1. 1 \in DOMAIN L[t] /\ L[t][1] \in Chans
    BY <1>2, <1>3
  <2>2. s.ch[L[t][1]].track = t
    BY <1>1, <2>1 DEF Listed
  <2> QED
    BY <2>1, <2>2, Numbers
<1> QED
  BY <1>2, <1>3

(* The player is paused.                                                   *)
LEMMA SkippedKeeps ==
  ASSUME MixerInv, pc = "idle", song' = song, Skipped
  PROVE  MixerInv'
<1>1. tracks' = tracks /\ chans' = chans /\ pc' = "cgb"
  BY DEF Skipped, Goes
<1>2. Placed'
  BY <1>1 DEF MixerInv, Placed
<1> QED
  BY <1>1, <1>2, OnlyGoes DEF MixerInv

(* The end of a fade: every note is cut off, and the tracks may be ended   *)
(* with them.                                                              *)
LEMMA FadedOutKeeps ==
  ASSUME MixerInv, pc = "idle", song' = song, FadedOut
  PROVE  MixerInv'
<1>1. pc' = "cgb"
  BY DEF FadedOut, Goes
<1>2. PICK s : s = Stopped
  OBVIOUS
<1>3. /\ s \in Pairs /\ Sound(s)
      /\ \A t \in Tracks : SameTrack(tracks[t], s.tr[t]) /\ Unmarked(s.tr[t])
      /\ \A c \in Chans : s.ch[c].track = 0
  BY <1>2, NowStopped
<1>4. s.tr \in [Tracks -> Track] /\ s.ch \in [Chans -> Channel]
  BY <1>3, LinkTypes
<1>5. PICK ends : ends = [t \in Tracks |-> Ended(s.tr[t])]
  OBVIOUS
<1>6. PICK r : r = [tr |-> ends, ch |-> s.ch]
  OBVIOUS
<1>7. ASSUME NEW t \in Tracks
      PROVE  /\ ends[t] \in Track /\ ends[t].chan = 0 /\ Unmarked(ends[t])
             /\ ~ends[t].exist /\ ends[t].pos = s.tr[t].pos
  <2>1. s.tr[t].chan = 0
    BY <1>3, <1>4, NoNotes
  <2>2. PICK a \in Track : a = s.tr[t]
    BY <1>4
  <2>3. PICK k : k = [a EXCEPT !.vlchg = FALSE, !.ptchg = FALSE]
    OBVIOUS
  <2>4. k \in Track /\ k.chan = a.chan /\ ~k.vlchg /\ ~k.ptchg /\ k.pos = a.pos
    BY <2>3 DEF Track
  <2>5. PICK e : e = [k EXCEPT !.exist = FALSE, !.start = FALSE]
    OBVIOUS
  <2>6. e \in Track /\ e.chan = k.chan /\ Unmarked(e) /\ ~e.exist /\ e.pos = k.pos
    BY <2>4, <2>5 DEF Track, Unmarked
  <2>7. ends[t] = e
    BY <1>5, <2>2, <2>3, <2>5 DEF Ended, Clean
  <2> QED
    BY <2>1, <2>2, <2>4, <2>6, <2>7, Zenon
<1>8. r \in Pairs /\ r.tr = ends /\ r.ch = s.ch
  <2>1. ends \in [Tracks -> Track]
    BY <1>5, <1>7
  <2> QED
    BY <1>4, <1>6, <2>1 DEF Pairs
<1>9. Sound(r)
  <2>1. \A c \in Direct : Stands(s.ch[c])
    BY <1>3 DEF Sound, Standing
  <2> QED
    BY <1>3, <1>7, <1>8, <2>1, EmptySound
<1>10. \/ tracks' = s.tr /\ chans' = s.ch
       \/ tracks' = r.tr /\ chans' = r.ch
  BY <1>2, <1>5, <1>6, <1>8 DEF FadedOut, Becomes
<1>11. Sound(State)'
  BY <1>3, <1>8, <1>9, <1>10, NowSound
<1>12. \A t \in Tracks : Unmarked(tracks'[t])
  BY <1>3, <1>7, <1>8, <1>10
<1>13. Placed'
  <2>1. \A t \in Tracks : Unmarked(tracks[t])'
    BY <1>12 DEF Unmarked
  <2> QED
    BY <1>1, <2>1 DEF Placed
<1>14. InPrograms'
  <2>1. ASSUME NEW t \in Tracks PROVE Follows(tracks'[t], song'[t])
    <3>1. SamePlace(tracks[t], s.tr[t]) /\ Follows(tracks[t], song[t])
      BY <1>3, SamePlaces DEF MixerInv, InPrograms
    <3>2. Follows(s.tr[t], song[t])
      BY <3>1, FollowsOn
    <3>3. Follows(ends[t], song[t])
      BY <1>7, <3>2 DEF Follows
    <3> QED
      BY <1>8, <1>10, <3>2, <3>3
  <2> QED
    BY <2>1 DEF InPrograms
<1> QED
  BY <1>11, <1>13, <1>14 DEF MixerInv

(* A step of a fade marks the tracks it turns down.                        *)
LEMMA TurnedSound ==
  ASSUME MixerInv, NEW x \in 0 .. FullVolX, NEW turned, turned = Turned(x)
  PROVE  /\ turned \in [Tracks -> Track]
         /\ Sound([tr |-> turned, ch |-> chans])
         /\ \A t \in Tracks : SamePlace(tracks[t], turned[t])
<1>1. /\ State \in Pairs /\ Sound(State) /\ State.tr = tracks /\ State.ch = chans
      /\ tracks \in [Tracks -> Track] /\ chans \in [Chans -> Channel]
  BY Standstill
<1>2. x \in Nat
  BY MixerAssumption
<1>3. ASSUME NEW t \in Tracks
      PROVE  /\ turned[t] \in Track /\ SamePlace(tracks[t], turned[t]) /\ turned[t].chan = tracks[t].chan
             /\ turned[t].ptchg = tracks[t].ptchg /\ PitchOf(turned[t]) = PitchOf(tracks[t])
             /\ tracks[t].exist => turned[t].vlchg
             /\ ~tracks[t].exist => turned[t] = tracks[t]
  <2>1. PICK a \in Track : a = tracks[t]
    BY <1>1
  <2>2. turned[t] = IF a.exist THEN [a EXCEPT !.volX = x, !.vlchg = TRUE] ELSE a
    BY <2>1 DEF Turned
  <2>3. PICK b : b = [a EXCEPT !.volX = x, !.vlchg = TRUE]
    OBVIOUS
  <2>4. b \in Track
    BY <1>2, <2>3 DEF Track
  <2>5. /\ b.chan = a.chan /\ SamePlace(a, b) /\ b.vlchg /\ b.ptchg = a.ptchg
        /\ b.pit = a.pit /\ b.modT = a.modT /\ b.modM = a.modM
    BY <2>3 DEF Track, SamePlace
  <2>6. PitchOf(b) = PitchOf(a)
    BY <2>5 DEF PitchOf
  <2>7. CASE a.exist
    <3>1. turned[t] = b
      BY <2>2, <2>3, <2>7
    <3> QED
      BY <2>1, <2>4, <2>5, <2>6, <2>7, <3>1, Zenon
  <2>8. CASE ~a.exist
    <3>1. turned[t] = a
      BY <2>2, <2>8
    <3> QED
      BY <2>1, <2>8, <3>1, Zenon DEF SamePlace
  <2> QED
    BY <2>7, <2>8
<1>4. turned \in [Tracks -> Track]
  <2>1. turned = [t \in Tracks |-> turned[t]]
    BY DEF Turned
  <2> QED
    BY <1>3, <2>1
<1>5. PICK r : r = [tr |-> turned, ch |-> chans]
  OBVIOUS
<1>6. r \in Pairs /\ r.tr = turned /\ r.ch = chans
  BY <1>1, <1>4, <1>5 DEF Pairs
<1>7. Orderly(r)
  <2>1. PICK L : Listed(L, tracks, chans)
    BY <1>1 DEF Sound, Orderly
  <2>2. Listed(L, turned, chans)
    BY <1>3, <2>1 DEF Listed
  <2> QED
    BY <1>6, <2>2 DEF Orderly
<1>8. Owned(r)
  BY <1>1, <1>3, <1>6, LinkTypes DEF Sound, Owned, SamePlace
<1>9. AsSet(r)
  <2> SUFFICES ASSUME NEW c \in Chans, chans[c].track # 0
               PROVE  Heard(chans[c], turned[chans[c].track])
    BY <1>6 DEF AsSet
  <2>1. chans[c].track \in Tracks
    BY <1>1, LinkTypes
  <2>2. PICK t \in Tracks : t = chans[c].track
    BY <2>1
  <2>3. tracks[t].exist /\ Heard(chans[c], tracks[t])
    BY <1>1, <2>2 DEF Sound, Owned, AsSet
  <2>4. turned[t].vlchg /\ turned[t].ptchg = tracks[t].ptchg /\ PitchOf(turned[t]) = PitchOf(tracks[t])
    BY <1>3, <2>3
  <2> QED
    BY <2>2, <2>3, <2>4 DEF Heard
<1>10. \A t \in Tracks : ~turned[t].exist => Unmarked(turned[t])
  BY <1>1, <1>3 DEF Sound, SamePlace
<1>11. Standing(r)
  BY <1>1, <1>6 DEF Sound, Standing
<1>12. Sound(r)
  BY <1>6, <1>7, <1>8, <1>9, <1>10, <1>11 DEF Sound
<1> QED
  BY <1>3, <1>4, <1>5, <1>12

(* The frame of a player that goes on.                                     *)
LEMMA SequencedKeeps ==
  ASSUME MixerInv, pc = "idle", song' = song, Sequenced
  PROVE  MixerInv'
<1>1. chans' = chans /\ pc' = "tick"
  BY DEF Sequenced, Goes
<1>2. Placed'
  BY <1>1 DEF Placed
<1>3. CASE tracks' = tracks
  BY <1>1, <1>2, <1>3, OnlyGoes DEF MixerInv
<1>4. ASSUME NEW x \in 0 .. FullVolX, tracks' = Turned(x)
      PROVE  MixerInv'
  <2>1. PICK turned : turned = Turned(x)
    OBVIOUS
  <2>2. PICK r : r = [tr |-> turned, ch |-> chans]
    OBVIOUS
  <2>3. Sound(r) /\ r.tr = turned /\ r.ch = chans
    BY <2>1, <2>2, TurnedSound
  <2>4. r \in Pairs
    BY <2>3 DEF Sound, Orderly
  <2>5. Sound(State)'
    BY <1>1, <1>4, <2>1, <2>3, <2>4, NowSound
  <2>6. ASSUME NEW t \in Tracks PROVE Follows(tracks'[t], song'[t])
    <3>1. SamePlace(tracks[t], turned[t]) /\ Follows(tracks[t], song[t])
      BY <2>1, TurnedSound DEF MixerInv, InPrograms
    <3> QED
      BY <1>4, <2>1, <3>1, FollowsOn
  <2> QED
    BY <1>2, <2>5, <2>6 DEF MixerInv, InPrograms
<1> QED
  BY <1>3, <1>4 DEF Sequenced

(* SoundMain is called.                                                    *)
LEMMA StartOfFrame ==
  ASSUME MixerInv, SoundMain
  PROVE  MixerInv'
BY SkippedKeeps, FadedOutKeeps, SequencedKeeps DEF SoundMain

(* A song started: the notes are cut off, and every track that has a       *)
(* program is at its first command.                                        *)
LEMMA MPlayStartKeeps ==
  ASSUME MixerInv, MPlayStart
  PROVE  MixerInv'
<1>1. pc = "idle" /\ pc' = pc /\ at' = at
  BY DEF MPlayStart
<1>2. PICK s : s = Stopped
  OBVIOUS
<1>3. PICK prog \in Songs :
        /\ song' = prog
        /\ Becomes([tr |-> [t \in Tracks |->
                             [s.tr[t] EXCEPT !.exist = (prog[t] # <<>>), !.start = (prog[t] # <<>>),
                                             !.chan = 0, !.pos = 1]],
                    ch |-> s.ch])
  BY <1>2 DEF MPlayStart
<1>4. /\ s \in Pairs /\ Sound(s)
      /\ \A t \in Tracks : SameTrack(tracks[t], s.tr[t]) /\ Unmarked(s.tr[t])
      /\ \A c \in Chans : s.ch[c].track = 0
  BY <1>1, <1>2, NowStopped
<1>5. s.tr \in [Tracks -> Track] /\ s.ch \in [Chans -> Channel]
  BY <1>4, LinkTypes
<1>6. PICK plays \in [Tracks -> BOOLEAN] : \A t \in Tracks : plays[t] = (prog[t] # <<>>)
  <2>1. [t \in Tracks |-> prog[t] # <<>>] \in [Tracks -> BOOLEAN]
    OBVIOUS
  <2> QED
    BY <2>1
<1>7. PICK trs : trs = [t \in Tracks |->
                         [s.tr[t] EXCEPT !.exist = plays[t], !.start = plays[t], !.chan = 0, !.pos = 1]]
  OBVIOUS
<1>8. [t \in Tracks |-> [s.tr[t] EXCEPT !.exist = (prog[t] # <<>>), !.start = (prog[t] # <<>>),
                                        !.chan = 0, !.pos = 1]] = trs
  <2>1. \A t \in Tracks :
          [s.tr[t] EXCEPT !.exist = (prog[t] # <<>>), !.start = (prog[t] # <<>>), !.chan = 0, !.pos = 1]
            = [s.tr[t] EXCEPT !.exist = plays[t], !.start = plays[t], !.chan = 0, !.pos = 1]
    BY <1>6
  <2> QED
    BY <1>7, <2>1
<1>9. ASSUME NEW t \in Tracks
      PROVE  /\ trs[t] \in Track /\ trs[t].exist = plays[t] /\ trs[t].start = plays[t]
             /\ trs[t].chan = 0 /\ trs[t].pos = 1 /\ Unmarked(trs[t])
  <2>1. PICK a \in Track, p \in BOOLEAN, one \in Nat, none \in Chans \cup {0} :
          a = s.tr[t] /\ p = plays[t] /\ one = 1 /\ none = 0
    BY <1>5, <1>6
  <2>2. trs[t] = [a EXCEPT !.exist = p, !.start = p, !.chan = none, !.pos = one]
    BY <1>7, <2>1
  <2>3. trs[t] \in Track
    <3>1. PICK b : b = [a EXCEPT !.exist = p, !.start = p]
      OBVIOUS
    <3>2. b \in Track
      BY <3>1, ZenonT(40) DEF Track
    <3>3. trs[t] = [b EXCEPT !.chan = none, !.pos = one]
      BY <2>2, <3>1
    <3> QED
      BY <3>2, <3>3, ZenonT(40) DEF Track
  <2>4. /\ trs[t].exist = p /\ trs[t].start = p /\ trs[t].chan = none /\ trs[t].pos = one
        /\ trs[t].vlchg = a.vlchg /\ trs[t].ptchg = a.ptchg
    BY <2>2 DEF Track
  <2>5. Unmarked(a)
    BY <1>4, <2>1
  <2> QED
    BY <2>1, <2>3, <2>4, <2>5 DEF Unmarked
<1>10. PICK r : r = [tr |-> trs, ch |-> s.ch]
  OBVIOUS
<1>11. r \in Pairs /\ r.tr = trs /\ r.ch = s.ch
  <2>1. trs \in [Tracks -> Track]
    <3>1. trs = [t \in Tracks |-> trs[t]]
      BY <1>7
    <3> QED
      BY <1>9, <3>1
  <2> QED
    BY <1>5, <1>10, <2>1 DEF Pairs
<1>12. tracks' = r.tr /\ chans' = r.ch
  BY <1>3, <1>8, <1>11 DEF Becomes
<1>13. Sound(r)
  <2>1. \A c \in Direct : Stands(r.ch[c])
    BY <1>4, <1>11 DEF Sound, Standing
  <2> QED
    BY <1>4, <1>9, <1>11, <2>1, EmptySound
<1>14. Sound(State)'
  BY <1>11, <1>12, <1>13, NowSound
<1>15. Placed'
  BY <1>1, <1>9, <1>11, <1>12 DEF Placed
<1>16. InPrograms'
  <2>1. ASSUME NEW t \in Tracks PROVE Follows(trs[t], prog[t])
    <3>1. PICK q : q = prog[t]
      OBVIOUS
    <3>2. q \in Seq(Commands(Len(q))) /\ (q # <<>> => q[Len(q)].op \in {"goto", "fine"})
      BY <3>1, SongsAssumption
    <3>3. q # <<>> => 1 \in DOMAIN q
      BY <3>2
    <3>4. trs[t].exist <=> q # <<>>
      BY <1>6, <1>9, <3>1
    <3>5. trs[t].start = trs[t].exist /\ trs[t].pos = 1
      BY <1>9
    <3> QED
      BY <3>1, <3>2, <3>3, <3>4, <3>5 DEF Follows
  <2>2. \A t \in Tracks : Follows(tracks'[t], song'[t])
    BY <1>3, <1>11, <1>12, <2>1
  <2> QED
    BY <2>2 DEF InPrograms
<1> QED
  BY <1>14, <1>15, <1>16 DEF MixerInv

(* --- the theorems --------------------------------------------------------- *)

(* Nothing plays at the start.                                             *)
LEMMA InitInv ==
  ASSUME Init
  PROVE  MixerInv
<1>1. /\ tracks = [t \in Tracks |-> FreshTrack] /\ chans = [c \in Chans |-> FreshChan]
      /\ song = [t \in Tracks |-> <<>>] /\ pc = "idle"
  BY DEF Init
<1>2. NoVoice \in DOMAIN Voices /\ Voices[NoVoice].kind = "cgb" /\ 0 \in Keys
  BY VoicesAssumption, MixerAssumption DEF Keys
<1>3. <<>> \in Seq(Nat) /\ Voices[NoVoice] \in Tones
  BY <1>2 DEF Tones
<1>4. FreshTrack \in Track
  BY <1>2, <1>3 DEF FreshTrack, Track
<1>5. FreshChan \in Channel
  BY <1>2, <1>3 DEF FreshChan, Channel, Phases
<1>6. State \in Pairs /\ State.tr = tracks /\ State.ch = chans
  BY <1>1, <1>4, <1>5 DEF State, Pairs
<1>7. /\ \A t \in Tracks : tracks[t].chan = 0 /\ Unmarked(tracks[t]) /\ ~tracks[t].exist
      /\ \A c \in Chans : chans[c].track = 0 /\ ~On(chans[c])
  BY <1>1 DEF FreshTrack, FreshChan, Unmarked, On
<1>8. Sound(State)
  <2>1. \A c \in Direct : Stands(State.ch[c])
    BY <1>6, <1>7, Numbers DEF Stands
  <2> QED
    BY <1>6, <1>7, <2>1, EmptySound
<1>9. Placed
  BY <1>1, <1>7 DEF Placed
<1>10. InPrograms
  <2>1. ASSUME NEW t \in Tracks PROVE Follows(tracks[t], song[t])
    <3>1. song[t] = <<>> /\ ~tracks[t].exist
      BY <1>1, <1>7
    <3> QED
      BY <3>1 DEF Follows
  <2> QED
    BY <2>1 DEF InPrograms
<1> QED
  BY <1>8, <1>9, <1>10 DEF MixerInv

(* Every step keeps the invariant.                                         *)
LEMMA MixerStep ==
  ASSUME MixerInv, [Next]_vars
  PROVE  MixerInv'
<1>1. CASE UNCHANGED vars
  BY <1>1 DEF vars, MixerInv, State, Sound, Orderly, Owned, AsSet, Standing, Placed, InPrograms
<1>2. CASE Next
  <2>1. CASE Frame
    BY <2>1, StartOfFrame, TickKeeps, GatesKeeps, CommandStep, RestedKeeps, PushKeeps, CgbSoundKeeps, RenderKeeps
    DEF Frame
  <2> QED
    BY <1>2, <2>1, MPlayStartKeeps, MPlayStopKeeps DEF Next
<1> QED
  BY <1>1, <1>2

(* The invariant everything below follows from: the lists are whole, what  *)
(* sounds belongs to a track that plays and is as that track is set or     *)
(* marked to be, the walks stand inside their samples, and every track is  *)
(* at a command of its program.                                            *)
THEOREM MixerInvariant == Spec => []MixerInv
<1>1. Init => MixerInv
  BY InitInv
<1>2. MixerInv /\ [Next]_vars => MixerInv'
  BY MixerStep
<1> QED
  BY <1>1, <1>2, PTL DEF Spec

(* The list of a track is exactly the channels that name it, once each,    *)
(* and reads the same backwards: whatever notes are struck, stolen, cut,   *)
(* released or left by their track (RealClearChain, ply_note, ply_fine,    *)
(* MPlayMain).                                                             *)
THEOREM ListsAreWhole == Spec => []ChainIntegrity
<1>1. ASSUME MixerInv PROVE ChainIntegrity
  <2> SUFFICES ASSUME NEW t \in Tracks, NEW notes, notes = Chain(t)
               PROVE  /\ \A c \in Chans : chans[c].track = t <=> c \in ToSet(notes)
                      /\ \A i, j \in DOMAIN notes : i # j => notes[i] # notes[j]
                      /\ \A i \in DOMAIN notes : chans[notes[i]].pp = IF i = 1 THEN 0 ELSE notes[i - 1]
    BY DEF ChainIntegrity
  <2>1. PICK s \in Pairs : Orderly(s) /\ s.tr = tracks /\ s.ch = chans
    BY <1>1, Standstill DEF Sound
  <2>2. notes = ChainFrom(s.ch, s.tr[t].chan)
    BY <2>1 DEF Chain
  <2>3. \A c \in Chans : s.ch[c].track = t <=> c \in ToSet(notes)
    BY <2>1, <2>2, ChainHolds
  <2>4. ASSUME NEW i \in DOMAIN notes, NEW j \in DOMAIN notes, i # j
        PROVE  notes[i] # notes[j]
    <3>1. PICK L : Listed(L, s.tr, s.ch)
      BY <2>1 DEF Orderly
    <3>2. notes = L[t]
      BY <2>2, <3>1, ChainIsTheList
    <3> QED
      BY <2>4, <3>1, <3>2 DEF Listed
  <2>5. \A i \in DOMAIN notes : s.ch[notes[i]].pp = IF i = 1 THEN 0 ELSE notes[i - 1]
    BY <2>1, <2>2, ChainHolds
  <2> QED
    BY <2>1, <2>3, <2>4, <2>5
<1> QED
  BY <1>1, MixerInvariant, PTL

(* A note takes a free channel if there is one, else the least of those    *)
(* being released, else the least of all, and that one only if it does not *)
(* outrank the note: the search of ply_note finds what it looks for.       *)
THEOREM LeastIsTaken == Spec => []LeastHeardIsTaken
<1>1. ASSUME MixerInv PROVE LeastHeardIsTaken
  BY <1>1, Standstill, ChoiceIsLeast
<1> QED
  BY <1>1, MixerInvariant, PTL

(* A track that has ended or was stopped leaves no note that names it.     *)
THEOREM EndedHoldNothing == Spec => []EndedTracksHoldNothing
<1>1. ASSUME MixerInv PROVE EndedTracksHoldNothing
  BY <1>1, Standstill DEF Sound, Owned, EndedTracksHoldNothing
<1> QED
  BY <1>1, MixerInvariant, PTL

(* Between frames every note sounds as its track is set, unless a newer    *)
(* note took the marks away from it: the second pass misses none.          *)
THEOREM SoundsAsSet == Spec => []NotesSoundAsSet
<1>1. ASSUME MixerInv PROVE NotesSoundAsSet
  <2> SUFFICES ASSUME pc = "idle", NEW c \in Chans, On(chans[c]), chans[c].track # 0, ~chans[c].stale
               PROVE  /\ chans[c].vol = VolumeOf(tracks[chans[c].track])
                      /\ chans[c].pit = PitchOf(tracks[chans[c].track])
    BY DEF NotesSoundAsSet
  <2>1. State.tr = tracks /\ State.ch = chans /\ Sound(State) /\ chans[c] \in Channel
    BY <1>1, Standstill
  <2>2. chans[c].track \in Tracks
    BY <2>1, LinkTypes
  <2>3. Heard(chans[c], tracks[chans[c].track])
    BY <2>1 DEF Sound, AsSet
  <2>4. Unmarked(tracks[chans[c].track])
    BY <1>1, <2>2 DEF MixerInv, Placed
  <2> QED
    BY <2>3, <2>4 DEF Heard, Unmarked
<1> QED
  BY <1>1, MixerInvariant, PTL

(* The position in a sample and what is left of it always add up, and no   *)
(* frame of output reads further than the byte after the last, however far *)
(* a step goes past the end and however often the loop is gone through.    *)
THEOREM StaysInside == Spec => []InsideTheSample
<1>1. ASSUME MixerInv PROVE InsideTheSample
  <2>1. \A c \in Direct : chans[c] \in Channel /\ Stands(chans[c])
    BY <1>1, Standstill, Numbers DEF Sound, Standing
  <2>2. ASSUME NEW c \in Direct, On(chans[c]), chans[c].phase # "start"
        PROVE  /\ chans[c].pos + chans[c].remain = chans[c].tone.size
               /\ chans[c].pos \in 0 .. chans[c].tone.size - 1
    <3>1. PICK size \in Nat : size = chans[c].tone.size
      BY <2>1, ToneTypes DEF Channel
    <3>2. PICK remain \in 1 .. size : remain = chans[c].remain /\ chans[c].pos = size - remain
      BY <2>1, <2>2, <3>1 DEF Stands
    <3> QED
      BY <3>1, <3>2
  <2>3. pc = "mix" => BlockReads(chans[at]) \subseteq 0 .. chans[at].tone.size
    <3>1. pc = "mix" => at \in Direct
      BY <1>1 DEF MixerInv, Placed
    <3> QED
      BY <2>1, <3>1, ReadsInside
  <2> QED
    BY <2>2, <2>3 DEF InsideTheSample
<1> QED
  BY <1>1, MixerInvariant, PTL

=============================================================================
