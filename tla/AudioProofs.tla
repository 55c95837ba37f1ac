----------------------------- MODULE AudioProofs ----------------------------
(***************************************************************************)
(* What the ring of native/audio_sdl.c promises to two threads without a   *)
(* lock, for a ring, a block, a chunk and counters of any size: Audio.tla, *)
(* proved.                                                                 *)
(***************************************************************************)
EXTENDS Audio, TLAPS

(* --- arithmetic --------------------------------------------------------- *)

(* Dividing by a positive number. *)
LEMMA DivMod ==
  ASSUME NEW x \in Int, NEW m \in Nat \ {0}
  PROVE  /\ x % m \in Int /\ 0 <= x % m /\ x % m < m
         /\ x \div m \in Int /\ x = m * (x \div m) + (x % m)
OBVIOUS

(* Multiples of a number are at least that number apart. *)
LEMMA MultiplesApart ==
  ASSUME NEW a \in Int, NEW b \in Int, NEW m \in Nat \ {0}, a < b
  PROVE  m * a + m <= m * b
<1>1. PICK d \in Nat : b = a + 1 + d
  <2>1. b - a - 1 \in Nat /\ b = a + 1 + (b - a - 1)
    OBVIOUS
  <2> QED
    BY <2>1
<1>2. m * b = m * a + m + m * d
  BY <1>1
<1>3. m * d \in Nat
  BY <1>1
<1>4. m * a \in Int
  OBVIOUS
<1> QED
  BY <1>2, <1>3, <1>4

(* Quotient and remainder are the only ones. *)
LEMMA OneRemainder ==
  ASSUME NEW m \in Nat \ {0}, NEW q \in Int, NEW p \in Int, NEW r \in Int, NEW s \in Int,
         0 <= r, r < m, 0 <= s, s < m, m * q + r = m * p + s
  PROVE  q = p /\ r = s
<1>1. m * q \in Int /\ m * p \in Int
  OBVIOUS
<1>2. ~(q < p)
  <2> SUFFICES ASSUME q < p PROVE FALSE
    OBVIOUS
  <2>1. m * q + m <= m * p
    BY MultiplesApart
  <2> QED
    BY <1>1, <2>1
<1>3. ~(p < q)
  <2> SUFFICES ASSUME p < q PROVE FALSE
    OBVIOUS
  <2>1. m * p + m <= m * q
    BY MultiplesApart
  <2> QED
    BY <1>1, <2>1
<1>4. q = p
  BY <1>2, <1>3
<1> QED
  BY <1>1, <1>4

(* Numbers a multiple apart leave the same remainder. *)
LEMMA SameRemainder ==
  ASSUME NEW m \in Nat \ {0}, NEW x \in Int, NEW y \in Int, NEW k \in Int, x = y + m * k
  PROVE  x % m = y % m
<1> DEFINE a == x \div m
           b == y \div m
           r == x % m
           s == y % m
<1>1. /\ a \in Int /\ b \in Int /\ r \in Int /\ s \in Int
      /\ 0 <= r /\ r < m /\ 0 <= s /\ s < m
      /\ x = m * a + r /\ y = m * b + s
  BY DivMod
<1> HIDE DEF a, b, r, s
<1>2. m * (b + k) = m * b + m * k /\ b + k \in Int
  BY <1>1
<1>3. m * a \in Int /\ m * b \in Int /\ m * k \in Int
  BY <1>1
<1>4. m * a + r = m * (b + k) + s
  BY <1>1, <1>2, <1>3
<1> DEFINE c == b + k
<1>5. c \in Int /\ m * a + r = m * c + s
  BY <1>2, <1>4
<1> HIDE DEF c
<1>6. r = s
  BY <1>1, <1>5, OneRemainder
<1> QED
  BY <1>6 DEF r, s

(* A number less than the divisor is its own remainder. *)
LEMMA SmallRemainder ==
  ASSUME NEW m \in Nat \ {0}, NEW x \in Int, 0 <= x, x < m
  PROVE  x % m = x
<1>1. /\ x % m \in Int /\ 0 <= x % m /\ x % m < m /\ x \div m \in Int
      /\ x = m * (x \div m) + (x % m)
  BY DivMod
<1>2. m * 0 + x = m * (x \div m) + (x % m)
  BY <1>1
<1> QED
  BY <1>1, <1>2, OneRemainder

(* Numbers less than the divisor apart leave different remainders. *)
LEMMA SlotsDiffer ==
  ASSUME NEW m \in Nat \ {0}, NEW x \in Int, NEW y \in Int, x < y, y < x + m
  PROVE  x % m # y % m
<1> DEFINE a == x \div m
           b == y \div m
           r == x % m
<1>1. /\ a \in Int /\ b \in Int /\ r \in Int
      /\ 0 <= r /\ r < m /\ x = m * a + r /\ y = m * b + (y % m)
  BY DivMod
<1> SUFFICES ASSUME r = y % m PROVE FALSE
  BY DEF r
<1>2. y = m * b + r
  BY <1>1
<1> HIDE DEF a, b, r
<1>3. m * a \in Int /\ m * b \in Int
  BY <1>1
<1>4. CASE a < b
  <2>1. m * a + m <= m * b
    BY <1>1, <1>4, MultiplesApart
  <2> QED
    BY <1>1, <1>2, <1>3, <2>1
<1>5. CASE b < a
  <2>1. m * b + m <= m * a
    BY <1>1, <1>5, MultiplesApart
  <2> QED
    BY <1>1, <1>2, <1>3, <2>1
<1>6. CASE a = b
  BY <1>1, <1>2, <1>6
<1> QED
  BY <1>1, <1>4, <1>5, <1>6

(* The lesser of two numbers. *)
LEMMA LesserOfTwo ==
  ASSUME NEW a \in Int, NEW b \in Int
  PROVE  Min({a, b}) \in {a, b} /\ Min({a, b}) <= a /\ Min({a, b}) <= b
<1>1. \E x \in {a, b} : \A y \in {a, b} : x <= y
  OBVIOUS
<1> QED
  BY <1>1 DEF Min

(* And the greater. *)
LEMMA GreaterOfTwo ==
  ASSUME NEW a \in Int, NEW b \in Int
  PROVE  Max({a, b}) \in {a, b} /\ Max({a, b}) >= a /\ Max({a, b}) >= b
<1>1. \E x \in {a, b} : \A y \in {a, b} : x >= y
  OBVIOUS
<1> QED
  BY <1>1 DEF Max

(* --- the counters of the ring ------------------------------------------- *)

(* The sizes the proofs use, of those that are assumed. *)
LEMMA Sizes ==
  /\ Cap \in Nat \ {0} /\ Wrap \in Nat \ {0} /\ Chunk \in Nat \ {0} /\ Wrap % Cap = 0 /\ Cap < Wrap
  /\ Nominal \in Nat \ {0} /\ Gentle \in Nat \ {0} /\ Part \in Nat \ {0} /\ MaxBlock \in Nat \ {0}
BY AudioAssumption

(* A counter that starts over, moved on, is where one that never does      *)
(* would be: in the counters' range, and in the ring.                      *)
LEMMA AsCounted ==
  ASSUME NEW n \in Int, NEW c \in Int
  PROVE  /\ n % Wrap \in Int
         /\ ((n % Wrap) + c) % Wrap = (n + c) % Wrap
         /\ ((n % Wrap) + c) % Cap = (n + c) % Cap
<1>1. Cap \in Nat \ {0} /\ Wrap \in Nat \ {0} /\ Wrap % Cap = 0
  BY Sizes
<1>2. PICK r \in Int, q \in Int : r = n % Wrap /\ n = Wrap * q + r
  <2>1. n % Wrap \in Int /\ n \div Wrap \in Int /\ n = Wrap * (n \div Wrap) + (n % Wrap)
    BY <1>1, DivMod
  <2> QED
    BY <2>1
<1>3. PICK w \in Int : Wrap = Cap * w
  <2>1. Wrap \div Cap \in Int /\ Wrap = Cap * (Wrap \div Cap) + (Wrap % Cap)
    BY <1>1, DivMod
  <2>2. Cap * (Wrap \div Cap) \in Int
    BY <1>1, <2>1
  <2>3. Wrap = Cap * (Wrap \div Cap)
    BY <1>1, <2>1, <2>2
  <2> QED
    BY <2>1, <2>3
<1> DEFINE x == n + c
           y == r + c
<1> HIDE DEF x, y
<1>4. x % Wrap = y % Wrap
  <2>1. Wrap * q \in Int
    BY <1>1
  <2>2. x \in Int /\ y \in Int /\ x = y + Wrap * q
    BY <1>2, <2>1 DEF x, y
  <2> QED
    BY <1>1, <2>2, SameRemainder
<1>5. x % Cap = y % Cap
  <2> DEFINE t == w * q
  <2>1. t \in Int /\ Wrap * q = Cap * t
    BY <1>1, <1>3
  <2> HIDE DEF t
  <2>2. Cap * t \in Int
    BY <1>1, <2>1
  <2>3. x \in Int /\ y \in Int /\ x = y + Cap * t
    BY <1>2, <2>1, <2>2 DEF x, y
  <2> QED
    BY <1>1, <2>1, <2>3, SameRemainder
<1> QED
  BY <1>2, <1>4, <1>5 DEF x, y

(* What the difference of the counters counts, unless it is more than the  *)
(* ring holds: over the wrap of either.                                    *)
LEMMA Between ==
  ASSUME NEW R \in Nat, NEW W \in Nat, R <= W, W <= R + Cap
  PROVE  ((W % Wrap) - (R % Wrap)) % Wrap = W - R
<1>1. Cap \in Nat /\ Wrap \in Nat \ {0} /\ Cap < Wrap
  BY Sizes
<1>2. PICK r \in Int, q \in Int : r = R % Wrap /\ R = Wrap * q + r
  <2>1. R % Wrap \in Int /\ R \div Wrap \in Int /\ R = Wrap * (R \div Wrap) + (R % Wrap)
    BY <1>1, DivMod
  <2> QED
    BY <2>1
<1>3. PICK s \in Int, p \in Int : s = W % Wrap /\ W = Wrap * p + s
  <2>1. W % Wrap \in Int /\ W \div Wrap \in Int /\ W = Wrap * (W \div Wrap) + (W % Wrap)
    BY <1>1, DivMod
  <2> QED
    BY <2>1
<1>4. (W - R) % Wrap = W - R
  BY <1>1, SmallRemainder
<1>5. Wrap * q \in Int /\ Wrap * p \in Int /\ Wrap * (p - q) = Wrap * p - Wrap * q /\ p - q \in Int
  BY <1>1
<1>6. W - R \in Int /\ s - r \in Int /\ W - R = (s - r) + Wrap * (p - q)
  BY <1>2, <1>3, <1>5
<1>7. (W - R) % Wrap = (s - r) % Wrap
  BY <1>1, <1>5, <1>6, SameRemainder
<1> QED
  BY <1>2, <1>3, <1>4, <1>7

(* --- the ring ----------------------------------------------------------- *)

(* The types of what a block passes through on its way into the ring, and  *)
(* where each thread may be.                                               *)
NativeType ==
  /\ ready
  /\ block \in Nat /\ blockLen \in Nat /\ stage \in Nat /\ count \in Nat /\ copied \in Nat
  /\ (IF phase = "copy" THEN copied <= count ELSE copied = 0)
  /\ ring \in [0 .. Cap - 1 -> Int]
  /\ drain \in [busy : BOOLEAN, take : Nat, at : Nat]
  /\ drain.at <= drain.take /\ (~drain.busy => drain = Idle)

(* The counters are those of R samples given back and W published, which   *)
(* never start over.  What is taken has been published; what is copied,    *)
(* and to be copied, fits; every sample in between is in its place; and    *)
(* the one heard last is the one before the one taken next.                *)
Counted(R, W) ==
  /\ rd = R % Wrap /\ wr = W % Wrap
  /\ R + drain.take <= W
  /\ W + copied <= R + Cap /\ (phase = "copy" => W + count <= R + Cap)
  /\ \A k \in R .. W + copied - 1 : ring[k % Cap] = k % Wrap
  /\ heard = (R + drain.at - 1) % Wrap

RingInOrder ==
  /\ host # "sdl" => drain = Idle
  /\ host = "sdl" => NativeType /\ \E R, W \in Nat : Counted(R, W)

(* The block chosen is never empty. *)
LEMMA BlockType ==
  ASSUME NEW queued \in Int
  PROVE  Within(Nominal + Nudge(queued), 1, MaxBlock) \in Nat
<1>1. \A n \in Int, by \in Nat \ {0} : Quotient(n, by) \in Int
  <2> SUFFICES ASSUME NEW n \in Int, NEW by \in Nat \ {0} PROVE Quotient(n, by) \in Int
    OBVIOUS
  <2>1. n \div by \in Int /\ -n \in Int /\ (-n) \div by \in Int
    OBVIOUS
  <2>2. -((-n) \div by) \in Int
    BY <2>1
  <2> QED
    BY <2>1, <2>2 DEF Quotient
<1>2. \A n \in Int, lo \in Int, hi \in Int : Within(n, lo, hi) \in Int /\ Within(n, lo, hi) >= lo
  <2> SUFFICES ASSUME NEW n \in Int, NEW lo \in Int, NEW hi \in Int
               PROVE  Within(n, lo, hi) \in Int /\ Within(n, lo, hi) >= lo
    OBVIOUS
  <2>1. Min({hi, n}) \in Int
    BY LesserOfTwo
  <2> QED
    BY <2>1, GreaterOfTwo DEF Within
<1>3. Nominal \div Part \in Int /\ -(Nominal \div Part) \in Int /\ 2 * Nominal - queued \in Int
  BY Sizes
<1>4. Nudge(queued) \in Int
  BY <1>1, <1>2, <1>3, Sizes DEF Nudge
<1> DEFINE n == Nominal + Nudge(queued)
<1>5. n \in Int /\ 1 \in Int /\ MaxBlock \in Int
  BY <1>4, Sizes
<1> HIDE DEF n
<1>6. Within(n, 1, MaxBlock) \in Int /\ Within(n, 1, MaxBlock) >= 1
  BY <1>2, <1>5
<1>7. Within(n, 1, MaxBlock) \in Nat
  BY <1>6
<1> QED
  BY <1>7 DEF n

(* What is published, counted. *)
LEMMA RingHolds ==
  ASSUME NEW R \in Nat, NEW W \in Nat, NativeType, Counted(R, W)
  PROVE  InRing = W - R /\ R <= W /\ W <= R + Cap
<1>1. R <= W /\ W <= R + Cap
  BY Sizes DEF Counted, NativeType
<1> QED
  BY <1>1, Between DEF InRing, Counted

(* Copying a sample into the ring disturbs none that is in it. *)
LEMMA CopyKeeps ==
  ASSUME NativeType, CopySample, NEW R \in Nat, NEW W \in Nat, Counted(R, W)
  PROVE  NativeType' /\ Counted(R, W)'
<1>1. /\ phase = "copy" /\ copied < count /\ copied' = copied + 1
      /\ ring' = [ring EXCEPT ![(wr + copied) % Cap] = (wr + copied) % Wrap]
      /\ UNCHANGED <<ready, block, blockLen, stage, count, phase, drain, rd, wr, heard>>
  BY DEF CopySample, drainVars, webVars, pageVars
<1>2. copied \in Nat /\ count \in Nat /\ ring \in [0 .. Cap - 1 -> Int] /\ Cap \in Nat \ {0} /\ Wrap \in Nat \ {0}
  BY Sizes DEF NativeType
<1> DEFINE e == W + copied
<1>3. e \in Nat /\ (wr + copied) % Cap = e % Cap /\ (wr + copied) % Wrap = e % Wrap
  <2>1. wr = W % Wrap
    BY DEF Counted
  <2>2. W \in Int /\ copied \in Int
    BY <1>2
  <2>3. ((W % Wrap) + copied) % Wrap = (W + copied) % Wrap /\ ((W % Wrap) + copied) % Cap = (W + copied) % Cap
    BY <2>2, AsCounted
  <2>4. e \in Nat
    BY <1>2
  <2> QED
    BY <2>1, <2>3, <2>4, Zenon
<1>4. /\ e \in Nat /\ e = W + copied /\ e < R + Cap /\ W + count <= R + Cap /\ W + copied' = e + 1
      /\ \A k \in R .. e - 1 : ring[k % Cap] = k % Wrap
  BY <1>1, <1>2 DEF Counted
<1> HIDE DEF e
<1>5. ring' = [ring EXCEPT ![e % Cap] = e % Wrap]
  BY <1>1, <1>3
<1>6. e % Cap \in 0 .. Cap - 1 /\ e % Wrap \in Int
  BY <1>2, <1>4, DivMod
<1>7. ring' \in [0 .. Cap - 1 -> Int]
  BY <1>2, <1>5, <1>6
<1>8. ASSUME NEW k \in R .. e
      PROVE  ring'[k % Cap] = k % Wrap
  <2>1. CASE k = e
    BY <1>2, <1>5, <1>6, <2>1
  <2>2. CASE k # e
    <3>1. k \in Int /\ k < e /\ e < k + Cap /\ k \in R .. e - 1
      BY <1>2, <1>4, <2>2
    <3>2. k % Cap # e % Cap
      <4>1. e \in Int /\ Cap \in Nat \ {0}
        BY <1>2, <1>4
      <4> QED
        BY <3>1, <4>1, SlotsDiffer
    <3>3. ring'[k % Cap] = ring[k % Cap]
      BY <1>2, <1>5, <3>1, <3>2, DivMod
    <3> QED
      BY <1>4, <3>1, <3>3
  <2> QED
    BY <2>1, <2>2
<1>9. NativeType'
  BY <1>1, <1>2, <1>7 DEF NativeType
<1>10. Counted(R, W)'
  <2>1. W + copied' - 1 = e
    BY <1>1, <1>2, <1>4
  <2>2. \A k \in R .. (W + copied' - 1) : ring'[k % Cap] = k % Wrap
    BY <1>8, <2>1
  <2>3. W + copied' <= R + Cap
    BY <1>1, <1>2, <1>4
  <2> QED
    BY <1>1, <2>2, <2>3 DEF Counted
<1> QED
  BY <1>9, <1>10

(* Publishing counts what has been copied. *)
LEMMA PublishKeeps ==
  ASSUME NativeType, Publish, NEW R \in Nat, NEW W \in Nat, Counted(R, W)
  PROVE  NativeType' /\ \E V \in Nat : Counted(R, V)'
<1>1. /\ phase = "copy" /\ copied = count /\ wr' = (wr + count) % Wrap
      /\ phase' = "choose" /\ count' = 0 /\ copied' = 0
      /\ UNCHANGED <<ready, block, blockLen, stage, ring, drain, rd, heard>>
  BY DEF Publish, drainVars, webVars, pageVars
<1>2. count \in Nat /\ drain.take \in Nat
  BY DEF NativeType
<1>3. wr' = (W + count) % Wrap
  <2>1. ((W % Wrap) + count) % Wrap = (W + count) % Wrap
    BY <1>2, AsCounted
  <2> QED
    BY <1>1, <2>1 DEF Counted
<1>4. NativeType'
  BY <1>1 DEF NativeType
<1> PICK V \in Nat : V = W + count
  BY <1>2
<1>5. /\ R + drain.take <= V /\ V <= R + Cap
      /\ \A k \in R .. V - 1 : ring[k % Cap] = k % Wrap
  BY <1>1, <1>2, Sizes DEF Counted
<1>6. V + copied' = V
  BY <1>1
<1>7. Counted(R, V)'
  BY <1>1, <1>3, <1>5, <1>6 DEF Counted
<1> QED
  BY <1>4, <1>7

(* The device's thread takes what has been published, sample by sample,    *)
(* and what it hears is the one behind the one before.                     *)
LEMMA DrainKeeps ==
  ASSUME NativeType, NEW R \in Nat, NEW W \in Nat, Counted(R, W)
  PROVE  /\ DrainBegin => NativeType' /\ Counted(R, W)'
         /\ DrainSample => NativeType' /\ Counted(R, W)' /\ heard' = (heard + 1) % Wrap
         /\ DrainEnd => NativeType' /\ \E S \in Nat : Counted(S, W)'
<1>1. /\ drain \in [busy : BOOLEAN, take : Nat, at : Nat] /\ drain.at <= drain.take
      /\ drain.take \in Nat /\ drain.at \in Nat /\ copied \in Nat
      /\ Cap \in Nat \ {0} /\ Wrap \in Nat \ {0} /\ Chunk \in Nat
  BY Sizes DEF NativeType
<1>2. ASSUME DrainBegin PROVE NativeType' /\ Counted(R, W)'
  <2> DEFINE n == Min({Chunk, InRing})
  <2>1. /\ drain' = [busy |-> TRUE, take |-> n, at |-> 0] /\ drain.at = 0
        /\ UNCHANGED <<mainVars, ringVars, rd, heard, ready>>
    BY <1>2 DEF DrainBegin, NativeType, Idle, webVars, pageVars
  <2>2. n \in Nat /\ n <= W - R
    <3>1. InRing = W - R /\ R <= W
      BY RingHolds
    <3>2. InRing \in Nat
      BY <3>1
    <3>3. n \in {Chunk, InRing} /\ n <= InRing
      BY <1>1, <3>2, LesserOfTwo
    <3>4. n \in Nat
      BY <1>1, <3>2, <3>3
    <3> QED
      BY <3>1, <3>3, <3>4
  <2> HIDE DEF n
  <2>3. NativeType'
    BY <2>1, <2>2 DEF NativeType, mainVars, ringVars
  <2>4. R + n <= W
    BY <2>2
  <2>5. Counted(R, W)'
    BY <2>1, <2>4 DEF Counted, mainVars, ringVars
  <2> QED
    BY <2>3, <2>5
<1>3. ASSUME DrainSample PROVE NativeType' /\ Counted(R, W)' /\ heard' = (heard + 1) % Wrap
  <2> DEFINE k == R + drain.at
  <2>1. /\ drain.busy /\ drain.at < drain.take /\ drain' = [drain EXCEPT !.at = drain.at + 1]
        /\ heard' = ring[(rd + drain.at) % Cap]
        /\ UNCHANGED <<mainVars, ringVars, rd, ready>>
    BY <1>3 DEF DrainSample, webVars, pageVars
  <2>2. k \in R .. W + copied - 1 /\ k \in Int
    BY <1>1, <2>1 DEF Counted
  <2>3. (rd + drain.at) % Cap = k % Cap
    <3>1. R \in Int /\ drain.at \in Int
      BY <1>1
    <3>2. ((R % Wrap) + drain.at) % Cap = (R + drain.at) % Cap
      BY <3>1, AsCounted
    <3> QED
      BY <3>2 DEF Counted
  <2>4. heard = (k - 1) % Wrap
    <3>1. R + drain.at - 1 = k - 1
      BY <1>1
    <3>2. heard = (R + drain.at - 1) % Wrap
      BY DEF Counted
    <3> QED
      BY <3>1, <3>2, Zenon
  <2> HIDE DEF k
  <2>5. heard' = k % Wrap
    BY <2>1, <2>2, <2>3 DEF Counted
  <2>6. (heard + 1) % Wrap = k % Wrap
    <3>1. k - 1 \in Int /\ (k - 1) + 1 = k
      BY <2>2
    <3>2. (((k - 1) % Wrap) + 1) % Wrap = ((k - 1) + 1) % Wrap
      BY <3>1, AsCounted
    <3> QED
      BY <2>4, <3>1, <3>2
  <2>7. NativeType'
    <3>1. drain.at + 1 \in Nat /\ drain.at + 1 <= drain.take
      BY <1>1, <2>1
    <3>2. drain' \in [busy : BOOLEAN, take : Nat, at : Nat] /\ drain'.at <= drain'.take /\ drain'.busy
      BY <1>1, <2>1, <3>1
    <3> QED
      BY <2>1, <3>2 DEF NativeType, mainVars, ringVars
  <2>8. Counted(R, W)'
    <3>1. k = R + drain'.at - 1
      BY <1>1, <2>1 DEF k
    <3>2. heard' = (R + drain'.at - 1) % Wrap
      BY <2>5, <3>1
    <3>3. drain'.take = drain.take
      BY <1>1, <2>1
    <3> QED
      BY <2>1, <3>2, <3>3 DEF Counted, mainVars, ringVars
  <2> QED
    BY <2>5, <2>6, <2>7, <2>8
<1>4. ASSUME DrainEnd PROVE NativeType' /\ \E S \in Nat : Counted(S, W)'
  <2>1. /\ drain.at = drain.take /\ drain' = Idle /\ rd' = (rd + drain.take) % Wrap
        /\ UNCHANGED <<mainVars, ringVars, heard, ready>>
    BY <1>4 DEF DrainEnd, webVars, pageVars
  <2> PICK S \in Nat : S = R + drain.take
    BY <1>1
  <2>2. rd' = S % Wrap
    <3>1. R \in Int /\ drain.take \in Int
      BY <1>1
    <3>2. ((R % Wrap) + drain.take) % Wrap = (R + drain.take) % Wrap
      BY <3>1, AsCounted
    <3> QED
      BY <2>1, <3>2 DEF Counted
  <2>3. /\ S <= W /\ S >= R /\ W + copied <= S + Cap /\ (phase = "copy" => W + count <= S + Cap)
        /\ \A k \in S .. W + copied - 1 : ring[k % Cap] = k % Wrap
    <3>1. /\ R + drain.take <= W /\ W + copied <= R + Cap /\ (phase = "copy" => W + count <= R + Cap)
          /\ \A k \in R .. W + copied - 1 : ring[k % Cap] = k % Wrap
      BY DEF Counted
    <3>2. S <= W /\ S >= R
      BY <1>1, <3>1
    <3>3. W + copied <= S + Cap
      BY <1>1, <3>1, <3>2
    <3>4. phase = "copy" => W + count <= S + Cap
      <4>1. count \in Nat
        BY DEF NativeType
      <4> QED
        BY <1>1, <3>1, <3>2, <4>1
    <3>5. S .. W + copied - 1 \subseteq R .. W + copied - 1
      BY <1>1, <3>2
    <3> QED
      BY <3>1, <3>2, <3>3, <3>4, <3>5
  <2>4. heard = (S - 1) % Wrap
    BY <1>1, <2>1 DEF Counted
  <2>5. S + 0 = S
    OBVIOUS
  <2>6. NativeType'
    BY <2>1 DEF NativeType, Idle, mainVars, ringVars
  <2>7. Counted(S, W)'
    BY <2>1, <2>2, <2>3, <2>4, <2>5 DEF Counted, Idle, mainVars, ringVars
  <2> QED
    BY <2>6, <2>7
<1> QED
  BY <1>2, <1>3, <1>4

(* Making room is looked at once, and there may only be more of it.        *)
LEMMA SubmitKeeps ==
  ASSUME NativeType, Submit, NEW R \in Nat, NEW W \in Nat, Counted(R, W)
  PROVE  NativeType' /\ Counted(R, W)'
<1>1. /\ phase = "submit" /\ count' = Min({count, SpaceInRing}) /\ copied' = 0 /\ phase' = "copy"
      /\ UNCHANGED <<ready, block, blockLen, stage, nativeVars>>
  BY DEF Submit, webVars, pageVars
<1>2. InRing = W - R /\ R <= W /\ W <= R + Cap /\ count \in Nat /\ Cap \in Nat
  BY RingHolds, Sizes DEF NativeType
<1>3. SpaceInRing = Cap - (W - R) /\ SpaceInRing \in Nat
  BY <1>2 DEF SpaceInRing
<1> PICK n : n = Min({count, SpaceInRing})
  OBVIOUS
<1>4. n \in Nat /\ W + n <= R + Cap
  <2>1. n \in {count, SpaceInRing} /\ n <= SpaceInRing
    BY <1>2, <1>3, LesserOfTwo
  <2> QED
    BY <1>2, <1>3, <2>1
<1>5. NativeType'
  BY <1>1, <1>4 DEF NativeType, nativeVars, ringVars, drainVars
<1>6. copied = 0
  BY <1>1 DEF NativeType
<1>7. Counted(R, W)'
  BY <1>1, <1>4, <1>6 DEF Counted, nativeVars, ringVars, drainVars
<1> QED
  BY <1>5, <1>7

(* Every step keeps the ring in order. *)
LEMMA RingInOrderStep == RingInOrder /\ [AudioNext]_audioVars => RingInOrder'
<1> SUFFICES ASSUME RingInOrder, [AudioNext]_audioVars PROVE RingInOrder'
  OBVIOUS
<1> USE DEF mainVars, ringVars, drainVars, sinkVars, pageVars, clockVars, nativeVars, webVars
<1>1. CASE host # "sdl"
  <2>1. drain = Idle /\ ~Idle.busy
    BY <1>1 DEF RingInOrder, Idle
  <2>2. host' # "sdl" /\ drain' = drain
    BY <1>1, <2>1
    DEF AudioNext, AudioFrame, Device, Page, m4aSoundVSync, Submit, CopySample, Publish, SubmitWeb, ChooseBlockSize,
        RenderBlock, DrainBegin, DrainSample, DrainEnd, Process, OnAudioProcess, Take, Reported,
        StartWorklet, StartScriptProcessor, Settle, audioVars
  <2> QED
    BY <2>1, <2>2 DEF RingInOrder
<1>2. CASE host = "sdl"
  <2>1. NativeType
    BY <1>2 DEF RingInOrder
  <2>2. PICK R \in Nat, W \in Nat : Counted(R, W)
    BY <1>2 DEF RingInOrder
  <2> SUFFICES NativeType' /\ \E S, V \in Nat : Counted(S, V)'
    <3>1. host' = host
      BY <1>2, <2>1
      DEF AudioNext, AudioFrame, Device, Page, m4aSoundVSync, Submit, CopySample, Publish, SubmitWeb, ChooseBlockSize,
          RenderBlock, DrainBegin, DrainSample, DrainEnd, Process, OnAudioProcess, Take, Reported,
          StartWorklet, StartScriptProcessor, Settle, audioVars, NativeType
    <3> QED
      BY <1>2, <3>1 DEF RingInOrder
  <2>3. CASE m4aSoundVSync
    <3>1. /\ phase = "vsync" /\ phase' = "submit" /\ count' \in Nat /\ stage' \in Nat
          /\ UNCHANGED <<ready, block, blockLen, copied, nativeVars>>
      BY <2>1, <2>3 DEF m4aSoundVSync, PushLength, NativeType
    <3>2. NativeType' /\ Counted(R, W)'
      BY <2>1, <2>2, <3>1 DEF NativeType, Counted
    <3> QED
      BY <3>2
  <2>4. CASE Submit
    BY <2>1, <2>2, <2>4, SubmitKeeps
  <2>5. CASE CopySample
    BY <2>1, <2>2, <2>5, CopyKeeps
  <2>6. CASE Publish
    BY <2>1, <2>2, <2>6, PublishKeeps
  <2>7. CASE ChooseBlockSize
    <3>1. PortAudioQueued \in Int
      BY <1>2, <2>1, <2>2, RingHolds DEF PortAudioQueued
    <3>2. /\ phase = "choose" /\ phase' = "main" /\ block' \in Nat /\ blockLen' \in Nat
          /\ UNCHANGED <<ready, stage, count, copied, nativeVars>>
      BY <2>1, <2>7, <3>1, BlockType DEF ChooseBlockSize, NativeType
    <3>3. NativeType' /\ Counted(R, W)'
      BY <2>1, <2>2, <3>2 DEF NativeType, Counted
    <3> QED
      BY <3>3
  <2>8. ASSUME NEW next \in Modes, RenderBlock(next)
        PROVE  NativeType' /\ \E S, V \in Nat : Counted(S, V)'
    <3>1. /\ phase = "main" /\ phase' = "vsync" /\ stage' \in Nat
          /\ UNCHANGED <<ready, block, blockLen, count, copied, nativeVars>>
      BY <2>1, <2>8 DEF RenderBlock, NativeType
    <3>2. NativeType' /\ Counted(R, W)'
      BY <2>1, <2>2, <3>1 DEF NativeType, Counted
    <3> QED
      BY <3>2
  <2>9. CASE DrainBegin
    BY <2>1, <2>2, <2>9, DrainKeeps
  <2>10. CASE DrainSample
    BY <2>1, <2>2, <2>10, DrainKeeps
  <2>11. CASE DrainEnd
    BY <2>1, <2>2, <2>11, DrainKeeps
  <2>12. CASE Reported \/ Settle \/ UNCHANGED audioVars
    <3>1. UNCHANGED <<ready, phase, block, blockLen, stage, count, copied, nativeVars>>
      BY <2>12 DEF Reported, Settle, audioVars
    <3>2. NativeType' /\ Counted(R, W)'
      BY <2>1, <2>2, <3>1 DEF NativeType, Counted
    <3> QED
      BY <3>2
  <2>13. ~SubmitWeb /\ ~Process /\ ~OnAudioProcess /\ ~Take /\ ~StartWorklet /\ ~StartScriptProcessor
    BY <1>2, <2>1 DEF SubmitWeb, Process, OnAudioProcess, Take, StartWorklet, StartScriptProcessor, NativeType
  <2> QED
    BY <2>3, <2>4, <2>5, <2>6, <2>7, <2>8, <2>9, <2>10, <2>11, <2>12, <2>13 DEF AudioNext, AudioFrame, Device, Page
<1> QED
  BY <1>1, <1>2

(* At the start it is empty. *)
LEMMA RingInOrderInit == AudioInit => RingInOrder
<1> SUFFICES ASSUME AudioInit PROVE RingInOrder
  OBVIOUS
<1>1. drain = Idle /\ copied = 0 /\ count = 0 /\ phase = "vsync" /\ wr = 0 /\ rd = 0 /\ heard = Wrap - 1
  BY DEF AudioInit
<1>2. Cap \in Nat \ {0} /\ Wrap \in Nat \ {0} /\ Nominal \in Nat
  BY Sizes
<1>3. host = "sdl" => NativeType
  <2>1. host = "sdl" => ready
    BY Zenon DEF AudioInit
  <2>2. ring \in [0 .. Cap - 1 -> Int]
    BY <1>2 DEF AudioInit
  <2>3. block \in Nat /\ blockLen \in Nat /\ stage \in Nat
    BY <1>2 DEF AudioInit
  <2> QED
    BY <1>1, <2>1, <2>2, <2>3 DEF NativeType, Idle
<1>4. 0 % Wrap = 0
  BY <1>2, SmallRemainder
<1>5. (-1) % Wrap = Wrap - 1
  <2> DEFINE x == Wrap - 1
             y == -1
  <2>1. x \in Int /\ y \in Int /\ 1 \in Int /\ x = y + Wrap * 1
    BY <1>2
  <2> HIDE DEF x, y
  <2>2. x % Wrap = y % Wrap
    BY <1>2, <2>1, SameRemainder
  <2>3. (Wrap - 1) % Wrap = Wrap - 1
    BY <1>2, SmallRemainder
  <2> QED
    BY <2>2, <2>3 DEF x, y
<1>6. Counted(0, 0)
  BY <1>1, <1>2, <1>4, <1>5 DEF Counted, Idle
<1> QED
  BY <1>1, <1>3, <1>6 DEF RingInOrder

(* What is heard is what the ring took, sample after sample, whatever the  *)
(* two threads do between each other's steps, over a full ring, an empty   *)
(* one and the wrap of the counters.                                       *)
THEOREM SamplesHeardInOrder == AudioSpec => HeardAsQueued
<1>1. RingInOrder /\ [AudioNext]_audioVars => [drain'.at > drain.at => heard' = (heard + 1) % Wrap]_audioVars
  <2> SUFFICES ASSUME RingInOrder, [AudioNext]_audioVars, drain'.at > drain.at
               PROVE  heard' = (heard + 1) % Wrap
    OBVIOUS
  <2>1. drain.at \in Nat
    BY DEF RingInOrder, NativeType, Idle
  <2>2. drain' = drain \/ drain'.at = 0 \/ DrainSample
    BY DEF AudioNext, AudioFrame, Device, Page, m4aSoundVSync, Submit, CopySample, Publish, SubmitWeb, ChooseBlockSize,
           RenderBlock, DrainBegin, DrainEnd, Process, OnAudioProcess, Take, Reported,
           StartWorklet, StartScriptProcessor, Settle, Idle, audioVars,
           mainVars, ringVars, drainVars, sinkVars, pageVars, clockVars, nativeVars, webVars
  <2>3. DrainSample
    BY <2>1, <2>2
  <2>4. host = "sdl"
    BY <2>3 DEF DrainSample, RingInOrder, Idle
  <2>5. NativeType /\ \E R, W \in Nat : Counted(R, W)
    BY <2>4 DEF RingInOrder
  <2> QED
    BY <2>3, <2>5, DrainKeeps
<1> QED
  BY RingInOrderInit, RingInOrderStep, <1>1, PTL DEF AudioSpec, HeardAsQueued

=============================================================================
