--------------------------- MODULE PlatformProofs ---------------------------
(***************************************************************************)
(* Theorems about two parts of platform/ that need nothing of each other.  *)
(* The native host: for every command line, every speed of the game and of *)
(* the machine, and whatever people do.  The BIOS calls that are loops:    *)
(* for every packing of any data, and for every number of any width.       *)
(***************************************************************************)
EXTENDS Host, Bios, NaturalsInduction, WellFoundedInduction, SequenceTheorems, TLAPS

-----------------------------------------------------------------------------
(* THE NATIVE HOST: ITS INDUCTIVE INVARIANT                                *)

HostSpec == HostInit /\ [][HostNext]_hostVars

(* The periods that have been waited for.                                  *)
Paced == IF where = "pace" THEN count - 1 ELSE count

Running == where \in {"game", "events", "pace", "sleep"}

TypeInv ==
  /\ where \in {"args", "await", "game", "events", "pace", "sleep", "exited"}
  /\ opts \in CommandLines
  /\ count \in Nat /\ now \in Nat \ {0} /\ next \in Nat /\ begun \in Nat

ScriptInv ==
  /\ (where = "await" \/ Running) /\ opts.mash.start >= 0 => opts.mash.period >= 2
  /\ pressed = PressedBy(opts, count - 1)
  /\ where # "args" /\ count > 0 => down = live \cup Scripted(opts, count - 1)

(* The next frame is due no sooner than the periods since the first, and   *)
(* it is not far behind when the game goes on.                             *)
ClockInv ==
  /\ where \in {"args", "await"} => count = 0 /\ next = 0
  /\ where = "pace" => count > 0
  /\ Running /\ ~opts.turbo =>
       /\ Paced = 0 => next = 0
       /\ Paced > 0 => next > 0 /\ begun + Paced * Period <= next
  /\ where = "sleep" => now < next /\ ~opts.turbo
  /\ where = "game" /\ count > 0 /\ ~opts.turbo => next <= now /\ now <= next + 4 * Period + Delay

HostInv == TypeInv /\ ScriptInv /\ ClockInv

-----------------------------------------------------------------------------
(* THE SCRIPT                                                              *)

(* What a command line is made of.                                         *)
LEMMA LineTypes ==
  ASSUME NEW o \in CommandLines
  PROVE  /\ o.turbo \in BOOLEAN /\ o.mash.start \in Int /\ o.mash.stop \in Int
         /\ o.mash.period \in Int /\ o.press \in Seq([frame : Int, mask : SUBSET STRING])
         /\ DOMAIN o.press = 1 .. Len(o.press) /\ Len(o.press) \in Nat
         /\ \A k \in DOMAIN o.press : o.press[k].frame \in Int
<1>1. o.turbo \in BOOLEAN /\ o.press \in Seq([frame : Int, mask : SUBSET STRING])
  BY DEF CommandLines
<1>2. o.mash \in [start : Int, stop : Int, period : Int, mask : SUBSET STRING]
  BY DEF CommandLines
<1>3. o.mash.start \in Int /\ o.mash.stop \in Int /\ o.mash.period \in Int
  BY <1>2
<1>4. DOMAIN o.press = 1 .. Len(o.press) /\ Len(o.press) \in Nat
  BY <1>1
<1>5. ASSUME NEW k \in DOMAIN o.press PROVE o.press[k].frame \in Int
  <2>1. o.press[k] \in [frame : Int, mask : SUBSET STRING]
    BY <1>1, <1>4, ElementOfSeq
  <2> QED
    BY <2>1
<1> QED
  BY <1>1, <1>3, <1>4, <1>5

(* A set of the numbers of a list that is not empty has a greatest.        *)
LEMMA GreatestIs ==
  ASSUME NEW n \in Nat, NEW S \in SUBSET (1 .. n), S # {}
  PROVE  Max(S) \in S /\ \A k \in S : k <= Max(S)
<1> DEFINE Below == {n - k : k \in S}
<1>1. Below \in SUBSET Nat /\ Below # {}
  OBVIOUS
<1>2. PICK b \in Below : \A c \in Below : <<c, b>> \notin OpToRel(<, Nat)
  BY <1>1, NatLessThanWellFounded, WFMin
<1>3. PICK i \in S : b = n - i
  OBVIOUS
<1>4. ASSUME NEW k \in S PROVE k <= i
  <2>1. n - k \in Below /\ n - k \in Nat /\ n - i \in Nat
    OBVIOUS
  <2>2. <<n - k, n - i>> \notin {ss \in Nat \X Nat : ss[1] < ss[2]}
    BY <1>2, <1>3, <2>1 DEF OpToRel
  <2>3. ~(n - k < n - i)
    BY <2>1, <2>2
  <2> QED
    BY <2>3
<1>5. \E x \in S : \A y \in S : x >= y
  BY <1>4
<1>6. Max(S) \in S /\ \A y \in S : Max(S) >= y
  BY <1>5 DEF Max
<1>7. S \subseteq Int
  OBVIOUS
<1> QED
  BY <1>6, <1>7

(* Nothing has been pressed before the first frame.                        *)
LEMMA NothingPressed == \A o : PressedBy(o, -1) = {}
<1> SUFFICES ASSUME NEW o PROVE PressedBy(o, -1) = {}
  OBVIOUS
<1>1. 0 .. -1 = {}
  OBVIOUS
<1>2. Past(o, -1) = {}
  BY <1>1 DEF Past
<1>3. LastPress(o, -1) = {}
  BY <1>2 DEF LastPress
<1> QED
  BY <1>3 DEF PressedBy

(* A frame that has no press of its own keeps the last one.                *)
LEMMA StillPressed ==
  ASSUME NEW o \in CommandLines, NEW f \in Nat,
         \A k \in DOMAIN o.press : o.press[k].frame # f
  PROVE  PressedBy(o, f) = PressedBy(o, f - 1)
<1>1. \A k \in DOMAIN o.press : o.press[k].frame \in 0 .. f <=> o.press[k].frame \in 0 .. f - 1
  BY LineTypes
<1>2. Past(o, f) = Past(o, f - 1)
  BY <1>1 DEF Past
<1>3. LastPress(o, f) = LastPress(o, f - 1)
  BY <1>2 DEF LastPress
<1> QED
  BY <1>3 DEF PressedBy

(* Of the presses of one frame the last on the command line counts.        *)
LEMMA NewlyPressed ==
  ASSUME NEW o \in CommandLines, NEW f \in Nat, NEW S,
         S = {k \in DOMAIN o.press : o.press[k].frame = f}, S # {}
  PROVE  PressedBy(o, f) = o.press[Max(S)].mask
<1>1. S \in SUBSET (1 .. Len(o.press)) /\ Len(o.press) \in Nat
  BY LineTypes
<1>2. Max(S) \in S /\ \A k \in S : k <= Max(S)
  BY <1>1, GreatestIs
<1>3. Max(S) \in Past(o, f) /\ o.press[Max(S)].frame = f
  BY <1>2 DEF Past
<1>4. \A j \in Past(o, f) : j \in DOMAIN o.press /\ o.press[j].frame \in Int /\ o.press[j].frame <= f
  BY LineTypes DEF Past
<1>5. ASSUME NEW j \in Past(o, f)
      PROVE  o.press[j].frame < f \/ (o.press[j].frame = f /\ j <= Max(S))
  BY <1>2, <1>4
<1>6. Max(S) \in LastPress(o, f)
  BY <1>3, <1>5 DEF LastPress
<1>7. ASSUME NEW k \in LastPress(o, f) PROVE k = Max(S)
  <2>1. k \in Past(o, f) /\ (f < o.press[k].frame \/ (f = o.press[k].frame /\ Max(S) <= k))
    BY <1>3 DEF LastPress
  <2>2. o.press[k].frame = f /\ Max(S) <= k /\ k \in DOMAIN o.press
    BY <1>4, <2>1
  <2>3. k \in S
    BY <2>2
  <2>4. k <= Max(S) /\ k \in Int /\ Max(S) \in Int
    BY <1>1, <1>2, <2>3
  <2> QED
    BY <2>2, <2>4
<1>8. LastPress(o, f) = {Max(S)}
  BY <1>6, <1>7
<1>9. {o.press[k].mask : k \in LastPress(o, f)} = {o.press[Max(S)].mask}
  BY <1>8
<1> QED
  BY <1>9 DEF PressedBy

(* One multiple before another leaves room for what is multiplied.         *)
LEMMA NextMultiple ==
  ASSUME NEW d \in Nat \ {0}, NEW p \in Int, NEW q \in Int, p * d < q * d
  PROVE  p * d + d <= q * d
<1>1. p < q
  <2> SUFFICES ASSUME q <= p PROVE FALSE
    OBVIOUS
  <2>1. PICK k \in Nat : p = q + k
    <3>1. p - q \in Nat /\ p = q + (p - q)
      OBVIOUS
    <3> QED
      BY <3>1
  <2>2. p * d = q * d + k * d /\ k * d >= 0
    BY <2>1
  <2> QED
    BY <2>2
<1>2. PICK k \in Nat : q = p + 1 + k
  <2>1. q - p - 1 \in Nat /\ q = p + 1 + (q - p - 1)
    BY <1>1
  <2> QED
    BY <2>1
<1>3. q * d = p * d + d + k * d /\ k * d >= 0
  BY <1>2
<1>4. q * d \in Int /\ p * d \in Int /\ k * d \in Int
  OBVIOUS
<1> QED
  BY <1>3, <1>4

(* What dividing leaves.                                                   *)
LEMMA Divides ==
  ASSUME NEW n \in Int, NEW d \in Nat \ {0}
  PROVE  n \div d \in Int /\ n % d \in 0 .. d - 1 /\ n = (n \div d) * d + (n % d)
<1>1. n \div d \in Int
  OBVIOUS
<1>2. n % d \in 0 .. d - 1
  OBVIOUS
<1>3. n = d * (n \div d) + (n % d)
  OBVIOUS
<1>4. d * (n \div d) = (n \div d) * d
  BY <1>1
<1> QED
  BY <1>1, <1>2, <1>3, <1>4

(* A tap is down in the first half of every period.                        *)
LEMMA TapIsDown ==
  ASSUME NEW m, NEW f \in Nat, m.start \in Int, m.start >= 0, m.period \in Int, m.period >= 2
  PROVE  Taps(m, f) # {} <=> f >= m.start /\ ((f - m.start) % m.period) < m.period \div 2
<1>1. PICK d \in Nat \ {0}, a \in Nat : d = m.period /\ a = m.start /\ d >= 2
  OBVIOUS
<1>2. PICK h \in Int : h = d \div 2 /\ h <= d
  <2>1. PICK q \in Int, r \in 0 .. 1 : q = d \div 2 /\ d = q * 2 + r
    BY Divides, 2 \in Nat \ {0}
  <2>2. q <= d
    BY <2>1
  <2> QED
    BY <2>1, <2>2
<1>3. PICK q \in Int, r \in 0 .. d - 1 : f - a = q * d + r /\ r = ((f - a) % d)
  <2>1. f - a \in Int
    OBVIOUS
  <2> QED
    BY <2>1, Divides
<1>4. q * d \in Int
  OBVIOUS
<1>5. Taps(m, f) = {n \in 0 .. f : n * d <= f - a /\ f - a < n * d + h}
  BY <1>1, <1>2 DEF Taps
<1>6. ASSUME NEW n \in Taps(m, f) PROVE f >= a /\ r < h
  <2>1. n \in Nat /\ n * d <= f - a /\ f - a < n * d + h
    BY <1>5
  <2>2. n * d \in Nat
    BY <2>1
  <2>3. ~(n * d < q * d)
    <3> SUFFICES ASSUME n * d < q * d PROVE FALSE
      OBVIOUS
    <3>1. n * d + d <= q * d
      BY <2>1, NextMultiple
    <3>2. q * d <= f - a
      BY <1>3, <1>4
    <3> QED
      BY <1>2, <1>4, <2>1, <2>2, <3>1, <3>2
  <2>4. ~(q * d < n * d)
    <3> SUFFICES ASSUME q * d < n * d PROVE FALSE
      OBVIOUS
    <3>1. q * d + d <= n * d
      BY <2>1, NextMultiple
    <3>2. f - a < q * d + d
      BY <1>3, <1>4
    <3> QED
      BY <1>4, <2>1, <2>2, <3>1, <3>2
  <2>5. q * d = n * d
    BY <1>4, <2>2, <2>3, <2>4
  <2>6. f - a >= 0
    BY <2>1, <2>2
  <2>7. r < h
    BY <1>2, <1>3, <1>4, <2>1, <2>2, <2>5
  <2> QED
    BY <2>6, <2>7
<1>7. ASSUME f >= a, r < h PROVE q \in Taps(m, f)
  <2>1. q >= 0
    <3> SUFFICES ASSUME q < 0 PROVE FALSE
      OBVIOUS
    <3>1. PICK k \in Nat : q = -1 - k
      <4>1. -1 - q \in Nat /\ q = -1 - (-1 - q)
        OBVIOUS
      <4> QED
        BY <4>1
    <3>2. q * d = -d - k * d /\ k * d >= 0 /\ k * d \in Int
      BY <3>1
    <3>3. q * d + d <= 0
      BY <3>2, <1>4
    <3> QED
      BY <1>3, <1>4, <1>7, <3>3
  <2>2. q <= q * d
    <3>1. PICK k \in Nat : d = k + 1
      <4>1. d - 1 \in Nat /\ d = (d - 1) + 1
        OBVIOUS
      <4> QED
        BY <4>1
    <3>2. q * d = q * k + q /\ q * k >= 0
      BY <2>1, <3>1
    <3> QED
      BY <1>4, <3>2
  <2>3. q * d <= f - a
    BY <1>3, <1>4
  <2>4. q <= f
    BY <1>4, <2>2, <2>3
  <2>5. f - a < q * d + h
    BY <1>2, <1>3, <1>4, <1>7
  <2> QED
    BY <1>5, <2>1, <2>3, <2>4, <2>5
<1>8. r = ((f - m.start) % m.period) /\ h = m.period \div 2 /\ a = m.start
  BY <1>1, <1>2, <1>3
<1> QED
  BY <1>6, <1>7, <1>8

(* Without --mash nothing is tapped.                                       *)
LEMMA NoTap ==
  ASSUME NEW m, NEW f, ~(m.start >= 0)
  PROVE  TappedAt(m, f) = {}
BY DEF TappedAt, Taps

(* What the code holds down for --mash is what is tapped.                  *)
LEMMA MashedIsTapped ==
  ASSUME opts \in CommandLines, count \in Nat, opts.mash.start >= 0 => opts.mash.period >= 2
  PROVE  Mashed = TappedAt(opts.mash, count)
<1>1. opts.mash.start \in Int /\ opts.mash.stop \in Int /\ opts.mash.period \in Int
  BY LineTypes
<1>2. CASE ~(opts.mash.start >= 0)
  BY <1>2, NoTap DEF Mashed
<1>3. CASE opts.mash.start >= 0
  <2>1. Taps(opts.mash, count) # {}
          <=> count >= opts.mash.start
              /\ ((count - opts.mash.start) % opts.mash.period) < opts.mash.period \div 2
    BY <1>1, <1>3, TapIsDown
  <2> QED
    BY <1>3, <2>1 DEF Mashed, TappedAt
<1> QED
  BY <1>2, <1>3

(* What a frame reads is the script of that frame, and what people hold.   *)
LEMMA ReadsTheScript ==
  ASSUME opts \in CommandLines, count \in Nat, opts.mash.start >= 0 => opts.mash.period >= 2,
         pressed = PressedBy(opts, count - 1), ReadInput
  PROVE  /\ pressed' = PressedBy(opts, count)
         /\ down' = live' \cup Scripted(opts, count)
<1>1. pressed' = IF PressedNow = {} THEN pressed ELSE opts.press[Max(PressedNow)].mask
  BY DEF ReadInput
<1>2. PressedNow = {k \in DOMAIN opts.press : opts.press[k].frame = count}
  BY DEF PressedNow
<1>3. CASE PressedNow = {}
  <2>1. PressedBy(opts, count) = PressedBy(opts, count - 1)
    BY <1>2, <1>3, StillPressed
  <2>2. pressed' = pressed
    BY <1>1, <1>3
  <2>3. pressed' = PressedBy(opts, count)
    BY <2>1, <2>2
  <2>4. down' = live' \cup opts.hold \cup Mashed \cup pressed'
    BY DEF ReadInput
  <2> QED
    BY <2>3, <2>4, MashedIsTapped DEF Scripted
<1>4. CASE PressedNow # {}
  <2>1. PressedBy(opts, count) = opts.press[Max(PressedNow)].mask
    BY <1>2, <1>4, NewlyPressed
  <2>2. pressed' = PressedBy(opts, count)
    BY <1>1, <1>4, <2>1
  <2>3. down' = live' \cup opts.hold \cup Mashed \cup pressed'
    BY DEF ReadInput
  <2> QED
    BY <2>2, <2>3, MashedIsTapped DEF Scripted
<1> QED
  BY <1>3, <1>4

-----------------------------------------------------------------------------
(* THE STEPS                                                               *)

(* Reading the command line clips what was given: the lot is still one.    *)
LEMMA ParsedIsLine ==
  ASSUME NEW c \in CommandLines
  PROVE  Parsed(c) \in CommandLines /\ Parsed(c).mash = c.mash
<1> DEFINE Press == [frame : Int, mask : SUBSET STRING]
           big == Max({1, c.scale})
           scl == Min({16, big})
           len == Len(c.press)
           kept == Min({MaxPresses, len})
           few == SubSeq(c.press, 1, kept)
           atf == IF c.mp /\ c.mpAt < 0 THEN 60 ELSE c.mpAt
           mlt == c.mp \/ c.mpAt >= 0
<1>1. c.scale \in Int /\ c.mpAt \in Int /\ c.mp \in BOOLEAN
  BY DEF CommandLines
<1>2. \A a, b \in Int : Max({a, b}) \in Int
  <2> SUFFICES ASSUME NEW a \in Int, NEW b \in Int PROVE Max({a, b}) \in Int
    OBVIOUS
  <2>1. \E x \in {a, b} : \A y \in {a, b} : x >= y
    OBVIOUS
  <2>2. Max({a, b}) \in {a, b}
    BY <2>1 DEF Max
  <2> QED
    BY <2>2
<1>3. \A a, b \in Int : Min({a, b}) \in {a, b} /\ Min({a, b}) <= a /\ Min({a, b}) <= b
  <2> SUFFICES ASSUME NEW a \in Int, NEW b \in Int
               PROVE  Min({a, b}) \in {a, b} /\ Min({a, b}) <= a /\ Min({a, b}) <= b
    OBVIOUS
  <2>1. \E x \in {a, b} : \A y \in {a, b} : x <= y
    OBVIOUS
  <2>2. Min({a, b}) \in {a, b} /\ \A y \in {a, b} : Min({a, b}) <= y
    BY <2>1 DEF Min
  <2> QED
    BY <2>2
<1>4. scl \in Int
  <2>1. big \in Int /\ 16 \in Int
    BY <1>1, <1>2
  <2> HIDE DEF big
  <2>2. scl \in {16, big}
    BY <1>3, <2>1
  <2> QED
    BY <2>1, <2>2
<1>5. few \in Seq(Press)
  <2>1. c.press \in Seq(Press) /\ len \in Int /\ MaxPresses \in Int
    BY HostAssumption, LineTypes
  <2> HIDE DEF len
  <2>2. kept \in {MaxPresses, len} /\ kept <= len
    BY <1>3, <2>1
  <2>3. kept \in Int /\ kept <= len
    BY <2>1, <2>2
  <2> HIDE DEF kept, Press
  <2>4. ASSUME NEW k \in 1 .. kept PROVE c.press[k] \in Press
    <3>1. k \in 1 .. len
      BY <2>1, <2>3
    <3> QED
      BY <2>1, <3>1, ElementOfSeq DEF len
  <2> QED
    BY <2>3, <2>4, SubSeqProperties
<1>6. atf \in Int /\ mlt \in BOOLEAN
  BY <1>1
<1>7. Parsed(c) = [c EXCEPT !.scale = scl, !.press = few, !.mp = mlt, !.mpAt = atf]
  BY DEF Parsed
<1> HIDE DEF scl, few, atf, mlt
<1> QED
  BY <1>4, <1>5, <1>6, <1>7 DEF CommandLines

(* A step that leaves alone the command line, the frames and the input     *)
(* leaves the script where it was.                                         *)
LEMMA ScriptKept ==
  ASSUME ScriptInv, where # "args", UNCHANGED <<opts, playVars>>,
         (where' = "await" \/ Running') => (where = "await" \/ Running)
  PROVE  ScriptInv'
<1>1. opts' = opts /\ count' = count /\ pressed' = pressed /\ down' = down /\ live' = live
  BY DEF playVars
<1>2. ((where = "await" \/ Running) /\ opts.mash.start >= 0 => opts.mash.period >= 2)'
  BY <1>1 DEF ScriptInv
<1>3. (pressed = PressedBy(opts, count - 1))'
  BY <1>1 DEF ScriptInv
<1>4. (where # "args" /\ count > 0 => down = live \cup Scripted(opts, count - 1))'
  BY <1>1 DEF ScriptInv
<1> QED
  BY <1>2, <1>3, <1>4 DEF ScriptInv

LEMMA InitInv == HostInit => HostInv
<1> SUFFICES ASSUME HostInit PROVE HostInv
  OBVIOUS
<1>1. where = "args" /\ opts \in Commands /\ count = 0 /\ now = 1 /\ next = 0 /\ begun = 0 /\ pressed = {}
  BY DEF HostInit, HostOff
<1>2. TypeInv
  BY <1>1, HostAssumption DEF TypeInv
<1>3. count - 1 = -1
  BY <1>1
<1>4. pressed = PressedBy(opts, count - 1)
  BY <1>1, <1>3, NothingPressed
<1>5. ScriptInv
  BY <1>1, <1>4 DEF ScriptInv, Running
<1>6. ClockInv
  BY <1>1 DEF ClockInv, Running
<1> QED
  BY <1>2, <1>5, <1>6 DEF HostInv

LEMMA InvPortHostInit ==
  ASSUME HostInv, PortHostInit
  PROVE  HostInv'
<1>1. where = "args" /\ opts' = Parsed(opts) /\ opts \in CommandLines /\ count = 0 /\ next = 0
  BY DEF HostInv, TypeInv, ClockInv, PortHostInit
<1>2. where' = IF opts.mash.start >= 0 /\ opts.mash.period < 2 THEN "exited" ELSE "await"
  BY DEF PortHostInit
<1>3. count' = count /\ pressed' = pressed /\ down' = down /\ live' = live
      /\ now' = now /\ next' = next /\ begun' = begun
  BY DEF PortHostInit, playVars, timeVars
<1>4. opts' \in CommandLines /\ opts'.mash = opts.mash
  BY <1>1, ParsedIsLine
<1>5. TypeInv'
  <2>1. where' \in {"args", "await", "game", "events", "pace", "sleep", "exited"}
    BY <1>2
  <2> QED
    BY <1>3, <1>4, <2>1 DEF HostInv, TypeInv
<1>6. ScriptInv'
  <2>1. opts.mash.start \in Int /\ opts.mash.period \in Int
    BY <1>1, LineTypes
  <2>2. where' = "await" /\ opts.mash.start >= 0 => opts.mash.period >= 2
    BY <1>2, <2>1
  <2>3. ~Running'
    BY <1>2 DEF Running
  <2>4. pressed = PressedBy(opts, -1) /\ count - 1 = -1
    BY <1>1 DEF HostInv, ScriptInv
  <2>5. pressed' = PressedBy(opts', -1) /\ count' - 1 = -1
    BY <1>1, <1>3, <2>4, NothingPressed
  <2> QED
    BY <1>1, <1>3, <1>4, <2>2, <2>3, <2>5 DEF ScriptInv
<1>7. ClockInv'
  BY <1>1, <1>2, <1>3 DEF ClockInv, Running
<1> QED
  BY <1>5, <1>6, <1>7 DEF HostInv

LEMMA InvPortAwaitRom ==
  ASSUME HostInv, PortAwaitRom
  PROVE  HostInv'
<1>1. where = "await" /\ where' \in {"await", "game", "exited"} /\ UNCHANGED <<opts, playVars, timeVars>>
  BY DEF PortAwaitRom
<1>2. count = 0 /\ next = 0
  BY <1>1 DEF HostInv, ClockInv
<1>3. TypeInv'
  BY <1>1 DEF HostInv, TypeInv, playVars, timeVars
<1>4. ScriptInv'
  BY <1>1, ScriptKept DEF HostInv
<1>5. count' = 0 /\ next' = 0
  BY <1>1, <1>2 DEF playVars, timeVars
<1>6. ClockInv'
  BY <1>1, <1>5 DEF ClockInv, Running, Paced
<1> QED
  BY <1>3, <1>4, <1>6 DEF HostInv

LEMMA InvGameFrame ==
  ASSUME HostInv, GameFrame
  PROVE  HostInv'
<1>1. where = "game" /\ where' = "events" /\ UNCHANGED <<opts, playVars, next, begun>>
  BY DEF GameFrame
<1>2. PICK work \in Works : now' = now + work
  BY DEF GameFrame
<1>3. now' \in Nat \ {0}
  BY <1>2, HostAssumption DEF HostInv, TypeInv
<1>4. TypeInv'
  BY <1>1, <1>3 DEF HostInv, TypeInv, playVars
<1>5. ScriptInv'
  BY <1>1, ScriptKept DEF HostInv, Running
<1>6. Running /\ Running' /\ count' = count /\ opts' = opts /\ next' = next /\ begun' = begun
  BY <1>1 DEF Running, playVars
<1>7. Paced' = count /\ Paced = count
  BY <1>1, <1>6 DEF Paced
<1>8. ClockInv'
  BY <1>1, <1>6, <1>7 DEF HostInv, ClockInv
<1> QED
  BY <1>4, <1>5, <1>8 DEF HostInv

LEMMA InvHandleEvents ==
  ASSUME HostInv, HandleEvents
  PROVE  HostInv'
<1>1. where = "events" /\ where' \in {"events", "exited"} /\ UNCHANGED <<opts, playVars, timeVars>>
  BY DEF HandleEvents, Shutdown
<1>2. TypeInv'
  BY <1>1 DEF HostInv, TypeInv, playVars, timeVars
<1>3. ScriptInv'
  BY <1>1, ScriptKept DEF HostInv, Running
<1>4. Running /\ count' = count /\ opts' = opts /\ next' = next /\ begun' = begun
  BY <1>1 DEF Running, playVars, timeVars
<1>5. Paced' = count /\ Paced = count
  BY <1>1, <1>4 DEF Paced
<1>6. ClockInv'
  BY <1>1, <1>4, <1>5 DEF HostInv, ClockInv
<1> QED
  BY <1>2, <1>3, <1>6 DEF HostInv

LEMMA InvPortAwaitAnimationFrame ==
  ASSUME HostInv, PortAwaitAnimationFrame
  PROVE  HostInv'
<1>1. where = "events" /\ where' \in {"pace", "exited"} /\ count' = count + 1 /\ ReadInput
  BY DEF PortAwaitAnimationFrame, Shutdown
<1>2. opts' = opts /\ now' = now /\ next' = next /\ begun' = begun
  BY DEF PortAwaitAnimationFrame, timeVars
<1>3. opts \in CommandLines /\ count \in Nat
  BY DEF HostInv, TypeInv
<1>4. Running
  BY <1>1 DEF Running
<1>5. TypeInv'
  BY <1>1, <1>2 DEF HostInv, TypeInv
<1>6. ScriptInv'
  <2>1. opts.mash.start >= 0 => opts.mash.period >= 2
    BY <1>4 DEF HostInv, ScriptInv
  <2>2. pressed = PressedBy(opts, count - 1)
    BY DEF HostInv, ScriptInv
  <2>3. pressed' = PressedBy(opts, count) /\ down' = live' \cup Scripted(opts, count)
    BY <1>1, <1>3, <2>1, <2>2, ReadsTheScript
  <2>4. count' - 1 = count
    BY <1>1, <1>3
  <2> QED
    BY <1>2, <2>1, <2>3, <2>4 DEF ScriptInv
<1>7. Paced = count
  BY <1>1 DEF Paced
<1>8. where' = "pace" => Paced' = count
  BY <1>1, <1>3 DEF Paced
<1>9. count' > 0
  BY <1>1, <1>3
<1>10. ClockInv'
  BY <1>1, <1>2, <1>4, <1>7, <1>8, <1>9 DEF HostInv, ClockInv, Running
<1> QED
  BY <1>5, <1>6, <1>10 DEF HostInv

LEMMA InvPaceFrame ==
  ASSUME HostInv, PaceFrame
  PROVE  HostInv'
<1>1. where = "pace" /\ where' \in {"game", "sleep"} /\ UNCHANGED <<opts, playVars, now>>
  BY DEF PaceFrame
<1>2. Period \in Nat \ {0} /\ Delay \in Nat \ {0}
  BY HostAssumption
<1>3. opts \in CommandLines /\ count \in Nat /\ now \in Nat \ {0} /\ next \in Nat /\ begun \in Nat /\ count > 0
  BY <1>1 DEF HostInv, TypeInv, ClockInv
<1>4. opts' = opts /\ count' = count /\ now' = now
  BY <1>1 DEF playVars
<1>5. Running /\ Running' /\ Paced = count - 1 /\ Paced' = count
  BY <1>1, <1>4 DEF Running, Paced
<1>6. ScriptInv'
  BY <1>1, <1>5, ScriptKept DEF HostInv
<1>7. CASE opts.turbo
  <2>1. where' = "game" /\ next' = next /\ begun' = begun
    BY <1>7 DEF PaceFrame
  <2>2. TypeInv'
    BY <1>3, <1>4, <2>1 DEF TypeInv
  <2>3. ClockInv'
    BY <1>4, <1>7, <2>1 DEF ClockInv
  <2> QED
    BY <1>6, <2>2, <2>3 DEF HostInv
<1>8. CASE ~opts.turbo
  <2> DEFINE due == (IF next = 0 THEN now ELSE next) + Period
  <2>1. /\ begun' = IF next = 0 THEN now ELSE begun
        /\ next'  = IF TooLate(now, due) THEN now ELSE due
        /\ where' = IF now < next' THEN "sleep" ELSE "game"
    BY <1>8 DEF PaceFrame
  <2>2. TooLate(now, due) <=> now > due + 4 * Period
    BY DEF TooLate
  <2>3. due \in Nat \ {0}
    BY <1>2, <1>3
  <2>4. next' \in Nat \ {0} /\ next' >= due /\ begun' \in Nat
    BY <1>2, <1>3, <2>1, <2>2, <2>3
  <2>5. (count - 1 = 0 => next = 0) /\ (count - 1 > 0 => next > 0 /\ begun + (count - 1) * Period <= next)
    BY <1>5, <1>8 DEF HostInv, ClockInv
  <2>6. begun' + count * Period <= due
    <3>1. CASE count = 1
      <4>1. next = 0
        BY <2>5, <3>1
      <4>2. due = now + Period /\ begun' = now
        BY <2>1, <4>1
      <4>3. count * Period = Period
        BY <1>2, <3>1
      <4> QED
        BY <1>2, <1>3, <4>2, <4>3
    <3>2. CASE count > 1
      <4>1. next > 0 /\ begun + (count - 1) * Period <= next
        BY <1>3, <2>5, <3>2
      <4>2. due = next + Period /\ begun' = begun
        BY <2>1, <4>1
      <4>3. count * Period = (count - 1) * Period + Period
        BY <1>2, <1>3
      <4>4. (count - 1) * Period \in Int
        BY <1>2, <1>3
      <4> QED
        BY <1>2, <1>3, <4>1, <4>2, <4>3, <4>4
    <3> QED
      BY <1>3, <3>1, <3>2
  <2>7. begun' + count * Period <= next'
    <3>1. count * Period \in Int
      BY <1>2, <1>3
    <3> HIDE DEF due
    <3> QED
      BY <2>3, <2>4, <2>6, <3>1
  <2>8. next' <= now => now <= next' + 4 * Period + Delay
    BY <1>2, <1>3, <2>1, <2>2, <2>3
  <2> HIDE DEF due
  <2>9. where' = "game" => next' <= now
    BY <1>3, <2>1, <2>4
  <2>10. where' = "sleep" => now < next'
    BY <2>1
  <2>11. TypeInv'
    BY <1>1, <1>3, <1>4, <2>4 DEF TypeInv
  <2>12. next' > 0
    BY <2>4
  <2>13. ClockInv'
    BY <1>1, <1>3, <1>4, <1>5, <1>8, <2>7, <2>8, <2>9, <2>10, <2>12 DEF ClockInv
  <2> QED
    BY <1>6, <2>11, <2>13 DEF HostInv
<1> QED
  BY <1>7, <1>8

LEMMA InvSleep ==
  ASSUME HostInv, Sleep
  PROVE  HostInv'
<1>1. where = "sleep" /\ UNCHANGED <<opts, playVars, next, begun>>
      /\ where' = IF now' < next THEN "sleep" ELSE "game"
  BY DEF Sleep
<1>2. PICK asked \in 0 .. next - now - 1, over \in 1 .. Delay : now' = now + asked + over
  BY DEF Sleep
<1>3. now \in Nat \ {0} /\ next \in Nat /\ Delay \in Nat /\ Period \in Nat
  BY HostAssumption DEF HostInv, TypeInv
<1>4. now' \in Nat \ {0} /\ now' <= next + Delay
  BY <1>2, <1>3
<1>5. opts' = opts /\ count' = count /\ next' = next /\ begun' = begun
  BY <1>1 DEF playVars
<1>6. TypeInv'
  BY <1>1, <1>4, <1>5 DEF HostInv, TypeInv
<1>7. Running /\ Running' /\ where' \in {"sleep", "game"}
  BY <1>1 DEF Running
<1>8. ScriptInv'
  BY <1>1, <1>7, ScriptKept DEF HostInv
<1>9. Paced = count /\ Paced' = count
  BY <1>1, <1>5, <1>7 DEF Paced
<1>10. where' = "game" => next' <= now' /\ now' <= next' + 4 * Period + Delay
  BY <1>1, <1>3, <1>4, <1>5
<1>11. where' = "sleep" => now' < next'
  BY <1>1, <1>5
<1>12. ClockInv'
  BY <1>1, <1>5, <1>7, <1>9, <1>10, <1>11 DEF HostInv, ClockInv
<1> QED
  BY <1>6, <1>8, <1>12 DEF HostInv

LEMMA InvUnchanged ==
  ASSUME HostInv, UNCHANGED hostVars
  PROVE  HostInv'
<1>1. where' = where /\ opts' = opts /\ UNCHANGED <<playVars, timeVars>>
  BY DEF hostVars
<1>2. count' = count /\ pressed' = pressed /\ down' = down /\ live' = live
      /\ now' = now /\ next' = next /\ begun' = begun
  BY <1>1 DEF playVars, timeVars
<1> QED
  BY <1>1, <1>2 DEF HostInv, TypeInv, ScriptInv, ClockInv, Running, Paced

-----------------------------------------------------------------------------
(* THE THEOREMS                                                            *)

(* The invariant holds in every state of the host.                         *)
THEOREM HostInvariant == HostSpec => []HostInv
<1>1. HostInv /\ [HostNext]_hostVars => HostInv'
  BY InvPortHostInit, InvPortAwaitRom, InvGameFrame, InvHandleEvents, InvPortAwaitAnimationFrame,
     InvPaceFrame, InvSleep, InvUnchanged DEF HostNext
<1> QED
  BY InitInv, <1>1, PTL DEF HostSpec

(* The game is never ahead of the clock nor further behind it than it may  *)
(* catch up, and it reads the script of its frame and what people hold:    *)
(* PaceFrame and ReadInput of host_sdl.c, for every command line.          *)
THEOREM StaysOnTimeAndOnScript == HostSpec => []OnTimeAndOnScript
<1>1. HostInv => OnTimeAndOnScript
  <2> SUFFICES ASSUME HostInv, where = "game", count > 0
               PROVE  /\ down = live \cup Scripted(opts, count - 1)
                      /\ ~opts.turbo => count * Period <= now - begun /\ now - next <= 4 * Period + Delay
    BY DEF OnTimeAndOnScript
  <2>1. down = live \cup Scripted(opts, count - 1)
    BY DEF HostInv, ScriptInv
  <2>2. ASSUME ~opts.turbo PROVE count * Period <= now - begun /\ now - next <= 4 * Period + Delay
    <3>1. Running /\ Paced = count
      BY DEF Running, Paced
    <3>2. next > 0 /\ begun + count * Period <= next /\ next <= now /\ now <= next + 4 * Period + Delay
      BY <2>2, <3>1 DEF HostInv, ClockInv
    <3>3. count \in Nat /\ now \in Nat /\ next \in Nat /\ begun \in Nat /\ Period \in Nat /\ Delay \in Nat
      BY HostAssumption DEF HostInv, TypeInv
    <3>4. count * Period \in Int /\ 4 * Period \in Int
      BY <3>3
    <3> QED
      BY <3>2, <3>3, <3>4
  <2> QED
    BY <2>1, <2>2
<1> QED
  BY HostInvariant, <1>1, PTL

-----------------------------------------------------------------------------
(* THE BIOS CALLS: NUMBERS                                                 *)

BiosSpec == CallInit /\ [][BiosNext]_biosVars

(* A set of numbers that is not empty has a least.                         *)
LEMMA LeastOf ==
  ASSUME NEW S \in SUBSET Nat, S # {}
  PROVE  \E q \in S : \A j \in S : q <= j
<1>1. PICK q \in S : \A j \in S : <<j, q>> \notin OpToRel(<, Nat)
  BY NatLessThanWellFounded, WFMin
<1>2. ASSUME NEW j \in S PROVE q <= j
  <2>1. <<j, q>> \notin {ss \in Nat \X Nat : ss[1] < ss[2]}
    BY <1>1 DEF OpToRel
  <2>2. j \in Nat /\ q \in Nat
    OBVIOUS
  <2> QED
    BY <2>1, <2>2
<1> QED
  BY <1>2

(* Min of a pair.                                                          *)
LEMMA LesserOfTwo ==
  ASSUME NEW a \in Int, NEW b \in Int
  PROVE  Min({a, b}) = IF a <= b THEN a ELSE b
<1>1. \E x \in {a, b} : \A y \in {a, b} : x <= y
  OBVIOUS
<1>2. Min({a, b}) \in {a, b} /\ \A y \in {a, b} : Min({a, b}) <= y
  BY <1>1 DEF Min
<1> QED
  BY <1>2

(* Quotient and remainder are the only ones.                               *)
LEMMA DivisionIs ==
  ASSUME NEW m \in Nat \ {0}, NEW q \in Int, NEW r \in 0 .. m - 1, NEW n \in Int, n = q * m + r
  PROVE  n \div m = q /\ n % m = r
<1>1. PICK k \in Int, x \in 0 .. m - 1 : k = n \div m /\ x = n % m
  BY Divides
<1>2. n = k * m + x
  BY <1>1, Divides
<1>3. k = q
  <2>1. CASE k < q
    <3>1. PICK d \in Nat : q = k + 1 + d
      <4>1. q - k - 1 \in Nat /\ q = k + 1 + (q - k - 1)
        BY <2>1
      <4> QED
        BY <4>1
    <3>2. q * m = k * m + m + d * m /\ d * m >= 0
      BY <3>1
    <3> QED
      BY <1>2, <3>2
  <2>2. CASE q < k
    <3>1. PICK d \in Nat : k = q + 1 + d
      <4>1. k - q - 1 \in Nat /\ k = q + 1 + (k - q - 1)
        BY <2>2
      <4> QED
        BY <4>1
    <3>2. k * m = q * m + m + d * m /\ d * m >= 0
      BY <3>1
    <3> QED
      BY <1>2, <3>2
  <2> QED
    BY <2>1, <2>2
<1> QED
  BY <1>1, <1>2, <1>3

(* Remainders of what is less than the divisor, and of the divisor more.   *)
LEMMA SmallRemainder ==
  ASSUME NEW m \in Nat \ {0}, NEW r \in 0 .. m - 1
  PROVE  r % m = r
<1>1. PICK n \in Int, z \in Int : n = r /\ z = 0
  OBVIOUS
<1>2. n = z * m + r
  BY <1>1
<1>3. n % m = r
  BY <1>2, DivisionIs
<1> QED
  BY <1>1, <1>3

LEMMA SameRemainder ==
  ASSUME NEW m \in Nat \ {0}, NEW n \in Int
  PROVE  (n + m) % m = n % m
<1>1. PICK q \in Int, r \in 0 .. m - 1 : n = q * m + r /\ n % m = r
  BY Divides
<1>2. PICK k \in Int, i \in Int : k = q + 1 /\ i = n + m
  OBVIOUS
<1>3. i = k * m + r
  <2>1. (q + 1) * m = q * m + m
    OBVIOUS
  <2> QED
    BY <1>1, <1>2, <2>1
<1>4. i % m = r
  BY <1>3, DivisionIs
<1> QED
  BY <1>1, <1>2, <1>4

-----------------------------------------------------------------------------
(* THE POWERS OF FOUR                                                      *)

(* Each is four times the one before.                                      *)
LEMMA PowersOf4 ==
  /\ PowerOf4 \in [0 .. Rounds -> Nat \ {0}] /\ PowerOf4[0] = 1
  /\ \A k \in 1 .. Rounds : PowerOf4[k] = 4 * PowerOf4[k - 1]
<1> DEFINE Is(f, m) == f = [k \in 0 .. m |-> IF k = 0 THEN 1 ELSE 4 * f[k - 1]]
           Good(m) == \E f \in [0 .. m -> Nat \ {0}] : Is(f, m)
           Bad == {m \in 0 .. Rounds : ~Good(m)}
<1>0. Rounds \in Nat
  BY BiosAssumption
<1>1. Good(0)
  <2> DEFINE f == [k \in 0 .. 0 |-> 1]
  <2>1. f \in [0 .. 0 -> Nat \ {0}]
    OBVIOUS
  <2>2. \A k \in 0 .. 0 : f[k] = IF k = 0 THEN 1 ELSE 4 * f[k - 1]
    OBVIOUS
  <2>3. Is(f, 0)
    BY <2>2
  <2> HIDE DEF f, Is
  <2> QED
    BY <2>1, <2>3
<1>2. ASSUME NEW m \in Nat, Good(m) PROVE Good(m + 1)
  <2>1. PICK f \in [0 .. m -> Nat \ {0}] : Is(f, m)
    BY <1>2
  <2>2. \A k \in 0 .. m : f[k] = IF k = 0 THEN 1 ELSE 4 * f[k - 1]
    BY <2>1
  <2> DEFINE g == [k \in 0 .. m + 1 |-> IF k = m + 1 THEN 4 * f[m] ELSE f[k]]
  <2>3. g \in [0 .. m + 1 -> Nat \ {0}]
    OBVIOUS
  <2>4. ASSUME NEW k \in 0 .. m + 1 PROVE g[k] = IF k = 0 THEN 1 ELSE 4 * g[k - 1]
    <3>1. CASE k = m + 1
      BY <3>1
    <3>2. CASE k # m + 1
      <4>1. k \in 0 .. m /\ (k # 0 => k - 1 \in 0 .. m /\ k - 1 # m + 1)
        BY <3>2
      <4> QED
        BY <2>2, <3>2, <4>1
    <3> QED
      BY <3>1, <3>2
  <2>5. Is(g, m + 1)
    BY <2>4
  <2> HIDE DEF g, Is
  <2> QED
    BY <2>3, <2>5
<1>3. Good(Rounds)
  <2> SUFFICES ASSUME ~Good(Rounds) PROVE FALSE
    OBVIOUS
  <2> HIDE DEF Good
  <2>1. Bad \in SUBSET Nat /\ Bad # {}
    BY <1>0
  <2>2. PICK m \in Bad : \A j \in Bad : m <= j
    <3> HIDE DEF Bad
    <3> QED
      BY <2>1, LeastOf
  <2>3. m \in 0 .. Rounds /\ ~Good(m) /\ m # 0
    BY <1>1
  <2>4. m - 1 \in 0 .. Rounds /\ m - 1 \in Nat /\ m - 1 + 1 = m
    BY <1>0, <2>3
  <2>6. m - 1 \notin Bad
    <3> HIDE DEF Bad
    <3>1. ~(m <= m - 1)
      BY <2>3
    <3> QED
      BY <2>2, <3>1
  <2>5. Good(m - 1)
    BY <2>4, <2>6
  <2> QED
    BY <1>2, <2>3, <2>4, <2>5
<1>4. PICK f \in [0 .. Rounds -> Nat \ {0}] : Is(f, Rounds)
  BY <1>3
<1>5. Is(PowerOf4, Rounds)
  BY <1>4 DEF PowerOf4
<1>6. \A k \in 0 .. Rounds : PowerOf4[k] = IF k = 0 THEN 1 ELSE 4 * PowerOf4[k - 1]
  BY <1>5
<1>7. \A k \in 0 .. Rounds : f[k] = IF k = 0 THEN 1 ELSE 4 * f[k - 1]
  BY <1>4
<1> DEFINE Differ == {k \in 0 .. Rounds : PowerOf4[k] # f[k]}
<1>8. Differ = {}
  <2> SUFFICES ASSUME Differ # {} PROVE FALSE
    OBVIOUS
  <2>1. Differ \in SUBSET Nat
    BY <1>0
  <2>2. PICK m \in Differ : \A j \in Differ : m <= j
    <3> HIDE DEF Differ
    <3> QED
      BY <2>1, LeastOf
  <2>3. m \in 1 .. Rounds
    BY <1>0, <1>6, <1>7
  <2>4. m - 1 \in 0 .. Rounds /\ m - 1 \notin Differ
    BY <1>0, <2>2, <2>3
  <2> QED
    BY <1>6, <1>7, <2>3, <2>4
<1>9. \A k \in 0 .. Rounds : PowerOf4[k] = f[k]
  BY <1>8
<1>10. DOMAIN PowerOf4 = 0 .. Rounds /\ PowerOf4 = [k \in 0 .. Rounds |-> PowerOf4[k]]
  <2>1. PowerOf4 = [k \in 0 .. Rounds |-> IF k = 0 THEN 1 ELSE 4 * PowerOf4[k - 1]]
    BY <1>5
  <2> QED
    BY <2>1, <1>6
<1>11. PowerOf4 \in [0 .. Rounds -> Nat \ {0}]
  BY <1>9, <1>10
<1>12. PowerOf4[0] = 1
  BY <1>0, <1>6
<1>13. ASSUME NEW k \in 1 .. Rounds PROVE PowerOf4[k] = 4 * PowerOf4[k - 1]
  BY <1>0, <1>6
<1> QED
  BY <1>11, <1>12, <1>13

(* They multiply as their exponents add.                                   *)
LEMMA PowersMultiply ==
  ASSUME NEW t \in 0 .. Rounds, NEW k \in 0 .. Rounds - t
  PROVE  PowerOf4[t] * PowerOf4[k] = PowerOf4[t + k]
<1>0. Rounds \in Nat
  BY BiosAssumption
<1> DEFINE Bad == {j \in 0 .. Rounds - t : PowerOf4[t] * PowerOf4[j] # PowerOf4[t + j]}
<1>1. Bad \in SUBSET Nat
  BY <1>0
<1> SUFFICES ASSUME Bad # {} PROVE FALSE
  OBVIOUS
<1>2. PICK m \in Bad : \A j \in Bad : m <= j
  <2> HIDE DEF Bad
  <2> QED
    BY <1>1, LeastOf
<1>3. m \in 0 .. Rounds - t /\ PowerOf4[t] * PowerOf4[m] # PowerOf4[t + m]
  OBVIOUS
<1>4. PICK a \in Nat : a = PowerOf4[t]
  BY PowersOf4
<1>5. m # 0
  <2>1. a * 1 = a /\ t + 0 = t
    BY <1>0
  <2> QED
    BY <1>3, <1>4, <2>1, PowersOf4
<1>6. m - 1 \in 0 .. Rounds - t /\ t + (m - 1) \in 0 .. Rounds
  BY <1>0, <1>3, <1>5
<1>7. m - 1 \notin Bad
  <2>1. ~(m <= m - 1)
    BY <1>0, <1>3
  <2> HIDE DEF Bad
  <2> QED
    BY <1>2, <2>1
<1>8. a * PowerOf4[m - 1] = PowerOf4[t + (m - 1)]
  BY <1>4, <1>6, <1>7
<1>9. m \in 1 .. Rounds /\ t + m \in 1 .. Rounds /\ (t + m) - 1 = t + (m - 1) /\ m - 1 \in 0 .. Rounds
  BY <1>0, <1>3, <1>5
<1>10. PowerOf4[m] = 4 * PowerOf4[m - 1] /\ PowerOf4[t + m] = 4 * PowerOf4[t + (m - 1)]
  BY <1>9, PowersOf4
<1>11. PICK b \in Nat, c \in Nat : b = PowerOf4[m - 1] /\ c = PowerOf4[t + (m - 1)]
  BY <1>6, <1>9, PowersOf4
<1>12. a * b = c /\ a * (4 * b) # 4 * c
  BY <1>3, <1>4, <1>8, <1>10, <1>11
<1>13. a * (4 * b) = 4 * (a * b)
  OBVIOUS
<1> QED
  BY <1>12, <1>13

-----------------------------------------------------------------------------
(* THE SQUARE ROOT                                                         *)

(* After t rounds the first t bit pairs of n, which are high, have been    *)
(* taken: s is their root and m what is left of them, and the other pairs, *)
(* which are low, are at the top of u.                                     *)
Rooted(n, t, u, rt, m) ==
  \E high, low, s \in Nat :
    /\ n = high * PowerOf4[Rounds - t] + low /\ low < PowerOf4[Rounds - t]
    /\ u = low * PowerOf4[t] /\ rt = 2 * s
    /\ m \in Nat /\ high = s * s + m /\ m <= 2 * s

(* The two bits at the top of the low ones.                                *)
LEMMA TwoBits ==
  ASSUME NEW w \in Nat \ {0}, NEW p \in Nat \ {0}, NEW low \in Nat, low < 4 * w
  PROVE  \E q \in 0 .. 3, less \in 0 .. w - 1 :
           /\ low = q * w + less
           /\ (low * p) \div (p * w) = q /\ ((low * p) * 4) % (4 * (p * w)) = less * (4 * p)
<1>1. PICK q \in Int, less \in 0 .. w - 1 : low = q * w + less
  <2>1. low \in Int
    OBVIOUS
  <2>2. low \div w \in Int /\ low % w \in 0 .. w - 1 /\ low = (low \div w) * w + (low % w)
    BY <2>1, Divides
  <2> QED
    BY <2>2
<1>2. q < 4
  <2> SUFFICES ASSUME q >= 4 PROVE FALSE
    BY <1>1
  <2>1. PICK d \in Nat : q = 4 + d
    <3>1. q - 4 \in Nat /\ q = 4 + (q - 4)
      BY <1>1
    <3> QED
      BY <3>1
  <2>2. q * w = 4 * w + d * w /\ d * w >= 0
    BY <2>1
  <2> QED
    BY <1>1, <2>2
<1>3. q >= 0
  <2> SUFFICES ASSUME q < 0 PROVE FALSE
    BY <1>1
  <2>1. PICK d \in Nat : q = 0 - 1 - d
    <3>1. 0 - 1 - q \in Nat /\ q = 0 - 1 - (0 - 1 - q)
      BY <1>1
    <3> QED
      BY <3>1
  <2>2. q * w = 0 - w - d * w /\ d * w >= 0
    BY <2>1
  <2> QED
    BY <1>1, <2>2
<1>4. p * w \in Nat \ {0} /\ less * p \in 0 .. p * w - 1
  <2>1. PICK d \in Nat : w = less + 1 + d
    <3>1. w - less - 1 \in Nat /\ w = less + 1 + (w - less - 1)
      OBVIOUS
    <3> QED
      BY <3>1
  <2>2. p * w = less * p + p + d * p /\ d * p >= 0 /\ less * p \in Nat /\ d * p \in Nat
    BY <2>1
  <2> QED
    BY <2>2
<1>5. PICK a \in Nat \ {0} : a = p * w
  BY <1>4
<1>6. PICK b \in 0 .. a - 1 : b = less * p
  BY <1>4, <1>5
<1>7. PICK u \in Nat : u = low * p
  OBVIOUS
<1>8. u = q * a + b
  <2>1. (q * w + less) * p = q * (p * w) + less * p
    OBVIOUS
  <2> QED
    BY <1>1, <1>5, <1>6, <1>7, <2>1
<1>9. u \div a = q
  BY <1>8, DivisionIs
<1>10. (u * 4) % (4 * a) = 4 * b
  <2>1. PICK x \in Nat \ {0} : x = 4 * a
    OBVIOUS
  <2>2. PICK y \in 0 .. x - 1 : y = 4 * b
    <3>1. 4 * b \in 0 .. 4 * a - 1
      OBVIOUS
    <3> QED
      BY <2>1, <3>1
  <2>3. PICK z \in Int : z = u * 4
    OBVIOUS
  <2>4. z = q * x + y
    <3>1. q * (4 * a) = 4 * (q * a)
      OBVIOUS
    <3> QED
      BY <1>8, <2>1, <2>2, <2>3, <3>1
  <2>5. z % x = y
    BY <2>4, DivisionIs
  <2> QED
    BY <2>1, <2>2, <2>3, <2>5
<1>11. 4 * b = less * (4 * p)
  BY <1>6
<1>12. q \in 0 .. 3
  BY <1>2, <1>3
<1> QED
  BY <1>1, <1>5, <1>7, <1>9, <1>10, <1>11, <1>12

(* Taking two bits more.                                                   *)
LEMMA OneRound ==
  ASSUME NEW n \in Nat, NEW t \in 0 .. Rounds - 1, NEW u, NEW rt, NEW m, Rooted(n, t, u, rt, m)
  PROVE  LET r == 4 * m + u \div PowerOf4[Rounds - 1]
         IN  IF 2 * rt < r THEN Rooted(n, t + 1, (u * 4) % Word, 2 * rt + 2, r - (2 * rt + 1))
             ELSE Rooted(n, t + 1, (u * 4) % Word, 2 * rt, r)
<1>0. Rounds \in Nat \ {0}
  BY BiosAssumption
<1>1. PICK high, low, s \in Nat :
        /\ n = high * PowerOf4[Rounds - t] + low /\ low < PowerOf4[Rounds - t]
        /\ u = low * PowerOf4[t] /\ rt = 2 * s
        /\ m \in Nat /\ high = s * s + m /\ m <= 2 * s
  BY DEF Rooted
<1>2. /\ Rounds - t \in 1 .. Rounds /\ Rounds - (t + 1) = Rounds - t - 1 /\ Rounds - t - 1 \in 0 .. Rounds
      /\ t \in 0 .. Rounds /\ t + 1 \in 1 .. Rounds /\ t + 1 - 1 = t
      /\ Rounds - 1 \in 0 .. Rounds /\ Rounds \in 1 .. Rounds /\ Rounds - t - 1 \in 0 .. Rounds - t
      /\ t + (Rounds - t - 1) = Rounds - 1
  BY <1>0
<1>3. PICK w \in Nat \ {0}, p \in Nat \ {0} : w = PowerOf4[Rounds - t - 1] /\ p = PowerOf4[t]
  BY <1>2, PowersOf4
<1>4. PowerOf4[Rounds - t] = 4 * w /\ PowerOf4[t + 1] = 4 * p /\ PowerOf4[Rounds - (t + 1)] = w
  <2>1. PowerOf4[Rounds - t] = 4 * PowerOf4[Rounds - t - 1]
    BY <1>2, PowersOf4
  <2>2. PowerOf4[t + 1] = 4 * PowerOf4[t + 1 - 1]
    BY <1>2, PowersOf4
  <2> QED
    BY <1>2, <1>3, <2>1, <2>2
<1>5. p * w = PowerOf4[Rounds - 1] /\ p * w \in Nat \ {0}
  <2>1. PowerOf4[t] * PowerOf4[Rounds - t - 1] = PowerOf4[t + (Rounds - t - 1)]
    BY <1>2, PowersMultiply
  <2> QED
    BY <1>2, <1>3, <2>1, PowersOf4
<1>6. Word = 4 * (p * w) /\ Word \in Nat \ {0}
  BY <1>2, <1>5, PowersOf4 DEF Word
<1>7. PICK q \in 0 .. 3, less \in 0 .. w - 1 :
        /\ low = q * w + less
        /\ (low * p) \div (p * w) = q /\ ((low * p) * 4) % (4 * (p * w)) = less * (4 * p)
  <2>1. low < 4 * w
    BY <1>1, <1>4
  <2> QED
    BY <2>1, TwoBits
<1>10. u \div PowerOf4[Rounds - 1] = q
  BY <1>1, <1>3, <1>5, <1>7
<1>11. (u * 4) % Word = less * (4 * p)
  BY <1>1, <1>3, <1>6, <1>7
<1>12. PICK r \in Nat : r = 4 * m + q /\ r = 4 * m + u \div PowerOf4[Rounds - 1]
  BY <1>1, <1>10
<1>13. PICK up \in Nat : up = 4 * high + q /\ up = 4 * (s * s) + r
  BY <1>1, <1>12
<1>14. n = up * PowerOf4[Rounds - (t + 1)] + less /\ less < PowerOf4[Rounds - (t + 1)]
  <2>1. (4 * high + q) * w + less = high * (4 * w) + (q * w + less)
    OBVIOUS
  <2> QED
    BY <1>1, <1>4, <1>7, <1>13, <2>1
<1>15. (u * 4) % Word = less * PowerOf4[t + 1] /\ less \in Nat
  BY <1>4, <1>11
<1>16. CASE 2 * rt < r
  <2>1. 4 * s + 1 <= r /\ 2 * rt = 4 * s
    BY <1>1, <1>12, <1>16
  <2>2. PICK m2 \in Nat, s2 \in Nat : m2 = r - (2 * rt + 1) /\ s2 = 2 * s + 1
    BY <1>12, <2>1
  <2>3. s2 * s2 = 4 * (s * s) + 4 * s + 1
    BY <2>2
  <2>4. up = s2 * s2 + m2
    BY <1>13, <2>1, <2>2, <2>3
  <2>5. m2 <= 2 * s2
    BY <1>1, <1>12, <2>1, <2>2
  <2>6. 2 * rt + 2 = 2 * s2
    BY <2>1, <2>2
  <2>7. Rooted(n, t + 1, (u * 4) % Word, 2 * rt + 2, r - (2 * rt + 1))
    BY <1>14, <1>15, <2>2, <2>4, <2>5, <2>6 DEF Rooted
  <2> QED
    BY <1>12, <1>16, <2>7
<1>17. CASE ~(2 * rt < r)
  <2>1. r <= 4 * s /\ 2 * rt = 4 * s
    BY <1>1, <1>12, <1>17
  <2>2. PICK s2 \in Nat : s2 = 2 * s
    OBVIOUS
  <2>3. s2 * s2 = 4 * (s * s)
    BY <2>2
  <2>4. up = s2 * s2 + r /\ r <= 2 * s2 /\ 2 * rt = 2 * s2
    BY <1>13, <2>1, <2>2, <2>3
  <2>5. Rooted(n, t + 1, (u * 4) % Word, 2 * rt, r)
    BY <1>14, <1>15, <2>4 DEF Rooted
  <2> QED
    BY <1>12, <1>17, <2>5
<1> QED
  BY <1>16, <1>17

(* Before the first round.                                                 *)
LEMMA NoRound ==
  ASSUME NEW n \in 0 .. Word - 1
  PROVE  Rooted(n, 0, n, 0, 0)
<1>1. Rounds \in Nat /\ Rounds - 0 = Rounds /\ 0 \in 0 .. Rounds /\ Rounds \in 0 .. Rounds
  BY BiosAssumption
<1>2. PICK w \in Nat : w = PowerOf4[Rounds] /\ n < w /\ n \in Nat /\ w = Word
  BY <1>1, PowersOf4 DEF Word
<1>3. n = 0 * w + n /\ n = n * 1 /\ 0 = 2 * 0 /\ 0 = 0 * 0 + 0 /\ 0 <= 2 * 0
  BY <1>2
<1>4. PowerOf4[0] = 1 /\ PowerOf4[Rounds - 0] = w
  BY <1>1, <1>2, PowersOf4
<1> QED
  BY <1>2, <1>3, <1>4 DEF Rooted

(* After the last.                                                         *)
LEMMA AllRounds ==
  ASSUME NEW n \in Nat, NEW u, NEW rt, NEW m, Rooted(n, Rounds, u, rt, m)
  PROVE  LET r == rt \div 2 IN r * r <= n /\ n < (r + 1) * (r + 1)
<1>1. Rounds - Rounds = 0
  BY BiosAssumption
<1>2. PICK high, low, s \in Nat :
        /\ n = high * 1 + low /\ low < 1 /\ rt = 2 * s
        /\ m \in Nat /\ high = s * s + m /\ m <= 2 * s
  BY <1>1, PowersOf4 DEF Rooted
<1>3. rt \div 2 = s
  <2>1. rt = s * 2 + 0 /\ rt \in Int /\ 0 \in 0 .. 2 - 1 /\ 2 \in Nat \ {0}
    BY <1>2
  <2> QED
    BY <2>1, DivisionIs
<1>4. (s + 1) * (s + 1) = s * s + 2 * s + 1
  OBVIOUS
<1>5. n = s * s + m
  BY <1>2
<1> QED
  BY <1>2, <1>3, <1>4, <1>5


-----------------------------------------------------------------------------
(* WHAT A TOKEN BRINGS                                                     *)

(* What is left of a sequence, a member at a time.                         *)
LEMMA NextOf ==
  ASSUME NEW S, NEW s \in Seq(S), NEW p \in 0 .. Len(s) - 1
  PROVE  /\ Head(SubSeq(s, p + 1, Len(s))) = s[p + 1] /\ s[p + 1] \in S
         /\ Tail(SubSeq(s, p + 1, Len(s))) = SubSeq(s, p + 2, Len(s))
<1>1. Len(s) \in Nat /\ p + 1 \in 1 .. Len(s) /\ Len(s) \in p + 1 .. Len(s) /\ p + 1 + 1 = p + 2
  OBVIOUS
<1>2. /\ Head(SubSeq(s, p + 1, Len(s))) = s[p + 1]
      /\ Tail(SubSeq(s, p + 1, Len(s))) = SubSeq(s, p + 1 + 1, Len(s))
  BY <1>1, HeadTailOfSubSeq
<1>3. s[p + 1] \in S
  BY <1>1
<1> QED
  BY <1>1, <1>2, <1>3

(* A beginning of d, and what comes next in d.                             *)
LEMMA Onward ==
  ASSUME NEW d \in Seq(Bytes), NEW a \in 0 .. Len(d), NEW b \in a .. Len(d),
         NEW t \in Seq(Bytes), Len(t) = b - a, \A k \in 1 .. b - a : t[k] = d[a + k]
  PROVE  SubSeq(d, 1, a) \o t = SubSeq(d, 1, b)
<1> DEFINE head == SubSeq(d, 1, a)
           more == SubSeq(d, 1, b)
<1>1. head \in Seq(Bytes) /\ Len(head) = a /\ \A x \in 1 .. a : head[x] = d[x]
  OBVIOUS
<1>2. more \in Seq(Bytes) /\ Len(more) = b /\ \A x \in 1 .. b : more[x] = d[x]
  OBVIOUS
<1> HIDE DEF head, more
<1>0. a \in Nat /\ b \in Nat /\ a <= b /\ a + (b - a) = b
  OBVIOUS
<1>3. head \o t \in Seq(Bytes) /\ Len(head \o t) = b
  <2>1. head \o t \in Seq(Bytes) /\ Len(head \o t) = Len(head) + Len(t)
    <3>1. head \in Seq(Bytes)
      BY <1>1
    <3> QED
      BY <3>1, ConcatProperties
  <2> QED
    BY <1>0, <1>1, <2>1
<1>4. ASSUME NEW x \in 1 .. b PROVE (head \o t)[x] = more[x]
  <2>1. CASE x <= a
    BY <1>1, <1>2, <2>1
  <2>2. CASE x > a
    <3>1. x - a \in 1 .. b - a /\ a + (x - a) = x
      BY <2>2
    <3>2. (head \o t)[x] = t[x - a]
      BY <1>1, <2>2, <3>1
    <3>3. t[x - a] = d[a + (x - a)]
      BY <3>1
    <3> QED
      BY <1>2, <3>1, <3>2, <3>3
  <2>3. x <= a \/ x > a
    BY <1>0
  <2> QED
    BY <2>1, <2>2, <2>3
<1>5. head \o t = more
  BY <1>2, <1>3, <1>4, SeqEqual
<1> QED
  BY <1>5 DEF head, more

(* One step back by disp is many steps back by disp: a copy that is longer *)
(* than its distance repeats what it copies.                               *)
LEMMA Repeats ==
  ASSUME NEW d, NEW a \in Nat, NEW b \in Nat, a <= b, NEW disp \in 1 .. a,
         \A k \in a + 1 .. b : d[k] = d[k - disp]
  PROVE  \A j \in 1 .. b - a : d[a + j] = d[a - disp + 1 + ((j - 1) % disp)]
<1> DEFINE Bad == {j \in 1 .. b - a : d[a + j] # d[a - disp + 1 + ((j - 1) % disp)]}
<1> SUFFICES ASSUME Bad # {} PROVE FALSE
  OBVIOUS
<1>1. Bad \in SUBSET Nat
  OBVIOUS
<1>2. PICK m \in Bad : \A j \in Bad : m <= j
  <2> HIDE DEF Bad
  <2> QED
    BY <1>1, LeastOf
<1>3. m \in 1 .. b - a /\ d[a + m] # d[a - disp + 1 + ((m - 1) % disp)]
  OBVIOUS
<1>4. d[a + m] = d[a + m - disp]
  <2>1. a + m \in a + 1 .. b
    BY <1>3
  <2> QED
    BY <2>1
<1>5. CASE m <= disp
  <2>1. PICK x \in 0 .. disp - 1 : x = m - 1
    BY <1>3, <1>5
  <2>2. (m - 1) % disp = m - 1
    <3>1. PICK e \in Nat \ {0} : e = disp
      OBVIOUS
    <3>2. x % e = x
      BY <3>1, SmallRemainder
    <3> QED
      BY <2>1, <3>1, <3>2
  <2>3. a - disp + 1 + (m - 1) = a + m - disp
    BY <1>3
  <2> QED
    BY <1>3, <1>4, <2>2, <2>3
<1>6. CASE m > disp
  <2>1. PICK i \in 1 .. b - a : i = m - disp /\ m = i + disp /\ i < m
    BY <1>3, <1>6
  <2>2. i \notin Bad
    <3> HIDE DEF Bad
    <3>1. ~(m <= i)
      BY <1>3, <2>1
    <3> QED
      BY <1>2, <3>1
  <2>3. d[a + i] = d[a - disp + 1 + ((i - 1) % disp)]
    BY <2>2
  <2>4. (m - 1) % disp = (i - 1) % disp
    <3>1. PICK e \in Nat \ {0}, n \in Int : e = disp /\ n = i - 1
      BY <2>1
    <3>2. (n + e) % e = n % e
      BY SameRemainder
    <3>3. n + e = m - 1
      BY <2>1, <3>1
    <3> QED
      BY <3>1, <3>2, <3>3
  <2>5. a + m - disp = a + i
    BY <2>1
  <2> QED
    BY <1>3, <1>4, <2>3, <2>4, <2>5
<1> QED
  BY <1>3, <1>5, <1>6

(* So the copy is what comes next.                                         *)
LEMMA CopyGoesOn ==
  ASSUME NEW d \in Seq(Bytes), NEW a \in 0 .. Len(d), NEW b \in a .. Len(d), NEW disp \in 1 .. a,
         \A k \in a + 1 .. b : d[k] = d[k - disp]
  PROVE  Moved(SubSeq(d, 1, a), b - a, disp) = SubSeq(d, 1, b)
<1> DEFINE head == SubSeq(d, 1, a)
           t == [k \in 1 .. b - a |-> head[Len(head) - disp + 1 + ((k - 1) % disp)]]
<1>1. head \in Seq(Bytes) /\ Len(head) = a /\ \A x \in 1 .. a : head[x] = d[x]
  OBVIOUS
<1> HIDE DEF head
<1>2. ASSUME NEW k \in 1 .. b - a
      PROVE  t[k] = d[a + k] /\ t[k] \in Bytes
  <2>1. (k - 1) % disp \in 0 .. disp - 1
    <3>1. k - 1 \in Int /\ disp \in Nat \ {0}
      OBVIOUS
    <3> QED
      BY <3>1, Divides
  <2>2. PICK r \in 0 .. disp - 1 : r = (k - 1) % disp
    BY <2>1
  <2>3. a - disp + 1 + r \in 1 .. a
    BY <2>2
  <2>4. t[k] = d[a - disp + 1 + ((k - 1) % disp)]
    BY <1>1, <2>2, <2>3
  <2>5. d[a + k] = d[a - disp + 1 + ((k - 1) % disp)]
    <3>1. a \in Nat /\ b \in Nat /\ a <= b
      OBVIOUS
    <3>2. \A j \in 1 .. b - a : d[a + j] = d[a - disp + 1 + ((j - 1) % disp)]
      BY <3>1, Repeats, ZenonT(30)
    <3> QED
      BY <3>2, Zenon
  <2>6. d[a + k] \in Bytes
    OBVIOUS
  <2> QED
    BY <2>4, <2>5, <2>6
<1>3. t \in Seq(Bytes) /\ Len(t) = b - a
  BY <1>2
<1>4. Moved(head, b - a, disp) = head \o t
  BY DEF Moved
<1> HIDE DEF t
<1>5. head \o t = SubSeq(d, 1, b)
  BY <1>2, <1>3, Onward DEF head
<1> QED
  BY <1>4, <1>5 DEF head


(* What a packer writes, and what it writes of the bytes from a to b of d. *)
Tokens ==
  [type : {"literal"}, byte : Bytes] \cup [type : {"copy"}, len : Nat, disp : Nat]
    \cup [type : {"run"}, len : Nat, byte : Bytes] \cup [type : {"raw"}, bytes : Seq(Bytes)]

Says(d, token, a, b) ==
  /\ a < b /\ b <= Len(d)
  /\ \/ token.type = "literal" /\ b = a + 1 /\ token.byte = d[b]
     \/ /\ token.type = "copy" /\ token.len \in Nat /\ b = Min({a + token.len, Len(d)})
        /\ token.disp \in 1 .. a /\ \A k \in a + 1 .. b : d[k] = d[k - token.disp]
     \/ /\ token.type = "run" /\ token.len \in Nat /\ b = Min({a + token.len, Len(d)})
        /\ \A k \in a + 1 .. b : token.byte = d[k]
     \/ token.type = "raw" /\ token.bytes = SubSeq(d, a + 1, b)

(* Each brings what it is said to.                                         *)
LEMMA LiteralGoesOn ==
  ASSUME NEW d \in Seq(Bytes), NEW a \in 0 .. Len(d), NEW b \in 0 .. Len(d), NEW token,
         Says(d, token, a, b), token.type = "literal"
  PROVE  Append(SubSeq(d, 1, a), token.byte) = SubSeq(d, 1, b)
<1>1. b = a + 1 /\ token.byte = d[b] /\ b \in 1 .. Len(d)
  BY DEF Says
<1>2. PICK x \in Bytes : x = d[b] /\ x = token.byte
  BY <1>1
<1> DEFINE head == SubSeq(d, 1, a)
<1>3. head \in Seq(Bytes) /\ <<x>> \in Seq(Bytes) /\ Len(<<x>>) = b - a
  BY <1>1
<1>4. \A k \in 1 .. b - a : <<x>>[k] = d[a + k]
  BY <1>1, <1>2
<1>5. head \o <<x>> = SubSeq(d, 1, b)
  <2>1. b \in a .. Len(d)
    BY <1>1
  <2> QED
    BY <1>3, <1>4, <2>1, Onward
<1>6. Append(head, x) = head \o <<x>>
  <2> HIDE DEF head
  <2> QED
    BY <1>3, AppendIsConcat
<1> QED
  BY <1>2, <1>5, <1>6

(* As many bytes as are still missing.                                     *)
LEMMA Missing ==
  ASSUME NEW a \in Nat, NEW b \in Nat, NEW n \in Nat, NEW s \in Nat, b = Min({a + n, s}), a < b
  PROVE  Min({n, s - a}) = b - a
<1>1. Min({a + n, s}) = IF a + n <= s THEN a + n ELSE s
  BY LesserOfTwo
<1>2. Min({n, s - a}) = IF n <= s - a THEN n ELSE s - a
  <2>1. PICK c \in Int : c = s - a
    OBVIOUS
  <2>2. Min({n, c}) = IF n <= c THEN n ELSE c
    BY LesserOfTwo
  <2> QED
    BY <2>1, <2>2
<1> QED
  BY <1>1, <1>2

(* A copy, a run and raw bytes bring what comes next, and stop at the end. *)
LEMMA MovedGoesOn ==
  ASSUME NEW d \in Seq(Bytes), NEW a \in 0 .. Len(d), NEW b \in 0 .. Len(d), NEW token,
         Says(d, token, a, b), token.type = "copy"
  PROVE  Moved(SubSeq(d, 1, a), Min({token.len, Len(d) - a}), token.disp) = SubSeq(d, 1, b)
<1>1. /\ token.len \in Nat /\ b = Min({a + token.len, Len(d)}) /\ a < b
      /\ token.disp \in 1 .. a /\ \A k \in a + 1 .. b : d[k] = d[k - token.disp]
  BY DEF Says
<1>2. PICK n \in Nat, disp \in 1 .. a : n = token.len /\ disp = token.disp
  BY <1>1
<1>3. a \in Nat /\ b \in Nat /\ Len(d) \in Nat /\ b \in a .. Len(d)
  BY <1>1
<1>4. Min({n, Len(d) - a}) = b - a
  <2>1. PICK s \in Nat : s = Len(d)
    BY <1>3
  <2>2. b = Min({a + n, s}) /\ a < b
    BY <1>1, <1>2, <2>1
  <2>3. n \in Nat /\ a \in Nat /\ b \in Nat
    BY <1>2, <1>3
  <2>4. Min({n, s - a}) = b - a
    BY <2>2, <2>3, Missing
  <2> QED
    BY <2>1, <2>4
<1>5. \A k \in a + 1 .. b : d[k] = d[k - disp]
  BY <1>1, <1>2
<1>6. Moved(SubSeq(d, 1, a), b - a, disp) = SubSeq(d, 1, b)
  BY <1>3, <1>5, CopyGoesOn
<1> QED
  BY <1>2, <1>4, <1>6

LEMMA RunGoesOn ==
  ASSUME NEW d \in Seq(Bytes), NEW a \in 0 .. Len(d), NEW b \in 0 .. Len(d), NEW token,
         Says(d, token, a, b), token.type = "run"
  PROVE  SubSeq(d, 1, a) \o [k \in 1 .. Min({token.len, Len(d) - a}) |-> token.byte] = SubSeq(d, 1, b)
<1>1. /\ token.len \in Nat /\ b = Min({a + token.len, Len(d)}) /\ a < b
      /\ \A k \in a + 1 .. b : token.byte = d[k]
  BY DEF Says
<1>2. PICK n, x : n \in Nat /\ n = token.len /\ x = token.byte
  BY <1>1
<1>3. a \in Nat /\ b \in Nat /\ Len(d) \in Nat /\ b \in a .. Len(d)
  BY <1>1
<1>4. Min({n, Len(d) - a}) = b - a
  <2>1. PICK s \in Nat : s = Len(d)
    BY <1>3
  <2>2. b = Min({a + n, s}) /\ a < b
    BY <1>1, <1>2, <2>1
  <2>3. n \in Nat /\ a \in Nat /\ b \in Nat
    BY <1>2, <1>3
  <2>4. Min({n, s - a}) = b - a
    BY <2>2, <2>3, Missing
  <2> QED
    BY <2>1, <2>4
<1> DEFINE t == [k \in 1 .. b - a |-> x]
<1>5. ASSUME NEW k \in 1 .. b - a PROVE t[k] = d[a + k] /\ t[k] \in Bytes
  <2>1. a + k \in a + 1 .. b /\ a + k \in 1 .. Len(d)
    BY <1>3
  <2>2. x = d[a + k]
    BY <1>1, <1>2, <2>1
  <2>3. d[a + k] \in Bytes
    BY <2>1
  <2>4. t[k] = x
    OBVIOUS
  <2> QED
    BY <2>2, <2>3, <2>4
<1>6. t \in Seq(Bytes) /\ Len(t) = b - a
  BY <1>3, <1>5
<1> HIDE DEF t
<1>7. SubSeq(d, 1, a) \o t = SubSeq(d, 1, b)
  BY <1>3, <1>5, <1>6, Onward
<1> QED
  BY <1>2, <1>4, <1>7 DEF t

LEMMA RawGoesOn ==
  ASSUME NEW d \in Seq(Bytes), NEW a \in 0 .. Len(d), NEW b \in 0 .. Len(d), NEW token,
         Says(d, token, a, b), token.type = "raw"
  PROVE  SubSeq(d, 1, a) \o SubSeq(token.bytes, 1, Min({Len(token.bytes), Len(d) - a})) = SubSeq(d, 1, b)
<1>1. a < b /\ token.bytes = SubSeq(d, a + 1, b)
  BY DEF Says
<1>2. a \in Nat /\ b \in Nat /\ Len(d) \in Nat /\ b \in a .. Len(d)
  BY <1>1
<1>3. PICK t \in Seq(Bytes) : t = token.bytes /\ Len(t) = b - a /\ \A k \in 1 .. b - a : t[k] = d[a + k]
  <2> DEFINE t == SubSeq(d, a + 1, b)
  <2>1. t \in Seq(Bytes)
    BY <1>2
  <2>2. Len(t) = b - a
    BY <1>1, <1>2
  <2>3. ASSUME NEW k \in 1 .. b - a PROVE t[k] = d[a + k]
    <3>1. k \in 1 .. Len(t) /\ a + 1 + k - 1 = a + k
      BY <1>2, <2>2
    <3> QED
      BY <1>2, <3>1
  <2> HIDE DEF t
  <2>4. t = token.bytes
    BY <1>1 DEF t
  <2> QED
    BY <2>1, <2>2, <2>3, <2>4
<1>4. Min({Len(t), Len(d) - a}) = Len(t)
  <2>1. PICK c \in Int : c = Len(d) - a /\ Len(t) <= c /\ Len(t) \in Int
    BY <1>2, <1>3
  <2> QED
    BY <2>1, LesserOfTwo
<1>5. SubSeq(t, 1, Len(t)) = t
  BY SubSeqFull
<1>6. SubSeq(d, 1, a) \o t = SubSeq(d, 1, b)
  BY <1>2, <1>3, Onward
<1> QED
  BY <1>3, <1>4, <1>5, <1>6


-----------------------------------------------------------------------------
(* PACKED DATA                                                             *)

(* The tokens T pack the first u bytes of d: token k brings those from     *)
(* at[k - 1] to at[k].                                                     *)
Packs(d, kinds, T, at, u) ==
  /\ T \in Seq(Tokens) /\ at \in [0 .. Len(T) -> 0 .. Len(d)] /\ at[0] = 0 /\ at[Len(T)] = u
  /\ \A k \in 1 .. Len(T) : T[k].type \in kinds /\ Says(d, T[k], at[k - 1], at[k])

LEMMA OneTokenMore ==
  ASSUME NEW d, NEW kinds, NEW T, NEW at, NEW u, NEW token \in Tokens, NEW v \in 0 .. Len(d),
         Packs(d, kinds, T, at, u), token.type \in kinds, Says(d, token, u, v)
  PROVE  \E on : Packs(d, kinds, Append(T, token), on, v)
<1> DEFINE on == [k \in 0 .. Len(T) + 1 |-> IF k = Len(T) + 1 THEN v ELSE at[k]]
           M == Append(T, token)
<1>1. /\ T \in Seq(Tokens) /\ at \in [0 .. Len(T) -> 0 .. Len(d)] /\ at[0] = 0 /\ at[Len(T)] = u
      /\ \A k \in 1 .. Len(T) : T[k].type \in kinds /\ Says(d, T[k], at[k - 1], at[k])
  BY DEF Packs
<1>2. M \in Seq(Tokens) /\ Len(M) = Len(T) + 1 /\ M[Len(T) + 1] = token /\ \A k \in 1 .. Len(T) : M[k] = T[k]
  BY <1>1
<1>3. Len(T) \in Nat
  BY <1>1
<1>4. on \in [0 .. Len(T) + 1 -> 0 .. Len(d)] /\ on[0] = 0 /\ on[Len(T) + 1] = v /\ on[Len(T)] = u
  BY <1>1, <1>3
<1>5. \A k \in 0 .. Len(T) : on[k] = at[k]
  BY <1>3
<1> HIDE DEF on, M
<1>6. ASSUME NEW k \in 1 .. Len(M) PROVE M[k].type \in kinds /\ Says(d, M[k], on[k - 1], on[k])
  <2>1. CASE k = Len(T) + 1
    <3>1. k - 1 = Len(T)
      BY <1>3, <2>1
    <3> QED
      BY <1>2, <1>4, <2>1, <3>1
  <2>2. CASE k # Len(T) + 1
    <3>1. k \in 1 .. Len(T) /\ k \in 0 .. Len(T) /\ k - 1 \in 0 .. Len(T)
      BY <1>2, <1>3, <2>2
    <3> QED
      BY <1>1, <1>2, <1>5, <3>1
  <2> QED
    BY <2>1, <2>2
<1>7. Packs(d, kinds, M, on, v)
  BY <1>2, <1>4, <1>6 DEF Packs
<1> QED
  BY <1>7 DEF M

(* As many groups as it takes.                                             *)
Groups(n) == (n + Group - 1) \div Group

LEMMA EnoughGroups ==
  ASSUME NEW n \in Nat
  PROVE  Groups(n) \in Nat /\ \A g \in Nat : g < Groups(n) <=> g * Group < n
<1>1. PICK m \in Nat \ {0} : m = Group
  BY BiosAssumption
<1>2. PICK q \in Int, r \in 0 .. m - 1 : q = Groups(n) /\ n + m - 1 = q * m + r
  <2>1. n + m - 1 \in Int
    OBVIOUS
  <2> QED
    BY <1>1, <2>1, Divides DEF Groups
<1>3. q >= 0
  <2> SUFFICES ASSUME q < 0 PROVE FALSE
    BY <1>2
  <2>1. PICK e \in Nat : q = 0 - 1 - e
    <3>1. 0 - 1 - q \in Nat /\ q = 0 - 1 - (0 - 1 - q)
      OBVIOUS
    <3> QED
      BY <3>1
  <2>2. q * m = 0 - m - e * m /\ e * m >= 0
    BY <2>1
  <2> QED
    BY <1>2, <2>2
<1>4. ASSUME NEW g \in Nat, g < q PROVE g * m < n
  <2>1. PICK e \in Nat : q = g + 1 + e
    <3>1. q - g - 1 \in Nat /\ q = g + 1 + (q - g - 1)
      BY <1>4
    <3> QED
      BY <3>1
  <2>2. q * m = g * m + m + e * m /\ e * m >= 0
    BY <2>1
  <2> QED
    BY <1>2, <2>2
<1>5. ASSUME NEW g \in Nat, g * m < n PROVE g < q
  <2> SUFFICES ASSUME q <= g PROVE FALSE
    BY <1>2
  <2>1. PICK e \in Nat : g = q + e
    <3>1. g - q \in Nat /\ g = q + (g - q)
      OBVIOUS
    <3> QED
      BY <3>1
  <2>2. g * m = q * m + e * m /\ e * m >= 0
    BY <2>1
  <2> QED
    BY <1>2, <1>5, <2>2
<1> QED
  BY <1>1, <1>2, <1>3, <1>4, <1>5

(* The source s of the tokens T: behind the flags of group g, the first    *)
(* being 0, come the tokens that they speak of.                            *)
IsCopy(T, k) == k <= Len(T) /\ T[k].type = "copy"

Speaks(T, g, bits) ==
  bits \in Seq(BOOLEAN) /\ Len(bits) = Group /\ \A x \in 1 .. Group : bits[x] <=> IsCopy(T, g * Group + x)

Source(T, s) ==
  /\ \E S : s \in Seq(S)
  /\ Len(s) = Len(T) + Groups(Len(T))
  /\ \A g \in Nat : g * Group < Len(T) => Speaks(T, g, s[g * (Group + 1) + 1].bits)
  /\ \A g \in Nat, x \in 1 .. Group :
       g * Group + x <= Len(T) => s[g * (Group + 1) + 1 + x] = T[g * Group + x]

LEMMA BitOfGroup ==
  ASSUME NEW T, NEW o, NEW x \in 1 .. Group
  PROVE  [k \in 1 .. Group |-> LET t == o + k IN t <= Len(T) /\ T[t].type = "copy"][x] <=> IsCopy(T, o + x)
BY Zenon DEF IsCopy

(* The packer puts the flags where the unpacker looks for them.            *)
LEMMA GroupedIsSource ==
  ASSUME packed \in Seq(Tokens)
  PROVE  Source(packed, Grouped)
<1> DEFINE groups == (Len(packed) + Group - 1) \div Group
           Bits(g) == [k \in 1 .. Group |-> LET t == (g - 1) * Group + k
                                            IN  t <= Len(packed) /\ packed[t].type = "copy"]
           At(k) == LET g == 1 + (k - 1) \div (Group + 1)
                    IN  IF k % (Group + 1) = 1 THEN [type |-> "flags", bits |-> Bits(g)] ELSE packed[k - g]
           s == [k \in 1 .. Len(packed) + groups |-> At(k)]
<1>1. Grouped = s
  BY DEF Grouped
<1>2. PICK n \in Nat : n = Len(packed)
  OBVIOUS
<1>3. PICK many \in Nat : many = groups /\ many = Groups(n) /\ \A g \in Nat : g < many <=> g * Group < n
  BY <1>2, EnoughGroups DEF Groups
<1>4. PICK m \in Nat \ {0} : m = Group
  BY BiosAssumption
<1>5. Len(s) = n + many /\ s \in Seq({At(k) : k \in 1 .. n + many})
  <2> HIDE DEF At, groups
  <2> QED
    BY <1>2, <1>3
<1>6. ASSUME NEW k \in 1 .. n + many PROVE s[k] = At(k)
  <2> HIDE DEF At, groups
  <2> QED
    BY <1>2, <1>3
<1>7. ASSUME NEW g \in Nat, g * m < n
      PROVE  Speaks(packed, g, s[g * (m + 1) + 1].bits)
  <2>1. g < many
    BY <1>3, <1>4, <1>7
  <2>2. PICK k \in Nat : k = g * (m + 1) + 1
    OBVIOUS
  <2>3. g * (m + 1) = g * m + g /\ g * m \in Nat
    OBVIOUS
  <2>4. k \in 1 .. n + many
    BY <1>7, <2>1, <2>2, <2>3
  <2>5. PICK each \in Nat \ {0} : each = m + 1 /\ each > 1
    OBVIOUS
  <2>6. 0 \in 0 .. each - 1 /\ 1 \in 0 .. each - 1 /\ k - 1 = g * each + 0 /\ k = g * each + 1 /\ k - 1 \in Int
    BY <2>2, <2>5
  <2>7. (k - 1) \div each = g
    BY <2>6, DivisionIs
  <2>8. k % each = 1
    BY <2>6, DivisionIs
  <2>9. At(k) = [type |-> "flags", bits |-> Bits(1 + g)]
    BY <1>4, <2>5, <2>7, <2>8
  <2>10. s[k].bits = Bits(1 + g)
    <3> HIDE DEF At, Bits, s
    <3> QED
      BY <1>6, <2>4, <2>9
  <2>11. Speaks(packed, g, Bits(1 + g))
    <3>1. Bits(1 + g) \in Seq(BOOLEAN) /\ Len(Bits(1 + g)) = Group
      <4>1. Bits(1 + g) \in [1 .. Group -> BOOLEAN]
        BY Zenon
      <4>2. Group \in Nat
        BY <1>4
      <4> HIDE DEF Bits
      <4>3. Bits(1 + g) \in Seq(BOOLEAN)
        BY <4>1, <4>2
      <4> QED
        BY <4>1, <4>2, <4>3
    <3>2. ASSUME NEW x \in 1 .. Group PROVE Bits(1 + g)[x] <=> IsCopy(packed, g * Group + x)
      <4>1. PICK o : o = (1 + g - 1) * Group /\ o = g * Group
        BY <1>4
      <4>2. Bits(1 + g)[x] <=> IsCopy(packed, (1 + g - 1) * Group + x)
        BY BitOfGroup
      <4> HIDE DEF Bits
      <4> QED
        BY <4>1, <4>2
    <3> HIDE DEF Bits
    <3> QED
      BY <3>1, <3>2 DEF Speaks
  <2> HIDE DEF At, Bits, s
  <2> QED
    BY <2>2, <2>10, <2>11
<1>8. ASSUME NEW g \in Nat, NEW x \in 1 .. m, g * m + x <= n
      PROVE  s[g * (m + 1) + 1 + x] = packed[g * m + x]
  <2>3. g * (m + 1) = g * m + g /\ g * m \in Nat
    OBVIOUS
  <2>1. g < many
    <3>1. g * m < n
      BY <1>8, <2>3
    <3> QED
      BY <1>3, <1>4, <3>1
  <2>2. PICK k \in Nat : k = g * (m + 1) + 1 + x
    OBVIOUS
  <2>4. k \in 1 .. n + many
    BY <1>8, <2>1, <2>2, <2>3
  <2>5. PICK each \in Nat \ {0} : each = m + 1 /\ each > 1
    OBVIOUS
  <2>6. x \in 0 .. each - 1 /\ k - 1 = g * each + x /\ k - 1 \in Int
    BY <2>2, <2>5
  <2>7. (k - 1) \div each = g
    BY <2>6, DivisionIs
  <2>8. k % each # 1
    <3>1. CASE x = m
      <4>1. PICK e \in Int, z \in 0 .. each - 1 : e = g + 1 /\ z = 0
        BY <2>5
      <4>2. k = e * each + z
        <5>1. e * each = g * each + each
          BY <4>1
        <5> QED
          BY <2>2, <2>5, <2>6, <3>1, <4>1, <5>1
      <4>3. k % each = z
        BY <4>2, DivisionIs
      <4> QED
        BY <4>1, <4>3
    <3>2. CASE x # m
      <4>1. PICK z \in 0 .. each - 1 : z = x + 1
        BY <2>5, <3>2
      <4>2. k = g * each + z
        BY <2>6, <4>1
      <4>3. k % each = z
        BY <4>2, DivisionIs
      <4> QED
        BY <4>1, <4>3
    <3> QED
      BY <3>1, <3>2
  <2>9. At(k) = packed[k - (1 + g)]
    BY <1>4, <2>5, <2>7, <2>8
  <2>10. k - (1 + g) = g * m + x
    BY <2>2, <2>3
  <2> HIDE DEF At, s
  <2> QED
    BY <1>6, <2>2, <2>4, <2>9, <2>10
<1> HIDE DEF s, At, groups
<1>9. \E S : s \in Seq(S)
  BY <1>5
<1> QED
  BY <1>1, <1>2, <1>3, <1>4, <1>5, <1>7, <1>8, <1>9 DEF Source


-----------------------------------------------------------------------------
(* THE BIOS CALLS: THEIR INDUCTIVE INVARIANT                               *)

LZTokens == {"literal", "copy"}
RLTokens == {"run", "raw"}

Packing(kinds) ==
  data \in Seq(Bytes) /\ flags = <<>> /\ dst = <<>> /\ \E at : Packs(data, kinds, packed, at, upTo)

(* Of the tokens T k are used: as many bytes are written as they bring, g  *)
(* groups are begun, and the flags left are those of the tokens that come. *)
LZAt(T, at, s, k, g) ==
  /\ Packs(data, LZTokens, T, at, Size) /\ Source(T, s)
  /\ k \in 0 .. Len(T) /\ g \in Nat /\ g <= Groups(Len(T))
  /\ flags \in Seq(BOOLEAN) /\ Len(flags) <= Group /\ k + Len(flags) = g * Group
  /\ \A x \in 1 .. Len(flags) : flags[x] <=> IsCopy(T, k + x)
  /\ dst = SubSeq(data, 1, at[k]) /\ packed = SubSeq(s, k + g + 1, Len(s))

RLAt(T, at, k) ==
  /\ Packs(data, RLTokens, T, at, Size) /\ k \in 0 .. Len(T)
  /\ dst = SubSeq(data, 1, at[k]) /\ packed = SubSeq(T, k + 1, Len(T))

BiosInv ==
  \/ job = "pack LZ77" /\ Packing(LZTokens)
  \/ job = "pack RL" /\ Packing(RLTokens)
  \/ job = "LZ77" /\ data \in Seq(Bytes) /\ \E T, at, s, k, g : LZAt(T, at, s, k, g)
  \/ job = "RL" /\ data \in Seq(Bytes) /\ flags = <<>> /\ \E T, at, k : RLAt(T, at, k)
  \/ job = "done" /\ data \in Seq(Bytes) /\ dst = data /\ packed = <<>>
  \/ /\ job = "sqrt" /\ upTo \in 0 .. Rounds
     /\ \E n \in Nat : data = <<n>> /\ Rooted(n, upTo, num, root, rem)

(* Every token brings something, so the data ends with the last one.       *)
LEMMA TokensLeft ==
  ASSUME NEW d \in Seq(Bytes), NEW kinds, NEW T, NEW at, Packs(d, kinds, T, at, Len(d)), NEW k \in 0 .. Len(T)
  PROVE  at[k] \in 0 .. Len(d) /\ (at[k] < Len(d) <=> k < Len(T))
<1>1. /\ T \in Seq(Tokens) /\ at \in [0 .. Len(T) -> 0 .. Len(d)] /\ at[Len(T)] = Len(d)
      /\ \A q \in 1 .. Len(T) : Says(d, T[q], at[q - 1], at[q])
  BY DEF Packs
<1>2. at[k] \in 0 .. Len(d) /\ Len(d) \in Nat /\ Len(T) \in Nat
  <2>1. at[k] \in 0 .. Len(d)
    BY <1>1
  <2>2. Len(d) \in Nat
    OBVIOUS
  <2>3. Len(T) \in Nat
    BY <1>1
  <2> QED
    BY <2>1, <2>2, <2>3
<1>3. CASE k < Len(T)
  <2>1. k + 1 \in 1 .. Len(T) /\ k + 1 - 1 = k /\ k + 1 \in 0 .. Len(T)
    BY <1>2, <1>3
  <2>2. at[k] < at[k + 1] /\ at[k + 1] <= Len(d) /\ at[k + 1] \in Nat
    <3>1. Says(d, T[k + 1], at[k + 1 - 1], at[k + 1])
      BY <1>1, <2>1
    <3>2. at[k + 1] \in Nat
      BY <1>1, <2>1
    <3> QED
      BY <2>1, <3>1, <3>2 DEF Says
  <2> QED
    BY <1>2, <1>3, <2>2
<1>4. CASE ~(k < Len(T))
  <2>1. k = Len(T)
    BY <1>2, <1>4
  <2> QED
    BY <1>1, <1>2, <1>4, <2>1
<1> QED
  BY <1>3, <1>4

LEMMA TheNextToken ==
  ASSUME NEW d \in Seq(Bytes), NEW kinds, NEW T, NEW at, Packs(d, kinds, T, at, Len(d)),
         NEW k \in 0 .. Len(T), k < Len(T)
  PROVE  /\ at[k] \in 0 .. Len(d) /\ at[k + 1] \in 0 .. Len(d) /\ Says(d, T[k + 1], at[k], at[k + 1])
         /\ T[k + 1].type \in kinds /\ k + 1 \in 0 .. Len(T)
<1>1. /\ T \in Seq(Tokens) /\ at \in [0 .. Len(T) -> 0 .. Len(d)]
      /\ \A q \in 1 .. Len(T) : T[q].type \in kinds /\ Says(d, T[q], at[q - 1], at[q])
  BY DEF Packs
<1>2. k + 1 \in 1 .. Len(T) /\ k + 1 - 1 = k /\ k + 1 \in 0 .. Len(T)
  BY <1>1
<1>3. T[k + 1].type \in kinds /\ Says(d, T[k + 1], at[k + 1 - 1], at[k + 1])
  BY <1>1, <1>2
<1>4. at[k] \in 0 .. Len(d) /\ at[k + 1] \in 0 .. Len(d)
  BY <1>1, <1>2
<1> QED
  BY <1>2, <1>3, <1>4

-----------------------------------------------------------------------------
(* EVERY STEP KEEPS IT                                                     *)

(* The calls begin so.                                                     *)
LEMMA BiosInit == CallInit => BiosInv
<1> SUFFICES ASSUME CallInit PROVE BiosInv
  OBVIOUS
<1>1. packed = <<>> /\ upTo = 0 /\ flags = <<>> /\ dst = <<>> /\ root = 0 /\ rem = 0
  BY DEF CallInit, NoCall
<1>2. CASE job \in {"pack LZ77", "pack RL"} /\ num = 0 /\ \E n \in 1 .. DataSize : data \in [1 .. n -> Bytes]
  <2>1. data \in Seq(Bytes)
    <3>1. PICK n \in 1 .. DataSize : data \in [1 .. n -> Bytes]
      BY <1>2
    <3>2. n \in Nat
      BY BiosAssumption
    <3> QED
      BY <3>1, <3>2
  <2> DEFINE at == [k \in 0 .. 0 |-> 0]
  <2>2. packed \in Seq(Tokens) /\ Len(packed) = 0
    BY <1>1
  <2>3. at \in [0 .. 0 -> 0 .. Len(data)] /\ at[0] = 0
    BY <2>1
  <2>4. ASSUME NEW kinds PROVE Packing(kinds)
    <3>1. Packs(data, kinds, packed, at, upTo)
      <4> HIDE DEF at
      <4> QED
        BY <1>1, <2>2, <2>3 DEF Packs
    <3> HIDE DEF at
    <3> QED
      BY <1>1, <2>1, <3>1 DEF Packing
  <2> QED
    BY <1>2, <2>4 DEF BiosInv
<1>3. CASE job = "sqrt" /\ num \in 0 .. Word - 1 /\ data = <<num>>
  <2>1. Rooted(num, upTo, num, root, rem)
    BY <1>1, <1>3, NoRound
  <2>2. num \in Nat /\ upTo \in 0 .. Rounds
    <3>1. Word \in Nat /\ Rounds \in Nat
      BY BiosAssumption, PowersOf4 DEF Word
    <3> QED
      BY <1>1, <1>3, <3>1
  <2> QED
    BY <1>3, <2>1, <2>2 DEF BiosInv
<1> QED
  BY <1>2, <1>3 DEF CallInit

LEMMA WhilePacking ==
  ASSUME NEW kinds, Packing(kinds)
  PROVE  /\ data \in Seq(Bytes) /\ Size = Len(data) /\ Size \in Nat /\ upTo \in Nat /\ upTo <= Size
         /\ \A k \in 1 .. Size : data[k] \in Bytes
<1>1. data \in Seq(Bytes) /\ Size = Len(data) /\ Size \in Nat /\ \A k \in 1 .. Size : data[k] \in Bytes
  BY DEF Packing, Size
<1>2. PICK at : Packs(data, kinds, packed, at, upTo)
  BY DEF Packing
<1>3. packed \in Seq(Tokens) /\ at \in [0 .. Len(packed) -> 0 .. Len(data)] /\ at[Len(packed)] = upTo
  BY <1>2 DEF Packs
<1>4. upTo \in 0 .. Len(data)
  BY <1>3
<1> QED
  BY <1>1, <1>4

LEMMA InvPack ==
  ASSUME NEW kinds, Packing(kinds), NEW token \in Tokens, NEW n \in Nat, upTo < Size, token.type \in kinds,
         Says(data, token, upTo, Min({upTo + n, Size})), Pack(token, n)
  PROVE  Packing(kinds)' /\ job' = job
<1>1. data \in Seq(Bytes) /\ flags = <<>> /\ dst = <<>>
  BY DEF Packing
<1>2. PICK at : Packs(data, kinds, packed, at, upTo)
  BY DEF Packing
<1>3. /\ packed' = Append(packed, token) /\ upTo' = Min({upTo + n, Size})
      /\ job' = job /\ data' = data /\ flags' = flags /\ dst' = dst
  BY DEF Pack
<1>4. Size = Len(data) /\ Size \in Nat /\ upTo \in Nat
  BY WhilePacking
<1>5. PICK v \in 0 .. Len(data) : v = Min({upTo + n, Size})
  <2>1. upTo + n \in Int /\ Size \in Int
    BY <1>4
  <2>2. Min({upTo + n, Size}) = IF upTo + n <= Size THEN upTo + n ELSE Size
    BY <2>1, LesserOfTwo
  <2>3. Min({upTo + n, Size}) \in 0 .. Len(data)
    BY <1>4, <2>2
  <2> QED
    BY <2>3
<1>6. Says(data, token, upTo, v)
  BY <1>5
<1>7. \E on : Packs(data, kinds, Append(packed, token), on, v)
  BY <1>2, <1>6, OneTokenMore
<1> QED
  BY <1>1, <1>3, <1>5, <1>7 DEF Packing

LEMMA Furthest ==
  ASSUME Size \in Nat, upTo \in Nat, upTo < Size, NEW n \in Nat \ {0}
  PROVE  /\ upTo < Min({upTo + n, Size}) /\ Min({upTo + n, Size}) <= Size
         /\ Min({upTo + n, Size}) \in Nat
<1>1. upTo + n \in Int /\ Size \in Int
  OBVIOUS
<1>2. Min({upTo + n, Size}) = IF upTo + n <= Size THEN upTo + n ELSE Size
  BY <1>1, LesserOfTwo
<1> QED
  BY <1>2

LEMMA InvPackLZ77 == BiosInv /\ PackLZ77 => BiosInv'
<1> SUFFICES ASSUME BiosInv, PackLZ77 PROVE BiosInv'
  OBVIOUS
<1>1. job = "pack LZ77" /\ Packing(LZTokens) /\ upTo < Size
  BY DEF BiosInv, PackLZ77
<1>2. /\ data \in Seq(Bytes) /\ Size = Len(data) /\ Size \in Nat /\ upTo \in Nat /\ upTo <= Size
      /\ \A k \in 1 .. Size : data[k] \in Bytes
  BY <1>1, WhilePacking
<1>5. Size \in Nat /\ upTo \in Nat /\ upTo < Size
  BY <1>1, <1>2
<1>6. upTo + 1 \in 1 .. Size /\ upTo + 1 <= Size
  BY <1>5
<1>3. CASE Pack(Literal(upTo + 1), 1)
  <2>1. PICK x \in Bytes : x = data[upTo + 1]
    BY <1>2, <1>6
  <2>2. PICK token \in Tokens : token = Literal(upTo + 1) /\ token = [type |-> "literal", byte |-> x]
    BY <2>1 DEF Literal, Tokens
  <2>3. Min({upTo + 1, Size}) = upTo + 1
    <3>1. upTo + 1 \in Int /\ Size \in Int
      BY <1>5
    <3> QED
      BY <1>6, <3>1, LesserOfTwo
  <2>4. Says(data, token, upTo, upTo + 1)
    <3>1. upTo < upTo + 1 /\ upTo + 1 <= Len(data)
      BY <1>5, <1>6 DEF Size
    <3>2. token.type = "literal" /\ token.byte = data[upTo + 1]
      BY <2>1, <2>2
    <3> QED
      BY <3>1, <3>2 DEF Says
  <2>5. token.type \in LZTokens
    BY <2>2 DEF LZTokens
  <2>6. Packing(LZTokens)' /\ job' = job
    BY <1>1, <1>3, <2>2, <2>3, <2>4, <2>5, InvPack
  <2> QED
    BY <1>1, <2>6 DEF BiosInv
<1>4. ASSUME NEW n \in MinLen .. MaxLen, NEW disp \in 1 .. Size, Brings(n, disp), Pack(Copy(n, disp), n)
      PROVE  BiosInv'
  <2>1. n \in Nat \ {0} /\ disp \in Nat
    BY <1>2, BiosAssumption
  <2>2. PICK token \in Tokens : token = Copy(n, disp) /\ token = [type |-> "copy", len |-> n, disp |-> disp]
    BY <2>1 DEF Copy, Tokens
  <2>3. PICK v \in Nat : v = Min({upTo + n, Size}) /\ upTo < v /\ v <= Size
    BY <1>1, <1>2, <2>1, Furthest
  <2>4. disp \in 1 .. upTo /\ \A k \in upTo + 1 .. v : data[k] = data[k - disp]
    BY <1>4, <2>3 DEF Brings
  <2>5. Says(data, token, upTo, v)
    <3>1. token.type = "copy" /\ token.len = n /\ token.disp = disp
      BY <2>2
    <3> QED
      BY <1>2, <2>1, <2>3, <2>4, <3>1 DEF Says
  <2>6. token.type \in LZTokens
    BY <2>2 DEF LZTokens
  <2>7. Packing(LZTokens)' /\ job' = job
    BY <1>1, <1>4, <2>1, <2>2, <2>3, <2>5, <2>6, InvPack
  <2> QED
    BY <1>1, <2>7 DEF BiosInv
<1> QED
  BY <1>3, <1>4 DEF PackLZ77

LEMMA InvPackRL == BiosInv /\ PackRL => BiosInv'
<1> SUFFICES ASSUME BiosInv, PackRL PROVE BiosInv'
  OBVIOUS
<1>1. job = "pack RL" /\ Packing(RLTokens) /\ upTo < Size
  BY DEF BiosInv, PackRL
<1>2. /\ data \in Seq(Bytes) /\ Size = Len(data) /\ Size \in Nat /\ upTo \in Nat /\ upTo <= Size
      /\ \A k \in 1 .. Size : data[k] \in Bytes
  BY <1>1, WhilePacking
<1>5. Size \in Nat /\ upTo \in Nat /\ upTo < Size
  BY <1>1, <1>2
<1>6. upTo + 1 \in 1 .. Size /\ upTo + 1 <= Size
  BY <1>5
<1>3. ASSUME NEW n \in MinLen .. MaxLen, Pack(Run(n, data[upTo + 1]), n),
             \A k \in upTo + 1 .. Min({upTo + n, Size}) : data[k] = data[upTo + 1]
      PROVE  BiosInv'
  <2>1. n \in Nat \ {0}
    BY BiosAssumption
  <2>2. PICK x \in Bytes : x = data[upTo + 1]
    BY <1>2, <1>6
  <2>3. PICK token \in Tokens : token = Run(n, x) /\ token = [type |-> "run", len |-> n, byte |-> x]
    BY <2>1 DEF Run, Tokens
  <2>4. PICK v \in Nat : v = Min({upTo + n, Size}) /\ upTo < v /\ v <= Size
    BY <1>1, <1>2, <2>1, Furthest
  <2>5. \A k \in upTo + 1 .. v : x = data[k]
    BY <1>3, <2>2, <2>4
  <2>6. Says(data, token, upTo, v)
    <3>1. token.type = "run" /\ token.len = n /\ token.byte = x
      BY <2>3
    <3> QED
      BY <1>2, <2>1, <2>4, <2>5, <3>1 DEF Says
  <2>7. token.type \in RLTokens
    BY <2>3 DEF RLTokens
  <2>8. Packing(RLTokens)' /\ job' = job
    BY <1>1, <1>3, <2>1, <2>2, <2>3, <2>4, <2>6, <2>7, InvPack
  <2> QED
    BY <1>1, <2>8 DEF BiosInv
<1>4. ASSUME NEW n \in 1 .. Size - upTo, Pack([type |-> "raw", bytes |-> SubSeq(data, upTo + 1, upTo + n)], n)
      PROVE  BiosInv'
  <2>1. n \in Nat /\ upTo + n <= Size /\ upTo < upTo + n /\ Size \in Nat
    BY <1>2
  <2>2. PICK t \in Seq(Bytes) : t = SubSeq(data, upTo + 1, upTo + n)
    <3>1. \A i \in upTo + 1 .. upTo + n : data[i] \in Bytes
      BY <1>2, <2>1
    <3>2. upTo + 1 \in Int /\ upTo + n \in Int
      BY <1>2, <2>1
    <3> QED
      BY <3>1, <3>2, SubSeqProperties
  <2>3. PICK token \in Tokens : token = [type |-> "raw", bytes |-> t]
    BY DEF Tokens
  <2>4. Min({upTo + n, Size}) = upTo + n
    <3>1. upTo + n \in Int /\ Size \in Int
      BY <1>2, <2>1
    <3> QED
      BY <2>1, <3>1, LesserOfTwo
  <2>5. Says(data, token, upTo, upTo + n)
    <3>1. token.type = "raw" /\ token.bytes = SubSeq(data, upTo + 1, upTo + n)
      BY <2>2, <2>3
    <3> QED
      BY <1>2, <2>1, <3>1 DEF Says
  <2>6. token.type \in RLTokens
    BY <2>3 DEF RLTokens
  <2>7. Packing(RLTokens)' /\ job' = job
    BY <1>1, <1>4, <2>1, <2>2, <2>3, <2>4, <2>5, <2>6, InvPack
  <2> QED
    BY <1>1, <2>7 DEF BiosInv
<1> QED
  BY <1>3, <1>4 DEF PackRL


LEMMA InvPacked == BiosInv /\ Packed => BiosInv'
<1> SUFFICES ASSUME BiosInv, Packed PROVE BiosInv'
  OBVIOUS
<1>1. upTo = Size /\ data' = data /\ flags' = flags /\ dst' = dst
  BY DEF Packed
<1>2. ASSUME NEW kinds, Packing(kinds)
      PROVE  /\ data \in Seq(Bytes) /\ flags = <<>> /\ dst = <<>> /\ packed \in Seq(Tokens)
             /\ \E at : Packs(data, kinds, packed, at, Size) /\ at[0] = 0
  BY <1>1, <1>2 DEF Packing, Packs
<1>3. dst = <<>> => dst = SubSeq(data, 1, 0)
  BY SubSeqEmpty
<1>4. CASE job = "pack LZ77" /\ job' = "LZ77" /\ packed' = Grouped
  <2>1. Packing(LZTokens)
    BY <1>4 DEF BiosInv
  <2>2. /\ data \in Seq(Bytes) /\ flags = <<>> /\ dst = <<>> /\ packed \in Seq(Tokens)
    BY <1>2, <2>1
  <2>3. PICK at : Packs(data, LZTokens, packed, at, Size) /\ at[0] = 0
    BY <1>2, <2>1
  <2>4. PICK s : s = Grouped /\ Source(packed, s)
    BY <2>2, GroupedIsSource
  <2>5. PICK S : s \in Seq(S)
    BY <2>4 DEF Source
  <2>6. s = SubSeq(s, 0 + 0 + 1, Len(s))
    BY <2>5, SubSeqFull
  <2>7. Groups(Len(packed)) \in Nat /\ Group \in Nat /\ Len(packed) \in Nat
    BY <2>2, EnoughGroups, BiosAssumption
  <2> DEFINE T == packed
  <2>8. 0 \in 0 .. Len(T) /\ 0 \in Nat /\ 0 <= Groups(Len(T)) /\ 0 <= Group /\ 0 + 0 = 0 * Group
    BY <2>7
  <2>9. flags' \in Seq(BOOLEAN) /\ Len(flags') = 0
    BY <1>1, <2>2
  <2>10. /\ Packs(data', LZTokens, T, at, Size') /\ Source(T, s)
         /\ dst' = SubSeq(data', 1, at[0]) /\ packed' = SubSeq(s, 0 + 0 + 1, Len(s))
    BY <1>1, <1>3, <1>4, <2>2, <2>3, <2>4, <2>6 DEF Size
  <2>11. \A x \in 1 .. Len(flags') : flags'[x] <=> IsCopy(T, 0 + x)
    BY <2>9
  <2>12. PICK U, z : U = T /\ z = 0
    OBVIOUS
  <2> HIDE DEF T
  <2>13. LZAt(U, at, s, z, z)'
    BY <2>8, <2>9, <2>10, <2>11, <2>12 DEF LZAt
  <2> QED
    BY <1>1, <1>4, <2>2, <2>13 DEF BiosInv
<1>5. CASE job = "pack RL" /\ job' = "RL" /\ packed' = packed
  <2>1. Packing(RLTokens)
    BY <1>5 DEF BiosInv
  <2>2. /\ data \in Seq(Bytes) /\ flags = <<>> /\ dst = <<>> /\ packed \in Seq(Tokens)
    BY <1>2, <2>1
  <2>3. PICK at : Packs(data, RLTokens, packed, at, Size) /\ at[0] = 0
    BY <1>2, <2>1
  <2>4. packed = SubSeq(packed, 0 + 1, Len(packed)) /\ 0 \in 0 .. Len(packed)
    BY <2>2, SubSeqFull
  <2>5. PICK U, z : U = packed /\ z = 0
    OBVIOUS
  <2>6. RLAt(U, at, z)'
    BY <1>1, <1>3, <1>5, <2>2, <2>3, <2>4, <2>5 DEF RLAt, Size
  <2> QED
    BY <1>1, <1>5, <2>2, <2>6 DEF BiosInv
<1> QED
  BY <1>4, <1>5 DEF Packed

(* A flags byte: the next group begins.                                    *)
LEMMA NextFlags ==
  ASSUME data \in Seq(Bytes), NEW T, NEW at, NEW s, NEW k, NEW g, LZAt(T, at, s, k, g), k < Len(T),
         flags = <<>>, flags' = Head(packed).bits, Write(dst)
  PROVE  LZAt(T, at, s, k, g + 1)'
<1>1. /\ Packs(data, LZTokens, T, at, Size) /\ Source(T, s)
      /\ k \in 0 .. Len(T) /\ g \in Nat /\ g <= Groups(Len(T)) /\ k + Len(flags) = g * Group
      /\ dst = SubSeq(data, 1, at[k]) /\ packed = SubSeq(s, k + g + 1, Len(s))
  BY DEF LZAt
<1>2. Group \in Nat \ {0} /\ Len(T) \in Nat
  BY <1>1, BiosAssumption DEF Packs
<1>3. g * Group = k /\ g * Group \in Nat
  BY <1>1, <1>2
<1>4. Groups(Len(T)) \in Nat /\ g < Groups(Len(T))
  BY <1>1, <1>2, <1>3, EnoughGroups
<1>5. PICK S : s \in Seq(S)
  BY <1>1 DEF Source
<1>6. Len(s) = Len(T) + Groups(Len(T)) /\ Speaks(T, g, s[g * (Group + 1) + 1].bits)
  BY <1>1, <1>3 DEF Source
<1>7. PICK p \in 0 .. Len(s) - 1 : p = k + g
  BY <1>1, <1>2, <1>4, <1>6
<1>8. Head(packed) = s[p + 1] /\ Tail(packed) = SubSeq(s, p + 2, Len(s))
  BY <1>1, <1>5, <1>7, NextOf
<1>9. g * (Group + 1) + 1 = p + 1 /\ p + 2 = k + (g + 1) + 1
  <2>1. g * (Group + 1) = g * Group + g
    BY <1>1, <1>2
  <2> QED
    BY <1>1, <1>3, <1>7, <2>1
<1>10. Speaks(T, g, flags')
  BY <1>6, <1>8, <1>9
<1>11. flags' \in Seq(BOOLEAN) /\ Len(flags') = Group /\ \A x \in 1 .. Group : flags'[x] <=> IsCopy(T, k + x)
  BY <1>3, <1>10 DEF Speaks
<1>12. dst' = dst /\ packed' = Tail(packed) /\ data' = data
  BY DEF Write
<1>13. packed' = SubSeq(s, k + (g + 1) + 1, Len(s)) /\ dst' = SubSeq(data', 1, at[k])
  BY <1>1, <1>8, <1>9, <1>12
<1>14. g + 1 \in Nat /\ g + 1 <= Groups(Len(T)) /\ k + Len(flags') = (g + 1) * Group /\ Len(flags') <= Group
  <2>1. (g + 1) * Group = g * Group + Group
    BY <1>1, <1>2
  <2>2. g + 1 \in Nat /\ g + 1 <= Groups(Len(T))
    BY <1>1, <1>4
  <2>3. Len(flags') = Group /\ Len(flags') <= Group
    BY <1>2, <1>11
  <2>4. k + Group = (g + 1) * Group
    BY <1>3, <2>1
  <2> QED
    BY <2>2, <2>3, <2>4
<1>15. Packs(data', LZTokens, T, at, Size')
  BY <1>1, <1>12 DEF Size
<1> QED
  BY <1>1, <1>11, <1>13, <1>14, <1>15 DEF LZAt

(* A token, which its flag tells.                                          *)
WrittenByFlag(bytes) ==
  /\ Head(flags) => bytes = Moved(dst, Min({Head(packed).len, Size - Len(dst)}), Head(packed).disp)
  /\ ~Head(flags) => bytes = Append(dst, Head(packed).byte)

LEMMA NextToken ==
  ASSUME data \in Seq(Bytes), NEW T, NEW at, NEW s, NEW k, NEW g, LZAt(T, at, s, k, g), k < Len(T),
         flags # <<>>, flags' = Tail(flags), NEW bytes, Write(bytes),
         WrittenByFlag(bytes)
  PROVE  LZAt(T, at, s, k + 1, g)'
<1>1. /\ Packs(data, LZTokens, T, at, Size) /\ Source(T, s)
      /\ k \in 0 .. Len(T) /\ g \in Nat /\ g <= Groups(Len(T)) /\ k + Len(flags) = g * Group
      /\ flags \in Seq(BOOLEAN) /\ Len(flags) <= Group
      /\ dst = SubSeq(data, 1, at[k]) /\ packed = SubSeq(s, k + g + 1, Len(s))
  BY DEF LZAt
<1>2. Group \in Nat \ {0} /\ Len(T) \in Nat
  BY <1>1, BiosAssumption DEF Packs
<1>3. Groups(Len(T)) \in Nat
  BY <1>2, EnoughGroups
<1>4. PICK l \in 1 .. Group : l = Len(flags)
  BY <1>1, <1>2
<1>5. g # 0
  BY <1>1, <1>2, <1>4
<1>6. PICK h \in Nat, x \in 1 .. Group : g = h + 1 /\ x = Group - l + 1
  <2>1. g - 1 \in Nat /\ g = (g - 1) + 1
    BY <1>1, <1>5
  <2>2. Group - l + 1 \in 1 .. Group
    BY <1>2, <1>4
  <2> QED
    BY <2>1, <2>2
<1>7. h * Group + x = k + 1
  <2>1. (h + 1) * Group = h * Group + Group
    BY <1>2
  <2>2. k + l = (h + 1) * Group
    BY <1>1, <1>4, <1>6
  <2>3. PICK w \in Nat : w = h * Group
    BY <1>2
  <2>4. k \in Nat /\ k + l = w + Group /\ x = Group - l + 1
    BY <1>1, <1>6, <2>1, <2>2, <2>3
  <2> QED
    BY <1>2, <2>3, <2>4
<1>8. h * (Group + 1) + 1 + x = k + g + 1
  <2>1. h * (Group + 1) = h * Group + h
    BY <1>2
  <2>2. h * Group \in Nat
    BY <1>2
  <2> QED
    BY <1>1, <1>2, <1>6, <1>7, <2>1, <2>2
<1>9. Len(s) = Len(T) + Groups(Len(T)) /\ s[k + g + 1] = T[k + 1]
  <2>1. h * Group + x <= Len(T)
    BY <1>1, <1>2, <1>7
  <2>2. s[h * (Group + 1) + 1 + x] = T[h * Group + x]
    BY <1>1, <2>1 DEF Source
  <2>3. Len(s) = Len(T) + Groups(Len(T))
    BY <1>1 DEF Source
  <2> QED
    BY <1>7, <1>8, <2>2, <2>3
<1>10. PICK S : s \in Seq(S)
  BY <1>1 DEF Source
<1>11. PICK p \in 0 .. Len(s) - 1 : p = k + g
  <2>1. PICK n \in Nat, e \in Nat : n = Len(T) /\ e = Groups(Len(T))
    BY <1>2, <1>3
  <2>2. k \in Nat /\ g \in Nat /\ k < n /\ g <= e
    BY <1>1, <2>1
  <2>3. Len(s) = n + e
    BY <1>9, <2>1
  <2>4. k + g \in 0 .. Len(s) - 1
    BY <2>2, <2>3
  <2> QED
    BY <2>4
<1>12. Head(packed) = T[k + 1] /\ Tail(packed) = SubSeq(s, p + 2, Len(s))
  BY <1>1, <1>9, <1>10, <1>11, NextOf
<1>13. /\ at[k] \in 0 .. Len(data) /\ at[k + 1] \in 0 .. Len(data) /\ Says(data, T[k + 1], at[k], at[k + 1])
       /\ T[k + 1].type \in LZTokens /\ k + 1 \in 0 .. Len(T)
  <2>1. Packs(data, LZTokens, T, at, Len(data)) /\ k \in 0 .. Len(T)
    BY <1>1 DEF Size
  <2> QED
    BY <2>1, TheNextToken, SMTT(30)
<1>14. Len(dst) = at[k]
  BY <1>1, <1>13
<1>15. flags[1] <=> T[k + 1].type = "copy"
  <2>1. 1 \in 1 .. Len(flags)
    BY <1>4
  <2>2. flags[1] <=> IsCopy(T, k + 1)
    BY <2>1 DEF LZAt
  <2>3. k + 1 <= Len(T)
    BY <1>1, <1>2
  <2> QED
    BY <2>2, <2>3 DEF IsCopy
<1>16. Head(flags) = flags[1]
  BY <1>1
<1>17. bytes = SubSeq(data, 1, at[k + 1])
  <2>1. PICK a, b, token :
          /\ a \in 0 .. Len(data) /\ b \in 0 .. Len(data)
          /\ a = at[k] /\ b = at[k + 1] /\ token = T[k + 1]
    BY <1>13
  <2>2. CASE token.type = "copy"
    <3>1. Head(flags)
      BY <1>15, <1>16, <2>1, <2>2
    <3>2. bytes = Moved(dst, Min({Head(packed).len, Size - Len(dst)}), Head(packed).disp)
      BY <3>1 DEF WrittenByFlag
    <3>3. Head(packed) = token /\ Size = Len(data)
      BY <1>12, <2>1 DEF Size
    <3>5. dst = SubSeq(data, 1, a) /\ Len(dst) = a
      BY <1>1, <1>14, <2>1
    <3>4. bytes = Moved(SubSeq(data, 1, a), Min({token.len, Len(data) - a}), token.disp)
      BY <3>2, <3>3, <3>5
    <3> QED
      BY <1>13, <2>1, <2>2, <3>4, MovedGoesOn
  <2>3. CASE token.type # "copy"
    <3>1. token.type = "literal"
      BY <1>13, <2>1, <2>3 DEF LZTokens
    <3>2. bytes = Append(SubSeq(data, 1, a), token.byte)
      BY <1>1, <1>12, <1>15, <1>16, <2>1, <2>3 DEF WrittenByFlag
    <3> QED
      BY <1>13, <2>1, <3>1, <3>2, LiteralGoesOn
  <2> QED
    BY <2>2, <2>3
<1>18. dst' = bytes /\ packed' = Tail(packed) /\ data' = data
  BY DEF Write
<1>19. packed' = SubSeq(s, (k + 1) + g + 1, Len(s)) /\ dst' = SubSeq(data', 1, at[k + 1])
  <2>1. p + 2 = (k + 1) + g + 1
    BY <1>1, <1>11
  <2> QED
    BY <1>12, <1>17, <1>18, <2>1
<1>20. /\ flags' \in Seq(BOOLEAN) /\ Len(flags') = l - 1 /\ \A y \in 1 .. l - 1 : flags'[y] = flags[y + 1]
  BY <1>1, <1>4
<1>21. Len(flags') <= Group /\ (k + 1) + Len(flags') = g * Group
  <2>1. k \in Nat /\ k + l = g * Group /\ Len(flags') = l - 1
    BY <1>1, <1>4, <1>20
  <2>2. PICK w : w = g * Group
    OBVIOUS
  <2>3. k + l = w
    BY <2>1, <2>2
  <2>4. (k + 1) + (l - 1) = w /\ l - 1 <= Group
    BY <1>2, <2>1, <2>3
  <2> QED
    BY <2>1, <2>2, <2>4
<1>22. ASSUME NEW y \in 1 .. Len(flags') PROVE flags'[y] <=> IsCopy(T, (k + 1) + y)
  <2>1. y \in 1 .. l - 1 /\ y + 1 \in 1 .. Len(flags) /\ k + (y + 1) = (k + 1) + y
    BY <1>1, <1>4, <1>20
  <2>2. flags[y + 1] <=> IsCopy(T, k + (y + 1))
    BY <2>1 DEF LZAt
  <2>3. flags'[y] = flags[y + 1]
    BY <1>20, <2>1
  <2> QED
    BY <2>1, <2>2, <2>3
<1>23. Packs(data', LZTokens, T, at, Size')
  BY <1>1, <1>18 DEF Size
<1> QED
  BY <1>1, <1>13, <1>19, <1>20, <1>21, <1>22, <1>23 DEF LZAt

LEMMA InvLZ77UnComp == BiosInv /\ LZ77UnComp => BiosInv'
<1> SUFFICES ASSUME BiosInv, LZ77UnComp PROVE BiosInv'
  OBVIOUS
<1>1. job = "LZ77" /\ Len(dst) < Size /\ data \in Seq(Bytes)
  BY DEF BiosInv, LZ77UnComp
<1>2. PICK T, at, s, k, g : LZAt(T, at, s, k, g)
  BY <1>1 DEF BiosInv
<1>3. k < Len(T)
  <2>1. Packs(data, LZTokens, T, at, Len(data)) /\ k \in 0 .. Len(T) /\ dst = SubSeq(data, 1, at[k])
    BY <1>2 DEF LZAt, Size
  <2>2. at[k] \in 0 .. Len(data) /\ (at[k] < Len(data) <=> k < Len(T))
    BY <1>1, <2>1, TokensLeft
  <2>3. Len(dst) = at[k]
    BY <1>1, <2>1, <2>2
  <2> QED
    BY <1>1, <2>2, <2>3 DEF Size
<1>4. CASE flags = <<>> /\ flags' = Head(packed).bits /\ Write(dst)
  <2>1. LZAt(T, at, s, k, g + 1)'
    BY <1>1, <1>2, <1>3, <1>4, NextFlags
  <2>2. job' = job /\ data' = data
    BY <1>4 DEF Write
  <2>3. PICK n : n = g + 1
    OBVIOUS
  <2>4. LZAt(T, at, s, k, n)'
    BY <2>1, <2>3
  <2> QED
    BY <1>1, <2>2, <2>4 DEF BiosInv
<1>5. CASE /\ flags # <<>> /\ flags' = Tail(flags)
           /\ IF Head(flags)
              THEN Write(Moved(dst, Min({Head(packed).len, Size - Len(dst)}), Head(packed).disp))
              ELSE Write(Append(dst, Head(packed).byte))
  <2>1. PICK bytes : Write(bytes) /\ WrittenByFlag(bytes)
    <3>1. CASE Head(flags)
      BY <1>5, <3>1 DEF WrittenByFlag
    <3>2. CASE ~Head(flags)
      BY <1>5, <3>2 DEF WrittenByFlag
    <3> QED
      BY <3>1, <3>2
  <2>2. LZAt(T, at, s, k + 1, g)'
    BY <1>1, <1>2, <1>3, <1>5, <2>1, NextToken
  <2>3. job' = job /\ data' = data
    BY <2>1 DEF Write
  <2>4. PICK n : n = k + 1
    OBVIOUS
  <2>5. LZAt(T, at, s, n, g)'
    BY <2>2, <2>4
  <2> QED
    BY <1>1, <2>3, <2>5 DEF BiosInv
<1> QED
  BY <1>4, <1>5 DEF LZ77UnComp

LEMMA InvRLUnComp == BiosInv /\ RLUnComp => BiosInv'
<1> SUFFICES ASSUME BiosInv, RLUnComp PROVE BiosInv'
  OBVIOUS
<1>1. job = "RL" /\ Len(dst) < Size /\ data \in Seq(Bytes) /\ flags = <<>> /\ flags' = flags
  BY DEF BiosInv, RLUnComp
<1>2. PICK T, at, k : RLAt(T, at, k)
  BY <1>1 DEF BiosInv
<1>3. /\ Packs(data, RLTokens, T, at, Len(data)) /\ k \in 0 .. Len(T)
      /\ dst = SubSeq(data, 1, at[k]) /\ packed = SubSeq(T, k + 1, Len(T)) /\ T \in Seq(Tokens)
  BY <1>2 DEF RLAt, Size, Packs
<1>4. k < Len(T) /\ Len(dst) = at[k]
  <2>1. at[k] \in 0 .. Len(data) /\ (at[k] < Len(data) <=> k < Len(T))
    BY <1>1, <1>3, TokensLeft
  <2>2. Len(dst) = at[k]
    BY <1>1, <1>3, <2>1
  <2> QED
    BY <1>1, <2>1, <2>2 DEF Size
<1>5. /\ at[k] \in 0 .. Len(data) /\ at[k + 1] \in 0 .. Len(data) /\ Says(data, T[k + 1], at[k], at[k + 1])
      /\ k + 1 \in 0 .. Len(T)
  BY <1>1, <1>3, <1>4, TheNextToken
<1>6. Head(packed) = T[k + 1] /\ Tail(packed) = SubSeq(T, k + 2, Len(T))
  <2>1. k \in 0 .. Len(T) - 1
    BY <1>3, <1>4
  <2> QED
    BY <1>3, <2>1, NextOf
<1>7. PICK a, b, token :
        /\ a \in 0 .. Len(data) /\ b \in 0 .. Len(data)
        /\ a = at[k] /\ b = at[k + 1] /\ token = T[k + 1]
  BY <1>5
<1>8. Says(data, token, a, b)
  BY <1>5, <1>7
<1>9. \E bytes : Write(bytes) /\ bytes = SubSeq(data, 1, b)
  <2>1. CASE /\ token.type = "run"
             /\ Write(dst \o [j \in 1 .. Min({token.len, Size - Len(dst)}) |-> token.byte])
    <3>1. SubSeq(data, 1, a) \o [j \in 1 .. Min({token.len, Len(data) - a}) |-> token.byte] = SubSeq(data, 1, b)
      <4>1. data \in Seq(Bytes) /\ a \in 0 .. Len(data) /\ b \in 0 .. Len(data) /\ token.type = "run"
        BY <1>1, <1>7, <2>1
      <4> QED
        BY <1>8, <4>1, RunGoesOn
    <3>2. dst = SubSeq(data, 1, a) /\ Size - Len(dst) = Len(data) - a
      BY <1>3, <1>4, <1>7 DEF Size
    <3> QED
      BY <2>1, <3>1, <3>2
  <2>2. CASE /\ token.type = "raw"
             /\ Write(dst \o SubSeq(token.bytes, 1, Min({Len(token.bytes), Size - Len(dst)})))
    <3>1. SubSeq(data, 1, a) \o SubSeq(token.bytes, 1, Min({Len(token.bytes), Len(data) - a})) = SubSeq(data, 1, b)
      <4>1. data \in Seq(Bytes) /\ a \in 0 .. Len(data) /\ b \in 0 .. Len(data) /\ token.type = "raw"
        BY <1>1, <1>7, <2>2
      <4> QED
        BY <1>8, <4>1, RawGoesOn
    <3>2. dst = SubSeq(data, 1, a) /\ Size - Len(dst) = Len(data) - a
      BY <1>3, <1>4, <1>7 DEF Size
    <3> QED
      BY <2>2, <3>1, <3>2
  <2> QED
    BY <1>6, <1>7, <2>1, <2>2 DEF RLUnComp
<1>10. PICK bytes : Write(bytes) /\ bytes = SubSeq(data, 1, b)
  BY <1>9
<1>11. dst' = bytes /\ packed' = Tail(packed) /\ data' = data /\ job' = job
  BY <1>10 DEF Write
<1>12. PICK n : n = k + 1 /\ n \in 0 .. Len(T) /\ n + 1 = k + 2
  BY <1>3, <1>5
<1>13. RLAt(T, at, n)'
  BY <1>3, <1>6, <1>7, <1>10, <1>11, <1>12 DEF RLAt, Size
<1> QED
  BY <1>1, <1>11, <1>13 DEF BiosInv

LEMMA InvUnpacked == BiosInv /\ Unpacked => BiosInv'
<1> SUFFICES ASSUME BiosInv, Unpacked PROVE BiosInv'
  OBVIOUS
<1>1. /\ job \in {"LZ77", "RL"} /\ Len(dst) = Size /\ job' = "done"
      /\ data' = data /\ packed' = packed /\ dst' = dst /\ data \in Seq(Bytes)
  BY DEF BiosInv, Unpacked
<1>2. ASSUME NEW kinds, NEW T, NEW at, NEW k, Packs(data, kinds, T, at, Len(data)), k \in 0 .. Len(T),
             dst = SubSeq(data, 1, at[k])
      PROVE  dst = data /\ k = Len(T) /\ Len(T) \in Nat
  <2>1. at[k] \in 0 .. Len(data) /\ (at[k] < Len(data) <=> k < Len(T))
    BY <1>1, <1>2, TokensLeft
  <2>2. Len(dst) = at[k]
    BY <1>1, <1>2, <2>1
  <2>3. at[k] = Len(data)
    BY <1>1, <2>2 DEF Size
  <2>4. Len(T) \in Nat /\ k = Len(T)
    BY <1>2, <2>1, <2>3 DEF Packs
  <2>5. dst = data
    BY <1>1, <1>2, <2>3, SubSeqFull
  <2> QED
    BY <2>4, <2>5
<1>3. CASE job = "LZ77"
  <2>1. PICK T, at, s, k, g : LZAt(T, at, s, k, g)
    BY <1>3 DEF BiosInv
  <2>2. /\ Packs(data, LZTokens, T, at, Len(data)) /\ Source(T, s)
        /\ k \in 0 .. Len(T) /\ g \in Nat /\ flags \in Seq(BOOLEAN) /\ k + Len(flags) = g * Group
        /\ dst = SubSeq(data, 1, at[k]) /\ packed = SubSeq(s, k + g + 1, Len(s))
    BY <2>1 DEF LZAt, Size
  <2>3. dst = data /\ k = Len(T) /\ Len(T) \in Nat
    BY <1>2, <2>2
  <2>4. Groups(Len(T)) \in Nat /\ (g < Groups(Len(T)) <=> g * Group < Len(T))
    BY <2>2, <2>3, EnoughGroups
  <2>5. ~(g * Group < Len(T))
    BY <2>2, <2>3
  <2>6. Len(s) = Len(T) + Groups(Len(T))
    BY <2>2 DEF Source
  <2>7. k + g + 1 \in Int /\ Len(s) \in Int /\ Len(s) < k + g + 1
    BY <2>2, <2>3, <2>4, <2>5, <2>6
  <2>8. packed = <<>>
    BY <2>2, <2>7, SubSeqEmpty
  <2> QED
    BY <1>1, <2>3, <2>8 DEF BiosInv
<1>4. CASE job = "RL"
  <2>1. PICK T, at, k : RLAt(T, at, k)
    BY <1>4 DEF BiosInv
  <2>2. /\ Packs(data, RLTokens, T, at, Len(data)) /\ k \in 0 .. Len(T)
        /\ dst = SubSeq(data, 1, at[k]) /\ packed = SubSeq(T, k + 1, Len(T))
    BY <2>1 DEF RLAt, Size
  <2>3. dst = data /\ k = Len(T) /\ Len(T) \in Nat
    BY <1>2, <2>2
  <2>4. k + 1 \in Int /\ Len(T) \in Int /\ Len(T) < k + 1
    BY <2>3
  <2>5. packed = <<>>
    BY <2>2, <2>4, SubSeqEmpty
  <2> QED
    BY <1>1, <2>3, <2>5 DEF BiosInv
<1> QED
  BY <1>1, <1>3, <1>4

LEMMA InvSqrt == BiosInv /\ Sqrt => BiosInv'
<1> SUFFICES ASSUME BiosInv, Sqrt PROVE BiosInv'
  OBVIOUS
<1>1. job = "sqrt" /\ upTo \in 0 .. Rounds /\ upTo < Rounds /\ upTo' = upTo + 1 /\ job' = job /\ data' = data
  BY DEF BiosInv, Sqrt
<1>2. PICK n \in Nat : data = <<n>> /\ Rooted(n, upTo, num, root, rem)
  BY <1>1 DEF BiosInv
<1>3. upTo \in 0 .. Rounds - 1 /\ upTo + 1 \in 0 .. Rounds
  BY <1>1, BiosAssumption
<1>4. PICK t, r : t \in 0 .. Rounds - 1 /\ t = upTo /\ r = 4 * rem + num \div PowerOf4[Rounds - 1]
  BY <1>3
<1>5. IF 2 * root < r THEN Rooted(n, t + 1, (num * 4) % Word, 2 * root + 2, r - (2 * root + 1))
      ELSE Rooted(n, t + 1, (num * 4) % Word, 2 * root, r)
  BY <1>2, <1>4, OneRound
<1>6. /\ num' = (num * 4) % Word
      /\ IF 2 * root < r THEN rem' = r - (2 * root + 1) /\ root' = 2 * root + 2
         ELSE rem' = r /\ root' = 2 * root
  BY <1>4 DEF Sqrt
<1>7. Rooted(n, upTo', num', root', rem')
  <2>1. CASE 2 * root < r
    BY <1>1, <1>4, <1>5, <1>6, <2>1
  <2>2. CASE ~(2 * root < r)
    BY <1>1, <1>4, <1>5, <1>6, <2>2
  <2> QED
    BY <2>1, <2>2
<1> QED
  BY <1>1, <1>2, <1>3, <1>7 DEF BiosInv, Rooted

LEMMA BiosUnchanged == BiosInv /\ UNCHANGED biosVars => BiosInv'
<1> SUFFICES ASSUME BiosInv, UNCHANGED biosVars PROVE BiosInv'
  OBVIOUS
<1>1. /\ job' = job /\ data' = data /\ packed' = packed /\ upTo' = upTo /\ flags' = flags
      /\ dst' = dst /\ root' = root /\ rem' = rem /\ num' = num
  BY DEF biosVars
<1>2. \A kinds : Packing(kinds)' <=> Packing(kinds)
  BY <1>1 DEF Packing
<1>3. ASSUME NEW T, NEW at, NEW s, NEW k, NEW g, LZAt(T, at, s, k, g) PROVE LZAt(T, at, s, k, g)'
  <2>1. /\ Packs(data, LZTokens, T, at, Size) /\ Source(T, s)
        /\ k \in 0 .. Len(T) /\ g \in Nat /\ g <= Groups(Len(T))
        /\ flags \in Seq(BOOLEAN) /\ Len(flags) <= Group /\ k + Len(flags) = g * Group
        /\ dst = SubSeq(data, 1, at[k]) /\ packed = SubSeq(s, k + g + 1, Len(s))
    BY <1>3 DEF LZAt
  <2>2. \A x \in 1 .. Len(flags) : flags[x] <=> IsCopy(T, k + x)
    BY <1>3 DEF LZAt
  <2>3. \A x \in 1 .. Len(flags') : flags'[x] <=> IsCopy(T, k + x)
    BY <1>1, <2>2
  <2>4. Packs(data', LZTokens, T, at, Size')
    BY <1>1, <2>1 DEF Size
  <2> QED
    BY <1>1, <2>1, <2>3, <2>4 DEF LZAt
<1>4. ASSUME NEW T, NEW at, NEW k, RLAt(T, at, k) PROVE RLAt(T, at, k)'
  <2>1. /\ Packs(data, RLTokens, T, at, Size) /\ k \in 0 .. Len(T)
        /\ dst = SubSeq(data, 1, at[k]) /\ packed = SubSeq(T, k + 1, Len(T))
    BY <1>4 DEF RLAt
  <2>2. Packs(data', RLTokens, T, at, Size')
    BY <1>1, <2>1 DEF Size
  <2> QED
    BY <1>1, <2>1, <2>2 DEF RLAt
<1> QED
  BY <1>1, <1>2, <1>3, <1>4 DEF BiosInv

(* In every state of every call: what the packer has written packs what it *)
(* has read; what the unpacker has written is what the tokens it has used  *)
(* bring, and its flags are those of the tokens that come; and what Sqrt   *)
(* holds is the root, and what is left, of the bits it has taken.          *)
THEOREM BiosInvariant == BiosSpec => []BiosInv
<1>1. BiosInv /\ [BiosNext]_biosVars => BiosInv'
  BY InvPackLZ77, InvPackRL, InvPacked, InvLZ77UnComp, InvRLUnComp, InvUnpacked, InvSqrt, BiosUnchanged DEF BiosNext
<1> QED
  BY BiosInit, <1>1, PTL DEF BiosSpec

(* The invariant says what is promised.                                    *)
LEMMA BiosInvAnswers == BiosInv => BiosAnswers
<1> SUFFICES ASSUME BiosInv PROVE BiosAnswers
  OBVIOUS
<1>1. ASSUME NEW kinds, NEW T, NEW at, NEW k, data \in Seq(Bytes), Packs(data, kinds, T, at, Len(data)),
             k \in 0 .. Len(T), dst = SubSeq(data, 1, at[k])
      PROVE  Len(dst) <= Size /\ dst = SubSeq(data, 1, Len(dst))
  <2>1. at[k] \in 0 .. Len(data)
    BY <1>1, TokensLeft
  <2>2. Len(dst) = at[k]
    BY <1>1, <2>1
  <2> QED
    BY <1>1, <2>1, <2>2 DEF Size
<1>2. job \in {"LZ77", "RL", "done"} => Len(dst) <= Size /\ dst = SubSeq(data, 1, Len(dst))
  <2>1. CASE job = "LZ77"
    <3>1. data \in Seq(Bytes)
      BY <2>1 DEF BiosInv
    <3>2. PICK T, at, s, k, g : LZAt(T, at, s, k, g)
      BY <2>1 DEF BiosInv
    <3>3. Packs(data, LZTokens, T, at, Len(data)) /\ k \in 0 .. Len(T) /\ dst = SubSeq(data, 1, at[k])
      BY <3>2 DEF LZAt, Size
    <3> QED
      BY <1>1, <3>1, <3>3
  <2>2. CASE job = "RL"
    <3>1. data \in Seq(Bytes)
      BY <2>2 DEF BiosInv
    <3>2. PICK T, at, k : RLAt(T, at, k)
      BY <2>2 DEF BiosInv
    <3>3. Packs(data, RLTokens, T, at, Len(data)) /\ k \in 0 .. Len(T) /\ dst = SubSeq(data, 1, at[k])
      BY <3>2 DEF RLAt, Size
    <3> QED
      BY <1>1, <3>1, <3>3
  <2>3. CASE job = "done"
    <3>1. data \in Seq(Bytes) /\ dst = data
      BY <2>3 DEF BiosInv
    <3>2. SubSeq(data, 1, Len(data)) = data /\ Len(data) \in Nat
      BY <3>1, SubSeqFull
    <3> QED
      BY <3>1, <3>2 DEF Size
  <2> QED
    BY <2>1, <2>2, <2>3
<1>3. job = "done" => packed = <<>>
  BY DEF BiosInv
<1>4. job = "sqrt" /\ upTo = Rounds =>
        LET r == root \div 2 IN r * r <= data[1] /\ data[1] < (r + 1) * (r + 1)
  <2> SUFFICES ASSUME job = "sqrt", upTo = Rounds
               PROVE  LET r == root \div 2 IN r * r <= data[1] /\ data[1] < (r + 1) * (r + 1)
    OBVIOUS
  <2>1. PICK n \in Nat : data = <<n>> /\ Rooted(n, Rounds, num, root, rem)
    BY DEF BiosInv
  <2>2. data[1] = n
    BY <2>1
  <2>3. LET r == root \div 2 IN r * r <= n /\ n < (r + 1) * (r + 1)
    BY <2>1, AllRounds
  <2> QED
    BY <2>2, <2>3
<1> QED
  BY <1>2, <1>3, <1>4 DEF BiosAnswers

(* Whatever was packed and whichever way, LZ77UnComp and RLUnComp write    *)
(* that and not a byte more, with every token used; and Sqrt answers the   *)
(* root that truncation gives, for a number of any width.                  *)
THEOREM TheBiosAnswers == BiosSpec => []BiosAnswers
BY BiosInvariant, BiosInvAnswers, PTL
=============================================================================
