---------------------------- MODULE FrameProofs -----------------------------
(***************************************************************************)
(* Theorems about a frame of the port, for every memory map, every page    *)
(* size, every number of channels and every budget.                        *)
(***************************************************************************)
EXTENDS Frame, NaturalsInduction, WellFoundedInduction, SequenceTheorems, TLAPS

-----------------------------------------------------------------------------
(* THE INDUCTIVE INVARIANT                                                 *)

(* What a world had keeps its place.                                       *)
NothingMappedOver(o) ==
  \E w \in Worlds :
    /\ space.host = w.host /\ space.page = w.page
    /\ \A c \in Cells : w.owner[c] \in {"free", o[c]}

(* The spans reserved so far are ours, and the window is around them.      *)
SpansAreOurs ==
  /\ span \in 0 .. Len(Spans)
  /\ \A n \in 1 .. span : \A c \in Span(Spans[n].base, Spans[n].size) \cap Cells : space.owner[c] = "ours"
  /\ phase \notin {"reserve", "fatal"} => span = Len(Spans)
  /\ \A c \in Cells : space.owner[c] = "ours" => space.lo <= c /\ c < space.hi

(* A page the memo has found good may be touched, all of it.               *)
MemoPageIsThere(m) ==
  m.ok => \A c \in m.page .. m.page + MemoPage - 1 : c \in Cells /\ space.owner[c] \in Valid(space.host)

(* Before the game nothing has happened.                                   *)
NothingYet ==
  phase \in {"reserve", "fatal"} => memo = NoMemo /\ frame = 0 /\ cells = {}

(* What is left of the budget is what was not moved.                       *)
Left(w, m) == IF w.vblank THEN w.budget = Budget - m /\ m < Budget ELSE m >= Budget

FrameInv ==
  /\ TypeOK
  /\ NothingMappedOver(space.owner) /\ SpansAreOurs /\ MemoPageIsThere(memo)
  /\ NothingYet
  /\ TouchesWhatIsThere
  /\ (phase = "handler" \/ (phase = "game" /\ frame > 0)) => Left(Window, moved)
-----------------------------------------------------------------------------
(* PAGES                                                                   *)

(* Of two multiples, one that is less is less by the divisor at least.     *)
LEMMA NextMultiple ==
  ASSUME NEW d \in Nat \ {0}, NEW p \in Int, NEW q \in Int, p * d < q * d
  PROVE  p * d + d <= q * d
<1>1. p < q
  <2> SUFFICES ASSUME q <= p PROVE FALSE
    OBVIOUS
  <2>1. PICK k \in Nat : p = q + k
    <3>1. p - q \in Nat /\ p = q + (p - q)
      OBVIOUS
    <3> QED
      BY <3>1
  <2>2. p * d = q * d + k * d /\ k * d >= 0
    BY <2>1
  <2> QED
    BY <2>2
<1>2. PICK k \in Nat : q = p + 1 + k
  <2>1. q - p - 1 \in Nat /\ q = p + 1 + (q - p - 1)
    BY <1>1
  <2> QED
    BY <2>1
<1>3. q * d = p * d + d + k * d /\ k * d >= 0
  BY <1>2
<1>4. q * d \in Int /\ p * d \in Int /\ k * d \in Int
  OBVIOUS
<1> QED
  BY <1>3, <1>4

(* What dividing leaves.                                                   *)
LEMMA Divides ==
  ASSUME NEW n \in Int, NEW d \in Nat \ {0}
  PROVE  n \div d \in Int /\ n % d \in 0 .. d - 1 /\ n = (n \div d) * d + (n % d)
<1>1. n \div d \in Int
  OBVIOUS
<1>2. n % d \in 0 .. d - 1
  OBVIOUS
<1>3. n = d * (n \div d) + (n % d)
  OBVIOUS
<1>4. d * (n \div d) = (n \div d) * d
  BY <1>1
<1> QED
  BY <1>1, <1>2, <1>3, <1>4

(* RoundDown goes to the multiple at or below a number.                    *)
LEMMA RoundedDown ==
  ASSUME NEW n \in Int, NEW d \in Nat \ {0}
  PROVE  /\ RoundDown(n, d) \in Int /\ RoundDown(n, d) <= n /\ n < RoundDown(n, d) + d
         /\ \E q \in Int : RoundDown(n, d) = q * d
<1>1. PICK q \in Int, r \in 0 .. d - 1 : n = q * d + r /\ r = n % d
  BY Divides
<1>2. q * d \in Int
  OBVIOUS
<1>3. RoundDown(n, d) = q * d
  BY <1>1, <1>2 DEF RoundDown
<1>4. q * d <= n /\ n < q * d + d
  BY <1>1, <1>2
<1> QED
  BY <1>2, <1>3, <1>4

(* RoundUp goes to the multiple at or above it.                            *)
LEMMA RoundedUp ==
  ASSUME NEW n \in Int, NEW d \in Nat \ {0}
  PROVE  /\ RoundUp(n, d) \in Int /\ n <= RoundUp(n, d)
         /\ \E q \in Int : RoundUp(n, d) = q * d
<1>1. n + d - 1 \in Int
  OBVIOUS
<1>2. PICK q \in Int, r \in 0 .. d - 1 : n + d - 1 = q * d + r /\ q = (n + d - 1) \div d
  BY <1>1, Divides
<1>3. RoundUp(n, d) = q * d
  BY <1>2 DEF RoundUp
<1>4. q * d \in Int
  OBVIOUS
<1>5. n <= q * d
  BY <1>2, <1>4
<1> QED
  BY <1>3, <1>4, <1>5

(* Rounding down keeps order, and does not go below 0.                     *)
LEMMA RoundsInOrder ==
  ASSUME NEW m \in Int, NEW n \in Int, NEW d \in Nat \ {0}, m <= n
  PROVE  RoundDown(m, d) <= RoundDown(n, d) /\ (m >= 0 => RoundDown(m, d) >= 0)
<1>1. PICK p \in Int : RoundDown(m, d) = p * d
  BY RoundedDown
<1>2. PICK q \in Int : RoundDown(n, d) = q * d
  BY RoundedDown
<1>3. /\ RoundDown(m, d) \in Int /\ RoundDown(m, d) <= m /\ m < RoundDown(m, d) + d
      /\ RoundDown(n, d) \in Int /\ n < RoundDown(n, d) + d
  BY RoundedDown
<1>4. ASSUME RoundDown(n, d) < RoundDown(m, d) PROVE FALSE
  <2>1. RoundDown(n, d) + d <= RoundDown(m, d)
    BY <1>1, <1>2, <1>4, NextMultiple
  <2> QED
    BY <1>3, <2>1
<1>5. ASSUME m >= 0, RoundDown(m, d) < 0 PROVE FALSE
  <2>1. 0 * d = 0
    OBVIOUS
  <2>2. p * d + d <= 0 * d
    BY <1>1, <1>5, <2>1, NextMultiple
  <2> QED
    BY <1>1, <1>3, <1>5, <2>1, <2>2
<1> QED
  BY <1>3, <1>4, <1>5

(* A page of the memo is in one page of the host.                          *)
LEMMA PagesNest ==
  ASSUME NEW lo \in Int, NEW hi \in Int, lo < hi,
         NEW small \in Nat \ {0}, NEW large \in Nat \ {0}, large % small = 0
  PROVE  /\ RoundDown(lo, large) <= RoundDown(lo, small)
         /\ RoundDown(lo, small) + small <= RoundUp(hi, large)
<1>1. PICK k \in Int : large = k * small
  <2>1. PICK k \in Int : large = k * small + (large % small)
    <3>1. large \in Int
      OBVIOUS
    <3>2. large \div small \in Int /\ large = (large \div small) * small + (large % small)
      BY <3>1, Divides
    <3> QED
      BY <3>2
  <2>2. k * small \in Int
    OBVIOUS
  <2> QED
    BY <2>1, <2>2
<1>2. PICK p \in Int : RoundDown(lo, small) = p * small
  BY RoundedDown
<1>3. PICK q \in Int : RoundDown(lo, large) = q * large
  BY RoundedDown
<1>4. PICK r \in Int : RoundUp(hi, large) = r * large
  BY RoundedUp
<1>5. /\ q * k \in Int /\ RoundDown(lo, large) = (q * k) * small
      /\ r * k \in Int /\ RoundUp(hi, large) = (r * k) * small
  BY <1>1, <1>3, <1>4
<1>6. /\ RoundDown(lo, small) \in Int /\ RoundDown(lo, small) <= lo /\ lo < RoundDown(lo, small) + small
      /\ RoundDown(lo, large) \in Int /\ RoundDown(lo, large) <= lo
      /\ RoundUp(hi, large) \in Int /\ hi <= RoundUp(hi, large)
  BY RoundedDown, RoundedUp
<1>7. ASSUME RoundDown(lo, small) < RoundDown(lo, large) PROVE FALSE
  <2>1. RoundDown(lo, small) + small <= RoundDown(lo, large)
    BY <1>2, <1>5, <1>7, NextMultiple
  <2> QED
    BY <1>6, <2>1
<1>8. RoundDown(lo, small) < RoundUp(hi, large)
  BY <1>6
<1>9. RoundDown(lo, small) + small <= RoundUp(hi, large)
  BY <1>2, <1>5, <1>8, NextMultiple
<1> QED
  BY <1>6, <1>7, <1>9

(* A page of the memo that begins below the top ends there at the latest.  *)
LEMMA PageBelowTop ==
  ASSUME NEW lo \in 0 .. Top - 1
  PROVE  RoundDown(lo, MemoPage) >= 0 /\ RoundDown(lo, MemoPage) + MemoPage <= Top
<1>1. Top \in Nat /\ MemoPage \in Nat \ {0} /\ Top % MemoPage = 0 /\ lo \in Int
  BY MemMapAssumption
<1>2. PICK p \in Int : RoundDown(lo, MemoPage) = p * MemoPage
  BY <1>1, RoundedDown
<1>3. PICK q \in Int : Top = q * MemoPage
  <2>1. PICK q \in Int : Top = q * MemoPage + (Top % MemoPage)
    <3>1. Top \in Int
      BY <1>1
    <3>2. Top \div MemoPage \in Int /\ Top = (Top \div MemoPage) * MemoPage + (Top % MemoPage)
      BY <1>1, <3>1, Divides
    <3> QED
      BY <3>2
  <2>2. q * MemoPage \in Int
    BY <1>1
  <2> QED
    BY <1>1, <2>1, <2>2
<1>4. RoundDown(lo, MemoPage) \in Int /\ RoundDown(lo, MemoPage) <= lo
  BY <1>1, RoundedDown
<1>5. p * MemoPage < q * MemoPage
  BY <1>1, <1>2, <1>3, <1>4
<1>6. RoundDown(lo, MemoPage) + MemoPage <= Top
  BY <1>1, <1>2, <1>3, <1>5, NextMultiple
<1>7. RoundDown(lo, MemoPage) >= 0
  BY <1>1, RoundsInOrder
<1> QED
  BY <1>6, <1>7
-----------------------------------------------------------------------------
(* COUNTING UP                                                             *)

(* A set of numbers that is not empty has a least.                         *)
LEMMA LeastOf ==
  ASSUME NEW S \in SUBSET Nat, S # {}
  PROVE  \E i \in S : \A j \in S : i <= j
<1>1. PICK i \in S : \A j \in S : <<j, i>> \notin OpToRel(<, Nat)
  BY NatLessThanWellFounded, WFMin
<1>2. ASSUME NEW j \in S PROVE ~(j < i)
  <2>1. <<j, i>> \notin {ss \in Nat \X Nat : ss[1] < ss[2]}
    BY <1>1 DEF OpToRel
  <2>2. j \in Nat /\ i \in Nat
    OBVIOUS
  <2> QED
    BY <2>1, <2>2
<1> QED
  BY <1>2

(* What holds at 0 and goes from one to the next holds up to N.            *)
LEMMA UpTo ==
  ASSUME NEW N \in Nat, NEW S, 0 \in S, \A n \in 1 .. N : n - 1 \in S => n \in S
  PROVE  \A n \in 0 .. N : n \in S
<1> SUFFICES ASSUME NEW m \in 0 .. N, m \notin S PROVE FALSE
  OBVIOUS
<1> DEFINE Out == {n \in 0 .. N : n \notin S}
<1>1. Out \in SUBSET Nat /\ Out # {}
  OBVIOUS
<1> HIDE DEF Out
<1>2. PICK n \in Out : \A j \in Out : n <= j
  BY <1>1, LeastOf
<1>3. n \in 1 .. N /\ n \notin S
  BY <1>2 DEF Out
<1>4. n - 1 \in 0 .. N /\ n - 1 \notin Out
  BY <1>2, <1>3
<1> QED
  BY <1>3, <1>4 DEF Out

(* A function that is defined step by step is there.                       *)
Steps(f, N, s, F) == \A n \in 0 .. N : f[n] = IF n = 0 THEN s ELSE F[n][f[n - 1]]

(* Steps that stay in a set can be taken one after the other.              *)
LEMMA Iterates ==
  ASSUME NEW N \in Nat, NEW S, NEW s \in S, NEW F \in [1 .. N -> [S -> S]]
  PROVE  \E f \in [0 .. N -> S] : Steps(f, N, s, F)
<1> DEFINE Up(f, m) == \A n \in 0 .. m : f[n] = IF n = 0 THEN s ELSE F[n][f[n - 1]]
           There == {m \in 0 .. N : \E f \in [0 .. N -> S] : Up(f, m)}
<1>1. 0 \in There
  <2> DEFINE f == [n \in 0 .. N |-> s]
  <2>1. f \in [0 .. N -> S]
    OBVIOUS
  <2>2. ASSUME NEW n \in 0 .. 0 PROVE f[n] = IF n = 0 THEN s ELSE F[n][f[n - 1]]
    BY <2>2
  <2>3. 0 \in 0 .. N
    OBVIOUS
  <2> QED
    BY <2>1, <2>2, <2>3
<1>2. ASSUME NEW m \in 1 .. N, m - 1 \in There PROVE m \in There
  <2>1. PICK f \in [0 .. N -> S] : Up(f, m - 1)
    BY <1>2
  <2> DEFINE g == [f EXCEPT ![m] = F[m][f[m - 1]]]
  <2>2. g \in [0 .. N -> S]
    OBVIOUS
  <2>3. ASSUME NEW n \in 0 .. m PROVE g[n] = IF n = 0 THEN s ELSE F[n][g[n - 1]]
    <3>1. CASE n = m
      BY <3>1
    <3>2. CASE n # m
      <4>1. n \in 0 .. m - 1 /\ n \in 0 .. N
        BY <3>2
      <4>2. f[n] = IF n = 0 THEN s ELSE F[n][f[n - 1]]
        BY <2>1, <4>1
      <4>3. g[n] = f[n] /\ (n # 0 => g[n - 1] = f[n - 1])
        BY <4>1, <3>2
      <4> QED
        BY <4>2, <4>3
    <3> QED
      BY <3>1, <3>2
  <2>4. Up(g, m)
    BY <2>3
  <2>5. m \in 0 .. N
    OBVIOUS
  <2> HIDE DEF g, Up
  <2> QED
    BY <2>2, <2>4, <2>5
<1>3. N \in There
  <2> HIDE DEF There
  <2>1. \A n \in 0 .. N : n \in There
    BY <1>1, <1>2, UpTo
  <2> QED
    BY <2>1
<1> QED
  BY <1>3 DEF Steps

-----------------------------------------------------------------------------
(* THE SPANS OF THE MAP                                                    *)

SpanLists == Seq([base : Nat, size : Nat])

(* A span holds a region.                                                  *)
Holds(s, r) == s.base <= r.base /\ r.base + r.size <= s.base + s.size

(* The spans that the first n regions were merged into.                    *)
Merges(spans, n, page) ==
  /\ spans \in SpanLists
  /\ \A i, j \in DOMAIN spans : i < j => spans[i].base + spans[i].size < spans[j].base
  /\ \A k \in 1 .. n : \E i \in DOMAIN spans : Holds(spans[i], Regions[k])
  /\ spans # <<>> => \E k \in 1 .. n : spans[Len(spans)].base = RoundDown(Regions[k].base, page)

(* What is in a list of spans.                                             *)
LEMMA SpansInList ==
  ASSUME NEW spans \in SpanLists
  PROVE  /\ Len(spans) \in Nat /\ DOMAIN spans = 1 .. Len(spans)
         /\ \A i \in DOMAIN spans :
              spans[i] \in [base : Nat, size : Nat] /\ spans[i].base \in Nat /\ spans[i].size \in Nat
         /\ spans # <<>> => Len(spans) \in DOMAIN spans
<1> DEFINE S == [base : Nat, size : Nat]
<1>1. spans \in Seq(S)
  BY DEF SpanLists
<1> HIDE DEF S
<1>2. /\ Len(spans) \in Nat /\ DOMAIN spans = 1 .. Len(spans)
      /\ spans # <<>> => Len(spans) \in DOMAIN spans
  BY <1>1
<1>3. ASSUME NEW i \in DOMAIN spans PROVE spans[i] \in S
  BY <1>1, <1>3
<1>4. ASSUME NEW x \in S PROVE x.base \in Nat /\ x.size \in Nat
  BY <1>4 DEF S
<1> QED
  BY <1>2, <1>3, <1>4 DEF S

(* The ends of a region, rounded out.                                      *)
LEMMA RegionEnds ==
  ASSUME NEW r \in [base : Nat, size : Nat], NEW page \in Nat \ {0}
  PROVE  /\ RoundDown(r.base, page) \in Nat /\ RoundDown(r.base, page) <= r.base
         /\ r.base + RoundUp(r.size, page) \in Nat
         /\ r.base + r.size <= r.base + RoundUp(r.size, page)
<1>1. r.base \in Int /\ r.size \in Int /\ r.base >= 0 /\ r.size >= 0
  OBVIOUS
<1>2. RoundDown(r.base, page) \in Int /\ RoundDown(r.base, page) <= r.base /\ RoundDown(r.base, page) >= 0
  BY <1>1, RoundedDown, RoundsInOrder
<1>3. RoundUp(r.size, page) \in Int /\ r.size <= RoundUp(r.size, page)
  BY <1>1, RoundedUp
<1> QED
  BY <1>1, <1>2, <1>3

(* One region more, and the list is a list of spans still.                 *)
LEMMA JoinedIsList ==
  ASSUME NEW spans \in SpanLists, NEW r \in [base : Nat, size : Nat], NEW page \in Nat \ {0}
  PROVE  Joined(spans, r, page) \in SpanLists
<1> DEFINE lo == RoundDown(r.base, page)
           hi == r.base + RoundUp(r.size, page)
           last == spans[Len(spans)]
<1>1. lo \in Nat /\ hi \in Nat /\ lo <= hi
  <2>1. r.base \in Nat /\ r.size \in Nat
    OBVIOUS
  <2> QED
    BY <2>1, RegionEnds
<1> HIDE DEF lo, hi
<1>2. CASE spans # <<>> /\ lo <= last.base + last.size
  <2>1. Len(spans) \in DOMAIN spans /\ last \in [base : Nat, size : Nat]
    BY <1>2, SpansInList
  <2>2. Joined(spans, r, page) = IF hi > last.base + last.size
                                   THEN [spans EXCEPT ![Len(spans)].size = hi - last.base] ELSE spans
    BY <1>2 DEF Joined, Merged, Extended, lo, hi
  <2>3. CASE hi > last.base + last.size
    <3>1. [last EXCEPT !.size = hi - last.base] \in [base : Nat, size : Nat]
      BY <1>1, <2>1, <2>3
    <3>2. Joined(spans, r, page) = [spans EXCEPT ![Len(spans)] = [last EXCEPT !.size = hi - last.base]]
      BY <2>2, <2>3
    <3> HIDE DEF last
    <3> QED
      BY <2>1, <3>1, <3>2 DEF SpanLists
  <2> QED
    BY <2>2, <2>3
<1>3. CASE ~(spans # <<>> /\ lo <= last.base + last.size)
  <2>1. Joined(spans, r, page) = Append(spans, [base |-> lo, size |-> hi - lo])
    BY <1>3 DEF Joined, lo, hi
  <2> QED
    BY <1>1, <2>1 DEF SpanLists
<1> QED
  BY <1>2, <1>3

(* One region more, and the spans hold it and are apart still.             *)
LEMMA JoinedMerges ==
  ASSUME NEW page \in Nat \ {0}, NEW n \in 1 .. Len(Regions), NEW spans, Merges(spans, n - 1, page)
  PROVE  Merges(Joined(spans, Regions[n], page), n, page)
<1> DEFINE r == Regions[n]
           lo == RoundDown(r.base, page)
           hi == r.base + RoundUp(r.size, page)
           last == spans[Len(spans)]
           result == Joined(spans, r, page)
<1>1. /\ DOMAIN Regions = 1 .. Len(Regions) /\ Len(Regions) \in Nat /\ r \in [base : Nat, size : Nat]
      /\ \A k \in DOMAIN Regions : Regions[k].base \in Nat /\ Regions[k].size \in Nat
  <2>1. Regions \in SpanLists
    BY MemMapAssumption DEF SpanLists
  <2> QED
    BY <2>1, SpansInList
<1>2. lo \in Nat /\ hi \in Nat /\ lo <= r.base /\ r.base + r.size <= hi /\ lo <= hi
  BY <1>1, RegionEnds
<1>3. /\ spans \in SpanLists /\ DOMAIN spans = 1 .. Len(spans) /\ Len(spans) \in Nat
      /\ \A i \in DOMAIN spans : spans[i].base \in Nat /\ spans[i].size \in Nat
  <2>1. spans \in SpanLists
    BY DEF Merges
  <2> QED
    BY <2>1, SpansInList
<1>4. result \in SpanLists
  BY <1>1, <1>3, JoinedIsList
<1>5. CASE spans # <<>> /\ lo <= last.base + last.size
  <2>1. /\ Len(spans) \in DOMAIN spans /\ last.base \in Nat /\ last.size \in Nat
        /\ last \in [base : Nat, size : Nat]
    BY <1>3, <1>5, SpansInList
  <2>2. last.base <= lo
    <3>1. PICK k \in 1 .. n - 1 : last.base = RoundDown(Regions[k].base, page)
      BY <1>5 DEF Merges
    <3>2. k \in DOMAIN Regions /\ n \in DOMAIN Regions /\ k < n
      BY <1>1, <3>1
    <3>3. Regions[k].base <= r.base
      BY <3>2, MemMapAssumption
    <3>4. Regions[k].base \in Int /\ r.base \in Int
      BY <1>1, <3>2
    <3> QED
      BY <3>1, <3>3, <3>4, RoundsInOrder
  <2>3. PICK size \in Nat : /\ result = [spans EXCEPT ![Len(spans)] = [last EXCEPT !.size = size]]
                            /\ hi <= last.base + size /\ last.size <= size
    <3>1. result = IF hi > last.base + last.size
                     THEN [spans EXCEPT ![Len(spans)].size = hi - last.base] ELSE spans
      BY <1>5 DEF Joined, Merged, Extended
    <3>2. CASE hi > last.base + last.size
      <4>1. hi - last.base \in Nat /\ hi <= last.base + (hi - last.base) /\ last.size <= hi - last.base
        BY <1>2, <2>1, <3>2
      <4> QED
        BY <3>1, <3>2, <4>1
    <3>3. CASE ~(hi > last.base + last.size)
      <4>1. [last EXCEPT !.size = last.size] = last
        BY <2>1
      <4>2. spans = [spans EXCEPT ![Len(spans)] = [last EXCEPT !.size = last.size]]
        BY <1>3, <2>1, <4>1 DEF SpanLists
      <4>3. hi <= last.base + last.size
        BY <1>2, <2>1, <3>3
      <4> QED
        BY <2>1, <3>1, <3>3, <4>2, <4>3
    <3> QED
      BY <3>2, <3>3
  <2>4. /\ DOMAIN result = DOMAIN spans /\ Len(result) = Len(spans)
        /\ \A i \in DOMAIN spans : i # Len(spans) => result[i] = spans[i]
        /\ result[Len(spans)].base = last.base /\ result[Len(spans)].size = size
    BY <1>3, <2>1, <2>3 DEF SpanLists
  <2> HIDE DEF result, last, lo, hi, r
  <2>5. ASSUME NEW i \in DOMAIN result, NEW j \in DOMAIN result, i < j
        PROVE  result[i].base + result[i].size < result[j].base
    <3>1. i # Len(spans)
      BY <1>3, <2>4, <2>5
    <3>2. result[j].base = spans[j].base
      BY <2>4 DEF last
    <3>3. i \in DOMAIN spans /\ j \in DOMAIN spans /\ result[i] = spans[i]
      BY <2>4, <3>1
    <3>4. spans[i].base + spans[i].size < spans[j].base
      BY <2>5, <3>3 DEF Merges
    <3> QED
      BY <3>2, <3>3, <3>4
  <2>6. ASSUME NEW k \in 1 .. n PROVE \E i \in DOMAIN result : Holds(result[i], Regions[k])
    <3>1. CASE k = n
      <4>1. r.base \in Nat /\ r.size \in Nat
        BY <1>1
      <4>2. last.base <= r.base /\ r.base + r.size <= last.base + size
        <5>1. PICK a \in Nat, z \in Nat, b \in Nat : a = r.base /\ z = r.size /\ b = last.base
          BY <2>1, <4>1
        <5>2. b <= lo /\ lo <= a /\ a + z <= hi /\ hi <= b + size
          BY <1>2, <2>2, <2>3, <5>1
        <5>3. lo \in Nat /\ hi \in Nat /\ size \in Nat
          BY <1>2, <2>3
        <5>4. b <= a /\ a + z <= b + size
          BY <5>2, <5>3
        <5> QED
          BY <5>1, <5>4
      <4>3. Holds(result[Len(spans)], r)
        BY <2>4, <4>2 DEF Holds
      <4> QED
        BY <2>1, <2>4, <3>1, <4>3 DEF r
    <3>2. CASE k # n
      <4>1. k \in 1 .. n - 1 /\ k \in DOMAIN Regions
        BY <1>1, <3>2
      <4>2. PICK i \in DOMAIN spans : Holds(spans[i], Regions[k])
        BY <4>1 DEF Merges
      <4>3. result[i].base = spans[i].base /\ result[i].size >= spans[i].size /\ result[i].size \in Nat
        BY <1>3, <2>1, <2>3, <2>4 DEF last
      <4>4. Regions[k].base \in Nat /\ Regions[k].size \in Nat
        BY <1>1, <4>1
      <4>5. /\ spans[i].base <= Regions[k].base
            /\ Regions[k].base + Regions[k].size <= spans[i].base + spans[i].size
        BY <4>2 DEF Holds
      <4>6. Regions[k].base + Regions[k].size <= spans[i].base + result[i].size
        <5>1. spans[i].base \in Nat /\ spans[i].size \in Nat
          BY <1>3, <4>2
        <5>2. PICK b \in Nat, z \in Nat : b = spans[i].base /\ z = spans[i].size
          BY <5>1
        <5>3. PICK a \in Nat : a = Regions[k].base + Regions[k].size
          BY <4>4
        <5>4. a <= b + z
          BY <4>5, <5>2, <5>3
        <5>5. PICK y \in Nat : y = result[i].size /\ z <= y
          BY <4>3, <5>2
        <5>6. a <= b + y
          BY <5>4, <5>5
        <5> QED
          BY <5>2, <5>3, <5>5, <5>6
      <4>7. Holds(result[i], Regions[k])
        BY <4>3, <4>5, <4>6 DEF Holds
      <4> QED
        BY <2>4, <4>2, <4>7
    <3> QED
      BY <3>1, <3>2
  <2>7. \E k \in 1 .. n : result[Len(result)].base = RoundDown(Regions[k].base, page)
    <3>1. PICK k \in 1 .. n - 1 : last.base = RoundDown(Regions[k].base, page)
      BY <1>5 DEF Merges, last
    <3>2. k \in 1 .. n
      BY <1>1, <3>1
    <3> QED
      BY <2>4, <3>1, <3>2
  <2> QED
    BY <1>4, <2>5, <2>6, <2>7 DEF Merges, result, r
<1>6. CASE ~(spans # <<>> /\ lo <= last.base + last.size)
  <2> DEFINE new == [base |-> lo, size |-> hi - lo]
  <2>1. result = Append(spans, new)
    BY <1>6 DEF Joined
  <2>2. new \in [base : Nat, size : Nat] /\ new.base = lo /\ new.base + new.size = hi
    BY <1>2
  <2> HIDE DEF result, new, last, lo, hi, r
  <2>3. /\ DOMAIN result = 1 .. Len(spans) + 1 /\ Len(result) = Len(spans) + 1
        /\ \A i \in 1 .. Len(spans) : result[i] = spans[i]
        /\ result[Len(spans) + 1] = new
    BY <1>3, <2>1, <2>2 DEF SpanLists
  <2>4. ASSUME NEW i \in DOMAIN result, NEW j \in DOMAIN result, i < j
        PROVE  result[i].base + result[i].size < result[j].base
    <3>1. i \in DOMAIN spans /\ result[i] = spans[i] /\ spans # <<>> /\ Len(spans) \in DOMAIN spans
      BY <1>3, <2>3, <2>4
    <3>2. CASE j = Len(spans) + 1
      <4>1. result[j].base = lo
        BY <2>2, <2>3, <3>2
      <4>2. last.base + last.size < lo
        BY <1>2, <1>3, <1>6, <3>1 DEF last
      <4>3. CASE i = Len(spans)
        BY <3>1, <4>1, <4>2, <4>3 DEF last
      <4>4. CASE i # Len(spans)
        <5>1. i < Len(spans)
          BY <1>3, <3>1, <4>4
        <5>2. spans[i].base + spans[i].size < last.base
          BY <3>1, <5>1 DEF Merges, last
        <5>3. PICK b \in Nat, z \in Nat, e \in Nat :
                b = last.base /\ z = last.size /\ e = spans[i].base + spans[i].size
          BY <1>3, <3>1 DEF last
        <5>4. e < b /\ b + z < lo
          BY <4>2, <5>2, <5>3
        <5>5. e < lo
          BY <1>2, <5>3, <5>4
        <5> QED
          BY <3>1, <4>1, <5>3, <5>5
      <4> QED
        BY <4>3, <4>4
    <3>3. CASE j # Len(spans) + 1
      <4>1. j \in DOMAIN spans /\ result[j] = spans[j]
        BY <1>3, <2>3, <3>3
      <4> QED
        BY <2>4, <3>1, <4>1 DEF Merges
    <3> QED
      BY <3>2, <3>3
  <2>5. ASSUME NEW k \in 1 .. n PROVE \E i \in DOMAIN result : Holds(result[i], Regions[k])
    <3>1. CASE k = n
      <4>1. Holds(new, r)
        BY <1>2, <2>2 DEF Holds
      <4>2. Len(spans) + 1 \in DOMAIN result
        BY <1>3, <2>3
      <4> QED
        BY <2>3, <3>1, <4>1, <4>2 DEF r
    <3>2. CASE k # n
      <4>1. k \in 1 .. n - 1
        BY <1>1, <3>2
      <4>2. PICK i \in DOMAIN spans : Holds(spans[i], Regions[k])
        BY <4>1 DEF Merges
      <4> QED
        BY <1>3, <2>3, <4>2
    <3> QED
      BY <3>1, <3>2
  <2>6. \E k \in 1 .. n : result[Len(result)].base = RoundDown(Regions[k].base, page)
    <3>1. n \in 1 .. n
      OBVIOUS
    <3> QED
      BY <2>2, <2>3, <3>1 DEF lo, r
  <2> QED
    BY <1>4, <2>4, <2>5, <2>6 DEF Merges, result, r
<1> QED
  BY <1>5, <1>6
(* Coalesce merges every region.                                           *)
LEMMA CoalesceMerges ==
  ASSUME NEW page \in Nat \ {0}
  PROVE  Merges(Coalesce(page), Len(Regions), page)
<1> DEFINE N == Len(Regions)
           F == [n \in 1 .. N |-> [spans \in SpanLists |-> Joined(spans, Regions[n], page)]]
           after == CHOOSE f : f = [n \in 0 .. N |-> IF n = 0 THEN <<>> ELSE Joined(f[n - 1], Regions[n], page)]
<1>1. N \in Nat /\ \A n \in 1 .. N : Regions[n] \in [base : Nat, size : Nat]
  <2>1. Regions \in SpanLists
    BY MemMapAssumption DEF SpanLists
  <2> QED
    BY <2>1, SpansInList
<1>2. Coalesce(page) = after[N]
  BY DEF Coalesce
<1>3. <<>> \in SpanLists
  BY DEF SpanLists
<1> HIDE DEF N
<1>4. F \in [1 .. N -> [SpanLists -> SpanLists]]
  BY <1>1, JoinedIsList
<1>5. PICK f \in [0 .. N -> SpanLists] : \A n \in 0 .. N : f[n] = IF n = 0 THEN <<>> ELSE F[n][f[n - 1]]
  <2>1. PICK G : G = F
    OBVIOUS
  <2>2. G \in [1 .. N -> [SpanLists -> SpanLists]]
    BY <1>4, <2>1
  <2> HIDE DEF F
  <2>3. \E f \in [0 .. N -> SpanLists] : Steps(f, N, <<>>, G)
    BY <1>1, <1>3, <2>2, Iterates
  <2> QED
    BY <2>1, <2>3 DEF Steps
<1>6. f = [n \in 0 .. N |-> IF n = 0 THEN <<>> ELSE Joined(f[n - 1], Regions[n], page)]
  <2>1. ASSUME NEW n \in 0 .. N
        PROVE  f[n] = IF n = 0 THEN <<>> ELSE Joined(f[n - 1], Regions[n], page)
    <3>1. CASE n = 0
      BY <1>1, <1>5, <3>1
    <3>2. CASE n # 0
      <4>1. n \in 1 .. N /\ n - 1 \in 0 .. N
        BY <1>1, <3>2
      <4>2. f[n] = F[n][f[n - 1]] /\ f[n - 1] \in SpanLists
        BY <1>5, <3>2, <4>1
      <4> QED
        BY <3>2, <4>1, <4>2
    <3> QED
      BY <3>1, <3>2
  <2>2. f = [n \in 0 .. N |-> f[n]]
    BY <1>5
  <2> QED
    BY <2>1, <2>2
<1>7. after = [n \in 0 .. N |-> IF n = 0 THEN <<>> ELSE Joined(after[n - 1], Regions[n], page)]
  BY <1>6
<1> HIDE DEF after, F
<1> DEFINE So == {n \in 0 .. N : Merges(after[n], n, page)}
<1>8. 0 \in So
  <2>1. 0 \in 0 .. N /\ after[0] = <<>>
    BY <1>1, <1>7
  <2>2. Merges(<<>>, 0, page)
    BY <1>3 DEF Merges
  <2> QED
    BY <2>1, <2>2
<1>9. ASSUME NEW n \in 1 .. N, n - 1 \in So PROVE n \in So
  <2>1. n \in 0 .. N /\ n # 0 /\ n \in 1 .. Len(Regions)
    BY <1>1 DEF N
  <2>2. after[n] = Joined(after[n - 1], Regions[n], page)
    BY <1>7, <2>1
  <2>3. Merges(after[n - 1], n - 1, page)
    BY <1>9
  <2>4. Merges(after[n], n, page)
    BY <2>1, <2>2, <2>3, JoinedMerges
  <2> QED
    BY <2>1, <2>4
<1>10. N \in So
  <2> HIDE DEF So
  <2>1. \A n \in 0 .. N : n \in So
    BY <1>1, <1>8, <1>9, UpTo
  <2>2. N \in 0 .. N
    BY <1>1
  <2> QED
    BY <2>1, <2>2
<1> QED
  BY <1>2, <1>10 DEF N

-----------------------------------------------------------------------------
(* WHAT A TRANSFER TOUCHES                                                 *)

(* The state a transfer may run in: the map is whole, and the window is    *)
(* around what is ours.                                                    *)
Mapped ==
  /\ space \in [host : {"posix", "win32"}, page : Nat \ {0}, owner : [Cells -> Others \cup {"ours"}],
                lo : Nat, hi : Nat]
  /\ space.page % MemoPage = 0
  /\ \A c \in RegionCells : space.owner[c] = "ours"
  /\ \A c \in Cells : space.owner[c] = "ours" => space.lo <= c /\ c < space.hi

Memos == [page : Int, ok : BOOLEAN]

(* A cell that is there: one the console decodes, or one of the process    *)
(* that is not in the map.                                                 *)
There(c) ==
  /\ c \in Cells /\ space.owner[c] \in Valid(space.host)
  /\ space.owner[c] = "ours" => c \in RegionCells

(* A range of the console is of cells that are there.                      *)
LEMMA DecodedIsThere ==
  ASSUME Mapped, NEW lo \in Int, NEW len \in Nat, Decoded(lo, len),
         NEW c \in lo .. lo + len - 1
  PROVE  There(c)
<1>1. PICK i \in DOMAIN Regions : lo >= Regions[i].base /\ lo + len <= Regions[i].base + Regions[i].size
  BY DEF Decoded
<1>2. Regions[i].base \in Nat /\ Regions[i].size \in Nat
  <2>1. Regions \in SpanLists
    BY MemMapAssumption DEF SpanLists
  <2> QED
    BY <2>1, SpansInList
<1>3. Regions[i].base + Regions[i].size <= Top /\ Top \in Nat
  BY MemMapAssumption
<1>4. c \in Span(Regions[i].base, Regions[i].size)
  BY <1>1, <1>2 DEF Span
<1>5. c \in Cells
  BY <1>1, <1>2, <1>3 DEF Cells
<1>6. c \in RegionCells
  BY <1>4 DEF RegionCells
<1>7. space.owner[c] = "ours"
  BY <1>6 DEF Mapped
<1> QED
  BY <1>5, <1>6, <1>7 DEF There, Valid

(* A range the host knows is of pages that are there, and so is the page   *)
(* the memo keeps of it.                                                   *)
LEMMA ValidIsThere ==
  ASSUME Mapped, NEW lo \in Int, NEW len \in Nat \ {0},
         AddrValid(space.host, space.owner, space.page, lo, len)
  PROVE  /\ \A c \in lo .. lo + len - 1 : c \in Cells /\ space.owner[c] \in Valid(space.host)
         /\ \A c \in RoundDown(lo, MemoPage) .. RoundDown(lo, MemoPage) + MemoPage - 1 :
              c \in Cells /\ space.owner[c] \in Valid(space.host)
<1> DEFINE page == PageOf(space.host, space.page)
<1>1. /\ page \in Nat \ {0} /\ page % MemoPage = 0 /\ MemoPage \in Nat \ {0} /\ Top \in Nat
  <2>1. space.page \in Nat \ {0} /\ space.page % MemoPage = 0
    BY DEF Mapped
  <2>2. MemoPage \in Nat \ {0} /\ Top \in Nat
    BY MemMapAssumption
  <2>3. MemoPage % MemoPage = 0
    BY <2>2
  <2> QED
    BY <2>1, <2>2, <2>3 DEF PageOf
<1>2. lo >= 0 /\ lo + len <= Top
  BY DEF AddrValid
<1>3. \A c \in RoundDown(lo, page) .. RoundUp(lo + len, page) - 1 :
        c \in Cells => space.owner[c] \in Valid(space.host)
  BY DEF AddrValid, PagesOf
<1> HIDE DEF page
<1>4. lo + len \in Int /\ lo < lo + len
  OBVIOUS
<1>5. /\ RoundDown(lo, page) \in Int /\ RoundDown(lo, page) <= lo
      /\ RoundUp(lo + len, page) \in Int /\ lo + len <= RoundUp(lo + len, page)
      /\ RoundDown(lo, MemoPage) \in Int
  BY <1>1, <1>4, RoundedDown, RoundedUp
<1>6. ASSUME NEW c \in lo .. lo + len - 1 PROVE c \in Cells /\ space.owner[c] \in Valid(space.host)
  <2>1. c \in Cells
    BY <1>1, <1>2 DEF Cells
  <2>2. c \in RoundDown(lo, page) .. RoundUp(lo + len, page) - 1
    BY <1>5
  <2> QED
    BY <1>3, <2>1, <2>2
<1>7. ASSUME NEW c \in RoundDown(lo, MemoPage) .. RoundDown(lo, MemoPage) + MemoPage - 1
      PROVE  c \in Cells /\ space.owner[c] \in Valid(space.host)
  <2>1. lo \in 0 .. Top - 1
    BY <1>1, <1>2
  <2>2. RoundDown(lo, MemoPage) >= 0 /\ RoundDown(lo, MemoPage) + MemoPage <= Top
    BY <2>1, PageBelowTop
  <2>3. c \in Cells
    BY <1>1, <1>5, <2>2 DEF Cells
  <2>4. /\ RoundDown(lo, page) <= RoundDown(lo, MemoPage)
        /\ RoundDown(lo, MemoPage) + MemoPage <= RoundUp(lo + len, page)
    BY <1>1, <1>4, PagesNest
  <2>5. c \in RoundDown(lo, page) .. RoundUp(lo + len, page) - 1
    BY <1>1, <1>5, <2>4
  <2> QED
    BY <1>3, <2>3, <2>5
<1> QED
  BY <1>6, <1>7
(* RangeOk says yes only of cells that are there, and what it leaves in    *)
(* the memo is true of a whole page.                                       *)
LEMMA RangeIsThere ==
  ASSUME Mapped, NEW m \in Memos, MemoPageIsThere(m), NEW lo \in Int, NEW len \in Nat,
         NEW r, r = RangeOk(space, m, lo, len)
  PROVE  /\ r.ok \in BOOLEAN /\ r.memo \in Memos /\ MemoPageIsThere(r.memo)
         /\ r.ok => \A c \in lo .. lo + len - 1 : There(c)
<1>1. CASE Decoded(lo, len)
  <2>1. r = [ok |-> TRUE, memo |-> m]
    BY <1>1 DEF RangeOk
  <2> QED
    BY <1>1, <2>1, DecodedIsThere
<1>2. CASE ~Decoded(lo, len)
  <2> DEFINE refused == len = 0 \/ (lo < 0 /\ lo + len >= 0) \/ (lo < space.hi /\ lo + len > space.lo)
             valid == AddrValid(space.host, space.owner, space.page, lo, len)
  <2>1. r = HostRangeOk(space, m, lo, len)
    BY <1>2 DEF RangeOk
  <2>2. CASE refused
    <3>1. r = [ok |-> FALSE, memo |-> m]
      BY <2>1, <2>2 DEF HostRangeOk
    <3> QED
      BY <3>1
  <2>3. CASE ~refused
    <3>1. r = IF Remembered(m, lo, len) THEN [ok |-> m.ok, memo |-> m]
              ELSE [ok |-> valid, memo |-> [page |-> RoundDown(lo, MemoPage), ok |-> valid]]
      BY <2>1, <2>3 DEF HostRangeOk
    <3>2. len \in Nat \ {0}
      BY <2>3
    <3>3. \A c \in lo .. lo + len - 1 : c \in Cells => space.owner[c] # "ours"
      <4>1. space.lo \in Nat /\ space.hi \in Nat
        BY DEF Mapped
      <4>2. ~(lo < space.hi /\ lo + len > space.lo)
        BY <2>3
      <4> SUFFICES ASSUME NEW c \in lo .. lo + len - 1, c \in Cells, space.owner[c] = "ours" PROVE FALSE
        OBVIOUS
      <4>3. space.lo <= c /\ c < space.hi
        BY DEF Mapped
      <4> QED
        BY <4>1, <4>2, <4>3
    <3> HIDE DEF refused
    <3>4. CASE Remembered(m, lo, len)
      <4>1. r = [ok |-> m.ok, memo |-> m]
        BY <3>1, <3>4
      <4>2. ASSUME m.ok, NEW c \in lo .. lo + len - 1 PROVE There(c)
        <5>1. RoundDown(lo, MemoPage) = m.page /\ RoundDown(lo + len - 1, MemoPage) = m.page
          BY <3>4 DEF Remembered
        <5>2. MemoPage \in Nat \ {0} /\ lo + len - 1 \in Int /\ m.page \in Int
          BY <3>2, MemMapAssumption DEF Memos
        <5>3. m.page <= lo /\ lo + len - 1 < m.page + MemoPage
          BY <5>1, <5>2, RoundedDown
        <5>4. c \in m.page .. m.page + MemoPage - 1
          BY <5>2, <5>3
        <5>5. c \in Cells /\ space.owner[c] \in Valid(space.host)
          BY <4>2, <5>4 DEF MemoPageIsThere
        <5> QED
          BY <3>3, <5>5 DEF There
      <4>3. m.ok \in BOOLEAN
        BY DEF Memos
      <4> QED
        BY <4>1, <4>2, <4>3
    <3>5. CASE ~Remembered(m, lo, len)
      <4>1. r.ok = valid /\ r.memo = [page |-> RoundDown(lo, MemoPage), ok |-> valid]
        BY <3>1, <3>5
      <4>2. valid \in BOOLEAN
        BY DEF AddrValid
      <4>3. RoundDown(lo, MemoPage) \in Int
        BY MemMapAssumption, RoundedDown
      <4>4. ASSUME valid
            PROVE  /\ \A c \in lo .. lo + len - 1 : There(c)
                   /\ \A c \in RoundDown(lo, MemoPage) .. RoundDown(lo, MemoPage) + MemoPage - 1 :
                        c \in Cells /\ space.owner[c] \in Valid(space.host)
        BY <3>2, <3>3, <4>4, ValidIsThere DEF There
      <4> HIDE DEF valid
      <4>5. MemoPageIsThere(r.memo)
        BY <4>1, <4>4 DEF MemoPageIsThere
      <4>6. r.memo \in Memos
        BY <4>1, <4>2, <4>3 DEF Memos
      <4> QED
        BY <4>1, <4>2, <4>4, <4>5, <4>6
    <3> QED
      BY <3>4, <3>5
  <2> QED
    BY <2>2, <2>3
<1> QED
  BY <1>1, <1>2

(* The span of a run holds every cell its loop comes to.                   *)
LEMMA SpanHoldsRun ==
  ASSUME NEW start \in Int, NEW ctrl \in Ctrls, NEW unit \in {1, 2}, NEW count \in Nat \ {0},
         NEW s, s = SpanOf(start, ctrl, unit, count)
  PROVE  /\ s.lo \in Int /\ s.len \in Nat
         /\ Touched(start, ctrl, unit, count) \subseteq s.lo .. s.lo + s.len - 1
<1>1. /\ unit \in Nat /\ count * unit \in Nat /\ (count - 1) * unit \in Nat
      /\ count * unit = (count - 1) * unit + unit
  <2>1. CASE unit = 1
    BY <2>1
  <2>2. CASE unit = 2
    BY <2>2
  <2> QED
    BY <2>1, <2>2
<1>2. ASSUME NEW i \in 0 .. count - 1 PROVE i * unit \in Nat /\ i * unit <= (count - 1) * unit
  <2>1. CASE unit = 1
    BY <2>1
  <2>2. CASE unit = 2
    BY <2>2
  <2> QED
    BY <2>1, <2>2
<1>3. ASSUME NEW c \in Touched(start, ctrl, unit, count)
      PROVE  \E i \in 0 .. count - 1, j \in 0 .. unit - 1 : c = start + i * Step(ctrl, unit) + j
  BY <1>3 DEF Touched
<1>4. CASE ctrl = "dec"
  <2>1. s.lo = start - (count - 1) * unit /\ s.len = count * unit
    BY <1>4 DEF SpanOf
  <2>2. ASSUME NEW c \in Touched(start, ctrl, unit, count) PROVE c \in s.lo .. s.lo + s.len - 1
    <3>1. PICK i \in 0 .. count - 1, j \in 0 .. unit - 1 : c = start + i * (-unit) + j
      BY <1>3, <1>4 DEF Step
    <3>2. i * (-unit) = -(i * unit)
      <4>1. CASE unit = 1
        BY <4>1
      <4>2. CASE unit = 2
        BY <4>2
      <4> QED
        BY <4>1, <4>2
    <3>3. i * unit \in Nat /\ i * unit <= (count - 1) * unit
      BY <1>2
    <3> QED
      BY <1>1, <2>1, <3>1, <3>2, <3>3
  <2> QED
    BY <1>1, <2>1, <2>2
<1>5. CASE ctrl = "fixed"
  <2>1. s.lo = start /\ s.len = unit
    BY <1>5 DEF SpanOf
  <2>2. ASSUME NEW c \in Touched(start, ctrl, unit, count) PROVE c \in s.lo .. s.lo + s.len - 1
    <3>1. PICK i \in 0 .. count - 1, j \in 0 .. unit - 1 : c = start + i * 0 + j
      BY <1>3, <1>5 DEF Step
    <3> QED
      BY <1>1, <2>1, <3>1
  <2> QED
    BY <1>1, <2>1, <2>2
<1>6. CASE ctrl \notin {"dec", "fixed"}
  <2>1. s.lo = start /\ s.len = count * unit
    BY <1>6 DEF SpanOf
  <2>2. ASSUME NEW c \in Touched(start, ctrl, unit, count) PROVE c \in s.lo .. s.lo + s.len - 1
    <3>1. PICK i \in 0 .. count - 1, j \in 0 .. unit - 1 : c = start + i * unit + j
      BY <1>3, <1>6 DEF Step
    <3>2. i * unit \in Nat /\ i * unit <= (count - 1) * unit
      BY <1>2
    <3> QED
      BY <1>1, <2>1, <3>1, <3>2
  <2> QED
    BY <1>1, <2>1, <2>2
<1> QED
  BY <1>4, <1>5, <1>6

(* A channel that has moved its count is a channel still.                  *)
LEMMA MovedIsChannel ==
  ASSUME NEW c \in Channel, NEW src \in Int, NEW dest \in Int
  PROVE  Moved(c, src, dest) \in Channel
<1>1. c.count \in Nat /\ c.unit \in {1, 2} /\ c.srcReload \in Int /\ c.destReload \in Int
  BY DEF Channel
<1>2. /\ src + c.count * Step(c.srcCtrl, c.unit) \in Int
      /\ dest + c.count * Step(c.destCtrl, c.unit) \in Int
  BY <1>1 DEF Step
<1>3. PICK a \in Int : a = NextSrc(c, src + c.count * Step(c.srcCtrl, c.unit))
  BY <1>1, <1>2 DEF NextSrc
<1>4. PICK b \in Int : b = NextDest(c, dest + c.count * Step(c.destCtrl, c.unit))
  BY <1>1, <1>2 DEF NextDest
<1>5. [c EXCEPT !.src = a, !.dest = b] \in Channel /\ [c EXCEPT !.armed = FALSE] \in Channel
  BY DEF Channel
<1> QED
  BY <1>3, <1>4, <1>5 DEF Moved
Shapes == SUBSET {"src", "dest"}

(* A transfer touches only what is there, and leaves a channel and a memo  *)
(* that the next can run with.                                             *)
LEMMA TransferIsThere ==
  ASSUME Mapped, NEW m \in Memos, MemoPageIsThere(m), NEW c \in Channel,
         NEW r, r = RunTransfer(space, m, c)
  PROVE  /\ r.ch \in Channel /\ r.memo \in Memos /\ MemoPageIsThere(r.memo)
         /\ r.bytes \in Nat /\ r.bad \in Shapes
         /\ r.cells \subseteq Cells /\ \A cell \in r.cells : There(cell)
<1>1. /\ c.count \in Nat /\ c.unit \in {1, 2} /\ c.src \in Int /\ c.dest \in Int
      /\ c.srcCtrl \in Ctrls /\ c.destCtrl \in Ctrls
  BY DEF Channel
<1>2. PICK src \in Int : src = Aligned(c.src, c.unit)
  BY <1>1 DEF Aligned
<1>3. PICK dest \in Int : dest = Aligned(c.dest, c.unit)
  BY <1>1 DEF Aligned
<1>4. CASE c.count = 0
  <2>1. r = [ch |-> c, memo |-> m, bytes |-> 0, cells |-> {}, bad |-> {}]
    BY <1>4 DEF RunTransfer
  <2> QED
    BY <2>1 DEF Shapes
<1>5. CASE c.count # 0
  <2>1. PICK s : s = SpanOf(src, c.srcCtrl, c.unit, c.count)
    OBVIOUS
  <2>2. PICK d : d = SpanOf(dest, c.destCtrl, c.unit, c.count)
    OBVIOUS
  <2>3. /\ s.lo \in Int /\ s.len \in Nat /\ d.lo \in Int /\ d.len \in Nat
        /\ Touched(src, c.srcCtrl, c.unit, c.count) \subseteq s.lo .. s.lo + s.len - 1
        /\ Touched(dest, c.destCtrl, c.unit, c.count) \subseteq d.lo .. d.lo + d.len - 1
    <3>1. c.count \in Nat \ {0}
      BY <1>1, <1>5
    <3> QED
      BY <1>1, <2>1, <2>2, <3>1, SpanHoldsRun
  <2>4. PICK first : first = RangeOk(space, m, s.lo, s.len)
    OBVIOUS
  <2>5. /\ first.ok \in BOOLEAN /\ first.memo \in Memos /\ MemoPageIsThere(first.memo)
        /\ first.ok => \A cell \in s.lo .. s.lo + s.len - 1 : There(cell)
    BY <2>3, <2>4, RangeIsThere
  <2>6. PICK second : second = RangeOk(space, first.memo, d.lo, d.len)
    OBVIOUS
  <2>7. /\ second.ok \in BOOLEAN /\ second.memo \in Memos /\ MemoPageIsThere(second.memo)
        /\ second.ok => \A cell \in d.lo .. d.lo + d.len - 1 : There(cell)
    BY <2>3, <2>5, <2>6, RangeIsThere
  <2>8. PICK third : third = RangeOk(space, IF first.ok THEN second.memo ELSE first.memo, s.lo, s.len)
    OBVIOUS
  <2>9. third.memo \in Memos /\ MemoPageIsThere(third.memo)
    <3>1. PICK n \in Memos : MemoPageIsThere(n) /\ n = IF first.ok THEN second.memo ELSE first.memo
      BY <2>5, <2>7
    <3> QED
      BY <2>3, <2>8, <3>1, RangeIsThere
  <2>10. PICK fourth : fourth = RangeOk(space, third.memo, d.lo, d.len)
    OBVIOUS
  <2>11. fourth.memo \in Memos /\ MemoPageIsThere(fourth.memo)
    BY <2>3, <2>9, <2>10, RangeIsThere
  <2>12. CASE first.ok /\ second.ok
    <3>1. r = [ch |-> Moved(c, src, dest), memo |-> second.memo, bytes |-> c.count * c.unit,
               cells |-> Touched(src, c.srcCtrl, c.unit, c.count)
                           \cup Touched(dest, c.destCtrl, c.unit, c.count),
               bad |-> {}]
      BY <1>2, <1>3, <1>5, <2>1, <2>2, <2>4, <2>6, <2>12, ZenonT(60) DEF RunTransfer
    <3>2. Moved(c, src, dest) \in Channel
      BY MovedIsChannel
    <3>3. c.count * c.unit \in Nat
      BY <1>1
    <3>4. ASSUME NEW cell \in r.cells PROVE There(cell) /\ cell \in Cells
      <4>1. \/ cell \in Touched(src, c.srcCtrl, c.unit, c.count)
            \/ cell \in Touched(dest, c.destCtrl, c.unit, c.count)
        BY <3>1, <3>4
      <4>2. There(cell)
        BY <2>3, <2>5, <2>7, <2>12, <4>1
      <4> QED
        BY <4>2 DEF There
    <3>5. r.bad = {} /\ r.ch = Moved(c, src, dest) /\ r.memo = second.memo /\ r.bytes = c.count * c.unit
      BY <3>1
    <3>6. r.bad \in Shapes
      BY <3>5 DEF Shapes
    <3>7. r.memo \in Memos /\ MemoPageIsThere(r.memo)
      BY <2>7, <3>5
    <3>8. r.cells \subseteq Cells /\ \A cell \in r.cells : There(cell)
      BY <3>4
    <3>9. r.bytes \in Nat /\ r.ch \in Channel
      BY <3>2, <3>3, <3>5
    <3> QED
      BY <3>6, <3>7, <3>8, <3>9
  <2>13. CASE ~(first.ok /\ second.ok)
    <3>1. r = [ch |-> c, memo |-> fourth.memo, bytes |-> 0, cells |-> {},
               bad |-> (IF third.ok THEN {} ELSE {"src"}) \cup (IF fourth.ok THEN {} ELSE {"dest"})]
      BY <1>2, <1>3, <1>5, <2>1, <2>2, <2>4, <2>6, <2>8, <2>10, <2>13, ZenonT(60) DEF RunTransfer
    <3>2. PICK shape \in Shapes :
            shape = (IF third.ok THEN {} ELSE {"src"}) \cup (IF fourth.ok THEN {} ELSE {"dest"})
      BY DEF Shapes
    <3>3. r.ch = c /\ r.memo = fourth.memo /\ r.bytes = 0 /\ r.cells = {} /\ r.bad = shape
      BY <3>1, <3>2
    <3> QED
      BY <2>11, <3>3
  <2> QED
    BY <2>12, <2>13
<1> QED
  BY <1>4, <1>5

-----------------------------------------------------------------------------
(* WHAT THE CHANNELS OF A TIMING LEAVE                                     *)

Windows == [vblank : BOOLEAN, vcount : Nat, budget : Int]

(* What has been moved is what has gone from the budget.                   *)
LEMMA ConsumedIsMoved ==
  ASSUME NEW w \in Windows, NEW n \in Nat
  PROVE  /\ Consumed(w, n) \in Windows
         /\ \A m \in Nat : Left(w, m) => Left(Consumed(w, n), m + n)
<1>1. Budget \in Nat \ {0}
  BY FrameAssumption
<1>2. w.vblank \in BOOLEAN /\ w.budget \in Int /\ w.vcount \in Nat
  BY DEF Windows
<1>3. CASE ~w.vblank
  <2>1. Consumed(w, n) = w
    BY <1>3 DEF Consumed
  <2> QED
    BY <1>1, <1>2, <1>3, <2>1 DEF Left
<1>4. CASE w.vblank /\ w.budget - n <= 0
  <2>1. Consumed(w, n) = [vblank |-> FALSE, vcount |-> 0, budget |-> 0]
    BY <1>4 DEF Consumed
  <2> QED
    BY <1>1, <1>2, <1>4, <2>1 DEF Left, Windows
<1>5. CASE w.vblank /\ ~(w.budget - n <= 0)
  <2>1. Consumed(w, n) = [w EXCEPT !.budget = @ - n]
    BY <1>5 DEF Consumed
  <2>2. Consumed(w, n) \in Windows /\ Consumed(w, n).vblank /\ Consumed(w, n).budget = w.budget - n
    BY <1>2, <1>5, <2>1 DEF Windows
  <2> QED
    BY <1>1, <1>2, <1>5, <2>2 DEF Left
<1> QED
  BY <1>2, <1>3, <1>4, <1>5

Runnings == [ch : [Channels -> Channel], memo : Memos, bad : SUBSET Shapes, window : Windows,
             moved : Nat, cells : SUBSET Cells]

(* A state of RunTiming, when so much was moved before it: if the budget   *)
(* fitted then it does now.                                                *)
Running(st, already, fits) ==
  /\ st \in Runnings
  /\ MemoPageIsThere(st.memo) /\ \A c \in st.cells : There(c)
  /\ fits => Left(st.window, already + st.moved)

(* One channel.                                                            *)
LEMMA ChannelRuns ==
  ASSUME Mapped, NEW already \in Nat, NEW fits \in BOOLEAN, NEW st, Running(st, already, fits),
         NEW c \in Channels, NEW timing
  PROVE  Running(AfterChannel(st, c, timing), already, fits)
<1>1. CASE ~Runs(st.ch, c, timing)
  BY <1>1 DEF AfterChannel
<1>2. CASE Runs(st.ch, c, timing)
  <2>1. PICK r : r = RunTransfer(space, st.memo, st.ch[c])
    OBVIOUS
  <2>2. /\ st.ch \in [Channels -> Channel] /\ st.memo \in Memos /\ st.bad \in SUBSET Shapes
        /\ st.window \in Windows /\ st.moved \in Nat /\ st.cells \in SUBSET Cells
        /\ MemoPageIsThere(st.memo) /\ \A cell \in st.cells : There(cell)
        /\ fits => Left(st.window, already + st.moved)
    BY DEF Running, Runnings
  <2>3. /\ r.ch \in Channel /\ r.memo \in Memos /\ MemoPageIsThere(r.memo)
        /\ r.bytes \in Nat /\ r.bad \in Shapes
        /\ r.cells \subseteq Cells /\ \A cell \in r.cells : There(cell)
    BY <2>1, <2>2, TransferIsThere
  <2>4. AfterChannel(st, c, timing) =
          [ch |-> [st.ch EXCEPT ![c] = r.ch], memo |-> r.memo,
           bad |-> IF r.bad = {} THEN st.bad ELSE st.bad \cup {r.bad},
           window |-> Consumed(st.window, r.bytes),
           moved |-> st.moved + r.bytes, cells |-> st.cells \cup r.cells]
    BY <1>2, <2>1 DEF AfterChannel
  <2>5. /\ Consumed(st.window, r.bytes) \in Windows
        /\ fits => Left(Consumed(st.window, r.bytes), already + (st.moved + r.bytes))
    <3>1. already + st.moved \in Nat /\ (already + st.moved) + r.bytes = already + (st.moved + r.bytes)
      BY <2>2, <2>3
    <3> QED
      BY <2>2, <2>3, <3>1, ConsumedIsMoved
  <2>6. [st.ch EXCEPT ![c] = r.ch] \in [Channels -> Channel]
    BY <2>2, <2>3
  <2>7. (IF r.bad = {} THEN st.bad ELSE st.bad \cup {r.bad}) \in SUBSET Shapes
    BY <2>2, <2>3
  <2>8. st.moved + r.bytes \in Nat /\ st.cells \cup r.cells \in SUBSET Cells
    BY <2>2, <2>3
  <2>9. AfterChannel(st, c, timing) \in Runnings
    BY <2>3, <2>4, <2>5, <2>6, <2>7, <2>8 DEF Runnings
  <2> QED
    BY <2>2, <2>3, <2>4, <2>5, <2>9 DEF Running
<1> QED
  BY <1>1, <1>2
(* All the channels of a timing.                                           *)
LEMMA TimingRuns ==
  ASSUME Mapped, NEW already \in Nat, NEW fits \in BOOLEAN, NEW start, Running(start, already, fits),
         NEW timing
  PROVE  Running(RunTiming(start, timing), already, fits)
<1> DEFINE N == NumChannels
           Fit == {st \in Runnings : Running(st, already, fits)}
           F == [n \in 1 .. N |-> [st \in Fit |-> AfterChannel(st, n - 1, timing)]]
           after == CHOOSE f : f = [n \in 0 .. N |->
                                      IF n = 0 THEN start ELSE AfterChannel(f[n - 1], n - 1, timing)]
<1>1. N \in Nat
  BY DmaAssumption
<1>2. RunTiming(start, timing) = after[N]
  BY DEF RunTiming
<1>3. start \in Fit
  BY DEF Running
<1>4. ASSUME NEW n \in 1 .. N, NEW st \in Fit PROVE AfterChannel(st, n - 1, timing) \in Fit
  <2>1. n - 1 \in Channels
    BY <1>1 DEF Channels
  <2>2. Running(AfterChannel(st, n - 1, timing), already, fits)
    BY <2>1, ChannelRuns
  <2> QED
    BY <2>2 DEF Running
<1>5. \A st \in Fit : Running(st, already, fits)
  OBVIOUS
<1> HIDE DEF N, Fit
<1>6. F \in [1 .. N -> [Fit -> Fit]]
  BY <1>4
<1>7. PICK f \in [0 .. N -> Fit] : \A n \in 0 .. N : f[n] = IF n = 0 THEN start ELSE F[n][f[n - 1]]
  <2>1. PICK G : G = F
    OBVIOUS
  <2>2. G \in [1 .. N -> [Fit -> Fit]]
    BY <1>6, <2>1
  <2> HIDE DEF F
  <2>3. \E f \in [0 .. N -> Fit] : Steps(f, N, start, G)
    BY <1>1, <1>3, <2>2, Iterates
  <2> QED
    BY <2>1, <2>3 DEF Steps
<1>8. f = [n \in 0 .. N |-> IF n = 0 THEN start ELSE AfterChannel(f[n - 1], n - 1, timing)]
  <2>1. ASSUME NEW n \in 0 .. N
        PROVE  f[n] = IF n = 0 THEN start ELSE AfterChannel(f[n - 1], n - 1, timing)
    <3>1. CASE n = 0
      BY <1>1, <1>7, <3>1
    <3>2. CASE n # 0
      <4>1. n \in 1 .. N /\ n - 1 \in 0 .. N
        BY <1>1, <3>2
      <4>2. f[n] = F[n][f[n - 1]] /\ f[n - 1] \in Fit
        BY <1>7, <3>2, <4>1
      <4> QED
        BY <3>2, <4>1, <4>2
    <3> QED
      BY <3>1, <3>2
  <2>2. f = [n \in 0 .. N |-> f[n]]
    BY <1>7
  <2> QED
    BY <2>1, <2>2
<1>9. after = [n \in 0 .. N |-> IF n = 0 THEN start ELSE AfterChannel(after[n - 1], n - 1, timing)]
  BY <1>8
<1> HIDE DEF after, F
<1> DEFINE So == {n \in 0 .. N : after[n] \in Fit}
<1>10. 0 \in So
  <2>1. 0 \in 0 .. N /\ after[0] = start
    BY <1>1, <1>9
  <2> QED
    BY <1>3, <2>1
<1>11. ASSUME NEW n \in 1 .. N, n - 1 \in So PROVE n \in So
  <2>1. n \in 0 .. N /\ n # 0
    BY <1>1
  <2>2. after[n] = AfterChannel(after[n - 1], n - 1, timing)
    BY <1>9, <2>1
  <2> QED
    BY <1>4, <1>11, <2>1, <2>2
<1>12. N \in So
  <2> HIDE DEF So
  <2>1. \A n \in 0 .. N : n \in So
    BY <1>1, <1>10, <1>11, UpTo
  <2>2. N \in 0 .. N
    BY <1>1
  <2> QED
    BY <2>1, <2>2
<1> QED
  BY <1>2, <1>5, <1>12

(* A step that runs transfers leaves what they leave.                      *)
LEMMA RanKeeps ==
  ASSUME NEW already \in Nat, NEW fits \in BOOLEAN, NEW st, Running(st, already, fits),
         NEW met, Ran(st, already, met), UNCHANGED space, copied \in Nat
  PROVE  /\ ch' \in [Channels -> Channel] /\ memo' \in Memos /\ bad' \subseteq Shapes
         /\ vblank' \in BOOLEAN /\ vcount' \in Nat /\ budget' \in Int
         /\ moved' \in Nat /\ copied' \in Nat /\ cells' \subseteq Cells
         /\ MemoPageIsThere(memo)' /\ (\A c \in cells : There(c))'
         /\ fits => Left(Window, moved)'
<1>1. /\ st.ch \in [Channels -> Channel] /\ st.memo \in Memos /\ st.bad \in SUBSET Shapes
      /\ st.window.vblank \in BOOLEAN /\ st.window.vcount \in Nat /\ st.window.budget \in Int
      /\ st.moved \in Nat /\ st.cells \in SUBSET Cells
      /\ MemoPageIsThere(st.memo) /\ \A c \in st.cells : There(c)
      /\ fits => Left(st.window, already + st.moved)
  BY DEF Running, Runnings, Windows
<1>2. /\ ch' = st.ch /\ memo' = st.memo /\ bad' = st.bad /\ cells' = st.cells
      /\ vblank' = st.window.vblank /\ vcount' = st.window.vcount /\ budget' = st.window.budget
      /\ moved' = already + st.moved /\ copied' = copied + st.moved
  BY DEF Ran, WindowIs
<1>3. MemoPageIsThere(memo)'
  BY <1>1, <1>2 DEF MemoPageIsThere
<1>4. (\A c \in cells : There(c))'
  BY <1>1, <1>2 DEF There
<1>5. fits => Left(Window, moved)'
  BY <1>1, <1>2 DEF Left, Window
<1> QED
  BY <1>1, <1>2, <1>3, <1>4, <1>5

-----------------------------------------------------------------------------
(* THE INVARIANT IS KEPT                                                   *)

WindowInv == (phase = "handler" \/ (phase = "game" /\ frame > 0)) => Left(Window, moved)

MapInv == NothingMappedOver(space.owner) /\ SpansAreOurs /\ NothingYet

(* After the reservation the map is whole.                                 *)
LEMMA InvMapped ==
  ASSUME FrameInv, phase \notin {"reserve", "fatal"}
  PROVE  Mapped
<1>1. PICK w \in Worlds : space.host = w.host /\ space.page = w.page
  BY DEF FrameInv, NothingMappedOver
<1>2. space.page \in Nat \ {0} /\ space.page % MemoPage = 0
  BY <1>1, MemMapAssumption DEF FrameInv, TypeOK
<1>3. Merges(Spans, Len(Regions), space.page)
  BY <1>2, CoalesceMerges DEF Spans
<1>4. ASSUME NEW c \in RegionCells PROVE space.owner[c] = "ours"
  <2>1. PICK k \in DOMAIN Regions : c \in Span(Regions[k].base, Regions[k].size)
    BY <1>4 DEF RegionCells
  <2>2. /\ k \in 1 .. Len(Regions) /\ Regions[k].base \in Nat /\ Regions[k].size \in Nat
        /\ Regions[k].base + Regions[k].size <= Top /\ Top \in Nat
    <3>1. Regions \in SpanLists
      BY MemMapAssumption DEF SpanLists
    <3> QED
      BY <3>1, SpansInList, MemMapAssumption
  <2>3. PICK n \in DOMAIN Spans : Holds(Spans[n], Regions[k])
    BY <1>3, <2>2 DEF Merges
  <2>4. Spans[n].base \in Nat /\ Spans[n].size \in Nat /\ n \in 1 .. Len(Spans)
    <3>1. Spans \in SpanLists
      BY <1>3 DEF Merges
    <3> QED
      BY <3>1, SpansInList
  <2>5. c \in Regions[k].base .. Regions[k].base + Regions[k].size - 1
    BY <2>1 DEF Span
  <2>6. c \in Cells
    BY <2>2, <2>5 DEF Cells
  <2>7. c \in Spans[n].base .. Spans[n].base + Spans[n].size - 1
    <3>1. /\ Spans[n].base <= Regions[k].base
          /\ Regions[k].base + Regions[k].size <= Spans[n].base + Spans[n].size
      BY <2>3 DEF Holds
    <3>2. PICK b \in Nat, z \in Nat : b = Spans[n].base /\ z = Spans[n].size
      BY <2>4
    <3>3. PICK a \in Nat, y \in Nat : a = Regions[k].base /\ y = Regions[k].size
      BY <2>2
    <3>4. b <= a /\ a + y <= b + z
      BY <3>1, <3>2, <3>3
    <3>5. c \in a .. a + y - 1
      BY <2>5, <3>3
    <3>6. c \in b .. b + z - 1
      BY <3>4, <3>5
    <3> QED
      BY <3>2, <3>6
  <2>8. n \in 1 .. span
    BY <2>4 DEF FrameInv, SpansAreOurs
  <2> QED
    BY <2>6, <2>7, <2>8 DEF FrameInv, SpansAreOurs, Span
<1> QED
  BY <1>2, <1>4 DEF FrameInv, TypeOK, Mapped, SpansAreOurs

(* A step of the game leaves the map as it is.                             *)
LEMMA MapStays ==
  ASSUME FrameInv, UNCHANGED <<space, span>>,
         phase \notin {"reserve", "fatal"}, phase' \notin {"reserve", "fatal"}
  PROVE  MapInv'
<1>1. NothingMappedOver(space.owner)'
  BY DEF FrameInv, NothingMappedOver
<1>2. SpansAreOurs'
  BY DEF FrameInv, SpansAreOurs, Spans
<1>3. NothingYet'
  BY DEF NothingYet
<1> QED
  BY <1>1, <1>2, <1>3 DEF MapInv

(* What is there is what TouchesWhatIsThere asks for.                      *)
LEMMA TouchesAreThere ==
  ASSUME (\A c \in cells : There(c))'
  PROVE  TouchesWhatIsThere'
BY DEF There, Valid, TouchesWhatIsThere

(* A step that touches nothing and leaves the memo.                        *)
LEMMA Untouched ==
  ASSUME FrameInv, UNCHANGED <<space, memo>>, cells' \in {{}, cells}
  PROVE  MemoPageIsThere(memo)' /\ TouchesWhatIsThere'
<1>1. MemoPageIsThere(memo)'
  BY DEF FrameInv, MemoPageIsThere
<1>2. TouchesWhatIsThere'
  BY DEF FrameInv, TouchesWhatIsThere
<1> QED
  BY <1>1, <1>2

(* The parts of the invariant make it.                                     *)
LEMMA InvFromParts ==
  ASSUME TypeOK', MapInv', MemoPageIsThere(memo)', TouchesWhatIsThere', WindowInv'
  PROVE  FrameInv'
BY DEF FrameInv, MapInv, WindowInv

(* The first state.                                                        *)
LEMMA InvInit == Init => FrameInv
<1> SUFFICES ASSUME Init PROVE FrameInv
  OBVIOUS
<1>1. PICK w \in Worlds : space = [host |-> w.host, page |-> w.page, owner |-> w.owner, lo |-> Top, hi |-> 0]
  BY DEF Init
<1>2. /\ w.host \in {"posix", "win32"} /\ w.page \in Nat \ {0} /\ w.owner \in [Cells -> Others]
      /\ Top \in Nat
  BY MemMapAssumption
<1>3. space \in [host : {"posix", "win32"}, page : Nat \ {0}, owner : [Cells -> Others \cup {"ours"}],
                 lo : Nat, hi : Nat]
  BY <1>1, <1>2
<1>4. Snapshot \in Snapshots
  <2>1. Idle \in Channel
    BY DEF Idle, Channel, Timings, Ctrls
  <2>2. ch \in [Channels -> Channel] /\ enable \in [Channels -> BOOLEAN] /\ seen \in [0 .. 7 -> Nat]
    BY <2>1 DEF Init, NoHandlers
  <2>3. budget \in Int /\ vcount \in Nat /\ affine \in Nat /\ copied \in Nat
    BY DEF Init
  <2>4. frame \in 0 .. MaxFrame
    BY FrameAssumption DEF Init
  <2>5. vblank \in BOOLEAN
    BY DEF Init
  <2>6. keys \in KeySets \cup {0} /\ keyinput \in KeySets \cup {0} /\ mask \in Masks
    BY DEF Init
  <2> QED
    BY <2>2, <2>3, <2>4, <2>5, <2>6 DEF Snapshot, Snapshots
<1>5. TypeOK
  BY <1>3, <1>4, FrameAssumption DEF Init, TypeOK, NoMemo
<1>6. NothingMappedOver(space.owner)
  BY <1>1, <1>2 DEF NothingMappedOver
<1>7. SpansAreOurs
  <2>1. Spans \in SpanLists
    BY <1>1, <1>2, CoalesceMerges DEF Spans, Merges
  <2>2. Len(Spans) \in Nat
    BY <2>1, SpansInList
  <2>3. \A c \in Cells : space.owner[c] # "ours"
    BY <1>1, <1>2 DEF Others
  <2> QED
    BY <2>2, <2>3 DEF Init, SpansAreOurs
<1>8. MemoPageIsThere(memo) /\ NothingYet /\ TouchesWhatIsThere /\ WindowInv
  BY DEF Init, NoMemo, MemoPageIsThere, NothingYet, TouchesWhatIsThere, WindowInv
<1> QED
  BY <1>5, <1>6, <1>7, <1>8 DEF FrameInv, WindowInv
(* The types of the simulated state, one by one.                           *)
LEMMA SimFields ==
  ASSUME TypeOK
  PROVE  /\ ch \in [Channels -> Channel] /\ enable \in [Channels -> BOOLEAN]
         /\ budget \in Int /\ frame \in 0 .. MaxFrame /\ vblank \in BOOLEAN /\ vcount \in Nat
         /\ keys \in KeySets \cup {0} /\ keyinput \in KeySets \cup {0} /\ mask \in Masks
         /\ affine \in Nat /\ seen \in [0 .. 7 -> Nat] /\ copied \in Nat
BY DEF TypeOK, Snapshot, Snapshots

(* And back, after a step.                                                 *)
LEMMA SimParts ==
  ASSUME ch' \in [Channels -> Channel], enable' \in [Channels -> BOOLEAN],
         budget' \in Int, frame' \in 0 .. MaxFrame, vblank' \in BOOLEAN, vcount' \in Nat,
         keys' \in KeySets \cup {0}, keyinput' \in KeySets \cup {0}, mask' \in Masks,
         affine' \in Nat, seen' \in [0 .. 7 -> Nat], copied' \in Nat
  PROVE  Snapshot' \in Snapshots
BY DEF Snapshot, Snapshots

(* The types of the rest, when a step leaves them or a transfer ran.       *)
LEMMA TypeParts ==
  ASSUME TypeOK, Snapshot' \in Snapshots,
         phase' \in {"reserve", "fatal", "game", "hook", "render", "line", "vblank", "handler"},
         UNCHANGED <<space, span, render, test, snap>>, line' \in 0 .. Lines,
         memo' \in Memos, bad' \subseteq Shapes, calls' \in 0 .. MaxCalls, moved' \in Nat, cells' \subseteq Cells
  PROVE  TypeOK'
BY DEF TypeOK, Memos, Shapes

(* An interrupt counts one handler, or none.                               *)
LEMMA DispatchedCounts ==
  ASSUME NEW handlers \in [0 .. 7 -> Nat],
         NEW flag \in {"serial", "vblank", "hblank", "vcount", "timer3"}
  PROVE  Dispatched(handlers, flag) \in [0 .. 7 -> Nat]
<1>1. Index[flag] \in 0 .. 7
  BY DEF Index
<1> QED
  BY <1>1 DEF Dispatched

(* A call of the game is counted, and stays within its bound.              *)
LEMMA CallsBounded ==
  ASSUME TypeOK, Bounded, OneCall
  PROVE  calls' \in 0 .. MaxCalls
BY FrameAssumption DEF TypeOK, Bounded, OneCall

(* A span is reserved, or taken already.                                   *)
LEMMA InvReserveSpan ==
  ASSUME FrameInv, ReserveSpan
  PROVE  FrameInv'
<1> DEFINE s == Spans[span + 1]
<1>1. /\ phase = "reserve" /\ span < Len(Spans)
      /\ UNCHANGED <<memo, bad, simVars, line, render, testVars, calls, moved, cells>>
  BY DEF ReserveSpan
<1>2. /\ space \in [host : {"posix", "win32"}, page : Nat \ {0}, owner : [Cells -> Others \cup {"ours"}],
                    lo : Nat, hi : Nat]
      /\ span \in Nat
  BY DEF FrameInv, TypeOK
<1>3. Spans \in SpanLists /\ span + 1 \in DOMAIN Spans /\ s.base \in Nat /\ s.size \in Nat
      /\ Len(Spans) \in Nat
  <2>1. space.page \in Nat \ {0}
    BY <1>2
  <2>2. Spans \in SpanLists
    BY <2>1, CoalesceMerges DEF Spans, Merges
  <2>3. span + 1 \in DOMAIN Spans
    BY <1>1, <1>2, <2>2, SpansInList
  <2> QED
    BY <2>2, <2>3, SpansInList
<1>4. NothingYet' /\ MemoPageIsThere(memo)' /\ TouchesWhatIsThere' /\ WindowInv'
  <2>1. phase' \in {"reserve", "fatal"}
    BY <1>1 DEF ReserveSpan
  <2>2. memo = NoMemo /\ frame = 0 /\ cells = {}
    BY <1>1 DEF FrameInv, NothingYet
  <2>3. memo' = NoMemo /\ frame' = 0 /\ cells' = {}
    BY <1>1, <2>2 DEF simVars
  <2> QED
    BY <2>1, <2>3 DEF NothingYet, MemoPageIsThere, TouchesWhatIsThere, WindowInv, NoMemo
<1>5. CASE AlreadyTaken(space.owner, s) # {}
  <2>1. phase' = "fatal" /\ UNCHANGED <<space, span>>
    BY <1>5 DEF ReserveSpan
  <2>2. TypeOK'
    BY <1>1, <2>1 DEF FrameInv, TypeOK, Snapshot, Snapshots, simVars, testVars
  <2>3. NothingMappedOver(space.owner)'
    BY <2>1 DEF FrameInv, NothingMappedOver
  <2>4. SpansAreOurs'
    BY <2>1 DEF FrameInv, SpansAreOurs, Spans
  <2> QED
    BY <1>4, <2>2, <2>3, <2>4, InvFromParts DEF MapInv
<1>6. CASE AlreadyTaken(space.owner, s) = {}
  <2> DEFINE own == [c \in Cells |-> IF c \in Span(s.base, s.size) THEN "ours" ELSE space.owner[c]]
             low == IF s.base < space.lo THEN s.base ELSE space.lo
             high == IF s.base + s.size > space.hi THEN s.base + s.size ELSE space.hi
  <2>1. /\ space' = [space EXCEPT !.owner = own, !.lo = low, !.hi = high]
        /\ span' = span + 1 /\ phase' = "reserve"
    BY <1>1, <1>6 DEF ReserveSpan
  <2>2. /\ own \in [Cells -> Others \cup {"ours"}] /\ low \in Nat /\ high \in Nat
        /\ low <= s.base /\ low <= space.lo /\ s.base + s.size <= high /\ space.hi <= high
    BY <1>2, <1>3
  <2> HIDE DEF own, low, high
  <2>3. /\ space'.owner = own /\ space'.lo = low /\ space'.hi = high
        /\ space'.host = space.host /\ space'.page = space.page
        /\ space' \in [host : {"posix", "win32"}, page : Nat \ {0}, owner : [Cells -> Others \cup {"ours"}],
                       lo : Nat, hi : Nat]
    BY <1>2, <2>1, <2>2
  <2>4. TypeOK'
    <3>1. span' \in Nat /\ phase' = "reserve"
      BY <1>2, <2>1
    <3>2. /\ memo' \in [page : Int, ok : BOOLEAN] /\ bad' \subseteq SUBSET {"src", "dest"}
          /\ line' \in 0 .. Lines /\ render' \in BOOLEAN
          /\ test' \in {"armed", "first", "second", "passed", "failed"}
          /\ (test' = "first" => snap' \in Snapshots)
          /\ calls' \in 0 .. MaxCalls /\ moved' \in Nat /\ cells' \subseteq Cells
      BY <1>1 DEF FrameInv, TypeOK, testVars
    <3>3. Snapshot' \in Snapshots
      <4>1. Snapshot' = Snapshot
        BY <1>1 DEF Snapshot, simVars
      <4> QED
        BY <4>1 DEF FrameInv, TypeOK
    <3> QED
      BY <2>3, <3>1, <3>2, <3>3 DEF TypeOK
  <2>5. NothingMappedOver(space.owner)'
    <3>1. PICK w \in Worlds : /\ space.host = w.host /\ space.page = w.page
                              /\ \A c \in Cells : w.owner[c] \in {"free", space.owner[c]}
      BY DEF FrameInv, NothingMappedOver
    <3>2. ASSUME NEW c \in Cells PROVE w.owner[c] \in {"free", own[c]}
      <4>1. CASE c \in Span(s.base, s.size)
        <5>1. space.owner[c] = "free"
          BY <1>6, <4>1 DEF AlreadyTaken
        <5> QED
          BY <3>1, <5>1
      <4>2. CASE c \notin Span(s.base, s.size)
        BY <3>1, <4>2 DEF own
      <4> QED
        BY <4>1, <4>2
    <3> QED
      BY <2>3, <3>1, <3>2 DEF NothingMappedOver
  <2>6. SpansAreOurs'
    <3>1. Spans' = Spans
      BY <2>3 DEF Spans
    <3>2. span' \in 0 .. Len(Spans)
      BY <1>1, <1>2, <1>3, <2>1
    <3>3. ASSUME NEW n \in 1 .. span', NEW c \in Span(Spans[n].base, Spans[n].size) \cap Cells
          PROVE  own[c] = "ours"
      <4>1. CASE n = span + 1
        BY <3>3, <4>1 DEF own
      <4>2. CASE n # span + 1
        <5>1. n \in 1 .. span
          BY <1>2, <2>1, <4>2
        <5>2. space.owner[c] = "ours"
          BY <5>1 DEF FrameInv, SpansAreOurs
        <5> QED
          BY <5>2 DEF own
      <4> QED
        BY <4>1, <4>2
    <3>4. ASSUME NEW c \in Cells, own[c] = "ours" PROVE low <= c /\ c < high
      <4>0. c \in Int /\ space.lo \in Nat /\ space.hi \in Nat
        BY <1>2 DEF Cells
      <4>1. CASE c \in Span(s.base, s.size)
        BY <1>3, <2>2, <4>0, <4>1 DEF Span
      <4>2. CASE c \notin Span(s.base, s.size)
        <5>1. space.owner[c] = "ours"
          BY <3>4, <4>2 DEF own
        <5>2. space.lo <= c /\ c < space.hi
          BY <5>1 DEF FrameInv, SpansAreOurs
        <5> QED
          BY <2>2, <4>0, <5>2
      <4> QED
        BY <4>1, <4>2
    <3> QED
      BY <2>1, <2>3, <3>1, <3>2, <3>3, <3>4 DEF SpansAreOurs
  <2> QED
    BY <1>4, <2>4, <2>5, <2>6, InvFromParts DEF MapInv
<1> QED
  BY <1>5, <1>6

(* The map stands, and the game begins.                                    *)
LEMMA InvAgbMain ==
  ASSUME FrameInv, AgbMain
  PROVE  FrameInv'
<1>1. TypeOK'
  <2>1. TypeOK
    BY DEF FrameInv
  <2>2. Snapshot' \in Snapshots
    BY <2>1, SimFields, SimParts DEF AgbMain
  <2>3. /\ UNCHANGED <<space, span, render, test, snap>>
        /\ phase' \in {"reserve", "fatal", "game", "hook", "render", "line", "vblank", "handler"}
    BY <2>1 DEF TypeOK, AgbMain, memVars, testVars
  <2>4. /\ line' \in 0 .. Lines /\ memo' \in Memos /\ bad' \subseteq Shapes
        /\ moved' \in Nat /\ cells' \subseteq Cells
    BY <2>1 DEF TypeOK, Memos, Shapes, AgbMain, memVars, testVars
  <2>5. calls' \in 0 .. MaxCalls
    BY <2>1 DEF TypeOK, AgbMain, memVars, testVars
  <2> QED
    BY <2>1, <2>2, <2>3, <2>4, <2>5, TypeParts
<1>2. NothingMappedOver(space.owner)'
  BY DEF FrameInv, NothingMappedOver, AgbMain, memVars
<1>3. SpansAreOurs'
  BY DEF FrameInv, SpansAreOurs, Spans, AgbMain, memVars
<1>4. memo' = NoMemo /\ frame' = 0 /\ cells' = {} /\ phase' = "game"
  BY DEF FrameInv, NothingYet, AgbMain, memVars
<1>5. NothingYet' /\ MemoPageIsThere(memo)' /\ TouchesWhatIsThere' /\ WindowInv'
  BY <1>4 DEF NothingYet, MemoPageIsThere, TouchesWhatIsThere, WindowInv, NoMemo
<1> QED
  BY <1>1, <1>2, <1>3, <1>5, InvFromParts DEF MapInv

(* The game waits for the next frame.                                      *)
LEMMA InvSoundMain ==
  ASSUME FrameInv, SoundMain
  PROVE  FrameInv'
<1>1. TypeOK'
  <2>1. TypeOK
    BY DEF FrameInv
  <2>2. Snapshot' \in Snapshots
    <3>1. vblank' \in BOOLEAN /\ vcount' \in Nat /\ budget' \in Int
      BY DEF SoundMain, WindowIs
    <3>2. UNCHANGED <<ch, enable, frame, keys, mask, keyinput, affine, seen, copied>>
      BY DEF SoundMain
    <3> QED
      BY <2>1, <3>1, <3>2, SimFields, SimParts
  <2>3. /\ UNCHANGED <<space, span, render, test, snap>>
        /\ phase' \in {"reserve", "fatal", "game", "hook", "render", "line", "vblank", "handler"}
    BY <2>1 DEF TypeOK, SoundMain, memVars
  <2>4. /\ line' \in 0 .. Lines /\ memo' \in Memos /\ bad' \subseteq Shapes
        /\ moved' \in Nat /\ cells' \subseteq Cells
    BY <2>1 DEF TypeOK, Memos, Shapes, SoundMain, memVars
  <2>5. calls' \in 0 .. MaxCalls
    BY <2>1 DEF TypeOK, SoundMain, memVars
  <2> QED
    BY <2>1, <2>2, <2>3, <2>4, <2>5, TypeParts
<1>2. MapInv'
  <2>1. UNCHANGED <<space, span>> /\ phase \notin {"reserve", "fatal"} /\ phase' \notin {"reserve", "fatal"}
    BY DEF SoundMain, memVars, Chosen, WindowIs
  <2> QED
    BY <2>1, MapStays
<1>3. MemoPageIsThere(memo)' /\ TouchesWhatIsThere'
  <2>1. UNCHANGED <<space, memo>> /\ cells' \in {{}, cells}
    BY DEF SoundMain, memVars, Chosen, WindowIs
  <2> QED
    BY <2>1, Untouched
<1>4. WindowInv'
  BY DEF WindowInv, SoundMain, memVars, Chosen, WindowIs
<1> QED
  BY <1>1, <1>2, <1>3, <1>4, InvFromParts

(* The self test takes its snapshot.                                       *)
LEMMA InvTestSnapshot ==
  ASSUME FrameInv, phase = "hook", TestSnapshot
  PROVE  FrameInv'
<1>1. TypeOK'
  <2>1. TypeOK
    BY DEF FrameInv
  <2>2. Snapshot' = Snapshot /\ Snapshot \in Snapshots /\ snap' = Snapshot
    BY <2>1 DEF TestSnapshot, simVars, Snapshot, TypeOK
  <2>3. /\ phase' = "render" /\ test' = "first"
        /\ UNCHANGED <<space, span, memo, bad, line, render, calls, moved, cells>>
    BY DEF TestSnapshot, Presenting, memVars
  <2> QED
    BY <2>1, <2>2, <2>3 DEF TypeOK
<1>2. MapInv'
  <2>1. UNCHANGED <<space, span>> /\ phase \notin {"reserve", "fatal"} /\ phase' \notin {"reserve", "fatal"}
    BY DEF TestSnapshot, Presenting, memVars, simVars
  <2> QED
    BY <2>1, MapStays
<1>3. MemoPageIsThere(memo)' /\ TouchesWhatIsThere'
  <2>1. UNCHANGED <<space, memo>> /\ cells' \in {{}, cells}
    BY DEF TestSnapshot, Presenting, memVars, simVars
  <2> QED
    BY <2>1, Untouched
<1>4. WindowInv'
  BY DEF WindowInv, TestSnapshot, Presenting, memVars, simVars
<1> QED
  BY <1>1, <1>2, <1>3, <1>4, InvFromParts

(* It goes back to it.                                                     *)
LEMMA InvTestRestore ==
  ASSUME FrameInv, phase = "hook", TestRestore
  PROVE  FrameInv'
<1>1. TypeOK'
  BY FrameAssumption DEF FrameInv, TypeOK, Snapshot, Snapshots, TestRestore, Presenting, memVars, ChannelsLoaded
<1>2. MapInv'
  <2>1. UNCHANGED <<space, span>> /\ phase \notin {"reserve", "fatal"} /\ phase' \notin {"reserve", "fatal"}
    BY DEF TestRestore, Presenting, memVars, ChannelsLoaded
  <2> QED
    BY <2>1, MapStays
<1>3. MemoPageIsThere(memo)' /\ TouchesWhatIsThere'
  <2>1. UNCHANGED <<space, memo>> /\ cells' \in {{}, cells}
    BY DEF TestRestore, Presenting, memVars, ChannelsLoaded
  <2> QED
    BY <2>1, Untouched
<1>4. WindowInv'
  BY DEF WindowInv, TestRestore, Presenting, memVars, ChannelsLoaded
<1> QED
  BY <1>1, <1>2, <1>3, <1>4, InvFromParts

(* It compares.                                                            *)
LEMMA InvTestVerdict ==
  ASSUME FrameInv, phase = "hook", TestVerdict
  PROVE  FrameInv'
<1>1. TypeOK'
  BY FrameAssumption DEF FrameInv, TypeOK, Snapshot, Snapshots, TestVerdict, Presenting, memVars, simVars
<1>2. MapInv'
  <2>1. UNCHANGED <<space, span>> /\ phase \notin {"reserve", "fatal"} /\ phase' \notin {"reserve", "fatal"}
    BY DEF TestVerdict, Presenting, memVars, simVars
  <2> QED
    BY <2>1, MapStays
<1>3. MemoPageIsThere(memo)' /\ TouchesWhatIsThere'
  <2>1. UNCHANGED <<space, memo>> /\ cells' \in {{}, cells}
    BY DEF TestVerdict, Presenting, memVars, simVars
  <2> QED
    BY <2>1, Untouched
<1>4. WindowInv'
  BY DEF WindowInv, TestVerdict, Presenting, memVars, simVars
<1> QED
  BY <1>1, <1>2, <1>3, <1>4, InvFromParts

(* It has nothing to do.                                                   *)
LEMMA InvNoTestStep ==
  ASSUME FrameInv, phase = "hook", NoTestStep
  PROVE  FrameInv'
<1>1. TypeOK'
  BY FrameAssumption DEF FrameInv, TypeOK, Snapshot, Snapshots, NoTestStep, Presenting, memVars, simVars, testVars
<1>2. MapInv'
  <2>1. UNCHANGED <<space, span>> /\ phase \notin {"reserve", "fatal"} /\ phase' \notin {"reserve", "fatal"}
    BY DEF NoTestStep, Presenting, memVars, simVars, testVars
  <2> QED
    BY <2>1, MapStays
<1>3. MemoPageIsThere(memo)' /\ TouchesWhatIsThere'
  <2>1. UNCHANGED <<space, memo>> /\ cells' \in {{}, cells}
    BY DEF NoTestStep, Presenting, memVars, simVars, testVars
  <2> QED
    BY <2>1, Untouched
<1>4. WindowInv'
  BY DEF WindowInv, NoTestStep, Presenting, memVars, simVars, testVars
<1> QED
  BY <1>1, <1>2, <1>3, <1>4, InvFromParts

(* The picture begins, or is left out.                                     *)
LEMMA InvPortRenderFrame ==
  ASSUME FrameInv, PortRenderFrame
  PROVE  FrameInv'
<1>1. TypeOK'
  BY FrameAssumption DEF FrameInv, TypeOK, Snapshot, Snapshots, PortRenderFrame, memVars, testVars
<1>2. MapInv'
  <2>1. UNCHANGED <<space, span>> /\ phase \notin {"reserve", "fatal"} /\ phase' \notin {"reserve", "fatal"}
    BY DEF PortRenderFrame, memVars, testVars
  <2> QED
    BY <2>1, MapStays
<1>3. MemoPageIsThere(memo)' /\ TouchesWhatIsThere'
  <2>1. UNCHANGED <<space, memo>> /\ cells' \in {{}, cells}
    BY DEF PortRenderFrame, memVars, testVars
  <2> QED
    BY <2>1, Untouched
<1>4. WindowInv'
  BY DEF WindowInv, PortRenderFrame, memVars, testVars
<1> QED
  BY <1>1, <1>2, <1>3, <1>4, InvFromParts

(* The last line is done.                                                  *)
LEMMA InvLinesDone ==
  ASSUME FrameInv, LinesDone
  PROVE  FrameInv'
<1>1. TypeOK'
  BY FrameAssumption DEF FrameInv, TypeOK, Snapshot, Snapshots, LinesDone, memVars, simVars, testVars
<1>2. MapInv'
  <2>1. UNCHANGED <<space, span>> /\ phase \notin {"reserve", "fatal"} /\ phase' \notin {"reserve", "fatal"}
    BY DEF LinesDone, memVars, simVars, testVars
  <2> QED
    BY <2>1, MapStays
<1>3. MemoPageIsThere(memo)' /\ TouchesWhatIsThere'
  <2>1. UNCHANGED <<space, memo>> /\ cells' \in {{}, cells}
    BY DEF LinesDone, memVars, simVars, testVars
  <2> QED
    BY <2>1, Untouched
<1>4. WindowInv'
  BY DEF WindowInv, LinesDone, memVars, simVars, testVars
<1> QED
  BY <1>1, <1>2, <1>3, <1>4, InvFromParts

(* A channel is stopped.                                                   *)
LEMMA InvPortDmaStop ==
  ASSUME FrameInv, NEW c \in Channels, PortDmaStop(c)
  PROVE  FrameInv'
<1>1. TypeOK'
  <2>1. TypeOK
    BY DEF FrameInv
  <2>2. Snapshot' \in Snapshots
    <3>1. ch[c] \in Channel
      BY <2>1, SimFields
    <3>2. Stopped(ch[c]) \in Channel
      BY <3>1 DEF Stopped, Channel, Timings, Ctrls
    <3>3. ch' = [ch EXCEPT ![c] = Stopped(ch[c])] /\ enable' = [enable EXCEPT ![c] = FALSE]
      BY DEF PortDmaStop
    <3>4. UNCHANGED <<budget, frame, keys, vblank, vcount, mask, keyinput, affine, seen, copied>>
      BY DEF PortDmaStop
    <3>5. ch' \in [Channels -> Channel] /\ enable' \in [Channels -> BOOLEAN]
      BY <2>1, <3>2, <3>3, SimFields
    <3> QED
      BY <2>1, <3>4, <3>5, SimFields, SimParts
  <2>3. /\ UNCHANGED <<space, span, render, test, snap>>
        /\ phase' \in {"reserve", "fatal", "game", "hook", "render", "line", "vblank", "handler"}
    BY <2>1 DEF TypeOK, PortDmaStop, memVars, GameRuns
  <2>4. /\ line' \in 0 .. Lines /\ memo' \in Memos /\ bad' \subseteq Shapes
        /\ moved' \in Nat /\ cells' \subseteq Cells
    BY <2>1 DEF TypeOK, Memos, Shapes, PortDmaStop, memVars, GameRuns
  <2>5. calls' \in 0 .. MaxCalls
    BY <2>1, CallsBounded DEF PortDmaStop
  <2> QED
    BY <2>1, <2>2, <2>3, <2>4, <2>5, TypeParts
<1>2. MapInv'
  <2>1. UNCHANGED <<space, span>> /\ phase \notin {"reserve", "fatal"} /\ phase' \notin {"reserve", "fatal"}
    BY DEF PortDmaStop, memVars, GameRuns
  <2> QED
    BY <2>1, MapStays
<1>3. MemoPageIsThere(memo)' /\ TouchesWhatIsThere'
  <2>1. UNCHANGED <<space, memo>> /\ cells' \in {{}, cells}
    BY DEF PortDmaStop, memVars, GameRuns
  <2> QED
    BY <2>1, Untouched
<1>4. WindowInv'
  BY DEF FrameInv, WindowInv, Left, Window, PortDmaStop, GameRuns
<1> QED
  BY <1>1, <1>2, <1>3, <1>4, InvFromParts

(* The handler returns, and the frame is over.                             *)
LEMMA InvEndFrame ==
  ASSUME FrameInv, NEW raised \in Raised, NEW k \in KeySets, EndFrame(raised, k)
  PROVE  FrameInv'
<1>1. TypeOK'
  <2>1. TypeOK
    BY DEF FrameInv
  <2>2. Snapshot' \in Snapshots
    <3>1. seen' \in [0 .. 7 -> Nat]
      <4>1. seen' = IF raised = "none" THEN seen ELSE Dispatched(seen, raised)
        BY DEF EndFrame
      <4>2. raised \in {"none", "serial", "timer3"}
        BY FrameAssumption
      <4> QED
        BY <2>1, <4>1, <4>2, SimFields, DispatchedCounts
    <3>2. keys' = k /\ keyinput' = k /\ frame' = frame + 1 /\ frame < MaxFrame
      BY DEF EndFrame
    <3>3. UNCHANGED <<ch, enable, budget, vblank, vcount, mask, affine, copied>>
      BY DEF EndFrame
    <3>4. frame' \in 0 .. MaxFrame
      BY <2>1, <3>2, SimFields, FrameAssumption
    <3> QED
      BY <2>1, <3>1, <3>2, <3>3, <3>4, SimFields, SimParts
  <2>3. /\ UNCHANGED <<space, span, render, test, snap>>
        /\ phase' \in {"reserve", "fatal", "game", "hook", "render", "line", "vblank", "handler"}
    BY <2>1 DEF TypeOK, EndFrame, memVars
  <2>4. /\ line' \in 0 .. Lines /\ memo' \in Memos /\ bad' \subseteq Shapes
        /\ moved' \in Nat /\ cells' \subseteq Cells
    BY <2>1 DEF TypeOK, Memos, Shapes, EndFrame, memVars
  <2>5. calls' \in 0 .. MaxCalls
    BY <2>1 DEF TypeOK, EndFrame, memVars
  <2> QED
    BY <2>1, <2>2, <2>3, <2>4, <2>5, TypeParts
<1>2. MapInv'
  <2>1. UNCHANGED <<space, span>> /\ phase \notin {"reserve", "fatal"} /\ phase' \notin {"reserve", "fatal"}
    BY DEF EndFrame, memVars, Dispatched
  <2> QED
    BY <2>1, MapStays
<1>3. MemoPageIsThere(memo)' /\ TouchesWhatIsThere'
  <2>1. UNCHANGED <<space, memo>> /\ cells' \in {{}, cells}
    BY DEF EndFrame, memVars, Dispatched
  <2> QED
    BY <2>1, Untouched
<1>4. WindowInv'
  BY DEF FrameInv, WindowInv, Left, Window, EndFrame
<1> QED
  BY <1>1, <1>2, <1>3, <1>4, InvFromParts

(* The game copies, without the channels.                                  *)
LEMMA InvCpuSet ==
  ASSUME FrameInv, NEW n \in {1, 8}, CpuSet(n)
  PROVE  FrameInv'
<1>1. /\ WindowIs(Consumed(Window, n)) /\ moved' = moved + n /\ copied' = copied + n
      /\ UNCHANGED <<ch, enable, frame, keys, mask, keyinput, affine, seen, phase>>
  BY DEF CpuSet
<1>2. /\ Consumed(Window, n) \in Windows /\ moved \in Nat /\ n \in Nat
      /\ \A m \in Nat : Left(Window, m) => Left(Consumed(Window, n), m + n)
  <2>1. Window \in Windows /\ moved \in Nat /\ n \in Nat
    <3>1. TypeOK
      BY DEF FrameInv
    <3> QED
      BY <3>1, SimFields DEF Window, Windows, TypeOK
  <2> QED
    BY <2>1, ConsumedIsMoved
<1>3. vblank' = Consumed(Window, n).vblank /\ vcount' = Consumed(Window, n).vcount
      /\ budget' = Consumed(Window, n).budget
  BY <1>1 DEF WindowIs
<1>4. TypeOK'
  <2>1. TypeOK
    BY DEF FrameInv
  <2>2. Snapshot' \in Snapshots
    <3>1. vblank' \in BOOLEAN /\ vcount' \in Nat /\ budget' \in Int /\ copied' \in Nat
      BY <1>1, <1>2, <1>3, <2>1, SimFields DEF Windows
    <3> QED
      BY <1>1, <2>1, <3>1, SimFields, SimParts
  <2>3. /\ UNCHANGED <<space, span, render, test, snap>>
        /\ phase' \in {"reserve", "fatal", "game", "hook", "render", "line", "vblank", "handler"}
    BY <2>1 DEF TypeOK, CpuSet, memVars, GameRuns
  <2>4. /\ line' \in 0 .. Lines /\ memo' \in Memos /\ bad' \subseteq Shapes
        /\ moved' \in Nat /\ cells' \subseteq Cells
    BY <2>1 DEF TypeOK, Memos, Shapes, CpuSet, memVars, GameRuns
  <2>5. calls' \in 0 .. MaxCalls
    BY <2>1, CallsBounded DEF CpuSet
  <2> QED
    BY <2>1, <2>2, <2>3, <2>4, <2>5, TypeParts
<1>5. MapInv'
  <2>1. UNCHANGED <<space, span>> /\ phase \notin {"reserve", "fatal"} /\ phase' \notin {"reserve", "fatal"}
    BY DEF CpuSet, memVars, GameRuns, WindowIs, Consumed, Window
  <2> QED
    BY <2>1, MapStays
<1>6. MemoPageIsThere(memo)' /\ TouchesWhatIsThere'
  <2>1. UNCHANGED <<space, memo>> /\ cells' \in {{}, cells}
    BY DEF CpuSet, memVars, GameRuns, WindowIs, Consumed, Window
  <2> QED
    BY <2>1, Untouched
<1>7. WindowInv'
  <2>1. Left(Window, moved) => Left(Consumed(Window, n), moved + n)
    BY <1>2
  <2>2. Left(Consumed(Window, n), moved + n) => Left(Window, moved)'
    BY <1>1, <1>3 DEF Left, Window
  <2> QED
    BY <1>1, <2>1, <2>2 DEF FrameInv, WindowInv
<1> QED
  BY <1>4, <1>5, <1>6, <1>7, InvFromParts
(* The invariant is of a state a transfer may run in.                      *)
LEMMA StartRuns ==
  ASSUME FrameInv, NEW w \in Windows, NEW already \in Nat, NEW fits \in BOOLEAN,
         fits => Left(w, already)
  PROVE  Running(Start(w), already, fits)
<1>1. /\ ch \in [Channels -> Channel] /\ memo \in Memos /\ bad \in SUBSET Shapes
      /\ MemoPageIsThere(memo)
  <2>1. TypeOK
    BY DEF FrameInv
  <2> QED
    BY <2>1, SimFields DEF FrameInv, TypeOK, Memos, Shapes
<1>2. /\ Start(w) = [ch |-> ch, memo |-> memo, bad |-> bad, window |-> w, moved |-> 0, cells |-> {}]
      /\ Start(w).memo = memo /\ Start(w).cells = {} /\ Start(w).window = w /\ Start(w).moved = 0
  BY DEF Start
<1>3. Start(w) \in Runnings
  BY <1>1, <1>2 DEF Runnings
<1>4. already + 0 = already
  OBVIOUS
<1> QED
  BY <1>1, <1>2, <1>3, <1>4 DEF Running

(* The game sets a channel, and a transfer may run at once.                *)
LEMMA InvPortDmaSet ==
  ASSUME FrameInv, NEW r \in Requests, PortDmaSet(r)
  PROVE  FrameInv'
<1> DEFINE set == [ch EXCEPT ![r.channel] = ChannelSet(r.src, r.dest, r.control)]
           now == r.control.enable /\ r.control.timing = "now"
           begun == [Start(Window) EXCEPT !.ch = set]
           st == IF now THEN AfterChannel(begun, r.channel, "now") ELSE begun
           fits == phase = "handler" \/ (phase = "game" /\ frame > 0)
<1>1. /\ Ran(st, moved, {}) /\ enable' = [enable EXCEPT ![r.channel] = r.control.enable /\ ~now]
      /\ UNCHANGED <<phase, space, span, frame, keys, mask, keyinput, affine, seen,
                     line, render, test, snap>>
      /\ phase \in {"game", "handler"} /\ Bounded /\ OneCall
  BY DEF PortDmaSet, GameRuns
<1>2. TypeOK /\ moved \in Nat /\ copied \in Nat /\ Window \in Windows
  <2>1. TypeOK /\ moved \in Nat
    BY DEF FrameInv, TypeOK
  <2> QED
    BY <2>1, SimFields DEF Window, Windows
<1>3. r.channel \in Channels /\ r.src \in Nat /\ r.dest \in Nat /\ r.control \in Controls
  BY FrameAssumption
<1>4. set \in [Channels -> Channel]
  <2>1. CountOf(r.control.count) \in Nat
    BY <1>3, DmaAssumption DEF CountOf, Controls
  <2>2. ChannelSet(r.src, r.dest, r.control) \in Channel
    BY <1>3, <2>1 DEF ChannelSet, Controls, Channel
  <2> QED
    BY <1>2, <2>2, SimFields
<1>5. fits \in BOOLEAN /\ (fits => Left(Window, moved))
  BY DEF FrameInv
<1> HIDE DEF set, fits
<1>6. Running(begun, moved, fits)
  <2>1. Running(Start(Window), moved, fits)
    BY <1>2, <1>5, StartRuns
  <2>2. begun = [ch |-> set, memo |-> memo, bad |-> bad, window |-> Window, moved |-> 0, cells |-> {}]
    BY DEF Start
  <2>3. Start(Window) = [ch |-> ch, memo |-> memo, bad |-> bad, window |-> Window, moved |-> 0, cells |-> {}]
    BY DEF Start
  <2>4. memo \in Memos /\ bad \in SUBSET Shapes /\ MemoPageIsThere(memo) /\ (fits => Left(Window, moved + 0))
    BY <1>2, <1>5 DEF FrameInv, TypeOK, Memos, Shapes
  <2>5. begun \in Runnings
    BY <1>2, <1>4, <2>2, <2>4 DEF Runnings
  <2>6. begun.memo = memo /\ begun.cells = {} /\ begun.window = Window /\ begun.moved = 0
    BY <2>2
  <2> HIDE DEF begun
  <2> QED
    BY <2>4, <2>5, <2>6 DEF Running
<1>7. Mapped
  BY <1>1, InvMapped
<1>8. Running(st, moved, fits)
  <2>1. Running(AfterChannel(begun, r.channel, "now"), moved, fits)
    BY <1>2, <1>3, <1>5, <1>6, <1>7, ChannelRuns
  <2> QED
    BY <1>6, <2>1
<1> HIDE DEF st, now
<1>9. /\ ch' \in [Channels -> Channel] /\ memo' \in Memos /\ bad' \subseteq Shapes
      /\ vblank' \in BOOLEAN /\ vcount' \in Nat /\ budget' \in Int
      /\ moved' \in Nat /\ copied' \in Nat /\ cells' \subseteq Cells
      /\ MemoPageIsThere(memo)' /\ (\A c \in cells : There(c))'
      /\ fits => Left(Window, moved)'
  BY <1>1, <1>2, <1>5, <1>8, RanKeeps
<1>10. TypeOK'
  <2>1. enable' \in [Channels -> BOOLEAN]
    <3>1. (r.control.enable /\ ~now) \in BOOLEAN
      OBVIOUS
    <3> QED
      BY <1>1, <1>2, <3>1, SimFields
  <2>2. Snapshot' \in Snapshots
    BY <1>1, <1>2, <1>9, <2>1, SimFields, SimParts
  <2>3. /\ UNCHANGED <<space, span, render, test, snap>> /\ line' \in 0 .. Lines
        /\ phase' \in {"reserve", "fatal", "game", "hook", "render", "line", "vblank", "handler"}
    BY <1>1, <1>2 DEF TypeOK
  <2>4. calls' \in 0 .. MaxCalls
    BY <1>1, <1>2, CallsBounded
  <2> QED
    BY <1>2, <1>9, <2>2, <2>3, <2>4, TypeParts
<1>11. MapInv'
  <2>1. UNCHANGED <<space, span>> /\ phase \notin {"reserve", "fatal"} /\ phase' \notin {"reserve", "fatal"}
    BY <1>1
  <2> QED
    BY <2>1, MapStays
<1>12. TouchesWhatIsThere'
  BY <1>9, TouchesAreThere
<1>13. WindowInv'
  BY <1>1, <1>9 DEF WindowInv, fits
<1> QED
  BY <1>9, <1>10, <1>11, <1>12, <1>13, InvFromParts

(* A line, with its transfers and its interrupts.                          *)
LEMMA InvScanline ==
  ASSUME FrameInv, Scanline
  PROVE  FrameInv'
<1> DEFINE st == RunTiming(Start(VBlankOver), "hblank")
           h  == IF mask.hblankIntr THEN Dispatched(seen, "hblank") ELSE seen
           v  == IF mask.vcountIntr /\ mask.vcountLine = line THEN Dispatched(h, "vcount") ELSE h
           met == IF v # seen \/ \E c \in Channels : Runs(ch, c, "hblank") THEN {"line"} ELSE {}
<1>1. /\ Ran(st, moved, met) /\ seen' = v /\ affine' = affine + 1 /\ line' = line + 1
      /\ UNCHANGED <<phase, space, span, enable, frame, keys, mask, keyinput, render, test, snap, calls>>
      /\ phase = "line" /\ line < Lines
  BY DEF Scanline, testVars
<1>2. TypeOK /\ moved \in Nat /\ copied \in Nat /\ line \in 0 .. Lines /\ Lines \in Nat
  <2>1. TypeOK /\ moved \in Nat /\ line \in 0 .. Lines
    BY DEF FrameInv, TypeOK
  <2> QED
    BY <2>1, SimFields, FrameAssumption
<1>3. VBlankOver \in Windows
  <2>1. Window \in Windows
    BY <1>2, SimFields DEF Window, Windows
  <2>2. line \in Nat
    BY <1>2
  <2> QED
    BY <2>1, <2>2 DEF VBlankOver, Windows
<1>4. Mapped
  BY <1>1, InvMapped
<1>5. Running(st, moved, FALSE)
  <2>1. Running(Start(VBlankOver), moved, FALSE)
    BY <1>2, <1>3, StartRuns
  <2> QED
    BY <1>2, <1>4, <2>1, TimingRuns
<1>6. v \in [0 .. 7 -> Nat]
  <2>1. h \in [0 .. 7 -> Nat]
    BY <1>2, SimFields, DispatchedCounts
  <2> HIDE DEF h
  <2> QED
    BY <2>1, DispatchedCounts
<1> HIDE DEF st, v, met
<1>7. /\ ch' \in [Channels -> Channel] /\ memo' \in Memos /\ bad' \subseteq Shapes
      /\ vblank' \in BOOLEAN /\ vcount' \in Nat /\ budget' \in Int
      /\ moved' \in Nat /\ copied' \in Nat /\ cells' \subseteq Cells
      /\ MemoPageIsThere(memo)' /\ (\A c \in cells : There(c))'
  BY <1>1, <1>2, <1>5, RanKeeps
<1>8. TypeOK'
  <2>1. affine' \in Nat /\ seen' \in [0 .. 7 -> Nat] /\ line' \in 0 .. Lines
    BY <1>1, <1>2, <1>6, SimFields
  <2>2. Snapshot' \in Snapshots
    BY <1>1, <1>2, <1>7, <2>1, SimFields, SimParts
  <2>3. /\ UNCHANGED <<space, span, render, test, snap>> /\ calls' \in 0 .. MaxCalls
        /\ phase' \in {"reserve", "fatal", "game", "hook", "render", "line", "vblank", "handler"}
    BY <1>1, <1>2 DEF TypeOK
  <2> QED
    BY <1>2, <1>7, <2>1, <2>2, <2>3, TypeParts
<1>9. MapInv'
  <2>1. UNCHANGED <<space, span>> /\ phase \notin {"reserve", "fatal"} /\ phase' \notin {"reserve", "fatal"}
    BY <1>1
  <2> QED
    BY <2>1, MapStays
<1>10. TouchesWhatIsThere' /\ WindowInv'
  BY <1>1, <1>7, TouchesAreThere DEF WindowInv
<1> QED
  BY <1>7, <1>8, <1>9, <1>10, InvFromParts

(* VBlank opens with the whole budget, and the flush takes from it.        *)
LEMMA InvOpenVBlank ==
  ASSUME FrameInv, OpenVBlank
  PROVE  FrameInv'
<1> DEFINE open == [vblank |-> TRUE, vcount |-> 160, budget |-> WholeBudget]
           st == RunTiming(Start(open), "vblank")
<1>1. /\ Ran(st, 0, {}) /\ seen' = Dispatched(seen, "vblank") /\ phase = "vblank" /\ phase' = "handler"
      /\ UNCHANGED <<space, span, enable, frame, keys, mask, keyinput, affine, line, render, test, snap, calls>>
  BY DEF OpenVBlank, testVars
<1>2. TypeOK /\ copied \in Nat
  <2>1. TypeOK
    BY DEF FrameInv
  <2> QED
    BY <2>1, SimFields
<1>3. open \in Windows /\ Left(open, 0)
  <2>1. WholeBudget = Budget /\ Budget \in Nat \ {0}
    BY FrameAssumption DEF WholeBudget
  <2> QED
    BY <2>1 DEF Windows, Left
<1>4. Mapped
  BY <1>1, InvMapped
<1> HIDE DEF open
<1>5. Running(st, 0, TRUE)
  <2>1. Running(Start(open), 0, TRUE)
    BY <1>3, StartRuns
  <2> QED
    BY <1>4, <2>1, TimingRuns
<1> HIDE DEF st
<1>6. /\ ch' \in [Channels -> Channel] /\ memo' \in Memos /\ bad' \subseteq Shapes
      /\ vblank' \in BOOLEAN /\ vcount' \in Nat /\ budget' \in Int
      /\ moved' \in Nat /\ copied' \in Nat /\ cells' \subseteq Cells
      /\ MemoPageIsThere(memo)' /\ (\A c \in cells : There(c))'
      /\ Left(Window, moved)'
  BY <1>1, <1>2, <1>5, RanKeeps
<1>7. TypeOK'
  <2>1. seen' \in [0 .. 7 -> Nat]
    BY <1>1, <1>2, SimFields, DispatchedCounts
  <2>2. Snapshot' \in Snapshots
    BY <1>1, <1>2, <1>6, <2>1, SimFields, SimParts
  <2>3. UNCHANGED <<space, span, render, test, snap>> /\ calls' \in 0 .. MaxCalls /\ line' \in 0 .. Lines
    BY <1>1, <1>2 DEF TypeOK
  <2> QED
    BY <1>1, <1>2, <1>6, <2>2, <2>3, TypeParts
<1>8. MapInv'
  <2>1. UNCHANGED <<space, span>> /\ phase \notin {"reserve", "fatal"} /\ phase' \notin {"reserve", "fatal"}
    BY <1>1
  <2> QED
    BY <2>1, MapStays
<1>9. TouchesWhatIsThere' /\ WindowInv'
  BY <1>6, TouchesAreThere DEF WindowInv
<1> QED
  BY <1>6, <1>7, <1>8, <1>9, InvFromParts

(* A step that changes nothing.                                            *)
LEMMA InvUnchanged ==
  ASSUME FrameInv, UNCHANGED vars
  PROVE  FrameInv'
<1>1. TypeOK'
  BY DEF FrameInv, TypeOK, Snapshot, Snapshots, vars, memVars, simVars, testVars
<1>2. NothingMappedOver(space.owner)' /\ MemoPageIsThere(memo)'
  BY DEF FrameInv, NothingMappedOver, MemoPageIsThere, vars, memVars
<1>3. SpansAreOurs'
  BY DEF FrameInv, SpansAreOurs, Spans, vars, memVars
<1>4. NothingYet' /\ TouchesWhatIsThere' /\ WindowInv'
  BY DEF FrameInv, NothingYet, TouchesWhatIsThere, WindowInv, Left, Window, vars, memVars, simVars
<1> QED
  BY <1>1, <1>2, <1>3, <1>4, InvFromParts DEF MapInv

(* Every step keeps the invariant.                                         *)
LEMMA InvNext ==
  ASSUME FrameInv, [Next]_vars
  PROVE  FrameInv'
<1>1. ASSUME NEW r \in Requests, PortDmaSet(r) PROVE FrameInv'
  BY <1>1, InvPortDmaSet
<1>2. ASSUME NEW c \in Channels, PortDmaStop(c) PROVE FrameInv'
  BY <1>2, InvPortDmaStop
<1>3. ASSUME NEW n \in {1, 8}, CpuSet(n) PROVE FrameInv'
  BY <1>3, InvCpuSet
<1>4. ASSUME NEW raised \in Raised, NEW k \in KeySets, EndFrame(raised, k) PROVE FrameInv'
  BY <1>4, InvEndFrame
<1>5. CASE PortRbSelfTestStep
  BY <1>5, InvTestSnapshot, InvTestRestore, InvTestVerdict, InvNoTestStep DEF PortRbSelfTestStep
<1>6. CASE ReserveSpan \/ AgbMain \/ SoundMain
  BY <1>6, InvReserveSpan, InvAgbMain, InvSoundMain
<1>7. CASE PortRenderFrame \/ Scanline \/ LinesDone \/ OpenVBlank
  BY <1>7, InvPortRenderFrame, InvScanline, InvLinesDone, InvOpenVBlank
<1>8. CASE AtBound \/ UNCHANGED vars
  BY <1>8, InvUnchanged DEF AtBound
<1> QED
  BY <1>1, <1>2, <1>3, <1>4, <1>5, <1>6, <1>7, <1>8 DEF Next

(* FrameInv is an invariant.                                               *)
LEMMA InvAlways == Spec => []FrameInv
<1>1. Init => FrameInv
  BY InvInit
<1>2. FrameInv /\ [Next]_vars => FrameInv'
  BY InvNext
<1> QED
  BY <1>1, <1>2, PTL DEF Spec

-----------------------------------------------------------------------------
(* THEOREMS                                                                *)

(* Every variable of a frame keeps to its type.                            *)
THEOREM TypeCorrect == Spec => []TypeOK
<1>1. FrameInv => TypeOK
  BY DEF FrameInv
<1> QED
  BY <1>1, InvAlways, PTL

(* The VBlank window is open exactly as long as the bytes moved since it   *)
(* opened are fewer than the budget, whatever the channels are set to.     *)
THEOREM WindowKeepsItsBudget == Spec => []WindowIsTheBudget
<1>1. FrameInv => WindowIsTheBudget
  <2> SUFFICES ASSUME FrameInv, phase = "handler" \/ (phase = "game" /\ frame > 0)
               PROVE  vblank <=> moved < Budget
    BY DEF WindowIsTheBudget
  <2>1. Left(Window, moved)
    BY DEF FrameInv
  <2>2. Window.vblank = vblank /\ Window.budget = budget
    BY DEF Window
  <2>3. moved \in Nat /\ Budget \in Nat /\ vblank \in BOOLEAN
    <3>1. TypeOK
      BY DEF FrameInv
    <3> QED
      BY <3>1, SimFields, FrameAssumption DEF TypeOK
  <2> QED
    BY <2>1, <2>2, <2>3 DEF Left
<1> QED
  BY <1>1, InvAlways, PTL

(* When the game starts the map is whole, nothing was mapped over, and the *)
(* spans are apart: for every table in ascending order and every page.     *)
THEOREM MapStaysWhole == Spec => []MapIsWhole
<1>1. FrameInv => MapIsWhole
  <2> SUFFICES ASSUME FrameInv PROVE MapIsWhole
    OBVIOUS
  <2>1. phase \notin {"reserve", "fatal"} => \A c \in RegionCells : space.owner[c] = "ours"
    BY InvMapped DEF Mapped
  <2>2. \E w \in Worlds : \A c \in Cells : w.owner[c] \in {"free", space.owner[c]}
    BY DEF FrameInv, NothingMappedOver
  <2>3. \A i, j \in DOMAIN Spans : i < j => Spans[i].base + Spans[i].size < Spans[j].base
    <3>1. space.page \in Nat \ {0}
      BY DEF FrameInv, TypeOK
    <3> QED
      BY <3>1, CoalesceMerges DEF Spans, Merges
  <2> QED
    BY <2>1, <2>2, <2>3 DEF MapIsWhole
<1> QED
  BY <1>1, InvAlways, PTL

(* No transfer touches a cell nobody has mapped, one of the window the     *)
(* console does not decode or, on Windows, a guard page, whatever its      *)
(* direction, its alignment and the repeats before it, and whatever the    *)
(* memo says. On POSIX a guard page is taken for one that is there.        *)
THEOREM NothingElseIsTouched == Spec => []TouchesWhatIsThere
<1>1. FrameInv => TouchesWhatIsThere
  BY DEF FrameInv
<1> QED
  BY <1>1, InvAlways, PTL

-----------------------------------------------------------------------------
(* TWO RUNS OF ONE FRAME                                                   *)

(* The memo's answer is right of its page.                                 *)
Truthful(s, m) == m.ok = AddrValid(s.host, s.owner, s.page, m.page, 1)

(* Two memos that make no difference to what is asked after them.          *)
Alike(s, m, n) == m = n \/ (Truthful(s, m) /\ Truthful(s, n))

(* Of two multiples less than the divisor apart neither is the less.       *)
LEMMA OneMultiple ==
  ASSUME NEW d \in Nat \ {0}, NEW p \in Int, NEW q \in Int, NEW n \in Int,
         p * d \in n .. n + d - 1, q * d \in n .. n + d - 1
  PROVE  p * d = q * d
<1>1. ASSUME p * d < q * d PROVE FALSE
  BY <1>1, NextMultiple
<1>2. ASSUME q * d < p * d PROVE FALSE
  BY <1>2, NextMultiple
<1> QED
  BY <1>1, <1>2

(* RoundUp goes no further than it has to.                                 *)
LEMMA RoundsUpClose ==
  ASSUME NEW n \in Int, NEW d \in Nat \ {0}
  PROVE  RoundUp(n, d) \in n .. n + d - 1
<1>1. n + d - 1 \in Int
  OBVIOUS
<1>2. PICK q \in Int, r \in 0 .. d - 1 : n + d - 1 = q * d + r /\ q = (n + d - 1) \div d
  BY <1>1, Divides
<1>3. RoundUp(n, d) = q * d
  BY <1>2 DEF RoundUp
<1>4. q * d \in Int
  OBVIOUS
<1> QED
  BY <1>2, <1>3, <1>4

(* The host has one answer for everything in a page of the memo.           *)
LEMMA PageHasOneAnswer ==
  ASSUME Mapped, NEW lo \in Int, NEW len \in Nat \ {0}, NEW p,
         p = RoundDown(lo, MemoPage), p = RoundDown(lo + len - 1, MemoPage)
  PROVE  AddrValid(space.host, space.owner, space.page, lo, len)
           = AddrValid(space.host, space.owner, space.page, p, 1)
<1> DEFINE page == PageOf(space.host, space.page)
<1>1. /\ page \in Nat \ {0} /\ page % MemoPage = 0 /\ MemoPage \in Nat \ {0} /\ Top \in Nat
  <2>1. space.page \in Nat \ {0} /\ space.page % MemoPage = 0
    BY DEF Mapped
  <2>2. MemoPage \in Nat \ {0} /\ Top \in Nat
    BY MemMapAssumption
  <2>3. MemoPage % MemoPage = 0
    BY <2>2
  <2> QED
    BY <2>1, <2>2, <2>3 DEF PageOf
<1> HIDE DEF page
<1>2. p \in Int /\ p <= lo /\ lo + len - 1 < p + MemoPage
  <2>1. lo + len - 1 \in Int
    OBVIOUS
  <2> QED
    BY <1>1, <2>1, RoundedDown
<1>3. RoundDown(p, MemoPage) = p
  <2>1. PICK q \in Int : p = q * MemoPage
    BY <1>1, RoundedDown
  <2>2. PICK r \in Int : RoundDown(p, MemoPage) = r * MemoPage
    BY <1>1, <1>2, RoundedDown
  <2>3. /\ RoundDown(p, MemoPage) \in Int
        /\ RoundDown(p, MemoPage) <= p /\ p < RoundDown(p, MemoPage) + MemoPage
    BY <1>1, <1>2, RoundedDown
  <2>4. r * MemoPage \in p - MemoPage + 1 .. p /\ q * MemoPage \in p - MemoPage + 1 .. p
    BY <1>1, <1>2, <2>1, <2>2, <2>3
  <2>5. PICK n \in Int : n = p - MemoPage + 1 /\ p = n + MemoPage - 1
    BY <1>1, <1>2
  <2>6. r * MemoPage = q * MemoPage
    BY <1>1, <2>4, <2>5, OneMultiple
  <2> QED
    BY <2>1, <2>2, <2>6
<1>4. lo >= 0 <=> p >= 0
  <2>1. lo >= 0 => p >= 0
    BY <1>1, RoundsInOrder
  <2> QED
    BY <1>2, <2>1
<1>5. lo >= 0 => (lo + len <= Top <=> p + 1 <= Top)
  <2>1. ASSUME lo >= 0, p + 1 <= Top PROVE lo + len <= Top
    <3>1. p \in 0 .. Top - 1
      BY <1>1, <1>2, <1>4, <2>1
    <3>2. p + MemoPage <= Top
      BY <1>3, <3>1, PageBelowTop
    <3> QED
      BY <1>1, <1>2, <3>2
  <2> QED
    BY <1>1, <1>2, <2>1
<1>6. RoundDown(lo, page) = RoundDown(p, page)
  <2>1. PICK q \in Int : RoundDown(lo, page) = q * page
    BY <1>1, RoundedDown
  <2>2. PICK r \in Int : RoundDown(p, page) = r * page
    BY <1>1, <1>2, RoundedDown
  <2>3. RoundDown(lo, page) <= p
    <3>1. lo < lo + 1 /\ lo + 1 \in Int
      OBVIOUS
    <3> QED
      BY <1>1, <3>1, PagesNest
  <2>4. /\ RoundDown(lo, page) \in Int /\ lo < RoundDown(lo, page) + page
        /\ RoundDown(p, page) \in Int /\ RoundDown(p, page) <= p /\ p < RoundDown(p, page) + page
    BY <1>1, <1>2, RoundedDown
  <2>5. PICK n \in Int : n = p - page + 1 /\ p = n + page - 1
    BY <1>1, <1>2
  <2>6. q * page \in n .. n + page - 1 /\ r * page \in n .. n + page - 1
    BY <1>1, <1>2, <2>1, <2>2, <2>3, <2>4, <2>5
  <2> QED
    BY <1>1, <2>1, <2>2, <2>6, OneMultiple
<1>7. RoundUp(lo + len, page) = RoundUp(p + 1, page)
  <2>1. lo + len \in Int /\ p + 1 \in Int /\ p < p + 1
    BY <1>2
  <2>2. PICK q \in Int : RoundUp(lo + len, page) = q * page
    BY <1>1, <2>1, RoundedUp
  <2>3. PICK r \in Int : RoundUp(p + 1, page) = r * page
    BY <1>1, <2>1, RoundedUp
  <2>4. p + MemoPage <= RoundUp(p + 1, page)
    BY <1>1, <1>2, <1>3, <2>1, PagesNest
  <2>5. /\ RoundUp(lo + len, page) \in lo + len .. lo + len + page - 1
        /\ RoundUp(p + 1, page) \in p + 1 .. p + 1 + page - 1
    BY <1>1, <2>1, RoundsUpClose
  <2>6. PICK n \in Int : n = lo + len
    BY <2>1
  <2>7. q * page \in n .. n + page - 1 /\ r * page \in n .. n + page - 1
    BY <1>1, <1>2, <2>2, <2>3, <2>4, <2>5, <2>6
  <2> QED
    BY <1>1, <2>2, <2>3, <2>7, OneMultiple
<1>8. PagesOf(lo, len, page) = PagesOf(p, 1, page)
  BY <1>6, <1>7 DEF PagesOf
<1> QED
  BY <1>4, <1>5, <1>8 DEF AddrValid, page

(* What a truthful memo answers is what the host would.                    *)
LEMMA TruthIsTold ==
  ASSUME Mapped, NEW m \in Memos, Truthful(space, m), NEW lo \in Int, NEW len \in Nat \ {0},
         NEW valid, valid = AddrValid(space.host, space.owner, space.page, lo, len),
         Remembered(m, lo, len)
  PROVE  m.ok = valid /\ m = [page |-> RoundDown(lo, MemoPage), ok |-> valid]
<1>1. m.page = RoundDown(lo, MemoPage) /\ m.page = RoundDown(lo + len - 1, MemoPage)
  BY DEF Remembered
<1>2. m.ok = valid
  <2>1. valid = AddrValid(space.host, space.owner, space.page, m.page, 1)
    BY <1>1, PageHasOneAnswer, Zenon
  <2> QED
    BY <2>1 DEF Truthful
<1>3. m = [page |-> m.page, ok |-> m.ok]
  BY DEF Memos
<1> QED
  BY <1>1, <1>2, <1>3

(* One question of a range, with two memos that are alike: one answer.     *)
LEMMA RangeAlike ==
  ASSUME Mapped, NEW m \in Memos, NEW n \in Memos, Alike(space, m, n),
         NEW lo \in Int, NEW len \in Nat,
         NEW a, a = RangeOk(space, m, lo, len), NEW b, b = RangeOk(space, n, lo, len)
  PROVE  /\ a.ok = b.ok /\ a.ok \in BOOLEAN
         /\ a.memo \in Memos /\ b.memo \in Memos /\ Alike(space, a.memo, b.memo)
<1> DEFINE refused == len = 0 \/ (lo < 0 /\ lo + len >= 0) \/ (lo < space.hi /\ lo + len > space.lo)
           valid == AddrValid(space.host, space.owner, space.page, lo, len)
           fresh == [page |-> RoundDown(lo, MemoPage), ok |-> valid]
           answer(o) == IF Decoded(lo, len) THEN [ok |-> TRUE, memo |-> o]
                        ELSE IF refused THEN [ok |-> FALSE, memo |-> o]
                        ELSE IF Remembered(o, lo, len) THEN [ok |-> o.ok, memo |-> o]
                        ELSE [ok |-> valid, memo |-> fresh]
<1>1. a = answer(m) /\ b = answer(n)
  BY DEF RangeOk, HostRangeOk
<1>2. fresh \in Memos /\ valid \in BOOLEAN
  <2>1. RoundDown(lo, MemoPage) \in Int
    BY MemMapAssumption, RoundedDown
  <2>2. valid \in BOOLEAN
    BY DEF AddrValid
  <2> HIDE DEF valid
  <2> QED
    BY <2>1, <2>2 DEF Memos
<1>3. m.ok \in BOOLEAN /\ n.ok \in BOOLEAN
  BY DEF Memos
<1>4. CASE Decoded(lo, len)
  BY <1>1, <1>4
<1>5. CASE ~Decoded(lo, len) /\ refused
  <2> HIDE DEF refused, valid, fresh
  <2>1. a = [ok |-> FALSE, memo |-> m] /\ b = [ok |-> FALSE, memo |-> n]
    BY <1>1, <1>5
  <2> QED
    BY <2>1
<1>6. CASE ~Decoded(lo, len) /\ ~refused
  <2>1. len \in Nat \ {0}
    BY <1>6
  <2>2. CASE m = n
    <3>1. a = b
      BY <1>1, <2>2
    <3>2. a.ok \in BOOLEAN /\ a.memo \in Memos
      <4> HIDE DEF refused, valid, fresh
      <4> QED
        BY <1>1, <1>2, <1>3, <1>6
    <3> QED
      BY <3>1, <3>2 DEF Alike
  <2>3. CASE Truthful(space, m) /\ Truthful(space, n)
    <3>1. Remembered(m, lo, len) => m.ok = valid /\ m = fresh
      BY <2>1, <2>3, TruthIsTold
    <3>2. Remembered(n, lo, len) => n.ok = valid /\ n = fresh
      BY <2>1, <2>3, TruthIsTold
    <3> HIDE DEF refused, valid, fresh
    <3>3. a = [ok |-> valid, memo |-> fresh] /\ b = [ok |-> valid, memo |-> fresh]
      BY <1>1, <1>6, <3>1, <3>2
    <3> QED
      BY <1>2, <3>3 DEF Alike
  <2> QED
    BY <2>2, <2>3 DEF Alike
<1> QED
  BY <1>4, <1>5, <1>6

(* One transfer, with two memos that are alike.                            *)
LEMMA TransferAlike ==
  ASSUME Mapped, NEW m \in Memos, NEW n \in Memos, Alike(space, m, n), NEW c \in Channel,
         NEW a, a = RunTransfer(space, m, c), NEW b, b = RunTransfer(space, n, c)
  PROVE  /\ a.ch = b.ch /\ a.ch \in Channel /\ a.bytes = b.bytes /\ a.bytes \in Nat
         /\ a.memo \in Memos /\ b.memo \in Memos /\ Alike(space, a.memo, b.memo)
<1>1. /\ c.count \in Nat /\ c.unit \in {1, 2} /\ c.src \in Int /\ c.dest \in Int
      /\ c.srcCtrl \in Ctrls /\ c.destCtrl \in Ctrls
  BY DEF Channel
<1>2. PICK src \in Int : src = Aligned(c.src, c.unit)
  BY <1>1 DEF Aligned
<1>3. PICK dest \in Int : dest = Aligned(c.dest, c.unit)
  BY <1>1 DEF Aligned
<1>4. CASE c.count = 0
  <2>1. a = [ch |-> c, memo |-> m, bytes |-> 0, cells |-> {}, bad |-> {}]
    BY <1>4 DEF RunTransfer
  <2>2. b = [ch |-> c, memo |-> n, bytes |-> 0, cells |-> {}, bad |-> {}]
    BY <1>4 DEF RunTransfer
  <2> QED
    BY <2>1, <2>2
<1>5. CASE c.count # 0
  <2>1. PICK s : s = SpanOf(src, c.srcCtrl, c.unit, c.count)
    OBVIOUS
  <2>2. PICK d : d = SpanOf(dest, c.destCtrl, c.unit, c.count)
    OBVIOUS
  <2>3. s.lo \in Int /\ s.len \in Nat /\ d.lo \in Int /\ d.len \in Nat
    <3>1. c.count \in Nat \ {0}
      BY <1>1, <1>5
    <3> QED
      BY <1>1, <2>1, <2>2, <3>1, SpanHoldsRun
  <2>4. PICK first : first = RangeOk(space, m, s.lo, s.len)
    OBVIOUS
  <2>5. PICK first2 : first2 = RangeOk(space, n, s.lo, s.len)
    OBVIOUS
  <2>6. /\ first.ok = first2.ok /\ first.ok \in BOOLEAN
        /\ first.memo \in Memos /\ first2.memo \in Memos /\ Alike(space, first.memo, first2.memo)
    BY <2>3, <2>4, <2>5, RangeAlike
  <2>7. PICK second : second = RangeOk(space, first.memo, d.lo, d.len)
    OBVIOUS
  <2>8. PICK second2 : second2 = RangeOk(space, first2.memo, d.lo, d.len)
    OBVIOUS
  <2>9. /\ second.ok = second2.ok /\ second.ok \in BOOLEAN
        /\ second.memo \in Memos /\ second2.memo \in Memos /\ Alike(space, second.memo, second2.memo)
    BY <2>3, <2>6, <2>7, <2>8, RangeAlike
  <2>10. PICK third : third = RangeOk(space, IF first.ok THEN second.memo ELSE first.memo, s.lo, s.len)
    OBVIOUS
  <2>11. PICK third2 : third2 = RangeOk(space, IF first2.ok THEN second2.memo ELSE first2.memo, s.lo, s.len)
    OBVIOUS
  <2>12. third.memo \in Memos /\ third2.memo \in Memos /\ Alike(space, third.memo, third2.memo)
    <3>1. PICK o \in Memos, o2 \in Memos :
            /\ o = (IF first.ok THEN second.memo ELSE first.memo)
            /\ o2 = (IF first2.ok THEN second2.memo ELSE first2.memo)
            /\ Alike(space, o, o2)
      BY <2>6, <2>9
    <3> QED
      BY <2>3, <2>10, <2>11, <3>1, RangeAlike
  <2>13. PICK fourth : fourth = RangeOk(space, third.memo, d.lo, d.len)
    OBVIOUS
  <2>14. PICK fourth2 : fourth2 = RangeOk(space, third2.memo, d.lo, d.len)
    OBVIOUS
  <2>15. fourth.memo \in Memos /\ fourth2.memo \in Memos /\ Alike(space, fourth.memo, fourth2.memo)
    BY <2>3, <2>12, <2>13, <2>14, RangeAlike
  <2>16. CASE first.ok /\ second.ok
    <3>1. a = [ch |-> Moved(c, src, dest), memo |-> second.memo, bytes |-> c.count * c.unit,
               cells |-> Touched(src, c.srcCtrl, c.unit, c.count)
                           \cup Touched(dest, c.destCtrl, c.unit, c.count),
               bad |-> {}]
      BY <1>2, <1>3, <1>5, <2>1, <2>2, <2>4, <2>7, <2>16, ZenonT(60) DEF RunTransfer
    <3>2. first2.ok /\ second2.ok
      BY <2>6, <2>9, <2>16
    <3>3. b = [ch |-> Moved(c, src, dest), memo |-> second2.memo, bytes |-> c.count * c.unit,
               cells |-> Touched(src, c.srcCtrl, c.unit, c.count)
                           \cup Touched(dest, c.destCtrl, c.unit, c.count),
               bad |-> {}]
      BY <1>2, <1>3, <1>5, <2>1, <2>2, <2>5, <2>8, <3>2, ZenonT(60) DEF RunTransfer
    <3>4. Moved(c, src, dest) \in Channel
      BY MovedIsChannel
    <3>5. c.count * c.unit \in Nat
      BY <1>1
    <3>6. /\ a.ch = Moved(c, src, dest) /\ b.ch = Moved(c, src, dest)
          /\ a.bytes = c.count * c.unit /\ b.bytes = c.count * c.unit
          /\ a.memo = second.memo /\ b.memo = second2.memo
      BY <3>1, <3>3
    <3> QED
      BY <2>9, <3>4, <3>5, <3>6
  <2>17. CASE ~(first.ok /\ second.ok)
    <3>1. a = [ch |-> c, memo |-> fourth.memo, bytes |-> 0, cells |-> {},
               bad |-> (IF third.ok THEN {} ELSE {"src"}) \cup (IF fourth.ok THEN {} ELSE {"dest"})]
      BY <1>2, <1>3, <1>5, <2>1, <2>2, <2>4, <2>7, <2>10, <2>13, <2>17, ZenonT(60) DEF RunTransfer
    <3>2. ~(first2.ok /\ second2.ok)
      BY <2>6, <2>9, <2>17
    <3>3. b = [ch |-> c, memo |-> fourth2.memo, bytes |-> 0, cells |-> {},
               bad |-> (IF third2.ok THEN {} ELSE {"src"}) \cup (IF fourth2.ok THEN {} ELSE {"dest"})]
      BY <1>2, <1>3, <1>5, <2>1, <2>2, <2>5, <2>8, <2>11, <2>14, <3>2, ZenonT(60) DEF RunTransfer
    <3>4. a.ch = c /\ b.ch = c /\ a.bytes = 0 /\ b.bytes = 0 /\ a.memo = fourth.memo /\ b.memo = fourth2.memo
      BY <3>1, <3>3
    <3> QED
      BY <2>15, <3>4
  <2> QED
    BY <2>16, <2>17
<1> QED
  BY <1>4, <1>5

(* Two states of RunTiming that differ in nothing that is hashed.          *)
SameRun(a, b) ==
  /\ a.ch = b.ch /\ a.ch \in [Channels -> Channel] /\ a.moved = b.moved /\ a.moved \in Nat
  /\ a.memo \in Memos /\ b.memo \in Memos /\ Alike(space, a.memo, b.memo)

(* One channel.                                                            *)
LEMMA ChannelAlike ==
  ASSUME Mapped, NEW a, NEW b, SameRun(a, b), NEW c \in Channels, NEW timing
  PROVE  SameRun(AfterChannel(a, c, timing), AfterChannel(b, c, timing))
<1>1. CASE ~Runs(a.ch, c, timing)
  BY <1>1 DEF AfterChannel, SameRun
<1>2. CASE Runs(a.ch, c, timing)
  <2>1. PICK r : r = RunTransfer(space, a.memo, a.ch[c])
    OBVIOUS
  <2>2. PICK q : q = RunTransfer(space, b.memo, b.ch[c])
    OBVIOUS
  <2>3. a.ch[c] \in Channel /\ a.ch[c] = b.ch[c] /\ Runs(b.ch, c, timing)
    BY <1>2 DEF SameRun
  <2>4. /\ r.ch = q.ch /\ r.ch \in Channel /\ r.bytes = q.bytes /\ r.bytes \in Nat
        /\ r.memo \in Memos /\ q.memo \in Memos /\ Alike(space, r.memo, q.memo)
    BY <2>1, <2>2, <2>3, TransferAlike DEF SameRun
  <2>5. AfterChannel(a, c, timing) =
          [ch |-> [a.ch EXCEPT ![c] = r.ch], memo |-> r.memo,
           bad |-> IF r.bad = {} THEN a.bad ELSE a.bad \cup {r.bad},
           window |-> Consumed(a.window, r.bytes),
           moved |-> a.moved + r.bytes, cells |-> a.cells \cup r.cells]
    BY <1>2, <2>1 DEF AfterChannel
  <2>6. AfterChannel(b, c, timing) =
          [ch |-> [b.ch EXCEPT ![c] = q.ch], memo |-> q.memo,
           bad |-> IF q.bad = {} THEN b.bad ELSE b.bad \cup {q.bad},
           window |-> Consumed(b.window, q.bytes),
           moved |-> b.moved + q.bytes, cells |-> b.cells \cup q.cells]
    BY <2>2, <2>3 DEF AfterChannel
  <2>7. /\ [a.ch EXCEPT ![c] = r.ch] = [b.ch EXCEPT ![c] = q.ch]
        /\ [a.ch EXCEPT ![c] = r.ch] \in [Channels -> Channel]
        /\ a.moved + r.bytes = b.moved + q.bytes /\ a.moved + r.bytes \in Nat
    BY <2>4 DEF SameRun
  <2>8. PICK x : x = AfterChannel(a, c, timing)
    OBVIOUS
  <2>9. PICK y : y = AfterChannel(b, c, timing)
    OBVIOUS
  <2>10. /\ x.ch = [a.ch EXCEPT ![c] = r.ch] /\ x.memo = r.memo /\ x.moved = a.moved + r.bytes
         /\ y.ch = [b.ch EXCEPT ![c] = q.ch] /\ y.memo = q.memo /\ y.moved = b.moved + q.bytes
    BY <2>5, <2>6, <2>8, <2>9
  <2>11. SameRun(x, y)
    BY <2>4, <2>7, <2>10 DEF SameRun
  <2> QED
    BY <2>8, <2>9, <2>11
<1> QED
  BY <1>1, <1>2

(* The channels take their turns.                                          *)
LEMMA TimingTakesTurns ==
  ASSUME NEW start, NEW timing
  PROVE  \E f : /\ \A n \in 0 .. NumChannels :
                     f[n] = IF n = 0 THEN start ELSE AfterChannel(f[n - 1], n - 1, timing)
                /\ RunTiming(start, timing) = f[NumChannels]
<1> DEFINE N == NumChannels
           Turns(f, m) == f = [n \in 0 .. m |->
                                 IF n = 0 THEN start ELSE AfterChannel(f[n - 1], n - 1, timing)]
           So == {m \in 0 .. N : \E f : Turns(f, m)}
           after == CHOOSE f : Turns(f, N)
<1>1. N \in Nat
  BY DmaAssumption
<1>2. RunTiming(start, timing) = after[N]
  BY DEF RunTiming
<1>3. 0 \in So
  <2> DEFINE f == [n \in 0 .. 0 |-> start]
  <2>1. ASSUME NEW n \in 0 .. 0
        PROVE  start = IF n = 0 THEN start ELSE AfterChannel(f[n - 1], n - 1, timing)
    BY <2>1
  <2>2. Turns(f, 0)
    BY <2>1
  <2> HIDE DEF Turns
  <2> QED
    BY <1>1, <2>2
<1>4. ASSUME NEW m \in 1 .. N, m - 1 \in So PROVE m \in So
  <2>1. PICK f : Turns(f, m - 1)
    BY <1>4
  <2> DEFINE g == [n \in 0 .. m |-> IF n = m THEN AfterChannel(f[m - 1], m - 1, timing) ELSE f[n]]
  <2>2. ASSUME NEW n \in 0 .. m
        PROVE  g[n] = IF n = 0 THEN start ELSE AfterChannel(g[n - 1], n - 1, timing)
    <3>1. CASE n = m
      BY <3>1
    <3>2. CASE n # m
      <4>1. n \in 0 .. m - 1 /\ g[n] = f[n] /\ (n # 0 => n - 1 \in 0 .. m /\ n - 1 # m /\ g[n - 1] = f[n - 1])
        BY <3>2
      <4>2. f[n] = IF n = 0 THEN start ELSE AfterChannel(f[n - 1], n - 1, timing)
        BY <2>1, <4>1
      <4> HIDE DEF g
      <4> QED
        BY <4>1, <4>2
    <3> QED
      BY <3>1, <3>2
  <2>3. g = [n \in 0 .. m |-> g[n]]
    OBVIOUS
  <2> HIDE DEF g
  <2>4. Turns(g, m)
    BY <2>2, <2>3
  <2> HIDE DEF Turns
  <2> QED
    BY <1>1, <2>4
<1>5. N \in So
  <2> HIDE DEF So
  <2>1. \A n \in 0 .. N : n \in So
    BY <1>1, <1>3, <1>4, UpTo
  <2> QED
    BY <1>1, <2>1
<1>6. Turns(after, N)
  <2> HIDE DEF Turns
  <2> QED
    BY <1>5
<1> HIDE DEF after
<1>7. \A n \in 0 .. N : after[n] = IF n = 0 THEN start ELSE AfterChannel(after[n - 1], n - 1, timing)
  BY <1>6
<1> QED
  BY <1>2, <1>7

(* All the channels of a timing.                                           *)
LEMMA TimingAlike ==
  ASSUME Mapped, NEW a, NEW b, SameRun(a, b), NEW timing
  PROVE  SameRun(RunTiming(a, timing), RunTiming(b, timing))
<1>1. PICK f : /\ \A n \in 0 .. NumChannels :
                    f[n] = IF n = 0 THEN a ELSE AfterChannel(f[n - 1], n - 1, timing)
               /\ RunTiming(a, timing) = f[NumChannels]
  BY TimingTakesTurns
<1>2. PICK g : /\ \A n \in 0 .. NumChannels :
                    g[n] = IF n = 0 THEN b ELSE AfterChannel(g[n - 1], n - 1, timing)
               /\ RunTiming(b, timing) = g[NumChannels]
  BY TimingTakesTurns
<1> DEFINE So == {n \in 0 .. NumChannels : SameRun(f[n], g[n])}
<1>3. NumChannels \in Nat
  BY DmaAssumption
<1>4. 0 \in So
  BY <1>1, <1>2, <1>3
<1>5. ASSUME NEW n \in 1 .. NumChannels, n - 1 \in So PROVE n \in So
  <2>1. /\ n \in 0 .. NumChannels /\ f[n] = AfterChannel(f[n - 1], n - 1, timing)
        /\ g[n] = AfterChannel(g[n - 1], n - 1, timing)
    BY <1>1, <1>2, <1>3
  <2>2. n - 1 \in Channels
    BY <1>3 DEF Channels
  <2>3. SameRun(f[n - 1], g[n - 1])
    BY <1>5
  <2>4. SameRun(AfterChannel(f[n - 1], n - 1, timing), AfterChannel(g[n - 1], n - 1, timing))
    BY <2>2, <2>3, ChannelAlike
  <2> QED
    BY <2>1, <2>4
<1>6. NumChannels \in So
  <2> HIDE DEF So
  <2>1. \A n \in 0 .. NumChannels : n \in So
    BY <1>3, <1>4, <1>5, UpTo
  <2> QED
    BY <1>3, <2>1
<1> QED
  BY <1>1, <1>2, <1>6

(* Where no channel has work nothing is done.                              *)
LEMMA NothingRuns ==
  ASSUME NEW start, NEW timing, \A c \in Channels : ~Runs(start.ch, c, timing)
  PROVE  RunTiming(start, timing) = start
<1>1. PICK f : /\ \A n \in 0 .. NumChannels :
                    f[n] = IF n = 0 THEN start ELSE AfterChannel(f[n - 1], n - 1, timing)
               /\ RunTiming(start, timing) = f[NumChannels]
  BY TimingTakesTurns
<1> DEFINE So == {n \in 0 .. NumChannels : f[n] = start}
<1>2. NumChannels \in Nat
  BY DmaAssumption
<1>3. 0 \in So
  BY <1>1, <1>2
<1>4. ASSUME NEW n \in 1 .. NumChannels, n - 1 \in So PROVE n \in So
  <2>1. n \in 0 .. NumChannels /\ f[n] = AfterChannel(f[n - 1], n - 1, timing) /\ f[n - 1] = start
    BY <1>1, <1>2, <1>4
  <2>2. n - 1 \in Channels
    BY <1>2 DEF Channels
  <2>3. AfterChannel(start, n - 1, timing) = start
    BY <2>2 DEF AfterChannel
  <2> QED
    BY <2>1, <2>3
<1>5. NumChannels \in So
  <2> HIDE DEF So
  <2>1. \A n \in 0 .. NumChannels : n \in So
    BY <1>2, <1>3, <1>4, UpTo
  <2> QED
    BY <1>2, <2>1
<1> QED
  BY <1>1, <1>5

-----------------------------------------------------------------------------
(* What of a state the rest of a frame depends on, and its hash.           *)
Marks ==
  [at : {"handler", "game", "hook"}, ch : [Channels -> Channel], seen : [0 .. 7 -> Nat],
   copied : Nat, memo : Memos]

Here == [at |-> phase, ch |-> ch, seen |-> seen, copied |-> copied, memo |-> memo]

SameMark(s, a, b) ==
  a.at = b.at /\ a.ch = b.ch /\ a.seen = b.seen /\ a.copied = b.copied /\ Alike(s, a.memo, b.memo)

(* The choices on the tape.                                                *)
Items ==
  ({"dma"} \X Requests) \cup ({"stop"} \X Channels) \cup ({"cpu"} \X {1, 8})
    \cup {<<"wait">>} \cup ({"end"} \X Raised \X KeySets)

(* What each makes of a mark: s is the memory map, k are the masks.        *)
DispatchedBy(k, handlers, flag) ==
  IF k.ime /\ (IF flag \in {"serial", "timer3"} THEN {"serial", "timer3"} \cap k.ie # {} ELSE flag \in k.ie)
    THEN [handlers EXCEPT ![Index[flag]] = @ + 1] ELSE handlers

AfterSet(s, a, r) ==
  LET set == [a.ch EXCEPT ![r.channel] = ChannelSet(r.src, r.dest, r.control)]
      t   == RunTransfer(s, a.memo, set[r.channel])
  IN  IF r.control.enable /\ r.control.timing = "now"
        THEN [at |-> a.at, ch |-> [set EXCEPT ![r.channel] = t.ch], seen |-> a.seen,
              copied |-> a.copied + t.bytes, memo |-> t.memo]
        ELSE [at |-> a.at, ch |-> set, seen |-> a.seen, copied |-> a.copied, memo |-> a.memo]

AfterEnd(k, a, raised) ==
  [at |-> "game", ch |-> a.ch, seen |-> IF raised = "none" THEN a.seen ELSE DispatchedBy(k, a.seen, raised),
   copied |-> a.copied, memo |-> a.memo]

After(s, k, x, a) ==
  CASE x[1] = "dma"  -> AfterSet(s, a, x[2])
    [] x[1] = "stop" -> [at |-> a.at, ch |-> [a.ch EXCEPT ![x[2]] = Stopped(@)], seen |-> a.seen,
                         copied |-> a.copied, memo |-> a.memo]
    [] x[1] = "cpu"  -> [at |-> a.at, ch |-> a.ch, seen |-> a.seen, copied |-> a.copied + x[2], memo |-> a.memo]
    [] x[1] = "wait" -> [at |-> "hook", ch |-> a.ch, seen |-> a.seen, copied |-> a.copied, memo |-> a.memo]
    [] x[1] = "end"  -> AfterEnd(k, a, x[2])

(* DispatchedBy is Dispatched under the masks of the state.                 *)
LEMMA DispatchedByMask ==
  ASSUME NEW handlers, NEW flag
  PROVE  Dispatched(handlers, flag) = DispatchedBy(mask, handlers, flag)
BY DEF Dispatched, LetIn, DispatchedBy

(* A tape is told apart by the first of each item.                         *)
LEMMA ItemsAre ==
  ASSUME NEW x \in Items
  PROVE  \/ x[1] = "dma" /\ x[2] \in Requests
         \/ x[1] = "stop" /\ x[2] \in Channels
         \/ x[1] = "cpu" /\ x[2] \in {1, 8}
         \/ x[1] = "wait"
         \/ x[1] = "end" /\ x[2] \in Raised
BY DEF Items

(* What a request makes of a channel.                                      *)
LEMMA SetIsChannel ==
  ASSUME NEW r \in Requests
  PROVE  r.channel \in Channels /\ ChannelSet(r.src, r.dest, r.control) \in Channel
<1>1. r.channel \in Channels /\ r.src \in Nat /\ r.dest \in Nat /\ r.control \in Controls
  BY FrameAssumption
<1>2. CountOf(r.control.count) \in Nat
  BY <1>1, DmaAssumption DEF CountOf, Controls
<1> QED
  BY <1>1, <1>2 DEF ChannelSet, Controls, Channel

(* PortDispatchInterrupt counts one handler up.                            *)
LEMMA DispatchedByCounts ==
  ASSUME NEW k, NEW handlers \in [0 .. 7 -> Nat],
         NEW flag \in {"serial", "vblank", "hblank", "vcount", "timer3"}
  PROVE  DispatchedBy(k, handlers, flag) \in [0 .. 7 -> Nat]
<1>1. Index[flag] \in 0 .. 7
  BY DEF Index
<1> QED
  BY <1>1 DEF DispatchedBy

(* Two marks with the same fields.                                         *)
LEMMA MarksAlike ==
  ASSUME NEW at \in {"handler", "game", "hook"}, NEW c \in [Channels -> Channel],
         NEW h \in [0 .. 7 -> Nat], NEW n \in Nat, NEW m \in Memos, NEW o \in Memos,
         NEW y, NEW z,
         y = [at |-> at, ch |-> c, seen |-> h, copied |-> n, memo |-> m],
         z = [at |-> at, ch |-> c, seen |-> h, copied |-> n, memo |-> o],
         Alike(space, m, o)
  PROVE  y \in Marks /\ z \in Marks /\ SameMark(space, y, z)
BY DEF Marks, SameMark

(* From the same mark the same choice leads to the same mark.              *)
LEMMA AfterAlike ==
  ASSUME Mapped, NEW k, NEW a \in Marks, NEW b \in Marks, SameMark(space, a, b), NEW x \in Items
  PROVE  /\ After(space, k, x, a) \in Marks /\ After(space, k, x, b) \in Marks
         /\ SameMark(space, After(space, k, x, a), After(space, k, x, b))
<1>1. /\ a.at \in {"handler", "game", "hook"} /\ a.ch \in [Channels -> Channel]
      /\ a.seen \in [0 .. 7 -> Nat] /\ a.copied \in Nat /\ a.memo \in Memos /\ b.memo \in Memos
      /\ a.at = b.at /\ a.ch = b.ch /\ a.seen = b.seen /\ a.copied = b.copied /\ Alike(space, a.memo, b.memo)
  BY DEF Marks, SameMark
<1> DEFINE y == After(space, k, x, a)
           z == After(space, k, x, b)
<1>2. y = After(space, k, x, a) /\ z = After(space, k, x, b)
  OBVIOUS
<1> HIDE DEF y, z
<1>3. CASE x[1] = "dma"
  <2>1. PICK r \in Requests : r = x[2]
    BY <1>3, ItemsAre
  <2>2. After(space, k, x, a) = AfterSet(space, a, r) /\ After(space, k, x, b) = AfterSet(space, b, r)
    BY <1>3, <2>1 DEF After
  <2>3. PICK set : set = [a.ch EXCEPT ![r.channel] = ChannelSet(r.src, r.dest, r.control)]
    OBVIOUS
  <2>4. r.channel \in Channels /\ set \in [Channels -> Channel]
    BY <1>1, <2>3, SetIsChannel
  <2>5. PICK t : t = RunTransfer(space, a.memo, set[r.channel])
    OBVIOUS
  <2>6. PICK u : u = RunTransfer(space, b.memo, set[r.channel])
    OBVIOUS
  <2>7. /\ t.ch = u.ch /\ t.ch \in Channel /\ t.bytes = u.bytes /\ t.bytes \in Nat
        /\ t.memo \in Memos /\ u.memo \in Memos /\ Alike(space, t.memo, u.memo)
    <3>1. set[r.channel] \in Channel
      BY <2>4
    <3> QED
      BY <1>1, <2>5, <2>6, <3>1, TransferAlike
  <2>8. CASE r.control.enable /\ r.control.timing = "now"
    <3>1. AfterSet(space, a, r) = [at |-> a.at, ch |-> [set EXCEPT ![r.channel] = t.ch], seen |-> a.seen,
                                   copied |-> a.copied + t.bytes, memo |-> t.memo]
      BY <2>3, <2>5, <2>8 DEF AfterSet
    <3>2. AfterSet(space, b, r) = [at |-> b.at, ch |-> [set EXCEPT ![r.channel] = u.ch], seen |-> b.seen,
                                   copied |-> b.copied + u.bytes, memo |-> u.memo]
      BY <1>1, <2>3, <2>6, <2>8 DEF AfterSet
    <3>3. PICK c \in [Channels -> Channel], n \in Nat :
            c = [set EXCEPT ![r.channel] = t.ch] /\ n = a.copied + t.bytes
      <4>1. [set EXCEPT ![r.channel] = t.ch] \in [Channels -> Channel]
        BY <2>4, <2>7
      <4>2. a.copied + t.bytes \in Nat
        BY <1>1, <2>7
      <4> QED
        BY <4>1, <4>2
    <3>4. y = [at |-> a.at, ch |-> c, seen |-> a.seen, copied |-> n, memo |-> t.memo]
      BY <1>2, <2>2, <3>1, <3>3
    <3>5. z = [at |-> a.at, ch |-> c, seen |-> a.seen, copied |-> n, memo |-> u.memo]
      BY <1>1, <1>2, <2>2, <2>7, <3>2, <3>3
    <3>6. PICK at \in {"handler", "game", "hook"}, h \in [0 .. 7 -> Nat], m \in Memos, o \in Memos :
            at = a.at /\ h = a.seen /\ m = t.memo /\ o = u.memo /\ Alike(space, m, o)
      BY <1>1, <2>7
    <3>7. /\ y = [at |-> at, ch |-> c, seen |-> h, copied |-> n, memo |-> m]
          /\ z = [at |-> at, ch |-> c, seen |-> h, copied |-> n, memo |-> o]
      BY <3>4, <3>5, <3>6
    <3> QED
      BY <1>1, <1>2, <2>7, <3>6, <3>7, MarksAlike
  <2>9. CASE ~(r.control.enable /\ r.control.timing = "now")
    <3>1. AfterSet(space, a, r) = [at |-> a.at, ch |-> set, seen |-> a.seen, copied |-> a.copied, memo |-> a.memo]
      BY <2>3, <2>9 DEF AfterSet
    <3>2. AfterSet(space, b, r) = [at |-> b.at, ch |-> set, seen |-> b.seen, copied |-> b.copied, memo |-> b.memo]
      BY <1>1, <2>3, <2>9 DEF AfterSet
    <3> QED
      BY <1>1, <1>2, <2>2, <2>4, <3>1, <3>2, MarksAlike, SMTT(30)
  <2> QED
    BY <2>8, <2>9
<1>4. CASE x[1] = "stop"
  <2>1. PICK c \in Channels : c = x[2]
    BY <1>4, ItemsAre
  <2>2. /\ After(space, k, x, a) = [at |-> a.at, ch |-> [a.ch EXCEPT ![c] = Stopped(a.ch[c])], seen |-> a.seen,
                                    copied |-> a.copied, memo |-> a.memo]
        /\ After(space, k, x, b) = [at |-> b.at, ch |-> [b.ch EXCEPT ![c] = Stopped(b.ch[c])], seen |-> b.seen,
                                    copied |-> b.copied, memo |-> b.memo]
    BY <1>4, <2>1 DEF After
  <2>3. [a.ch EXCEPT ![c] = Stopped(a.ch[c])] \in [Channels -> Channel]
    <3>1. a.ch[c] \in Channel
      BY <1>1
    <3>2. Stopped(a.ch[c]) \in Channel
      BY <3>1 DEF Stopped, Channel, Timings, Ctrls
    <3> QED
      BY <1>1, <3>2
  <2> QED
    BY <1>1, <1>2, <2>2, <2>3, MarksAlike, SMTT(30)
<1>5. CASE x[1] = "cpu"
  <2>1. PICK c \in {1, 8} : c = x[2]
    BY <1>5, ItemsAre
  <2>2. /\ After(space, k, x, a) = [at |-> a.at, ch |-> a.ch, seen |-> a.seen, copied |-> a.copied + c, memo |-> a.memo]
        /\ After(space, k, x, b) = [at |-> b.at, ch |-> b.ch, seen |-> b.seen, copied |-> b.copied + c, memo |-> b.memo]
    BY <1>5, <2>1 DEF After
  <2>3. a.copied + c \in Nat
    BY <1>1
  <2> QED
    BY <1>1, <1>2, <2>2, <2>3, MarksAlike
<1>6. CASE x[1] = "wait"
  <2>2. /\ After(space, k, x, a) = [at |-> "hook", ch |-> a.ch, seen |-> a.seen, copied |-> a.copied, memo |-> a.memo]
        /\ After(space, k, x, b) = [at |-> "hook", ch |-> b.ch, seen |-> b.seen, copied |-> b.copied, memo |-> b.memo]
    BY <1>6 DEF After
  <2> QED
    BY <1>1, <1>2, <2>2, MarksAlike
<1>7. CASE x[1] = "end"
  <2>1. PICK raised \in Raised : raised = x[2]
    BY <1>7, ItemsAre
  <2>2. PICK h : h = IF raised = "none" THEN a.seen ELSE DispatchedBy(k, a.seen, raised)
    OBVIOUS
  <2>3. h \in [0 .. 7 -> Nat]
    <3>1. raised \in {"none", "serial", "timer3"}
      BY FrameAssumption
    <3> QED
      BY <1>1, <2>2, <3>1, DispatchedByCounts
  <2>4. /\ After(space, k, x, a) = [at |-> "game", ch |-> a.ch, seen |-> h, copied |-> a.copied, memo |-> a.memo]
        /\ After(space, k, x, b) = [at |-> "game", ch |-> b.ch, seen |-> h, copied |-> b.copied, memo |-> b.memo]
    BY <1>1, <1>7, <2>1, <2>2 DEF After, AfterEnd
  <2> QED
    BY <1>1, <1>2, <2>3, <2>4, MarksAlike
<1> QED
  BY <1>2, <1>3, <1>4, <1>5, <1>6, <1>7, ItemsAre

-----------------------------------------------------------------------------
(* THE TAPE                                                                *)

(* A tape leads from one mark to another, through marks that are not at    *)
(* the hook.                                                               *)
Traced(s, k, t, tr) ==
  /\ tr \in [0 .. Len(t) -> Marks]
  /\ \A i \in 1 .. Len(t) : tr[i - 1].at # "hook" /\ tr[i] = After(s, k, t[i], tr[i - 1])

Leads(s, k, t, a, b) == \E tr : Traced(s, k, t, tr) /\ tr[0] = a /\ tr[Len(t)] = b

(* The tape of nothing leads from a mark to itself.                        *)
LEMMA LeadsNowhere ==
  ASSUME NEW s, NEW k, NEW a \in Marks
  PROVE  Leads(s, k, <<>>, a, a)
<1> DEFINE tr == [i \in 0 .. 0 |-> a]
<1>1. Traced(s, k, <<>>, tr)
  BY DEF Traced
<1> QED
  BY <1>1 DEF Leads

(* What is recorded leads one mark further.                                *)
LEMMA LeadsOn ==
  ASSUME NEW s, NEW k, NEW t \in Seq(Items), NEW a, NEW b, Leads(s, k, t, a, b), b.at # "hook",
         NEW x \in Items, NEW c \in Marks, c = After(s, k, x, b)
  PROVE  Leads(s, k, Append(t, x), a, c)
<1>1. PICK tr : Traced(s, k, t, tr) /\ tr[0] = a /\ tr[Len(t)] = b
  BY DEF Leads
<1>2. PICK n \in Nat : n = Len(t)
  OBVIOUS
<1>3. Len(Append(t, x)) = n + 1 /\ Append(t, x)[n + 1] = x /\ \A i \in 1 .. n : Append(t, x)[i] = t[i]
  BY <1>2
<1> DEFINE on == [i \in 0 .. n + 1 |-> IF i = n + 1 THEN c ELSE tr[i]]
<1>4. on \in [0 .. n + 1 -> Marks]
  BY <1>1, <1>2 DEF Traced
<1>5. ASSUME NEW i \in 1 .. n + 1
      PROVE  on[i - 1].at # "hook" /\ on[i] = After(s, k, Append(t, x)[i], on[i - 1])
  <2>1. CASE i = n + 1
    BY <1>1, <1>2, <1>3, <2>1
  <2>2. CASE i # n + 1
    <3>1. i \in 1 .. n /\ on[i] = tr[i] /\ on[i - 1] = tr[i - 1]
      BY <2>2
    <3> HIDE DEF on
    <3> QED
      BY <1>1, <1>2, <1>3, <3>1 DEF Traced
  <2> QED
    BY <2>1, <2>2
<1>6. on[0] = a /\ on[n + 1] = c
  BY <1>1
<1> HIDE DEF on
<1>7. Traced(s, k, Append(t, x), on)
  BY <1>3, <1>4, <1>5 DEF Traced
<1> QED
  BY <1>3, <1>6, <1>7 DEF Leads

(* What is played leaves the rest of the tape, from the next mark on.      *)
LEMMA LeadsFromNext ==
  ASSUME NEW s, NEW k, NEW t \in Seq(Items), t # <<>>, NEW a, NEW b, Leads(s, k, t, a, b)
  PROVE  a.at # "hook" /\ Leads(s, k, Tail(t), After(s, k, Head(t), a), b)
<1>1. PICK tr : Traced(s, k, t, tr) /\ tr[0] = a /\ tr[Len(t)] = b
  BY DEF Leads
<1>2. PICK n \in Nat : Len(t) = n + 1
  <2>1. Len(t) \in Nat /\ Len(t) # 0
    OBVIOUS
  <2>2. Len(t) - 1 \in Nat /\ Len(t) = (Len(t) - 1) + 1
    BY <2>1
  <2> QED
    BY <2>2
<1>3. Len(Tail(t)) = n /\ Head(t) = t[1] /\ \A i \in 1 .. n : Tail(t)[i] = t[i + 1]
  BY <1>2
<1>4. a.at # "hook" /\ tr[1] = After(s, k, Head(t), a)
  <2>1. 1 \in 1 .. Len(t) /\ 1 - 1 = 0
    BY <1>2
  <2> QED
    BY <1>1, <1>3, <2>1 DEF Traced
<1> DEFINE on == [i \in 0 .. n |-> tr[i + 1]]
<1>5. on \in [0 .. n -> Marks]
  BY <1>1, <1>2 DEF Traced
<1>6. ASSUME NEW i \in 1 .. n
      PROVE  on[i - 1].at # "hook" /\ on[i] = After(s, k, Tail(t)[i], on[i - 1])
  <2>1. on[i - 1] = tr[i] /\ on[i] = tr[i + 1] /\ i + 1 \in 1 .. Len(t) /\ (i + 1) - 1 = i
    BY <1>2
  <2> HIDE DEF on
  <2> QED
    BY <1>1, <1>3, <2>1 DEF Traced
<1>7. on[0] = tr[1] /\ on[n] = b
  BY <1>1, <1>2
<1> HIDE DEF on
<1>8. Traced(s, k, Tail(t), on)
  BY <1>3, <1>5, <1>6 DEF Traced
<1> QED
  BY <1>3, <1>4, <1>7, <1>8 DEF Leads

(* A tape that is played to its end is at its end.                         *)
LEMMA LeadsNoFurther ==
  ASSUME NEW s, NEW k, NEW a, NEW b, Leads(s, k, <<>>, a, b)
  PROVE  a = b
BY DEF Leads

(* Both ends of a tape are marks.                                          *)
LEMMA LeadsFromMarks ==
  ASSUME NEW s, NEW k, NEW t \in Seq(Items), NEW a, NEW b, Leads(s, k, t, a, b)
  PROVE  a \in Marks /\ b \in Marks
<1>1. 0 \in 0 .. Len(t) /\ Len(t) \in 0 .. Len(t)
  OBVIOUS
<1> QED
  BY <1>1 DEF Leads, Traced

-----------------------------------------------------------------------------
(* THE INVARIANT OF THE SELF TEST                                          *)

(* What OpenVBlank makes of the channels c, the handlers h, the count n    *)
(* and the memo m.                                                         *)
AfterIn(s, st, c, timing) ==
  IF ~Runs(st.ch, c, timing) THEN st
  ELSE LET r == RunTransfer(s, st.memo, st.ch[c])
       IN  [ch |-> [st.ch EXCEPT ![c] = r.ch], memo |-> r.memo,
            bad |-> IF r.bad = {} THEN st.bad ELSE st.bad \cup {r.bad},
            window |-> Consumed(st.window, r.bytes),
            moved |-> st.moved + r.bytes, cells |-> st.cells \cup r.cells]

RunIn(s, start, timing) ==
  LET after[n \in 0 .. NumChannels] ==
        IF n = 0 THEN start ELSE AfterIn(s, after[n - 1], n - 1, timing)
  IN  after[NumChannels]

(* RunIn is RunTiming on the map of the state.                             *)
LEMMA RunInSpace ==
  ASSUME NEW start, NEW timing
  PROVE  RunTiming(start, timing) = RunIn(space, start, timing)
BY DEF RunTiming, RunIn, AfterChannel, AfterIn

Opened(s, k, c, h, n, m) ==
  LET st == RunIn(s, [ch |-> c, memo |-> m, bad |-> {}, window |-> [vblank |-> TRUE, vcount |-> 160, budget |-> WholeBudget],
                      moved |-> 0, cells |-> {}], "vblank")
  IN  [at |-> "handler", ch |-> st.ch, seen |-> DispatchedBy(k, h, "vblank"), copied |-> n + st.moved, memo |-> st.memo]

(* Before VBlank, and after it.                                            *)
Early == phase \in {"render", "line", "vblank"}
Late  == phase \in {"handler", "game", "hook"}

(* The first pass is at a mark the tape leads to; the second is at one     *)
(* from which what is left of the tape leads to the end of the first.      *)
FromSnap(t, b) ==
  \E m \in Memos : \E a :
    /\ Truthful(space, m) /\ SameMark(space, a, Opened(space, mask, snap.ch, snap.seen, snap.copied, m))
    /\ Leads(space, mask, t, a, b)

IsEnd(b) == b.at = "hook" /\ end = [seen |-> b.seen, copied |-> b.copied]

Replayed ==
  /\ Truthful(space, memo)
  /\ Early => ch = snap.ch /\ seen = snap.seen /\ copied = snap.copied
  /\ test = "first" /\ Early => tape = <<>>
  /\ test = "first" /\ Late => FromSnap(tape, Here)
  /\ test = "second" /\ Early => \E b : FromSnap(tape, b) /\ IsEnd(b)
  /\ test = "second" /\ Late =>
       \E a, b : SameMark(space, a, Here) /\ Leads(space, mask, tape, a, b) /\ IsEnd(b)

Testing ==
  /\ Early \/ Late
  /\ snap \in Snapshots /\ snap.frame = TestAt /\ snap.mask = mask
  /\ frame = IF phase \in {"game", "hook"} THEN TestAt + 1 ELSE TestAt
  /\ tape \in Seq(Items)
  /\ excused = {} => Replayed

TestInv ==
  /\ RerunIsTheSame
  /\ test \in {"first", "second"} => Testing

-----------------------------------------------------------------------------
(* THE INVARIANT OF THE SELF TEST IS KEPT                                  *)

(* Marks that are the same as a third are the same as each other.          *)
LEMMA AlikeOnward ==
  ASSUME NEW s, NEW a, NEW b, NEW c, SameMark(s, a, b), SameMark(s, c, b)
  PROVE  SameMark(s, c, a) /\ SameMark(s, b, a) /\ SameMark(s, a, a)
BY DEF SameMark, Alike

(* StaleMemo records a memo that is not truthful.                          *)
LEMMA StaleIsUntrue ==
  ASSUME NEW m
  PROVE  StaleMemo(m) = {} <=> Truthful(space, m)
BY DEF StaleMemo, Truthful

(* Where the port is after VBlank is a mark.                               *)
LEMMA HereIsMark ==
  ASSUME FrameInv, Late
  PROVE  Here \in Marks
<1>1. TypeOK
  BY DEF FrameInv
<1>2. memo \in Memos
  BY <1>1 DEF TypeOK, Memos
<1> QED
  BY <1>1, <1>2, SimFields DEF Here, Marks, Late

(* While no test runs there is nothing to keep.                            *)
LEMMA NotTesting ==
  ASSUME TestInv, test \notin {"first", "second"}, test' = test, excused \subseteq excused'
  PROVE  TestInv'
BY DEF TestInv, RerunIsTheSame

(* A step before VBlank that does nothing that is hashed.                  *)
LEMMA TestEarlyStep ==
  ASSUME TestInv, Early, Early', UNCHANGED <<space, mask, test, snap, end, tape, frame>>,
         excused \subseteq excused', excused' = {} => UNCHANGED <<ch, seen, copied, memo>>
  PROVE  TestInv'
<1>1. CASE test \notin {"first", "second"}
  BY <1>1, NotTesting
<1>2. CASE test \in {"first", "second"}
  <2>1. Testing
    BY <1>2 DEF TestInv
  <2>2. ~Late /\ ~Late' /\ phase' \notin {"game", "hook"} /\ phase \notin {"game", "hook"}
    BY DEF Early, Late
  <2>3. ASSUME excused' = {} PROVE Replayed'
    <3>1. Replayed /\ UNCHANGED <<ch, seen, copied, memo>>
      BY <2>1, <2>3 DEF Testing
    <3>2. \A t, b : FromSnap(t, b)' <=> FromSnap(t, b)
      BY DEF FromSnap
    <3>3. \A b : IsEnd(b)' <=> IsEnd(b)
      BY DEF IsEnd
    <3> QED
      BY <2>2, <3>1, <3>2, <3>3 DEF Replayed
  <2>4. Testing'
    BY <2>1, <2>2, <2>3 DEF Testing
  <2> QED
    BY <1>2, <2>4 DEF TestInv, RerunIsTheSame
<1> QED
  BY <1>1, <1>2

(* VBlank opens.                                                           *)
LEMMA OpenVBlankMark ==
  ASSUME FrameInv, OpenVBlank, NEW m \in Memos, Alike(space, memo, m), Here' \in Marks
  PROVE  SameMark(space, Here', Opened(space, mask, ch, seen, copied, m))
<1> DEFINE open == [vblank |-> TRUE, vcount |-> 160, budget |-> WholeBudget]
           other == [ch |-> ch, memo |-> m, bad |-> {}, window |-> open, moved |-> 0, cells |-> {}]
<1>1. /\ Ran(RunTiming(Start(open), "vblank"), 0, {}) /\ seen' = Dispatched(seen, "vblank")
      /\ phase = "vblank" /\ phase' = "handler"
  BY DEF OpenVBlank
<1>2. TypeOK /\ Mapped
  BY <1>1, InvMapped DEF FrameInv
<1>3. Start(open) = [ch |-> ch, memo |-> memo, bad |-> bad, window |-> open, moved |-> 0, cells |-> {}]
  BY DEF Start
<1> HIDE DEF open
<1>4. /\ Start(open).ch = ch /\ Start(open).memo = memo /\ Start(open).moved = 0
      /\ other.ch = ch /\ other.memo = m /\ other.moved = 0
  BY <1>3
<1>5. memo \in Memos /\ ch \in [Channels -> Channel]
  BY <1>2, SimFields DEF TypeOK, Memos
<1> HIDE DEF other
<1>6. SameRun(Start(open), other)
  BY <1>4, <1>5 DEF SameRun
<1>7. PICK a : a = RunTiming(Start(open), "vblank")
  OBVIOUS
<1>8. PICK b : b = RunTiming(other, "vblank")
  OBVIOUS
<1>9. SameRun(a, b)
  BY <1>2, <1>6, <1>7, <1>8, TimingAlike
<1>10. ch' = a.ch /\ memo' = a.memo /\ copied' = copied + a.moved
  BY <1>1, <1>7 DEF Ran
<1>11. b = RunIn(space, other, "vblank")
  BY <1>8, RunInSpace
<1>12. Opened(space, mask, ch, seen, copied, m) =
         [at |-> "handler", ch |-> b.ch, seen |-> DispatchedBy(mask, seen, "vblank"),
          copied |-> copied + b.moved, memo |-> b.memo]
  BY <1>11 DEF Opened, other, open
<1>13. seen' = DispatchedBy(mask, seen, "vblank")
  BY <1>1, DispatchedByMask
<1>14. Here' = [at |-> "handler", ch |-> a.ch, seen |-> DispatchedBy(mask, seen, "vblank"),
                copied |-> copied + a.moved, memo |-> a.memo]
  BY <1>1, <1>10, <1>13 DEF Here
<1> QED
  BY <1>9, <1>12, <1>14 DEF SameMark, SameRun

(* The first pass starts its tape there, and the second comes to it again. *)
LEMMA TestOpenVBlank ==
  ASSUME FrameInv, FrameInv', TestInv, OpenVBlank
  PROVE  TestInv'
<1>1. /\ UNCHANGED <<space, mask, test, snap, end, tape, frame>> /\ phase = "vblank" /\ phase' = "handler"
      /\ excused \subseteq excused' /\ (excused' = {} => Truthful(space, memo'))
  <2>1. excused' = excused \cup {} \cup StaleMemo(memo')
    BY DEF OpenVBlank, Ran
  <2> QED
    BY <2>1, StaleIsUntrue DEF OpenVBlank, testVars
<1>2. CASE test \notin {"first", "second"}
  BY <1>1, <1>2, NotTesting
<1>3. CASE test \in {"first", "second"}
  <2>1. Testing
    BY <1>3 DEF TestInv
  <2>2. Early /\ ~Late /\ Late' /\ ~Early'
    BY <1>1 DEF Early, Late
  <2>3. ASSUME excused' = {} PROVE Replayed'
    <3>1. Replayed /\ Truthful(space, memo')
      BY <1>1, <2>1, <2>3 DEF Testing
    <3>2. Truthful(space, memo) /\ ch = snap.ch /\ seen = snap.seen /\ copied = snap.copied
      BY <2>2, <3>1 DEF Replayed
    <3>3. Here' \in Marks /\ memo \in Memos
      <4>1. (FrameInv /\ Late => Here \in Marks)'
        BY HereIsMark, PTL
      <4>2. memo \in Memos
        BY DEF FrameInv, TypeOK, Memos
      <4> QED
        BY <2>2, <4>1, <4>2
    <3>4. Truthful(space, memo)'
      BY <1>1, <3>1
    <3>5. CASE test = "first"
      <4>1. tape = <<>>
        BY <2>2, <3>1, <3>5 DEF Replayed
      <4>2. SameMark(space, Here', Opened(space, mask, snap.ch, snap.seen, snap.copied, memo))
        BY <3>2, <3>3, OpenVBlankMark DEF Alike
      <4>3. Leads(space, mask, tape, Here', Here')
        BY <3>3, <4>1, LeadsNowhere
      <4>4. FromSnap(tape, Here)'
        BY <1>1, <3>2, <3>3, <4>2, <4>3 DEF FromSnap
      <4> QED
        BY <1>1, <2>2, <3>4, <3>5, <4>4 DEF Replayed
    <3>6. CASE test = "second"
      <4>1. PICK b : FromSnap(tape, b) /\ IsEnd(b)
        BY <2>2, <3>1, <3>6 DEF Replayed
      <4>2. PICK m, a :
              /\ m \in Memos
              /\ Truthful(space, m) /\ SameMark(space, a, Opened(space, mask, snap.ch, snap.seen, snap.copied, m))
              /\ Leads(space, mask, tape, a, b)
        BY <4>1 DEF FromSnap
      <4>3. SameMark(space, Here', Opened(space, mask, snap.ch, snap.seen, snap.copied, m))
        BY <3>2, <3>3, <4>2, OpenVBlankMark DEF Alike
      <4>4. SameMark(space, a, Here')
        BY <4>2, <4>3, AlikeOnward
      <4>5. IsEnd(b)'
        BY <1>1, <4>1 DEF IsEnd
      <4> QED
        BY <1>1, <2>2, <3>4, <3>6, <4>2, <4>4, <4>5 DEF Replayed
    <3> QED
      BY <1>3, <3>5, <3>6
  <2>4. Testing'
    BY <1>1, <2>1, <2>2, <2>3 DEF Testing
  <2> QED
    BY <1>1, <1>3, <2>4 DEF TestInv, RerunIsTheSame
<1> QED
  BY <1>2, <1>3

(* A choice of the game is made and recorded, or made again.               *)
LEMMA TestGameStep ==
  ASSUME FrameInv, TestInv, phase \in {"game", "handler"}, phase' \in {"game", "handler", "hook"},
         NEW x \in Items, Chosen(x), Here' = After(space, mask, x, Here),
         UNCHANGED <<space, mask, test, snap, end>>,
         frame' = (IF phase = "handler" /\ phase' = "game" THEN frame + 1 ELSE frame),
         phase = "game" => phase' # "handler", phase = "handler" => phase' # "hook",
         excused \subseteq excused', excused' = {} /\ Truthful(space, memo) => Truthful(space, memo')
  PROVE  TestInv'
<1>1. CASE test \notin {"first", "second"}
  BY <1>1, NotTesting
<1>2. CASE test \in {"first", "second"}
  <2>1. Testing
    BY <1>2 DEF TestInv
  <2>2. ~Early /\ Late /\ ~Early' /\ Late'
    BY DEF Early, Late
  <2>3. Mapped /\ Here \in Marks /\ Here.at # "hook"
    <3>1. Mapped
      BY InvMapped
    <3>2. Here.at = phase
      BY DEF Here
    <3> QED
      BY <2>2, <3>1, <3>2, HereIsMark
  <2>4. tape' \in Seq(Items)
    <3>1. tape \in Seq(Items)
      BY <2>1 DEF Testing
    <3>2. CASE test = "first"
      BY <3>1, <3>2 DEF Chosen
    <3>3. CASE test = "second"
      BY <3>1, <3>3 DEF Chosen
    <3> QED
      BY <1>2, <3>2, <3>3
  <2>5. ASSUME excused' = {} PROVE Replayed'
    <3>1. Replayed /\ tape \in Seq(Items)
      BY <2>1, <2>5 DEF Testing
    <3>2. Truthful(space, memo)'
      BY <2>5, <3>1 DEF Replayed
    <3>3. CASE test = "first"
      <4>1. tape' = Append(tape, x)
        BY <3>3 DEF Chosen
      <4>2. PICK m, a :
              /\ m \in Memos
              /\ Truthful(space, m) /\ SameMark(space, a, Opened(space, mask, snap.ch, snap.seen, snap.copied, m))
              /\ Leads(space, mask, tape, a, Here)
        BY <2>2, <3>1, <3>3 DEF Replayed, FromSnap
      <4>3. Here' \in Marks
        <5>1. SameMark(space, Here, Here)
          BY DEF SameMark, Alike
        <5> QED
          BY <2>3, <5>1, AfterAlike
      <4>4. Leads(space, mask, tape', a, Here')
        BY <2>3, <3>1, <4>1, <4>2, <4>3, LeadsOn
      <4>5. FromSnap(tape, Here)'
        BY <4>2, <4>4 DEF FromSnap
      <4> QED
        BY <2>2, <3>2, <3>3, <4>5 DEF Replayed
    <3>4. CASE test = "second"
      <4>1. tape # <<>> /\ x = Head(tape) /\ tape' = Tail(tape)
        BY <3>4 DEF Chosen
      <4>2. PICK a, b : SameMark(space, a, Here) /\ Leads(space, mask, tape, a, b) /\ IsEnd(b)
        BY <2>2, <3>1, <3>4 DEF Replayed
      <4>3. Leads(space, mask, tape', After(space, mask, x, a), b)
        BY <3>1, <4>1, <4>2, LeadsFromNext
      <4>4. a \in Marks
        BY <3>1, <4>2, LeadsFromMarks
      <4>5. SameMark(space, After(space, mask, x, a), Here')
        BY <2>3, <4>2, <4>4, AfterAlike
      <4>6. IsEnd(b)'
        BY <4>2 DEF IsEnd
      <4> QED
        BY <2>2, <3>2, <3>4, <4>3, <4>5, <4>6 DEF Replayed
    <3> QED
      BY <1>2, <3>3, <3>4
  <2>6. frame' = IF phase' \in {"game", "hook"} THEN TestAt + 1 ELSE TestAt
    <3>1. frame = IF phase \in {"game", "hook"} THEN TestAt + 1 ELSE TestAt
      BY <2>1 DEF Testing
    <3> QED
      BY <3>1
  <2>7. Testing'
    BY <2>1, <2>2, <2>4, <2>5, <2>6 DEF Testing
  <2> QED
    BY <1>2, <2>7 DEF TestInv, RerunIsTheSame
<1> QED
  BY <1>1, <1>2

-----------------------------------------------------------------------------
(* PortDmaSet makes of the mark what its item does.                        *)
LEMMA TestDmaSet ==
  ASSUME FrameInv, TestInv, NEW r \in Requests, PortDmaSet(r)
  PROVE  TestInv'
<1> DEFINE x == <<"dma", r>>
           set == [ch EXCEPT ![r.channel] = ChannelSet(r.src, r.dest, r.control)]
           now == r.control.enable /\ r.control.timing = "now"
           st == [Start(Window) EXCEPT !.ch = set]
           end1 == IF now THEN AfterChannel(st, r.channel, "now") ELSE st
<1>1. /\ phase \in {"game", "handler"} /\ Chosen(x) /\ Ran(end1, moved, {})
      /\ UNCHANGED <<phase, space, mask, test, snap, end, frame, seen>>
  BY DEF PortDmaSet, GameRuns
<1>2. x \in Items
  BY DEF Items
<1>3. x[1] = "dma" /\ x[2] = r
  OBVIOUS
<1>4. TypeOK
  BY DEF FrameInv
<1>5. ch \in [Channels -> Channel] /\ copied \in Nat
  BY <1>4, SimFields
<1>6. r.channel \in Channels /\ ChannelSet(r.src, r.dest, r.control) \in Channel
  BY SetIsChannel
<1>7. set[r.channel] = ChannelSet(r.src, r.dest, r.control)
  BY <1>5, <1>6
<1>8. Runs(set, r.channel, "now") <=> now
  BY <1>7 DEF Runs, ChannelSet
<1>9. st = [ch |-> set, memo |-> memo, bad |-> bad, window |-> Window, moved |-> 0, cells |-> {}]
  BY DEF Start
<1>10. Here = [at |-> phase, ch |-> ch, seen |-> seen, copied |-> copied, memo |-> memo]
  BY DEF Here
<1>11. PICK q : q = set
  OBVIOUS
<1>12. PICK t : t = RunTransfer(space, memo, q[r.channel])
  OBVIOUS
<1>13. Here' = After(space, mask, x, Here)
  <2>1. After(space, mask, x, Here) = AfterSet(space, Here, r)
    BY <1>3 DEF After
  <2>2. Here' = [at |-> phase, ch |-> ch', seen |-> seen, copied |-> copied', memo |-> memo']
    BY <1>1 DEF Here
  <2>3. [Here.ch EXCEPT ![r.channel] = ChannelSet(r.src, r.dest, r.control)] = q /\ Here.memo = memo
        /\ Here.at = phase /\ Here.seen = seen /\ Here.copied = copied
    BY <1>10, <1>11
  <2>4. CASE now
    <3>1. AfterSet(space, Here, r) = [at |-> phase, ch |-> [q EXCEPT ![r.channel] = t.ch], seen |-> seen,
                                      copied |-> copied + t.bytes, memo |-> t.memo]
      BY <1>12, <2>3, <2>4 DEF AfterSet
    <3>2. st.ch = q /\ st.memo = memo /\ st.moved = 0
      BY <1>9, <1>11
    <3>3. t.bytes \in Int
      <4>1. memo \in Memos
        BY <1>4 DEF TypeOK, Memos
      <4>2. q[r.channel] \in Channel
        BY <1>6, <1>7, <1>11
      <4> QED
        BY <1>1, <1>12, <4>1, <4>2, InvMapped, TransferAlike DEF Alike
    <3>4. PICK c, b, w, n, l :
            /\ end1 = [ch |-> c, memo |-> t.memo, bad |-> b, window |-> w, moved |-> n, cells |-> l]
            /\ c = [q EXCEPT ![r.channel] = t.ch] /\ n = 0 + t.bytes
      <4>1. end1 = AfterChannel(st, r.channel, "now")
        BY <2>4
      <4> HIDE DEF end1, st
      <4>2. Runs(st.ch, r.channel, "now")
        BY <1>8, <1>11, <2>4, <3>2
      <4>3. end1 = [ch |-> [q EXCEPT ![r.channel] = t.ch], memo |-> t.memo,
                    bad |-> IF t.bad = {} THEN st.bad ELSE st.bad \cup {t.bad},
                    window |-> Consumed(st.window, t.bytes),
                    moved |-> 0 + t.bytes, cells |-> st.cells \cup t.cells]
        BY <1>12, <3>2, <4>1, <4>2 DEF AfterChannel
      <4> QED
        BY <4>3
    <3> HIDE DEF end1
    <3>5. end1.ch = [q EXCEPT ![r.channel] = t.ch] /\ end1.memo = t.memo /\ end1.moved = t.bytes
      BY <3>3, <3>4
    <3>6. ch' = [q EXCEPT ![r.channel] = t.ch] /\ memo' = t.memo /\ copied' = copied + t.bytes
      BY <1>1, <3>5 DEF Ran
    <3> QED
      BY <2>1, <2>2, <3>1, <3>6
  <2>5. CASE ~now
    <3>1. AfterSet(space, Here, r) = [at |-> phase, ch |-> q, seen |-> seen, copied |-> copied, memo |-> memo]
      BY <2>3, <2>5 DEF AfterSet
    <3>2. end1.ch = q /\ end1.memo = memo /\ end1.moved = 0
      BY <1>9, <1>11, <2>5
    <3> HIDE DEF end1
    <3>3. ch' = q /\ memo' = memo /\ copied' = copied
      BY <1>1, <1>5, <3>2 DEF Ran
    <3> QED
      BY <2>1, <2>2, <3>1, <3>3
  <2> QED
    BY <2>4, <2>5
<1>14. excused \subseteq excused' /\ (excused' = {} => Truthful(space, memo'))
  <2> HIDE DEF end1
  <2>1. excused' = excused \cup {} \cup StaleMemo(memo')
    BY <1>1 DEF Ran
  <2> QED
    BY <2>1, StaleIsUntrue
<1> HIDE DEF x, end1
<1> QED
  BY <1>1, <1>2, <1>13, <1>14, TestGameStep

(* PortDmaStop makes of the mark what its item does.                       *)
LEMMA TestDmaStop ==
  ASSUME FrameInv, TestInv, NEW c \in Channels, PortDmaStop(c)
  PROVE  TestInv'
<1> DEFINE x == <<"stop", c>>
<1>1. /\ phase \in {"game", "handler"} /\ Chosen(x)
      /\ ch' = [ch EXCEPT ![c] = Stopped(@)]
      /\ UNCHANGED <<phase, space, mask, test, snap, end, frame, seen, copied, memo, excused>>
  BY DEF PortDmaStop, GameRuns, memVars
<1>2. x \in Items
  BY DEF Items
<1>3. x[1] = "stop" /\ x[2] = c
  OBVIOUS
<1>4. Here' = After(space, mask, x, Here)
  BY <1>1, <1>3 DEF After, Here
<1> HIDE DEF x
<1> QED
  BY <1>1, <1>2, <1>4, TestGameStep

(* CpuSet makes of the mark what its item does.                            *)
LEMMA TestCpuSet ==
  ASSUME FrameInv, TestInv, NEW n \in {1, 8}, CpuSet(n)
  PROVE  TestInv'
<1> DEFINE x == <<"cpu", n>>
<1>1. /\ phase \in {"game", "handler"} /\ Chosen(x) /\ copied' = copied + n
      /\ UNCHANGED <<phase, space, mask, test, snap, end, frame, seen, ch, memo, excused>>
  BY DEF CpuSet, GameRuns, memVars
<1>2. x \in Items
  BY DEF Items
<1>3. x[1] = "cpu" /\ x[2] = n
  OBVIOUS
<1>4. Here' = After(space, mask, x, Here)
  BY <1>1, <1>3 DEF After, Here
<1> HIDE DEF x
<1> QED
  BY <1>1, <1>2, <1>4, TestGameStep

(* SoundMain and the wait make of the mark what their item does.           *)
LEMMA TestSoundMain ==
  ASSUME FrameInv, TestInv, SoundMain
  PROVE  TestInv'
<1> DEFINE x == <<"wait">>
<1>1. /\ phase = "game" /\ Chosen(x) /\ phase' = "hook"
      /\ UNCHANGED <<space, mask, test, snap, end, frame, seen, ch, copied, memo, excused>>
  BY DEF SoundMain, memVars
<1>2. x \in Items
  BY DEF Items
<1>3. x[1] = "wait"
  OBVIOUS
<1>4. Here' = After(space, mask, x, Here)
  BY <1>1, <1>3 DEF After, Here
<1> HIDE DEF x
<1> QED
  BY <1>1, <1>2, <1>4, TestGameStep

(* The end of the frame makes of the mark what its item does.              *)
LEMMA TestEndFrame ==
  ASSUME FrameInv, TestInv, NEW raised \in Raised, NEW k \in KeySets, EndFrame(raised, k)
  PROVE  TestInv'
<1> DEFINE x == <<"end", raised, k>>
<1>1. /\ phase = "handler" /\ Chosen(x) /\ phase' = "game" /\ frame' = frame + 1
      /\ seen' = IF raised = "none" THEN seen ELSE Dispatched(seen, raised)
      /\ UNCHANGED <<space, mask, test, snap, end, ch, copied, memo, excused>>
  BY DEF EndFrame, memVars
<1>2. x \in Items
  BY DEF Items
<1>3. x[1] = "end" /\ x[2] = raised
  OBVIOUS
<1>4. seen' = IF raised = "none" THEN seen ELSE DispatchedBy(mask, seen, raised)
  BY <1>1, DispatchedByMask
<1>5. Here' = After(space, mask, x, Here)
  BY <1>1, <1>3, <1>4 DEF After, AfterEnd, Here
<1> HIDE DEF x
<1> QED
  BY <1>1, <1>2, <1>5, TestGameStep

(* A line that is drawn: with no work it leaves the console as it was.     *)
LEMMA TestScanline ==
  ASSUME FrameInv, TestInv, Scanline
  PROVE  TestInv'
<1> DEFINE st == RunTiming(Start(VBlankOver), "hblank")
           h == IF mask.hblankIntr THEN Dispatched(seen, "hblank") ELSE seen
           v == IF mask.vcountIntr /\ mask.vcountLine = line THEN Dispatched(h, "vcount") ELSE h
           work == v # seen \/ \E c \in Channels : Runs(ch, c, "hblank")
<1>1. /\ phase = "line" /\ Ran(st, moved, IF work THEN {"line"} ELSE {}) /\ seen' = v
      /\ UNCHANGED <<phase, space, frame, mask, testVars>>
  BY DEF Scanline
<1> HIDE DEF st, v
<1>2. excused \subseteq excused' /\ (excused' = {} => ~work)
  BY <1>1 DEF Ran
<1>3. ASSUME excused' = {} PROVE UNCHANGED <<ch, seen, copied, memo>>
  <2>1. v = seen /\ \A c \in Channels : ~Runs(ch, c, "hblank")
    BY <1>2, <1>3
  <2>2. Start(VBlankOver).ch = ch /\ Start(VBlankOver).memo = memo /\ Start(VBlankOver).moved = 0
    BY DEF Start
  <2>3. st = Start(VBlankOver)
    BY <2>1, <2>2, NothingRuns DEF st
  <2>4. copied \in Nat
    BY SimFields DEF FrameInv
  <2> QED
    BY <1>1, <2>1, <2>2, <2>3, <2>4 DEF Ran
<1>4. Early /\ Early' /\ UNCHANGED <<space, mask, test, snap, end, tape, frame>>
  BY <1>1 DEF Early, testVars
<1> QED
  BY <1>2, <1>3, <1>4, TestEarlyStep

(* The first arrival at the hook: the snapshot is taken.                   *)
LEMMA TestSnapshotStep ==
  ASSUME FrameInv, TestInv, phase = "hook", TestSnapshot
  PROVE  TestInv'
<1>1. /\ frame = TestAt /\ test' = "first" /\ snap' = Snapshot /\ tape' = <<>>
      /\ excused' = StaleMemo(memo) /\ phase' = "render"
      /\ UNCHANGED <<space, memo, ch, seen, copied, frame, mask>>
  BY DEF TestSnapshot, Presenting, memVars, simVars
<1>2. Early' /\ ~Late'
  BY <1>1 DEF Early, Late
<1>3. /\ Snapshot.ch = ch /\ Snapshot.seen = seen /\ Snapshot.copied = copied
      /\ Snapshot.frame = frame /\ Snapshot.mask = mask
  BY DEF Snapshot
<1>4. Snapshot \in Snapshots
  BY DEF FrameInv, TypeOK
<1>5. excused' = {} => Replayed'
  <2>1. excused' = {} => Truthful(space, memo)
    BY <1>1, StaleIsUntrue
  <2> QED
    BY <1>1, <1>2, <1>3, <2>1 DEF Replayed
<1>6. Testing'
  BY <1>1, <1>2, <1>3, <1>4, <1>5 DEF Testing
<1> QED
  BY <1>1, <1>6 DEF TestInv, RerunIsTheSame

(* The second: what has been played is the tape's, and is gone back over.  *)
LEMMA TestRestoreStep ==
  ASSUME FrameInv, TestInv, phase = "hook", TestRestore
  PROVE  TestInv'
<1>1. /\ test = "first" /\ test' = "second" /\ end' = Hash /\ phase' = "render"
      /\ ch' = snap.ch /\ frame' = snap.frame /\ mask' = snap.mask /\ seen' = snap.seen
      /\ copied' = snap.copied /\ UNCHANGED <<space, memo, snap, tape, excused>>
  BY DEF TestRestore, ChannelsLoaded, Presenting, memVars
<1>2. Early' /\ ~Late' /\ Late
  BY <1>1 DEF Early, Late
<1>3. Testing
  BY <1>1 DEF TestInv
<1>4. ASSUME excused' = {} PROVE Replayed'
  <2>1. Replayed
    BY <1>1, <1>3, <1>4 DEF Testing
  <2>2. PICK b : b = Here /\ FromSnap(tape, b)
    BY <1>1, <1>2, <2>1 DEF Replayed
  <2>3. FromSnap(tape, b)'
    <3>1. mask' = mask
      BY <1>1, <1>3 DEF Testing
    <3> QED
      BY <1>1, <2>2, <3>1 DEF FromSnap
  <2>4. IsEnd(b)'
    BY <1>1, <2>2 DEF IsEnd, Here, Hash
  <2> QED
    BY <1>1, <1>2, <2>1, <2>3, <2>4 DEF Replayed, Truthful
<1>5. Testing'
  BY <1>1, <1>2, <1>3, <1>4 DEF Testing
<1> QED
  BY <1>1, <1>5 DEF TestInv, RerunIsTheSame

(* The third: all of the tape is played, and this is the same mark.        *)
LEMMA TestVerdictStep ==
  ASSUME FrameInv, TestInv, phase = "hook", TestVerdict
  PROVE  TestInv'
<1>1. test = "second" /\ test' = (IF Hash = end THEN "passed" ELSE "failed") /\ excused' = excused
  BY DEF TestVerdict
<1>2. ASSUME excused = {} PROVE Hash = end
  <2>1. Replayed /\ tape \in Seq(Items)
    BY <1>1, <1>2 DEF TestInv, Testing
  <2>2. PICK a, b : SameMark(space, a, Here) /\ Leads(space, mask, tape, a, b) /\ IsEnd(b)
    BY <1>1, <2>1 DEF Replayed, Late
  <2>3. a.at = "hook" /\ a.seen = seen /\ a.copied = copied
    BY <2>2 DEF SameMark, Here
  <2>4. tape = <<>>
    BY <2>1, <2>2, <2>3, LeadsFromNext
  <2>5. a = b
    BY <2>2, <2>4, LeadsNoFurther
  <2> QED
    BY <2>2, <2>3, <2>5 DEF IsEnd, Hash
<1> QED
  BY <1>1, <1>2 DEF TestInv, RerunIsTheSame

(* Before the first frame no test runs.                                    *)
LEMMA TestInvInit ==
  ASSUME Init
  PROVE  TestInv
BY DEF Init, TestInv, RerunIsTheSame

(* Every step keeps the invariant of the self test.                        *)
LEMMA TestInvNext ==
  ASSUME FrameInv, FrameInv', TestInv, [Next]_vars
  PROVE  TestInv'
<1>1. CASE ReserveSpan \/ AgbMain
  <2>1. phase = "reserve" /\ UNCHANGED <<test, excused>>
    BY <1>1 DEF ReserveSpan, AgbMain, testVars
  <2>2. test \notin {"first", "second"}
    BY <2>1 DEF TestInv, Testing, Early, Late
  <2> QED
    BY <2>1, <2>2, NotTesting
<1>2. CASE \E r \in Requests : PortDmaSet(r)
  BY <1>2, TestDmaSet
<1>3. CASE \E c \in Channels : PortDmaStop(c)
  BY <1>3, TestDmaStop
<1>4. CASE \E n \in {1, 8} : CpuSet(n)
  BY <1>4, TestCpuSet
<1>5. CASE SoundMain
  BY <1>5, TestSoundMain
<1>6. CASE PortRbSelfTestStep
  <2>1. CASE TestSnapshot
    BY <1>6, <2>1, TestSnapshotStep DEF PortRbSelfTestStep
  <2>2. CASE TestRestore
    BY <1>6, <2>2, TestRestoreStep DEF PortRbSelfTestStep
  <2>3. CASE TestVerdict
    BY <1>6, <2>3, TestVerdictStep DEF PortRbSelfTestStep
  <2>4. CASE NoTestStep
    <3>1. phase = "hook" /\ ~(test \in {"first", "second"} /\ frame = TestAt + 1)
          /\ UNCHANGED <<test, excused>>
      BY <1>6, <2>4 DEF PortRbSelfTestStep, NoTestStep, testVars
    <3>2. test \notin {"first", "second"}
      BY <3>1 DEF TestInv, Testing
    <3> QED
      BY <3>1, <3>2, NotTesting
  <2> QED
    BY <1>6, <2>1, <2>2, <2>3, <2>4 DEF PortRbSelfTestStep
<1>7. CASE PortRenderFrame \/ LinesDone
  <2>1. /\ Early /\ Early' /\ UNCHANGED <<space, mask, test, snap, end, tape, frame, excused>>
        /\ UNCHANGED <<ch, seen, copied, memo>>
    BY <1>7 DEF PortRenderFrame, LinesDone, Early, memVars, simVars, testVars
  <2> QED
    BY <2>1, TestEarlyStep
<1>8. CASE Scanline
  BY <1>8, TestScanline
<1>9. CASE OpenVBlank
  BY <1>9, TestOpenVBlank
<1>10. CASE \E raised \in Raised, k \in KeySets : EndFrame(raised, k)
  BY <1>10, TestEndFrame
<1>11. CASE UNCHANGED vars
  <2>1. UNCHANGED <<phase, space, mask, test, snap, end, tape, frame, excused, ch, seen, copied, memo>>
    BY <1>11 DEF vars, memVars, simVars, testVars
  <2> QED
    BY <2>1 DEF TestInv, RerunIsTheSame, Testing, Replayed, FromSnap, IsEnd, Early, Late, Here
<1> QED
  BY <1>1, <1>2, <1>3, <1>4, <1>5, <1>6, <1>7, <1>8, <1>9, <1>10, <1>11 DEF Next, AtBound

(* The self test fails of no frame in which the lines had no work and the  *)
(* memo was right: what it calls lost is lost by one of the two.           *)
THEOREM RerunIsTheSameFrame == Spec => []RerunIsTheSame
<1>1. Init => TestInv
  BY TestInvInit
<1>2. FrameInv /\ FrameInv' /\ TestInv /\ [Next]_vars => TestInv'
  BY TestInvNext
<1>3. TestInv => RerunIsTheSame
  BY DEF TestInv
<1> QED
  BY <1>1, <1>2, <1>3, InvAlways, PTL DEF Spec
=============================================================================
