----------------------------- MODULE RbLogProofs ----------------------------
(***************************************************************************)
(* Proofs about RbLog.tla: the loops over the events end where their       *)
(* closed forms say, and a late joiner plays what the host played.         *)
(***************************************************************************)
EXTENDS RbLog, NaturalsInduction, WellFoundedInduction, SequenceTheorems, TLAPS
-----------------------------------------------------------------------------
(* COUNTING UP                                                             *)

(* A set of numbers that is not empty has a least.                         *)
LEMMA LeastOf ==
  ASSUME NEW S \in SUBSET Nat, S # {}
  PROVE  \E q \in S : \A j \in S : q <= j
<1>1. PICK q \in S : \A j \in S : <<j, q>> \notin OpToRel(<, Nat)
  BY NatLessThanWellFounded, WFMin
<1>2. ASSUME NEW j \in S PROVE q <= j
  <2>1. <<j, q>> \notin {ss \in Nat \X Nat : ss[1] < ss[2]}
    BY <1>1 DEF OpToRel
  <2>2. j \in Nat /\ q \in Nat
    OBVIOUS
  <2> QED
    BY <2>1, <2>2
<1> QED
  BY <1>2

(* What holds at 0 and goes from one to the next holds up to N.            *)
LEMMA UpTo ==
  ASSUME NEW N \in Nat, NEW S, 0 \in S, \A n \in 1 .. N : n - 1 \in S => n \in S
  PROVE  \A n \in 0 .. N : n \in S
<1> SUFFICES ASSUME NEW m \in 0 .. N, m \notin S PROVE FALSE
  OBVIOUS
<1> DEFINE Out == {n \in 0 .. N : n \notin S}
<1>1. Out \in SUBSET Nat /\ Out # {}
  OBVIOUS
<1> HIDE DEF Out
<1>2. PICK n \in Out : \A j \in Out : n <= j
  BY <1>1, LeastOf
<1>3. n \in 1 .. N /\ n \notin S
  BY <1>2 DEF Out
<1>4. n - 1 \in 0 .. N /\ n - 1 \notin Out
  BY <1>2, <1>3
<1> QED
  BY <1>3, <1>4 DEF Out

(* A function that is defined step by step is there.                       *)
Steps(f, N, s, F) == \A n \in 0 .. N : f[n] = IF n = 0 THEN s ELSE F[n][f[n - 1]]

(* Steps that stay in a set can be taken one after the other.              *)
LEMMA Iterates ==
  ASSUME NEW N \in Nat, NEW S, NEW s \in S, NEW F \in [1 .. N -> [S -> S]]
  PROVE  \E f \in [0 .. N -> S] : Steps(f, N, s, F)
<1> DEFINE Up(f, m) == \A n \in 0 .. m : f[n] = IF n = 0 THEN s ELSE F[n][f[n - 1]]
           There == {m \in 0 .. N : \E f \in [0 .. N -> S] : Up(f, m)}
<1>1. 0 \in There
  <2> DEFINE f == [n \in 0 .. N |-> s]
  <2>1. f \in [0 .. N -> S]
    OBVIOUS
  <2>2. ASSUME NEW n \in 0 .. 0 PROVE f[n] = IF n = 0 THEN s ELSE F[n][f[n - 1]]
    BY <2>2
  <2>3. 0 \in 0 .. N
    OBVIOUS
  <2> QED
    BY <2>1, <2>2, <2>3
<1>2. ASSUME NEW m \in 1 .. N, m - 1 \in There PROVE m \in There
  <2>1. PICK f \in [0 .. N -> S] : Up(f, m - 1)
    BY <1>2
  <2> DEFINE g == [f EXCEPT ![m] = F[m][f[m - 1]]]
  <2>2. g \in [0 .. N -> S]
    OBVIOUS
  <2>3. ASSUME NEW n \in 0 .. m PROVE g[n] = IF n = 0 THEN s ELSE F[n][g[n - 1]]
    <3>1. CASE n = m
      BY <3>1
    <3>2. CASE n # m
      <4>1. n \in 0 .. m - 1 /\ n \in 0 .. N
        BY <3>2
      <4>2. f[n] = IF n = 0 THEN s ELSE F[n][f[n - 1]]
        BY <2>1, <4>1
      <4>3. g[n] = f[n] /\ (n # 0 => g[n - 1] = f[n - 1])
        BY <4>1, <3>2
      <4> QED
        BY <4>2, <4>3
    <3> QED
      BY <3>1, <3>2
  <2>4. Up(g, m)
    BY <2>3
  <2>5. m \in 0 .. N
    OBVIOUS
  <2> HIDE DEF g, Up
  <2> QED
    BY <2>2, <2>4, <2>5
<1>3. N \in There
  <2> HIDE DEF There
  <2>1. \A n \in 0 .. N : n \in There
    BY <1>1, <1>2, UpTo
  <2> QED
    BY <2>1
<1> QED
  BY <1>3 DEF Steps

(* Of two numbers Max is the larger and Min the smaller.                   *)
LEMMA MaxOfTwo ==
  ASSUME NEW a \in Int, NEW b \in Int
  PROVE  Max({a, b}) = IF a >= b THEN a ELSE b
<1>1. \E x \in {a, b} : \A y \in {a, b} : x >= y
  OBVIOUS
<1>2. Max({a, b}) \in {a, b} /\ \A y \in {a, b} : Max({a, b}) >= y
  BY <1>1 DEF Max
<1> QED
  BY <1>2

(* Min of a pair.                                                          *)
LEMMA MinOfTwo ==
  ASSUME NEW a \in Int, NEW b \in Int
  PROVE  Min({a, b}) = IF a <= b THEN a ELSE b
<1>1. \E x \in {a, b} : \A y \in {a, b} : x <= y
  OBVIOUS
<1>2. Min({a, b}) \in {a, b} /\ \A y \in {a, b} : Min({a, b}) <= y
  BY <1>1 DEF Min
<1> QED
  BY <1>2

(* A set of numbers with a bound has a largest.                            *)
LEMMA MaxOfSet ==
  ASSUME NEW N \in Nat, NEW S \in SUBSET (0 .. N), S # {}
  PROVE  Max(S) \in S /\ \A y \in S : y <= Max(S)
<1> DEFINE T == {n \in 0 .. N : N - n \in S}
<1>1. T \in SUBSET Nat /\ T # {}
  <2>1. PICK x \in S : TRUE
    OBVIOUS
  <2>2. N - x \in 0 .. N /\ N - (N - x) = x
    OBVIOUS
  <2>3. N - x \in T
    BY <2>2
  <2>4. \A n \in T : n \in Nat
    OBVIOUS
  <2> HIDE DEF T
  <2> QED
    BY <2>3, <2>4
<1>2. \A y \in S : N - y \in T
  <2>1. ASSUME NEW y \in S PROVE N - y \in 0 .. N /\ N - (N - y) = y
    OBVIOUS
  <2> QED
    BY <2>1
<1>3. \A n \in T : n \in 0 .. N /\ N - n \in S
  OBVIOUS
<1> HIDE DEF T
<1>4. PICK n \in T : \A m \in T : n <= m
  BY <1>1, LeastOf
<1>5. ASSUME NEW y \in S PROVE N - n >= y
  <2>1. n <= N - y /\ y \in 0 .. N /\ n \in 0 .. N
    BY <1>2, <1>3, <1>4
  <2> QED
    BY <2>1
<1>6. \E x \in S : \A y \in S : x >= y
  BY <1>3, <1>5
<1>7. Max(S) \in S /\ \A y \in S : Max(S) >= y
  BY <1>6 DEF Max
<1>8. \A y \in S : y \in 0 .. N
  OBVIOUS
<1> QED
  BY <1>7, <1>8

-----------------------------------------------------------------------------
(* PIECES OF A SEQUENCE                                                    *)

(* What FlattenSeq makes of the pieces s: piece q begins behind at[q - 1]. *)
Pieces(s, flat, at) ==
  /\ at \in [0 .. Len(s) -> Nat] /\ at[0] = 0
  /\ \A q \in 1 .. Len(s) : at[q] = at[q - 1] + Len(s[q])
  /\ Len(flat) = at[Len(s)] /\ \A q \in 0 .. Len(s) : at[q] <= Len(flat)
  /\ \A q \in 1 .. Len(s) : \A k \in 1 .. Len(s[q]) : flat[at[q - 1] + k] = s[q][k]
  /\ \A j \in 1 .. Len(flat) : \E q \in 1 .. Len(s) : \E k \in 1 .. Len(s[q]) : j = at[q - 1] + k

(* FlattenSeq goes along the pieces.                                       *)
LEMMA FlattenGoesAlong ==
  ASSUME NEW T, NEW s \in Seq(Seq(T)), Len(s) # 0
  PROVE  \E f : /\ f \in [1 .. Len(s) -> Seq(T)] /\ f[1] = s[1]
                /\ \A q \in 2 .. Len(s) : f[q] = f[q - 1] \o s[q]
                /\ FlattenSeq(s) = f[Len(s)]
<1> DEFINE N == Len(s)
           Along(f) == f = [q \in 1 .. N |-> IF q = 1 THEN s[q] ELSE f[q - 1] \o s[q]]
           flatten == CHOOSE f : Along(f)
           M == N - 1
           F == [n \in 1 .. M |-> [x \in Seq(T) |-> x \o s[n + 1]]]
<1>1. N \in Nat \ {0} /\ M \in Nat /\ \A q \in 1 .. N : s[q] \in Seq(T)
  OBVIOUS
<1>2. FlattenSeq(s) = flatten[N]
  BY DEF FlattenSeq
<1>3. F \in [1 .. M -> [Seq(T) -> Seq(T)]]
  <2>1. ASSUME NEW n \in 1 .. M, NEW x \in Seq(T) PROVE x \o s[n + 1] \in Seq(T)
    <3>1. s[n + 1] \in Seq(T)
      BY <1>1
    <3> QED
      BY <3>1
  <2> QED
    BY <2>1
<1>4. PICK g \in [0 .. M -> Seq(T)] : Steps(g, M, s[1], F)
  <2>1. s[1] \in Seq(T)
    BY <1>1
  <2> HIDE DEF F, M
  <2> QED
    BY <1>1, <1>3, <2>1, Iterates
<1> DEFINE h == [q \in 1 .. N |-> g[q - 1]]
<1>5. h \in [1 .. N -> Seq(T)]
  <2>1. ASSUME NEW q \in 1 .. N PROVE g[q - 1] \in Seq(T)
    <3>1. q - 1 \in 0 .. M
      BY <1>1
    <3> QED
      BY <1>4, <3>1
  <2> QED
    BY <2>1
<1>6. ASSUME NEW q \in 1 .. N
      PROVE  h[q] = IF q = 1 THEN s[q] ELSE h[q - 1] \o s[q]
  <2>1. q - 1 \in 0 .. M /\ h[q] = g[q - 1]
    BY <1>1
  <2>2. g[q - 1] = IF q - 1 = 0 THEN s[1] ELSE F[q - 1][g[q - 1 - 1]]
    BY <1>4, <2>1 DEF Steps
  <2>3. CASE q = 1
    BY <2>1, <2>2, <2>3
  <2>4. CASE q # 1
    <3>1. q - 1 \in 1 .. M /\ q - 1 \in 1 .. N /\ q - 1 - 1 \in 0 .. M /\ (q - 1) + 1 = q
      BY <1>1, <2>4
    <3>2. g[q - 1 - 1] \in Seq(T) /\ h[q - 1] = g[q - 1 - 1]
      BY <1>4, <3>1
    <3>3. F[q - 1][g[q - 1 - 1]] = g[q - 1 - 1] \o s[q]
      BY <3>1, <3>2
    <3> HIDE DEF h, F
    <3>4. h[q] = F[q - 1][g[q - 1 - 1]]
      BY <2>1, <2>2, <3>1
    <3> QED
      BY <2>4, <3>2, <3>3, <3>4
  <2> QED
    BY <2>3, <2>4
<1>7. h = [q \in 1 .. N |-> h[q]]
  OBVIOUS
<1> HIDE DEF h
<1>8. Along(h)
  BY <1>6, <1>7
<1>9. Along(flatten)
  <2> HIDE DEF Along
  <2> QED
    BY <1>8
<1> HIDE DEF flatten
<1>10. \A q \in 1 .. N : flatten[q] = IF q = 1 THEN s[q] ELSE flatten[q - 1] \o s[q]
  BY <1>9
<1> DEFINE Same == {n \in 0 .. M : flatten[n + 1] = h[n + 1]}
<1>11. 0 \in Same
  <2>1. flatten[1] = s[1] /\ h[1] = s[1]
    BY <1>1, <1>6, <1>10
  <2> QED
    BY <1>1, <2>1
<1>12. ASSUME NEW n \in 1 .. M, n - 1 \in Same PROVE n \in Same
  <2>1. n + 1 \in 1 .. N /\ n + 1 # 1 /\ n + 1 - 1 = n /\ n - 1 + 1 = n
    BY <1>1
  <2>2. flatten[n] = h[n]
    BY <1>12, <2>1
  <2>3. flatten[n + 1] = h[n + 1]
    BY <1>6, <1>10, <2>1, <2>2
  <2> QED
    BY <2>3
<1>13. M \in Same
  <2> HIDE DEF Same, M
  <2>1. \A n \in 0 .. M : n \in Same
    BY <1>1, <1>11, <1>12, UpTo
  <2> QED
    BY <1>1, <2>1
<1>14. flatten[N] = h[N]
  BY <1>1, <1>13
<1>15. h[1] = s[1] /\ \A q \in 2 .. N : h[q] = h[q - 1] \o s[q]
  <2>1. h[1] = s[1]
    <3>1. 1 \in 1 .. N
      BY <1>1
    <3> QED
      BY <1>6, <3>1
  <2>2. ASSUME NEW q \in 2 .. N PROVE h[q] = h[q - 1] \o s[q]
    <3>1. q \in 1 .. N /\ q # 1
      OBVIOUS
    <3> QED
      BY <1>6, <3>1, Zenon
  <2> QED
    BY <2>1, <2>2
<1> QED
  BY <1>2, <1>5, <1>14, <1>15

(* The pieces of one sequence more.                                        *)
PiecesTo(s, n, flat, at) ==
  /\ Len(flat) = at[n] /\ \A q \in 0 .. n : at[q] <= Len(flat)
  /\ \A q \in 1 .. n : \A k \in 1 .. Len(s[q]) : flat[at[q - 1] + k] = s[q][k]
  /\ \A j \in 1 .. Len(flat) : \E q \in 1 .. n : \E k \in 1 .. Len(s[q]) : j = at[q - 1] + k

(* One piece appended takes the positions one piece on.                    *)
LEMMA OnePieceMore ==
  ASSUME NEW T, NEW s \in Seq(Seq(T)), NEW n \in 1 .. Len(s), NEW flat \in Seq(T), NEW at,
         at \in [0 .. Len(s) -> Nat], \A q \in 1 .. Len(s) : at[q] = at[q - 1] + Len(s[q]),
         PiecesTo(s, n - 1, flat, at)
  PROVE  PiecesTo(s, n, flat \o s[n], at)
<1> DEFINE new == flat \o s[n]
<1>1. s[n] \in Seq(T) /\ Len(s[n]) \in Nat /\ Len(flat) \in Nat
  OBVIOUS
<1>2. Len(flat) = at[n - 1] /\ at[n] = at[n - 1] + Len(s[n]) /\ n - 1 \in 0 .. Len(s)
  BY DEF PiecesTo
<1>3. Len(new) = at[n]
  <2>1. Len(new) = Len(flat) + Len(s[n])
    BY <1>1
  <2> QED
    BY <1>2, <2>1
<1>4. /\ \A k \in 1 .. Len(flat) : new[k] = flat[k]
      /\ \A k \in 1 .. Len(s[n]) : new[at[n - 1] + k] = s[n][k]
  <2>1. PICK t \in Seq(T) : t = s[n]
    BY <1>1
  <2>2. \A k \in 1 .. Len(flat) : (flat \o t)[k] = flat[k]
    BY <1>1
  <2>3. \A k \in 1 .. Len(t) : (flat \o t)[Len(flat) + k] = t[k]
    OBVIOUS
  <2> QED
    BY <1>2, <2>1, <2>2, <2>3
<1>5. \A q \in 1 .. Len(s) : q - 1 \in 0 .. Len(s) /\ at[q - 1] \in Nat /\ Len(s[q]) \in Nat
  <2>1. ASSUME NEW q \in 1 .. Len(s)
        PROVE  q - 1 \in 0 .. Len(s) /\ at[q - 1] \in Nat /\ Len(s[q]) \in Nat
    <3>1. q - 1 \in 0 .. Len(s)
      OBVIOUS
    <3>2. PICK t \in Seq(T) : t = s[q]
      OBVIOUS
    <3>3. at[q - 1] \in Nat
      BY <3>1
    <3>4. Len(t) \in Nat
      OBVIOUS
    <3> QED
      BY <3>1, <3>2, <3>3, <3>4
  <2> QED
    BY <2>1
<1> HIDE DEF new
<1>6. ASSUME NEW q \in 0 .. n PROVE at[q] <= Len(new)
  <2>1. CASE q = n
    BY <1>1, <1>2, <1>3, <2>1
  <2>2. CASE q # n
    <3>1. q \in 0 .. n - 1 /\ at[q] \in Nat
      <4>1. q \in 0 .. Len(s) /\ q \in 0 .. n - 1
        BY <2>2
      <4> QED
        BY <4>1
    <3>2. at[q] <= Len(flat)
      BY <3>1 DEF PiecesTo
    <3> QED
      BY <1>1, <1>2, <1>3, <3>1, <3>2
  <2> QED
    BY <2>1, <2>2
<1>7. ASSUME NEW q \in 1 .. n, NEW k \in 1 .. Len(s[q]) PROVE new[at[q - 1] + k] = s[q][k]
  <2>1. CASE q = n
    BY <1>4, <2>1
  <2>2. CASE q # n
    <3>1. q \in 1 .. n - 1 /\ q \in 0 .. n - 1 /\ q \in 1 .. Len(s)
      BY <2>2
    <3>2. flat[at[q - 1] + k] = s[q][k] /\ at[q] <= Len(flat)
      <4>1. flat[at[q - 1] + k] = s[q][k]
        BY <3>1, Zenon DEF PiecesTo
      <4>2. at[q] <= Len(flat)
        BY <3>1, Zenon DEF PiecesTo
      <4> QED
        BY <4>1, <4>2
    <3>3. at[q] = at[q - 1] + Len(s[q]) /\ at[q - 1] \in Nat /\ Len(s[q]) \in Nat
      BY <1>5, <3>1
    <3>4. at[q - 1] + k \in 1 .. Len(flat)
      <4>1. PICK a \in Nat, b \in Nat, c \in Nat : a = at[q - 1] /\ b = Len(s[q]) /\ c = Len(flat)
        BY <1>1, <3>3
      <4>2. a + b <= c /\ k \in 1 .. b
        BY <3>2, <3>3, <4>1
      <4>3. a + k \in 1 .. c
        BY <4>2
      <4> QED
        BY <4>1, <4>3
    <3> QED
      BY <1>4, <3>2, <3>4
  <2> QED
    BY <2>1, <2>2
<1>8. ASSUME NEW j \in 1 .. Len(new) PROVE \E q \in 1 .. n : \E k \in 1 .. Len(s[q]) : j = at[q - 1] + k
  <2>1. CASE j <= Len(flat)
    <3>1. j \in 1 .. Len(flat)
      BY <1>1, <2>1
    <3>2. PICK q \in 1 .. n - 1 : \E k \in 1 .. Len(s[q]) : j = at[q - 1] + k
      BY <3>1 DEF PiecesTo
    <3>3. q \in 1 .. n
      OBVIOUS
    <3> QED
      BY <3>2, <3>3
  <2>2. CASE j > Len(flat)
    <3>1. j - at[n - 1] \in 1 .. Len(s[n]) /\ j = at[n - 1] + (j - at[n - 1])
      BY <1>1, <1>2, <1>3, <2>2
    <3>2. n \in 1 .. n
      OBVIOUS
    <3> QED
      BY <3>1, <3>2
  <2> QED
    BY <1>1, <1>3, <2>1, <2>2
<1>9. PiecesTo(s, n, new, at)
  BY <1>3, <1>6, <1>7, <1>8 DEF PiecesTo
<1> QED
  BY <1>9 DEF new

(* FlattenSeq of sequences is their pieces.                                *)
LEMMA FlattenPieces ==
  ASSUME NEW T, NEW s \in Seq(Seq(T))
  PROVE  FlattenSeq(s) \in Seq(T) /\ \E at : Pieces(s, FlattenSeq(s), at)
<1> DEFINE N == Len(s)
           F == [n \in 1 .. N |-> [x \in Nat |-> x + Len(s[n])]]
<1>1. N \in Nat /\ \A q \in 1 .. N : s[q] \in Seq(T) /\ Len(s[q]) \in Nat
  OBVIOUS
<1>2. PICK at \in [0 .. N -> Nat] : Steps(at, N, 0, F)
  <2>1. F \in [1 .. N -> [Nat -> Nat]]
    BY <1>1
  <2> HIDE DEF F, N
  <2> QED
    BY <1>1, <2>1, Iterates
<1>3. at[0] = 0 /\ \A q \in 1 .. N : at[q] = at[q - 1] + Len(s[q])
  <2>1. at[0] = 0
    <3>1. 0 \in 0 .. N
      BY <1>1
    <3> HIDE DEF F, N
    <3> QED
      BY <1>2, <3>1 DEF Steps
  <2>2. ASSUME NEW q \in 1 .. N PROVE at[q] = at[q - 1] + Len(s[q])
    <3>1. at[q] = F[q][at[q - 1]]
      BY <1>2, q # 0, q \in 0 .. N DEF Steps
    <3>2. at[q - 1] \in Nat
      <4>1. q - 1 \in 0 .. N
        BY <1>1
      <4> HIDE DEF F, N
      <4> QED
        BY <1>2, <4>1
    <3> QED
      BY <3>1, <3>2
  <2> QED
    BY <2>1, <2>2
<1>4. CASE N = 0
  <2>1. FlattenSeq(s) = s /\ s = <<>>
    BY <1>4 DEF FlattenSeq
  <2>2. FlattenSeq(s) \in Seq(T) /\ Len(FlattenSeq(s)) = 0
    BY <2>1
  <2>3. Pieces(s, FlattenSeq(s), at)
    BY <1>2, <1>3, <1>4, <2>2 DEF Pieces
  <2> QED
    BY <2>2, <2>3
<1>5. CASE N # 0
  <2>1. PICK f : /\ f \in [1 .. N -> Seq(T)] /\ f[1] = s[1]
                 /\ \A q \in 2 .. N : f[q] = f[q - 1] \o s[q]
                 /\ FlattenSeq(s) = f[N]
    BY <1>5, FlattenGoesAlong
  <2> DEFINE M == N - 1
             So == {n \in 0 .. M : PiecesTo(s, n + 1, f[n + 1], at)}
  <2>2. M \in Nat
    BY <1>1, <1>5
  <2>3. 0 \in So
    <3>1. PiecesTo(s, 0, <<>>, at)
      BY <1>3 DEF PiecesTo
    <3>2. 1 \in 1 .. Len(s) /\ 1 - 1 = 0 /\ <<>> \in Seq(T)
      BY <1>1, <1>5
    <3>3. PiecesTo(s, 1, <<>> \o s[1], at)
      BY <1>2, <1>3, <3>1, <3>2, OnePieceMore
    <3>4. <<>> \o s[1] = f[1]
      BY <1>1, <2>1, <3>2
    <3> QED
      BY <2>2, <3>3, <3>4
  <2>4. ASSUME NEW n \in 1 .. M, n - 1 \in So PROVE n \in So
    <3>1. n + 1 \in 2 .. N /\ n + 1 \in 1 .. Len(s) /\ n + 1 - 1 = n /\ n - 1 + 1 = n /\ n \in 1 .. N
      BY <1>1, <1>5
    <3>2. PiecesTo(s, n, f[n], at)
      BY <2>4, <3>1
    <3>3. f[n] \in Seq(T)
      BY <2>1, <3>1
    <3>4. f[n + 1] = f[n] \o s[n + 1]
      <4>1. PICK m \in 2 .. N : m = n + 1 /\ m - 1 = n
        BY <3>1
      <4>2. f[m] = f[m - 1] \o s[m]
        BY <2>1
      <4> QED
        BY <4>1, <4>2
    <3>5. PICK m \in 1 .. Len(s) : m = n + 1 /\ m - 1 = n
      BY <3>1
    <3>6. PiecesTo(s, m, f[n] \o s[m], at)
      BY <1>2, <1>3, <3>2, <3>3, <3>5, OnePieceMore
    <3>7. PiecesTo(s, n + 1, f[n + 1], at)
      BY <3>4, <3>5, <3>6, Zenon
    <3> QED
      BY <3>7
  <2>5. M \in So
    <3> HIDE DEF So, M
    <3>1. \A n \in 0 .. M : n \in So
      BY <2>2, <2>3, <2>4, UpTo
    <3> QED
      BY <2>2, <3>1
  <2>6. PiecesTo(s, N, FlattenSeq(s), at)
    BY <1>1, <2>1, <2>5
  <2>7. FlattenSeq(s) \in Seq(T)
    <3>1. N \in 1 .. N
      BY <1>1, <1>5
    <3> QED
      BY <2>1, <3>1
  <2>8. Pieces(s, FlattenSeq(s), at)
    BY <1>2, <1>3, <2>6 DEF Pieces, PiecesTo
  <2> QED
    BY <2>7, <2>8
<1> QED
  BY <1>4, <1>5
-----------------------------------------------------------------------------
(* THE LOOP THAT APPLIES                                                   *)

(* What an event is.                                                       *)
LEMMA EventParts ==
  ASSUME NEW e \in Events(Nat)
  PROVE  /\ e.frame \in Nat /\ e.type \in {"players", "slot"}
         /\ e.type = "slot" => e.a \in Slots /\ e.b \in Peers \cup {AI}
         /\ e.type = "players" => e.a \in 1 .. NumPeers
BY DEF Events, PlayersEvents, SlotEvents

(* DrivesAfter and LastCount, of the first n events.                       *)
DrivesBy(map, evs, n, f, s, p) ==
  \/ map[s] = p /\ \A x \in 1 .. n : evs[x].frame = f => ~Takes(evs, x, s, p)
  \/ \E x \in 1 .. n :
        /\ evs[x].frame = f /\ Gives(evs, x, s, p)
        /\ \A y \in x + 1 .. n : evs[y].frame = f => ~Takes(evs, y, s, p)

CountBy(count, evs, n, f, c) ==
  \/ c = count /\ \A x \in 1 .. n : evs[x].frame = f => evs[x].type # "players"
  \/ \E x \in 1 .. n :
        /\ evs[x].frame = f /\ evs[x].type = "players" /\ c = evs[x].a
        /\ \A y \in x + 1 .. n : evs[y].frame = f => evs[y].type # "players"

(* The map the loop has after n events, and the count.                     *)
MapBy(new, map, evs, n, f) ==
  \A s \in Slots : \A p \in Peers : new[s] = p <=> DrivesBy(map, evs, n, f, s, p)

(* Of no event: what there was.                                            *)
LEMMA BeforeAnyEvent ==
  ASSUME NEW map, NEW evs, NEW f, NEW c
  PROVE  MapBy(map, map, evs, 0, f) /\ CountBy(c, evs, 0, f, c)
BY DEF MapBy, DrivesBy, CountBy

(* One event more: what it gives, and what it does not take.               *)
LEMMA OneEventMore ==
  ASSUME NEW map, NEW evs, NEW n \in Nat, NEW f, NEW s \in Slots, NEW p \in Peers
  PROVE  DrivesBy(map, evs, n + 1, f, s, p) <=>
           IF evs[n + 1].frame = f
             THEN \/ Gives(evs, n + 1, s, p)
                  \/ DrivesBy(map, evs, n, f, s, p) /\ ~Takes(evs, n + 1, s, p)
             ELSE DrivesBy(map, evs, n, f, s, p)
<1> DEFINE m == n + 1
           Free(x) == evs[x].frame = f => ~Takes(evs, x, s, p)
           Given(x) == evs[x].frame = f /\ Gives(evs, x, s, p)
<1>1. DrivesBy(map, evs, m, f, s, p) <=>
        \/ map[s] = p /\ \A x \in 1 .. m : Free(x)
        \/ \E x \in 1 .. m : Given(x) /\ \A y \in x + 1 .. m : Free(y)
  BY DEF DrivesBy
<1>2. DrivesBy(map, evs, n, f, s, p) <=>
        \/ map[s] = p /\ \A x \in 1 .. n : Free(x)
        \/ \E x \in 1 .. n : Given(x) /\ \A y \in x + 1 .. n : Free(y)
  BY DEF DrivesBy
<1> HIDE DEF Free, Given
<1>3. (\A x \in 1 .. m : Free(x)) <=> (\A x \in 1 .. n : Free(x)) /\ Free(m)
  OBVIOUS
<1>4. (\E x \in 1 .. m : Given(x) /\ \A y \in x + 1 .. m : Free(y)) <=>
        \/ Given(m)
        \/ (\E x \in 1 .. n : Given(x) /\ \A y \in x + 1 .. n : Free(y)) /\ Free(m)
  <2>1. ASSUME NEW x \in 1 .. n
        PROVE  (\A y \in x + 1 .. m : Free(y)) <=> (\A y \in x + 1 .. n : Free(y)) /\ Free(m)
    OBVIOUS
  <2>2. \A y \in m + 1 .. m : Free(y)
    OBVIOUS
  <2>3. ASSUME NEW x \in 1 .. m, x # m PROVE x \in 1 .. n
    BY <2>3
  <2>4. m \in 1 .. m /\ \A x \in 1 .. n : x \in 1 .. m
    OBVIOUS
  <2> QED
    BY <2>1, <2>2, <2>3, <2>4
<1>5. DrivesBy(map, evs, m, f, s, p) <=> Given(m) \/ (DrivesBy(map, evs, n, f, s, p) /\ Free(m))
  BY <1>1, <1>2, <1>3, <1>4
<1> QED
  BY <1>5 DEF Free, Given

(* The same of the count.                                                  *)
LEMMA OneCountMore ==
  ASSUME NEW count, NEW evs, NEW n \in Nat, NEW f, NEW c, CountBy(count, evs, n, f, c)
  PROVE  /\ evs[n + 1].frame = f /\ evs[n + 1].type = "players" =>
              CountBy(count, evs, n + 1, f, evs[n + 1].a)
         /\ ~(evs[n + 1].frame = f /\ evs[n + 1].type = "players") => CountBy(count, evs, n + 1, f, c)
<1> DEFINE m == n + 1
           Free(x) == evs[x].frame = f => evs[x].type # "players"
           Sets(x, d) == evs[x].frame = f /\ evs[x].type = "players" /\ d = evs[x].a
<1>1. \A d : CountBy(count, evs, m, f, d) <=>
        \/ d = count /\ \A x \in 1 .. m : Free(x)
        \/ \E x \in 1 .. m : Sets(x, d) /\ \A y \in x + 1 .. m : Free(y)
  BY DEF CountBy
<1>2. \/ c = count /\ \A x \in 1 .. n : Free(x)
      \/ \E x \in 1 .. n : Sets(x, c) /\ \A y \in x + 1 .. n : Free(y)
  BY DEF CountBy
<1>3. \A x \in 1 .. m : x \in 1 .. n \/ x = m
  OBVIOUS
<1>4. m \in 1 .. m /\ \A x \in 1 .. n : x \in 1 .. m /\ \A y \in x + 1 .. m : y \in x + 1 .. n \/ y = m
  OBVIOUS
<1>5. \A y \in m + 1 .. m : Free(y)
  OBVIOUS
<1>6. ASSUME evs[m].frame = f, evs[m].type = "players" PROVE CountBy(count, evs, m, f, evs[m].a)
  <2>1. Sets(m, evs[m].a)
    BY <1>6
  <2> QED
    BY <2>1, <1>1, <1>4, <1>5
<1>7. ASSUME ~(evs[m].frame = f /\ evs[m].type = "players") PROVE CountBy(count, evs, m, f, c)
  <2>1. Free(m)
    BY <1>7
  <2> HIDE DEF Free, Sets, m
  <2> QED
    BY <2>1, <1>1, <1>2, <1>3, <1>4
<1> QED
  BY <1>6, <1>7

(* A move, seen from every slot.                                           *)
LEMMA WhoMoved ==
  ASSUME NEW map \in SlotMaps, Injective(map), NEW a \in Slots, NEW b \in Peers \cup {AI}
  PROVE  /\ AssignSlot(map, a, b) \in SlotMaps
         /\ \A s \in Slots : \A p \in Peers :
              AssignSlot(map, a, b)[s] = p <=> (s = a /\ p = b) \/ (map[s] = p /\ s # a /\ p # b)
<1>0. AI \notin Peers /\ AI \in Int /\ Peers \subseteq Int
  BY DEF AI, Peers
<1>1. CASE b = AI \/ \A s \in Slots : map[s] # b
  <2>1. AssignSlot(map, a, b) = [map EXCEPT ![a] = b]
    BY <1>1 DEF AssignSlot
  <2> QED
    BY <1>0, <1>1, <2>1 DEF SlotMaps
<1>2. CASE b # AI /\ \E s \in Slots : map[s] = b
  <2>1. PICK q \in Slots : map[q] = b
    BY <1>2
  <2>2. \A t \in Slots : map[t] = b => t = q
    BY <1>2, <2>1 DEF Injective
  <2>3. q <= q
    BY DEF Slots, Peers
  <2>4. SlotOf(map, b) \in Slots /\ map[SlotOf(map, b)] = b
    BY <2>1, <2>2, <2>3 DEF SlotOf
  <2>5. SlotOf(map, b) = q
    BY <2>2, <2>4
  <2>6. AssignSlot(map, a, b) = [map EXCEPT ![q] = AI, ![a] = b]
    BY <1>2, <2>5 DEF AssignSlot
  <2>7. AssignSlot(map, a, b) \in SlotMaps
    BY <2>6 DEF SlotMaps
  <2>8. \A s \in Slots : AssignSlot(map, a, b)[s] = IF s = a THEN b ELSE IF s = q THEN AI ELSE map[s]
    BY <2>6 DEF SlotMaps
  <2> QED
    BY <1>0, <2>1, <2>2, <2>7, <2>8
<1> QED
  BY <1>1, <1>2

(* A move keeps every peer to one slot.                                    *)
LEMMA StillInjective ==
  ASSUME NEW map \in SlotMaps, Injective(map), NEW a \in Slots, NEW b \in Peers \cup {AI}
  PROVE  Injective(AssignSlot(map, a, b))
<1> DEFINE new == AssignSlot(map, a, b)
<1>1. new \in SlotMaps /\ \A s \in Slots : \A p \in Peers :
        new[s] = p <=> (s = a /\ p = b) \/ (map[s] = p /\ s # a /\ p # b)
  BY WhoMoved
<1> HIDE DEF new
<1> SUFFICES ASSUME NEW s \in Slots, NEW t \in Slots, new[s] = new[t], new[s] # AI PROVE s = t
  BY DEF Injective, new
<1>2. PICK p \in Peers : new[s] = p /\ new[t] = p
  BY <1>1 DEF SlotMaps
<1>3. (s = a /\ p = b) \/ (map[s] = p /\ s # a /\ p # b)
  BY <1>1, <1>2
<1>4. (t = a /\ p = b) \/ (map[t] = p /\ t # a /\ p # b)
  BY <1>1, <1>2
<1>5. p # AI
  BY DEF Peers, AI
<1> QED
  BY <1>3, <1>4, <1>5 DEF Injective

(* A turn of the loop takes the map and the count one event on.            *)
LEMMA AnEventApplied ==
  ASSUME NEW map, NEW evs \in Seq(Events(Nat)), NEW n \in Nat, n < Len(evs), NEW f,
         NEW old \in SlotMaps, Injective(old), MapBy(old, map, evs, n, f)
  PROVE  /\ ~(evs[n + 1].frame = f /\ evs[n + 1].type = "slot") => MapBy(old, map, evs, n + 1, f)
         /\ evs[n + 1].frame = f /\ evs[n + 1].type = "slot" =>
              MapBy(AssignSlot(old, evs[n + 1].a, evs[n + 1].b), map, evs, n + 1, f)
<1> DEFINE m == n + 1
           e == evs[m]
           new == AssignSlot(old, e.a, e.b)
<1>1. e \in Events(Nat)
  OBVIOUS
<1>2. \A s \in Slots : \A p \in Peers : old[s] = p <=> DrivesBy(map, evs, n, f, s, p)
  BY DEF MapBy
<1>3. ASSUME NEW s \in Slots, NEW p \in Peers
      PROVE  DrivesBy(map, evs, m, f, s, p) <=>
               IF e.frame = f THEN \/ e.type = "slot" /\ e.a = s /\ e.b = p
                                   \/ old[s] = p /\ ~(e.type = "slot" /\ (e.a = s \/ e.b = p))
                              ELSE old[s] = p
  BY <1>2, OneEventMore DEF Gives, Takes
<1>4. ASSUME ~(e.frame = f /\ e.type = "slot") PROVE MapBy(old, map, evs, m, f)
  BY <1>3, <1>4 DEF MapBy
<1>5. ASSUME e.frame = f, e.type = "slot" PROVE MapBy(new, map, evs, m, f)
  <2>1. e.a \in Slots /\ e.b \in Peers \cup {AI}
    BY <1>1, <1>5, EventParts
  <2>2. \A s \in Slots : \A p \in Peers :
          new[s] = p <=> (s = e.a /\ p = e.b) \/ (old[s] = p /\ s # e.a /\ p # e.b)
    BY <2>1, WhoMoved
  <2> HIDE DEF new, e, m
  <2>3. ASSUME NEW s \in Slots, NEW p \in Peers PROVE new[s] = p <=> DrivesBy(map, evs, m, f, s, p)
    BY <1>3, <1>5, <2>2
  <2> QED
    BY <2>3 DEF MapBy
<1> QED
  BY <1>4, <1>5
-----------------------------------------------------------------------------
(* After all of them, DrivesBy is DrivesAfter.                             *)
LEMMA DrivesByIsAfter ==
  ASSUME NEW map, NEW evs \in Seq(Events(Nat)), NEW f, NEW s \in Slots, NEW p \in Peers
  PROVE  DrivesBy(map, evs, Len(evs), f, s, p) <=> DrivesAfter(map, evs, f, s, p)
<1> DEFINE N == Len(evs)
<1>1. N \in Nat /\ DOMAIN evs = 1 .. N
  OBVIOUS
<1>2. At(evs, f) = {x \in 1 .. N : evs[x].frame = f}
  BY <1>1 DEF At
<1>3. (\A x \in At(evs, f) : ~Takes(evs, x, s, p)) <=>
        (\A x \in 1 .. N : evs[x].frame = f => ~Takes(evs, x, s, p))
  BY <1>2
<1>4. ASSUME NEW x \in 1 .. N
      PROVE  (\A y \in At(evs, f) : y > x => ~Takes(evs, y, s, p)) <=>
               (\A y \in x + 1 .. N : evs[y].frame = f => ~Takes(evs, y, s, p))
  <2>1. \A y \in 1 .. N : y > x <=> y \in x + 1 .. N
    BY <1>1
  <2>2. \A y \in x + 1 .. N : y \in 1 .. N
    BY <1>1
  <2> QED
    BY <1>2, <2>1, <2>2
<1>5. (\E x \in At(evs, f) : Gives(evs, x, s, p) /\ \A y \in At(evs, f) : y > x => ~Takes(evs, y, s, p)) <=>
        (\E x \in 1 .. N : /\ evs[x].frame = f /\ Gives(evs, x, s, p)
                           /\ \A y \in x + 1 .. N : evs[y].frame = f => ~Takes(evs, y, s, p))
  BY <1>2, <1>4
<1> QED
  BY <1>3, <1>5 DEF DrivesBy, DrivesAfter

(* The closed form of the map is the map the loop ends with.               *)
LEMMA MapIsAfter ==
  ASSUME NEW map, NEW evs \in Seq(Events(Nat)), NEW f, NEW new \in SlotMaps,
         MapBy(new, map, evs, Len(evs), f)
  PROVE  new = SlotMapAfter(map, evs, f)
<1>1. \A s \in Slots : \A p \in Peers : new[s] = p <=> DrivesAfter(map, evs, f, s, p)
  BY DrivesByIsAfter DEF MapBy
<1>2. ASSUME NEW s \in Slots PROVE new[s] = SlotMapAfter(map, evs, f)[s]
  <2>1. SlotMapAfter(map, evs, f)[s] =
          IF \E p \in Peers : DrivesAfter(map, evs, f, s, p)
            THEN CHOOSE p \in Peers : DrivesAfter(map, evs, f, s, p) ELSE AI
    BY DEF SlotMapAfter
  <2>2. CASE \E p \in Peers : DrivesAfter(map, evs, f, s, p)
    BY <1>1, <2>1, <2>2
  <2>3. CASE ~ \E p \in Peers : DrivesAfter(map, evs, f, s, p)
    <3>1. new[s] \notin Peers
      BY <1>1, <2>3
    <3> QED
      BY <2>1, <2>3, <3>1 DEF SlotMaps
  <2> QED
    BY <2>2, <2>3
<1>3. SlotMapAfter(map, evs, f) = [s \in Slots |-> SlotMapAfter(map, evs, f)[s]]
  BY DEF SlotMapAfter
<1> QED
  BY <1>2, <1>3 DEF SlotMaps

(* The events of a frame a second time: nothing more.                      *)
LEMMA AgainIsNothing ==
  ASSUME NEW map, NEW evs, NEW n, NEW f, NEW new, MapBy(new, map, evs, n, f)
  PROVE  MapBy(new, new, evs, n, f)
<1> SUFFICES ASSUME NEW s \in Slots, NEW p \in Peers PROVE new[s] = p <=> DrivesBy(new, evs, n, f, s, p)
  BY DEF MapBy
<1>1. new[s] = p <=> DrivesBy(map, evs, n, f, s, p)
  BY DEF MapBy
<1> QED
  BY <1>1 DEF DrivesBy

(* The closed form of the count is the count the loop ends with.           *)
LEMMA CountIsAfter ==
  ASSUME NEW count, NEW evs \in Seq(Events(Nat)), NEW f, NEW c, CountBy(count, evs, Len(evs), f, c)
  PROVE  c = SlotsInPlayAfter(count, evs, f)
<1> DEFINE N == Len(evs)
<1>1. N \in Nat /\ DOMAIN evs = 1 .. N
  OBVIOUS
<1>2. \A x : LastCount(evs, f, x) <=>
        /\ x \in 1 .. N /\ evs[x].frame = f /\ evs[x].type = "players"
        /\ \A y \in 1 .. N : evs[y].frame = f /\ y > x => evs[y].type # "players"
  BY <1>1 DEF LastCount, At
<1>3. CASE \E x \in 1 .. N : LastCount(evs, f, x)
  <2>1. PICK x \in 1 .. N : LastCount(evs, f, x)
    BY <1>3
  <2>2. \A y \in 1 .. N : LastCount(evs, f, y) => y = x
    BY <1>1, <1>2, <2>1
  <2>3. SlotsInPlayAfter(count, evs, f) = evs[x].a
    <3>1. (CHOOSE y \in DOMAIN evs : LastCount(evs, f, y)) = x
      BY <1>1, <2>1, <2>2
    <3> QED
      BY <1>1, <2>1, <3>1 DEF SlotsInPlayAfter
  <2>4. ~ \A y \in 1 .. N : evs[y].frame = f => evs[y].type # "players"
    BY <1>2, <2>1
  <2>5. PICK z \in 1 .. N : /\ evs[z].frame = f /\ evs[z].type = "players" /\ c = evs[z].a
                            /\ \A y \in z + 1 .. N : evs[y].frame = f => evs[y].type # "players"
    BY <2>4 DEF CountBy
  <2>6. \A y \in 1 .. N : y > z => y \in z + 1 .. N
    BY <1>1
  <2>7. LastCount(evs, f, z)
    BY <1>2, <2>5, <2>6
  <2> QED
    BY <2>2, <2>3, <2>5, <2>7
<1>4. CASE ~ \E x \in 1 .. N : LastCount(evs, f, x)
  <2>1. SlotsInPlayAfter(count, evs, f) = count
    BY <1>1, <1>4 DEF SlotsInPlayAfter
  <2>2. CASE c # count
    <3>1. PICK z \in 1 .. N : /\ evs[z].frame = f /\ evs[z].type = "players" /\ c = evs[z].a
                              /\ \A y \in z + 1 .. N : evs[y].frame = f => evs[y].type # "players"
      BY <2>2 DEF CountBy
    <3>2. \A y \in 1 .. N : y > z => y \in z + 1 .. N
      BY <1>1
    <3>3. LastCount(evs, f, z)
      BY <1>2, <3>1, <3>2
    <3> QED
      BY <1>4, <3>3
  <2> QED
    BY <2>1, <2>2
<1> QED
  BY <1>3, <1>4
-----------------------------------------------------------------------------
(* THE LOOP THAT INSERTS                                                   *)

Sorted(evs) == \A x \in 1 .. Len(evs) : \A y \in x .. Len(evs) : evs[x].frame <= evs[y].frame

(* An insertion gives a list of events, ordered if the list was.           *)
LEMMA InsertIsAList ==
  ASSUME NEW evs \in Seq(Events(Nat)), NEW e \in Events(Nat), NEW k \in 0 .. Len(evs)
  PROVE  /\ Insert(evs, e, k) \in Seq(Events(Nat)) /\ Len(Insert(evs, e, k)) = Len(evs) + 1
         /\ \A x \in 1 .. Len(evs) + 1 :
              Insert(evs, e, k)[x] = IF x <= k THEN evs[x] ELSE IF x = k + 1 THEN e ELSE evs[x - 1]
<1> DEFINE n == Len(evs)
           new == Insert(evs, e, k)
<1>1. n \in Nat /\ \A x \in 1 .. n : evs[x] \in Events(Nat)
  OBVIOUS
<1>2. \A x \in 1 .. n + 1 : (x <= k => x \in 1 .. n) /\ (x > k + 1 => x - 1 \in 1 .. n) /\ (x = k + 1 \/ x <= k \/ x > k + 1)
  BY <1>1
<1>3. new = [x \in 1 .. n + 1 |-> IF x <= k THEN evs[x] ELSE IF x = k + 1 THEN e ELSE evs[x - 1]]
  BY DEF Insert
<1>4. \A x \in 1 .. n + 1 : new[x] \in Events(Nat)
  BY <1>1, <1>2, <1>3
<1>5. new \in [1 .. n + 1 -> Events(Nat)]
  BY <1>3, <1>4
<1>6. n + 1 \in Nat
  BY <1>1
<1> HIDE DEF new, n
<1>7. new \in Seq(Events(Nat)) /\ Len(new) = n + 1
  BY <1>5, <1>6
<1> QED
  BY <1>3, <1>7 DEF new, n

(* Inserted behind what is not later, an event leaves the list ordered.    *)
LEMMA InsertKeepsOrder ==
  ASSUME NEW evs \in Seq(Events(Nat)), NEW e \in Events(Nat), NEW k \in 0 .. Len(evs),
         Sorted(evs), InsertedAfter(evs, e, k)
  PROVE  Sorted(Insert(evs, e, k))
<1> DEFINE n == Len(evs)
           new == Insert(evs, e, k)
<1>1. n \in Nat /\ e.frame \in Nat /\ \A x \in 1 .. n : evs[x].frame \in Nat
  BY EventParts
<1>2. Len(new) = n + 1 /\ \A x \in 1 .. n + 1 :
        new[x] = IF x <= k THEN evs[x] ELSE IF x = k + 1 THEN e ELSE evs[x - 1]
  BY InsertIsAList
<1>3. (\A x \in 1 .. k : evs[x].frame <= e.frame) /\ (\A x \in k + 1 .. n : evs[x].frame > e.frame)
  BY DEF InsertedAfter
<1>4. \A x \in 1 .. n : \A y \in x .. n : evs[x].frame <= evs[y].frame
  BY DEF Sorted
<1> HIDE DEF new, n
<1>5. ASSUME NEW x \in 1 .. n + 1, NEW y \in x .. n + 1 PROVE new[x].frame <= new[y].frame
  <2>0. y \in 1 .. n + 1 /\ n \in Nat /\ k \in 0 .. n
    BY <1>1 DEF n
  <2>1. CASE y <= k
    <3>1. x <= k /\ x \in 1 .. n /\ y \in x .. n
      BY <2>0, <2>1
    <3> QED
      BY <1>2, <1>4, <2>0, <2>1, <3>1
  <2>2. CASE x <= k /\ y = k + 1
    <3>1. x \in 1 .. k
      BY <2>2
    <3>2. new[x] = evs[x] /\ new[y] = e
      BY <1>2, <2>0, <2>2
    <3> QED
      BY <1>3, <3>1, <3>2
  <2>3. CASE x <= k /\ y > k + 1
    <3>1. x \in 1 .. n /\ y - 1 \in x .. n
      BY <2>0, <2>3
    <3>2. new[x] = evs[x] /\ new[y] = evs[y - 1]
      BY <1>2, <2>0, <2>3
    <3> QED
      BY <1>4, <3>1, <3>2
  <2>4. CASE x = k + 1 /\ y = k + 1
    BY <1>1, <1>2, <2>0, <2>4
  <2>5. CASE x = k + 1 /\ y > k + 1
    <3>1. y - 1 \in k + 1 .. n /\ y - 1 \in 1 .. n
      BY <2>0, <2>5
    <3>2. new[x] = e /\ new[y] = evs[y - 1]
      BY <1>2, <2>0, <2>5
    <3> QED
      BY <1>1, <1>3, <3>1, <3>2
  <2>6. CASE x > k + 1
    <3>1. y > k + 1 /\ x - 1 \in 1 .. n /\ y - 1 \in x - 1 .. n
      BY <2>0, <2>6
    <3>2. new[x] = evs[x - 1] /\ new[y] = evs[y - 1]
      BY <1>2, <2>0, <2>6, <3>1
    <3> QED
      BY <1>4, <3>1, <3>2
  <2> QED
    BY <2>0, <2>1, <2>2, <2>3, <2>4, <2>5, <2>6
<1> QED
  BY <1>2, <1>5 DEF Sorted, new
-----------------------------------------------------------------------------
(* THE INVARIANT OF THE LOOPS                                              *)

Roles == {"host", "sent", "joiner", "refused"}

LoopTypes ==
  /\ tape \in Tapes /\ role \in Roles /\ pc \in {"idle", "insert", "apply"}
  /\ events \in Seq(Events(Nat)) /\ i \in Nat
  /\ slotPeer \in SlotMaps /\ Injective(slotPeer) /\ slotsInPlay \in 1 .. NumPeers
  /\ first.events \in Seq(Events(Nat))
  /\ frame \in Nat /\ len \in Nat /\ log.frames \in Nat /\ log.events \in Seq(Events(Nat))

(* Only a session that plays runs a loop, and only a host inserts.         *)
WhoLoops ==
  /\ role \in {"sent", "refused"} => pc = "idle"
  /\ pc = "insert" => role = "host"
  /\ role = "host" => IF pc = "insert" THEN Sorted(first.events) ELSE Sorted(events)

(* The hole is between what is not later than the event, perhaps, and what *)
(* is.                                                                     *)
Inserting ==
  pc = "insert" =>
    /\ arg \in Events(Nat) /\ i \in 0 .. Len(first.events) /\ Len(events) = Len(first.events) + 1
    /\ \A x \in 1 .. i : events[x] = first.events[x]
    /\ \A x \in i + 1 .. Len(first.events) : events[x + 1] = first.events[x] /\ first.events[x].frame > arg.frame

Applying ==
  pc = "apply" =>
    /\ arg \in Nat /\ i \in 0 .. Len(events) /\ first.events = events
    /\ MapBy(slotPeer, first.map, events, i, arg)
    /\ CountBy(first.count, events, i, arg, slotsInPlay)

Inserted ==
  pc = "idle" =>
    \/ Len(events) <= Len(first.events)
    \/ \E k \in 0 .. Len(first.events) :
         InsertedAfter(first.events, arg, k) /\ events = Insert(first.events, arg, k)

LoopInv == LoopTypes /\ WhoLoops /\ Inserting /\ Applying /\ Inserted

(* The property follows: with i at the end, the prefix forms are the       *)
(* closed forms, and applied to their own result they leave it.            *)
LEMMA LoopInvImplies ==
  LoopInv => LoopsAreClosedForms
<1> SUFFICES ASSUME LoopInv PROVE LoopsAreClosedForms
  OBVIOUS
<1>1. events \in Seq(Events(Nat)) /\ slotPeer \in SlotMaps /\ first.events \in Seq(Events(Nat))
  BY DEF LoopInv, LoopTypes
<1>2. ASSUME pc = "idle", Len(events) > Len(first.events)
      PROVE  \E k \in 0 .. Len(first.events) :
               InsertedAfter(first.events, arg, k) /\ events = Insert(first.events, arg, k)
  <2>1. Len(events) \in Nat /\ Len(first.events) \in Nat
    BY <1>1
  <2> QED
    BY <1>2, <2>1 DEF LoopInv, Inserted
<1>3. ASSUME pc = "apply", i = Len(events)
      PROVE  /\ slotPeer = SlotMapAfter(first.map, events, arg)
             /\ slotsInPlay = SlotsInPlayAfter(first.count, events, arg)
             /\ SlotMapAfter(slotPeer, events, arg) = slotPeer
  <2>1. MapBy(slotPeer, first.map, events, Len(events), arg)
    BY <1>3 DEF LoopInv, Applying
  <2>2. CountBy(first.count, events, Len(events), arg, slotsInPlay)
    BY <1>3 DEF LoopInv, Applying
  <2>3. MapBy(slotPeer, slotPeer, events, Len(events), arg)
    BY <2>1, AgainIsNothing
  <2>4. slotPeer = SlotMapAfter(first.map, events, arg)
    BY <1>1, <2>1, MapIsAfter
  <2>5. slotPeer = SlotMapAfter(slotPeer, events, arg)
    BY <1>1, <2>3, MapIsAfter
  <2>6. slotsInPlay = SlotsInPlayAfter(first.count, events, arg)
    BY <1>1, <2>2, CountIsAfter
  <2> QED
    BY <2>4, <2>5, <2>6
<1> QED
  BY <1>2, <1>3 DEF LoopsAreClosedForms

(* The map of PortRbInit seats no peer twice.                              *)
LEMMA FirstMap ==
  FirstSlotMap(NumPlayers) \in SlotMaps /\ Injective(FirstSlotMap(NumPlayers)) /\ NumPeers \in 1 .. NumPeers
<1>1. NumPlayers \in 1 .. NumPeers /\ NumPeers \in Nat \ {0}
  BY SlotMapAssumption, NumPeersAssumption
<1> QED
  BY <1>1 DEF FirstSlotMap, SlotMaps, Slots, Peers, AI, Injective

(* No event at all is a list of events, in order.                          *)
LEMMA NoEventIsSorted ==
  Sorted(<<>>) /\ <<>> \in Seq(Events(Nat)) /\ Len(<<>>) = 0
<1>1. <<>> \in Seq(Events(Nat)) /\ Len(<<>>) = 0
  OBVIOUS
<1> QED
  BY <1>1 DEF Sorted

(* It holds at PortRbInit.                                                 *)
LEMMA LoopInit ==
  Init => LoopInv
<1> SUFFICES ASSUME Init PROVE LoopInv
  OBVIOUS
<1>1. /\ events = <<>> /\ slotPeer = FirstSlotMap(NumPlayers) /\ slotsInPlay = NumPeers /\ pc = "idle"
      /\ i = 0 /\ first.events = <<>>
  BY DEF Init, NoEvents
<1>2. tape \in Tapes /\ role = "host" /\ frame = 0 /\ len = 0
  BY DEF Init, PortRbInit
<1>3. log.frames = 0 /\ log.events = <<>>
  BY DEF Init, NoLog
<1>4. LoopTypes
  BY <1>1, <1>2, <1>3, FirstMap, NoEventIsSorted DEF LoopTypes, Roles
<1>5. WhoLoops /\ Inserting /\ Applying /\ Inserted
  BY <1>1, <1>2, NoEventIsSorted DEF WhoLoops, Inserting, Applying, Inserted
<1> QED
  BY <1>4, <1>5 DEF LoopInv

(* The log and the frames in an event are those of the code.               *)
LEMMA TapeEvents ==
  ASSUME tape \in Tapes
  PROVE  tape.events \subseteq Events(Nat)
<1>1. tape.events \subseteq Events(EventFrames) /\ EventFrames \subseteq Nat
  BY RbLogAssumption, SlotMapAssumption
<1>2. Events(EventFrames) \subseteq Events(Nat)
  BY <1>1 DEF Events, PlayersEvents, SlotEvents
<1> QED
  BY <1>1, <1>2

(* A frame begins: the loop has applied nothing yet.                       *)
LEMMA HookStep ==
  LoopInv /\ Hook => LoopInv'
<1> SUFFICES ASSUME LoopInv, Hook PROVE LoopInv'
  OBVIOUS
<1>1. /\ pc = "idle" /\ pc' = "apply" /\ arg' = frame /\ i' = 0
      /\ first'.events = events /\ first'.map = slotPeer /\ first'.count = slotsInPlay
      /\ events' = events /\ slotPeer' = slotPeer /\ slotsInPlay' = slotsInPlay
  BY DEF Hook, ApplyEventsFor, Now
<1>2. tape' = tape /\ role' = role /\ frame' = frame /\ log' = log /\ role \in {"host", "joiner"}
  BY DEF Hook, Live
<1>3. len' \in Nat
  <2>1. len \in Nat /\ frame + 1 \in Nat
    BY DEF LoopInv, LoopTypes
  <2>2. len' = Max({len, frame + 1})
    BY DEF Hook
  <2> QED
    BY <2>1, <2>2, MaxOfTwo
<1>4. LoopTypes'
  BY <1>1, <1>2, <1>3 DEF LoopInv, LoopTypes
<1>5. WhoLoops'
  BY <1>1, <1>2 DEF LoopInv, WhoLoops, Sorted
<1>6. Applying'
  <2>1. MapBy(slotPeer', first'.map, events', i', arg') /\ CountBy(first'.count, events', i', arg', slotsInPlay')
    BY <1>1, BeforeAnyEvent
  <2>2. arg' \in Nat /\ i' \in 0 .. Len(events')
    BY <1>1 DEF LoopInv, LoopTypes
  <2> QED
    BY <1>1, <2>1, <2>2 DEF Applying
<1>7. Inserting' /\ Inserted'
  BY <1>1 DEF Inserting, Inserted
<1> QED
  BY <1>4, <1>5, <1>6, <1>7 DEF LoopInv

(* A frame ends: the list is what it was when the loop began.              *)
LEMMA AppliedStep ==
  LoopInv /\ ApplySlotInputs => LoopInv'
<1> SUFFICES ASSUME LoopInv, ApplySlotInputs PROVE LoopInv'
  OBVIOUS
<1>1. /\ pc = "apply" /\ pc' = "idle" /\ i' = i /\ arg' = arg /\ first' = first
      /\ events' = events /\ slotPeer' = slotPeer /\ slotsInPlay' = slotsInPlay
  BY DEF ApplySlotInputs, Applied
<1>2. tape' = tape /\ role' = role /\ frame' = frame + 1 /\ log' = log /\ len' = len
  BY DEF ApplySlotInputs
<1>3. LoopTypes'
  BY <1>1, <1>2 DEF LoopInv, LoopTypes
<1>4. WhoLoops'
  BY <1>1, <1>2 DEF LoopInv, WhoLoops, Sorted
<1>5. Inserted'
  <2>1. first.events = events /\ Len(events) \in Nat
    BY <1>1 DEF LoopInv, LoopTypes, Applying
  <2>2. Len(events) <= Len(first.events)
    BY <2>1
  <2> QED
    BY <1>1, <2>2 DEF Inserted
<1>6. Inserting' /\ Applying'
  BY <1>1 DEF Inserting, Applying
<1> QED
  BY <1>3, <1>4, <1>5, <1>6 DEF LoopInv

(* An event is taken in, and the hole is at the end.                       *)
LEMMA ScheduleStep ==
  LoopInv /\ PortRbScheduleEvent => LoopInv'
<1> SUFFICES ASSUME LoopInv, PortRbScheduleEvent PROVE LoopInv'
  OBVIOUS
<1>0. PICK e \in tape.events : ScheduleEvent(e)
  BY DEF PortRbScheduleEvent
<1>1. /\ pc = "idle" /\ pc' = "insert" /\ arg' = e /\ i' = Len(events) /\ events' = Append(events, e)
      /\ first'.events = events /\ slotPeer' = slotPeer /\ slotsInPlay' = slotsInPlay
  BY <1>0 DEF ScheduleEvent, Now
<1>2. role = "host" /\ tape' = tape /\ role' = role /\ frame' = frame /\ log' = log /\ len' = len
  BY DEF PortRbScheduleEvent, Untouched, logVars
<1>3. e \in Events(Nat) /\ events \in Seq(Events(Nat)) /\ Len(events) \in Nat
  BY TapeEvents DEF LoopInv, LoopTypes
<1>4. LoopTypes'
  BY <1>1, <1>2, <1>3 DEF LoopInv, LoopTypes
<1>5. WhoLoops'
  BY <1>1, <1>2 DEF LoopInv, WhoLoops, Sorted
<1>6. Inserting'
  BY <1>1, <1>3 DEF Inserting
<1>7. Applying' /\ Inserted'
  BY <1>1 DEF Applying, Inserted
<1> QED
  BY <1>4, <1>5, <1>6, <1>7 DEF LoopInv

(* A later event moves up, and the hole down.                              *)
LEMMA ShiftStep ==
  LoopInv /\ Shift /\ Untouched => LoopInv'
<1> SUFFICES ASSUME LoopInv, Shift, Untouched PROVE LoopInv'
  OBVIOUS
<1>1. /\ pc = "insert" /\ pc' = pc /\ arg' = arg /\ i' = i - 1 /\ events' = [events EXCEPT ![i + 1] = events[i]]
      /\ first' = first /\ slotPeer' = slotPeer /\ slotsInPlay' = slotsInPlay
      /\ i > 0 /\ events[i].frame > arg.frame
  BY DEF Shift, Later
<1>2. tape' = tape /\ role' = role /\ frame' = frame /\ log' = log /\ len' = len
  BY DEF Untouched, logVars
<1>3. /\ events \in Seq(Events(Nat)) /\ first.events \in Seq(Events(Nat)) /\ Len(first.events) \in Nat
      /\ i \in 0 .. Len(first.events) /\ Len(events) = Len(first.events) + 1
  BY <1>1 DEF LoopInv, LoopTypes, Inserting
<1>4. events' \in Seq(Events(Nat)) /\ Len(events') = Len(events) /\ i' \in Nat
  BY <1>1, <1>3
<1>5. \A x \in 1 .. Len(events) : events'[x] = IF x = i + 1 THEN events[i] ELSE events[x]
  BY <1>1, <1>3
<1>6. LoopTypes'
  BY <1>1, <1>2, <1>4 DEF LoopInv, LoopTypes
<1>7. WhoLoops'
  BY <1>1, <1>2 DEF LoopInv, WhoLoops, Sorted
<1>8. Inserting'
  <2>1. ASSUME NEW x \in 1 .. i' PROVE events'[x] = first'.events[x]
    <3>1. x \in 1 .. i /\ x \in 1 .. Len(events) /\ x # i + 1
      BY <1>1, <1>3, <2>1
    <3> QED
      BY <1>1, <1>5, <3>1 DEF LoopInv, Inserting
  <2>2. ASSUME NEW x \in i' + 1 .. Len(first'.events)
        PROVE  events'[x + 1] = first'.events[x] /\ first'.events[x].frame > arg'.frame
    <3>1. x \in i .. Len(first.events) /\ x + 1 \in 1 .. Len(events) /\ (x = i \/ x \in i + 1 .. Len(first.events))
      BY <1>1, <1>3, <2>2
    <3>2. CASE x = i
      <4>1. events'[x + 1] = events[i]
        BY <1>5, <3>1, <3>2
      <4>2. events[i] = first.events[i]
        <5>1. i \in 1 .. i
          BY <1>1, <1>3
        <5> QED
          BY <1>1, <5>1 DEF LoopInv, Inserting
      <4> QED
        BY <1>1, <3>2, <4>1, <4>2
    <3>3. CASE x \in i + 1 .. Len(first.events)
      <4>1. events[x + 1] = first.events[x] /\ first.events[x].frame > arg.frame
        BY <1>1, <3>3 DEF LoopInv, Inserting
      <4>2. x + 1 # i + 1
        BY <3>3, <1>3
      <4>3. events'[x + 1] = events[x + 1]
        BY <1>5, <3>1, <4>2
      <4> QED
        BY <1>1, <4>1, <4>3
    <3> QED
      BY <3>1, <3>2, <3>3
  <2>3. i' \in 0 .. Len(first'.events) /\ Len(events') = Len(first'.events) + 1 /\ arg' \in Events(Nat)
    BY <1>1, <1>3, <1>4 DEF LoopInv, Inserting
  <2> QED
    BY <2>1, <2>2, <2>3 DEF Inserting
<1>9. Applying' /\ Inserted'
  BY <1>1 DEF Applying, Inserted
<1> QED
  BY <1>6, <1>7, <1>8, <1>9 DEF LoopInv

(* The event goes into the hole: below it nothing is later, the list       *)
(* having been ordered.                                                    *)
LEMMA PlaceStep ==
  LoopInv /\ Place /\ Untouched => LoopInv'
<1> SUFFICES ASSUME LoopInv, Place, Untouched PROVE LoopInv'
  OBVIOUS
<1>1. /\ pc = "insert" /\ pc' = "idle" /\ arg' = arg /\ i' = i /\ events' = [events EXCEPT ![i + 1] = arg]
      /\ first' = first /\ slotPeer' = slotPeer /\ slotsInPlay' = slotsInPlay
      /\ ~(i > 0 /\ events[i].frame > arg.frame)
  BY DEF Place, Later
<1>2. tape' = tape /\ role' = role /\ frame' = frame /\ log' = log /\ len' = len
  BY DEF Untouched, logVars
<1>3. /\ events \in Seq(Events(Nat)) /\ first.events \in Seq(Events(Nat)) /\ Len(first.events) \in Nat
      /\ i \in 0 .. Len(first.events) /\ Len(events) = Len(first.events) + 1 /\ arg \in Events(Nat)
      /\ \A x \in 1 .. i : events[x] = first.events[x]
      /\ \A x \in i + 1 .. Len(first.events) : events[x + 1] = first.events[x] /\ first.events[x].frame > arg.frame
  BY <1>1 DEF LoopInv, LoopTypes, Inserting
<1>4. role = "host" /\ Sorted(first.events)
  BY <1>1 DEF LoopInv, WhoLoops
<1> DEFINE old == first.events
           new == Insert(old, arg, i)
<1>5. InsertedAfter(old, arg, i)
  <2>1. ASSUME NEW x \in 1 .. i PROVE old[x].frame <= arg.frame
    <3>1. i \in 1 .. i /\ i > 0 /\ i \in x .. Len(old) /\ x \in 1 .. Len(old) /\ i \in 1 .. Len(old)
      BY <1>3
    <3>2. events[i] = old[i]
      BY <1>3, <3>1
    <3>3. old[x].frame \in Nat /\ old[i].frame \in Nat /\ arg.frame \in Nat
      BY <1>3, <3>1, EventParts
    <3>4. old[i].frame <= arg.frame
      BY <1>1, <3>1, <3>2, <3>3
    <3>5. old[x].frame <= old[i].frame
      BY <1>4, <3>1 DEF Sorted
    <3> QED
      BY <3>3, <3>4, <3>5
  <2> QED
    BY <1>3, <2>1 DEF InsertedAfter
<1>6. /\ new \in Seq(Events(Nat)) /\ Len(new) = Len(old) + 1
      /\ \A x \in 1 .. Len(old) + 1 : new[x] = IF x <= i THEN old[x] ELSE IF x = i + 1 THEN arg ELSE old[x - 1]
  BY <1>3, InsertIsAList
<1>7. Sorted(new)
  BY <1>3, <1>4, <1>5, InsertKeepsOrder
<1> HIDE DEF new, old
<1>8. events' = new
  <2>1. events' \in Seq(Events(Nat)) /\ Len(events') = Len(events)
    BY <1>1, <1>3
  <2>2. ASSUME NEW x \in 1 .. Len(events) PROVE events'[x] = new[x]
    <3>1. events'[x] = IF x = i + 1 THEN arg ELSE events[x]
      BY <1>1, <1>3
    <3>2. x \in 1 .. Len(old) + 1 /\ (x <= i => x \in 1 .. i) /\ (x > i + 1 => x - 1 \in i + 1 .. Len(old) /\ (x - 1) + 1 = x)
      BY <1>3, <2>2 DEF old
    <3>3. x <= i \/ x = i + 1 \/ x > i + 1
      BY <1>3, <2>2
    <3>4. CASE x <= i
      <4>1. x # i + 1
        BY <1>3, <3>4
      <4> QED
        BY <1>3, <1>6, <3>1, <3>2, <3>4, <4>1 DEF old
    <3>5. CASE x = i + 1
      <4>1. ~(x <= i)
        BY <1>3, <3>5
      <4> QED
        BY <1>6, <3>1, <3>2, <3>5, <4>1
    <3>6. CASE x > i + 1
      <4>1. ~(x <= i) /\ x # i + 1
        BY <1>3, <3>6
      <4>2. events[x] = old[x - 1]
        BY <1>3, <3>2, <3>6 DEF old
      <4> QED
        BY <1>6, <3>1, <3>2, <4>1, <4>2
    <3> QED
      BY <3>3, <3>4, <3>5, <3>6
  <2> QED
    BY <1>3, <1>6, <2>1, <2>2 DEF old
<1>9. LoopTypes'
  BY <1>1, <1>2, <1>6, <1>8 DEF LoopInv, LoopTypes
<1>10. WhoLoops'
  BY <1>1, <1>2, <1>7, <1>8 DEF LoopInv, WhoLoops, Sorted
<1>11. Inserted'
  <2>1. i \in 0 .. Len(old) /\ old = first.events
    BY <1>3 DEF old
  <2>2. \E k \in 0 .. Len(first.events) :
          InsertedAfter(first.events, arg, k) /\ new = Insert(first.events, arg, k)
    BY <1>5, <2>1 DEF new
  <2> QED
    BY <1>1, <1>8, <2>2 DEF Inserted
<1>12. Inserting' /\ Applying'
  BY <1>1 DEF Inserting, Applying
<1> QED
  BY <1>9, <1>10, <1>11, <1>12 DEF LoopInv

(* An event is applied, or is of another frame.                            *)
LEMMA ApplyStep ==
  LoopInv /\ ApplyEvent /\ Untouched => LoopInv'
<1> SUFFICES ASSUME LoopInv, ApplyEvent, Untouched PROVE LoopInv'
  OBVIOUS
<1> DEFINE m == i + 1
           e == events[m]
<1>1. /\ pc = "apply" /\ pc' = pc /\ arg' = arg /\ i' = m /\ i < Len(events) /\ events' = events /\ first' = first
      /\ \/ e.frame # arg /\ slotPeer' = slotPeer /\ slotsInPlay' = slotsInPlay
         \/ e.frame = arg /\ e.type = "players" /\ slotsInPlay' = e.a /\ slotPeer' = slotPeer
         \/ e.frame = arg /\ e.type = "slot" /\ slotPeer' = AssignSlot(slotPeer, e.a, e.b) /\ slotsInPlay' = slotsInPlay
  BY DEF ApplyEvent
<1>2. tape' = tape /\ role' = role /\ frame' = frame /\ log' = log /\ len' = len
  BY DEF Untouched, logVars
<1>3. /\ events \in Seq(Events(Nat)) /\ i \in Nat /\ slotPeer \in SlotMaps /\ Injective(slotPeer)
      /\ slotsInPlay \in 1 .. NumPeers
  BY DEF LoopInv, LoopTypes
<1>4. /\ MapBy(slotPeer, first.map, events, i, arg) /\ CountBy(first.count, events, i, arg, slotsInPlay)
      /\ first.events = events /\ arg \in Nat
  BY <1>1 DEF LoopInv, Applying
<1>5. e \in Events(Nat) /\ m \in 0 .. Len(events) /\ m \in Nat
  BY <1>1, <1>3
<1>6. /\ ~(e.frame = arg /\ e.type = "slot") => MapBy(slotPeer, first.map, events, m, arg)
      /\ e.frame = arg /\ e.type = "slot" =>
           MapBy(AssignSlot(slotPeer, e.a, e.b), first.map, events, m, arg)
  BY <1>1, <1>3, <1>4, AnEventApplied
<1>7. /\ e.frame = arg /\ e.type = "players" => CountBy(first.count, events, m, arg, e.a)
      /\ ~(e.frame = arg /\ e.type = "players") => CountBy(first.count, events, m, arg, slotsInPlay)
  BY <1>3, <1>4, OneCountMore
<1>8. e.type = "slot" =>
        AssignSlot(slotPeer, e.a, e.b) \in SlotMaps /\ Injective(AssignSlot(slotPeer, e.a, e.b))
  BY <1>3, <1>5, EventParts, WhoMoved, StillInjective
<1>9. e.type = "players" => e.a \in 1 .. NumPeers
  BY <1>5, EventParts
<1> HIDE DEF e, m
<1>10. MapBy(slotPeer', first.map, events, m, arg) /\ CountBy(first.count, events, m, arg, slotsInPlay')
  <2>1. CASE e.frame # arg
    BY <1>1, <1>6, <1>7, <2>1
  <2>2. CASE e.frame = arg /\ e.type = "players"
    BY <1>1, <1>6, <1>7, <2>2
  <2>3. CASE e.frame = arg /\ e.type = "slot"
    BY <1>1, <1>6, <1>7, <2>3
  <2> QED
    BY <1>1, <2>1, <2>2, <2>3
<1>11. slotPeer' \in SlotMaps /\ Injective(slotPeer') /\ slotsInPlay' \in 1 .. NumPeers
  BY <1>1, <1>3, <1>8, <1>9
<1>12. LoopTypes'
  BY <1>1, <1>2, <1>5, <1>11 DEF LoopInv, LoopTypes
<1>13. WhoLoops'
  BY <1>1, <1>2 DEF LoopInv, WhoLoops, Sorted
<1>14. Applying'
  BY <1>1, <1>4, <1>5, <1>10 DEF Applying
<1>15. Inserting' /\ Inserted'
  BY <1>1 DEF Inserting, Inserted
<1> QED
  BY <1>12, <1>13, <1>14, <1>15 DEF LoopInv

(* The encoding runs no loop.                                              *)
LEMMA EncodeStep ==
  LoopInv /\ PortRbEncodeLog => LoopInv'
<1> SUFFICES ASSUME LoopInv, PortRbEncodeLog PROVE LoopInv'
  OBVIOUS
<1>1. /\ pc = "idle" /\ pc' = pc /\ arg' = arg /\ i' = i /\ events' = events /\ first' = first
      /\ slotPeer' = slotPeer /\ slotsInPlay' = slotsInPlay
  BY DEF PortRbEncodeLog, loopVars
<1>2. tape' = tape /\ role' = "sent" /\ frame' = frame /\ len' = len /\ log'.frames = len /\ log'.events = events
  BY DEF PortRbEncodeLog, EncodeLog
<1>3. LoopTypes'
  BY <1>1, <1>2 DEF LoopInv, LoopTypes, Roles
<1>4. WhoLoops' /\ Inserting' /\ Applying'
  BY <1>1, <1>2 DEF WhoLoops, Inserting, Applying
<1>5. Inserted'
  BY <1>1 DEF LoopInv, Inserted
<1> QED
  BY <1>3, <1>4, <1>5 DEF LoopInv

(* What both ways of starting over have in common.                         *)
LEMMA StartStep ==
  ASSUME LoopInv, StartsOver, role' \in {"joiner", "refused"}, len' \in Nat,
         events' \in Seq(Events(Nat)), first'.events = events'
  PROVE  LoopInv'
<1>1. /\ slotPeer' = FirstSlotMap(NumPlayers) /\ slotsInPlay' = NumPeers /\ i' = 0 /\ pc' = "idle"
      /\ frame' = 0 /\ tape' = tape /\ log' = log
  BY DEF StartsOver
<1>2. LoopTypes'
  BY <1>1, FirstMap DEF LoopInv, LoopTypes, Roles
<1>3. WhoLoops' /\ Inserting' /\ Applying'
  BY <1>1 DEF WhoLoops, Inserting, Applying
<1>4. Inserted'
  <2>1. Len(events') <= Len(first'.events)
    <3>1. Len(events') \in Nat
      OBVIOUS
    <3> QED
      BY <3>1
  <2> QED
    BY <2>1 DEF Inserted
<1> QED
  BY <1>2, <1>3, <1>4 DEF LoopInv

(* The seat is an event.                                                   *)
LEMMA SeatIsAnEvent ==
  ASSUME log.frames \in Nat, NEW slot \in Slots, NEW peer \in Peers
  PROVE  Seat(slot, peer) \in Events(Nat) /\ Seat(slot, peer).frame = log.frames + Depth + Slack
<1>1. log.frames + Depth + Slack \in Nat
  BY RbLogAssumption
<1> QED
  BY <1>1 DEF Seat, Events, SlotEvents

(* The first of a list of events are events.                               *)
LEMMA FirstOfEvents ==
  ASSUME NEW evs \in Seq(Events(Nat)), NEW c \in Nat
  PROVE  SubSeq(evs, 1, Min({Len(evs), c})) \in Seq(Events(Nat))
<1>1. Len(evs) \in Nat
  OBVIOUS
<1>2. PICK n \in Nat : n = Min({Len(evs), c}) /\ n <= Len(evs)
  BY <1>1, MinOfTwo
<1>3. 1 \in 1 .. Len(evs) + 1 /\ n \in 1 - 1 .. Len(evs)
  BY <1>1, <1>2
<1>4. SubSeq(evs, 1, n) \in Seq(Events(Nat))
  BY <1>3, SubSeqProperties
<1> QED
  BY <1>2, <1>4

(* A joiner starts with the events of the log and its seat.                *)
LEMMA JoinStep ==
  ASSUME LoopInv, NEW slot \in Slots, NEW peer \in Peers, PortRbJoin(slot, peer)
  PROVE  LoopInv'
<1> DEFINE decoded == EventsRead(log)
<1>1. log.frames \in Nat /\ log.events \in Seq(Events(Nat)) /\ MaxEvents \in Nat
  BY SlotMapAssumption DEF LoopInv, LoopTypes
<1>2. decoded \in Seq(Events(Nat))
  BY <1>1, FirstOfEvents DEF EventsRead
<1> HIDE DEF decoded
<1>3. StartsOver /\ len' = log.frames /\ first'.events = events'
  BY DEF PortRbJoin
<1>4. \/ /\ role' = "joiner"
         /\ \E k \in 0 .. Len(decoded) : events' = Insert(decoded, Seat(slot, peer), k)
      \/ role' = "refused" /\ events' = decoded
  BY DEF PortRbJoin, decoded
<1>5. events' \in Seq(Events(Nat)) /\ role' \in {"joiner", "refused"}
  <2>1. Seat(slot, peer) \in Events(Nat)
    BY <1>1, SeatIsAnEvent
  <2>2. ASSUME NEW k \in 0 .. Len(decoded) PROVE Insert(decoded, Seat(slot, peer), k) \in Seq(Events(Nat))
    BY <1>2, <2>1, InsertIsAList
  <2> QED
    BY <1>2, <1>4, <2>2
<1> QED
  BY <1>1, <1>3, <1>5, StartStep

(* One refused starts with no event, or with those that were read.         *)
LEMMA RefusedStep ==
  ASSUME LoopInv, NEW n \in Int, JoinRefused(n)
  PROVE  LoopInv'
<1>1. /\ StartsOver /\ len' = 0 /\ first'.events = events' /\ role' = "refused"
      /\ events' = <<>> \/ events' = EventsRead(Cut(log, n))
  BY DEF JoinRefused
<1>2. log.events \in Seq(Events(Nat)) /\ MaxEvents \in Nat
  BY SlotMapAssumption DEF LoopInv, LoopTypes
<1>3. Cut(log, n).events \in Seq(Events(Nat))
  <2> DEFINE fit == {k \in 0 .. Len(log.events) : k = 0 \/ (Header + 2 * Len(log.words)) + k * 7 <= n}
  <2>1. Len(log.events) \in Nat /\ fit \in SUBSET (0 .. Len(log.events)) /\ 0 \in fit
    BY <1>2
  <2>2. Cut(log, n).events = SubSeq(log.events, 1, Max(fit))
    BY DEF Cut
  <2> HIDE DEF fit
  <2>3. Max(fit) \in 0 .. Len(log.events)
    BY <2>1, MaxOfSet
  <2>4. SubSeq(log.events, 1, Max(fit)) \in Seq(Events(Nat))
    <3>1. 1 \in 1 .. Len(log.events) + 1 /\ Max(fit) \in 1 - 1 .. Len(log.events)
      BY <2>1, <2>3
    <3> QED
      BY <1>2, <3>1, SubSeqProperties
  <2> QED
    BY <2>2, <2>4
<1>4. EventsRead(Cut(log, n)) \in Seq(Events(Nat))
  BY <1>2, <1>3, FirstOfEvents DEF EventsRead
<1> QED
  BY <1>1, <1>4, NoEventIsSorted, StartStep

(* Every step keeps it.                                                    *)
LEMMA LoopNext ==
  LoopInv /\ [Next]_vars => LoopInv'
<1> SUFFICES ASSUME LoopInv, [Next]_vars PROVE LoopInv'
  OBVIOUS
<1>1. CASE UNCHANGED vars
  <2>1. UNCHANGED <<events, slotPeer, slotsInPlay, pc, i, arg, first, tape, role, frame, len, log>>
    BY <1>1 DEF vars, loopVars, logVars
  <2> QED
    BY <2>1 DEF LoopInv, LoopTypes, WhoLoops, Inserting, Applying, Inserted, Sorted, MapBy, CountBy
<1>2. CASE Next
  <2>1. CASE Hook
    BY <2>1, HookStep
  <2>2. CASE ApplySlotInputs
    BY <2>2, AppliedStep
  <2>3. CASE PortRbScheduleEvent
    BY <2>3, ScheduleStep
  <2>4. CASE (Shift \/ Place \/ ApplyEvent) /\ Untouched
    BY <2>4, ShiftStep, PlaceStep, ApplyStep
  <2>5. CASE PortRbEncodeLog
    BY <2>5, EncodeStep
  <2>6. CASE \E slot \in Slots, peer \in Peers : PortRbJoin(slot, peer)
    BY <2>6, JoinStep
  <2>7. CASE \E n \in 0 .. log.size : JoinRefused(n)
    BY <2>7, RefusedStep
  <2> QED
    BY <1>2, <2>1, <2>2, <2>3, <2>4, <2>5, <2>6, <2>7 DEF Next
<1> QED
  BY <1>1, <1>2

(* SlotMap.tla's property, of the session of RbLog.tla:                    *)
(* PortRbScheduleEvent leaves the list ordered with the new event behind   *)
(* those of its frame, and ApplyEventsFor leaves the map and the count     *)
(* that the last events of the frame give, which a second application does *)
(* not change, for any number of peers and any list of events.             *)
THEOREM LoopsEndInClosedForms ==
  Spec => []LoopsAreClosedForms
<1>1. Init => LoopInv
  BY LoopInit
<1>2. LoopInv /\ [Next]_vars => LoopInv'
  BY LoopNext
<1>3. LoopInv => LoopsAreClosedForms
  BY LoopInvImplies
<1> QED
  BY <1>1, <1>2, <1>3, PTL DEF Spec
-----------------------------------------------------------------------------
(* THE RUNS OF A COLUMN                                                    *)

Run == [word : Nat, more : Nat]

(* A run is of one word, of one frame at least, and fits.                  *)
LEMMA RunFits ==
  ASSUME NEW column \in Seq(Nat), NEW f \in 0 .. Len(column) - 1
  PROVE  /\ RunAt(column, f) \in 1 .. RunMax /\ f + RunAt(column, f) <= Len(column)
         /\ \A k \in 1 .. RunAt(column, f) : column[f + k] = column[f + 1]
<1> DEFINE S == {n \in 1 .. Min({RunMax, Len(column) - f}) : \A k \in 1 .. n : column[f + k] = column[f + 1]}
<1>1. RunMax \in Nat \ {0} /\ Len(column) \in Nat /\ Len(column) - f \in Nat \ {0}
  BY RbLogAssumption
<1>2. PICK b \in Nat \ {0} : b = Min({RunMax, Len(column) - f}) /\ b <= RunMax /\ b <= Len(column) - f
  BY <1>1, MinOfTwo
<1>3. S = {n \in 1 .. b : \A k \in 1 .. n : column[f + k] = column[f + 1]}
  BY <1>2
<1>6. RunAt(column, f) = Max(S)
  BY DEF RunAt
<1> HIDE DEF S
<1>4. 1 \in S
  <2>1. 1 \in 1 .. b /\ \A k \in 1 .. 1 : k = 1
    BY <1>2
  <2> QED
    BY <1>3, <2>1
<1>5. S \in SUBSET (0 .. b) /\ S # {}
  <2>1. ASSUME NEW n \in S PROVE n \in 0 .. b
    <3>1. n \in 1 .. b
      BY <1>3
    <3> QED
      BY <3>1
  <2> QED
    BY <1>4, <2>1
<1>7. RunAt(column, f) \in S
  BY <1>2, <1>5, <1>6, MaxOfSet
<1>8. PICK r \in 1 .. b : r = RunAt(column, f) /\ \A k \in 1 .. r : column[f + k] = column[f + 1]
  BY <1>3, <1>7
<1>9. r \in 1 .. RunMax /\ f + r <= Len(column)
  BY <1>1, <1>2, <1>8
<1> QED
  BY <1>8, <1>9

(* The runs from frame f on, of which those from the end on are known.     *)
RunsFrom(column, t, f) ==
  IF f = Len(column) THEN <<>>
  ELSE <<[word |-> column[f + 1], more |-> (RunAt(column, f) - 1) % RunMax]>> \o t[f + RunAt(column, f)]

(* A run's count fits its field, so that nothing is lost of it.            *)
LEMMA OneRun ==
  ASSUME NEW column \in Seq(Nat), NEW f \in 0 .. Len(column) - 1
  PROVE  /\ [word |-> column[f + 1], more |-> (RunAt(column, f) - 1) % RunMax] \in Run
         /\ (RunAt(column, f) - 1) % RunMax = RunAt(column, f) - 1
<1>1. PICK r \in 1 .. RunMax : r = RunAt(column, f)
  BY RunFits
<1>2. RunMax \in Nat \ {0} /\ f + 1 \in 1 .. Len(column)
  BY RbLogAssumption
<1>3. (r - 1) % RunMax = r - 1
  BY <1>2
<1>4. column[f + 1] \in Nat /\ r - 1 \in Nat
  BY <1>2
<1> QED
  BY <1>1, <1>3, <1>4 DEF Run

(* The recursion has a solution, and Runs is it.                           *)
LEMMA RunsExist ==
  ASSUME NEW column \in Seq(Nat)
  PROVE  \E t \in [0 .. Len(column) -> Seq(Run)] :
           /\ \A f \in 0 .. Len(column) : t[f] = RunsFrom(column, t, f)
           /\ Runs(column) = t[0]
<1> DEFINE N == Len(column)
           Up(t, m) == \A f \in N - m .. N : t[f] = RunsFrom(column, t, f)
           There == {m \in 0 .. N : \E t \in [0 .. N -> Seq(Run)] : Up(t, m)}
<1>0. N \in Nat /\ <<>> \in Seq(Run)
  OBVIOUS
<1>1. 0 \in There
  <2> DEFINE t == [f \in 0 .. N |-> <<>>]
  <2>1. t \in [0 .. N -> Seq(Run)]
    BY <1>0
  <2>2. ASSUME NEW f \in N - 0 .. N PROVE t[f] = RunsFrom(column, t, f)
    <3>1. f = N /\ f \in 0 .. N
      BY <1>0, <2>2
    <3> QED
      BY <3>1 DEF RunsFrom
  <2> QED
    BY <1>0, <2>1, <2>2
<1>2. ASSUME NEW m \in 1 .. N, m - 1 \in There PROVE m \in There
  <2>1. PICK t \in [0 .. N -> Seq(Run)] : Up(t, m - 1)
    BY <1>2
  <2>2. PICK g \in 0 .. N - 1 : g = N - m
    <3>1. N - m \in 0 .. N - 1
      BY <1>0
    <3> QED
      BY <3>1
  <2>3. PICK r \in 1 .. N : r = RunAt(column, g) /\ g + r \in g + 1 .. N
    <3>1. RunAt(column, g) \in 1 .. RunMax /\ g + RunAt(column, g) <= N
      BY RunFits
    <3>2. PICK r \in Nat \ {0} : r = RunAt(column, g)
      BY <3>1
    <3>3. r \in 1 .. N /\ g + r \in g + 1 .. N
      BY <1>0, <3>1, <3>2
    <3> QED
      BY <3>2, <3>3
  <2> DEFINE run == [word |-> column[g + 1], more |-> (RunAt(column, g) - 1) % RunMax]
             u == [t EXCEPT ![g] = <<run>> \o t[g + r]]
  <2>4. run \in Run
    BY OneRun
  <2> HIDE DEF run
  <2>5. <<run>> \o t[g + r] \in Seq(Run)
    <3>1. t[g + r] \in Seq(Run)
      BY <2>2, <2>3
    <3> QED
      BY <2>4, <3>1
  <2>6. u \in [0 .. N -> Seq(Run)]
    BY <2>5
  <2>7. ASSUME NEW f \in N - m .. N PROVE u[f] = RunsFrom(column, u, f)
    <3>1. f \in 0 .. N /\ (f = g \/ f \in N - (m - 1) .. N)
      BY <1>0, <2>2, <2>7
    <3>2. CASE f = g
      <4>1. u[f] = <<run>> \o t[g + r]
        BY <3>1, <3>2
      <4>2. g + r # g /\ g + r \in 0 .. N
        BY <2>2, <2>3
      <4>3. u[g + r] = t[g + r]
        BY <4>2
      <4>4. f # Len(column)
        BY <2>2, <3>2
      <4> QED
        BY <2>3, <3>2, <4>1, <4>3, <4>4 DEF RunsFrom, run
    <3>3. CASE f # g
      <4>1. f \in N - (m - 1) .. N /\ u[f] = t[f]
        BY <3>1, <3>3
      <4>2. t[f] = RunsFrom(column, t, f)
        BY <2>1, <4>1
      <4>3. CASE f = N
        BY <4>1, <4>2, <4>3 DEF RunsFrom
      <4>4. CASE f # N
        <5>1. f \in 0 .. N - 1 /\ f > g
          BY <1>0, <2>2, <4>1, <4>4
        <5>2. PICK q \in 1 .. N : q = RunAt(column, f) /\ f + q \in 0 .. N
          BY <1>0, <5>1, RunFits
        <5>3. u[f + q] = t[f + q]
          BY <5>1, <5>2, <2>2
        <5> QED
          BY <4>1, <4>2, <4>4, <5>2, <5>3 DEF RunsFrom
      <4> QED
        BY <4>3, <4>4
    <3> QED
      BY <3>2, <3>3
  <2> HIDE DEF u
  <2>8. Up(u, m)
    BY <2>7
  <2>9. m \in 0 .. N
    OBVIOUS
  <2> QED
    BY <2>6, <2>8, <2>9
<1>3. \A n \in 1 .. N : n - 1 \in There => n \in There
  BY <1>2
<1> HIDE DEF There
<1>4. N \in There
  <2>1. \A n \in 0 .. N : n \in There
    BY <1>0, <1>1, <1>3, UpTo
  <2> QED
    BY <1>0, <2>1
<1>5. PICK t \in [0 .. N -> Seq(Run)] : Up(t, N)
  BY <1>4 DEF There
<1>6. \A f \in 0 .. N : t[f] = RunsFrom(column, t, f)
  <2>1. N - N = 0
    BY <1>0
  <2> QED
    BY <1>5, <2>1
<1> DEFINE Solves(h) == h = [f \in 0 .. N |-> RunsFrom(column, h, f)]
           from == CHOOSE h : Solves(h)
<1>7. Solves(t)
  BY <1>6
<1>8. Solves(from)
  BY <1>7
<1>9. Runs(column) = from[0]
  BY ZenonT(60) DEF Runs, RunsFrom
<1>10. from \in [0 .. N -> Seq(Run)] /\ \A f \in 0 .. N : from[f] = RunsFrom(column, from, f)
  <2>1. \A f \in 0 .. N : from[f] = RunsFrom(column, from, f)
    BY <1>8
  <2> DEFINE Same == {m \in 0 .. N : \A f \in N - m .. N : from[f] = t[f]}
  <2>2. 0 \in Same
    <3>1. ASSUME NEW f \in N - 0 .. N PROVE from[f] = t[f]
      <4>1. f = Len(column) /\ f \in 0 .. N
        BY <1>0, <3>1
      <4> QED
        BY <1>6, <2>1, <4>1 DEF RunsFrom
    <3> QED
      BY <1>0, <3>1
  <2>3. ASSUME NEW m \in 1 .. N, m - 1 \in Same PROVE m \in Same
    <3>1. ASSUME NEW f \in N - m .. N PROVE from[f] = t[f]
      <4>1. CASE f \in N - (m - 1) .. N
        BY <2>3, <4>1
      <4>2. CASE f \notin N - (m - 1) .. N
        <5>1. f = N - m /\ f \in 0 .. N - 1 /\ f \in 0 .. N /\ f # Len(column)
          BY <1>0, <3>1, <4>2
        <5>2. PICK q \in Nat \ {0} : q = RunAt(column, f) /\ f + q <= N
          <6>1. RunAt(column, f) \in 1 .. RunMax /\ f + RunAt(column, f) <= N
            BY <5>1, RunFits
          <6> QED
            BY <6>1
        <5>3. f + q \in N - (m - 1) .. N
          BY <1>0, <5>1, <5>2
        <5>4. from[f + q] = t[f + q]
          BY <2>3, <5>3
        <5>5. from[f] = RunsFrom(column, from, f) /\ t[f] = RunsFrom(column, t, f)
          BY <1>6, <2>1, <5>1
        <5> HIDE DEF from
        <5> QED
          BY <5>1, <5>2, <5>4, <5>5 DEF RunsFrom
      <4> QED
        BY <4>1, <4>2
    <3> QED
      BY <3>1
  <2>4. \A n \in 1 .. N : n - 1 \in Same => n \in Same
    BY <2>3
  <2> HIDE DEF Same
  <2>5. N \in Same
    <3>1. \A n \in 0 .. N : n \in Same
      BY <1>0, <2>2, <2>4, UpTo
    <3> QED
      BY <1>0, <3>1
  <2>6. \A f \in 0 .. N : from[f] = t[f]
    <3>1. N - N = 0
      BY <1>0
    <3> QED
      BY <2>5, <3>1 DEF Same
  <2>7. from = [f \in 0 .. N |-> RunsFrom(column, from, f)]
    BY <1>8
  <2> HIDE DEF from
  <2>8. from = t
    BY <2>6, <2>7
  <2> QED
    BY <2>1, <2>8
<1> HIDE DEF from
<1> QED
  BY <1>9, <1>10

(* Runs that start at the ends of those before, and cover the frames from  *)
(* f to the last.                                                          *)
Covers(column, R, at, f) ==
  /\ at \in [0 .. Len(R) -> Nat] /\ at[0] = f /\ at[Len(R)] = Len(column)
  /\ \A q \in 1 .. Len(R) : at[q] = at[q - 1] + R[q].more + 1
  /\ \A q \in 1 .. Len(R) : \A k \in 1 .. R[q].more + 1 : column[at[q - 1] + k] = R[q].word

(* A run in front of runs that cover the rest.                             *)
LEMMA RunInFront ==
  ASSUME NEW column \in Seq(Nat), NEW R \in Seq(Run), NEW run \in Run, NEW f \in Nat, NEW at,
         \A k \in 1 .. run.more + 1 : column[f + k] = run.word,
         Covers(column, R, at, f + run.more + 1)
  PROVE  <<run>> \o R \in Seq(Run) /\ \E to : Covers(column, <<run>> \o R, to, f)
<1> DEFINE n == Len(R)
           more == <<run>> \o R
           to == [q \in 0 .. n + 1 |-> IF q = 0 THEN f ELSE at[q - 1]]
<1>1. n \in Nat /\ more \in Seq(Run) /\ Len(more) = n + 1 /\ more[1] = run
      /\ \A q \in 2 .. n + 1 : more[q] = R[q - 1]
  OBVIOUS
<1>2. /\ at \in [0 .. n -> Nat] /\ at[0] = f + run.more + 1 /\ at[n] = Len(column)
      /\ \A q \in 1 .. n : at[q] = at[q - 1] + R[q].more + 1
      /\ \A q \in 1 .. n : \A k \in 1 .. R[q].more + 1 : column[at[q - 1] + k] = R[q].word
  BY DEF Covers
<1>3. to \in [0 .. n + 1 -> Nat] /\ to[0] = f /\ \A q \in 1 .. n + 1 : to[q] = at[q - 1]
  <2>1. \A q \in 1 .. n + 1 : q - 1 \in 0 .. n /\ q # 0
    BY <1>1
  <2>2. \A q \in 0 .. n + 1 : q = 0 \/ q \in 1 .. n + 1
    BY <1>1
  <2> QED
    BY <1>1, <1>2, <2>1, <2>2
<1> HIDE DEF to, more, n
<1>4. to[n + 1] = Len(column)
  <2>1. n + 1 \in 1 .. n + 1 /\ (n + 1) - 1 = n
    BY <1>1
  <2> QED
    BY <1>2, <1>3, <2>1
<1>5. ASSUME NEW q \in 1 .. n + 1
      PROVE  to[q] = to[q - 1] + more[q].more + 1 /\ \A k \in 1 .. more[q].more + 1 : column[to[q - 1] + k] = more[q].word
  <2>1. CASE q = 1
    <3>1. to[1] = at[0] /\ to[q - 1] = f /\ more[q] = run
      BY <1>1, <1>3, <2>1
    <3> QED
      BY <1>2, <2>1, <3>1
  <2>2. CASE q # 1
    <3>1. PICK p \in 1 .. n : p = q - 1
      BY <1>1, <2>2
    <3>2. to[q] = at[p] /\ to[q - 1] = at[p - 1] /\ more[q] = R[p]
      <4>1. q \in 2 .. n + 1 /\ q - 1 \in 1 .. n + 1
        BY <1>1, <2>2
      <4> QED
        BY <1>1, <1>3, <3>1, <4>1
    <3> QED
      BY <1>2, <3>2
  <2> QED
    BY <2>1, <2>2
<1>6. Covers(column, more, to, f)
  BY <1>1, <1>3, <1>4, <1>5 DEF Covers
<1> QED
  BY <1>1, <1>6 DEF more

(* The runs of a column cover it.                                          *)
LEMMA RunsCover ==
  ASSUME NEW column \in Seq(Nat)
  PROVE  Runs(column) \in Seq(Run) /\ \E at : Covers(column, Runs(column), at, 0)
<1> DEFINE N == Len(column)
<1>0. N \in Nat
  OBVIOUS
<1>1. PICK t \in [0 .. N -> Seq(Run)] :
        (\A f \in 0 .. N : t[f] = RunsFrom(column, t, f)) /\ Runs(column) = t[0]
  BY RunsExist
<1> DEFINE There == {m \in 0 .. N : \A f \in N - m .. N : \E at : Covers(column, t[f], at, f)}
<1>2. 0 \in There
  <2>1. ASSUME NEW f \in N - 0 .. N PROVE \E at : Covers(column, t[f], at, f)
    <3>1. f = N /\ f \in 0 .. N
      BY <1>0, <2>1
    <3>2. t[f] = <<>>
      BY <1>1, <3>1 DEF RunsFrom
    <3> DEFINE at == [q \in 0 .. 0 |-> N]
    <3>3. Covers(column, <<>>, at, N)
      <4>1. Len(<<>>) = 0
        OBVIOUS
      <4> QED
        BY <1>0, <4>1 DEF Covers
    <3> QED
      BY <3>1, <3>2, <3>3
  <2> QED
    BY <1>0, <2>1
<1>3. ASSUME NEW m \in 1 .. N, m - 1 \in There PROVE m \in There
  <2>1. ASSUME NEW f \in N - m .. N PROVE \E at : Covers(column, t[f], at, f)
    <3>1. CASE f \in N - (m - 1) .. N
      BY <1>3, <3>1
    <3>2. CASE f \notin N - (m - 1) .. N
      <4>1. f = N - m /\ f \in 0 .. N - 1 /\ f \in 0 .. N /\ f # Len(column) /\ f \in Nat
        BY <1>0, <2>1, <3>2
      <4>2. PICK r \in 1 .. RunMax : /\ r = RunAt(column, f) /\ f + r <= N
                                     /\ \A k \in 1 .. r : column[f + k] = column[f + 1]
        BY <4>1, RunFits
      <4>3. f + r \in N - (m - 1) .. N /\ f + r \in 0 .. N
        BY <1>0, <4>1, <4>2
      <4>4. PICK at : Covers(column, t[f + r], at, f + r)
        BY <1>3, <4>3
      <4>5. PICK run \in Run : /\ run = [word |-> column[f + 1], more |-> (RunAt(column, f) - 1) % RunMax]
                               /\ run.word = column[f + 1] /\ run.more = r - 1
        <5>1. [word |-> column[f + 1], more |-> (RunAt(column, f) - 1) % RunMax] \in Run
              /\ (RunAt(column, f) - 1) % RunMax = r - 1
          BY <4>1, <4>2, OneRun
        <5> QED
          BY <5>1
      <4>6. t[f] = <<run>> \o t[f + r]
        BY <1>1, <4>1, <4>2, <4>5 DEF RunsFrom
      <4>7. t[f + r] \in Seq(Run)
        BY <4>3
      <4>8. f + run.more + 1 = f + r /\ run.more + 1 = r
        <5>1. r \in Nat /\ run.more = r - 1
          BY <4>2, <4>5, RbLogAssumption
        <5> QED
          BY <4>1, <5>1
      <4>9. \A k \in 1 .. run.more + 1 : column[f + k] = run.word
        BY <4>2, <4>5, <4>8
      <4>10. Covers(column, t[f + r], at, f + run.more + 1)
        BY <4>4, <4>8
      <4>11. \E to : Covers(column, <<run>> \o t[f + r], to, f)
        BY <4>1, <4>5, <4>7, <4>9, <4>10, RunInFront
      <4> QED
        BY <4>6, <4>11
    <3> QED
      BY <3>1, <3>2
  <2> QED
    BY <2>1
<1>4. \A n \in 1 .. N : n - 1 \in There => n \in There
  BY <1>3
<1> HIDE DEF There
<1>5. N \in There
  <2>1. \A n \in 0 .. N : n \in There
    BY <1>0, <1>2, <1>4, UpTo
  <2> QED
    BY <1>0, <2>1
<1>6. \E at : Covers(column, t[0], at, 0)
  <2>1. N - N = 0 /\ 0 \in 0 .. N
    BY <1>0
  <2> QED
    BY <1>5, <2>1 DEF There
<1>7. t[0] \in Seq(Run)
  BY <1>0
<1> QED
  BY <1>1, <1>6, <1>7

(* Spread out again, they are the column.                                  *)
LEMMA SpreadRuns ==
  ASSUME NEW column \in Seq(Nat), NEW R \in Seq(Run), NEW at, Covers(column, R, at, 0)
  PROVE  FlattenSeq([r \in DOMAIN R |-> Spread(R[r])]) = column
<1> DEFINE n == Len(R)
           s == [r \in DOMAIN R |-> Spread(R[r])]
           flat == FlattenSeq(s)
<1>1. n \in Nat /\ DOMAIN R = 1 .. n /\ \A q \in 1 .. n : R[q].more \in Nat /\ R[q].word \in Nat
  <2>1. n \in Nat /\ DOMAIN R = 1 .. n /\ \A q \in 1 .. n : R[q] \in Run
    OBVIOUS
  <2> QED
    BY <2>1 DEF Run
<1>2. \A q \in 1 .. n : /\ Spread(R[q]) \in Seq(Nat) /\ Len(Spread(R[q])) = R[q].more + 1
                        /\ \A k \in 1 .. R[q].more + 1 : Spread(R[q])[k] = R[q].word
  <2>1. ASSUME NEW q \in 1 .. n
        PROVE  /\ Spread(R[q]) \in Seq(Nat) /\ Len(Spread(R[q])) = R[q].more + 1
               /\ \A k \in 1 .. R[q].more + 1 : Spread(R[q])[k] = R[q].word
    <3>1. PICK m \in Nat : m = R[q].more + 1
      <4>1. R[q].more + 1 \in Nat
        BY <1>1
      <4> QED
        BY <4>1
    <3>2. PICK w \in Nat : w = R[q].word
      BY <1>1
    <3>3. Spread(R[q]) = [k \in 1 .. m |-> w]
      BY <3>1, <3>2 DEF Spread
    <3> QED
      BY <3>1, <3>2, <3>3
  <2> QED
    BY <2>1
<1>3. s \in Seq(Seq(Nat)) /\ Len(s) = n /\ \A q \in 1 .. n : s[q] = Spread(R[q])
  <2>1. s \in [1 .. n -> Seq(Nat)]
    BY <1>1, <1>2
  <2> HIDE DEF n
  <2> QED
    BY <1>1, <2>1
<1> HIDE DEF s
<1>4. PICK to : flat \in Seq(Nat) /\ Pieces(s, flat, to)
  BY <1>3, FlattenPieces
<1> HIDE DEF flat, n
<1>5. /\ at \in [0 .. n -> Nat] /\ at[0] = 0 /\ at[n] = Len(column)
      /\ \A q \in 1 .. n : at[q] = at[q - 1] + R[q].more + 1
      /\ \A q \in 1 .. n : \A k \in 1 .. R[q].more + 1 : column[at[q - 1] + k] = R[q].word
  BY DEF Covers, n
<1>6. /\ to \in [0 .. n -> Nat] /\ to[0] = 0 /\ Len(flat) = to[n]
      /\ \A q \in 1 .. n : to[q] = to[q - 1] + Len(s[q])
      /\ \A q \in 1 .. n : \A k \in 1 .. Len(s[q]) : flat[to[q - 1] + k] = s[q][k]
      /\ \A j \in 1 .. Len(flat) : \E q \in 1 .. n : \E k \in 1 .. Len(s[q]) : j = to[q - 1] + k
  BY <1>3, <1>4 DEF Pieces
<1>7. \A q \in 0 .. n : to[q] = at[q]
  <2> DEFINE Same == {q \in 0 .. n : to[q] = at[q]}
  <2>1. 0 \in Same
    BY <1>1, <1>5, <1>6
  <2>2. ASSUME NEW q \in 1 .. n, q - 1 \in Same PROVE q \in Same
    <3>1. Len(s[q]) = R[q].more + 1 /\ R[q].more \in Nat /\ at[q - 1] \in Nat /\ q \in 0 .. n
      <4>1. q - 1 \in 0 .. n /\ q \in 0 .. n
        BY <1>1
      <4> QED
        BY <1>1, <1>2, <1>3, <1>5, <4>1
    <3>2. to[q - 1] = at[q - 1]
      BY <2>2
    <3> QED
      BY <1>5, <1>6, <3>1, <3>2
  <2> HIDE DEF Same
  <2>3. \A q \in 0 .. n : q \in Same
    BY <1>1, <2>1, <2>2, UpTo
  <2> QED
    BY <2>3 DEF Same
<1>8. Len(flat) = Len(column)
  <2>1. n \in 0 .. n
    BY <1>1
  <2> QED
    BY <1>5, <1>6, <1>7, <2>1
<1>9. ASSUME NEW j \in 1 .. Len(flat) PROVE flat[j] = column[j]
  <2>1. PICK q \in 1 .. n : \E k \in 1 .. Len(s[q]) : j = to[q - 1] + k
    BY <1>6
  <2>2. PICK k \in 1 .. Len(s[q]) : j = to[q - 1] + k
    BY <2>1
  <2>3. Len(s[q]) = R[q].more + 1 /\ s[q][k] = R[q].word
    BY <1>2, <1>3, <2>2
  <2>4. to[q - 1] = at[q - 1]
    <3>1. q - 1 \in 0 .. n
      BY <1>1
    <3> QED
      BY <1>7, <3>1
  <2>5. flat[j] = s[q][k]
    BY <1>6, <2>2
  <2>6. column[j] = R[q].word
    BY <1>5, <2>2, <2>3, <2>4
  <2> QED
    BY <2>3, <2>5, <2>6
<1>10. flat = column
  BY <1>4, <1>8, <1>9
<1> QED
  BY <1>10 DEF flat, s
-----------------------------------------------------------------------------
(* THE LOG, ENCODED AND DECODED                                            *)

(* Where a player's runs begin is the sum of the counts before.            *)
LEMMA BeforeIsTheSum ==
  ASSUME NEW blob, NEW p \in Nat, NEW at \in [0 .. p -> Nat], at[0] = 0,
         \A q \in 1 .. p : at[q] = at[q - 1] + blob.runs[q]
  PROVE  Before(blob, p) = at[p]
<1> DEFINE Solves(h) == h = [q \in 0 .. p |-> IF q = 0 THEN 0 ELSE h[q - 1] + blob.runs[q]]
           before == CHOOSE h : Solves(h)
<1>1. Solves(at)
  <2>1. \A q \in 0 .. p : at[q] = IF q = 0 THEN 0 ELSE at[q - 1] + blob.runs[q]
    <3>1. \A q \in 0 .. p : q = 0 \/ q \in 1 .. p
      OBVIOUS
    <3> QED
      BY <3>1
  <2> QED
    BY <2>1
<1>2. Solves(before)
  BY <1>1
<1>3. Before(blob, p) = before[p]
  BY DEF Before
<1> HIDE DEF before
<1> DEFINE Same == {q \in 0 .. p : before[q] = at[q]}
<1>4. 0 \in Same
  BY <1>2
<1>5. ASSUME NEW q \in 1 .. p, q - 1 \in Same PROVE q \in Same
  <2>1. q \in 0 .. p /\ q # 0
    OBVIOUS
  <2>2. before[q] = before[q - 1] + blob.runs[q]
    BY <1>2, <2>1
  <2>3. before[q - 1] = at[q - 1]
    BY <1>5
  <2> QED
    BY <2>1, <2>2, <2>3
<1> HIDE DEF Same
<1>6. \A q \in 0 .. p : q \in Same
  BY <1>4, <1>5, UpTo
<1> QED
  BY <1>3, <1>6 DEF Same

(* A part of a list, as the list it is.                                    *)
LEMMA PartOf ==
  ASSUME NEW S, NEW s \in Seq(S), NEW t \in Seq(S), NEW a \in Nat, a + Len(t) <= Len(s),
         \A k \in 1 .. Len(t) : s[a + k] = t[k]
  PROVE  SubSeq(s, a + 1, a + Len(t)) = t
<1>1. PICK m \in Int, n \in Int : m = a + 1 /\ n = a + Len(t)
  <2>1. a + 1 \in Int /\ a + Len(t) \in Int
    OBVIOUS
  <2> QED
    BY <2>1
<1>2. \A x \in m .. n : s[x] \in S
  <2>1. \A x \in m .. n : x \in 1 .. Len(s)
    BY <1>1
  <2> QED
    BY <2>1
<1>3. /\ SubSeq(s, m, n) \in Seq(S) /\ Len(SubSeq(s, m, n)) = IF m <= n THEN n - m + 1 ELSE 0
      /\ \A x \in 1 .. n - m + 1 : SubSeq(s, m, n)[x] = s[m + x - 1]
  BY <1>2, SubSeqProperties
<1>4. Len(SubSeq(s, m, n)) = Len(t)
  BY <1>1, <1>3
<1>5. ASSUME NEW x \in 1 .. Len(t) PROVE SubSeq(s, m, n)[x] = t[x]
  <2>1. x \in 1 .. n - m + 1 /\ m + x - 1 = a + x
    BY <1>1
  <2> QED
    BY <1>3, <2>1
<1> QED
  BY <1>1, <1>3, <1>4, <1>5

(* All of a list is the list.                                              *)
LEMMA WholeOf ==
  ASSUME NEW S, NEW s \in Seq(S)
  PROVE  SubSeq(s, 1, Len(s)) = s
<1>1. SubSeq(s, 0 + 1, 0 + Len(s)) = s
  <2>1. 0 \in Nat /\ 0 + Len(s) <= Len(s) /\ \A k \in 1 .. Len(s) : s[0 + k] = s[k]
    OBVIOUS
  <2> QED
    BY <2>1, PartOf
<1>2. 0 + 1 = 1 /\ 0 + Len(s) = Len(s)
  OBVIOUS
<1> QED
  BY <1>1, <1>2

(* What is encoded is decoded.                                             *)
LEMMA LogComesBack ==
  ASSUME keys \in [0 .. MaxFrame -> [Peers -> Nat]], len \in 0 .. MaxFrame, players \in 1 .. NumPeers
  PROVE  /\ Covered(EncodeLog)
         /\ \A p \in 0 .. players - 1 : Decoded(EncodeLog, p) = Column(p) /\ Len(Column(p)) = len
<1> DEFINE blob == EncodeLog
           runs == [p \in 1 .. players |-> Runs(Column(p - 1))]
<1>0. MaxFrame \in Nat /\ NumPeers \in Nat \ {0} /\ players \in Nat \ {0} /\ len \in Nat
  BY RbLogAssumption, NumPeersAssumption
<1>1. /\ blob.frames = len /\ blob.players = players /\ blob.words = FlattenSeq(runs)
      /\ blob.runs = [p \in 1 .. NumPeers |-> IF p <= players THEN Len(runs[p]) ELSE 0]
  BY DEF EncodeLog
<1> HIDE DEF blob
<1>2. ASSUME NEW p \in 0 .. players - 1 PROVE Column(p) \in Seq(Nat) /\ Len(Column(p)) = len
  <2>1. ASSUME NEW f \in 1 .. len PROVE keys[f - 1][p] \in Nat
    <3>1. f - 1 \in 0 .. MaxFrame /\ p \in Peers
      BY <1>0 DEF Peers
    <3> QED
      BY <3>1
  <2>2. Column(p) \in [1 .. len -> Nat]
    BY <2>1 DEF Column
  <2> QED
    BY <1>0, <2>2
<1>3. \A p \in 1 .. players : runs[p] = Runs(Column(p - 1)) /\ runs[p] \in Seq(Run)
  <2>1. ASSUME NEW p \in 1 .. players PROVE runs[p] = Runs(Column(p - 1)) /\ runs[p] \in Seq(Run)
    <3>1. p - 1 \in 0 .. players - 1
      BY <1>0
    <3>2. Column(p - 1) \in Seq(Nat)
      BY <1>2, <3>1
    <3> QED
      BY <3>2, RunsCover
  <2> QED
    BY <2>1
<1>4. runs \in Seq(Seq(Run)) /\ Len(runs) = players
  <2>1. runs \in [1 .. players -> Seq(Run)]
    BY <1>3
  <2> HIDE DEF runs
  <2> QED
    BY <1>0, <2>1
<1> HIDE DEF runs
<1>5. PICK words \in Seq(Run) : words = blob.words /\ \E at : Pieces(runs, words, at)
  BY <1>1, <1>4, FlattenPieces
<1>6. PICK at : Pieces(runs, words, at)
  BY <1>5
<1>7. /\ at \in [0 .. players -> Nat] /\ at[0] = 0 /\ Len(words) = at[players]
      /\ \A q \in 1 .. players : at[q] = at[q - 1] + Len(runs[q])
      /\ \A q \in 0 .. players : at[q] <= Len(words)
      /\ \A q \in 1 .. players : \A k \in 1 .. Len(runs[q]) : words[at[q - 1] + k] = runs[q][k]
  BY <1>4, <1>6 DEF Pieces
<1>8. ASSUME NEW p \in 0 .. players PROVE Before(blob, p) = at[p]
  <2> DEFINE to == [q \in 0 .. p |-> at[q]]
  <2>1. p \in Nat /\ to \in [0 .. p -> Nat] /\ to[0] = 0
    <3>1. p \in Nat /\ \A q \in 0 .. p : q \in 0 .. players
      BY <1>0
    <3> QED
      BY <1>7, <3>1
  <2>2. ASSUME NEW q \in 1 .. p PROVE to[q] = to[q - 1] + blob.runs[q]
    <3>1. q \in 1 .. players /\ q <= players /\ q \in 0 .. p /\ q - 1 \in 0 .. p
      BY <1>0
    <3>0. q \in 1 .. NumPeers
      BY <1>0, <3>1
    <3>2. blob.runs[q] = Len(runs[q])
      BY <1>1, <3>0, <3>1
    <3> QED
      BY <1>7, <3>1, <3>2
  <2> HIDE DEF to
  <2>3. Before(blob, p) = to[p]
    BY <2>1, <2>2, BeforeIsTheSum
  <2> QED
    BY <2>1, <2>3 DEF to
<1>9. ASSUME NEW p \in 0 .. players - 1 PROVE Decoded(blob, p) = Column(p)
  <2>1. PICK m \in 1 .. players : m = p + 1 /\ p = m - 1
    BY <1>0
  <2>2. Before(blob, p) = at[m - 1] /\ Before(blob, p + 1) = at[m]
    <3>1. p \in 0 .. players /\ p + 1 \in 0 .. players
      BY <1>0
    <3> QED
      BY <1>8, <2>1, <3>1
  <2>3. PICK a \in Nat, R \in Seq(Run) : a = at[m - 1] /\ R = runs[m]
    <3>1. m - 1 \in 0 .. players
      BY <2>1
    <3> QED
      BY <1>3, <1>7, <3>1
  <2>4. at[m] = a + Len(R) /\ a + Len(R) <= Len(words) /\ \A k \in 1 .. Len(R) : words[a + k] = R[k]
    <3>1. m \in 0 .. players
      BY <2>1
    <3> QED
      BY <1>7, <2>3, <3>1
  <2>5. Min({Before(blob, p + 1), Len(words)}) = a + Len(R)
    <3>1. Before(blob, p + 1) = a + Len(R) /\ a + Len(R) \in Int /\ Len(words) \in Int
      BY <2>2, <2>3, <2>4
    <3> QED
      BY <2>4, <3>1, MinOfTwo
  <2>6. RunsOf(blob, p) = R
    <3>1. RunsOf(blob, p) = SubSeq(words, a + 1, a + Len(R))
      BY <1>5, <2>2, <2>3, <2>5 DEF RunsOf
    <3> QED
      BY <2>4, <3>1, PartOf
  <2>7. Column(p) \in Seq(Nat) /\ Len(Column(p)) = len
    BY <1>2
  <2>8. R = Runs(Column(p))
    BY <1>3, <2>1, <2>3
  <2>9. FlattenSeq([r \in DOMAIN R |-> Spread(R[r])]) = Column(p)
    BY <2>7, <2>8, RunsCover, SpreadRuns
  <2>10. Min({len, len}) = len
    BY <1>0, MinOfTwo
  <2>11. SubSeq(Column(p), 1, len) = Column(p)
    BY <2>7, WholeOf
  <2> QED
    BY <1>1, <2>6, <2>7, <2>9, <2>10, <2>11 DEF Decoded
<1>10. Covered(blob)
  <2>1. Before(blob, players) = Len(words)
    <3>1. players \in 0 .. players
      BY <1>0
    <3> QED
      BY <1>7, <1>8, <3>1
  <2>2. \A p \in 0 .. players - 1 : Len(Decoded(blob, p)) = len
    BY <1>2, <1>9
  <2> QED
    BY <1>1, <1>5, <2>1, <2>2 DEF Covered
<1> QED
  BY <1>2, <1>9, <1>10 DEF blob
-----------------------------------------------------------------------------
(* EVENTS OF ANOTHER FRAME                                                 *)

(* One event more changes nothing on the frames that are not its own.      *)
LEMMA InsertElsewhere ==
  ASSUME NEW evs \in Seq(Events(Nat)), NEW e \in Events(Nat), NEW k \in 0 .. Len(evs), NEW f, e.frame # f
  PROVE  /\ \A map : SlotMapAfter(map, Insert(evs, e, k), f) = SlotMapAfter(map, evs, f)
         /\ \A c : SlotsInPlayAfter(c, Insert(evs, e, k), f) = SlotsInPlayAfter(c, evs, f)
<1> DEFINE n == Len(evs)
           new == Insert(evs, e, k)
           U(x) == IF x <= k THEN x ELSE x + 1
           D(y) == IF y <= k THEN y ELSE y - 1
<1>1. n \in Nat /\ DOMAIN evs = 1 .. n /\ k \in 0 .. n
  OBVIOUS
<1>2. /\ new \in Seq(Events(Nat)) /\ Len(new) = n + 1 /\ DOMAIN new = 1 .. n + 1
      /\ \A x \in 1 .. n + 1 : new[x] = IF x <= k THEN evs[x] ELSE IF x = k + 1 THEN e ELSE evs[x - 1]
  <2>1. new \in Seq(Events(Nat)) /\ Len(new) = n + 1
    BY InsertIsAList
  <2>2. \A x \in 1 .. n + 1 : new[x] = IF x <= k THEN evs[x] ELSE IF x = k + 1 THEN e ELSE evs[x - 1]
    BY InsertIsAList
  <2> HIDE DEF new
  <2> QED
    BY <2>1, <2>2
<1> HIDE DEF new, n
<1> DEFINE Old == At(evs, f)
           New == At(new, f)
<1>3. Old = {x \in 1 .. n : evs[x].frame = f} /\ New = {y \in 1 .. n + 1 : new[y].frame = f}
  BY <1>1, <1>2 DEF At
<1>4. ASSUME NEW x \in 1 .. n PROVE U(x) \in 1 .. n + 1 /\ new[U(x)] = evs[x]
  <2>1. CASE x <= k
    BY <1>1, <1>2, <2>1
  <2>2. CASE ~(x <= k)
    <3>1. U(x) = x + 1 /\ x + 1 \in 1 .. n + 1 /\ ~(x + 1 <= k) /\ x + 1 # k + 1 /\ (x + 1) - 1 = x
      BY <1>1, <2>2
    <3> QED
      BY <1>2, <3>1
  <2> QED
    BY <2>1, <2>2
<1>5. ASSUME NEW y \in New PROVE D(y) \in 1 .. n /\ U(D(y)) = y /\ evs[D(y)] = new[y] /\ y \in 1 .. n + 1
  <2>1. y \in 1 .. n + 1 /\ y # k + 1
    <3>1. new[k + 1] = e
      <4>1. k + 1 \in 1 .. n + 1 /\ ~(k + 1 <= k)
        BY <1>1
      <4> QED
        BY <1>2, <4>1
    <3> QED
      BY <1>3, <3>1
  <2>2. D(y) \in 1 .. n /\ U(D(y)) = y
    BY <1>1, <2>1
  <2>3. new[U(D(y))] = evs[D(y)]
    BY <1>4, <2>2
  <2> QED
    BY <2>1, <2>2, <2>3
<1>6. \A x \in Old : x \in 1 .. n /\ U(x) \in New /\ new[U(x)] = evs[x]
  <2>1. ASSUME NEW x \in Old PROVE x \in 1 .. n /\ U(x) \in New /\ new[U(x)] = evs[x]
    <3>1. x \in 1 .. n /\ evs[x].frame = f
      BY <1>3
    <3>2. U(x) \in 1 .. n + 1 /\ new[U(x)] = evs[x]
      BY <1>4, <3>1
    <3> QED
      BY <1>3, <3>1, <3>2
  <2> QED
    BY <2>1
<1>7. \A y \in New : \E x \in Old : y = U(x)
  <2>1. ASSUME NEW y \in New PROVE \E x \in Old : y = U(x)
    <3>1. D(y) \in 1 .. n /\ U(D(y)) = y /\ evs[D(y)] = new[y]
      BY <1>5
    <3>2. D(y) \in Old
      BY <1>3, <3>1
    <3> QED
      BY <3>1, <3>2
  <2> QED
    BY <2>1
<1>8. \A x, z \in Old : U(x) > U(z) <=> x > z
  <2>1. \A x \in Old : x \in 1 .. n
    BY <1>6
  <2> HIDE DEF Old
  <2> QED
    BY <1>1, <2>1
<1> HIDE DEF U, D, Old, New
<1>9. \A map, s, p : DrivesAfter(map, new, f, s, p) <=> DrivesAfter(map, evs, f, s, p)
  <2> SUFFICES ASSUME NEW map, NEW s, NEW p
               PROVE  DrivesAfter(map, new, f, s, p) <=> DrivesAfter(map, evs, f, s, p)
    OBVIOUS
  <2>1. \A x \in Old : (Takes(new, U(x), s, p) <=> Takes(evs, x, s, p)) /\ (Gives(new, U(x), s, p) <=> Gives(evs, x, s, p))
    BY <1>6 DEF Takes, Gives
  <2>2. DrivesAfter(map, new, f, s, p) <=>
          \/ map[s] = p /\ \A y \in New : ~Takes(new, y, s, p)
          \/ \E y \in New : Gives(new, y, s, p) /\ \A z \in New : z > y => ~Takes(new, z, s, p)
    BY DEF DrivesAfter, New
  <2>3. DrivesAfter(map, evs, f, s, p) <=>
          \/ map[s] = p /\ \A y \in Old : ~Takes(evs, y, s, p)
          \/ \E y \in Old : Gives(evs, y, s, p) /\ \A z \in Old : z > y => ~Takes(evs, z, s, p)
    BY DEF DrivesAfter, Old
  <2>4. (\A y \in New : ~Takes(new, y, s, p)) <=> (\A y \in Old : ~Takes(evs, y, s, p))
    BY <1>6, <1>7, <2>1
  <2>5. ASSUME NEW y \in Old
        PROVE  (\A z \in New : z > U(y) => ~Takes(new, z, s, p)) <=> (\A z \in Old : z > y => ~Takes(evs, z, s, p))
    BY <1>6, <1>7, <1>8, <2>1
  <2>6. (\E y \in New : Gives(new, y, s, p) /\ \A z \in New : z > y => ~Takes(new, z, s, p)) <=>
          (\E y \in Old : Gives(evs, y, s, p) /\ \A z \in Old : z > y => ~Takes(evs, z, s, p))
    BY <1>6, <1>7, <2>1, <2>5
  <2> QED
    BY <2>2, <2>3, <2>4, <2>6
<1>10. ASSUME NEW map PROVE SlotMapAfter(map, new, f) = SlotMapAfter(map, evs, f)
  <2>1. \A s \in Slots : (\E p \in Peers : DrivesAfter(map, new, f, s, p)) <=> (\E p \in Peers : DrivesAfter(map, evs, f, s, p))
    BY <1>9
  <2>2. \A s \in Slots : (CHOOSE p \in Peers : DrivesAfter(map, new, f, s, p)) = (CHOOSE p \in Peers : DrivesAfter(map, evs, f, s, p))
    BY <1>9
  <2> QED
    BY <2>1, <2>2 DEF SlotMapAfter
<1>11. ASSUME NEW c PROVE SlotsInPlayAfter(c, new, f) = SlotsInPlayAfter(c, evs, f)
  <2>1. \A x \in Old : LastCount(new, f, U(x)) <=> LastCount(evs, f, x)
    <3> SUFFICES ASSUME NEW x \in Old PROVE LastCount(new, f, U(x)) <=> LastCount(evs, f, x)
      OBVIOUS
    <3>1. LastCount(new, f, U(x)) <=> /\ U(x) \in New /\ new[U(x)].type = "players"
                                      /\ \A z \in New : z > U(x) => new[z].type # "players"
      BY DEF LastCount, New
    <3>2. LastCount(evs, f, x) <=> /\ x \in Old /\ evs[x].type = "players"
                                   /\ \A z \in Old : z > x => evs[z].type # "players"
      BY DEF LastCount, Old
    <3>3. (\A z \in New : z > U(x) => new[z].type # "players") <=> (\A z \in Old : z > x => evs[z].type # "players")
      BY <1>6, <1>7, <1>8
    <3> QED
      BY <1>6, <3>1, <3>2, <3>3
  <2>2. (\A y : LastCount(new, f, y) => y \in New) /\ (\A x : LastCount(evs, f, x) => x \in Old)
    BY DEF LastCount, New, Old
  <2>3. New \subseteq DOMAIN new /\ Old \subseteq DOMAIN evs
    BY DEF New, Old, At
  <2>4. CASE \E x \in DOMAIN evs : LastCount(evs, f, x)
    <3>1. PICK x \in Old : LastCount(evs, f, x)
      BY <2>2, <2>4
    <3>2. LastCount(new, f, U(x)) /\ U(x) \in DOMAIN new
      BY <1>6, <2>1, <2>3, <3>1
    <3>3. \A z \in Old : LastCount(evs, f, z) => z = x
      <4>1. \A z \in Old : z \in 1 .. n
        BY <1>6
      <4>2. \A z \in Old : z > x \/ x > z \/ z = x
        BY <1>1, <4>1
      <4> QED
        BY <3>1, <4>2 DEF LastCount, Old
    <3>4. \A y : LastCount(new, f, y) => y = U(x)
      BY <1>7, <2>1, <2>2, <3>3
    <3>5. (CHOOSE y \in DOMAIN new : LastCount(new, f, y)) = U(x)
      BY <3>2, <3>4
    <3>6. (CHOOSE y \in DOMAIN evs : LastCount(evs, f, y)) = x
      BY <2>2, <2>3, <3>1, <3>3
    <3>7. SlotsInPlayAfter(c, new, f) = new[U(x)].a
      BY <3>2, <3>5 DEF SlotsInPlayAfter
    <3>8. SlotsInPlayAfter(c, evs, f) = evs[x].a
      BY <2>4, <3>6 DEF SlotsInPlayAfter
    <3> QED
      BY <1>6, <3>7, <3>8
  <2>5. CASE ~ \E x \in DOMAIN evs : LastCount(evs, f, x)
    <3>1. ~ \E y \in DOMAIN new : LastCount(new, f, y)
      BY <1>7, <2>1, <2>2, <2>3, <2>5
    <3> QED
      BY <2>5, <3>1 DEF SlotsInPlayAfter
  <2> QED
    BY <2>4, <2>5
<1> QED
  BY <1>10, <1>11 DEF new
-----------------------------------------------------------------------------
(* WHO DRIVES WHAT AT EVERY FRAME                                          *)

(* The map and the count before frame f, if the events are evs.            *)
MapAt(evs, f) ==
  LET map[g \in 0 .. MaxFrame] == IF g = 0 THEN FirstSlotMap(NumPlayers) ELSE SlotMapAfter(map[g - 1], evs, g - 1)
  IN  map[f]

CountAt(evs, f) ==
  LET count[g \in 0 .. MaxFrame] == IF g = 0 THEN NumPeers ELSE SlotsInPlayAfter(count[g - 1], evs, g - 1)
  IN  count[f]

(* The recursion of MapAt, frame by frame.                                 *)
LEMMA MapsFollow ==
  ASSUME NEW evs
  PROVE  /\ MapAt(evs, 0) = FirstSlotMap(NumPlayers)
         /\ \A f \in 1 .. MaxFrame : MapAt(evs, f) = SlotMapAfter(MapAt(evs, f - 1), evs, f - 1)
<1> DEFINE F == [g \in 1 .. MaxFrame |-> [map \in SlotMaps |-> SlotMapAfter(map, evs, g - 1)]]
           Solves(h) == h = [g \in 0 .. MaxFrame |-> IF g = 0 THEN FirstSlotMap(NumPlayers)
                                                     ELSE SlotMapAfter(h[g - 1], evs, g - 1)]
           maps == CHOOSE h : Solves(h)
<1>0. MaxFrame \in Nat
  BY RbLogAssumption
<1>1. \A map, f : SlotMapAfter(map, evs, f) \in SlotMaps
  BY DEF SlotMapAfter, SlotMaps
<1>2. F \in [1 .. MaxFrame -> [SlotMaps -> SlotMaps]]
  BY <1>1
<1>3. FirstSlotMap(NumPlayers) \in SlotMaps
  BY FirstMap
<1>4. PICK h \in [0 .. MaxFrame -> SlotMaps] : Steps(h, MaxFrame, FirstSlotMap(NumPlayers), F)
  <2> HIDE DEF F
  <2> QED
    BY <1>0, <1>2, <1>3, Iterates
<1>5. Solves(h)
  <2>1. ASSUME NEW g \in 0 .. MaxFrame
        PROVE  h[g] = IF g = 0 THEN FirstSlotMap(NumPlayers) ELSE SlotMapAfter(h[g - 1], evs, g - 1)
    <3>1. CASE g = 0
      BY <1>4, <3>1 DEF Steps
    <3>2. CASE g # 0
      <4>1. g \in 1 .. MaxFrame /\ g - 1 \in 0 .. MaxFrame
        BY <1>0, <3>2
      <4>2. h[g] = F[g][h[g - 1]] /\ h[g - 1] \in SlotMaps
        BY <1>4, <3>2, <4>1 DEF Steps
      <4> QED
        BY <3>2, <4>1, <4>2
    <3> QED
      BY <3>1, <3>2
  <2> QED
    BY <2>1
<1>6. Solves(maps)
  BY <1>5
<1>7. \A f : MapAt(evs, f) = maps[f]
  BY DEF MapAt
<1>8. \A f \in 0 .. MaxFrame :
        maps[f] = IF f = 0 THEN FirstSlotMap(NumPlayers) ELSE SlotMapAfter(maps[f - 1], evs, f - 1)
  BY <1>6
<1> HIDE DEF maps, Solves
<1>9. 0 \in 0 .. MaxFrame /\ \A f \in 1 .. MaxFrame : f \in 0 .. MaxFrame /\ f # 0
  BY <1>0
<1> QED
  BY <1>7, <1>8, <1>9

(* The recursion of CountAt, frame by frame.                               *)
LEMMA CountsFollow ==
  ASSUME NEW evs \in Seq(Events(Nat))
  PROVE  /\ CountAt(evs, 0) = NumPeers
         /\ \A f \in 1 .. MaxFrame : CountAt(evs, f) = SlotsInPlayAfter(CountAt(evs, f - 1), evs, f - 1)
<1> DEFINE F == [g \in 1 .. MaxFrame |-> [c \in 1 .. NumPeers |-> SlotsInPlayAfter(c, evs, g - 1)]]
           Solves(h) == h = [g \in 0 .. MaxFrame |-> IF g = 0 THEN NumPeers
                                                     ELSE SlotsInPlayAfter(h[g - 1], evs, g - 1)]
           counts == CHOOSE h : Solves(h)
<1>0. MaxFrame \in Nat
  BY RbLogAssumption
<1>1. ASSUME NEW c \in 1 .. NumPeers, NEW f PROVE SlotsInPlayAfter(c, evs, f) \in 1 .. NumPeers
  <2>1. CASE \E x \in DOMAIN evs : LastCount(evs, f, x)
    <3>1. PICK x \in DOMAIN evs : LastCount(evs, f, x) /\ SlotsInPlayAfter(c, evs, f) = evs[x].a
      BY <2>1 DEF SlotsInPlayAfter
    <3>2. evs[x] \in Events(Nat) /\ evs[x].type = "players"
      BY <3>1 DEF LastCount
    <3> QED
      BY <3>1, <3>2, EventParts
  <2>2. CASE ~ \E x \in DOMAIN evs : LastCount(evs, f, x)
    BY <2>2 DEF SlotsInPlayAfter
  <2> QED
    BY <2>1, <2>2
<1>2. F \in [1 .. MaxFrame -> [1 .. NumPeers -> 1 .. NumPeers]]
  BY <1>1
<1>3. NumPeers \in 1 .. NumPeers
  BY FirstMap
<1>4. PICK h \in [0 .. MaxFrame -> 1 .. NumPeers] : Steps(h, MaxFrame, NumPeers, F)
  <2> HIDE DEF F
  <2> QED
    BY <1>0, <1>2, <1>3, Iterates
<1>5. Solves(h)
  <2>1. ASSUME NEW g \in 0 .. MaxFrame
        PROVE  h[g] = IF g = 0 THEN NumPeers ELSE SlotsInPlayAfter(h[g - 1], evs, g - 1)
    <3>1. CASE g = 0
      BY <1>4, <3>1 DEF Steps
    <3>2. CASE g # 0
      <4>1. g \in 1 .. MaxFrame /\ g - 1 \in 0 .. MaxFrame
        BY <1>0, <3>2
      <4>2. h[g] = F[g][h[g - 1]] /\ h[g - 1] \in 1 .. NumPeers
        BY <1>4, <3>2, <4>1 DEF Steps
      <4> QED
        BY <3>2, <4>1, <4>2
    <3> QED
      BY <3>1, <3>2
  <2> QED
    BY <2>1
<1>6. Solves(counts)
  BY <1>5
<1>7. \A f : CountAt(evs, f) = counts[f]
  BY DEF CountAt
<1>8. \A f \in 0 .. MaxFrame :
        counts[f] = IF f = 0 THEN NumPeers ELSE SlotsInPlayAfter(counts[f - 1], evs, f - 1)
  BY <1>6
<1> HIDE DEF counts, Solves
<1>9. 0 \in 0 .. MaxFrame /\ \A f \in 1 .. MaxFrame : f \in 0 .. MaxFrame /\ f # 0
  BY <1>0
<1> QED
  BY <1>7, <1>8, <1>9

(* An event more changes nothing before its frame.                         *)
LEMMA SameBefore ==
  ASSUME NEW evs \in Seq(Events(Nat)), NEW e \in Events(Nat), NEW k \in 0 .. Len(evs)
  PROVE  \A f \in 0 .. MaxFrame :
           f <= e.frame => /\ MapAt(Insert(evs, e, k), f) = MapAt(evs, f)
                           /\ CountAt(Insert(evs, e, k), f) = CountAt(evs, f)
<1> DEFINE new == Insert(evs, e, k)
           Same == {f \in 0 .. MaxFrame : f <= e.frame => MapAt(new, f) = MapAt(evs, f) /\ CountAt(new, f) = CountAt(evs, f)}
<1>0. MaxFrame \in Nat /\ e.frame \in Nat /\ new \in Seq(Events(Nat))
  BY RbLogAssumption, EventParts, InsertIsAList
<1>1. \A f : f # e.frame => /\ \A map : SlotMapAfter(map, new, f) = SlotMapAfter(map, evs, f)
                            /\ \A c : SlotsInPlayAfter(c, new, f) = SlotsInPlayAfter(c, evs, f)
  BY InsertElsewhere
<1> HIDE DEF new
<1>2. 0 \in Same
  BY <1>0, MapsFollow, CountsFollow
<1>3. ASSUME NEW f \in 1 .. MaxFrame, f - 1 \in Same PROVE f \in Same
  <2>1. SUFFICES ASSUME f <= e.frame PROVE MapAt(new, f) = MapAt(evs, f) /\ CountAt(new, f) = CountAt(evs, f)
    BY <1>0
  <2>2. f - 1 # e.frame /\ f - 1 <= e.frame
    BY <1>0, <2>1
  <2>3. MapAt(new, f - 1) = MapAt(evs, f - 1) /\ CountAt(new, f - 1) = CountAt(evs, f - 1)
    BY <1>3, <2>2
  <2>4. MapAt(new, f) = SlotMapAfter(MapAt(new, f - 1), new, f - 1) /\ MapAt(evs, f) = SlotMapAfter(MapAt(evs, f - 1), evs, f - 1)
    BY MapsFollow
  <2>5. /\ CountAt(new, f) = SlotsInPlayAfter(CountAt(new, f - 1), new, f - 1)
        /\ CountAt(evs, f) = SlotsInPlayAfter(CountAt(evs, f - 1), evs, f - 1)
    BY <1>0, CountsFollow
  <2> QED
    BY <1>1, <2>2, <2>3, <2>4, <2>5
<1> HIDE DEF Same
<1>4. \A f \in 0 .. MaxFrame : f \in Same
  BY <1>0, <1>2, <1>3, UpTo
<1> QED
  BY <1>4 DEF Same, new
-----------------------------------------------------------------------------
(* THE INVARIANT OF THE LOG                                                *)

(* The words of a frame, and what they are.                                *)
Words(ks, map, c) ==
  [s \in Slots |-> IF s >= c THEN <<"out of play">>
                   ELSE IF map[s] = AI THEN <<"the AI">> ELSE <<"held", ks[map[s]]>>]

Fates == {<<"out of play">>, <<"the AI">>} \cup {<<"held", w>> : w \in Nat}

(* What n frames wrote, of the words of the peers and the events.          *)
Played(evs, ks, fd, n) ==
  /\ fd \in Seq([Slots -> Fates]) /\ Len(fd) = n
  /\ \A f \in 0 .. n - 1 : fd[f + 1] = Words(ks[f], MapAt(evs, f + 1), CountAt(evs, f + 1))

(* Words are confirmed for players of the session only.                    *)
PlayersOnly ==
  \A t \in Tapes : \A f \in 0 .. MaxFrame - 1, p \in Peers : p >= NumPlayers => t.input[f][p] = 0

KeysType(ks) ==
  /\ ks \in [0 .. MaxFrame -> [Peers -> Nat]]
  /\ \A f \in 0 .. MaxFrame : \A p \in Peers : p >= NumPlayers => ks[f][p] = 0

(* The events, without the one that is being inserted.                     *)
List == IF pc = "insert" THEN first.events ELSE events

Playing ==
  Live =>
    /\ KeysType(keys) /\ frame \in 0 .. MaxFrame /\ players = NumPlayers
    /\ Played(List, keys, fed, frame)
    /\ IF pc = "apply"
         THEN /\ first.map = MapAt(events, frame) /\ first.count = CountAt(events, frame)
              /\ arg = frame /\ frame < MaxFrame /\ frame < len
         ELSE slotPeer = MapAt(List, frame) /\ slotsInPlay = CountAt(List, frame)

Hosting ==
  role = "host" =>
    /\ len = (IF pc = "apply" THEN frame + 1 ELSE frame) /\ Len(events) <= MaxEvents
    /\ pc = "insert" => arg.frame >= frame

Sent ==
  role \in {"sent", "joiner"} =>
    /\ sent.len \in 0 .. MaxFrame /\ KeysType(sent.keys)
    /\ sent.events \in Seq(Events(Nat)) /\ Len(sent.events) <= MaxEvents
    /\ Played(sent.events, sent.keys, sent.fed, sent.len)
    /\ sent.map = MapAt(sent.events, sent.len) /\ sent.count = CountAt(sent.events, sent.len)
    /\ log.frames = sent.len /\ log.events = sent.events /\ log.players = NumPlayers
    /\ \A p \in 0 .. NumPlayers - 1 :
         Len(Decoded(log, p)) = sent.len /\ \A f \in 0 .. sent.len - 1 : Decoded(log, p)[f + 1] = sent.keys[f][p]

Joining ==
  role = "joiner" =>
    /\ len = sent.len /\ catchUpTo = sent.len /\ frame <= sent.len
    /\ \A f \in 0 .. len - 1 : keys[f] = sent.keys[f]
    /\ \E slot \in Slots, peer \in Peers, k \in 0 .. Len(sent.events) :
         events = Insert(sent.events, Seat(slot, peer), k)

LogInv ==
  /\ LoopInv
  /\ Playing /\ Hosting /\ Sent /\ Joining
  /\ role = "sent" => Covered(log) /\ log.count = Len(log.events)

(* What a frame writes for the Kirbys.                                     *)
LEMMA WordsAreFates ==
  ASSUME NEW ks \in [Peers -> Nat], NEW map \in SlotMaps, NEW c
  PROVE  Words(ks, map, c) \in [Slots -> Fates]
<1>1. ASSUME NEW s \in Slots, map[s] # AI PROVE <<"held", ks[map[s]]>> \in Fates
  <2>1. map[s] \in Peers
    BY <1>1 DEF SlotMaps
  <2>2. PICK w \in Nat : w = ks[map[s]]
    BY <2>1
  <2> QED
    BY <2>2 DEF Fates
<1>2. <<"out of play">> \in Fates /\ <<"the AI">> \in Fates
  BY DEF Fates
<1> QED
  BY <1>1, <1>2 DEF Words

(* What was played is the same for a list and words that agree on it.      *)
LEMMA PlayedTheSame ==
  ASSUME NEW n \in Nat, NEW evs, NEW new, NEW ks, NEW to, NEW fd, Played(evs, ks, fd, n),
         \A f \in 0 .. n - 1 : /\ to[f] = ks[f]
                               /\ MapAt(new, f + 1) = MapAt(evs, f + 1) /\ CountAt(new, f + 1) = CountAt(evs, f + 1)
  PROVE  Played(new, to, fd, n)
BY DEF Played

(* The joiner's list is that of the host, as far as the host has played.   *)
LEMMA JoinersList ==
  ASSUME LogInv, role = "joiner"
  PROVE  \A f \in 0 .. sent.len : MapAt(events, f) = MapAt(sent.events, f) /\ CountAt(events, f) = CountAt(sent.events, f)
<1>1. /\ sent.len \in 0 .. MaxFrame /\ sent.events \in Seq(Events(Nat)) /\ log.frames = sent.len
      /\ log.frames \in Nat
  BY DEF LogInv, Sent, LoopInv, LoopTypes
<1>2. PICK slot \in Slots, peer \in Peers, k \in 0 .. Len(sent.events) :
        events = Insert(sent.events, Seat(slot, peer), k)
  BY DEF LogInv, Joining
<1>3. Seat(slot, peer) \in Events(Nat) /\ Seat(slot, peer).frame = log.frames + Depth + Slack
  BY <1>1, SeatIsAnEvent
<1>4. \A f \in 0 .. sent.len : f \in 0 .. MaxFrame /\ f <= Seat(slot, peer).frame
  <2>1. PICK d \in Nat : d = log.frames + Depth + Slack /\ d >= sent.len
    <3>1. log.frames + Depth + Slack \in Nat /\ log.frames + Depth + Slack >= sent.len
      BY <1>1, RbLogAssumption
    <3> QED
      BY <3>1
  <2>2. MaxFrame \in Nat /\ Seat(slot, peer).frame = d
    BY <1>3, <2>1, RbLogAssumption
  <2> QED
    BY <1>1, <2>1, <2>2
<1> QED
  BY <1>1, <1>2, <1>3, <1>4, SameBefore

(* The property follows: the same words, drawn from the same maps, frame   *)
(* after frame.                                                            *)
LEMMA LogInvImplies ==
  LogInv => JoinerFollows
<1>0. ASSUME LogInv, role = "sent", ~TooShort(log) PROVE WellFormed(log)
  <2>1. PICK a \in Nat, b \in Nat : a = Len(log.events) /\ b = MaxEvents
    <3>1. log.events \in Seq(Events(Nat)) /\ MaxEvents \in Nat
      BY <1>0, SlotMapAssumption DEF LogInv, LoopInv, LoopTypes
    <3> QED
      BY <3>1
  <2>2. a >= Min({a, b})
    BY MinOfTwo
  <2> QED
    BY <1>0, <2>1, <2>2 DEF LogInv, WellFormed
<1>short. WellFormed(log) => ~TooShort(log)
  BY DEF WellFormed
<1> SUFFICES ASSUME LogInv, role = "joiner"
             PROVE  /\ len = sent.len
                    /\ \A f \in 0 .. len - 1, p \in 0 .. players - 1 : keys[f][p] = sent.keys[f][p]
                    /\ \E slot \in Slots, peer \in Peers, k \in 0 .. Len(sent.events) :
                         events = Insert(sent.events, Seat(slot, peer), k)
                    /\ IsPrefix(fed, sent.fed)
                    /\ pc = "idle" /\ frame = sent.len => slotPeer = sent.map /\ slotsInPlay = sent.count
  BY <1>0, <1>short DEF JoinerFollows
<1>1. /\ len = sent.len /\ frame <= sent.len
      /\ \A f \in 0 .. len - 1 : keys[f] = sent.keys[f]
      /\ \E slot \in Slots, peer \in Peers, k \in 0 .. Len(sent.events) :
           events = Insert(sent.events, Seat(slot, peer), k)
  BY DEF LogInv, Joining
<1>2. Live /\ pc # "insert"
  BY DEF LogInv, LoopInv, WhoLoops, Live
<1>3. List = events
  BY <1>2 DEF List
<1>4. /\ Played(events, keys, fed, frame) /\ frame \in 0 .. MaxFrame
      /\ pc # "apply" => slotPeer = MapAt(events, frame) /\ slotsInPlay = CountAt(events, frame)
  BY <1>2, <1>3 DEF LogInv, Playing
<1>5. /\ Played(sent.events, sent.keys, sent.fed, sent.len) /\ sent.len \in 0 .. MaxFrame
      /\ sent.map = MapAt(sent.events, sent.len) /\ sent.count = CountAt(sent.events, sent.len)
  BY DEF LogInv, Sent
<1>6. \A f \in 0 .. sent.len : MapAt(events, f) = MapAt(sent.events, f) /\ CountAt(events, f) = CountAt(sent.events, f)
  BY JoinersList
<1>7. MaxFrame \in Nat
  BY RbLogAssumption
<1>8. IsPrefix(fed, sent.fed)
  <2>1. PICK n \in Nat, m \in Nat : n = frame /\ m = sent.len /\ n <= m
    BY <1>1, <1>4, <1>5, <1>7
  <2>2. PICK a \in Seq([Slots -> Fates]) : a = fed /\ Len(a) = n
    BY <1>4, <2>1 DEF Played
  <2>3. PICK b \in Seq([Slots -> Fates]) : b = sent.fed /\ Len(b) = m
    BY <1>5, <2>1 DEF Played
  <2>4. ASSUME NEW x \in 1 .. n PROVE b[x] = a[x]
    <3>1. PICK f \in 0 .. n - 1 : x = f + 1 /\ f + 1 \in 0 .. m /\ f \in 0 .. m - 1
      <4>1. x - 1 \in 0 .. n - 1 /\ x = (x - 1) + 1 /\ (x - 1) + 1 \in 0 .. m /\ x - 1 \in 0 .. m - 1
        BY <2>1
      <4> QED
        BY <4>1
    <3>2. a[x] = Words(keys[f], MapAt(events, f + 1), CountAt(events, f + 1))
      BY <1>4, <2>1, <2>2, <3>1 DEF Played
    <3>3. b[x] = Words(sent.keys[f], MapAt(sent.events, f + 1), CountAt(sent.events, f + 1))
      BY <1>5, <2>1, <2>3, <3>1 DEF Played
    <3> QED
      BY <1>1, <1>6, <2>1, <3>1, <3>2, <3>3
  <2>5. SubSeq(b, 1, n) = a
    <3>1. 0 + Len(a) <= Len(b) /\ \A x \in 1 .. Len(a) : b[0 + x] = a[x]
      BY <2>1, <2>2, <2>3, <2>4
    <3>2. SubSeq(b, 0 + 1, 0 + Len(a)) = a
      BY <3>1, PartOf
    <3> QED
      BY <2>2, <3>2
  <2>6. SubSeq(a, 1, n) = a
    BY <2>2, WholeOf
  <2> QED
    BY <2>1, <2>2, <2>3, <2>5, <2>6 DEF IsPrefix
<1>9. ASSUME pc = "idle", frame = sent.len PROVE slotPeer = sent.map /\ slotsInPlay = sent.count
  <2>1. sent.len \in 0 .. sent.len
    BY <1>5, <1>7
  <2> QED
    BY <1>4, <1>5, <1>6, <1>9, <2>1
<1>10. \A f \in 0 .. len - 1, p \in 0 .. players - 1 : keys[f][p] = sent.keys[f][p]
  BY <1>1
<1> QED
  BY <1>1, <1>8, <1>9, <1>10
-----------------------------------------------------------------------------
(* What was sent stays what it is.                                         *)
LEMMA SentStays ==
  ASSUME Sent, role' \in {"sent", "joiner"} => role \in {"sent", "joiner"}, sent' = sent, log' = log
  PROVE  Sent'
BY DEF Sent

(* Before the first frame nothing was written.                             *)
LEMMA NothingPlayed ==
  ASSUME NEW evs, NEW ks
  PROVE  Played(evs, ks, <<>>, 0)
<1>1. <<>> \in Seq([Slots -> Fates]) /\ Len(<<>>) = 0 /\ \A f \in 0 .. 0 - 1 : FALSE
  OBVIOUS
<1> QED
  BY <1>1 DEF Played

(* An empty timeline.                                                      *)
LEMMA NoKeysType ==
  KeysType([f \in 0 .. MaxFrame |-> NoKeys])
BY DEF KeysType, NoKeys

(* It holds at PortRbInit.                                                 *)
LEMMA LogInit ==
  Init => LogInv
<1> SUFFICES ASSUME Init PROVE LogInv
  OBVIOUS
<1>1. /\ events = <<>> /\ slotPeer = FirstSlotMap(NumPlayers) /\ slotsInPlay = NumPeers /\ pc = "idle"
      /\ keys = [f \in 0 .. MaxFrame |-> NoKeys] /\ len = 0 /\ frame = 0 /\ players = NumPlayers
      /\ role = "host" /\ fed = <<>>
  BY DEF Init, NoEvents, PortRbInit
<1>2. MaxFrame \in Nat /\ MaxEvents \in Nat
  BY RbLogAssumption, SlotMapAssumption
<1>3. Playing
  <2>1. Played(List, keys, fed, frame)
    BY <1>1, NothingPlayed
  <2>2. List = events
    BY <1>1 DEF List
  <2>3. slotPeer = MapAt(List, frame) /\ slotsInPlay = CountAt(List, frame)
    BY <1>1, <2>2, NoEventIsSorted, MapsFollow, CountsFollow
  <2>4. KeysType(keys)
    BY <1>1, NoKeysType
  <2> QED
    BY <1>1, <1>2, <2>1, <2>3, <2>4 DEF Playing
<1>4. Hosting
  BY <1>1, <1>2, NoEventIsSorted DEF Hosting
<1>5. Sent /\ Joining /\ role # "sent"
  BY <1>1 DEF Sent, Joining
<1> QED
  BY <1>3, <1>4, <1>5, LoopInit DEF LogInv

(* What a frame finds in the timeline, or puts there.                      *)
LEMMA WordsOfAFrame ==
  ASSUME PlayersOnly, LogInv, Hook
  PROVE  /\ KeysType(keys') /\ \A f \in 0 .. frame - 1 : keys'[f] = keys[f]
         /\ role = "host" => len' = frame + 1
         /\ role = "joiner" => len' = len /\ keys' = keys /\ frame < len
         /\ frame < len'
<1>1. /\ pc = "idle" /\ Live /\ frame < MaxFrame /\ (role = "joiner" => frame < catchUpTo)
      /\ keys' = (IF frame >= len THEN [keys EXCEPT ![frame] = tape.input[frame]] ELSE keys)
      /\ len' = Max({len, frame + 1})
  BY DEF Hook, ApplyEventsFor
<1>2. KeysType(keys) /\ frame \in 0 .. MaxFrame /\ MaxFrame \in Nat /\ len \in Nat /\ tape \in Tapes
  BY <1>1, RbLogAssumption DEF LogInv, Playing, LoopInv, LoopTypes
<1>3. len' = IF len >= frame + 1 THEN len ELSE frame + 1
  <2>1. frame + 1 \in Int /\ len \in Int
    BY <1>2
  <2> QED
    BY <1>1, <2>1, MaxOfTwo
<1>4. CASE role = "host"
  <2>1. len = frame
    BY <1>1, <1>4 DEF LogInv, Hosting
  <2>2. keys' = [keys EXCEPT ![frame] = tape.input[frame]] /\ len' = frame + 1
    BY <1>1, <1>2, <1>3, <2>1
  <2>3. frame \in 0 .. MaxFrame - 1
    BY <1>1, <1>2
  <2>4. tape.input[frame] \in [Peers -> Nat] /\ \A p \in Peers : p >= NumPlayers => tape.input[frame][p] = 0
    BY <1>2, <2>3, RbLogAssumption DEF PlayersOnly
  <2>5. KeysType(keys')
    BY <1>2, <2>2, <2>4 DEF KeysType
  <2>6. \A f \in 0 .. frame - 1 : keys'[f] = keys[f]
    <3>1. \A f \in 0 .. frame - 1 : f \in 0 .. MaxFrame /\ f # frame
      BY <1>2
    <3> QED
      BY <1>2, <2>2, <3>1 DEF KeysType
  <2> QED
    BY <1>2, <1>4, <2>2, <2>5, <2>6
<1>5. CASE role = "joiner"
  <2>1. len = sent.len /\ catchUpTo = sent.len
    BY <1>5 DEF LogInv, Joining
  <2>2. frame < len
    BY <1>1, <1>5, <2>1
  <2>3. keys' = keys /\ len' = len
    BY <1>1, <1>2, <1>3, <2>2
  <2> QED
    BY <1>2, <1>5, <2>2, <2>3
<1> QED
  BY <1>1, <1>4, <1>5 DEF Live

(* A frame begins: its words are in the timeline, and the map is that of   *)
(* the frames before.                                                      *)
LEMMA HookLog ==
  PlayersOnly /\ LogInv /\ Hook /\ LoopInv' => LogInv'
<1> SUFFICES ASSUME PlayersOnly, LogInv, Hook, LoopInv' PROVE LogInv'
  OBVIOUS
<1>1. /\ pc = "idle" /\ pc' = "apply" /\ arg' = frame
      /\ first'.map = slotPeer /\ first'.count = slotsInPlay
      /\ events' = events /\ slotPeer' = slotPeer /\ slotsInPlay' = slotsInPlay
      /\ Live /\ frame < MaxFrame
  BY DEF Hook, ApplyEventsFor, Now
<1>2. /\ role' = role /\ frame' = frame /\ players' = players /\ catchUpTo' = catchUpTo
      /\ log' = log /\ fed' = fed /\ sent' = sent
  BY DEF Hook
<1>3. /\ KeysType(keys') /\ \A f \in 0 .. frame - 1 : keys'[f] = keys[f]
      /\ role = "host" => len' = frame + 1
      /\ role = "joiner" => len' = len /\ keys' = keys /\ frame < len
      /\ frame < len'
  BY WordsOfAFrame
<1>4. List = events /\ List' = events
  BY <1>1 DEF List
<1>5. /\ frame \in 0 .. MaxFrame /\ players = NumPlayers /\ Played(events, keys, fed, frame)
      /\ slotPeer = MapAt(events, frame) /\ slotsInPlay = CountAt(events, frame)
  BY <1>1, <1>4 DEF LogInv, Playing
<1>6. Playing'
  <2>1. Played(events, keys', fed, frame)
    <3>1. frame \in Nat
      BY <1>5, RbLogAssumption
    <3> QED
      BY <1>3, <1>5, <3>1, PlayedTheSame
  <2> QED
    BY <1>1, <1>2, <1>3, <1>4, <1>5, <2>1 DEF Playing
<1>7. Hosting'
  BY <1>1, <1>2, <1>3 DEF LogInv, Hosting
<1>8. Sent'
  BY <1>2, SentStays DEF LogInv
<1>9. Joining'
  <2>1. \A slot, peer : Seat(slot, peer)' = Seat(slot, peer)
    BY <1>2 DEF Seat
  <2> QED
    BY <1>1, <1>2, <1>3, <2>1 DEF LogInv, Joining
<1> QED
  BY <1>1, <1>2, <1>6, <1>7, <1>8, <1>9 DEF LogInv, Live

(* A frame is written: with the map the closed form gives, which is that   *)
(* of the next frame.                                                      *)
LEMMA AppliedLog ==
  LogInv /\ ApplySlotInputs /\ LoopInv' => LogInv'
<1> SUFFICES ASSUME LogInv, ApplySlotInputs, LoopInv' PROVE LogInv'
  OBVIOUS
<1>1. /\ pc = "apply" /\ i = Len(events) /\ pc' = "idle"
      /\ events' = events /\ slotPeer' = slotPeer /\ slotsInPlay' = slotsInPlay
  BY DEF ApplySlotInputs, Applied
<1>2. /\ fed' = Append(fed, WordsFor) /\ frame' = frame + 1 /\ keys' = keys /\ len' = len
      /\ role' = role /\ players' = players /\ catchUpTo' = catchUpTo /\ log' = log /\ sent' = sent
  BY DEF ApplySlotInputs
<1>3. Live /\ role # "sent"
  BY <1>1 DEF LogInv, LoopInv, WhoLoops, LoopTypes, Roles, Live
<1>4. List = events /\ List' = events
  BY <1>1 DEF List
<1>5. /\ KeysType(keys) /\ players = NumPlayers /\ Played(events, keys, fed, frame)
      /\ first.map = MapAt(events, frame) /\ first.count = CountAt(events, frame) /\ arg = frame
      /\ frame \in 0 .. MaxFrame /\ frame < MaxFrame /\ frame < len
  BY <1>1, <1>3, <1>4 DEF LogInv, Playing
<1>6. events \in Seq(Events(Nat)) /\ slotPeer \in SlotMaps /\ MaxFrame \in Nat /\ len \in Nat
  BY RbLogAssumption DEF LogInv, LoopInv, LoopTypes
<1>7. slotPeer = SlotMapAfter(first.map, events, arg) /\ slotsInPlay = SlotsInPlayAfter(first.count, events, arg)
  <2>1. LoopsAreClosedForms
    BY LoopInvImplies DEF LogInv
  <2> QED
    BY <1>1, <2>1 DEF LoopsAreClosedForms
<1>8. PICK n \in 1 .. MaxFrame : n = frame + 1 /\ n - 1 = frame /\ n \in 0 .. MaxFrame
  <2>1. frame + 1 \in 1 .. MaxFrame /\ (frame + 1) - 1 = frame /\ frame + 1 \in 0 .. MaxFrame
    BY <1>5, <1>6
  <2> QED
    BY <2>1
<1>9. slotPeer = MapAt(events, n) /\ slotsInPlay = CountAt(events, n)
  <2>1. MapAt(events, n) = SlotMapAfter(MapAt(events, n - 1), events, n - 1)
    BY MapsFollow
  <2>2. CountAt(events, n) = SlotsInPlayAfter(CountAt(events, n - 1), events, n - 1)
    BY <1>6, CountsFollow
  <2> QED
    BY <1>5, <1>7, <1>8, <2>1, <2>2
<1>10. WordsFor = Words(keys[frame], slotPeer, slotsInPlay)
  BY <1>5 DEF WordsFor, Words
<1>11. WordsFor \in [Slots -> Fates]
  <2>1. keys[frame] \in [Peers -> Nat]
    BY <1>5 DEF KeysType
  <2> QED
    BY <1>6, <1>10, <2>1, WordsAreFates
<1>12. Played(events, keys, fed', n)
  <2>1. fed \in Seq([Slots -> Fates]) /\ Len(fed) = frame
    BY <1>5 DEF Played
  <2>2. fed' \in Seq([Slots -> Fates]) /\ Len(fed') = n
    BY <1>2, <1>8, <1>11, <2>1
  <2>3. ASSUME NEW f \in 0 .. n - 1
        PROVE  fed'[f + 1] = Words(keys[f], MapAt(events, f + 1), CountAt(events, f + 1))
    <3>1. CASE f = frame
      <4>1. fed'[n] = WordsFor
        BY <1>2, <1>8, <1>11, <2>1
      <4> QED
        BY <1>8, <1>9, <1>10, <3>1, <4>1
    <3>2. CASE f # frame
      <4>1. f \in 0 .. frame - 1 /\ f + 1 \in 1 .. frame
        BY <1>5, <1>8, <3>2
      <4>2. fed'[f + 1] = fed[f + 1]
        BY <1>2, <1>11, <2>1, <4>1
      <4> QED
        BY <1>5, <4>1, <4>2 DEF Played
    <3> QED
      BY <3>1, <3>2
  <2> QED
    BY <2>2, <2>3 DEF Played
<1>13. Playing'
  BY <1>1, <1>2, <1>4, <1>5, <1>8, <1>9, <1>12 DEF Playing
<1>14. Hosting'
  BY <1>1, <1>2 DEF LogInv, Hosting
<1>15. Sent'
  BY <1>2, SentStays DEF LogInv
<1>16. Joining'
  <2>1. \A slot, peer : Seat(slot, peer)' = Seat(slot, peer)
    BY <1>2 DEF Seat
  <2>2. role = "joiner" => frame + 1 <= sent.len
    BY <1>5, <1>6 DEF LogInv, Joining
  <2> QED
    BY <1>1, <1>2, <2>1, <2>2 DEF LogInv, Joining
<1> QED
  BY <1>2, <1>3, <1>13, <1>14, <1>15, <1>16 DEF LogInv

(* An event is taken in: the list without it is the one there was.         *)
LEMMA ScheduleLog ==
  LogInv /\ PortRbScheduleEvent /\ LoopInv' => LogInv'
<1> SUFFICES ASSUME LogInv, PortRbScheduleEvent, LoopInv' PROVE LogInv'
  OBVIOUS
<1>0. PICK e \in tape.events : e.frame >= frame /\ ScheduleEvent(e)
  BY DEF PortRbScheduleEvent
<1>1. /\ pc = "idle" /\ pc' = "insert" /\ arg' = e /\ events' = Append(events, e) /\ Len(events) < MaxEvents
      /\ first'.events = events /\ slotPeer' = slotPeer /\ slotsInPlay' = slotsInPlay
  BY <1>0 DEF ScheduleEvent, Now
<1>2. /\ role = "host" /\ role' = role /\ frame' = frame /\ players' = players /\ keys' = keys /\ len' = len
      /\ log' = log /\ fed' = fed /\ sent' = sent
  BY DEF PortRbScheduleEvent, Untouched, logVars
<1>3. List = events /\ List' = events
  BY <1>1 DEF List
<1>4. Playing'
  BY <1>1, <1>2, <1>3 DEF LogInv, Playing, Live
<1>5. Hosting'
  <2>1. Len(events') <= MaxEvents
    <3>1. events \in Seq(Events(Nat)) /\ MaxEvents \in Nat
      BY SlotMapAssumption DEF LogInv, LoopInv, LoopTypes
    <3>2. Len(events') = Len(events) + 1 /\ Len(events) \in Nat
      BY <1>1, <3>1
    <3> QED
      BY <1>1, <3>1, <3>2
  <2> QED
    BY <1>0, <1>1, <1>2, <2>1 DEF LogInv, Hosting
<1>6. Sent' /\ Joining' /\ role' # "sent"
  BY <1>2 DEF Sent, Joining
<1> QED
  BY <1>4, <1>5, <1>6 DEF LogInv

(* The list without the event that is being inserted is the same.          *)
LEMMA ShiftLog ==
  LogInv /\ Shift /\ Untouched /\ LoopInv' => LogInv'
<1> SUFFICES ASSUME LogInv, Shift, Untouched, LoopInv' PROVE LogInv'
  OBVIOUS
<1>1. /\ pc = "insert" /\ pc' = pc /\ arg' = arg /\ first' = first /\ events' = [events EXCEPT ![i + 1] = events[i]]
      /\ slotPeer' = slotPeer /\ slotsInPlay' = slotsInPlay
  BY DEF Shift
<1>2. /\ role' = role /\ frame' = frame /\ players' = players /\ keys' = keys /\ len' = len
      /\ log' = log /\ fed' = fed /\ sent' = sent
  BY DEF Untouched, logVars
<1>3. role = "host"
  BY <1>1 DEF LogInv, LoopInv, WhoLoops
<1>4. List = first.events /\ List' = first.events
  BY <1>1 DEF List
<1>5. Playing'
  BY <1>1, <1>2, <1>3, <1>4 DEF LogInv, Playing, Live
<1>6. Hosting'
  <2>1. Len(events') = Len(events)
    <3>1. events \in Seq(Events(Nat))
      BY DEF LogInv, LoopInv, LoopTypes
    <3> QED
      BY <1>1, <3>1
  <2> QED
    BY <1>1, <1>2, <2>1 DEF LogInv, Hosting
<1>7. Sent' /\ Joining' /\ role' # "sent"
  BY <1>2, <1>3 DEF Sent, Joining
<1> QED
  BY <1>5, <1>6, <1>7 DEF LogInv

(* The event is in the list, and is of no frame that was played.           *)
LEMMA PlaceLog ==
  LogInv /\ Place /\ Untouched /\ LoopInv' => LogInv'
<1> SUFFICES ASSUME LogInv, Place, Untouched, LoopInv' PROVE LogInv'
  OBVIOUS
<1>1. /\ pc = "insert" /\ pc' = "idle" /\ arg' = arg /\ first' = first /\ events' = [events EXCEPT ![i + 1] = arg]
      /\ slotPeer' = slotPeer /\ slotsInPlay' = slotsInPlay
  BY DEF Place
<1>2. /\ role' = role /\ frame' = frame /\ players' = players /\ keys' = keys /\ len' = len
      /\ log' = log /\ fed' = fed /\ sent' = sent
  BY DEF Untouched, logVars
<1>3. role = "host" /\ Live
  BY <1>1 DEF LogInv, LoopInv, WhoLoops, Live
<1>4. /\ events \in Seq(Events(Nat)) /\ first.events \in Seq(Events(Nat)) /\ arg \in Events(Nat)
      /\ Len(events) = Len(first.events) + 1
  BY <1>1 DEF LogInv, LoopInv, LoopTypes, Inserting
<1>5. Len(events') = Len(events)
  BY <1>1, <1>4
<1>6. PICK k \in 0 .. Len(first.events) : events' = Insert(first.events, arg, k)
  <2>1. ~(Len(events') <= Len(first'.events))
    <3>1. Len(first.events) \in Nat
      BY <1>4
    <3> QED
      BY <1>1, <1>4, <1>5, <3>1
  <2> QED
    BY <1>1, <2>1 DEF LoopInv, Inserted
<1>7. List = first.events /\ List' = events'
  BY <1>1 DEF List
<1>8. /\ KeysType(keys) /\ frame \in 0 .. MaxFrame /\ players = NumPlayers /\ Played(first.events, keys, fed, frame)
      /\ slotPeer = MapAt(first.events, frame) /\ slotsInPlay = CountAt(first.events, frame)
  BY <1>1, <1>3, <1>7 DEF LogInv, Playing
<1>9. \A f \in 0 .. frame : /\ MapAt(events', f) = MapAt(first.events, f)
                            /\ CountAt(events', f) = CountAt(first.events, f)
  <2>1. arg.frame >= frame /\ arg.frame \in Nat /\ MaxFrame \in Nat
    BY <1>1, <1>3, <1>4, EventParts, RbLogAssumption DEF LogInv, Hosting
  <2>2. \A f \in 0 .. frame : f \in 0 .. MaxFrame /\ f <= arg.frame
    BY <1>8, <2>1
  <2> QED
    BY <1>4, <1>6, <2>2, SameBefore
<1>10. frame \in Nat /\ frame \in 0 .. frame /\ \A f \in 0 .. frame - 1 : f + 1 \in 0 .. frame
  BY <1>8, RbLogAssumption
<1>11. Played(events', keys, fed, frame)
  BY <1>8, <1>9, <1>10, PlayedTheSame
<1>12. Playing'
  BY <1>1, <1>2, <1>7, <1>8, <1>9, <1>10, <1>11 DEF Playing
<1>13. Hosting'
  BY <1>1, <1>2, <1>5 DEF LogInv, Hosting
<1>14. Sent' /\ Joining' /\ role' # "sent"
  BY <1>2, <1>3 DEF Sent, Joining
<1> QED
  BY <1>12, <1>13, <1>14 DEF LogInv

(* While the loop runs, nothing of the log moves.                          *)
LEMMA ApplyLog ==
  LogInv /\ ApplyEvent /\ Untouched /\ LoopInv' => LogInv'
<1> SUFFICES ASSUME LogInv, ApplyEvent, Untouched, LoopInv' PROVE LogInv'
  OBVIOUS
<1>1. pc = "apply" /\ pc' = pc /\ arg' = arg /\ first' = first /\ events' = events
  BY DEF ApplyEvent
<1>2. /\ role' = role /\ frame' = frame /\ players' = players /\ keys' = keys /\ len' = len
      /\ log' = log /\ fed' = fed /\ sent' = sent /\ catchUpTo' = catchUpTo
  BY DEF Untouched, logVars
<1>3. List' = List
  BY <1>1 DEF List
<1>4. Playing'
  BY <1>1, <1>2, <1>3 DEF LogInv, Playing, Live
<1>5. Hosting'
  BY <1>1, <1>2 DEF LogInv, Hosting
<1>6. Sent'
  BY <1>2, SentStays DEF LogInv
<1>7. Joining'
  <2>1. \A slot, peer : Seat(slot, peer)' = Seat(slot, peer)
    BY <1>2 DEF Seat
  <2> QED
    BY <1>1, <1>2, <2>1 DEF LogInv, Joining
<1>8. role' # "sent"
  BY <1>1, <1>2 DEF LogInv, LoopInv, WhoLoops
<1> QED
  BY <1>4, <1>5, <1>6, <1>7, <1>8 DEF LogInv

(* The host encodes: what can be decoded is what it played.                *)
LEMMA EncodeLogStep ==
  LogInv /\ PortRbEncodeLog /\ LoopInv' => LogInv'
<1> SUFFICES ASSUME LogInv, PortRbEncodeLog, LoopInv' PROVE LogInv'
  OBVIOUS
<1>1. /\ role = "host" /\ pc = "idle" /\ role' = "sent" /\ log' = EncodeLog
      /\ sent'.keys = keys /\ sent'.len = len /\ sent'.events = events /\ sent'.fed = fed
      /\ sent'.map = slotPeer /\ sent'.count = slotsInPlay
  BY DEF PortRbEncodeLog
<1>2. List = events /\ Live
  BY <1>1 DEF List, Live
<1>3. /\ KeysType(keys) /\ players = NumPlayers /\ Played(events, keys, fed, frame) /\ frame \in 0 .. MaxFrame
      /\ slotPeer = MapAt(events, frame) /\ slotsInPlay = CountAt(events, frame)
  BY <1>1, <1>2 DEF LogInv, Playing
<1>4. len = frame /\ Len(events) <= MaxEvents
  BY <1>1 DEF LogInv, Hosting
<1>5. events \in Seq(Events(Nat)) /\ MaxFrame \in Nat /\ NumPlayers \in 1 .. NumPeers
  BY RbLogAssumption, SlotMapAssumption DEF LogInv, LoopInv, LoopTypes
<1>6. /\ Covered(EncodeLog)
      /\ \A p \in 0 .. players - 1 : Decoded(EncodeLog, p) = Column(p) /\ Len(Column(p)) = len
  <2>1. keys \in [0 .. MaxFrame -> [Peers -> Nat]] /\ len \in 0 .. MaxFrame /\ players \in 1 .. NumPeers
    BY <1>3, <1>4, <1>5 DEF KeysType
  <2> QED
    BY <2>1, LogComesBack
<1>7. /\ EncodeLog.frames = len /\ EncodeLog.events = events /\ EncodeLog.players = NumPlayers
      /\ EncodeLog.count = Len(events)
  BY <1>3 DEF EncodeLog
<1>8. ASSUME NEW p \in 0 .. NumPlayers - 1
      PROVE  /\ Len(Decoded(EncodeLog, p)) = len
             /\ \A f \in 0 .. len - 1 : Decoded(EncodeLog, p)[f + 1] = keys[f][p]
  <2>1. Decoded(EncodeLog, p) = Column(p) /\ Len(Column(p)) = len
    BY <1>3, <1>6
  <2>2. ASSUME NEW f \in 0 .. len - 1 PROVE Column(p)[f + 1] = keys[f][p]
    <3>1. f + 1 \in 1 .. len /\ (f + 1) - 1 = f
      BY <1>3, <1>4, <1>5
    <3> QED
      BY <3>1 DEF Column
  <2> QED
    BY <2>1, <2>2
<1>9. Sent'
  BY <1>1, <1>3, <1>4, <1>5, <1>7, <1>8 DEF Sent
<1>10. Playing' /\ Hosting' /\ Joining'
  BY <1>1 DEF Playing, Hosting, Joining, Live
<1>11. Covered(log') /\ log'.count = Len(log'.events)
  BY <1>1, <1>6, <1>7
<1> QED
  BY <1>9, <1>10, <1>11 DEF LogInv

(* What the joiner's timeline holds is what the host's held.               *)
LEMMA FilledIsSent ==
  ASSUME LogInv, role = "sent"
  PROVE  KeysType(Filled(log)) /\ \A f \in 0 .. sent.len - 1 : Filled(log)[f] = sent.keys[f]
<1>1. /\ sent.len \in 0 .. MaxFrame /\ KeysType(sent.keys) /\ log.players = NumPlayers
      /\ \A p \in 0 .. NumPlayers - 1 :
           Len(Decoded(log, p)) = sent.len /\ \A f \in 0 .. sent.len - 1 : Decoded(log, p)[f + 1] = sent.keys[f][p]
  BY DEF LogInv, Sent
<1>2. MaxFrame \in Nat /\ NumPlayers \in 1 .. NumPeers /\ NumPeers \in Nat \ {0}
  BY RbLogAssumption, SlotMapAssumption, NumPeersAssumption
<1>3. ASSUME NEW f \in 0 .. MaxFrame, NEW p \in Peers
      PROVE  Filled(log)[f][p] = IF p < NumPlayers /\ f < sent.len THEN sent.keys[f][p] ELSE 0
  <2>1. Filled(log)[f][p] = IF p < NumPlayers /\ f < Len(Decoded(log, p)) THEN Decoded(log, p)[f + 1] ELSE 0
    BY <1>1 DEF Filled
  <2>2. CASE p < NumPlayers
    <3>1. p \in 0 .. NumPlayers - 1
      BY <1>2, <2>2 DEF Peers
    <3>2. Len(Decoded(log, p)) = sent.len
      BY <1>1, <3>1
    <3>3. f < sent.len => Decoded(log, p)[f + 1] = sent.keys[f][p]
      <4>1. f < sent.len => f \in 0 .. sent.len - 1
        BY <1>1, <1>2
      <4> QED
        BY <1>1, <3>1, <4>1
    <3> QED
      BY <2>1, <2>2, <3>2, <3>3
  <2>3. CASE ~(p < NumPlayers)
    BY <2>1, <2>3
  <2> QED
    BY <2>2, <2>3
<1>4. \A f \in 0 .. MaxFrame : Filled(log)[f] = [p \in Peers |-> Filled(log)[f][p]]
  BY DEF Filled
<1>5. Filled(log) = [f \in 0 .. MaxFrame |-> Filled(log)[f]]
  BY DEF Filled
<1>6. KeysType(Filled(log))
  <2>1. ASSUME NEW f \in 0 .. MaxFrame, NEW p \in Peers
        PROVE  Filled(log)[f][p] \in Nat /\ (p >= NumPlayers => Filled(log)[f][p] = 0)
    <3>1. sent.keys[f][p] \in Nat /\ p \in Int /\ NumPlayers \in Int
      BY <1>1, <1>2 DEF KeysType, Peers
    <3> QED
      BY <1>3, <3>1
  <2>2. \A f \in 0 .. MaxFrame : Filled(log)[f] \in [Peers -> Nat]
    BY <1>4, <2>1
  <2>3. Filled(log) \in [0 .. MaxFrame -> [Peers -> Nat]]
    BY <1>5, <2>2
  <2> QED
    BY <2>1, <2>3 DEF KeysType
<1>7. ASSUME NEW f \in 0 .. sent.len - 1 PROVE Filled(log)[f] = sent.keys[f]
  <2>1. f \in 0 .. MaxFrame /\ f < sent.len
    BY <1>1, <1>2
  <2>2. sent.keys[f] \in [Peers -> Nat] /\ \A p \in Peers : p >= NumPlayers => sent.keys[f][p] = 0
    BY <1>1, <2>1 DEF KeysType
  <2>3. \A p \in Peers : Filled(log)[f][p] = sent.keys[f][p]
    <3>1. \A p \in Peers : p \in Int /\ NumPlayers \in Int
      BY <1>2 DEF Peers
    <3> QED
      BY <1>3, <2>1, <2>2, <3>1
  <2> QED
    BY <1>4, <2>1, <2>2, <2>3
<1> QED
  BY <1>6, <1>7

(* A joiner starts: the host's words and events are there, and nothing was *)
(* written.                                                                *)
LEMMA JoinLog ==
  ASSUME LogInv, LoopInv', NEW slot \in Slots, NEW peer \in Peers, PortRbJoin(slot, peer)
  PROVE  LogInv'
<1> DEFINE decoded == EventsRead(log)
<1>1. /\ role = "sent" /\ keys' = Filled(log) /\ len' = log.frames /\ players' = log.players
      /\ \/ /\ role' = "joiner" /\ catchUpTo' = log.frames
            /\ \E k \in 0 .. Len(decoded) : events' = Insert(decoded, Seat(slot, peer), k)
         \/ role' = "refused"
  BY DEF PortRbJoin
<1>2. /\ slotPeer' = FirstSlotMap(NumPlayers) /\ slotsInPlay' = NumPeers /\ pc' = "idle"
      /\ frame' = 0 /\ fed' = <<>> /\ log' = log /\ sent' = sent
  BY DEF PortRbJoin, StartsOver
<1>3. /\ sent.len \in 0 .. MaxFrame /\ log.frames = sent.len /\ log.events = sent.events /\ log.players = NumPlayers
      /\ sent.events \in Seq(Events(Nat)) /\ Len(sent.events) <= MaxEvents
  BY <1>1 DEF LogInv, Sent
<1>4. MaxFrame \in Nat /\ MaxEvents \in Nat
  BY RbLogAssumption, SlotMapAssumption
<1>5. decoded = sent.events
  <2>1. Len(sent.events) \in Int /\ MaxEvents \in Int
    BY <1>3, <1>4
  <2>2. Min({Len(sent.events), MaxEvents}) = Len(sent.events)
    BY <1>3, <2>1, MinOfTwo
  <2> QED
    BY <1>3, <2>2, WholeOf DEF EventsRead
<1> HIDE DEF decoded
<1>6. Sent'
  BY <1>1, <1>2, SentStays DEF LogInv
<1>7. CASE role' = "refused"
  BY <1>6, <1>7 DEF LogInv, Playing, Hosting, Joining, Live
<1>8. CASE role' # "refused"
  <2>1. /\ role' = "joiner" /\ catchUpTo' = log.frames
        /\ \E k \in 0 .. Len(sent.events) : events' = Insert(sent.events, Seat(slot, peer), k)
    BY <1>1, <1>5, <1>8
  <2>2. KeysType(keys') /\ \A f \in 0 .. sent.len - 1 : keys'[f] = sent.keys[f]
    BY <1>1, FilledIsSent
  <2>3. List' = events' /\ events' \in Seq(Events(Nat))
    BY <1>2 DEF List, LoopInv, LoopTypes
  <2>4. Played(events', keys', <<>>, 0)
    BY NothingPlayed
  <2>5. FirstSlotMap(NumPlayers) = MapAt(events', 0) /\ NumPeers = CountAt(events', 0)
    BY <2>3, MapsFollow, CountsFollow
  <2>6. Playing'
    BY <1>1, <1>2, <1>3, <1>4, <2>2, <2>3, <2>4, <2>5 DEF Playing
  <2>7. Joining'
    <3>1. Seat(slot, peer)' = Seat(slot, peer)
      BY <1>2 DEF Seat
    <3>2. \E s \in Slots, p \in Peers, k \in 0 .. Len(sent'.events) : events' = Insert(sent'.events, Seat(s, p)', k)
      BY <1>2, <2>1, <3>1
    <3>3. 0 <= sent.len
      BY <1>3, <1>4
    <3> QED
      BY <1>1, <1>2, <1>3, <2>1, <2>2, <3>2, <3>3 DEF Joining
  <2>8. Hosting' /\ role' # "sent"
    BY <2>1 DEF Hosting
  <2> QED
    BY <1>6, <2>6, <2>7, <2>8 DEF LogInv
<1> QED
  BY <1>7, <1>8

(* One refused follows nobody.                                             *)
LEMMA RefusedLog ==
  ASSUME LogInv, LoopInv', NEW n \in Int, JoinRefused(n)
  PROVE  LogInv'
<1>1. role' = "refused"
  BY DEF JoinRefused
<1> QED
  BY <1>1 DEF LogInv, Playing, Hosting, Sent, Joining, Live

(* Every step keeps it.                                                    *)
LEMMA LogNext ==
  PlayersOnly /\ LogInv /\ [Next]_vars => LogInv'
<1> SUFFICES ASSUME PlayersOnly, LogInv, [Next]_vars PROVE LogInv'
  OBVIOUS
<1>0. LoopInv'
  BY LoopNext DEF LogInv
<1>1. CASE UNCHANGED vars
  <2>1. /\ UNCHANGED <<events, slotPeer, slotsInPlay, pc, i, arg, first>>
        /\ UNCHANGED <<tape, role, keys, len, frame, players, catchUpTo, log, fed, sent>>
    BY <1>1 DEF vars, loopVars, logVars
  <2>2. List' = List /\ (Live' <=> Live) /\ \A slot, peer : Seat(slot, peer)' = Seat(slot, peer)
    BY <2>1 DEF List, Live, Seat
  <2>3. Playing' /\ Hosting' /\ Joining'
    BY <2>1, <2>2 DEF LogInv, Playing, Hosting, Joining
  <2>4. Sent'
    BY <2>1, SentStays DEF LogInv
  <2> QED
    BY <1>0, <2>1, <2>3, <2>4 DEF LogInv
<1>2. CASE Next
  <2>1. CASE Hook
    BY <1>0, <2>1, HookLog
  <2>2. CASE ApplySlotInputs
    BY <1>0, <2>2, AppliedLog
  <2>3. CASE PortRbScheduleEvent
    BY <1>0, <2>3, ScheduleLog
  <2>4. CASE (Shift \/ Place \/ ApplyEvent) /\ Untouched
    BY <1>0, <2>4, ShiftLog, PlaceLog, ApplyLog
  <2>5. CASE PortRbEncodeLog
    BY <1>0, <2>5, EncodeLogStep
  <2>6. CASE \E slot \in Slots, peer \in Peers : PortRbJoin(slot, peer)
    BY <1>0, <2>6, JoinLog
  <2>7. CASE \E n \in 0 .. log.size : JoinRefused(n)
    BY <1>0, <2>7, RefusedLog
  <2> QED
    BY <1>2, <2>1, <2>2, <2>3, <2>4, <2>5, <2>6, <2>7 DEF Next
<1> QED
  BY <1>1, <1>2

(* A late joiner (PortRbEncodeLog, PortRbDecodeLog, PortRbJoin) plays what *)
(* the host played: a log is well formed exactly if it has the bytes that  *)
(* PortRbDecodeLog wants, and then the words and the events come back,     *)
(* every frame writes for every Kirby what it wrote on the host, and the   *)
(* seats end as they were; for any number of peers, any input, any lengths *)
(* of runs and any list of events, provided only players of the session    *)
(* are confirmed for: the log leaves out the words of a later peer, which  *)
(* nothing refuses.                                                        *)
THEOREM TheJoinerFollows ==
  ASSUME PlayersOnly
  PROVE  Spec => []JoinerFollows
<1>1. Init => LogInv
  BY LogInit
<1>2. LogInv /\ [Next]_vars => LogInv'
  BY LogNext
<1>3. LogInv => JoinerFollows
  BY LogInvImplies
<1> QED
  BY <1>1, <1>2, <1>3, PTL DEF Spec
=============================================================================
