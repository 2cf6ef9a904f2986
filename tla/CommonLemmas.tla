---------------------------- MODULE CommonLemmas ----------------------------
(***************************************************************************)
(* What the proofs about several components need of numbers and sequences. *)
(***************************************************************************)
EXTENDS Naturals, SequenceTheorems, WellFoundedInduction, TLAPS

\* Every set of numbers that is not empty has a least one.
LEMMA Least ==
    ASSUME NEW S, S \subseteq Nat, S # {}
    PROVE  \E n \in S : \A k \in S : n <= k
<1> DEFINE Less == {p \in Nat \X Nat : p[1] < p[2]}
<1>1. OpToRel(<, Nat) = Less
  BY DEF OpToRel
<1>2. IsWellFoundedOn(Less, Nat)
  BY <1>1, NatLessThanWellFounded, Zenon
<1>3. PICK n \in S : \A k \in S : ~(<<k, n>> \in Less)
  BY <1>2, WFMin, Zenon
<1>4. \A k \in Nat : <<k, n>> \in Less <=> k < n
  OBVIOUS
<1> HIDE DEF Less
<1>5. \A k \in S : ~(k < n)
  BY <1>3, <1>4
<1>6. \A k \in S : n <= k
  BY <1>5
<1> QED
  BY <1>6

\* The elements of a sequence.
LEMMA ElementType ==
    ASSUME NEW T, NEW sq \in Seq(T), NEW i \in DOMAIN sq
    PROVE  sq[i] \in T
OBVIOUS

\* A place in the tail of a sequence is the next one in the sequence.
LEMMA TailElement ==
    ASSUME NEW S, NEW s \in Seq(S), s # <<>>, NEW i \in DOMAIN Tail(s)
    PROVE  i \in Nat /\ i + 1 \in DOMAIN s /\ Tail(s)[i] = s[i + 1]
  OBVIOUS

LEMMA TailLength ==
    ASSUME NEW S, NEW s \in Seq(S), s # <<>>
    PROVE  /\ Len(s) \in Nat \ {0} /\ Len(Tail(s)) = Len(s) - 1
           /\ Len(s) # 1 => Tail(s) # <<>>
<1>1. Len(s) \in Nat \ {0} /\ Len(Tail(s)) = Len(s) - 1
  BY EmptySeq, HeadTailProperties
<1>2. ASSUME Tail(s) = <<>> PROVE Len(s) = 1
  <2>1. Len(<<>>) = 0
    BY EmptySeq
  <2>2. Len(Tail(s)) = 0
    BY <1>2, <2>1, Zenon
  <2>3. Len(s) - 1 = 0 /\ Len(s) \in Nat
    BY <1>1, <2>2, Zenon
  <2> QED BY <2>3
<1> QED BY <1>1, <1>2

-----------------------------------------------------------------------------
\* Pieces of a sequence: the elements after the first `lo`, up to the hi-th.
Piece(q, lo, hi) == [i \in 1 .. hi - lo |-> q[lo + i]]

\* A piece is a sequence of its length, and empty if it has none.
LEMMA PieceSeq ==
    ASSUME NEW S, NEW q \in Seq(S), NEW lo \in Nat, NEW hi \in Nat, lo <= hi, hi <= Len(q)
    PROVE  Piece(q, lo, hi) \in Seq(S) /\ Len(Piece(q, lo, hi)) = hi - lo
<1>1. \A i \in 1 .. hi - lo : q[lo + i] \in S
  BY ElementType
<1> QED
  BY <1>1 DEF Piece

LEMMA PieceEmpty ==
    ASSUME NEW S, NEW q \in Seq(S), NEW lo \in Nat, NEW hi \in Nat, lo <= hi, hi <= Len(q)
    PROVE  Piece(q, lo, hi) = <<>> <=> hi = lo
<1>1. Piece(q, lo, hi) \in Seq(S) /\ Len(Piece(q, lo, hi)) = hi - lo
  BY PieceSeq
<1>2. \A p \in Seq(S) : p = <<>> <=> Len(p) = 0
  BY EmptySeq
<1>3. hi - lo = 0 <=> hi = lo
  OBVIOUS
<1> QED
  BY <1>1, <1>2, <1>3, Zenon

\* A sequence is the function of its elements.
LEMMA SeqIsFunction ==
    ASSUME NEW S, NEW q \in Seq(S)
    PROVE  q = [i \in 1 .. Len(q) |-> q[i]]
OBVIOUS

\* Two pieces that follow on are one.
LEMMA PieceJoin ==
    ASSUME NEW S, NEW q \in Seq(S), NEW lo \in Nat, NEW mid \in Nat, NEW hi \in Nat,
           lo <= mid, mid <= hi, hi <= Len(q)
    PROVE  Piece(q, lo, mid) \o Piece(q, mid, hi) = Piece(q, lo, hi)
<1> DEFINE a == Piece(q, lo, mid)
           z == Piece(q, mid, hi)
<1>0. mid <= Len(q)
  OBVIOUS
<1>1. a \in Seq(S) /\ Len(a) = mid - lo /\ z \in Seq(S) /\ Len(z) = hi - mid
  <2>1. a \in Seq(S) /\ Len(a) = mid - lo
    BY <1>0, PieceSeq
  <2>2. z \in Seq(S) /\ Len(z) = hi - mid
    BY PieceSeq
  <2> QED
    BY <2>1, <2>2
<1>2. ASSUME NEW i \in 1 .. hi - lo
      PROVE  (IF i <= mid - lo THEN a[i] ELSE z[i - (mid - lo)]) = q[lo + i]
  BY DEF Piece
<1> HIDE DEF a, z
<1>3. a \o z \in Seq(S) /\ Len(a \o z) = hi - lo
  BY <1>1
<1>4. \A i \in 1 .. hi - lo : (a \o z)[i] = q[lo + i]
  BY <1>1, <1>2
<1>5. a \o z = [i \in 1 .. hi - lo |-> (a \o z)[i]]
  BY <1>3, SeqIsFunction
<1>6. a \o z = [i \in 1 .. hi - lo |-> q[lo + i]]
  BY <1>4, <1>5, Zenon
<1> QED
  BY <1>6 DEF Piece, a, z

\* An element appended leaves the pieces before it as they are, and lengthens
\* the last one.
LEMMA PieceAppend ==
    ASSUME NEW S, NEW q \in Seq(S), NEW x \in S, NEW lo \in Nat, NEW hi \in Nat, lo <= hi, hi <= Len(q)
    PROVE  /\ Append(q, x) \in Seq(S) /\ Len(Append(q, x)) = Len(q) + 1
           /\ Piece(Append(q, x), lo, hi) = Piece(q, lo, hi)
<1>1. /\ Append(q, x) \in Seq(S) /\ Len(Append(q, x)) = Len(q) + 1
      /\ \A i \in 1 .. Len(q) : Append(q, x)[i] = q[i]
  OBVIOUS
<1>2. \A i \in 1 .. hi - lo : lo + i \in 1 .. Len(q)
  OBVIOUS
<1> QED
  BY <1>1, <1>2 DEF Piece

LEMMA PieceLonger ==
    ASSUME NEW S, NEW q \in Seq(S), NEW x \in S, NEW lo \in Nat, lo <= Len(q)
    PROVE  Append(Piece(q, lo, Len(q)), x) = Piece(Append(q, x), lo, Len(q) + 1)
<1> DEFINE p == Piece(q, lo, Len(q))
<1>0. Len(q) \in Nat /\ Len(q) <= Len(q)
  OBVIOUS
<1>1. p \in Seq(S) /\ Len(p) = Len(q) - lo
  BY <1>0, PieceSeq, Zenon
<1>2. ASSUME NEW i \in 1 .. Len(q) + 1 - lo
      PROVE  (IF i <= Len(q) - lo THEN p[i] ELSE x) = Append(q, x)[lo + i]
  BY DEF Piece
<1> HIDE DEF p
<1>3. Append(p, x) \in Seq(S) /\ Len(Append(p, x)) = Len(q) + 1 - lo
  BY <1>1
<1>4. \A i \in 1 .. Len(q) + 1 - lo : Append(p, x)[i] = Append(q, x)[lo + i]
  <2>1. \A i \in 1 .. Len(p) + 1 : Append(p, x)[i] = IF i <= Len(p) THEN p[i] ELSE x
    BY <1>1
  <2>2. Len(p) + 1 = Len(q) + 1 - lo
    BY <1>0, <1>1
  <2> QED
    BY <1>1, <1>2, <2>1, <2>2, Zenon
<1>5. Append(p, x) = [i \in 1 .. Len(q) + 1 - lo |-> Append(p, x)[i]]
  BY <1>3, SeqIsFunction
<1>6. Append(p, x) = [i \in 1 .. Len(q) + 1 - lo |-> Append(q, x)[lo + i]]
  BY <1>4, <1>5, Zenon
<1> QED
  BY <1>6 DEF Piece, p

\* The piece from the start to the end is all.
LEMMA PieceAll ==
    ASSUME NEW S, NEW q \in Seq(S)
    PROVE  Piece(q, 0, Len(q)) = q
BY SeqIsFunction DEF Piece

\* A function that drops by at least `by` at every place between two drops by
\* that times their distance.
LEMMA Falls ==
    ASSUME NEW f, NEW by \in Nat, NEW lo \in Nat, NEW hi \in Nat, lo <= hi,
           \A i \in lo .. hi : f[i] \in Nat,
           \A i \in lo .. hi : i < hi => f[i] >= f[i + 1] + by
    PROVE  f[lo] >= f[hi] + (hi - lo) * by
<1> DEFINE short == {k \in 0 .. hi - lo : ~(f[hi - k] >= f[hi] + k * by)}
<1>1. ASSUME short # {} PROVE FALSE
  <2>1. short \subseteq Nat
    OBVIOUS
  <2>2. PICK k \in short : \A j \in short : k <= j
    BY <1>1, <2>1, Least, Zenon
  <2>3. k \in 0 .. hi - lo /\ ~(f[hi - k] >= f[hi] + k * by)
    OBVIOUS
  <2>4. hi \in lo .. hi /\ f[hi] \in Nat
    OBVIOUS
  <2>5. k # 0
    BY <2>3, <2>4
  <2> DEFINE j == k - 1
  <2>6. j \in 0 .. hi - lo /\ j \notin short /\ k = j + 1
    BY <2>2, <2>3, <2>5
  <2>7. f[hi - j] >= f[hi] + j * by
    BY <2>6
  <2>8. hi - k \in lo .. hi /\ hi - k < hi /\ (hi - k) + 1 = hi - j
    BY <2>3, <2>5
  <2>9. f[hi - k] >= f[hi - j] + by /\ f[hi - k] \in Nat
    BY <2>8
  <2>10. hi - j \in lo .. hi /\ f[hi - j] \in Nat
    BY <2>6
  <2>11. (j + 1) * by = j * by + by /\ j * by \in Nat
    BY <2>6
  <2> HIDE DEF j
  <2>12. f[hi - k] >= f[hi] + k * by
    BY <2>4, <2>6, <2>7, <2>9, <2>10, <2>11
  <2> QED
    BY <2>3, <2>12
<1>2. hi - lo \in 0 .. hi - lo /\ hi - (hi - lo) = lo
  OBVIOUS
<1>3. hi - lo \notin short
  BY <1>1, Zenon
<1> QED
  BY <1>2, <1>3

\* A function defined step by step, each value from the one before, exists.
Iterates(f, X, first, nxt, n) ==
    /\ \A i \in 0 .. n : f[i] \in X
    /\ f[0] = first
    /\ \A i \in 1 .. n : f[i] = nxt[<<i, f[i - 1]>>]

LEMMA Iterated ==
    ASSUME NEW X, NEW first \in X, NEW nxt, \A i \in Nat : \A x \in X : nxt[<<i, x>>] \in X, NEW n \in Nat
    PROVE  \E f : Iterates(f, X, first, nxt, n)
<1> DEFINE Is(f, m) == /\ \A i \in 0 .. m : f[i] \in X
                       /\ \A i \in 0 .. m : f[i] = IF i = 0 THEN first ELSE nxt[<<i, f[i - 1]>>]
           none == {m \in Nat : ~ \E f : Is(f, m)}
<1>1. ASSUME none # {} PROVE FALSE
  <2>1. PICK m \in none : \A k \in none : m <= k
    BY <1>1, Least, Zenon
  <2>2. m \in Nat /\ ~ \E f : Is(f, m)
    OBVIOUS
  <2>3. CASE m = 0
    <3>1. PICK g : g = [i \in 0 .. 0 |-> first]
      OBVIOUS
    <3>2. Is(g, 0)
      BY <3>1
    <3> QED
      BY <2>2, <2>3, <3>2
  <2>4. CASE m # 0
    <3>1. m - 1 \in Nat /\ ~(m <= m - 1)
      BY <2>2, <2>4
    <3>2. m - 1 \notin none
      BY <2>1, <3>1, Zenon
    <3>3. PICK h : Is(h, m - 1)
      BY <3>1, <3>2, Zenon
    <3>4. h[m - 1] \in X /\ nxt[<<m, h[m - 1]>>] \in X
      BY <2>2, <3>1, <3>3
    <3>5. PICK g : g = [i \in 0 .. m |-> IF i = m THEN nxt[<<m, h[m - 1]>>] ELSE h[i]]
      OBVIOUS
    <3>6. \A i \in 0 .. m : g[i] \in X
      <4>1. \A i \in 0 .. m : i # m => i \in 0 .. m - 1
        BY <2>2
      <4>2. \A i \in 0 .. m - 1 : h[i] \in X
        BY <3>3
      <4> QED
        BY <3>4, <3>5, <4>1, <4>2
    <3>7. ASSUME NEW i \in 0 .. m PROVE g[i] = IF i = 0 THEN first ELSE nxt[<<i, g[i - 1]>>]
      <4>1. CASE i = m
        <5>1. i # 0 /\ i - 1 \in 0 .. m /\ i - 1 # m /\ g[i - 1] = h[i - 1]
          BY <2>2, <2>4, <3>5, <4>1
        <5> QED
          BY <3>5, <4>1, <5>1
      <4>2. CASE i # m
        <5>1. i \in 0 .. m - 1 /\ g[i] = h[i] /\ (i # 0 => i - 1 \in 0 .. m /\ g[i - 1] = h[i - 1])
          BY <2>2, <3>5, <4>2
        <5>2. h[i] = IF i = 0 THEN first ELSE nxt[<<i, h[i - 1]>>]
          BY <3>3, <5>1
        <5> QED
          BY <5>1, <5>2, Zenon
      <4> QED
        BY <4>1, <4>2
    <3> QED
      BY <2>2, <3>6, <3>7, Zenon
  <2> QED
    BY <2>3, <2>4
<1>2. PICK f : Is(f, n)
  BY <1>1, Zenon
<1>3. Iterates(f, X, first, nxt, n)
  <2>1. 0 \in 0 .. n /\ \A i \in 1 .. n : i \in 0 .. n /\ i # 0
    OBVIOUS
  <2> QED
    BY <1>2, <2>1 DEF Iterates
<1> QED
  BY <1>3, Zenon
=============================================================================
