-------------------------- MODULE AdmissionProofs ---------------------------
(***************************************************************************)
(* Proofs about what the receiver makes of a request's headers, for names  *)
(* of any length, any limit and any size.                                  *)
(***************************************************************************)
EXTENDS Admission, FiniteSetTheorems, SequenceTheorems, TLAPS

-----------------------------------------------------------------------------
(* Positions.                                                              *)

\* A set of positions has a first.
LEMMA FirstExists ==
    ASSUME NEW S \in SUBSET Nat, S # {}
    PROVE  \E x \in S : \A y \in S : x <= y
<1>1. \E x \in S : \A y \in S : <<y, x>> \notin OpToRel(<, Nat)
    BY NatLessThanWellFounded, WFMin
<1>2. \E x \in S : \A y \in S : ~(y < x)
    BY <1>1 DEF OpToRel
<1>3. QED
    BY <1>2

LEMMA MinIsFirst ==
    ASSUME NEW S \in SUBSET Nat, S # {}
    PROVE  Min(S) \in S /\ \A y \in S : Min(S) <= y
BY FirstExists DEF Min

\* A bounded set of positions has a last.
LEMMA MaxIsLast ==
    ASSUME NEW n \in Nat, NEW S \in SUBSET (0..n), S # {}
    PROVE  Max(S) \in S /\ \A y \in S : Max(S) >= y
<1> DEFINE T == {n - y : y \in S}
<1>0. PICK e \in S : TRUE
    OBVIOUS
<1>1. T \in SUBSET Nat /\ n - e \in T
    BY <1>0
<1>2. PICK x \in T : \A y \in T : x <= y
  <2>1. T \in SUBSET Nat /\ T # {}
      BY <1>1
  <2> HIDE DEF T
  <2>2. QED
      BY <2>1, FirstExists
<1>3. PICK z \in S : x = n - z
    BY <1>2
<1>4. \A y \in S : z >= y
  <2> SUFFICES ASSUME NEW y \in S PROVE z >= y
      OBVIOUS
  <2>1. n - z <= n - y
      BY <1>2, <1>3
  <2>2. QED
      BY <2>1
<1>5. \E m \in S : \A y \in S : m >= y
    BY <1>4
<1>6. QED
    BY <1>5 DEF Max

\* The positions before i in S.
Before(S, i) == {j \in S : j < i}

\* Sets of positions of a sequence are finite.
LEMMA PositionsFinite ==
    ASSUME NEW n \in Nat, NEW S \in SUBSET (1..n)
    PROVE  IsFiniteSet(S) /\ Cardinality(S) \in Nat
<1>1. IsFiniteSet(1..n)
    BY FS_Interval
<1>2. IsFiniteSet(S)
    BY <1>1, FS_Subset
<1>3. QED
    BY <1>2, FS_CardinalityType

LEMMA NthExists ==
    ASSUME NEW n \in Nat, NEW S \in SUBSET (1..n)
    PROVE  \A k \in 1..Cardinality(S) : \E i \in S : Cardinality(Before(S, i)) = k - 1
<1>1. IsFiniteSet(S) /\ Cardinality(S) \in Nat
    BY PositionsFinite
<1> DEFINE Bad == {k \in 1..Cardinality(S) : ~\E i \in S : Cardinality(Before(S, i)) = k - 1}
<1> SUFFICES ASSUME Bad # {} PROVE FALSE
    OBVIOUS
<1>2. PICK k \in Bad : \A l \in Bad : k <= l
  <2>1. Bad \in SUBSET Nat
    <3>1. \A k \in Bad : k \in Nat
        BY <1>1
    <3>2. QED
        BY <3>1, Zenon
  <2> HIDE DEF Bad
  <2>2. QED
      BY <2>1, FirstExists
<1>3. k \in 1..Cardinality(S) /\ ~\E i \in S : Cardinality(Before(S, i)) = k - 1
    OBVIOUS
<1>4. CASE k = 1
  <2>1. S # {}
      BY <1>1, <1>3, FS_EmptySet
  <2>2. PICK m \in S : \A y \in S : m <= y
    <3>1. S \in SUBSET Nat
        OBVIOUS
    <3>2. QED
        BY <2>1, <3>1, FirstExists
  <2>3. Before(S, m) = {}
    <3>1. \A j \in S : ~(j < m)
        BY <2>2
    <3>2. QED
        BY <3>1, Zenon DEF Before
  <2>4. Cardinality(Before(S, m)) = 0
      BY <2>3, FS_EmptySet
  <2>5. QED
      BY <1>3, <1>4, <2>4
<1>5. CASE k > 1
  <2>1. k - 1 \in 1..Cardinality(S) /\ k - 1 \notin Bad
      BY <1>1, <1>2, <1>3, <1>5
  <2>2. PICK i \in S : Cardinality(Before(S, i)) = k - 2
      BY <1>3, <2>1
  <2> DEFINE upto == Before(S, i) \cup {i}
             after == {j \in S : j > i}
  <2>3. Cardinality(upto) = k - 1
    <3>1. Before(S, i) \in SUBSET S /\ i \notin Before(S, i)
        BY DEF Before
    <3>2. IsFiniteSet(Before(S, i))
        BY <1>1, <3>1, FS_Subset
    <3>3. Cardinality(upto) = Cardinality(Before(S, i)) + 1
        BY <3>1, <3>2, FS_AddElement
    <3>4. QED
        BY <1>1, <1>3, <2>2, <3>3
  <2>4. after # {}
    <3>1. SUFFICES ASSUME after = {} PROVE FALSE
        OBVIOUS
    <3>2. S = upto
      <4>1. \A j \in S : j < i \/ j = i
          BY <3>1
      <4>2. \A j \in S : j \in upto
          BY <4>1 DEF Before
      <4>3. \A j \in upto : j \in S
          BY DEF Before
      <4>4. QED
          BY <4>2, <4>3, Zenon
    <3>3. QED
        BY <1>1, <1>3, <2>3, <3>2
  <2>5. PICK m \in after : \A y \in after : m <= y
    <3>1. \A j \in after : j \in Nat
        OBVIOUS
    <3> HIDE DEF after
    <3>2. QED
        BY <2>4, <3>1, FirstExists
  <2>6. Before(S, m) = upto
    <3>1. m \in S /\ m > i /\ \A y \in S : y > i => m <= y
        BY <2>5
    <3>2. \A j \in S : j < m <=> (j < i \/ j = i)
        BY <3>1
    <3>3. QED
        BY <3>2 DEF Before
  <2>7. QED
      BY <1>3, <2>3, <2>5, <2>6
<1>6. QED
    BY <1>1, <1>3, <1>4, <1>5

\* The k-th of a set of positions is one of them, with k - 1 before it.
LEMMA NthIsIn ==
    ASSUME NEW n \in Nat, NEW S \in SUBSET (1..n), NEW k \in 1..Cardinality(S)
    PROVE  Nth(S, k) \in S /\ Cardinality(Before(S, Nth(S, k))) = k - 1
BY NthExists DEF Nth, Before

\* The k-th of all positions is k.
LEMMA NthOfAll ==
    ASSUME NEW n \in Nat, NEW k \in 1..Cardinality(1..n)
    PROVE  Nth(1..n, k) = k
<1> DEFINE i == Nth(1..n, k)
<1>1. i \in 1..n /\ Cardinality(Before(1..n, i)) = k - 1
    BY NthIsIn
<1> HIDE DEF i
<1>2. Before(1..n, i) = 1..(i - 1)
    BY <1>1 DEF Before
<1>3. Cardinality(1..(i - 1)) = i - 1
    BY <1>1, FS_Interval
<1>4. k \in Int
    OBVIOUS
<1>5. QED
    BY <1>1, <1>2, <1>3, <1>4 DEF i

\* What is picked from a sequence is of it.
LEMMA AtIsOf ==
    ASSUME NEW L, NEW s \in Seq(L), NEW S \in SUBSET (1..Len(s))
    PROVE  /\ At(s, S) \in Seq(L)
           /\ \A k \in 1..Len(At(s, S)) : \E i \in S : At(s, S)[k] = s[i]
<1>1. Len(s) \in Nat /\ \A i \in 1..Len(s) : s[i] \in L
    OBVIOUS
<1>2. Cardinality(S) \in Nat
    BY <1>1, PositionsFinite
<1>3. \A k \in 1..Cardinality(S) : Nth(S, k) \in S
    BY <1>1, NthIsIn
<1>4. At(s, S) = [k \in 1..Cardinality(S) |-> s[Nth(S, k)]]
    BY DEF At
<1> DEFINE N == Cardinality(S)
           f == [k \in 1..N |-> s[Nth(S, k)]]
<1>5. f \in Seq(L) /\ Len(f) = N
  <2>1. \A k \in 1..N : s[Nth(S, k)] \in L
      BY <1>1, <1>3
  <2>2. N \in Nat
      BY <1>2
  <2> HIDE DEF N
  <2>3. f \in [1..N -> L]
      BY <2>1
  <2>4. f \in Seq(L)
      BY <2>2, <2>3
  <2>5. QED
      BY <2>2, <2>4
<1>6. QED
    BY <1>3, <1>4, <1>5, Zenon

LEMMA AtAll ==
    ASSUME NEW L, NEW s \in Seq(L)
    PROVE  At(s, 1..Len(s)) = s
<1>1. Len(s) \in Nat /\ s = [k \in 1..Len(s) |-> s[k]]
    OBVIOUS
<1>2. Cardinality(1..Len(s)) = Len(s)
    BY <1>1, FS_Interval
<1>3. \A k \in 1..Len(s) : Nth(1..Len(s), k) = k
    BY <1>1, <1>2, NthOfAll
<1>4. QED
    BY <1>1, <1>2, <1>3 DEF At
-----------------------------------------------------------------------------
(* Pieces of a sequence.                                                   *)

\* A sequence of one element.
LEMMA SingleIs ==
    ASSUME NEW L, NEW c \in L
    PROVE  <<c>> \in Seq(L) /\ Len(<<c>>) = 1 /\ <<c>>[1] = c /\ <<c>> # <<>>
OBVIOUS

\* A sequence with one more element before it.
LEMMA PrefixedIs ==
    ASSUME NEW L, NEW c \in L, NEW s \in Seq(L), s # <<>>
    PROVE  \A u : u = <<c>> \o s =>
           /\ u \in Seq(L) /\ u # <<>>
           /\ u[1] = c /\ u[Len(u)] = s[Len(s)]
           /\ \A i \in 1..Len(u) : u[i] = c \/ \E j \in 1..Len(s) : u[i] = s[j]
<1> SUFFICES ASSUME NEW u, u = <<c>> \o s
             PROVE  /\ u \in Seq(L) /\ u # <<>>
                    /\ u[1] = c /\ u[Len(u)] = s[Len(s)]
                    /\ \A i \in 1..Len(u) : u[i] = c \/ \E j \in 1..Len(s) : u[i] = s[j]
    OBVIOUS
<1> DEFINE n == Len(s)
<1>1. n \in Nat /\ n # 0
    BY EmptySeq
<1>2. <<c>> \in Seq(L) /\ Len(<<c>>) = 1 /\ <<c>>[1] = c
    BY SingleIs
<1>3. /\ u \in Seq(L) /\ Len(u) = 1 + n
      /\ \A i \in 1..(1 + n) : u[i] = IF i <= 1 THEN <<c>>[i] ELSE s[i - 1]
    BY <1>2, ConcatProperties
<1> HIDE DEF n
<1>4. PICK m \in Nat : m = 1 + n
    BY <1>1
<1>5. u[1] = c /\ u[m] = s[n]
  <2>1. 1 \in 1..m /\ m \in 1..m /\ ~(m <= 1) /\ m - 1 = n
      BY <1>1, <1>4
  <2>2. u[1] = <<c>>[1]
      BY <1>3, <1>4, <2>1
  <2>3. u[m] = s[m - 1]
      BY <1>3, <1>4, <2>1
  <2>4. QED
      BY <1>2, <2>1, <2>2, <2>3
<1>6. u # <<>>
    BY <1>1, <1>3, EmptySeq
<1>7. ASSUME NEW i \in 1..(1 + n)
      PROVE  u[i] = c \/ \E j \in 1..n : u[i] = s[j]
  <2>1. CASE i <= 1
    <3>1. i = 1
        BY <1>1, <2>1
    <3>2. QED
        BY <1>5, <3>1
  <2>2. CASE ~(i <= 1)
    <3>1. i - 1 \in 1..n
        BY <1>1, <2>2
    <3>2. QED
        BY <1>3, <2>2, <3>1
  <2>3. QED
      BY <2>1, <2>2
<1>8. QED
    BY <1>3, <1>4, <1>5, <1>6, <1>7 DEF n

\* A piece of a sequence, element by element.
LEMMA PieceOf ==
    ASSUME NEW L, NEW s \in Seq(L), NEW m \in 1..(Len(s) + 1), NEW n \in 0..Len(s)
    PROVE  /\ SubSeq(s, m, n) \in Seq(L)
           /\ Len(SubSeq(s, m, n)) = IF m <= n THEN n - m + 1 ELSE 0
           /\ \A i \in 1..Len(SubSeq(s, m, n)) :
                 m + i - 1 \in 1..Len(s) /\ SubSeq(s, m, n)[i] = s[m + i - 1]
<1>1. Len(s) \in Nat /\ m \in Int /\ n \in Int
    OBVIOUS
<1>2. \A i \in m..n : s[i] \in L
  <2> SUFFICES ASSUME NEW i \in m..n PROVE s[i] \in L
      OBVIOUS
  <2>1. i \in 1..Len(s)
      BY <1>1
  <2>2. QED
      BY <2>1, ElementOfSeq
<1>3. /\ SubSeq(s, m, n) \in Seq(L)
      /\ Len(SubSeq(s, m, n)) = IF m <= n THEN n - m + 1 ELSE 0
      /\ \A i \in 1..(n - m + 1) : SubSeq(s, m, n)[i] = s[m + i - 1]
    BY <1>1, <1>2, SubSeqProperties
<1>4. ASSUME NEW i \in 1..Len(SubSeq(s, m, n))
      PROVE  m + i - 1 \in 1..Len(s) /\ SubSeq(s, m, n)[i] = s[m + i - 1]
    BY <1>1, <1>3
<1>5. QED
    BY <1>3, <1>4

\* What is left after trimming starts and ends outside C, and everything
\* outside C is left.
LEMMA TrimIs ==
    ASSUME NEW L, NEW s \in Seq(L), NEW C
    PROVE  /\ Trim(s, C) \in Seq(L)
           /\ Trim(s, C) # <<>> =>
                 Trim(s, C)[1] \notin C /\ Trim(s, C)[Len(Trim(s, C))] \notin C
           /\ \A i \in 1..Len(Trim(s, C)) : \E j \in 1..Len(s) : Trim(s, C)[i] = s[j]
           /\ \A j \in 1..Len(s) : s[j] \notin C =>
                 \E i \in 1..Len(Trim(s, C)) : Trim(s, C)[i] = s[j]
           /\ s # <<>> /\ s[1] \notin C /\ s[Len(s)] \notin C => Trim(s, C) = s
           /\ s = <<>> => Trim(s, C) = <<>>
<1> DEFINE kept == {i \in 1..Len(s) : s[i] \notin C}
           t == Trim(s, C)
<1>1. Len(s) \in Nat /\ kept \in SUBSET (1..Len(s))
    OBVIOUS
<1>2. CASE kept = {}
  <2>1. t = <<>>
      BY <1>2 DEF Trim
  <2>2. \A j \in 1..Len(s) : s[j] \in C
      BY <1>2
  <2>3. t \in Seq(L) /\ Len(t) = 0
      BY <2>1, EmptySeq
  <2>4. s # <<>> => 1 \in 1..Len(s)
      BY EmptySeq
  <2>5. \A i \in 1..Len(t) : FALSE
      BY <2>3
  <2> HIDE DEF kept, t
  <2>6. QED
      BY <2>1, <2>2, <2>3, <2>4, <2>5 DEF t
<1>3. CASE kept # {}
  <2> DEFINE lo == Min(kept)
             hi == Max(kept)
  <2>1. t = SubSeq(s, lo, hi)
      BY <1>3 DEF Trim
  <2>2. lo \in kept /\ \A y \in kept : lo <= y
    <3>1. \A i \in kept : i \in Nat
        OBVIOUS
    <3> HIDE DEF kept
    <3>2. QED
        BY <1>3, <3>1, MinIsFirst
  <2>3. hi \in kept /\ \A y \in kept : hi >= y
    <3>1. \A i \in kept : i \in 0..Len(s)
        BY <1>1
    <3> HIDE DEF kept
    <3>2. kept \in SUBSET (0..Len(s))
        BY <3>1
    <3>3. QED
        BY <1>1, <1>3, <3>2, MaxIsLast
  <2>4. lo \in 1..Len(s) /\ hi \in 1..Len(s) /\ lo <= hi /\ s[lo] \notin C /\ s[hi] \notin C
      BY <1>1, <2>2, <2>3
  <2>5. \A j \in 1..Len(s) : s[j] \notin C => lo <= j /\ j <= hi
      BY <2>2, <2>3
  <2> HIDE DEF kept, lo, hi, t
  <2>6. /\ t \in Seq(L) /\ Len(t) = hi - lo + 1
        /\ \A i \in 1..Len(t) : lo + i - 1 \in 1..Len(s) /\ t[i] = s[lo + i - 1]
    <3>1. lo \in 1..(Len(s) + 1) /\ hi \in 0..Len(s)
        BY <1>1, <2>4
    <3>2. QED
        BY <2>1, <2>4, <3>1, PieceOf
  <2>7. t[1] \notin C /\ t[Len(t)] \notin C
    <3>1. 1 \in 1..Len(t) /\ Len(t) \in 1..Len(t) /\ lo + 1 - 1 = lo /\ lo + Len(t) - 1 = hi
        BY <1>1, <2>4, <2>6
    <3>2. t[1] = s[lo] /\ t[Len(t)] = s[hi]
        BY <2>6, <3>1
    <3>3. QED
        BY <2>4, <3>2
  <2>8. \A j \in 1..Len(s) : s[j] \notin C => \E i \in 1..Len(t) : t[i] = s[j]
    <3> SUFFICES ASSUME NEW j \in 1..Len(s), s[j] \notin C
                 PROVE  \E i \in 1..Len(t) : t[i] = s[j]
        OBVIOUS
    <3>1. j - lo + 1 \in 1..Len(t) /\ lo + (j - lo + 1) - 1 = j
        BY <1>1, <2>4, <2>5, <2>6
    <3>2. t[j - lo + 1] = s[j]
        BY <2>6, <3>1
    <3>3. QED
        BY <3>1, <3>2
  <2>9. s[1] \notin C /\ s[Len(s)] \notin C => t = s
    <3> SUFFICES ASSUME s[1] \notin C, s[Len(s)] \notin C PROVE t = s
        OBVIOUS
    <3>1. lo = 1 /\ hi = Len(s)
        BY <1>1, <2>4, <2>5
    <3>2. QED
        BY <2>1, <3>1, SubSeqFull
  <2>10. s # <<>>
      BY <2>4, EmptySeq
  <2>11. \A i \in 1..Len(t) : \E j \in 1..Len(s) : t[i] = s[j]
      BY <2>6
  <2>12. QED
      BY <2>6, <2>7, <2>8, <2>9, <2>10, <2>11 DEF t
<1>4. QED
    BY <1>2, <1>3

\* The last of the positions I, or 0.
LEMMA LastOf ==
    ASSUME NEW n \in Nat, NEW I \in SUBSET (1..n), NEW d, d = IF I # {} THEN Max(I) ELSE 0
    PROVE  d \in 0..n /\ (d # 0 => d \in I) /\ \A i \in I : i <= d
<1>1. I \in SUBSET (0..n)
    OBVIOUS
<1>2. CASE I = {}
    BY <1>2
<1>3. CASE I # {}
  <2>1. d \in I /\ \A y \in I : d >= y
      BY <1>1, <1>3, MaxIsLast
  <2>2. d \in 1..n /\ \A y \in I : y \in 1..n
      BY <2>1
  <2>3. QED
      BY <2>1, <2>2
<1>4. QED
    BY <1>2, <1>3

\* The first of the positions I, or 0.
LEMMA FirstOf ==
    ASSUME NEW n \in Nat, NEW I \in SUBSET (1..n), NEW d, d = IF I # {} THEN Min(I) ELSE 0
    PROVE  d \in 0..n /\ (d # 0 => d \in I) /\ \A i \in I : d # 0 /\ d <= i
<1>1. I \in SUBSET Nat
    OBVIOUS
<1>2. CASE I = {}
    BY <1>2
<1>3. CASE I # {}
  <2>1. d \in I /\ \A y \in I : d <= y
      BY <1>1, <1>3, MinIsFirst
  <2>2. d \in 1..n
      BY <2>1
  <2>3. QED
      BY <2>1, <2>2
<1>4. QED
    BY <1>2, <1>3

-----------------------------------------------------------------------------
(* sanitize_filename.                                                      *)

NoSeparator(s) == \A i \in 1..Len(s) : s[i] \notin Separators

Clean(s) == NoSeparator(s) /\ \A i \in 1..Len(s) : s[i] # Forbidden

\* Neither end would be trimmed.
EndsFit(s) == s # <<>> => s[1] \notin {Dot, Blank} /\ s[Len(s)] \notin {Dot, Blank}

LEMMA StrippedIs ==
    ASSUME NEW L, NEW name \in Seq(L)
    PROVE  /\ Stripped(name) \in Seq(L)
           /\ NoSeparator(Stripped(name))
           /\ NoSeparator(name) => Stripped(name) = name
<1> DEFINE I == {i \in 1..Len(name) : name[i] \in Separators}
           d == IF I # {} THEN Max(I) ELSE 0
<1>1. Len(name) \in Nat /\ I \in SUBSET (1..Len(name))
    OBVIOUS
<1>2. Stripped(name) = SubSeq(name, d + 1, Len(name))
    BY DEF Stripped, Start, SelectLastInSeq
<1>3. d \in 0..Len(name) /\ (d # 0 => d \in I) /\ \A i \in I : i <= d
  <2>1. d = IF I # {} THEN Max(I) ELSE 0
      OBVIOUS
  <2> HIDE DEF I, d
  <2>2. QED
      BY <1>1, <2>1, LastOf
<1>4. \A i \in 1..Len(name) : i > d => name[i] \notin Separators
  <2> SUFFICES ASSUME NEW i \in 1..Len(name), i > d, name[i] \in Separators PROVE FALSE
      OBVIOUS
  <2>1. i \in I
      OBVIOUS
  <2> HIDE DEF d
  <2>2. QED
      BY <1>1, <1>3, <2>1
<1>5. NoSeparator(name) => d = 0
  <2>1. NoSeparator(name) => I = {}
      BY DEF NoSeparator
  <2> HIDE DEF I
  <2>2. QED
      BY <2>1
<1> HIDE DEF I, d
<1>6. /\ Stripped(name) \in Seq(L)
      /\ \A i \in 1..Len(Stripped(name)) :
            d + i \in 1..Len(name) /\ Stripped(name)[i] = name[d + i]
  <2>1. d + 1 \in 1..(Len(name) + 1) /\ Len(name) \in 0..Len(name)
      BY <1>1, <1>3
  <2>2. \A i \in 1..Len(Stripped(name)) : d + 1 + i - 1 = d + i
      BY <1>1, <1>3
  <2>3. /\ Stripped(name) \in Seq(L)
        /\ \A i \in 1..Len(Stripped(name)) :
              d + 1 + i - 1 \in 1..Len(name) /\ Stripped(name)[i] = name[d + 1 + i - 1]
      BY <1>2, <2>1, PieceOf
  <2>4. QED
      BY <2>2, <2>3
<1>7. NoSeparator(Stripped(name))
  <2>1. \A i \in 1..Len(Stripped(name)) : d + i > d
      BY <1>3
  <2>2. QED
      BY <1>4, <1>6, <2>1 DEF NoSeparator
<1>8. d = 0 => Stripped(name) = name
  <2>1. 0 + 1 = 1
      OBVIOUS
  <2>2. QED
      BY <1>2, <2>1, SubSeqFull
<1>9. QED
    BY <1>5, <1>6, <1>7, <1>8

LEMMA TrimmedIs ==
    ASSUME NEW L, NEW name \in Seq(L)
    PROVE  /\ Trimmed(name) \in Seq(L)
           /\ Clean(Trimmed(name))
           /\ EndsFit(Trimmed(name))
           /\ name # <<>> /\ Clean(name) /\ EndsFit(name) => Trimmed(name) = name
<1> DEFINE base == Stripped(name)
           S == {i \in 1..Len(base) : base[i] # Forbidden}
           left == At(base, S)
<1>1. base \in Seq(L) /\ NoSeparator(base) /\ (NoSeparator(name) => base = name)
    BY StrippedIs
<1>2. Trimmed(name) = Trim(left, {Dot, Blank})
    BY DEF Trimmed
<1>3. S \in SUBSET (1..Len(base)) /\ \A i \in S : base[i] # Forbidden
    OBVIOUS
<1>4. Clean(name) => S = 1..Len(base) /\ base = name
  <2> SUFFICES ASSUME Clean(name) PROVE S = 1..Len(base) /\ base = name
      OBVIOUS
  <2>1. base = name
      BY <1>1 DEF Clean
  <2>2. \A i \in 1..Len(base) : base[i] # Forbidden
      BY <2>1 DEF Clean
  <2> HIDE DEF base
  <2>3. S = 1..Len(base)
      BY <2>2, Zenon
  <2>4. QED
      BY <2>1, <2>3
<1> HIDE DEF base, S
<1>5. left \in Seq(L) /\ \A k \in 1..Len(left) : \E i \in S : left[k] = base[i]
    BY <1>1, <1>3, AtIsOf
<1>6. Clean(name) => left = name
    BY <1>4, AtAll
<1>7. \A k \in 1..Len(left) : left[k] \notin Separators /\ left[k] # Forbidden
    BY <1>1, <1>3, <1>5 DEF NoSeparator
<1> HIDE DEF left
<1> DEFINE C == {Dot, Blank}
           t == Trim(left, C)
<1>8. /\ t \in Seq(L)
      /\ t # <<>> => t[1] \notin C /\ t[Len(t)] \notin C
      /\ \A i \in 1..Len(t) : \E j \in 1..Len(left) : t[i] = left[j]
      /\ left # <<>> /\ left[1] \notin C /\ left[Len(left)] \notin C => t = left
  <2>1. left \in Seq(L)
      BY <1>5
  <2> HIDE DEF C
  <2>2. QED
      BY <2>1, TrimIs
<1> HIDE DEF t
<1>9. Clean(t)
    BY <1>7, <1>8 DEF Clean, NoSeparator
<1>10. QED
    BY <1>2, <1>6, <1>8, <1>9 DEF EndsFit, t
\* The position of the first dot, and what the stem is.
LEMMA StemIs ==
    ASSUME NEW L, NEW name \in Seq(L)
    PROVE  \/ Stem(name) = name
           \/ \E dot \in 1..Len(name) : name[dot] = Dot /\ Stem(name) = SubSeq(name, 1, dot - 1)
<1> DEFINE I == {i \in 1..Len(name) : name[i] = Dot}
           d == IF I # {} THEN Min(I) ELSE 0
<1>1. Len(name) \in Nat /\ I \in SUBSET (1..Len(name)) /\ \A i \in I : name[i] = Dot
    OBVIOUS
<1>2. Stem(name) = IF d = 0 THEN name ELSE SubSeq(name, 1, d - 1)
    BY DEF Stem, SelectInSeq
<1>3. d \in 0..Len(name) /\ (d # 0 => d \in I)
  <2>1. d = IF I # {} THEN Min(I) ELSE 0
      OBVIOUS
  <2> HIDE DEF I, d
  <2>2. QED
      BY <1>1, <2>1, FirstOf
<1> HIDE DEF I, d
<1>4. d # 0 => d \in 1..Len(name)
    BY <1>1, <1>3
<1>5. QED
    BY <1>1, <1>2, <1>3, <1>4

\* A stem other than the device's name begins the name: a name that begins
\* otherwise has another stem.
LEMMA StemBegins ==
    ASSUME NEW L, NEW name \in Seq(L), name # <<>>, name[1] # Dot, name[1] # Device
    PROVE  Stem(name) # <<Device>>
<1>1. Len(name) \in Nat /\ 1 \in 1..Len(name)
    BY EmptySeq
<1>2. Len(<<Device>>) = 1 /\ <<Device>>[1] = Device
    OBVIOUS
<1>3. CASE Stem(name) = name
    BY <1>2, <1>3
<1>4. ASSUME NEW dot \in 1..Len(name), name[dot] = Dot, Stem(name) = SubSeq(name, 1, dot - 1)
      PROVE  Stem(name) # <<Device>>
  <2>1. dot - 1 \in 1..Len(name) /\ 1 <= dot - 1
      BY <1>1, <1>4
  <2>2. 1 \in 1..(Len(name) + 1) /\ dot - 1 \in 0..Len(name)
      BY <1>1, <2>1
  <2>3. /\ Len(Stem(name)) = dot - 1
        /\ \A i \in 1..Len(Stem(name)) : Stem(name)[i] = name[1 + i - 1]
    <3>1. (dot - 1) - 1 + 1 = dot - 1
        BY <2>1
    <3>2. QED
        BY <1>4, <2>1, <2>2, <3>1, PieceOf
  <2>4. Stem(name)[1] = name[1]
    <3>1. 1 \in 1..Len(Stem(name)) /\ 1 + 1 - 1 = 1
        BY <2>1, <2>3
    <3>2. QED
        BY <2>3, <3>1
  <2>5. QED
      BY <1>2, <2>4
<1>5. QED
    BY <1>3, <1>4, StemIs

LEMMA UsableIs ==
    ASSUME NEW name \in Seq(Letters), Clean(name), EndsFit(name)
    PROVE  /\ Usable(name) \in Seq(Letters)
           /\ Usable(name) # <<>>
           /\ Clean(Usable(name))
           /\ EndsFit(Usable(name))
           /\ Stem(Usable(name)) # <<Device>>
           /\ name # <<>> /\ Stem(name) # <<Device>> => Usable(name) = name
<1> DEFINE base == IF name = <<>> THEN <<"unnamed_file">> ELSE name
           u == Usable(name)
<1>1. u = IF Stem(base) = <<Device>> THEN <<"_">> \o base ELSE base
    BY DEF Usable
<1>2. /\ base \in Seq(Letters) /\ base # <<>> /\ Clean(base) /\ EndsFit(base)
      /\ name = <<>> => base[1] = "unnamed_file"
      /\ name # <<>> => base = name
  <2>1. CASE name = <<>>
    <3>1. base = <<"unnamed_file">>
        BY <2>1
    <3>2. base \in Seq(Letters) /\ Len(base) = 1 /\ base[1] = "unnamed_file" /\ base # <<>>
      <4>1. "unnamed_file" \in Letters
          BY DEF Letters
      <4>2. QED
          BY <3>1, <4>1, SingleIs
    <3>3. \A i \in 1..Len(base) : base[i] = "unnamed_file"
        BY <3>2
    <3> HIDE DEF base
    <3>4. "unnamed_file" \notin Separators \cup {Forbidden, Dot, Blank}
        BY DEF Separators, Forbidden, Dot, Blank
    <3>5. Clean(base)
        BY <3>3, <3>4 DEF Clean, NoSeparator
    <3>6. EndsFit(base)
        BY <3>2, <3>4 DEF EndsFit
    <3>7. QED
        BY <2>1, <3>2, <3>5, <3>6
  <2>2. CASE name # <<>>
      BY <2>2
  <2>3. QED
      BY <2>1, <2>2
<1>3. name # <<>> /\ Stem(name) # <<Device>> => u = name
    BY <1>1, <1>2
<1> HIDE DEF base, u
<1>4. CASE Stem(base) # <<Device>>
    BY <1>1, <1>2, <1>3, <1>4 DEF u
<1>5. CASE Stem(base) = <<Device>>
  <2>1. u = <<"_">> \o base
      BY <1>1, <1>5
  <2>2. "_" \in Letters
      BY DEF Letters
  <2>3. /\ u \in Seq(Letters) /\ u # <<>>
        /\ u[1] = "_" /\ u[Len(u)] = base[Len(base)]
        /\ \A i \in 1..Len(u) : u[i] = "_" \/ \E j \in 1..Len(base) : u[i] = base[j]
    <3>1. base \in Seq(Letters) /\ base # <<>>
        BY <1>2
    <3> DEFINE c == "_"
    <3>2. c \in Letters /\ u = <<c>> \o base
        BY <2>1, <2>2
    <3> HIDE DEF c
    <3>3. /\ u \in Seq(Letters) /\ u # <<>>
          /\ u[1] = c /\ u[Len(u)] = base[Len(base)]
          /\ \A i \in 1..Len(u) : u[i] = c \/ \E j \in 1..Len(base) : u[i] = base[j]
        BY <3>1, <3>2, PrefixedIs
    <3>4. QED
        BY <3>3 DEF c
  <2>6. "_" \notin Separators \cup {Forbidden, Dot, Blank, Device}
      BY DEF Separators, Forbidden, Dot, Blank, Device
  <2>7. Clean(u)
      BY <1>2, <2>3, <2>6 DEF Clean, NoSeparator
  <2>8. EndsFit(u)
      BY <1>2, <2>3, <2>6 DEF EndsFit
  <2>9. Stem(u) # <<Device>>
      BY <2>3, <2>6, StemBegins
  <2>10. QED
      BY <1>3, <2>3, <2>7, <2>8, <2>9 DEF u
<1>6. QED
    BY <1>4, <1>5
LEMMA MaxOfTwo ==
    ASSUME NEW a \in Int, NEW b \in Int
    PROVE  Max({a, b}) \in {a, b} /\ Max({a, b}) >= a /\ Max({a, b}) >= b
<1>1. \E x \in {a, b} : \A y \in {a, b} : x >= y
  <2>1. CASE a >= b
      BY <2>1
  <2>2. CASE ~(a >= b)
      BY <2>2
  <2>3. QED
      BY <2>1, <2>2
<1>2. Max({a, b}) \in {a, b} /\ \A y \in {a, b} : Max({a, b}) >= y
    BY <1>1 DEF Max
<1>3. QED
    BY <1>2

LEMMA MinOfTwo ==
    ASSUME NEW a \in Int, NEW b \in Int
    PROVE  Min({a, b}) \in {a, b} /\ Min({a, b}) <= a /\ Min({a, b}) <= b
<1>1. \E x \in {a, b} : \A y \in {a, b} : x <= y
  <2>1. CASE a <= b
      BY <2>1
  <2>2. CASE ~(a <= b)
      BY <2>2
  <2>3. QED
      BY <2>1, <2>2
<1>2. Min({a, b}) \in {a, b} /\ \A y \in {a, b} : Min({a, b}) <= y
    BY <1>1 DEF Min
<1>3. QED
    BY <1>2

\* An extension ends the name.
LEMMA ExtensionIs ==
    ASSUME NEW L, NEW name \in Seq(L), name # <<>>
    PROVE  /\ Extension(name) \in Seq(L)
           /\ Len(Extension(name)) \in 0..Len(name)
           /\ \A i \in 1..Len(Extension(name)) :
                 \E j \in 1..Len(name) : Extension(name)[i] = name[j]
           /\ Len(Extension(name)) > 0 =>
                 Extension(name)[Len(Extension(name))] = name[Len(name)]
<1> DEFINE I == {i \in 1..Len(name) : name[i] = Dot}
           d == IF I # {} THEN Max(I) ELSE 0
           e == Extension(name)
<1>1. Len(name) \in Nat /\ Len(name) # 0 /\ I \in SUBSET (1..Len(name))
    BY EmptySeq
<1>2. e = IF d > 1 THEN SubSeq(name, d, Len(name)) ELSE <<>>
    BY DEF Extension, Start, SelectLastInSeq
<1>3. d \in 0..Len(name)
  <2>1. d = IF I # {} THEN Max(I) ELSE 0
      OBVIOUS
  <2> HIDE DEF I, d
  <2>2. QED
      BY <1>1, <2>1, LastOf
<1> HIDE DEF I, d, e
<1>4. CASE d > 1
  <2>1. d \in 1..(Len(name) + 1) /\ Len(name) \in 0..Len(name) /\ d <= Len(name)
      BY <1>1, <1>3, <1>4
  <2>2. /\ e \in Seq(L)
        /\ Len(e) = Len(name) - d + 1
        /\ \A i \in 1..Len(e) : d + i - 1 \in 1..Len(name) /\ e[i] = name[d + i - 1]
      BY <1>2, <1>4, <2>1, PieceOf
  <2>3. Len(e) \in 1..Len(name) /\ Len(e) \in 1..Len(e) /\ d + Len(e) - 1 = Len(name)
      BY <1>1, <1>4, <2>1, <2>2
  <2>4. e[Len(e)] = name[Len(name)]
      BY <2>2, <2>3
  <2>5. Len(e) \in 0..Len(name)
      BY <1>1, <2>3
  <2>6. QED
      BY <2>2, <2>4, <2>5 DEF e
<1>5. CASE ~(d > 1)
  <2>1. e = <<>>
      BY <1>2, <1>5
  <2>2. e \in Seq(L) /\ Len(e) = 0
      BY <2>1, EmptySeq
  <2>3. QED
      BY <1>1, <2>2 DEF e
<1>6. QED
    BY <1>4, <1>5

\* A cut name keeps a character that is neither dot nor blank: its last, with
\* an extension, and its first without one.
LEMMA CutIs ==
    ASSUME NEW L, NEW name \in Seq(L), name # <<>>, NoSeparator(name), EndsFit(name)
    PROVE  /\ Cut(name) \in Seq(L)
           /\ NoSeparator(Cut(name))
           /\ \E i \in 1..Len(Cut(name)) : Cut(name)[i] \notin {Dot, Blank}
           /\ Len(Cut(name)) <= Max({MaxLen, Len(Extension(name))})
           /\ Len(name) <= MaxLen => Cut(name) = name
<1> DEFINE ext == Extension(name)
           e == Len(ext)
           keep == Max({0, MaxLen - e})
           stem == SubSeq(name, 1, Len(name) - e)
           k == Min({keep, Len(stem)})
           head == SubSeq(stem, 1, k)
           top == Max({MaxLen, e})
<1>1. Len(name) \in Nat /\ Len(name) # 0 /\ MaxLen \in Nat /\ MaxLen # 0
    BY EmptySeq, AdmissionAssumption
<1>2. name[1] \notin {Dot, Blank} /\ name[Len(name)] \notin {Dot, Blank}
    BY DEF EndsFit
<1>3. /\ ext \in Seq(L) /\ e \in 0..Len(name)
      /\ \A i \in 1..e : \E j \in 1..Len(name) : ext[i] = name[j]
      /\ e > 0 => ext[e] = name[Len(name)]
    BY ExtensionIs
<1>4. Cut(name) = IF Len(name) <= MaxLen THEN name ELSE head \o ext
    BY DEF Cut
<1>5. top \in {MaxLen, e} /\ top >= MaxLen /\ top >= e
  <2> HIDE DEF e
  <2>1. MaxLen \in Int /\ e \in Int
      BY <1>1, <1>3
  <2>2. QED
      BY <2>1, MaxOfTwo, Zenon
<1>6. CASE Len(name) <= MaxLen
  <2>1. Cut(name) = name
      BY <1>4, <1>6
  <2>2. 1 \in 1..Len(name)
      BY <1>1
  <2>3. Len(name) <= top
    <3> HIDE DEF top, e
    <3>1. QED
        BY <1>1, <1>3, <1>5, <1>6
  <2>4. QED
      BY <1>2, <2>1, <2>2, <2>3
<1>7. CASE ~(Len(name) <= MaxLen)
  <2>1. keep \in Nat /\ keep + e <= top /\ (e = 0 => keep = MaxLen)
    <3>1. keep \in {0, MaxLen - e} /\ keep >= 0 /\ keep >= MaxLen - e
      <4> HIDE DEF e
      <4>1. 0 \in Int /\ MaxLen - e \in Int
          BY <1>1, <1>3
      <4>2. QED
          BY <4>1, MaxOfTwo, Zenon
    <3> HIDE DEF keep, top, e
    <3>2. QED
        BY <1>1, <1>3, <1>5, <3>1
  <2> HIDE DEF keep
  <2>2. /\ stem \in Seq(L) /\ Len(stem) = Len(name) - e
        /\ \A i \in 1..Len(stem) : 1 + i - 1 \in 1..Len(name) /\ stem[i] = name[1 + i - 1]
    <3> HIDE DEF e
    <3>1. 1 \in 1..(Len(name) + 1) /\ Len(name) - e \in 0..Len(name)
        BY <1>1, <1>3
    <3>2. /\ stem \in Seq(L)
          /\ Len(stem) = IF 1 <= Len(name) - e THEN (Len(name) - e) - 1 + 1 ELSE 0
          /\ \A i \in 1..Len(stem) : 1 + i - 1 \in 1..Len(name) /\ stem[i] = name[1 + i - 1]
        BY <3>1, PieceOf
    <3>3. Len(stem) = Len(name) - e
        BY <1>1, <1>3, <3>2
    <3>4. QED
        BY <3>2, <3>3
  <2> HIDE DEF stem
  <2>3. k \in {keep, Len(stem)} /\ k <= keep /\ k <= Len(stem) /\ k \in Nat
    <3>1. keep \in Int /\ Len(stem) \in Int
        BY <2>1, <2>2
    <3>2. k \in {keep, Len(stem)} /\ k <= keep /\ k <= Len(stem)
        BY <3>1, MinOfTwo, Zenon
    <3> HIDE DEF k
    <3>3. QED
        BY <2>1, <3>1, <3>2
  <2> HIDE DEF k
  <2>4. /\ head \in Seq(L) /\ Len(head) = k
        /\ \A i \in 1..Len(head) : 1 + i - 1 \in 1..Len(stem) /\ head[i] = stem[1 + i - 1]
    <3>1. Len(stem) \in Nat
        BY <2>2
    <3>2. 1 \in 1..(Len(stem) + 1) /\ k \in 0..Len(stem)
        BY <2>3, <3>1
    <3>3. /\ head \in Seq(L)
          /\ Len(head) = IF 1 <= k THEN k - 1 + 1 ELSE 0
          /\ \A i \in 1..Len(head) : 1 + i - 1 \in 1..Len(stem) /\ head[i] = stem[1 + i - 1]
        BY <2>2, <3>2, PieceOf
    <3>4. QED
        BY <2>3, <3>3
  <2> HIDE DEF head
  <2>5. \A i \in 1..k : head[i] = name[i] /\ i \in 1..Len(name)
    <3> SUFFICES ASSUME NEW i \in 1..k PROVE head[i] = name[i] /\ i \in 1..Len(name)
        OBVIOUS
    <3>1. i \in Nat /\ 1 + i - 1 = i
        BY <2>3
    <3>2. i \in 1..Len(stem) /\ head[i] = stem[i]
        BY <2>4, <3>1
    <3>3. QED
        BY <2>2, <3>1, <3>2
  <2> DEFINE c == head \o ext
  <2>6. /\ c \in Seq(L) /\ Len(c) = k + e
        /\ \A i \in 1..(k + e) : c[i] = IF i <= k THEN head[i] ELSE ext[i - k]
      BY <1>3, <2>4, ConcatProperties
  <2>7. Cut(name) = c
      BY <1>4, <1>7
  <2> HIDE DEF c, e, ext, top
  <2>8. NoSeparator(c)
    <3> SUFFICES ASSUME NEW i \in 1..(k + e) PROVE c[i] \notin Separators
        BY <2>6 DEF NoSeparator
    <3>1. CASE i <= k
      <4>1. i \in 1..k
          BY <1>3, <2>3, <3>1
      <4>2. QED
          BY <2>5, <2>6, <3>1, <4>1 DEF NoSeparator
    <3>2. CASE ~(i <= k)
      <4>1. i - k \in 1..e
          BY <1>3, <2>3, <3>2
      <4>2. c[i] = ext[i - k]
          BY <2>6, <3>2
      <4>3. QED
          BY <1>3, <4>1, <4>2 DEF NoSeparator
    <3>3. QED
        BY <3>1, <3>2
  <2>9. \E i \in 1..Len(c) : c[i] \notin {Dot, Blank}
    <3>1. CASE e > 0
      <4>1. PICK m \in Nat : m = k + e
          BY <1>3, <2>3
      <4>2. m \in 1..(k + e) /\ ~(m <= k) /\ m - k = e
          BY <1>3, <2>3, <3>1, <4>1
      <4>3. c[m] = ext[e]
          BY <2>6, <4>2
      <4>4. QED
          BY <1>2, <1>3, <2>6, <3>1, <4>2, <4>3
    <3>2. CASE ~(e > 0)
      <4>1. e = 0 /\ k > 0
          BY <1>1, <1>3, <2>1, <2>2, <2>3, <3>2
      <4>2. 1 \in 1..(k + e) /\ 1 <= k /\ 1 \in 1..k
          BY <2>3, <4>1
      <4>3. c[1] = name[1]
          BY <2>5, <2>6, <4>2
      <4>4. QED
          BY <1>2, <2>6, <4>2, <4>3
    <3>3. QED
        BY <3>1, <3>2
  <2>10. Len(c) <= top
      BY <1>1, <1>3, <1>5, <2>1, <2>3, <2>6
  <2>11. QED
      BY <1>7, <2>6, <2>7, <2>8, <2>9, <2>10 DEF top, e, ext
<1>8. QED
    BY <1>6, <1>7
\* What sanitize_filename returns: one component, with a character that is
\* neither dot nor blank, within the limit unless the extension alone is not.
LEMMA SanitizedIs ==
    ASSUME NEW name \in Seq(Letters)
    PROVE  LET full == Usable(Trimmed(name))
               file == SanitizeFilename(name)
           IN  /\ full \in Seq(Letters) /\ full # <<>>
               /\ Clean(full) /\ EndsFit(full) /\ Stem(full) # <<Device>>
               /\ file \in Seq(Letters)
               /\ NoSeparator(file)
               /\ \E i \in 1..Len(file) : file[i] \notin {Dot, Blank}
               /\ Len(file) <= Max({MaxLen, Len(Extension(full))})
               /\ Len(full) <= MaxLen => file = full
<1> DEFINE full == Usable(Trimmed(name))
           file == SanitizeFilename(name)
<1>1. Trimmed(name) \in Seq(Letters) /\ Clean(Trimmed(name)) /\ EndsFit(Trimmed(name))
    BY TrimmedIs
<1>2. /\ full \in Seq(Letters) /\ full # <<>>
      /\ Clean(full) /\ EndsFit(full) /\ Stem(full) # <<Device>>
    BY <1>1, UsableIs
<1>3. file = Cut(full)
    BY DEF SanitizeFilename
<1> HIDE DEF full, file
<1>4. NoSeparator(full)
    BY <1>2 DEF Clean
<1>5. /\ file \in Seq(Letters)
      /\ NoSeparator(file)
      /\ \E i \in 1..Len(file) : file[i] \notin {Dot, Blank}
      /\ Len(file) <= Max({MaxLen, Len(Extension(full))})
      /\ Len(full) <= MaxLen => file = full
    BY <1>2, <1>3, <1>4, CutIs
<1>6. QED
    BY <1>2, <1>5 DEF full, file

\* A name that is clean, fits and is no device's keeps.
LEMMA SanitizedKeeps ==
    ASSUME NEW name \in Seq(Letters), name # <<>>, Clean(name), EndsFit(name),
           Stem(name) # <<Device>>, Len(name) <= MaxLen
    PROVE  SanitizeFilename(name) = name
<1>1. Trimmed(name) = name
    BY TrimmedIs
<1>2. Usable(name) = name
    BY UsableIs
<1>3. NoSeparator(name)
    BY DEF Clean
<1>4. Cut(name) = name
    BY <1>3, CutIs
<1>5. QED
    BY <1>1, <1>2, <1>4 DEF SanitizeFilename

-----------------------------------------------------------------------------
(* safe_join.                                                              *)

\* A component runs from where it begins up to a separator or the end.
LEMMA ComponentIs ==
    ASSUME NEW L, NEW s \in Seq(L), NEW i \in 1..Len(s), s[i] \notin Separators
    PROVE  /\ Component(s, i) \in Seq(L)
           /\ Component(s, i) # <<>>
           /\ NoSeparator(Component(s, i))
<1> DEFINE J == {j \in i..(Len(s) + 1) : j = Len(s) + 1 \/ s[j] \in Separators}
           e == Min(J)
           c == Component(s, i)
<1>1. Len(s) \in Nat /\ i \in Nat /\ i >= 1 /\ i <= Len(s)
    OBVIOUS
<1>2. c = SubSeq(s, i, e - 1)
    BY DEF Component
<1>3. e \in J /\ \A j \in J : e <= j
  <2>1. Len(s) + 1 \in J
      BY <1>1
  <2>2. \A j \in J : j \in Nat
      BY <1>1
  <2> HIDE DEF J
  <2>3. J \in SUBSET Nat /\ J # {}
      BY <2>1, <2>2
  <2>4. QED
      BY <2>3, MinIsFirst, Zenon
<1>4. e \in i..(Len(s) + 1) /\ e # i
  <2>1. e \in i..(Len(s) + 1) /\ (e = Len(s) + 1 \/ s[e] \in Separators)
      BY <1>3
  <2> HIDE DEF e
  <2>2. QED
      BY <1>1, <2>1
<1>5. \A j \in i..(e - 1) : s[j] \notin Separators
  <2> SUFFICES ASSUME NEW j \in i..(e - 1), s[j] \in Separators PROVE FALSE
      OBVIOUS
  <2>1. e \in Int /\ e <= Len(s) + 1
      BY <1>4
  <2> HIDE DEF e
  <2>2. j \in i..(Len(s) + 1) /\ ~(e <= j)
      BY <1>1, <2>1
  <2>3. j \in J
      BY <2>2
  <2> HIDE DEF J
  <2>4. QED
      BY <1>3, <2>2, <2>3
<1> HIDE DEF J, e, c
<1>6. /\ c \in Seq(L)
      /\ Len(c) = e - i
      /\ \A k \in 1..Len(c) : i + k - 1 \in 1..Len(s) /\ c[k] = s[i + k - 1]
  <2>1. i \in 1..(Len(s) + 1) /\ e - 1 \in 0..Len(s) /\ i <= e - 1
      BY <1>1, <1>4
  <2>2. /\ c \in Seq(L)
        /\ Len(c) = (e - 1) - i + 1
        /\ \A k \in 1..Len(c) : i + k - 1 \in 1..Len(s) /\ c[k] = s[i + k - 1]
      BY <1>2, <2>1, PieceOf
  <2>3. QED
      BY <1>1, <1>4, <2>2
<1>7. c # <<>>
    BY <1>1, <1>4, <1>6, EmptySeq
<1>8. NoSeparator(c)
  <2> SUFFICES ASSUME NEW k \in 1..Len(c) PROVE c[k] \notin Separators
      BY DEF NoSeparator
  <2>1. i + k - 1 \in i..(e - 1)
      BY <1>1, <1>4, <1>6
  <2>2. QED
      BY <1>5, <1>6, <2>1
<1>9. QED
    BY <1>6, <1>7, <1>8 DEF c

\* Every component is one, and none is a dot.
LEMMA ComponentsAre ==
    ASSUME NEW L, NEW s \in Seq(L)
    PROVE  /\ Components(s) \in Seq(Seq(L))
           /\ \A k \in 1..Len(Components(s)) :
                 /\ Components(s)[k] \notin {<<>>, <<Dot>>}
                 /\ NoSeparator(Components(s)[k])
<1> DEFINE begins == {i \in 1..Len(s) : /\ s[i] \notin Separators
                                        /\ i = 1 \/ s[i - 1] \in Separators
                                        /\ Component(s, i) # <<Dot>>}
           N == Cardinality(begins)
           f == [k \in 1..N |-> Component(s, Nth(begins, k))]
<1>1. Components(s) = f
    BY DEF Components
<1>2. Len(s) \in Nat /\ begins \in SUBSET (1..Len(s))
    OBVIOUS
<1>3. \A i \in begins : /\ Component(s, i) \in Seq(L)
                        /\ Component(s, i) \notin {<<>>, <<Dot>>}
                        /\ NoSeparator(Component(s, i))
  <2> SUFFICES ASSUME NEW i \in begins
               PROVE  /\ Component(s, i) \in Seq(L)
                      /\ Component(s, i) \notin {<<>>, <<Dot>>}
                      /\ NoSeparator(Component(s, i))
      OBVIOUS
  <2>1. i \in 1..Len(s) /\ s[i] \notin Separators /\ Component(s, i) # <<Dot>>
      OBVIOUS
  <2> HIDE DEF begins
  <2>2. QED
      BY <2>1, ComponentIs
<1> HIDE DEF begins
<1>4. N \in Nat /\ \A k \in 1..N : Nth(begins, k) \in begins
    BY <1>2, PositionsFinite, NthIsIn
<1> HIDE DEF N
<1>5. \A k \in 1..N : f[k] \in Seq(L) /\ f[k] \notin {<<>>, <<Dot>>} /\ NoSeparator(f[k])
    BY <1>3, <1>4
<1>6. f \in [1..N -> Seq(L)]
    BY <1>5
<1> HIDE DEF f
<1>7. f \in Seq(Seq(L)) /\ Len(f) = N
    BY <1>4, <1>6
<1>8. QED
    BY <1>1, <1>5, <1>7

\* A name without separators is its own only component, unless it is a dot.
LEMMA ComponentsOfOne ==
    ASSUME NEW L, NEW s \in Seq(L), s # <<>>, s # <<Dot>>, NoSeparator(s)
    PROVE  Components(s) = <<s>>
<1> DEFINE begins == {i \in 1..Len(s) : /\ s[i] \notin Separators
                                        /\ i = 1 \/ s[i - 1] \in Separators
                                        /\ Component(s, i) # <<Dot>>}
           J == {j \in 1..(Len(s) + 1) : j = Len(s) + 1 \/ s[j] \in Separators}
<1>1. Len(s) \in Nat /\ 1 \in 1..Len(s)
    BY EmptySeq
<1>2. Component(s, 1) = s
  <2>1. \A j \in 1..(Len(s) + 1) : j = Len(s) + 1 \/ s[j] \notin Separators
    <3> SUFFICES ASSUME NEW j \in 1..(Len(s) + 1), j # Len(s) + 1
                 PROVE  s[j] \notin Separators
        OBVIOUS
    <3>1. j \in 1..Len(s)
        BY <1>1
    <3>2. QED
        BY <3>1 DEF NoSeparator
  <2>2. Len(s) + 1 \in J /\ \A j \in J : j = Len(s) + 1
      BY <1>1, <2>1
  <2>3. J \in SUBSET Nat /\ J # {}
    <3>1. \A j \in J : j \in Nat
        BY <1>1
    <3> HIDE DEF J
    <3>2. QED
        BY <2>2, <3>1
  <2>4. Min(J) = Len(s) + 1
    <3> HIDE DEF J
    <3>1. Min(J) \in J
        BY <2>3, MinIsFirst, Zenon
    <3>2. QED
        BY <2>2, <3>1, Zenon
  <2>5. Component(s, 1) = SubSeq(s, 1, Min(J) - 1)
      BY DEF Component
  <2>6. Min(J) - 1 = Len(s)
    <3> HIDE DEF J
    <3>1. QED
        BY <1>1, <2>4
  <2>7. QED
      BY <2>5, <2>6, SubSeqFull
<1>3. 1 \in begins /\ \A i \in begins : i = 1
  <2>1. 1 \in begins
      BY <1>1, <1>2 DEF NoSeparator
  <2>2. ASSUME NEW i \in 1..Len(s), i # 1 PROVE s[i - 1] \notin Separators
    <3>1. i - 1 \in 1..Len(s)
        BY <1>1, <2>2
    <3>2. QED
        BY <3>1 DEF NoSeparator
  <2>3. QED
      BY <2>1, <2>2
<1>4. Components(s) = [k \in 1..Cardinality(begins) |-> Component(s, Nth(begins, k))]
    BY DEF Components
<1>5. begins = {1} /\ begins \in SUBSET (1..Len(s))
  <2> HIDE DEF begins
  <2>1. QED
      BY <1>1, <1>3
<1> HIDE DEF begins
<1>6. Cardinality(begins) = 1
    BY <1>5, FS_Singleton
<1>7. \A k \in 1..1 : Component(s, Nth(begins, k)) = s
    BY <1>1, <1>2, <1>3, <1>5, <1>6, NthIsIn
<1>8. Components(s) = [k \in 1..1 |-> s]
    BY <1>4, <1>6, <1>7
<1>9. [k \in 1..1 |-> s] = <<s>>
    OBVIOUS
<1>10. QED
    BY <1>8, <1>9
\* The base is one component.
LEMMA ReceivedIs ==
    /\ Received \in Seq(Seq(Letters)) /\ Len(Received) = 1
    /\ None \notin Seq(Seq(Letters))
<1> DEFINE r == "received"
           c == <<r>>
<1>1. r \in Letters /\ Received = <<c>>
    BY DEF Letters, Received
<1> HIDE DEF r
<1>2. c \in Seq(Letters)
    BY <1>1, SingleIs
<1> HIDE DEF c
<1>3. Received \in Seq(Seq(Letters)) /\ Len(Received) = 1
    BY <1>1, <1>2, SingleIs
<1>4. None \notin Seq(Seq(Letters))
    BY AdmissionAssumption, Zenon
<1>5. QED
    BY <1>3, <1>4

\* What follows a base of one component.
LEMMA BelowBase ==
    ASSUME NEW L, NEW b \in Seq(L), Len(b) = 1, NEW t \in Seq(L), t # <<>>
    PROVE  /\ b \o t \in Seq(L) /\ Len(b \o t) = 1 + Len(t)
           /\ \A k \in 1..Len(t) : (b \o t)[k + 1] = t[k]
           /\ IsStrictPrefix(b, b \o t)
<1> DEFINE path == b \o t
           n == Len(t)
<1>1. n \in Nat /\ n # 0
    BY EmptySeq
<1>2. /\ path \in Seq(L) /\ Len(path) = Len(b) + n
      /\ \A i \in 1..(Len(b) + n) :
            path[i] = IF i <= Len(b) THEN b[i] ELSE t[i - Len(b)]
    BY ConcatProperties
<1>3. path # b
    BY ConcatEqualIffEmpty
<1>4. SubSeq(b, 1, 1) = SubSeq(path, 1, 1)
  <2>1. 1 \in 1..Len(b)
      OBVIOUS
  <2>2. QED
      BY <2>1, SubSeqOfConcat1
<1> HIDE DEF path, n
<1>5. ASSUME NEW k \in 1..n PROVE path[k + 1] = t[k]
  <2>1. PICK i \in Nat : i = k + 1
      BY <1>1
  <2>2. i \in 1..(Len(b) + n) /\ ~(i <= Len(b)) /\ i - Len(b) = k
      BY <1>1, <2>1
  <2>3. QED
      BY <1>2, <2>1, <2>2
<1>6. Len(b) <= Len(path) /\ Len(path) = 1 + n
    BY <1>1, <1>2
<1>7. IsStrictPrefix(b, path)
    BY <1>3, <1>4, <1>6 DEF IsStrictPrefix, IsPrefix
<1>8. QED
    BY <1>2, <1>5, <1>6, <1>7 DEF path, n

\* A joined path is the base and the name's components.
LEMMA JoinedIs ==
    ASSUME NEW s \in Seq(Letters), SafeJoin(Received, s) # None
    PROVE  /\ IsStrictPrefix(Received, SafeJoin(Received, s))
           /\ \A i \in 2..Len(SafeJoin(Received, s)) : Plain(SafeJoin(Received, s)[i])
<1> DEFINE parts == Components(s)
           path == SafeJoin(Received, s)
<1>1. path = Received \o parts /\ parts # <<>> /\ ~Contains(parts, <<Dot, Dot>>)
    BY DEF SafeJoin
<1>2. /\ parts \in Seq(Seq(Letters))
      /\ \A k \in 1..Len(parts) : parts[k] \notin {<<>>, <<Dot>>} /\ NoSeparator(parts[k])
    BY ComponentsAre
<1> HIDE DEF parts, path
<1>3. Len(parts) \in Nat /\ Len(parts) # 0
    BY <1>1, <1>2, EmptySeq
<1>4. /\ path \in Seq(Seq(Letters)) /\ Len(path) = 1 + Len(parts)
      /\ \A k \in 1..Len(parts) : path[k + 1] = parts[k]
      /\ IsStrictPrefix(Received, path)
  <2> DEFINE W == Seq(Letters)
  <2>1. Received \in Seq(W) /\ Len(Received) = 1 /\ parts \in Seq(W) /\ parts # <<>>
      BY <1>1, <1>2, ReceivedIs
  <2> HIDE DEF W
  <2>2. /\ Received \o parts \in Seq(W) /\ Len(Received \o parts) = 1 + Len(parts)
        /\ \A k \in 1..Len(parts) : (Received \o parts)[k + 1] = parts[k]
        /\ IsStrictPrefix(Received, Received \o parts)
      BY <2>1, BelowBase, Zenon
  <2>3. QED
      BY <1>1, <2>2 DEF W
<1>5. ASSUME NEW i \in 2..Len(path) PROVE Plain(path[i])
  <2>1. PICK k \in Nat : k + 1 = i
    <3>1. i - 1 \in Nat /\ (i - 1) + 1 = i
        OBVIOUS
    <3>2. QED
        BY <3>1
  <2>2. k \in 1..Len(parts)
      BY <1>3, <1>4, <2>1
  <2>3. path[i] = parts[k]
      BY <1>4, <2>1, <2>2
  <2>4. parts[k] # <<Dot, Dot>>
      BY <1>1, <2>2 DEF Contains
  <2>5. QED
      BY <1>2, <2>2, <2>3, <2>4 DEF Plain, NoSeparator
<1>6. QED
    BY <1>4, <1>5 DEF path

\* One component that says something is joined as it is.
LEMMA JoinsOne ==
    ASSUME NEW file \in Seq(Letters), NoSeparator(file),
           \E i \in 1..Len(file) : file[i] \notin {Dot, Blank}
    PROVE  /\ SafeJoin(Received, file) = Received \o <<file>>
           /\ SafeJoin(Received, file) # None
           /\ Last(SafeJoin(Received, file)) = file
           /\ Plain(file)
<1>1. PICK i \in 1..Len(file) : file[i] \notin {Dot, Blank}
    OBVIOUS
<1>2. Len(file) \in Nat /\ file # <<>>
    BY <1>1, EmptySeq
<1>3. file # <<Dot>>
  <2>1. \A k \in 1..Len(<<Dot>>) : <<Dot>>[k] = Dot
      OBVIOUS
  <2>2. QED
      BY <1>1, <2>1
<1>4. file # <<Dot, Dot>>
  <2>1. \A k \in 1..Len(<<Dot, Dot>>) : <<Dot, Dot>>[k] = Dot
      OBVIOUS
  <2>2. QED
      BY <1>1, <2>1
<1>5. Components(file) = <<file>>
    BY <1>2, <1>3, ComponentsOfOne
<1>6. <<file>> \in Seq(Seq(Letters)) /\ Len(<<file>>) = 1 /\ <<file>>[1] = file /\ <<file>> # <<>>
    BY SingleIs
<1>7. ~Rooted(file)
  <2>1. 1 \in 1..Len(file)
      BY <1>1, <1>2
  <2>2. QED
      BY <2>1 DEF Rooted, NoSeparator
<1>8. ~Contains(<<file>>, <<Dot, Dot>>)
    BY <1>4, <1>6 DEF Contains
<1>9. ~\A k \in 1..Len(file) : file[k] = Blank
    BY <1>1
<1>10. SafeJoin(Received, file) = Received \o <<file>>
    BY <1>5, <1>6, <1>7, <1>8, <1>9 DEF SafeJoin
<1> DEFINE path == Received \o <<file>>
<1>11. path \in Seq(Seq(Letters)) /\ Len(path) = 2 /\ path[2] = file
  <2> DEFINE W == Seq(Letters)
             one == <<file>>
  <2>1. Received \in Seq(W) /\ Len(Received) = 1 /\ one \in Seq(W) /\ one # <<>>
      BY <1>6, ReceivedIs
  <2>2. Len(one) = 1 /\ one[1] = file
      BY <1>6
  <2> HIDE DEF W, one
  <2>3. /\ Received \o one \in Seq(W) /\ Len(Received \o one) = 1 + Len(one)
        /\ \A k \in 1..Len(one) : (Received \o one)[k + 1] = one[k]
        /\ IsStrictPrefix(Received, Received \o one)
      BY <2>1, BelowBase, Zenon
  <2>4. 1 \in 1..Len(one) /\ 1 + 1 = 2
      BY <2>2
  <2>5. (Received \o one)[2] = file /\ Len(Received \o one) = 2
      BY <2>2, <2>3, <2>4
  <2>6. QED
      BY <2>3, <2>5 DEF W, one
<1> HIDE DEF path
<1>12. Plain(file)
    BY <1>2, <1>3, <1>4 DEF Plain, NoSeparator
<1>13. QED
    BY <1>10, <1>11, <1>12, ReceivedIs DEF Last, path

\* Whatever a name is, what the sanitizer makes of it is joined.
LEMMA SanitizedIsJoined ==
    ASSUME NEW name \in Seq(Chars)
    PROVE  LET file == SanitizeFilename(name)
               path == SafeJoin(Received, file)
           IN  /\ path = Received \o <<file>> /\ path # None /\ Last(path) = file
               /\ Plain(file)
<1>1. name \in Seq(Letters)
  <2>1. Chars \subseteq Letters
      BY DEF Letters
  <2>2. QED
      BY <2>1, SeqMonotonic
<1> DEFINE file == SanitizeFilename(name)
<1>2. /\ file \in Seq(Letters) /\ NoSeparator(file)
      /\ \E i \in 1..Len(file) : file[i] \notin {Dot, Blank}
    BY <1>1, SanitizedIs
<1> HIDE DEF file
<1>3. QED
    BY <1>2, JoinsOne DEF file

-----------------------------------------------------------------------------
(* The two sides of a request.                                             *)

\* A header's name is a sequence of characters, or absent.
NameTyped == headers.name # None => headers.name \in Seq(Chars)

\* A request of send_file is the one its call makes.
Asked == call # None => call \in Sends /\ headers = HeadersOf(call)

\* The verdict is the one the headers call for.
Judged ==
    \/ verdict = None
    \/ ~Readable(headers.name) /\ verdict = Refused("filename")
    \/ Readable(headers.name) /\ ~Parses(headers.total) /\ verdict = Refused("total")
    \/ /\ Readable(headers.name) /\ Parses(headers.total)
       /\ verdict = [admitted |-> TRUE,
                     path |-> SafeJoin(Received, SanitizeFilename(headers.name)),
                     total |-> headers.total, offset |-> ResumeOffset(headers.range)]

AdmissionInv == NameTyped /\ Asked /\ Judged

\* HTTP's trimming keeps a header's characters.
LEMMA WireIs ==
    ASSUME NEW name \in Seq(Chars)
    PROVE  /\ OnTheWire(name) \in Seq(Chars)
           /\ Contains(OnTheWire(name), Wide) <=> Contains(name, Wide)
<1> DEFINE C == {Blank}
           t == Trim(name, C)
<1>1. Wide \notin C
    BY DEF Wide, Blank
<1> HIDE DEF C
<1>2. /\ t \in Seq(Chars)
      /\ \A i \in 1..Len(t) : \E j \in 1..Len(name) : t[i] = name[j]
      /\ \A j \in 1..Len(name) : name[j] \notin C => \E i \in 1..Len(t) : t[i] = name[j]
    BY TrimIs
<1>3. t = OnTheWire(name)
    BY DEF OnTheWire, C
<1> HIDE DEF t
<1>4. Contains(t, Wide) <=> Contains(name, Wide)
  <2>1. ASSUME Contains(t, Wide) PROVE Contains(name, Wide)
      BY <1>2, <2>1 DEF Contains
  <2>2. ASSUME Contains(name, Wide) PROVE Contains(t, Wide)
    <3>1. PICK j \in 1..Len(name) : name[j] = Wide
        BY <2>2 DEF Contains
    <3>2. PICK i \in 1..Len(t) : t[i] = Wide
        BY <1>1, <1>2, <3>1
    <3>3. QED
        BY <3>2 DEF Contains
  <2>3. QED
      BY <2>1, <2>2
<1>5. QED
    BY <1>2, <1>3, <1>4

LEMMA AdmissionInit == Init => AdmissionInv
<1> SUFFICES ASSUME Init PROVE AdmissionInv
    OBVIOUS
<1>1. Judged
    BY DEF Init, Judged
<1>2. ASSUME NEW h \in Peers, call = None,
             headers = [h EXCEPT !.name = IF @ = None THEN @ ELSE OnTheWire(@)]
      PROVE  NameTyped /\ Asked
  <2>1. h \in [name : Seq(Chars) \cup {None}, total : Int \cup {None},
               range : RangeHeader \cup {None}]
      BY AdmissionAssumption, Zenon
  <2>2. h.name \in Seq(Chars) \cup {None}
      BY <2>1
  <2>3. headers.name = IF h.name = None THEN h.name ELSE OnTheWire(h.name)
      BY <1>2, <2>1
  <2>4. headers.name # None => headers.name \in Seq(Chars)
      BY <2>2, <2>3, WireIs
  <2>5. QED
      BY <1>2, <2>4 DEF NameTyped, Asked
<1>3. ASSUME NEW s \in Sends, headers = HeadersOf(s), call = s
      PROVE  NameTyped /\ Asked
  <2>1. s \in [name : Seq(Chars), size : 0..MaxU64, resume : 0..MaxU64]
      BY AdmissionAssumption, Zenon
  <2>2. headers.name = OnTheWire(s.name) /\ s.name \in Seq(Chars)
      BY <1>3, <2>1 DEF HeadersOf
  <2>3. headers.name \in Seq(Chars)
      BY <2>2, WireIs
  <2>4. QED
      BY <1>3, <2>3 DEF NameTyped, Asked
<1>4. QED
    BY <1>1, <1>2, <1>3 DEF Init, AdmissionInv

LEMMA AdmissionStep == AdmissionInv /\ [Next]_vars => AdmissionInv'
<1> SUFFICES ASSUME AdmissionInv, [Next]_vars PROVE AdmissionInv'
    OBVIOUS
<1> USE DEF AdmissionInv
<1>1. CASE UNCHANGED vars
    BY <1>1 DEF vars, NameTyped, Asked, Judged
<1>2. ASSUME UNCHANGED <<call, headers>> PROVE (NameTyped /\ Asked)'
    BY <1>2 DEF NameTyped, Asked
<1>3. CASE RefuseName
  <2>1. Judged'
      BY <1>3 DEF RefuseName, Judged
  <2>2. QED
      BY <1>2, <1>3, <2>1 DEF RefuseName
<1>4. CASE RefuseSize
  <2>1. Judged'
      BY <1>4 DEF RefuseSize, Judged
  <2>2. QED
      BY <1>2, <1>4, <2>1 DEF RefuseSize
<1>5. CASE Decide
  <2>1. Readable(headers.name) /\ Parses(headers.total) /\ UNCHANGED <<call, headers>>
      BY <1>5 DEF Decide
  <2>2. headers.name \in Seq(Chars)
      BY <2>1 DEF Readable, NameTyped
  <2>3. SafeJoin(Received, SanitizeFilename(headers.name)) # None
      BY <2>2, SanitizedIsJoined
  <2>4. Judged'
      BY <1>5, <2>1, <2>3 DEF Decide, Judged
  <2>5. QED
      BY <1>2, <2>1, <2>4
<1>6. QED
    BY <1>1, <1>3, <1>4, <1>5 DEF Next

LEMMA AdmissionInvariant == Spec => []AdmissionInv
BY AdmissionInit, AdmissionStep, PTL DEF Spec

-----------------------------------------------------------------------------
(* What follows.                                                           *)

\* What an admitted request was given: the sanitized name below the base, and
\* the size and the offset of its headers.
LEMMA AdmittedIs ==
    ASSUME AdmissionInv, Admitted
    PROVE  /\ headers.name \in Seq(Chars)
           /\ verdict.path = Received \o <<FinalName>>
           /\ FinalName = SanitizeFilename(headers.name)
           /\ Plain(FinalName)
           /\ verdict.total = headers.total
           /\ verdict.offset = ResumeOffset(headers.range)
<1>1. verdict # None /\ verdict.admitted
    BY DEF Admitted
<1>2. \A why : ~Refused(why).admitted
    BY DEF Refused
<1>3. /\ Readable(headers.name)
      /\ verdict = [admitted |-> TRUE,
                    path |-> SafeJoin(Received, SanitizeFilename(headers.name)),
                    total |-> headers.total, offset |-> ResumeOffset(headers.range)]
    BY <1>1, <1>2 DEF AdmissionInv, Judged
<1>4. headers.name \in Seq(Chars)
    BY <1>3 DEF AdmissionInv, NameTyped, Readable
<1>5. /\ verdict.path = SafeJoin(Received, SanitizeFilename(headers.name))
      /\ verdict.total = headers.total
      /\ verdict.offset = ResumeOffset(headers.range)
    BY <1>3
<1>6. QED
    BY <1>4, <1>5, SanitizedIsJoined DEF FinalName

\* Whatever name a peer announces, and whatever the limit is, the file goes
\* directly into the received-files directory, and no upload is refused for the
\* shape of its name (filename.rs:22-62, path.rs:14-62, server.rs:125-134).
THEOREM AlwaysReceived == Spec => []AlwaysDirectlyReceived
<1>1. AdmissionInv => AlwaysDirectlyReceived
  <2> SUFFICES ASSUME AdmissionInv PROVE AlwaysDirectlyReceived
      OBVIOUS
  <2>1. ASSUME verdict # None, ~verdict.admitted PROVE verdict.why # "path"
    <3>1. verdict = Refused("filename") \/ verdict = Refused("total")
        BY <2>1 DEF AdmissionInv, Judged
    <3>2. QED
        BY <3>1 DEF Refused
  <2>2. QED
      BY <2>1, AdmittedIs DEF AlwaysDirectlyReceived
<1>2. QED
    BY <1>1, AdmissionInvariant, PTL

\* A received name is within the limit, unless its extension alone is not; one
\* that was not cut is fit for every file system, and sanitizing it again, after
\* another trip over the wire, changes nothing (filename.rs:12-62).
THEOREM NamesKeep == Spec => []NameKeeps
<1>1. AdmissionInv => NameKeeps
  <2> SUFFICES ASSUME AdmissionInv, Admitted
               PROVE  /\ Len(FinalName)
                            <= Max({MaxLen, Len(Extension(Usable(Trimmed(headers.name))))})
                      /\ Len(Usable(Trimmed(headers.name))) <= MaxLen =>
                            /\ Stem(FinalName) # <<Device>>
                            /\ {FinalName[1], Last(FinalName)} \cap {Dot, Blank} = {}
                            /\ ~Contains(FinalName, Forbidden)
                            /\ SanitizeFilename(OnTheWire(FinalName)) = FinalName
      BY DEF NameKeeps
  <2> DEFINE full == Usable(Trimmed(headers.name))
             file == FinalName
  <2>1. file = SanitizeFilename(headers.name) /\ headers.name \in Seq(Letters)
    <3>1. Chars \subseteq Letters
        BY DEF Letters
    <3>2. QED
        BY <3>1, AdmittedIs, SeqMonotonic
  <2>2. /\ full \in Seq(Letters) /\ full # <<>>
        /\ Clean(full) /\ EndsFit(full) /\ Stem(full) # <<Device>>
        /\ Len(file) <= Max({MaxLen, Len(Extension(full))})
        /\ Len(full) <= MaxLen => file = full
      BY <2>1, SanitizedIs
  <2> HIDE DEF full, file
  <2>3. ASSUME Len(full) <= MaxLen
        PROVE  /\ Stem(file) # <<Device>>
               /\ {file[1], Last(file)} \cap {Dot, Blank} = {}
               /\ ~Contains(file, Forbidden)
               /\ SanitizeFilename(OnTheWire(file)) = file
    <3>1. file = full
        BY <2>2, <2>3
    <3>2. file[1] \notin {Dot, Blank} /\ file[Len(file)] \notin {Dot, Blank}
        BY <2>2, <3>1 DEF EndsFit
    <3>3. ~Contains(file, Forbidden)
        BY <2>2, <3>1 DEF Clean, Contains
    <3>4. OnTheWire(file) = file
      <4> DEFINE C == {Blank}
      <4>1. file \in Seq(Letters) /\ file # <<>> /\ file[1] \notin C /\ file[Len(file)] \notin C
          BY <2>2, <3>1, <3>2
      <4> HIDE DEF C
      <4>2. Trim(file, C) = file
          BY <4>1, TrimIs
      <4>3. QED
          BY <4>2 DEF OnTheWire, C
    <3>5. SanitizeFilename(file) = file
        BY <2>2, <2>3, <3>1, SanitizedKeeps
    <3>6. QED
        BY <2>2, <3>1, <3>2, <3>3, <3>4, <3>5 DEF Last
  <2>4. QED
      BY <2>2, <2>3 DEF full, file
<1>2. QED
    BY <1>1, AdmissionInvariant, PTL

\* safe_join by itself, on a name nobody sanitized, gives a path below the base
\* by plain components only, or none (path.rs:6-14).
THEOREM JoinsAreContained == Spec => []JoinContained
<1>1. AdmissionInv => JoinContained
  <2> SUFFICES ASSUME AdmissionInv, headers.name # None,
                      SafeJoin(Received, headers.name) # None
               PROVE  /\ IsStrictPrefix(Received, SafeJoin(Received, headers.name))
                      /\ \A i \in 2..Len(SafeJoin(Received, headers.name)) :
                            Plain(SafeJoin(Received, headers.name)[i])
      BY DEF JoinContained
  <2>1. headers.name \in Seq(Letters)
    <3>1. Chars \subseteq Letters
        BY DEF Letters
    <3>2. headers.name \in Seq(Chars)
        BY DEF AdmissionInv, NameTyped
    <3>3. QED
        BY <3>1, <3>2, SeqMonotonic
  <2>2. QED
      BY <2>1, JoinedIs
<1>2. QED
    BY <1>1, AdmissionInvariant, PTL

\* What send_file asks for is what the receiver does: the size and the offset
\* arrive, and only a name that is not ASCII is refused (client.rs:83-100,
\* server.rs:103-139, 256-262).
THEOREM SendsArrive == Spec => []SendArrives
<1>1. AdmissionInv => SendArrives
  <2> SUFFICES ASSUME AdmissionInv, call # None, verdict # None
               PROVE  IF Contains(call.name, Wide) THEN ~verdict.admitted
                      ELSE /\ Admitted /\ verdict.total = call.size
                           /\ verdict.offset = call.resume
      BY DEF SendArrives
  <2>1. call \in Sends /\ headers = HeadersOf(call)
      BY DEF AdmissionInv, Asked
  <2>2. call \in [name : Seq(Chars), size : 0..MaxU64, resume : 0..MaxU64]
      BY <2>1, AdmissionAssumption, Zenon
  <2>3. /\ call.name \in Seq(Chars) /\ call.size \in 0..MaxU64 /\ call.resume \in 0..MaxU64
        /\ headers.name = OnTheWire(call.name) /\ headers.total = call.size
      BY <2>1, <2>2 DEF HeadersOf
  <2>4. /\ headers.name \in Seq(Chars)
        /\ Contains(headers.name, Wide) <=> Contains(call.name, Wide)
      BY <2>3, WireIs
  <2>5. headers.name # None
    <3>1. Chars \subseteq Letters
        BY DEF Letters
    <3>2. headers.name \in Seq(Letters)
        BY <2>4, <3>1, SeqMonotonic
    <3>3. None \notin Seq(Letters)
        BY AdmissionAssumption, Zenon
    <3>4. QED
        BY <3>2, <3>3
  <2>6. Readable(headers.name) <=> ~Contains(call.name, Wide)
      BY <2>4, <2>5 DEF Readable
  <2>7. CASE Contains(call.name, Wide)
    <3>1. verdict = Refused("filename")
        BY <2>6, <2>7 DEF AdmissionInv, Judged
    <3>2. QED
        BY <2>7, <3>1 DEF Refused
  <2>8. CASE ~Contains(call.name, Wide)
    <3>1. Parses(headers.total)
        BY <2>3 DEF Parses
    <3>2. verdict.admitted = TRUE
        BY <2>6, <2>8, <3>1 DEF AdmissionInv, Judged
    <3>3. Admitted
        BY <3>2 DEF Admitted
    <3>4. verdict.total = call.size /\ verdict.offset = ResumeOffset(headers.range)
        BY <2>3, <3>3, AdmittedIs
    <3>5. ResumeOffset(headers.range) = call.resume
      <4>1. CASE call.resume = 0
        <5>1. headers.range = None
            BY <2>1, <4>1 DEF HeadersOf
        <5>2. QED
            BY <4>1, <5>1 DEF ResumeOffset
      <4>2. CASE call.resume # 0
        <5> DEFINE end == Max({0, call.size - 1})
        <5>1. headers.range = [unit |-> "bytes", start |-> call.resume,
                               end |-> end, of |-> call.size]
            BY <2>1, <4>2 DEF HeadersOf
        <5>2. end \in Int
          <6>1. 0 \in Int /\ call.size - 1 \in Int
              BY <2>3
          <6>2. end \in {0, call.size - 1}
              BY <6>1, MaxOfTwo, Zenon
          <6> HIDE DEF end
          <6>3. QED
              BY <6>1, <6>2
        <5> HIDE DEF end
        <5>3. headers.range \in RangeHeader
            BY <2>3, <5>1, <5>2 DEF RangeHeader
        <5>4. headers.range # None
            BY <5>3, AdmissionAssumption, Zenon
        <5>5. headers.range.unit = "bytes" /\ headers.range.start = call.resume
            BY <5>1
        <5>6. Parses(call.resume)
            BY <2>3 DEF Parses
        <5>7. QED
            BY <5>4, <5>5, <5>6 DEF ResumeOffset
      <4>3. QED
          BY <4>1, <4>2
    <3>6. QED
        BY <2>8, <3>3, <3>4, <3>5
  <2>9. QED
      BY <2>7, <2>8
<1>2. QED
    BY <1>1, AdmissionInvariant, PTL
=============================================================================
