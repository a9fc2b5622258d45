------------------------------ MODULE LayoutProofs ------------------------------
(* What is true of numbers, joined sequences, step by step definitions and     *)
(* pieces laid one after the other, whatever the unit: the lemmas that the     *)
(* theorems about ciphertexts and about the corpus keep needing.               *)
EXTENDS Layout, SequencesExt, SequenceTheorems, FiniteSetTheorems,
        WellFoundedInduction, NaturalsInduction, TLAPS

---------------------------------------------------------------------------------
(* Numbers.                                                                    *)

(* Induction, for a set instead of a predicate.                                *)
LEMMA SetInduction ==
  ASSUME NEW S, 0 \in S, \A n \in Nat : n \in S => n + 1 \in S
  PROVE  \A n \in Nat : n \in S
<1>1. SUFFICES ASSUME NEW m \in Nat, m \notin S PROVE FALSE
  OBVIOUS
<1> DEFINE T == {n \in Nat : n \notin S}
<1>2. T \subseteq Nat /\ T # {}
  BY <1>1
<1>3. PICK x \in T : \A y \in T : ~ (<<y, x>> \in OpToRel(<, Nat))
  <2> HIDE DEF T
  <2> QED
    BY <1>2, NatLessThanWellFounded, WFMin
<1>4. x \in Nat /\ x \notin S
  OBVIOUS
<1>5. x # 0
  BY <1>4
<1>6. x - 1 \in Nat /\ x - 1 < x
  BY <1>4, <1>5
<1>7. <<x - 1, x>> \in OpToRel(<, Nat)
  BY <1>4, <1>6 DEF OpToRel
<1>8. x - 1 \in S
  BY <1>3, <1>6, <1>7
<1>9. x - 1 + 1 = x
  BY <1>4
<1> QED
  BY <1>4, <1>6, <1>8, <1>9

(* Integer division, as the provers have it.                                   *)
LEMMA Quotient ==
  ASSUME NEW a \in Nat, NEW n \in Nat \ {0}
  PROVE  /\ a \div n \in Nat
         /\ n * (a \div n) <= a
         /\ a < n * (a \div n) + n
BY SMT

(* Every place of n pieces of b elements is a place of one of the pieces.      *)
LEMMA PieceOf ==
  ASSUME NEW n \in Nat, NEW b \in Nat \ {0}, NEW p \in 1..(n * b)
  PROVE  \E i \in 1..n : \E j \in 1..b : p = (i - 1) * b + j
<1> DEFINE q == (p - 1) \div b
<1>1. n * b \in Nat /\ p - 1 \in Nat /\ p - 1 < n * b
  BY SMT
<1>2. q \in Nat /\ b * q <= p - 1 /\ p - 1 < b * q + b
  BY <1>1, Quotient
<1> HIDE DEF q
<1>3. q < n
  <2> SUFFICES ASSUME q >= n PROVE FALSE
    BY <1>2
  <2>1. b * q >= n * b
    BY <1>2, SMT
  <2> QED
    BY <1>1, <1>2, <2>1, SMT
<1> DEFINE m == b * q
<1>4. m \in Int /\ q * b = m
  BY <1>2, SMT
<1>5. q + 1 \in 1..n /\ (q + 1) - 1 = q
  BY <1>2, <1>3
<1>6. p - m \in 1..b /\ p = m + (p - m)
  <2> HIDE DEF m
  <2> QED
    BY <1>1, <1>2, <1>4 DEF m
<1>7. p = ((q + 1) - 1) * b + (p - m)
  BY <1>4, <1>5, <1>6
<1> QED
  BY <1>5, <1>6, <1>7

(* A finite list names as many things as it is long when it names none twice.  *)
LEMMA RangeSize ==
  ASSUME NEW n \in Nat, NEW f, DOMAIN f = 1..n
  PROVE  /\ IsFiniteSet({f[i] : i \in 1..n})
         /\ Cardinality({f[i] : i \in 1..n}) \in Nat
         /\ Cardinality({f[i] : i \in 1..n}) = n
              <=> \A i, j \in 1..n : f[i] = f[j] => i = j
<1> DEFINE R == {f[i] : i \in 1..n}
           g == [i \in 1..n |-> f[i]]
<1>1. IsFiniteSet(1..n) /\ Cardinality(1..n) = n
  BY FS_Interval
<1>2. g \in Surjection(1..n, R)
  BY DEF Surjection
<1>3. IsFiniteSet(R) /\ (Cardinality(R) = n <=> g \in Injection(1..n, R))
  BY <1>1, <1>2, FS_Surjection
<1>4. g \in Injection(1..n, R) <=> \A i, j \in 1..n : f[i] = f[j] => i = j
  BY DEF Injection, IsInjective
<1>5. Cardinality(R) \in Nat
  BY <1>3, FS_CardinalityType
<1> QED
  BY <1>3, <1>4, <1>5

---------------------------------------------------------------------------------
(* Joining sequences.                                                          *)

(* Where the elements of two sequences are found in their concatenation.       *)
LEMMA ConcatAt ==
  ASSUME NEW T, NEW s \in Seq(T), NEW t \in Seq(T)
  PROVE  /\ s \o t \in Seq(T)
         /\ Len(s \o t) = Len(s) + Len(t)
         /\ \A k \in 1..Len(s) : k \in 1..Len(s \o t) /\ (s \o t)[k] = s[k]
         /\ \A k \in 1..Len(t) : /\ Len(s) + k \in 1..Len(s \o t)
                                 /\ (s \o t)[Len(s) + k] = t[k]
<1> DEFINE c == s \o t
<1>1. /\ c \in Seq(T) /\ Len(c) = Len(s) + Len(t)
      /\ Len(s) \in Nat /\ Len(t) \in Nat
      /\ \A k \in 1..(Len(s) + Len(t)) :
           c[k] = IF k <= Len(s) THEN s[k] ELSE t[k - Len(s)]
  BY ConcatProperties, LenProperties
<1> HIDE DEF c
<1>2. ASSUME NEW k \in 1..Len(s) PROVE k \in 1..Len(c) /\ c[k] = s[k]
  <2>1. k \in 1..(Len(s) + Len(t)) /\ k <= Len(s)
    BY <1>1
  <2> QED
    BY <1>1, <2>1
<1>3. ASSUME NEW k \in 1..Len(t)
      PROVE  Len(s) + k \in 1..Len(c) /\ c[Len(s) + k] = t[k]
  <2>1. PICK n \in 1..(Len(s) + Len(t)) : n = Len(s) + k
    BY <1>1
  <2>2. ~ (n <= Len(s)) /\ n - Len(s) = k
    BY <1>1, <2>1
  <2>3. c[n] = t[k]
    BY <1>1, <2>2
  <2> QED
    BY <1>1, <2>1, <2>3
<1> QED
  BY <1>1, <1>2, <1>3 DEF c

(* What FlattenSeq computes is there: one sequence for each beginning.         *)
Flattening(s, f, n) ==
  /\ DOMAIN f = 1..n
  /\ \A i \in 1..n : f[i] = IF i = 1 THEN s[i] ELSE f[i - 1] \o s[i]

LEMMA FlatteningExists ==
  ASSUME NEW T, NEW s \in Seq(Seq(T))
  PROVE  \A n \in Nat : n <= Len(s) =>
           \E f \in [1..n -> Seq(T)] : Flattening(s, f, n)
<1> DEFINE S == {n \in Nat : n <= Len(s) =>
                   \E f \in [1..n -> Seq(T)] : Flattening(s, f, n)}
<1>1. 0 \in S
  <2>1. [i \in 1..0 |-> <<>>] \in [1..0 -> Seq(T)]
    BY EmptySeq
  <2>2. Flattening(s, [i \in 1..0 |-> <<>>], 0)
    BY DEF Flattening
  <2> QED
    BY <2>1, <2>2
<1>2. ASSUME NEW n \in Nat, n \in S PROVE n + 1 \in S
  <2> SUFFICES ASSUME n + 1 <= Len(s)
               PROVE  \E f \in [1..(n + 1) -> Seq(T)] : Flattening(s, f, n + 1)
    OBVIOUS
  <2>1. n <= Len(s)
    BY LenProperties
  <2>2. PICK f \in [1..n -> Seq(T)] : Flattening(s, f, n)
    BY <1>2, <2>1
  <2>3. s[n + 1] \in Seq(T)
    BY ElementOfSeq, LenProperties
  <2> DEFINE last == IF n = 0 THEN s[n + 1] ELSE f[n] \o s[n + 1]
             g == [i \in 1..(n + 1) |-> IF i = n + 1 THEN last ELSE f[i]]
  <2>4. last \in Seq(T)
    BY <2>3, ConcatProperties
  <2>5. g \in [1..(n + 1) -> Seq(T)]
    <3> HIDE DEF last
    <3> QED
      BY <2>4
  <2>6. Flattening(s, g, n + 1)
    <3>1. g[n + 1] = IF n + 1 = 1 THEN s[n + 1] ELSE g[n] \o s[n + 1]
      <4>1. CASE n = 0
        BY <4>1
      <4>2. CASE n # 0
        BY <4>2
      <4> QED
        BY <4>1, <4>2
    <3>2. ASSUME NEW i \in 1..n
          PROVE  g[i] = IF i = 1 THEN s[i] ELSE g[i - 1] \o s[i]
      <4>1. g[i] = f[i] /\ (i # 1 => g[i - 1] = f[i - 1])
        <5> HIDE DEF last
        <5> QED
          OBVIOUS
      <4> QED
        BY <4>1, <2>2 DEF Flattening
    <3> HIDE DEF g, last
    <3>3. DOMAIN g = 1..(n + 1)
      BY <2>5
    <3>4. ASSUME NEW i \in 1..(n + 1)
          PROVE  g[i] = IF i = 1 THEN s[i] ELSE g[i - 1] \o s[i]
      <4>1. CASE i = n + 1
        <5>1. i - 1 = n
          BY <4>1
        <5> QED
          BY <4>1, <5>1, <3>1, Zenon
      <4>2. CASE i # n + 1
        <5>1. i \in 1..n
          BY <4>2
        <5> QED
          BY <5>1, <3>2, Zenon
      <4> QED
        BY <4>1, <4>2
    <3> QED
      BY <3>3, <3>4, Zenon DEF Flattening
  <2> QED
    BY <2>5, <2>6
<1>3. \A n \in Nat : n \in S
  <2> HIDE DEF S
  <2> QED
    BY <1>1, <1>2, SetInduction
<1> QED
  BY <1>3

(* The parts of a flattening by which it is known.                             *)
LEMMA FlattenIs ==
  ASSUME NEW T, NEW s \in Seq(Seq(T)), s # <<>>
  PROVE  \E f \in [1..Len(s) -> Seq(T)] :
           Flattening(s, f, Len(s)) /\ FlattenSeq(s) = f[Len(s)]
<1> DEFINE R(h) == h = [i \in 1..Len(s) |->
                          IF i = 1 THEN s[i] ELSE h[i - 1] \o s[i]]
           F == CHOOSE h : R(h)
<1>1. Len(s) \in Nat /\ Len(s) # 0
  BY LenProperties, EmptySeq
<1>2. FlattenSeq(s) = F[Len(s)]
  BY <1>1 DEF FlattenSeq
<1>3. PICK f \in [1..Len(s) -> Seq(T)] : Flattening(s, f, Len(s))
  BY <1>1, FlatteningExists
<1>4. R(f)
  BY <1>3 DEF Flattening
<1>5. R(F)
  BY <1>4
<1>6. Flattening(s, F, Len(s))
  BY <1>5 DEF Flattening
<1> DEFINE S == {n \in Nat : n \in 1..Len(s) => F[n] = f[n]}
<1>7. \A n \in Nat : n \in S
  <2>1. 0 \in S
    OBVIOUS
  <2>2. ASSUME NEW n \in Nat, n \in S PROVE n + 1 \in S
    <3> HIDE DEF F
    <3> SUFFICES ASSUME n + 1 \in 1..Len(s) PROVE F[n + 1] = f[n + 1]
      OBVIOUS
    <3>1. PICK k \in 1..Len(s) : k = n + 1
      OBVIOUS
    <3>2. \A i \in 1..Len(s) : F[i] = IF i = 1 THEN s[i] ELSE F[i - 1] \o s[i]
      BY <1>6 DEF Flattening
    <3>3. \A i \in 1..Len(s) : f[i] = IF i = 1 THEN s[i] ELSE f[i - 1] \o s[i]
      BY <1>3 DEF Flattening
    <3>4. k # 1 => k - 1 = n /\ n \in 1..Len(s)
      BY <3>1, <1>1
    <3>5. k # 1 => F[k - 1] = f[k - 1]
      BY <3>4, <2>2
    <3>6. F[k] = f[k]
      BY <3>2, <3>3, <3>5, Zenon
    <3> QED
      BY <3>1, <3>6
  <2> HIDE DEF S
  <2> QED
    BY <2>1, <2>2, SetInduction
<1>8. F[Len(s)] = f[Len(s)]
  <2>1. Len(s) \in Nat /\ Len(s) \in 1..Len(s)
    BY <1>1
  <2>2. Len(s) \in S
    BY <2>1, <1>7, Zenon
  <2> HIDE DEF F
  <2> QED
    BY <2>1, <2>2
<1> HIDE DEF F
<1> QED
  BY <1>2, <1>3, <1>8

(* Where the elements of a sequence of sequences are found when it is joined:  *)
(* places counts the elements up to the end of each.                           *)
Places(s, places) ==
  /\ places \in [0..Len(s) -> Nat]
  /\ places[0] = 0
  /\ \A i \in 1..Len(s) : places[i] = places[i - 1] + Len(s[i])
FoundAt(s, joined, places) ==
  /\ Len(joined) = places[Len(s)]
  /\ \A i \in 1..Len(s) : \A j \in 1..Len(s[i]) :
       /\ places[i - 1] + j \in 1..Len(joined)
       /\ joined[places[i - 1] + j] = s[i][j]

LEMMA FlattenPlaces ==
  ASSUME NEW T, NEW s \in Seq(Seq(T)), s # <<>>
  PROVE  /\ FlattenSeq(s) \in Seq(T)
         /\ \E places : Places(s, places) /\ FoundAt(s, FlattenSeq(s), places)
<1>1. Len(s) \in Nat /\ Len(s) \in 1..Len(s) /\ Len(s) # 0
  BY LenProperties, EmptySeq
<1>2. PICK f \in [1..Len(s) -> Seq(T)] :
        Flattening(s, f, Len(s)) /\ FlattenSeq(s) = f[Len(s)]
  BY FlattenIs
<1>3. \A i \in 1..Len(s) : f[i] = IF i = 1 THEN s[i] ELSE f[i - 1] \o s[i]
  BY <1>2 DEF Flattening
<1>4. \A i \in 1..Len(s) : /\ f[i] \in Seq(T) /\ s[i] \in Seq(T)
                          /\ Len(f[i]) \in Nat /\ Len(s[i]) \in Nat
  BY <1>1, ElementOfSeq, LenProperties
<1> DEFINE places == [i \in 0..Len(s) |-> IF i = 0 THEN 0 ELSE Len(f[i])]
<1>5. Places(s, places)
  <2>1. places \in [0..Len(s) -> Nat] /\ places[0] = 0
    BY <1>1, <1>4
  <2>2. ASSUME NEW i \in 1..Len(s) PROVE places[i] = places[i - 1] + Len(s[i])
    <3>1. places[i] = Len(f[i]) /\ i \in Nat
      BY <1>1
    <3>2. CASE i = 1
      <4>1. f[i] = s[i]
        BY <3>2, <1>3, Zenon
      <4>2. places[i - 1] = 0
        BY <3>2, <2>1
      <4> HIDE DEF places
      <4> QED
        BY <3>1, <4>1, <4>2, <1>4
    <3>3. CASE i # 1
      <4>1. i - 1 \in 1..Len(s) /\ i - 1 # 0
        BY <3>3
      <4>2. places[i - 1] = Len(f[i - 1])
        BY <4>1
      <4>3. f[i] = f[i - 1] \o s[i]
        BY <1>3, <3>3
      <4>4. f[i - 1] \in Seq(T) /\ s[i] \in Seq(T)
        BY <4>1, <1>4
      <4>5. Len(f[i - 1] \o s[i]) = Len(f[i - 1]) + Len(s[i])
        BY <4>4, ConcatProperties
      <4> HIDE DEF places
      <4> QED
        BY <3>1, <4>2, <4>3, <4>5
    <3> QED
      BY <3>2, <3>3
  <2> HIDE DEF places
  <2> QED
    BY <2>1, <2>2 DEF Places
<1>6. \A i \in 1..Len(s) : places[i] = Len(f[i]) /\ places[i] \in Nat
                          /\ places[i - 1] \in Nat
  <2>1. \A i \in 1..Len(s) : i - 1 \in 0..Len(s) /\ i \in 0..Len(s) /\ i # 0
    BY <1>1
  <2>2. \A i \in 1..Len(s) : places[i] = Len(f[i])
    BY <2>1
  <2> HIDE DEF places
  <2> QED
    BY <2>1, <2>2, <1>5 DEF Places
<1> HIDE DEF places
<1> DEFINE S == {n \in Nat : n \in 1..Len(s) =>
                   \A i \in 1..n : \A j \in 1..Len(s[i]) :
                     /\ places[i - 1] + j \in 1..Len(f[n])
                     /\ f[n][places[i - 1] + j] = s[i][j]}
<1>7. \A n \in Nat : n \in S
  <2>1. 0 \in S
    OBVIOUS
  <2>2. ASSUME NEW m \in Nat, m \in S PROVE m + 1 \in S
    <3>1. SUFFICES ASSUME NEW n \in 1..Len(s), n = m + 1,
                          NEW i \in 1..n, NEW j \in 1..Len(s[i])
                   PROVE  /\ places[i - 1] + j \in 1..Len(f[n])
                          /\ f[n][places[i - 1] + j] = s[i][j]
      OBVIOUS
    <3>2. places[n] = places[n - 1] + Len(s[n]) /\ places[0] = 0
      BY <1>5 DEF Places
    <3> DEFINE k == places[i - 1] + j
    <3>3. CASE n = 1
      <4>1. i = 1 /\ i = n
        BY <3>3
      <4>2. f[n] = s[i]
        BY <3>3, <4>1, <1>3, Zenon
      <4>3. places[i - 1] + j = j
        BY <4>1, <3>2
      <4> QED
        BY <4>2, <4>3
    <3>4. CASE n # 1
      <4>1. m \in 1..Len(s) /\ n - 1 = m
        BY <3>1, <3>4
      <4>2. f[m] \in Seq(T) /\ s[n] \in Seq(T)
        BY <4>1, <1>4
      <4>3. f[n] = f[m] \o s[n]
        BY <1>3, <3>4, <4>1, Zenon
      <4>4. /\ \A h \in 1..Len(f[m]) : h \in 1..Len(f[n]) /\ f[n][h] = f[m][h]
            /\ \A h \in 1..Len(s[n]) : /\ Len(f[m]) + h \in 1..Len(f[n])
                                       /\ f[n][Len(f[m]) + h] = s[n][h]
        <5> DEFINE c == f[m] \o s[n]
        <5>1. /\ \A h \in 1..Len(f[m]) : h \in 1..Len(c) /\ c[h] = f[m][h]
              /\ \A h \in 1..Len(s[n]) : /\ Len(f[m]) + h \in 1..Len(c)
                                         /\ c[Len(f[m]) + h] = s[n][h]
          <6> DEFINE a == f[m]
                     b == s[n]
          <6>1. a \in Seq(T) /\ b \in Seq(T)
            BY <4>2
          <6> HIDE DEF a, b
          <6>2. /\ \A h \in 1..Len(a) : h \in 1..Len(a \o b) /\ (a \o b)[h] = a[h]
                /\ \A h \in 1..Len(b) : /\ Len(a) + h \in 1..Len(a \o b)
                                        /\ (a \o b)[Len(a) + h] = b[h]
            BY <6>1, ConcatAt, SMTT(30)
          <6> QED
            BY <6>2 DEF a, b
        <5> HIDE DEF c
        <5>2. f[n] = c
          BY <4>3 DEF c
        <5> QED
          BY <5>1, <5>2, Zenon
      <4>5. CASE i = n
        <5>1. places[i - 1] = Len(f[m])
          BY <4>1, <4>5, <1>6
        <5>2. j \in 1..Len(s[n])
          BY <4>5
        <5> QED
          BY <5>1, <5>2, <4>4, <4>5, Zenon
      <4>6. CASE i # n
        <5>1. i \in 1..m
          BY <4>6, <3>1
        <5>2. k \in 1..Len(f[m]) /\ f[m][k] = s[i][j]
          BY <5>1, <4>1, <2>2
        <5> HIDE DEF k
        <5>3. k \in 1..Len(f[n]) /\ f[n][k] = s[i][j]
          BY <5>2, <4>4, Zenon
        <5> QED
          BY <5>3 DEF k
      <4> QED
        BY <4>5, <4>6
    <3> QED
      BY <3>3, <3>4
  <2> HIDE DEF S
  <2> QED
    BY <2>1, <2>2, SetInduction
<1>8. /\ FlattenSeq(s) \in Seq(T)
      /\ Len(FlattenSeq(s)) = places[Len(s)]
  BY <1>1, <1>2, <1>4, <1>6
<1>9. \A i \in 1..Len(s) : \A j \in 1..Len(s[i]) :
        /\ places[i - 1] + j \in 1..Len(FlattenSeq(s))
        /\ FlattenSeq(s)[places[i - 1] + j] = s[i][j]
  <2>1. Len(s) \in S
    BY <1>1, <1>7, Zenon
  <2> QED
    BY <2>1, <1>1, <1>2
<1> QED
  BY <1>5, <1>8, <1>9 DEF FoundAt

(* Pieces of one size follow each other at multiples of it.                    *)
InRows(joined, s, n, b) ==
  /\ Len(joined) = n * b
  /\ \A i \in 1..n : \A j \in 1..b : joined[(i - 1) * b + j] = s[i][j]

LEMMA FlattenUniform ==
  ASSUME NEW T, NEW n \in Nat \ {0}, NEW b \in Nat \ {0},
         NEW s \in [1..n -> Seq(T)], \A i \in 1..n : Len(s[i]) = b
  PROVE  FlattenSeq(s) \in Seq(T) /\ InRows(FlattenSeq(s), s, n, b)
<1>1. s \in Seq(Seq(T)) /\ Len(s) = n /\ s # <<>>
  <2>1. s \in Seq(Seq(T))
    BY SeqDef
  <2>2. DOMAIN s = 1..Len(s) /\ Len(s) \in Nat /\ DOMAIN s = 1..n
    BY <2>1, LenProperties
  <2>3. Len(s) = n
    BY <2>2
  <2> QED
    BY <2>1, <2>3, EmptySeq
<1>a. /\ FlattenSeq(s) \in Seq(T)
      /\ \E places : Places(s, places) /\ FoundAt(s, FlattenSeq(s), places)
  BY <1>1, FlattenPlaces
<1>2. PICK places : Places(s, places) /\ FoundAt(s, FlattenSeq(s), places)
  BY <1>a
<1> DEFINE S == {m \in Nat : m <= n => places[m] = m * b}
<1>3. \A m \in Nat : m \in S
  <2>1. 0 \in S
    BY <1>2 DEF Places
  <2>2. ASSUME NEW m \in Nat, m \in S PROVE m + 1 \in S
    <3> SUFFICES ASSUME NEW k \in 1..n, k = m + 1 PROVE places[k] = k * b
      OBVIOUS
    <3>1. places[k] = places[k - 1] + Len(s[k])
      BY <1>1, <1>2, Zenon DEF Places
    <3>2. k - 1 = m /\ m <= n
      OBVIOUS
    <3>3. places[m] = m * b
      BY <2>2, <3>2
    <3>4. places[k] = m * b + b
      BY <3>1, <3>2, <3>3
    <3> QED
      BY <3>4, SMT
  <2> HIDE DEF S
  <2> QED
    BY <2>1, <2>2, SetInduction
<1>4. \A i \in 1..n : places[i] = i * b /\ places[i - 1] = (i - 1) * b
  <2> TAKE i \in 1..n
  <2>1. i \in Nat /\ i - 1 \in Nat /\ i <= n /\ i - 1 <= n
    OBVIOUS
  <2>2. i \in S /\ i - 1 \in S
    BY <2>1, <1>3, Zenon
  <2> QED
    BY <2>1, <2>2
<1>5. Len(FlattenSeq(s)) = n * b
  <2>1. n \in 1..n
    OBVIOUS
  <2> QED
    BY <2>1, <1>1, <1>2, <1>4, Zenon DEF FoundAt
<1>6. ASSUME NEW i \in 1..n, NEW j \in 1..b
      PROVE  FlattenSeq(s)[(i - 1) * b + j] = s[i][j]
  <2>1. i \in 1..Len(s) /\ j \in 1..Len(s[i])
    BY <1>1
  <2> QED
    BY <2>1, <1>2, <1>4, Zenon DEF FoundAt
<1> QED
  BY <1>a, <1>5, <1>6 DEF InRows

---------------------------------------------------------------------------------
(* What a recursive definition over 0..N computes: z, and then one step after  *)
(* the other.                                                                  *)

LEMMA RangeInduction ==
  ASSUME NEW N \in Nat, NEW S, 0 \in S,
         \A n \in 1..N : n - 1 \in S => n \in S
  PROVE  \A n \in 0..N : n \in S
<1> DEFINE T == {n \in Nat : n <= N => n \in S}
<1>1. 0 \in T
  OBVIOUS
<1>2. ASSUME NEW n \in Nat, n \in T PROVE n + 1 \in T
  <2> SUFFICES ASSUME NEW m \in 1..N, m = n + 1 PROVE m \in S
    OBVIOUS
  <2>1. m - 1 = n /\ n <= N
    OBVIOUS
  <2> QED
    BY <1>2, <2>1
<1>3. \A n \in Nat : n \in T
  <2> HIDE DEF T
  <2> QED
    BY <1>1, <1>2, SetInduction
<1> QED
  BY <1>3

Stepwise(f, N, z, g) ==
  f = [i \in 0..N |-> IF i = 0 THEN z ELSE g[i][f[i - 1]]]

Follows(f, N, z, g) == f[0] = z /\ \A i \in 1..N : f[i] = g[i][f[i - 1]]

LEMMA StepwiseIs ==
  ASSUME NEW N \in Nat, NEW f, NEW z, NEW g, Stepwise(f, N, z, g)
  PROVE  Follows(f, N, z, g)
<1>1. \A i \in 0..N : f[i] = IF i = 0 THEN z ELSE g[i][f[i - 1]]
  BY Zenon DEF Stepwise
<1>2. 0 \in 0..N /\ \A i \in 1..N : i \in 0..N /\ i # 0
  OBVIOUS
<1> QED
  BY <1>1, <1>2, Zenon DEF Follows

LEMMA StepwiseExists ==
  ASSUME NEW D, NEW z \in D, NEW N \in Nat, NEW g,
         \A i \in 1..N : \A x \in D : g[i][x] \in D
  PROVE  \E f \in [0..N -> D] : Stepwise(f, N, z, g)
<1> DEFINE S == {n \in Nat : \E f \in [0..n -> D] : Stepwise(f, n, z, g)}
<1>1. 0 \in S
  <2> DEFINE f == [i \in 0..0 |-> z]
  <2>1. f \in [0..0 -> D]
    OBVIOUS
  <2>2. f = [i \in 0..0 |-> IF i = 0 THEN z ELSE g[i][f[i - 1]]]
    OBVIOUS
  <2> QED
    BY <2>1, <2>2 DEF Stepwise
<1>2. ASSUME NEW n \in 1..N, n - 1 \in S PROVE n \in S
  <2>0. PICK m \in Nat : m = n - 1
    OBVIOUS
  <2>1. PICK f \in [0..m -> D] : Stepwise(f, m, z, g)
    BY <1>2, <2>0
  <2>2. f[m] \in D /\ n \in 1..N /\ g[n][f[m]] \in D
    BY <2>0, <2>1
  <2> DEFINE last == g[n][f[m]]
             h == [i \in 0..n |-> IF i = n THEN last ELSE f[i]]
  <2>3. h \in [0..n -> D]
    <3> HIDE DEF last
    <3>1. \A i \in 0..n : i # n => i \in 0..m
      BY <2>0
    <3> QED
      BY <2>2, <3>1 DEF last
  <2>4. ASSUME NEW i \in 0..n
        PROVE  h[i] = IF i = 0 THEN z ELSE g[i][h[i - 1]]
    <3>1. CASE i = n
      <4>1. i # 0 /\ i - 1 = m /\ m \in 0..n /\ m # n
        BY <2>0, <3>1
      <4>2. h[i - 1] = f[m] /\ h[i] = last
        BY <3>1, <4>1
      <4> HIDE DEF h
      <4> QED
        BY <3>1, <4>1, <4>2
    <3>2. CASE i # n
      <4>1. i \in 0..m
        BY <2>0, <3>2
      <4>2. h[i] = f[i] /\ (i # 0 => h[i - 1] = f[i - 1])
        <5> HIDE DEF last
        <5>1. i # 0 => i - 1 \in 0..n /\ i - 1 # n
          OBVIOUS
        <5> QED
          BY <3>2, <5>1
      <4>3. f[i] = IF i = 0 THEN z ELSE g[i][f[i - 1]]
        BY <2>1, <4>1 DEF Stepwise
      <4> HIDE DEF h
      <4> QED
        BY <4>2, <4>3
    <3> QED
      BY <3>1, <3>2
  <2> HIDE DEF h
  <2>5. Stepwise(h, n, z, g)
    BY <2>3, <2>4 DEF Stepwise
  <2> QED
    BY <2>3, <2>5
<1>3. \A n \in 0..N : n \in S
  <2> HIDE DEF S
  <2> QED
    BY <1>1, <1>2, RangeInduction
<1> QED
  BY <1>3

LEMMA StepwiseAgree ==
  ASSUME NEW M \in Nat, NEW N \in Nat, NEW z, NEW g, NEW f, NEW h,
         Follows(f, M, z, g), Follows(h, N, z, g), M <= N
  PROVE  \A i \in 0..M : f[i] = h[i]
<1> DEFINE S == {i \in 0..M : f[i] = h[i]}
<1>1. 0 \in S
  BY DEF Follows
<1>2. ASSUME NEW i \in 1..M, i - 1 \in S PROVE i \in S
  <2>1. f[i - 1] = h[i - 1] /\ i \in 1..N
    BY <1>2
  <2>2. f[i] = g[i][f[i - 1]] /\ h[i] = g[i][h[i - 1]]
    BY <2>1 DEF Follows
  <2> QED
    BY <2>1, <2>2
<1>3. \A i \in 0..M : i \in S
  <2> HIDE DEF S
  <2> QED
    BY <1>1, <1>2, RangeInduction
<1> QED
  BY <1>3

(* The powers of the base.                                                     *)
LEMMA PowersAre ==
  ASSUME NEW base \in Nat \ {0}
  PROVE  /\ Powers(base)[0] = 1
         /\ \A n \in Nat : /\ Powers(base)[n] \in Nat \ {0}
                           /\ Powers(base)[n + 1] = base * Powers(base)[n]
<1> DEFINE D == Nat \ {0}
           R(p) == p = [n \in Nat |-> IF n = 0 THEN 1 ELSE base * p[n - 1]]
           g == [n \in Nat |-> [x \in D |-> base * x]]
           Up(n, f) == f \in [0..n -> D] /\ Stepwise(f, n, 1, g)
           F(n) == CHOOSE f : Up(n, f)
           P == [n \in Nat |-> F(n)[n]]
<1>0. base \in Nat \ {0}
  OBVIOUS
<1>g. ASSUME NEW n \in Nat, NEW x \in D
      PROVE  g[n][x] = base * x /\ g[n][x] \in D
  <2>1. g[n][x] = base * x
    OBVIOUS
  <2>2. base * x \in Nat \ {0}
    BY <1>0, SMT
  <2> QED
    BY <2>1, <2>2
<1> HIDE DEF g
<1>1. ASSUME NEW n \in Nat PROVE Up(n, F(n))
  <2>1. 1 \in D /\ \A i \in 1..n : \A x \in D : g[i][x] \in D
    BY <1>g
  <2> HIDE DEF D
  <2>2. \E f \in [0..n -> D] : Stepwise(f, n, 1, g)
    BY <2>1, StepwiseExists, Zenon
  <2>3. \E f : Up(n, f)
    BY <2>2
  <2> HIDE DEF Up
  <2> QED
    BY <2>3
<1>2. ASSUME NEW n \in Nat
      PROVE /\ P[n] \in D /\ F(n)[0] = 1
            /\ P[n + 1] = base * P[n]
  <2>0. n + 1 \in Nat
    OBVIOUS
  <2> DEFINE a == F(n)
             b == F(n + 1)
  <2>1. Up(n, a) /\ Up(n + 1, b)
    BY <1>1, <2>0
  <2> HIDE DEF F
  <2>p. P[n] = a[n] /\ P[n + 1] = b[n + 1]
    BY <2>0
  <2> HIDE DEF a, b
  <2>2. a[n] \in D /\ b[n] \in D
    BY <2>1
  <2>3. Follows(a, n, 1, g) /\ Follows(b, n + 1, 1, g)
    <3>1. Stepwise(a, n, 1, g) /\ Stepwise(b, n + 1, 1, g)
      BY <2>1
    <3> QED
      BY <2>0, <3>1, StepwiseIs
  <2>6. \A i \in 0..n : a[i] = b[i]
    <3>1. n <= n + 1
      OBVIOUS
    <3> QED
      BY <2>0, <2>3, <3>1, StepwiseAgree
  <2>7. b[n + 1] = base * b[n]
    <3>1. PICK k \in 1..(n + 1) : k = n + 1 /\ k - 1 = n
      OBVIOUS
    <3>2. b[k] = g[k][b[n]]
      BY <2>3, <3>1, Zenon DEF Follows
    <3>3. k \in Nat
      OBVIOUS
    <3> QED
      BY <3>1, <3>2, <3>3, <2>2, <1>g, Zenon
  <2> HIDE DEF P
  <2> QED
    BY <2>p, <2>2, <2>3, <2>6, <2>7 DEF a, Follows
<1>3. P[0] = 1
  BY <1>2
<1> HIDE DEF F
<1>4. DOMAIN P = Nat /\ P = [n \in Nat |-> P[n]]
  OBVIOUS
<1> HIDE DEF P
<1>5. R(P)
  <2>1. ASSUME NEW n \in Nat
        PROVE  P[n] = IF n = 0 THEN 1 ELSE base * P[n - 1]
    <3>1. CASE n = 0
      BY <3>1, <1>3
    <3>2. CASE n # 0
      <4>1. PICK m \in Nat : m = n - 1 /\ n = m + 1
        BY <3>2
      <4>2. P[m + 1] = base * P[m]
        BY <1>2
      <4> QED
        BY <3>2, <4>1, <4>2
    <3> QED
      BY <3>1, <3>2
  <2> QED
    BY <1>4, <2>1
<1> DEFINE Q == CHOOSE p : R(p)
<1>6. Powers(base) = Q
  BY DEF Powers
<1>7. R(Q)
  BY <1>5
<1> HIDE DEF Q
<1>8. \A n \in Nat : Q[n] = IF n = 0 THEN 1 ELSE base * Q[n - 1]
  BY <1>7
<1>9. Q[0] = 1 /\ \A n \in Nat : Q[n + 1] = base * Q[n]
  <2>1. ASSUME NEW n \in Nat PROVE Q[n + 1] = base * Q[n]
    <3>1. PICK m \in Nat : m = n + 1 /\ m # 0 /\ m - 1 = n
      OBVIOUS
    <3>2. Q[m] = base * Q[m - 1]
      BY <3>1, <1>8
    <3> QED
      BY <3>1, <3>2
  <2> QED
    BY <2>1, <1>8
<1>10. \A n \in Nat : Q[n] \in D
  <2> DEFINE S == {n \in Nat : Q[n] \in D}
  <2>1. 0 \in S
    BY <1>9
  <2>2. ASSUME NEW n \in Nat, n \in S PROVE n + 1 \in S
    <3>1. Q[n] \in Nat \ {0} /\ Q[n + 1] = base * Q[n]
      BY <1>9, <2>2
    <3>2. base * Q[n] \in Nat \ {0}
      BY <1>0, <3>1, SMT
    <3> QED
      BY <3>1, <3>2
  <2>3. \A n \in Nat : n \in S
    <3> HIDE DEF S
    <3> QED
      BY <2>1, <2>2, SetInduction
  <2> QED
    BY <2>3
<1> QED
  BY <1>6, <1>9, <1>10

---------------------------------------------------------------------------------
(* Pieces laid one after the other.                                            *)

Sums(ends, sizes) ==
  /\ ends \in [0..Len(sizes) -> Nat]
  /\ ends[0] = 0
  /\ \A i \in 1..Len(sizes) : ends[i] = ends[i - 1] + sizes[i]

LEMMA EndsAre ==
  ASSUME NEW sizes \in Seq(Nat)
  PROVE  Sums(Ends(sizes), sizes)
<1> DEFINE N == Len(sizes)
           R(h) == h = [i \in 0..N |-> IF i = 0 THEN 0 ELSE h[i - 1] + sizes[i]]
           F == CHOOSE h : R(h)
           g == [i \in 1..N |-> [x \in Nat |-> x + sizes[i]]]
<1>1. N \in Nat /\ \A i \in 1..N : sizes[i] \in Nat
  BY LenProperties, ElementOfSeq
<1> HIDE DEF N
<1>2. Ends(sizes) = F
  BY DEF Ends, N
<1>3. \A i \in 1..N : \A x \in Nat :
        g[i][x] = x + sizes[i] /\ g[i][x] \in Nat
  <2> SUFFICES ASSUME NEW i \in 1..N, NEW x \in Nat
               PROVE  g[i][x] = x + sizes[i] /\ g[i][x] \in Nat
    OBVIOUS
  <2>1. g[i][x] = x + sizes[i]
    OBVIOUS
  <2> HIDE DEF g
  <2> QED
    BY <1>1, <2>1
<1> HIDE DEF g
<1>4. PICK f \in [0..N -> Nat] : Stepwise(f, N, 0, g)
  <2>1. \A i \in 1..N : \A x \in Nat : g[i][x] \in Nat
    BY <1>3
  <2>2. 0 \in Nat
    OBVIOUS
  <2> QED
    BY <1>1, <2>1, <2>2, StepwiseExists
<1>5. Follows(f, N, 0, g)
  BY <1>1, <1>4, StepwiseIs
<1>6. R(f)
  <2>1. ASSUME NEW i \in 0..N
        PROVE  f[i] = IF i = 0 THEN 0 ELSE f[i - 1] + sizes[i]
    <3>1. CASE i = 0
      BY <3>1, <1>5 DEF Follows
    <3>2. CASE i # 0
      <4>1. i \in 1..N /\ i - 1 \in 0..N
        BY <3>2, <1>1
      <4>2. f[i] = g[i][f[i - 1]] /\ f[i - 1] \in Nat
        BY <4>1, <1>4, <1>5 DEF Follows
      <4> QED
        BY <3>2, <4>1, <4>2, <1>3
    <3> QED
      BY <3>1, <3>2
  <2> QED
    BY <1>4, <2>1
<1>7. R(F)
  BY <1>6
<1> HIDE DEF F
<1>8. /\ DOMAIN F = 0..N /\ F[0] = 0
      /\ \A i \in 1..N : F[i] = F[i - 1] + sizes[i]
  <2>1. \A i \in 0..N : F[i] = IF i = 0 THEN 0 ELSE F[i - 1] + sizes[i]
    BY <1>7, Zenon
  <2>2. 0 \in 0..N /\ \A i \in 1..N : i \in 0..N /\ i # 0
    BY <1>1
  <2> QED
    BY <1>7, <2>1, <2>2, Zenon
<1>9. \A i \in 0..N : F[i] \in Nat
  <2> DEFINE S == {i \in 0..N : F[i] \in Nat}
  <2>1. 0 \in S
    BY <1>1, <1>8
  <2>2. ASSUME NEW i \in 1..N, i - 1 \in S PROVE i \in S
    <3>1. F[i] = F[i - 1] + sizes[i] /\ F[i - 1] \in Nat /\ sizes[i] \in Nat
      BY <1>1, <1>8, <2>2
    <3> QED
      BY <3>1
  <2>3. \A i \in 0..N : i \in S
    <3> HIDE DEF S
    <3> QED
      BY <1>1, <2>1, <2>2, RangeInduction
  <2> QED
    BY <2>3
<1>10. F \in [0..N -> Nat]
  <2>1. F = [i \in 0..N |-> F[i]]
    BY <1>7, Zenon
  <2> QED
    BY <1>9, <2>1
<1> QED
  BY <1>2, <1>8, <1>10 DEF Sums, N

SumsAlike(a, s, b, t, n) == \A i \in 0..n : a[i] = b[i]

LEMMA SumsAgree ==
  ASSUME NEW s, NEW t, NEW n \in Nat, NEW a, NEW b,
         Len(s) \in Nat, Len(t) \in Nat,
         Sums(a, s), Sums(b, t), n <= Len(s), n <= Len(t),
         \A i \in 1..n : s[i] = t[i]
  PROVE  SumsAlike(a, s, b, t, n)
<1> DEFINE S == {i \in 0..n : a[i] = b[i]}
<1>1. 0 \in S
  BY DEF Sums
<1>2. ASSUME NEW i \in 1..n, i - 1 \in S PROVE i \in S
  <2>1. /\ a[i - 1] = b[i - 1] /\ i \in 1..Len(s) /\ i \in 1..Len(t)
        /\ s[i] = t[i]
    BY <1>2
  <2>2. a[i] = a[i - 1] + s[i] /\ b[i] = b[i - 1] + t[i]
    BY <2>1 DEF Sums
  <2> QED
    BY <2>1, <2>2
<1>3. \A i \in 0..n : i \in S
  <2> HIDE DEF S
  <2> QED
    BY <1>1, <1>2, RangeInduction
<1> QED
  BY <1>3 DEF SumsAlike

LEMMA TotalIs ==
  ASSUME NEW sizes \in Seq(Nat)
  PROVE  /\ Total(sizes) \in Nat
         /\ \A i \in 1..Len(sizes) : /\ Ends(sizes)[i - 1] \in Nat
                                     /\ Ends(sizes)[i] \in Nat
                                     /\ Ends(sizes)[i] <= Total(sizes)
<1> DEFINE N == Len(sizes)
           e == Ends(sizes)
<1>1. N \in Nat /\ \A i \in 1..N : sizes[i] \in Nat
  BY LenProperties, ElementOfSeq
<1>2. Sums(e, sizes)
  BY EndsAre
<1> HIDE DEF e
<1>3. e \in [0..N -> Nat] /\ \A i \in 1..N : e[i] = e[i - 1] + sizes[i]
  BY <1>2 DEF Sums
<1> HIDE DEF N
<1> DEFINE S == {n \in 0..N : \A i \in 0..n : e[i] <= e[n]}
<1>4. 0 \in S
  BY <1>1, <1>3
<1>5. ASSUME NEW n \in 1..N, n - 1 \in S PROVE n \in S
  <2> SUFFICES ASSUME NEW i \in 0..n PROVE e[i] <= e[n]
    OBVIOUS
  <2>1. e[n] = e[n - 1] + sizes[n] /\ sizes[n] \in Nat /\ e[n - 1] \in Nat
    BY <1>1, <1>3
  <2>2. CASE i = n
    BY <2>1, <2>2
  <2>3. CASE i # n
    <3>1. i \in 0..(n - 1) /\ i \in 0..N
      BY <1>1, <2>3
    <3>2. e[i] <= e[n - 1] /\ e[i] \in Nat
      BY <1>5, <3>1, <1>3
    <3> QED
      BY <2>1, <3>2
  <2> QED
    BY <2>2, <2>3
<1>6. \A n \in 0..N : n \in S
  <2> HIDE DEF S
  <2> QED
    BY <1>1, <1>4, <1>5, RangeInduction
<1>7. \A i \in 0..N : e[i] <= e[N] /\ e[N] \in Nat
  <2>1. N \in S
    BY <1>1, <1>6
  <2> QED
    BY <2>1, <1>3
<1>8. \A i \in 1..N : i \in 0..N /\ i - 1 \in 0..N
  BY <1>1
<1>9. e[N] \in Nat
  BY <1>1, <1>3
<1> QED
  BY <1>3, <1>7, <1>8, <1>9 DEF Total, e, N

LEMMA TotalConcat ==
  ASSUME NEW s \in Seq(Nat), NEW t \in Seq(Nat)
  PROVE  Total(s \o t) = Total(s) + Total(t)
<1> DEFINE m == Len(s)
           n == Len(t)
           c == s \o t
           a == Ends(s)
           b == Ends(t)
           e == Ends(c)
<1>1. /\ m \in Nat /\ n \in Nat /\ c \in Seq(Nat) /\ Len(c) = m + n
      /\ \A k \in 1..m : c[k] = s[k]
      /\ \A k \in 1..n : c[m + k] = t[k]
  BY ConcatAt, LenProperties
<1>2. Sums(a, s) /\ Sums(b, t) /\ Sums(e, c)
  BY <1>1, EndsAre
<1>t. Total(s) = a[m] /\ Total(t) = b[n] /\ Total(c) = e[m + n]
  BY <1>1 DEF Total
<1>3. \A i \in 1..n : t[i] \in Nat
  BY ElementOfSeq, LenProperties
<1> HIDE DEF a, b, c, e
<1>4. \A i \in 0..m : e[i] = a[i]
  <2>1. m <= Len(s) /\ m <= Len(c) /\ Len(s) \in Nat /\ Len(c) \in Nat
    BY <1>1
  <2> QED
    <3> HIDE DEF m
    <3>1. SumsAlike(e, c, a, s, m)
      BY <1>1, <1>2, <2>1, SumsAgree
    <3> QED
      BY <3>1 DEF SumsAlike
<1>5. /\ a \in [0..m -> Nat] /\ b \in [0..n -> Nat] /\ e \in [0..(m + n) -> Nat]
      /\ b[0] = 0
      /\ \A i \in 1..n : b[i] = b[i - 1] + t[i]
      /\ \A i \in 1..(m + n) : e[i] = e[i - 1] + c[i]
  BY <1>1, <1>2 DEF Sums
<1> HIDE DEF m, n
<1> DEFINE S == {i \in 0..n : e[m + i] = a[m] + b[i]}
<1>6. 0 \in S
  BY <1>1, <1>4, <1>5
<1>7. ASSUME NEW i \in 1..n, i - 1 \in S PROVE i \in S
  <2>1. PICK k \in 1..(m + n) : k = m + i
    <3>1. m \in Nat /\ n \in Nat
      BY <1>1
    <3>2. m + i \in 1..(m + n)
      BY <3>1
    <3> QED
      BY <3>2
  <2>2. e[k] = e[k - 1] + c[k] /\ b[i] = b[i - 1] + t[i] /\ c[k] = t[i]
    BY <1>1, <1>5, <2>1
  <2>3. k - 1 = m + (i - 1) /\ e[m + (i - 1)] = a[m] + b[i - 1]
    BY <1>1, <1>7, <2>1
  <2>4. a[m] \in Nat /\ b[i - 1] \in Nat /\ t[i] \in Nat
    <3>1. m \in 0..m /\ i - 1 \in 0..n
      BY <1>1
    <3> QED
      BY <3>1, <1>3, <1>5
  <2>5. e[k] = (a[m] + b[i - 1]) + t[i]
    BY <2>1, <2>2, <2>3
  <2>6. (a[m] + b[i - 1]) + t[i] = a[m] + (b[i - 1] + t[i])
    <3>1. \A x, y, z \in Nat : (x + y) + z = x + (y + z)
      OBVIOUS
    <3> QED
      BY <2>4, <3>1, Zenon
  <2> QED
    BY <2>1, <2>2, <2>5, <2>6
<1>8. \A i \in 0..n : i \in S
  <2> HIDE DEF S
  <2> QED
    BY <1>1, <1>6, <1>7, RangeInduction
<1>9. e[m + n] = a[m] + b[n]
  <2>1. n \in S
    BY <1>1, <1>8
  <2> QED
    BY <2>1
<1> QED
  BY <1>t, <1>9 DEF c

LEMMA TotalOne ==
  ASSUME NEW x \in Nat
  PROVE  Total(<<x>>) = x
<1>1. <<x>> \in Seq(Nat) /\ Len(<<x>>) = 1 /\ <<x>>[1] = x
  OBVIOUS
<1>2. Sums(Ends(<<x>>), <<x>>)
  BY <1>1, EndsAre
<1> DEFINE s == <<x>>
           e == Ends(s)
<1>3. Len(s) = 1 /\ s[1] = x /\ Sums(e, s) /\ Total(s) = e[1]
  BY <1>1, <1>2 DEF Total
<1> HIDE DEF s, e
<1>4. e[1] = e[1 - 1] + x /\ e[0] = 0
  <2>1. 1 \in 1..Len(s)
    BY <1>3
  <2> QED
    BY <2>1, <1>3 DEF Sums
<1>5. Total(s) = x
  BY <1>3, <1>4
<1> QED
  BY <1>5 DEF s

LEMMA TotalAppend ==
  ASSUME NEW s \in Seq(Nat), NEW x \in Nat
  PROVE  Total(Append(s, x)) = Total(s) + x
<1>1. <<x>> \in Seq(Nat) /\ Append(s, x) = s \o <<x>>
  BY AppendIsConcat
<1> QED
  BY <1>1, TotalConcat, TotalOne

(* Pieces of given sizes, joined, lie at the ends of those before them.        *)
LaidOut(T, joined, s, sizes) ==
  /\ joined \in Seq(T)
  /\ Len(joined) = Total(sizes)
  /\ \A i \in 1..Len(sizes) : \A j \in 1..sizes[i] :
       joined[Ends(sizes)[i - 1] + j] = s[i][j]

LEMMA PiecesLie ==
  ASSUME NEW T, NEW sizes \in Seq(Nat), NEW w \in [1..Len(sizes) -> Seq(T)],
         \A i \in 1..Len(sizes) : Len(w[i]) = sizes[i]
  PROVE  LaidOut(T, FlattenSeq(w), w, sizes)
<1> DEFINE N == Len(sizes)
           s == FlattenSeq(w)
           ends == Ends(sizes)
<1>1. N \in Nat
  BY LenProperties
<1>7. Sums(ends, sizes) /\ Total(sizes) = ends[N]
  BY EndsAre DEF Total
<1>a. w \in [1..N -> Seq(T)] /\ \A i \in 1..N : Len(w[i]) = sizes[i]
  OBVIOUS
<1>b. /\ ends[0] = 0 /\ \A i \in 1..N : ends[i] = ends[i - 1] + sizes[i]
      /\ ends \in [0..N -> Nat]
  BY <1>7 DEF Sums
<1> HIDE DEF N, ends
<1>5. w \in Seq(Seq(T)) /\ Len(w) = N
  <2>1. w \in Seq(Seq(T))
    BY <1>1, <1>a, SeqDef
  <2>2. DOMAIN w = 1..Len(w) /\ Len(w) \in Nat /\ DOMAIN w = 1..N
    BY <1>a, <2>1, LenProperties
  <2> QED
    BY <1>1, <2>1, <2>2
<1>9. CASE w = <<>>
  <2>1. N = 0 /\ s = <<>>
    <3>1. Len(<<>>) = 0
      OBVIOUS
    <3>2. FlattenSeq(<<>>) = <<>>
      BY <3>1 DEF FlattenSeq
    <3> QED
      BY <1>9, <1>5, <3>1, <3>2
  <2>2. Total(sizes) = 0
    BY <1>7, <1>b, <2>1
  <2>3. s \in Seq(T) /\ Len(s) = 0
    BY <2>1, EmptySeq
  <2>4. \A i \in 1..N : FALSE
    BY <2>1
  <2> QED
    BY <2>2, <2>3, <2>4 DEF LaidOut, N
<1>10. CASE w # <<>>
  <2>1. /\ s \in Seq(T)
        /\ \E places : Places(w, places) /\ FoundAt(w, s, places)
    BY <1>5, <1>10, FlattenPlaces
  <2>2. PICK places : Places(w, places) /\ FoundAt(w, s, places)
    BY <2>1
  <2> DEFINE S == {i \in 0..N : places[i] = ends[i]}
  <2>3. 0 \in S
    BY <1>1, <1>b, <2>2 DEF Places
  <2>4. ASSUME NEW i \in 1..N, i - 1 \in S PROVE i \in S
    <3>1. places[i] = places[i - 1] + Len(w[i])
      BY <1>5, <2>2 DEF Places
    <3>2. ends[i] = ends[i - 1] + sizes[i]
      BY <1>b
    <3>3. i \in 0..N
      BY <1>1
    <3> QED
      BY <3>1, <3>2, <3>3, <2>4, <1>a
  <2>5. \A i \in 0..N : i \in S
    <3> HIDE DEF S
    <3> QED
      BY <1>1, <2>3, <2>4, RangeInduction
  <2>6. Len(s) = ends[N]
    <3>1. N \in S
      BY <1>1, <2>5
    <3> QED
      BY <3>1, <1>5, <2>2 DEF FoundAt
  <2>7. ASSUME NEW i \in 1..N, NEW j \in 1..sizes[i]
        PROVE  s[ends[i - 1] + j] = w[i][j]
    <3>1. places[i - 1] = ends[i - 1]
      <4>1. i - 1 \in S
        BY <1>1, <2>5
      <4> QED
        BY <4>1
    <3>2. Len(w[i]) = sizes[i]
      BY <1>a
    <3>3. s[places[i - 1] + j] = w[i][j]
      BY <1>5, <2>2, <3>2, Zenon DEF FoundAt
    <3> QED
      BY <3>1, <3>3
  <2> HIDE DEF s
  <2> QED
    BY <1>7, <2>1, <2>6, <2>7 DEF LaidOut, N, ends, s
<1> QED
  BY <1>9, <1>10

---------------------------------------------------------------------------------
(* Numbers as cells.                                                           *)

LEMMA Remainder ==
  ASSUME NEW a \in Nat, NEW n \in Nat \ {0}
  PROVE  a % n \in 0..(n - 1) /\ a = n * (a \div n) + (a % n)
BY SMT

LEMMA QuotientIs ==
  ASSUME NEW a \in Nat, NEW n \in Nat \ {0}, NEW q \in Nat,
         n * q <= a, a < n * q + n
  PROVE  a \div n = q
<1> DEFINE d == a \div n
<1>1. d \in Nat /\ n * d <= a /\ a < n * d + n
  BY Quotient
<1> HIDE DEF d
<1>2. ASSUME NEW x \in Nat, NEW y \in Nat, x < y, n * y <= a, a < n * x + n
      PROVE  FALSE
  <2>1. x + 1 <= y
    BY <1>2
  <2>2. n * (x + 1) <= n * y
    BY <2>1, SMT
  <2>3. n * (x + 1) = n * x + n
    BY SMT
  <2> QED
    BY <1>2, <2>2, <2>3, SMT
<1>3. ~ (d < q) /\ ~ (q < d)
  BY <1>1, <1>2
<1>4. d = q
  BY <1>1, <1>3
<1> QED
  BY <1>4 DEF d

LEMMA QuotientTwice ==
  ASSUME NEW a \in Nat, NEW m \in Nat \ {0}, NEW n \in Nat \ {0}
  PROVE  m * n \in Nat \ {0} /\ a \div (m * n) = (a \div n) \div m
<1> DEFINE q == a \div n
           t == q \div m
<1>1. q \in Nat /\ n * q <= a /\ a < n * q + n
  BY Quotient
<1> HIDE DEF q
<1>2. t \in Nat /\ m * t <= q /\ q < m * t + m
  BY <1>1, Quotient
<1> HIDE DEF t
<1>3. m * n \in Nat \ {0}
  BY SMT
<1> DEFINE u == m * t
<1>4. u \in Nat /\ u <= q /\ q + 1 <= u + m
  <2>1. u \in Nat
    BY <1>2, SMT
  <2> HIDE DEF u
  <2> QED
    BY <2>1, <1>1, <1>2 DEF u
<1>5. n * u <= n * q /\ n * (q + 1) <= n * (u + m)
  <2> HIDE DEF u
  <2>1. \A x, y \in Nat : x <= y => n * x <= n * y
    BY SMT
  <2>2. q + 1 \in Nat /\ u + m \in Nat
    BY <1>1, <1>4
  <2> QED
    BY <2>1, <2>2, <1>1, <1>4
<1>6. n * u = (m * n) * t /\ n * (u + m) = (m * n) * t + m * n
  BY <1>2, SMT
<1>7. n * (q + 1) = n * q + n
  BY <1>1, SMT
<1> DEFINE p == m * n
           w == p * t
<1>8. w <= a /\ a < w + p
  <2>1. w = n * u /\ w + p = n * (u + m)
    BY <1>6
  <2>2. n * q \in Nat /\ n * u \in Nat /\ n * (u + m) \in Nat
    BY <1>1, <1>4, SMT
  <2> HIDE DEF u, w, p
  <2> QED
    BY <1>1, <1>5, <1>7, <2>1, <2>2
<1>9. a \div p = t
  <2> HIDE DEF p
  <2> QED
    BY <1>2, <1>3, <1>8, QuotientIs DEF p
<1> QED
  BY <1>3, <1>9 DEF q, t

(* A number is known from what is read of it after each cell.                  *)
LEMMA NumberIs ==
  ASSUME NEW base \in Nat, NEW cells \in Seq(Nat),
         NEW f \in [0..Len(cells) -> Nat], f[0] = 0,
         \A i \in 1..Len(cells) : f[i] = f[i - 1] * base + cells[i]
  PROVE  NumberOf(base, cells) = f[Len(cells)]
<1> DEFINE N == Len(cells)
           R(h) == h = [i \in 0..N |->
                          IF i = 0 THEN 0 ELSE h[i - 1] * base + cells[i]]
           F == CHOOSE h : R(h)
<1>1. NumberOf(base, cells) = F[N]
  BY DEF NumberOf
<1>0. N \in Nat /\ \A i \in 1..N : f[i] = f[i - 1] * base + cells[i]
  BY LenProperties
<1>d. DOMAIN f = 0..N /\ f = [i \in 0..N |-> f[i]]
  OBVIOUS
<1> HIDE DEF N
<1>2. R(f)
  <2>1. ASSUME NEW i \in 0..N
        PROVE  f[i] = IF i = 0 THEN 0 ELSE f[i - 1] * base + cells[i]
    <3>1. CASE i = 0
      BY <3>1
    <3>2. CASE i # 0
      <4>1. i \in 1..N
        BY <1>0, <3>2
      <4> QED
        BY <3>2, <4>1, <1>0, Zenon
    <3> QED
      BY <3>1, <3>2
  <2> QED
    BY <1>d, <2>1, Zenon
<1>3. R(F)
  BY <1>2
<1> HIDE DEF F
<1>4. \A i \in 0..N : F[i] = IF i = 0 THEN 0 ELSE F[i - 1] * base + cells[i]
  BY <1>3, Zenon
<1> DEFINE S == {i \in 0..N : F[i] = f[i]}
<1>5. 0 \in S
  <2>1. 0 \in 0..N
    BY <1>0
  <2> QED
    BY <2>1, <1>4, Zenon
<1>6. ASSUME NEW i \in 1..N, i - 1 \in S PROVE i \in S
  <2>1. i \in 0..N /\ i # 0
    BY <1>0
  <2>2. F[i] = F[i - 1] * base + cells[i] /\ F[i - 1] = f[i - 1]
    BY <2>1, <1>4, <1>6, Zenon
  <2>3. f[i] = f[i - 1] * base + cells[i]
    BY <1>0
  <2> QED
    BY <2>1, <2>2, <2>3, Zenon
<1>7. \A i \in 0..N : i \in S
  <2> HIDE DEF S
  <2> QED
    BY <1>0, <1>5, <1>6, RangeInduction
<1>8. N \in S
  BY <1>0, <1>7
<1> QED
  BY <1>1, <1>8 DEF N

(* What is written of a number in cells enough is read as that number.         *)
LEMMA DigitsToAre ==
  ASSUME NEW base \in Nat \ {0}, NEW v \in Nat, NEW size \in Nat
  PROVE  /\ DigitsTo(base, v, size) \in Seq((0..(base - 1)))
         /\ Len(DigitsTo(base, v, size)) = size
         /\ v < Powers(base)[size] => NumberOf(base, DigitsTo(base, v, size)) = v
<1> DEFINE d == DigitsTo(base, v, size)
           f == [i \in 0..size |-> v \div Powers(base)[size - i]]
<1>0. base \in Nat \ {0}
  OBVIOUS
<1>1. \A i \in 0..size : size - i \in Nat /\ Powers(base)[size - i] \in Nat \ {0}
  BY PowersAre
<1>2. ASSUME NEW i \in 0..size PROVE f[i] \in Nat
  <2>1. PICK p \in Nat \ {0} : p = Powers(base)[size - i]
    BY <1>1
  <2>2. v \div p \in Nat
    BY Quotient
  <2> QED
    BY <2>1, <2>2
<1>3. ASSUME NEW i \in 1..size PROVE d[i] = f[i] % base
  BY DEF DigitsTo
<1>4. d \in [1..size -> (0..(base - 1))]
  <2>1. ASSUME NEW i \in 1..size PROVE f[i] % base \in (0..(base - 1))
    <3>1. PICK x \in Nat : x = f[i]
      <4>1. i \in 0..size
        OBVIOUS
      <4> HIDE DEF f
      <4> QED
        BY <4>1, <1>2
    <3>2. x % base \in 0..(base - 1)
      BY <1>0, Remainder
    <3> QED
      BY <3>1, <3>2
  <2>2. d = [i \in 1..size |-> d[i]]
    BY DEF DigitsTo
  <2> HIDE DEF d, f
  <2> QED
    BY <1>3, <2>1, <2>2
<1>5. d \in Seq((0..(base - 1))) /\ Len(d) = size
  <2> HIDE DEF d
  <2>1. d \in Seq((0..(base - 1)))
    BY <1>4, SeqDef
  <2> QED
    BY <1>4, <2>1, LenProperties
<1>6. ASSUME NEW i \in 1..size PROVE f[i] = f[i - 1] * base + d[i]
  <2>1. PICK n \in Nat : n = size - i /\ size - (i - 1) = n + 1
    BY <1>1
  <2>2. Powers(base)[n] \in Nat \ {0} /\ Powers(base)[n + 1] = base * Powers(base)[n]
    BY PowersAre
  <2>3. PICK p \in Nat \ {0} : p = Powers(base)[n]
    BY <2>2
  <2>4. i \in 0..size /\ i - 1 \in 0..size
    OBVIOUS
  <2>5. f[i] = v \div p /\ f[i - 1] = v \div (base * p)
    BY <2>1, <2>2, <2>3, <2>4
  <2>6. v \div (base * p) = (v \div p) \div base
    BY <1>0, QuotientTwice
  <2>7. PICK x \in Nat : x = v \div p
    BY Quotient
  <2>8. x \div base \in Nat /\ x % base \in Nat /\ x = base * (x \div base) + (x % base)
    BY <1>0, Quotient, Remainder
  <2>9. x = (x \div base) * base + (x % base)
    BY <1>0, <2>8, SMT
  <2>10. f[i] = x /\ f[i - 1] = x \div base
    BY <2>5, <2>6, <2>7
  <2>11. d[i] = x % base
    BY <1>3, <2>10
  <2> HIDE DEF f, d
  <2> QED
    BY <2>9, <2>10, <2>11
<1>7. ASSUME v < Powers(base)[size] PROVE NumberOf(base, d) = v
  <2>1. f[0] = 0
    <3>1. PICK p \in Nat \ {0} : p = Powers(base)[size]
      BY PowersAre
    <3>2. v \div p = 0
      <4>1. p * 0 <= v /\ v < p * 0 + p
        BY <1>7, <3>1
      <4> QED
        BY <4>1, QuotientIs
    <3>3. size - 0 = size /\ 0 \in 0..size
      OBVIOUS
    <3> QED
      BY <3>1, <3>2, <3>3
  <2>2. f[size] = v
    <3>1. size - size = 0 /\ size \in 0..size /\ Powers(base)[0] = 1
      BY PowersAre
    <3>2. v \div 1 = v
      <4>1. 1 * v <= v /\ v < 1 * v + 1
        OBVIOUS
      <4> QED
        BY <4>1, QuotientIs
    <3> QED
      BY <3>1, <3>2
  <2>3. f \in [0..Len(d) -> Nat]
    BY <1>2, <1>5
  <2>4. \A i \in 1..Len(d) : f[i] = f[i - 1] * base + d[i]
    BY <1>5, <1>6
  <2> HIDE DEF d, f
  <2>5. d \in Seq(Nat)
    <3>1. d \in [1..size -> Nat]
      BY <1>4
    <3> QED
      BY <3>1, SeqDef
  <2>6. NumberOf(base, d) = f[Len(d)]
    BY <2>5, <2>1, <2>3, <2>4, NumberIs
  <2> QED
    BY <1>5, <2>2, <2>6
<1> QED
  BY <1>5, <1>7

(* The least of a set.                                                         *)
LEMMA LeastIs ==
  ASSUME NEW S, S \subseteq Nat, S # {}
  PROVE  Min(S) \in S /\ \A n \in S : Min(S) <= n
<1>1. SUFFICES ASSUME ~ \E z \in S : \A y \in S : z <= y PROVE FALSE
  BY DEF Min
<1> DEFINE T == {n \in Nat : \A m \in 0..n : m \notin S}
<1>2. 0 \in T
  <2>1. 0 \notin S
    BY <1>1
  <2> QED
    BY <2>1
<1>3. ASSUME NEW n \in Nat, n \in T PROVE n + 1 \in T
  <2>1. n + 1 \notin S
    <3> SUFFICES ASSUME n + 1 \in S PROVE FALSE
      OBVIOUS
    <3>1. \A y \in S : n + 1 <= y
      <4> TAKE y \in S
      <4>1. y \in Nat /\ y \notin 0..n
        BY <1>3
      <4> QED
        BY <4>1
    <3> QED
      BY <1>1, <3>1
  <2>2. \A m \in 0..(n + 1) : m = n + 1 \/ m \in 0..n
    OBVIOUS
  <2> QED
    BY <1>3, <2>1, <2>2
<1>4. \A n \in Nat : n \in T
  <2> HIDE DEF T
  <2> QED
    BY <1>2, <1>3, SetInduction
<1>5. PICK n \in S : n \in Nat
  OBVIOUS
<1> QED
  BY <1>4, <1>5

(* Every set of numbers that has a bound has a largest one.                    *)
LEMMA LargestOfBounded ==
  ASSUME NEW S \in SUBSET Nat, NEW b \in Nat, \A n \in S : n <= b, S # {}
  PROVE  \E n \in S : \A k \in S : k <= n
<1> DEFINE T == {b - n : n \in S}
<1>1. T \subseteq Nat /\ T # {}
  <2>1. \A n \in S : b - n \in Nat
    OBVIOUS
  <2> QED
    BY <2>1
<1>2. PICK m \in T : \A k \in T : ~ (<<k, m>> \in OpToRel(<, Nat))
  BY <1>1, NatLessThanWellFounded, WFMin
<1>3. PICK n \in S : m = b - n
  OBVIOUS
<1>4. ASSUME NEW k \in S PROVE k <= n
  <2>1. b - k \in T
    OBVIOUS
  <2>2. ~ (b - k < m)
    BY <1>1, <1>2, <2>1 DEF OpToRel
  <2> QED
    BY <2>2, <1>3
<1> QED
  BY <1>4

=================================================================================
