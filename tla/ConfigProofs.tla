----------------------------- MODULE ConfigProofs -----------------------------
(***************************************************************************)
(* Theorems about Config, for any names, types, documents and numbers of   *)
(* threads, variables and calls.                                           *)
(*                                                                         *)
(* The registry: it points at variables, a thread that works on a variable *)
(* has one, the readers of the registry's lock are exactly the threads     *)
(* inside Visit, its writer is exactly the thread that makes or prints a   *)
(* variable in a Lookup, and a name that a thread is about to insert is    *)
(* still absent.  Then what a load leaves in the variables, that what is   *)
(* printed reads back, and that no circle of threads waits for each        *)
(* other's locks.                                                          *)
(***************************************************************************)
EXTENDS Config, SequenceTheorems, FiniteSetTheorems, WellFoundedInduction, TLAPS

------------------------------------------------------------------------------
(***************************************************************************)
(* Sets of numbers, recursive functions, and sequences of sequences.       *)
(***************************************************************************)
\* A set of numbers has a least one.
LEMMA HasLeast ==
  ASSUME NEW S \in SUBSET Nat, S # {}
  PROVE  \E x \in S : \A y \in S : x <= y
<1> DEFINE R == OpToRel(<, Nat)
<1>1. IsWellFoundedOn(R, Nat)
  BY NatLessThanWellFounded
<1>2. \A a, b \in Nat : a < b => <<a, b>> \in R
  BY DEF OpToRel
<1> HIDE DEF R
<1>3. PICK x \in S : \A y \in S : ~ (<<y, x>> \in R)
  BY <1>1, WFMin
<1>4. ASSUME NEW y \in S PROVE x <= y
  <2>1. x \in Nat /\ y \in Nat /\ ~ (y < x)
    BY <1>2, <1>3
  <2>2. QED
    BY <2>1
<1>5. QED
  BY <1>4

\* Induction, for a set of numbers.
LEMMA NumberInduction ==
  ASSUME NEW S, 0 \in S, \A k \in Nat : k \in S => k + 1 \in S
  PROVE  Nat \subseteq S
<1> SUFFICES ASSUME Nat \ S # {}
             PROVE  FALSE
  OBVIOUS
<1>1. PICK x \in Nat \ S : \A y \in Nat \ S : x <= y
  BY HasLeast
<1>2. x # 0 /\ x - 1 \in Nat /\ ~ (x <= x - 1) /\ (x - 1) + 1 = x
  BY <1>1
<1>3. x - 1 \in S
  BY <1>1, <1>2
<1>4. QED
  BY <1>1, <1>2, <1>3

\* Induction, for a set of objects that have a rank.
LEMMA RankInduction ==
  ASSUME NEW D, NEW S, NEW rank \in [D -> Nat],
         \A x \in D : (\A y \in D : rank[y] < rank[x] => y \in S) => x \in S
  PROVE  D \subseteq S
<1> SUFFICES ASSUME D \ S # {}
             PROVE  FALSE
  OBVIOUS
<1> DEFINE ranks == {rank[x] : x \in D \ S}
<1>1. ranks \in SUBSET Nat /\ ranks # {}
  OBVIOUS
<1>2. PICK k \in ranks : \A j \in ranks : k <= j
  <2> HIDE DEF ranks
  <2>1. QED
    BY <1>1, HasLeast
<1>3. PICK x \in D \ S : k = rank[x]
  BY <1>2
<1>4. ASSUME NEW y \in D, rank[y] < rank[x]
      PROVE  y \in S
  <2>1. y \notin S => rank[x] <= rank[y]
    BY <1>2, <1>3
  <2>2. rank[x] \in Nat /\ rank[y] \in Nat
    BY <1>3
  <2>3. QED
    BY <1>4, <2>1, <2>2
<1>5. QED
  BY <1>3, <1>4

\* Two functions agree on what has a rank below k.
Agree(f, g, D, rank, k) == \A x \in D : rank[x] < k => f[x] = g[x]

\* What a recursive definition F of a function on D gives at x depends on what the
\* function has at lower ranks only.
Descends(F, D, R, rank) ==
  /\ rank \in [D -> Nat]
  /\ F \in [[D -> R] -> [D -> R]]
  /\ \A g, h \in [D -> R], x \in D : Agree(g, h, D, rank, rank[x]) => F[g][x] = F[h][x]

\* Such a definition defines a function.
LEMMA RecursiveFunction ==
  ASSUME NEW D, NEW R, NEW rank, NEW F, NEW r \in R, Descends(F, D, R, rank)
  PROVE  \E f \in [D -> R] : f = F[f]
<1> USE DEF Descends
<1> DEFINE Upto(g, k) == \A x \in D : rank[x] < k => g[x] = F[g][x]
           S == {k \in Nat : \E g \in [D -> R] : Upto(g, k)}
<1>1. 0 \in S
  <2>1. [x \in D |-> r] \in [D -> R]
    OBVIOUS
  <2>2. \A x \in D : ~ (rank[x] < 0)
    OBVIOUS
  <2>3. QED
    BY <2>1, <2>2
<1>2. ASSUME NEW k \in Nat, k \in S
      PROVE  k + 1 \in S
  <2>1. PICK g \in [D -> R] : Upto(g, k)
    BY <1>2
  <2>2. F[g] \in [D -> R]
    OBVIOUS
  <2>3. ASSUME NEW x \in D, rank[x] < k + 1
        PROVE  F[g][x] = F[F[g]][x]
    <3>1. Agree(g, F[g], D, rank, rank[x])
      <4>1. ASSUME NEW y \in D, rank[y] < rank[x]
            PROVE  g[y] = F[g][y]
        <5>1. rank[y] < k
          BY <2>3, <4>1
        <5>2. QED
          BY <2>1, <5>1
      <4>2. QED
        BY <4>1 DEF Agree
    <3>2. QED
      BY <2>2, <3>1
  <2>4. QED
    BY <2>2, <2>3
<1>3. Nat \subseteq S
  <2> HIDE DEF S
  <2>1. QED
    BY <1>1, <1>2, NumberInduction
\* Two of them agree as far as they go.
<1>4. ASSUME NEW k \in Nat, NEW g \in [D -> R], NEW h \in [D -> R], Upto(g, k), Upto(h, k)
      PROVE  Agree(g, h, D, rank, k)
  <2> DEFINE T == {x \in D : rank[x] < k => g[x] = h[x]}
  <2>1. ASSUME NEW x \in D, \A y \in D : rank[y] < rank[x] => y \in T
        PROVE  x \in T
    <3> SUFFICES ASSUME rank[x] < k
                 PROVE  g[x] = h[x]
      OBVIOUS
    <3>1. ASSUME NEW y \in D, rank[y] < rank[x]
          PROVE  g[y] = h[y]
      <4>1. rank[y] < k /\ y \in T
        BY <2>1, <3>1
      <4>2. QED
        BY <4>1
    <3>2. Agree(g, h, D, rank, rank[x])
      BY <3>1 DEF Agree
    <3>3. QED
      BY <1>4, <3>2
  <2>2. D \subseteq T
    <3> HIDE DEF T
    <3>1. QED
      BY <2>1, RankInduction
  <2>3. QED
    BY <2>2 DEF Agree
<1> DEFINE G(k) == CHOOSE g \in [D -> R] : Upto(g, k)
           f == [x \in D |-> G(rank[x] + 1)[x]]
<1>5. ASSUME NEW k \in Nat
      PROVE  G(k) \in [D -> R] /\ Upto(G(k), k)
  <2>1. \E g \in [D -> R] : Upto(g, k)
    BY <1>3
  <2> HIDE DEF Upto
  <2>2. QED
    BY <2>1
<1> HIDE DEF G, S
<1>6. f \in [D -> R]
  BY <1>5
<1>7. ASSUME NEW x \in D
      PROVE  f[x] = F[f][x]
  <2> DEFINE k == rank[x] + 1
  <2>1. k \in Nat /\ G(k) \in [D -> R] /\ Upto(G(k), k) /\ rank[x] < k
    BY <1>5
  <2>2. ASSUME NEW y \in D, rank[y] < rank[x]
        PROVE  f[y] = G(k)[y]
    <3> DEFINE j == rank[y] + 1
    <3>1. j \in Nat /\ G(j) \in [D -> R] /\ Upto(G(j), j) /\ rank[y] < j /\ j <= k
      BY <1>5, <2>2
    <3>2. Upto(G(k), j)
      <4> SUFFICES ASSUME NEW z \in D, rank[z] < j
                   PROVE  G(k)[z] = F[G(k)][z]
        OBVIOUS
      <4>1. rank[z] < k
        BY <3>1
      <4>2. QED
        BY <2>1, <4>1
    <3> HIDE DEF k, Upto
    <3>3. Agree(G(j), G(k), D, rank, j)
      BY <1>4, <2>1, <3>1, <3>2
    <3>4. G(j)[y] = G(k)[y]
      BY <3>1, <3>3 DEF Agree
    <3>5. f[y] = G(j)[y]
      OBVIOUS
    <3>6. QED
      BY <3>4, <3>5
  <2>3. Agree(f, G(k), D, rank, rank[x])
    BY <2>2 DEF Agree
  <2>4. F[f][x] = F[G(k)][x]
    <3> HIDE DEF f, k
    <3>1. QED
      BY <1>6, <2>1, <2>3
  <2>5. G(k)[x] = F[G(k)][x]
    BY <2>1
  <2>6. f[x] = G(k)[x]
    OBVIOUS
  <2>7. QED
    BY <2>4, <2>5, <2>6
<1>8. F[f] \in [D -> R]
  BY <1>6
<1>9. f = F[f]
  <2> HIDE DEF f
  <2>1. QED
    BY <1>6, <1>7, <1>8
<1>10. QED
  BY <1>6, <1>9

\* What FlattenSeq's recursive function is.
IsFlat(s, f) == f = [i \in 1 .. Len(s) |-> IF i = 1 THEN s[i] ELSE f[i - 1] \o s[i]]

LEMMA FlatExists ==
  ASSUME NEW X, NEW s \in Seq(Seq(X))
  PROVE  \E f : IsFlat(s, f)
<1> DEFINE D == 1 .. Len(s)
           R == Seq(X)
           rank == [i \in D |-> i]
           Next_(g) == [i \in D |-> IF i = 1 THEN s[i] ELSE g[i - 1] \o s[i]]
           F == [g \in [D -> R] |-> Next_(g)]
<1>1. Len(s) \in Nat /\ \A i \in D : s[i] \in R
  BY LenProperties
<1>2. rank \in [D -> Nat]
  OBVIOUS
<1>3. ASSUME NEW g \in [D -> R]
      PROVE  Next_(g) \in [D -> R]
  <2>1. ASSUME NEW i \in D, i # 1
        PROVE  g[i - 1] \o s[i] \in R
    <3>1. i - 1 \in D
      BY <1>1, <2>1
    <3>2. g[i - 1] \in R /\ s[i] \in R
      BY <1>1, <3>1
    <3>3. QED
      BY <3>2, ConcatProperties
  <2>2. QED
    BY <1>1, <2>1
<1>4. F \in [[D -> R] -> [D -> R]] /\ \A g \in [D -> R] : F[g] = Next_(g)
  BY <1>3
<1>5. <<>> \in R
  BY EmptySeq
<1>6. ASSUME NEW g \in [D -> R], NEW h \in [D -> R], NEW i \in D, Agree(g, h, D, rank, rank[i])
      PROVE  F[g][i] = F[h][i]
  <2>1. i # 1 => i - 1 \in D /\ rank[i - 1] < rank[i]
    BY <1>1
  <2>2. i # 1 => g[i - 1] = h[i - 1]
    BY <1>6, <2>1 DEF Agree
  <2>3. QED
    BY <1>4, <2>2
<1> HIDE DEF D, R, rank, F, Next_
<1>7. F \in [[D -> R] -> [D -> R]]
  BY <1>4
<1>8. Descends(F, D, R, rank)
  BY <1>2, <1>6, <1>7 DEF Descends
<1>9. \E f \in [D -> R] : f = F[f]
  BY <1>5, <1>8, RecursiveFunction
<1>10. PICK f \in [D -> R] : f = F[f]
  BY <1>9
<1>11. f = Next_(f)
  BY <1>4, <1>10
<1>12. QED
  BY <1>11 DEF IsFlat, D, Next_

\* It depends on the sequence as far as it goes only.
LEMMA FlatAgree ==
  ASSUME NEW X, NEW s \in Seq(Seq(X)), NEW t \in Seq(Seq(X)), NEW f, NEW g, IsFlat(s, f), IsFlat(t, g),
         NEW n \in Nat, n <= Len(s), n <= Len(t), \A i \in 1 .. n : s[i] = t[i]
  PROVE  \A i \in 1 .. n : f[i] = g[i] /\ f[i] \in Seq(X)
<1> DEFINE S == {k \in Nat : k \in 1 .. n => f[k] = g[k] /\ f[k] \in Seq(X)}
<1>1. /\ Len(s) \in Nat /\ \A i \in 1 .. Len(s) : s[i] \in Seq(X)
      /\ Len(t) \in Nat
  BY LenProperties
<1>2. ASSUME NEW k \in Nat, k \in S, k + 1 \in 1 .. n
      PROVE  f[k + 1] = g[k + 1] /\ f[k + 1] \in Seq(X)
  <2>1. k + 1 \in 1 .. Len(s) /\ k + 1 \in 1 .. Len(t) /\ (k + 1) - 1 = k
    BY <1>1, <1>2
  <2>2. /\ f[k + 1] = IF k + 1 = 1 THEN s[k + 1] ELSE f[k] \o s[k + 1]
        /\ g[k + 1] = IF k + 1 = 1 THEN t[k + 1] ELSE g[k] \o t[k + 1]
    BY <2>1 DEF IsFlat
  <2>3. s[k + 1] = t[k + 1] /\ s[k + 1] \in Seq(X)
    BY <1>1, <1>2, <2>1
  <2>4. CASE k = 0
    BY <2>2, <2>3, <2>4
  <2>5. CASE k # 0
    <3>1. k \in 1 .. n
      BY <1>2, <2>5
    <3>2. f[k] = g[k] /\ f[k] \in Seq(X)
      BY <1>2, <3>1
    <3>3. k + 1 # 1
      BY <2>5
    <3>4. QED
      BY <2>2, <2>3, <3>2, <3>3, ConcatProperties
  <2>6. QED
    BY <2>4, <2>5
<1>3. Nat \subseteq S
  <2>1. 0 \in S /\ \A k \in Nat : k \in S => k + 1 \in S
    BY <1>2
  <2> HIDE DEF S
  <2>2. QED
    BY <2>1, NumberInduction
<1>4. QED
  BY <1>3

\* FlattenSeq, one sequence more at a time.
LEMMA FlattenAppend ==
  ASSUME NEW X, NEW s \in Seq(Seq(X)), NEW x \in Seq(X)
  PROVE  /\ FlattenSeq(s) \in Seq(X)
         /\ FlattenSeq(Append(s, x)) = FlattenSeq(s) \o x
<1> DEFINE t == Append(s, x)
           f == CHOOSE f : IsFlat(s, f)
           g == CHOOSE g : IsFlat(t, g)
           n == Len(s)
<1>1. /\ t \in Seq(Seq(X)) /\ Len(t) = n + 1 /\ t[n + 1] = x /\ n \in Nat
      /\ \A i \in 1 .. n : t[i] = s[i] /\ s[i] \in Seq(X)
  BY AppendProperties, LenProperties
<1>2. IsFlat(s, f) /\ IsFlat(t, g)
  <2>1. (\E h : IsFlat(s, h)) /\ (\E h : IsFlat(t, h))
    BY <1>1, FlatExists
  <2>2. QED
    BY <2>1
<1>3. /\ FlattenSeq(s) = IF n = 0 THEN s ELSE f[n]
      /\ FlattenSeq(t) = IF Len(t) = 0 THEN t ELSE g[Len(t)]
  BY DEF FlattenSeq, IsFlat
<1>4. n # 0 => g[n] = f[n] /\ f[n] \in Seq(X)
  <2> HIDE DEF f, g, t
  <2>1. n <= Len(s) /\ n <= Len(t) /\ \A i \in 1 .. n : s[i] = t[i]
    BY <1>1
  <2>2. t \in Seq(Seq(X)) /\ n \in Nat
    BY <1>1
  <2>3. \A i \in 1 .. n : f[i] = g[i] /\ f[i] \in Seq(X)
    <3> HIDE DEF n
    <3>1. QED
      BY <1>2, <2>1, <2>2, FlatAgree
  <2>4. QED
    BY <1>1, <2>3
<1>5. g[n + 1] = IF n + 1 = 1 THEN x ELSE g[n] \o x
  <2> HIDE DEF f, g, t
  <2>1. n + 1 \in 1 .. Len(t) /\ (n + 1) - 1 = n
    BY <1>1
  <2>2. QED
    BY <1>1, <1>2, <2>1 DEF IsFlat
<1>6. n = 0 => s = <<>>
  BY EmptySeq
<1>7. <<>> \o x = x /\ <<>> \in Seq(X)
  BY ConcatEmptySeq, EmptySeq
<1> HIDE DEF f, g, t, n
<1>8. CASE n = 0
  <2>1. FlattenSeq(s) = <<>> /\ FlattenSeq(t) = g[n + 1] /\ g[n + 1] = x
    BY <1>1, <1>3, <1>5, <1>6, <1>8
  <2>2. QED
    BY <1>7, <2>1 DEF t
<1>9. CASE n # 0
  <2>1. FlattenSeq(s) = f[n] /\ FlattenSeq(t) = g[n + 1] /\ g[n + 1] = g[n] \o x
    BY <1>1, <1>3, <1>5, <1>9
  <2>2. QED
    BY <1>4, <1>9, <2>1 DEF t
<1>10. QED
  BY <1>8, <1>9

LEMMA FlattenNone == FlattenSeq(<<>>) = <<>>
  BY DEF FlattenSeq

\* What a function picks of the members of a sequence, one after another.
PickedBy(pick, s) == FlattenSeq([i \in DOMAIN s |-> pick[s[i]]])
\* Append and \o, by names that the provers do not look behind.
More(s, e) == Append(s, e)
Then(s, t) == s \o t
Picks(pick, E, X) == pick \in [E -> Seq(X)]

LEMMA PickAppend ==
  ASSUME NEW E, NEW X, NEW pick, Picks(pick, E, X), NEW s \in Seq(E), NEW e \in E
  PROVE  PickedBy(pick, More(s, e)) = Then(PickedBy(pick, s), pick[e])
<1> USE DEF More, Then
<1> USE DEF Picks
<1> DEFINE m == [i \in DOMAIN s |-> pick[s[i]]]
           t == Append(s, e)
           n == [i \in DOMAIN t |-> pick[t[i]]]
<1>1. /\ DOMAIN s = 1 .. Len(s) /\ Len(s) \in Nat /\ \A i \in 1 .. Len(s) : s[i] \in E
      /\ t \in Seq(E) /\ Len(t) = Len(s) + 1 /\ t[Len(s) + 1] = e
      /\ \A i \in 1 .. Len(s) : t[i] = s[i]
  BY LenProperties, AppendProperties
<1>2. DOMAIN t = 1 .. (Len(s) + 1)
  BY <1>1, LenProperties
<1>3. m \in Seq(Seq(X)) /\ Len(m) = Len(s)
  BY <1>1, IsASeq
<1>4. n = Append(m, pick[e])
  <2>1. n \in Seq(Seq(X)) /\ Len(n) = Len(s) + 1
    <3>1. \A i \in 1 .. (Len(s) + 1) : t[i] \in E
      BY <1>1, LenProperties
    <3>2. \A i \in 1 .. (Len(s) + 1) : pick[t[i]] \in Seq(X)
      BY <3>1
    <3>3. QED
      BY <1>1, <1>2, <3>2, IsASeq
  <2>2. /\ Append(m, pick[e]) \in Seq(Seq(X)) /\ Len(Append(m, pick[e])) = Len(s) + 1
        /\ Append(m, pick[e])[Len(s) + 1] = pick[e]
        /\ \A i \in 1 .. Len(s) : Append(m, pick[e])[i] = m[i]
    BY <1>3, AppendProperties
  <2>3. ASSUME NEW i \in 1 .. (Len(s) + 1)
        PROVE  n[i] = Append(m, pick[e])[i]
    <3>1. i \in 1 .. Len(s) \/ i = Len(s) + 1
      BY <1>1
    <3>2. n[i] = pick[t[i]]
      BY <1>2
    <3>3. CASE i \in 1 .. Len(s)
      <4>1. m[i] = pick[s[i]]
        BY <1>1, <3>3
      <4>2. QED
        BY <1>1, <2>2, <3>2, <3>3, <4>1
    <3>4. CASE i = Len(s) + 1
      BY <1>1, <2>2, <3>2, <3>4
    <3>5. QED
      BY <3>1, <3>3, <3>4
  <2> HIDE DEF m, n
  <2>4. QED
    BY <2>1, <2>2, <2>3, SeqEqual
<1>5. PickedBy(pick, s) = FlattenSeq(m) /\ PickedBy(pick, t) = FlattenSeq(n)
  BY DEF PickedBy
<1> HIDE DEF m, n
<1>6. QED
  BY <1>3, <1>4, <1>5, FlattenAppend

LEMMA PickNone == \A pick : PickedBy(pick, <<>>) = <<>>
<1> SUFFICES ASSUME NEW pick
             PROVE  PickedBy(pick, <<>>) = <<>>
  OBVIOUS
<1>1. [i \in DOMAIN <<>> |-> pick[<<>>[i]]] = <<>>
  OBVIOUS
<1>2. QED
  BY <1>1, FlattenNone DEF PickedBy

LEMMA PickType ==
  ASSUME NEW E, NEW X, NEW pick, Picks(pick, E, X), NEW s \in Seq(E)
  PROVE  PickedBy(pick, s) \in Seq(X)
<1> USE DEF Picks
<1> DEFINE m == [i \in DOMAIN s |-> pick[s[i]]]
<1>1. DOMAIN s = 1 .. Len(s) /\ Len(s) \in Nat /\ \A i \in 1 .. Len(s) : s[i] \in E
  BY LenProperties
<1>2. m \in Seq(Seq(X))
  BY <1>1, IsASeq
<1>3. PickedBy(pick, s) = FlattenSeq(m)
  BY DEF PickedBy
<1> HIDE DEF m
<1>4. <<>> \in Seq(X)
  BY EmptySeq
<1>5. QED
  BY <1>2, <1>3, <1>4, FlattenAppend

\* A property of sequences that the empty one has, and a longer one if the shorter has it.
LEMMA AppendInduction ==
  ASSUME NEW E, NEW P, <<>> \in P, \A s \in Seq(E), e \in E : s \in P => More(s, e) \in P
  PROVE  Seq(E) \subseteq P
<1> DEFINE S == {k \in Nat : \A s \in Seq(E) : Len(s) = k => s \in P}
<1>1. 0 \in S
  BY EmptySeq
<1>2. ASSUME NEW k \in Nat, k \in S
      PROVE  k + 1 \in S
  <2> SUFFICES ASSUME NEW s \in Seq(E), Len(s) = k + 1
               PROVE  s \in P
    OBVIOUS
  <2>1. s # <<>>
    BY <1>2, EmptySeq
  <2>2. PICK u \in Seq(E), e \in E : s = More(u, e)
    BY <2>1, SequenceEmptyOrAppend DEF More
  <2>3. Len(u) = k
    BY <2>2, AppendProperties, LenProperties DEF More
  <2>4. QED
    BY <1>2, <2>2, <2>3
<1>3. Nat \subseteq S
  <2> HIDE DEF S
  <2>1. QED
    BY <1>1, <1>2, NumberInduction
<1>4. QED
  BY <1>3, LenProperties

LEMMA Thens ==
  ASSUME NEW E, NEW s \in Seq(E), NEW t \in Seq(E)
  PROVE  Then(s, t) \in Seq(E) /\ Then(s, <<>>) = s /\ Then(<<>>, s) = s
  BY ConcatProperties, ConcatEmptySeq DEF Then

LEMMA ThensOf ==
  ASSUME NEW E, NEW s \in Seq(E), NEW t \in Seq(E), NEW u \in Seq(E)
  PROVE  Then(Then(s, t), u) = Then(s, Then(t, u))
  BY ConcatAssociative DEF Then

LEMMA Mores ==
  ASSUME NEW E, NEW s \in Seq(E), NEW t \in Seq(E), NEW e \in E
  PROVE  More(s, e) \in Seq(E) /\ Then(s, More(t, e)) = More(Then(s, t), e)
<1>1. s \o t \in Seq(E) /\ More(s, e) \in Seq(E)
  BY ConcatProperties, AppendProperties DEF More
<1>2. /\ Append(t, e) = t \o <<e>> /\ Append(s \o t, e) = (s \o t) \o <<e>> /\ <<e>> \in Seq(E)
  BY <1>1, AppendIsConcat
<1>3. s \o Append(t, e) = Append(s \o t, e)
  BY <1>2, ConcatAssociative
<1>4. QED
  BY <1>1, <1>3 DEF More, Then

LEMMA PickConcat ==
  ASSUME NEW E, NEW X, NEW pick, Picks(pick, E, X), NEW s \in Seq(E), NEW t \in Seq(E)
  PROVE  PickedBy(pick, Then(s, t)) = Then(PickedBy(pick, s), PickedBy(pick, t))
<1> DEFINE P == {u \in Seq(E) : PickedBy(pick, Then(s, u)) = Then(PickedBy(pick, s), PickedBy(pick, u))}
<1>1. \A u \in Seq(E) : PickedBy(pick, u) \in Seq(X)
  BY PickType
<1>2. <<>> \in P
  BY <1>1, PickNone, Thens, EmptySeq
<1>3. ASSUME NEW u \in Seq(E), NEW e \in E, u \in P
      PROVE  More(u, e) \in P
  <2>1. Then(s, u) \in Seq(E) /\ More(u, e) \in Seq(E) /\ Then(s, More(u, e)) = More(Then(s, u), e)
    BY Thens, Mores
  <2>2. PickedBy(pick, More(Then(s, u), e)) = Then(PickedBy(pick, Then(s, u)), pick[e])
    BY <2>1, PickAppend
  <2>3. PickedBy(pick, More(u, e)) = Then(PickedBy(pick, u), pick[e])
    BY PickAppend
  <2>4. pick[e] \in Seq(X)
    BY DEF Picks
  <2>5. Then(Then(PickedBy(pick, s), PickedBy(pick, u)), pick[e])
        = Then(PickedBy(pick, s), Then(PickedBy(pick, u), pick[e]))
    BY <1>1, <2>4, ThensOf
  <2>6. QED
    BY <1>3, <2>1, <2>2, <2>3, <2>5
<1>4. Seq(E) \subseteq P
  <2> HIDE DEF P
  <2>1. QED
    BY <1>2, <1>3, AppendInduction
<1>5. QED
  BY <1>4

\* What is picked of sequences put one after another is what is picked of each.
LEMMA PickFlatten ==
  ASSUME NEW E, NEW X, NEW pick, Picks(pick, E, X), NEW ss \in Seq(Seq(E))
  PROVE  PickedBy(pick, FlattenSeq(ss)) = PickedBy([w \in Seq(E) |-> PickedBy(pick, w)], ss)
<1> DEFINE L == Seq(E)
           lift == [w \in L |-> PickedBy(pick, w)]
           P == {vv \in Seq(L) : PickedBy(pick, FlattenSeq(vv)) = PickedBy(lift, vv)}
<1>1. Picks(lift, L, X) /\ \A w \in L : lift[w] = PickedBy(pick, w)
  BY PickType DEF Picks
<1>2. <<>> \in P
  BY PickNone, FlattenNone, EmptySeq
<1>3. ASSUME NEW vv \in Seq(L), NEW w \in L, vv \in P
      PROVE  More(vv, w) \in P
  <2>1. More(vv, w) \in Seq(L)
    BY Mores
  <2>2. FlattenSeq(vv) \in Seq(E) /\ FlattenSeq(More(vv, w)) = Then(FlattenSeq(vv), w)
    BY FlattenAppend DEF More, Then
  <2>3. PickedBy(pick, Then(FlattenSeq(vv), w)) = Then(PickedBy(pick, FlattenSeq(vv)), PickedBy(pick, w))
    BY <2>2, PickConcat
  <2>4. PickedBy(lift, More(vv, w)) = Then(PickedBy(lift, vv), lift[w])
    <3> HIDE DEF lift, L
    <3>1. QED
      BY <1>1, PickAppend
  <2>5. PickedBy(pick, FlattenSeq(vv)) = PickedBy(lift, vv)
    BY <1>3
  <2> HIDE DEF lift
  <2>6. QED
    BY <1>1, <2>1, <2>2, <2>3, <2>4, <2>5
<1>4. Seq(L) \subseteq P
  <2> HIDE DEF P, L
  <2>1. QED
    BY <1>2, <1>3, AppendInduction
<1>5. QED
  BY <1>4

\* Nothing is picked of empty sequences.
LEMMA FlattenEmpties ==
  ASSUME NEW X, NEW s \in Seq(Seq(X)), \A i \in 1 .. Len(s) : s[i] = <<>>
  PROVE  FlattenSeq(s) = <<>>
<1> DEFINE P == {u \in Seq(Seq(X)) : (\A i \in 1 .. Len(u) : u[i] = <<>>) => FlattenSeq(u) = <<>>}
<1>1. <<>> \in P
  BY FlattenNone, EmptySeq
<1>2. ASSUME NEW u \in Seq(Seq(X)), NEW x \in Seq(X), u \in P
      PROVE  More(u, x) \in P
  <2>0. More(u, x) = Append(u, x)
    BY DEF More
  <2>1. /\ Append(u, x) \in Seq(Seq(X)) /\ Len(Append(u, x)) = Len(u) + 1 /\ Len(u) \in Nat
        /\ Append(u, x)[Len(u) + 1] = x /\ \A i \in 1 .. Len(u) : Append(u, x)[i] = u[i]
    BY AppendProperties, LenProperties
  <2>2. SUFFICES ASSUME \A i \in 1 .. (Len(u) + 1) : Append(u, x)[i] = <<>>
                 PROVE  FlattenSeq(Append(u, x)) = <<>>
    BY <2>0, <2>1
  <2>3. x = <<>> /\ \A i \in 1 .. Len(u) : u[i] = <<>>
    BY <2>1, <2>2
  <2>4. FlattenSeq(Append(u, x)) = FlattenSeq(u) \o x /\ FlattenSeq(u) = <<>>
    BY <1>2, <2>3, FlattenAppend
  <2>5. <<>> \o <<>> = <<>>
    OBVIOUS
  <2>6. QED
    BY <2>3, <2>4, <2>5
<1>3. Seq(Seq(X)) \subseteq P
  <2> HIDE DEF P
  <2>1. QED
    BY <1>1, <1>2, AppendInduction
<1>4. QED
  BY <1>3

------------------------------------------------------------------------------
(***************************************************************************)
(* The two walks over a document.                                          *)
(***************************************************************************)
Listed == [key : Seq(Parts), node : Node]
DepthOf == [n \in Node |-> Depth(n)]

\* The entries of a map, and what is below it.
LEMMA EntriesOf ==
  ASSUME NEW node \in Node, node.kind = "map"
  PROVE  /\ node.entries \in Seq(Listed) /\ DOMAIN node.entries = 1 .. Len(node.entries)
         /\ Len(node.entries) \in Nat
         /\ \A i \in DOMAIN node.entries :
              /\ node.entries[i].key \in Seq(Parts) /\ node.entries[i].node \in Node
              /\ DepthOf[node.entries[i].node] < DepthOf[node]
<1>1. /\ node.entries \in Seq(Listed)
      /\ \A i \in DOMAIN node.entries : Depth(node.entries[i].node) < Depth(node)
  BY NodeAssumption DEF Listed
<1>2. DOMAIN node.entries = 1 .. Len(node.entries) /\ Len(node.entries) \in Nat
  BY <1>1, LenProperties
<1>3. ASSUME NEW i \in DOMAIN node.entries
      PROVE  /\ node.entries[i].key \in Seq(Parts) /\ node.entries[i].node \in Node
             /\ DepthOf[node.entries[i].node] < DepthOf[node]
  <2>1. node.entries[i] \in Listed
    BY <1>1, <1>2, ElementOfSeq
  <2>2. node.entries[i].key \in Seq(Parts) /\ node.entries[i].node \in Node
    BY <2>1 DEF Listed
  <2>3. QED
    BY <1>1, <2>2 DEF DepthOf
<1>4. QED
  BY <1>1, <1>2, <1>3

LEMMA OneIsSeq ==
  ASSUME NEW X, NEW x \in X
  PROVE  <<x>> \in Seq(X)
OBVIOUS

\* A member's name.
LEMMA MemberName ==
  ASSUME NEW p \in Seq(Parts), NEW key \in Seq(Parts)
  PROVE  Member(p, key) \in Seq(Parts) /\ Member(p, key) = p \o Taken(key, Len(p))
<1>1. <<"">> \in Seq(Parts)
  <2>1. "" \in Parts
    BY NodeAssumption
  <2>2. QED
    BY <2>1, OneIsSeq
<1>2. Taken(key, Len(p)) \in Seq(Parts)
  BY <1>1 DEF Taken
<1>3. p = <<>> <=> Len(p) = 0
  BY EmptySeq
<1>4. CASE p = <<>>
  <2>1. Taken(key, Len(p)) = key /\ <<>> \o key = key
    BY <1>3, <1>4, ConcatEmptySeq DEF Taken
  <2>2. QED
    BY <1>4, <2>1 DEF Member
<1>5. CASE p # <<>>
  <2>1. Member(p, key) = p \o Taken(key, Len(p))
    BY <1>3, <1>5 DEF Member, Taken
  <2>2. QED
    BY <1>2, <2>1, ConcatProperties
<1>6. QED
  BY <1>4, <1>5

\* What ListAllMember(prefix, node) adds, given what f says of the nodes below.
Below(f, node, prefix) ==
  [i \in DOMAIN node.entries |->
     f[node.entries[i].node][Member(prefix, node.entries[i].key)]]
Members(f, node, prefix) ==
  IF ~ValidName(prefix) THEN <<>>
  ELSE <<Entry(prefix, node)>> \o
       IF node.kind # "map" THEN <<>> ELSE FlattenSeq(Below(f, node, prefix))

LEMMA BelowType ==
  ASSUME NEW f, NEW node \in Node, NEW prefix \in Seq(Parts), node.kind = "map",
         \A y \in Node : DepthOf[y] < DepthOf[node] => f[y] \in [Seq(Parts) -> Seq(Listed)]
  PROVE  Below(f, node, prefix) \in Seq(Seq(Listed)) /\ Len(Below(f, node, prefix)) = Len(node.entries)
<1>1. ASSUME NEW i \in DOMAIN node.entries
      PROVE  f[node.entries[i].node][Member(prefix, node.entries[i].key)] \in Seq(Listed)
  <2>1. Member(prefix, node.entries[i].key) \in Seq(Parts)
    BY <1>1, EntriesOf, MemberName
  <2>2. f[node.entries[i].node] \in [Seq(Parts) -> Seq(Listed)]
    BY <1>1, EntriesOf
  <2>3. QED
    BY <2>1, <2>2
<1>2. QED
  BY <1>1, EntriesOf, IsASeq DEF Below

LEMMA MembersType ==
  ASSUME NEW f, NEW node \in Node, NEW prefix \in Seq(Parts),
         \A y \in Node : DepthOf[y] < DepthOf[node] => f[y] \in [Seq(Parts) -> Seq(Listed)]
  PROVE  Members(f, node, prefix) \in Seq(Listed)
<1> DEFINE first == <<Entry(prefix, node)>>
           rest == IF node.kind # "map" THEN <<>> ELSE FlattenSeq(Below(f, node, prefix))
<1>1. <<>> \in Seq(Listed)
  BY EmptySeq
<1>2. first \in Seq(Listed)
  <2>1. Entry(prefix, node) \in Listed
    BY DEF Entry, Listed
  <2>2. QED
    BY <2>1
<1>3. rest \in Seq(Listed)
  <2>1. node.kind = "map" => FlattenSeq(Below(f, node, prefix)) \in Seq(Listed)
    <3> SUFFICES ASSUME node.kind = "map"
                 PROVE  FlattenSeq(Below(f, node, prefix)) \in Seq(Listed)
      OBVIOUS
    <3>1. Below(f, node, prefix) \in Seq(Seq(Listed))
      BY BelowType
    <3>2. QED
      BY <1>1, <3>1, FlattenAppend
  <2>2. QED
    BY <1>1, <2>1
<1>4. Members(f, node, prefix) = IF ~ValidName(prefix) THEN <<>> ELSE first \o rest
  BY DEF Members
<1> HIDE DEF first, rest
<1>5. QED
  BY <1>1, <1>2, <1>3, <1>4, ConcatProperties

\* It looks at what f says of nodes that are less deep only.
LEMMA MembersAgree ==
  ASSUME NEW f, NEW g, NEW node \in Node, NEW prefix,
         \A y \in Node : DepthOf[y] < DepthOf[node] => f[y] = g[y]
  PROVE  Members(f, node, prefix) = Members(g, node, prefix)
<1>1. node.kind = "map" => Below(f, node, prefix) = Below(g, node, prefix)
  <2> SUFFICES ASSUME node.kind = "map"
               PROVE  Below(f, node, prefix) = Below(g, node, prefix)
    OBVIOUS
  <2>1. \A i \in DOMAIN node.entries : f[node.entries[i].node] = g[node.entries[i].node]
    BY EntriesOf
  <2>2. QED
    BY <2>1 DEF Below
<1>2. QED
  BY <1>1 DEF Members

IsListing(f) == f = [node \in Node |-> [prefix \in Seq(Parts) |-> Members(f, node, prefix)]]

LEMMA ListingType ==
  ASSUME NEW f, IsListing(f)
  PROVE  f \in [Node -> [Seq(Parts) -> Seq(Listed)]]
<1> DEFINE S == {node \in Node : f[node] \in [Seq(Parts) -> Seq(Listed)]}
<1>1. DepthOf \in [Node -> Nat]
  BY NodeAssumption DEF DepthOf
<1>2. ASSUME NEW node \in Node, \A y \in Node : DepthOf[y] < DepthOf[node] => y \in S
      PROVE  node \in S
  <2>1. \A y \in Node : DepthOf[y] < DepthOf[node] => f[y] \in [Seq(Parts) -> Seq(Listed)]
    BY <1>2
  <2>2. \A prefix \in Seq(Parts) : Members(f, node, prefix) \in Seq(Listed)
    BY <2>1, MembersType
  <2>3. f[node] = [prefix \in Seq(Parts) |-> Members(f, node, prefix)]
    BY DEF IsListing
  <2>4. QED
    BY <2>2, <2>3
<1>3. Node \subseteq S
  <2> HIDE DEF S
  <2>1. QED
    BY <1>1, <1>2, RankInduction
<1>4. f = [node \in Node |-> f[node]]
  BY DEF IsListing
<1>5. QED
  BY <1>3, <1>4

LEMMA ListingExists == \E f : IsListing(f)
<1> DEFINE R == [Seq(Parts) -> Seq(Listed)]
           step(g) == [node \in Node |-> [prefix \in Seq(Parts) |-> Members(g, node, prefix)]]
           F == [g \in [Node -> R] |-> step(g)]
<1>1. DepthOf \in [Node -> Nat]
  BY NodeAssumption DEF DepthOf
<1>2. F \in [[Node -> R] -> [Node -> R]]
  BY MembersType
<1>3. ASSUME NEW g \in [Node -> R], NEW h \in [Node -> R], NEW x \in Node,
             Agree(g, h, Node, DepthOf, DepthOf[x])
      PROVE  F[g][x] = F[h][x]
  <2>1. \A y \in Node : DepthOf[y] < DepthOf[x] => g[y] = h[y]
    BY <1>3 DEF Agree
  <2>2. \A prefix : Members(g, x, prefix) = Members(h, x, prefix)
    BY <2>1, MembersAgree
  <2>3. QED
    BY <2>2
<1>4. (CHOOSE r \in R : TRUE) \in R
  <2>1. [prefix \in Seq(Parts) |-> <<>>] \in R
    BY EmptySeq
  <2>2. QED
    BY <2>1
<1>5. \A f \in [Node -> R] : f = F[f] => IsListing(f)
  BY DEF IsListing
<1> HIDE DEF R, F, step
<1>6. Descends(F, Node, R, DepthOf)
  BY <1>1, <1>2, <1>3 DEF Descends
<1>7. \E f \in [Node -> R] : f = F[f]
  BY <1>4, <1>6, RecursiveFunction
<1>8. QED
  BY <1>5, <1>7

LEMMA ListAllMemberIs ==
  /\ ListAllMember \in [Node -> [Seq(Parts) -> Seq(Listed)]]
  /\ \A node \in Node, prefix \in Seq(Parts) :
       ListAllMember[node][prefix] = Members(ListAllMember, node, prefix)
<1>1. ListAllMember = CHOOSE f : IsListing(f)
  BY DEF ListAllMember, IsListing, Members, Below
<1>2. IsListing(ListAllMember)
  BY <1>1, ListingExists
<1>3. ListAllMember \in [Node -> [Seq(Parts) -> Seq(Listed)]]
  BY <1>2, ListingType
<1>4. QED
  BY <1>2, <1>3 DEF IsListing

------------------------------------------------------------------------------
\* What the walk of NodesAt finds at a node, with k parts of the name found, given what
\* f says of the nodes below.
FoundBelow(f, node, k, name) ==
  [i \in DOMAIN node.entries |->
     LET parts == Taken(node.entries[i].key, k)
     IN  IF Continues(name, k, parts) THEN f[node.entries[i].node][k + Len(parts)] ELSE <<>>]
Found(f, node, k, name) ==
  (IF k = Len(name) THEN <<node>> ELSE <<>>) \o
  IF node.kind # "map" THEN <<>> ELSE FlattenSeq(FoundBelow(f, node, k, name))

LEMMA TakenType ==
  ASSUME NEW key \in Seq(Parts), NEW k
  PROVE  Taken(key, k) \in Seq(Parts) /\ Len(Taken(key, k)) \in Nat
<1>1. "" \in Parts
  BY NodeAssumption
<1>2. <<"">> \in Seq(Parts)
  BY <1>1, OneIsSeq
<1>3. Taken(key, k) \in Seq(Parts)
  BY <1>2 DEF Taken
<1>4. QED
  BY <1>3, LenProperties

LEMMA FoundBelowType ==
  ASSUME NEW name \in Seq(Parts), NEW f, NEW node \in Node, NEW k \in 0 .. Len(name), node.kind = "map",
         \A y \in Node : DepthOf[y] < DepthOf[node] => f[y] \in [0 .. Len(name) -> Seq(Node)]
  PROVE  FoundBelow(f, node, k, name) \in Seq(Seq(Node))
<1>1. ASSUME NEW i \in DOMAIN node.entries
      PROVE  FoundBelow(f, node, k, name)[i] \in Seq(Node)
  <2> DEFINE parts == Taken(node.entries[i].key, k)
             there == f[node.entries[i].node][k + Len(parts)]
  <2>1. FoundBelow(f, node, k, name)[i] = IF Continues(name, k, parts) THEN there ELSE <<>>
    BY <1>1 DEF FoundBelow
  <2>2. f[node.entries[i].node] \in [0 .. Len(name) -> Seq(Node)]
    BY <1>1, EntriesOf
  <2>3. Len(parts) \in Nat /\ Len(name) \in Nat
    BY <1>1, EntriesOf, TakenType, LenProperties
  <2>4. Continues(name, k, parts) => k + Len(parts) \in 0 .. Len(name)
    <3> HIDE DEF parts
    <3>1. QED
      BY <2>3 DEF Continues
  <2>5. Continues(name, k, parts) => there \in Seq(Node)
    BY <2>2, <2>4
  <2>6. <<>> \in Seq(Node)
    BY EmptySeq
  <2> HIDE DEF there, parts
  <2>7. QED
    BY <2>1, <2>5, <2>6
<1>3. FoundBelow(f, node, k, name) = [i \in DOMAIN node.entries |-> FoundBelow(f, node, k, name)[i]]
  BY DEF FoundBelow
<1>4. QED
  <2> DEFINE m == FoundBelow(f, node, k, name)
             n == Len(node.entries)
  <2>1. n \in Nat /\ m = [i \in 1 .. n |-> m[i]] /\ \A i \in 1 .. n : m[i] \in Seq(Node)
    BY <1>1, <1>3, EntriesOf
  <2> HIDE DEF m, n
  <2>2. m \in Seq(Seq(Node))
    BY <2>1, IsASeq
  <2>3. QED
    BY <2>2 DEF m

LEMMA FoundType ==
  ASSUME NEW name \in Seq(Parts), NEW f, NEW node \in Node, NEW k \in 0 .. Len(name),
         \A y \in Node : DepthOf[y] < DepthOf[node] => f[y] \in [0 .. Len(name) -> Seq(Node)]
  PROVE  Found(f, node, k, name) \in Seq(Node)
<1> DEFINE first == IF k = Len(name) THEN <<node>> ELSE <<>>
           rest == IF node.kind # "map" THEN <<>> ELSE FlattenSeq(FoundBelow(f, node, k, name))
<1>1. <<>> \in Seq(Node) /\ <<node>> \in Seq(Node)
  BY EmptySeq, OneIsSeq
<1>2. first \in Seq(Node)
  BY <1>1
<1>3. node.kind = "map" => FlattenSeq(FoundBelow(f, node, k, name)) \in Seq(Node)
  BY <1>1, FoundBelowType, FlattenAppend
<1>4. rest \in Seq(Node)
  BY <1>1, <1>3
<1>5. Found(f, node, k, name) = first \o rest
  BY DEF Found
<1> HIDE DEF first, rest
<1>6. QED
  BY <1>2, <1>4, <1>5, ConcatProperties

LEMMA FoundAgree ==
  ASSUME NEW f, NEW g, NEW node \in Node, NEW k, NEW name,
         \A y \in Node : DepthOf[y] < DepthOf[node] => f[y] = g[y]
  PROVE  Found(f, node, k, name) = Found(g, node, k, name)
<1>1. node.kind = "map" => FoundBelow(f, node, k, name) = FoundBelow(g, node, k, name)
  <2> SUFFICES ASSUME node.kind = "map"
               PROVE  FoundBelow(f, node, k, name) = FoundBelow(g, node, k, name)
    OBVIOUS
  <2>1. \A i \in DOMAIN node.entries : f[node.entries[i].node] = g[node.entries[i].node]
    BY EntriesOf
  <2>2. QED
    BY <2>1 DEF FoundBelow
<1>2. QED
  BY <1>1 DEF Found

IsFinding(f, name) ==
  f = [node \in Node |-> [k \in 0 .. Len(name) |-> Found(f, node, k, name)]]

LEMMA FindingType ==
  ASSUME NEW name \in Seq(Parts), NEW f, IsFinding(f, name)
  PROVE  f \in [Node -> [0 .. Len(name) -> Seq(Node)]]
<1> DEFINE R == [0 .. Len(name) -> Seq(Node)]
           S == {node \in Node : f[node] \in R}
<1>1. DepthOf \in [Node -> Nat]
  BY NodeAssumption DEF DepthOf
<1>2. ASSUME NEW node \in Node, \A y \in Node : DepthOf[y] < DepthOf[node] => y \in S
      PROVE  node \in S
  <2>1. \A y \in Node : DepthOf[y] < DepthOf[node] => f[y] \in R
    BY <1>2
  <2>2. \A k \in 0 .. Len(name) : Found(f, node, k, name) \in Seq(Node)
    BY <2>1, FoundType
  <2>3. f[node] = [k \in 0 .. Len(name) |-> Found(f, node, k, name)]
    BY DEF IsFinding
  <2>4. QED
    BY <2>2, <2>3
<1>3. Node \subseteq S
  <2> HIDE DEF S
  <2>1. QED
    BY <1>1, <1>2, RankInduction
<1>4. f = [node \in Node |-> f[node]]
  BY DEF IsFinding
<1>5. QED
  BY <1>3, <1>4

LEMMA FindingExists ==
  ASSUME NEW name \in Seq(Parts)
  PROVE  \E f : IsFinding(f, name)
<1> DEFINE R == [0 .. Len(name) -> Seq(Node)]
           step(g) == [node \in Node |-> [k \in 0 .. Len(name) |-> Found(g, node, k, name)]]
           F == [g \in [Node -> R] |-> step(g)]
<1>1. DepthOf \in [Node -> Nat]
  BY NodeAssumption DEF DepthOf
<1>2. F \in [[Node -> R] -> [Node -> R]]
  BY FoundType
<1>3. ASSUME NEW g \in [Node -> R], NEW h \in [Node -> R], NEW x \in Node,
             Agree(g, h, Node, DepthOf, DepthOf[x])
      PROVE  F[g][x] = F[h][x]
  <2>1. \A y \in Node : DepthOf[y] < DepthOf[x] => g[y] = h[y]
    BY <1>3 DEF Agree
  <2>2. \A k : Found(g, x, k, name) = Found(h, x, k, name)
    BY <2>1, FoundAgree
  <2>3. QED
    BY <2>2
<1>4. (CHOOSE r \in R : TRUE) \in R
  <2>1. [k \in 0 .. Len(name) |-> <<>>] \in R
    BY EmptySeq
  <2>2. QED
    BY <2>1
<1>5. \A f \in [Node -> R] : f = F[f] => IsFinding(f, name)
  BY DEF IsFinding
<1> HIDE DEF R, F, step
<1>6. Descends(F, Node, R, DepthOf)
  BY <1>1, <1>2, <1>3 DEF Descends
<1>7. \E f \in [Node -> R] : f = F[f]
  BY <1>4, <1>6, RecursiveFunction
<1>8. QED
  BY <1>5, <1>7

LEMMA NodesAtIs ==
  ASSUME NEW name \in Seq(Parts)
  PROVE  \E f \in [Node -> [0 .. Len(name) -> Seq(Node)]] :
           /\ \A node \in Node, k \in 0 .. Len(name) : f[node][k] = Found(f, node, k, name)
           /\ \A doc : NodesAt(doc, name) = f[doc][0]
<1> DEFINE f == CHOOSE f : IsFinding(f, name)
<1>1. \A doc : NodesAt(doc, name) = f[doc][0]
  BY DEF NodesAt, IsFinding, Found, FoundBelow
<1>2. IsFinding(f, name)
  BY FindingExists
<1> HIDE DEF f
<1>3. f \in [Node -> [0 .. Len(name) -> Seq(Node)]]
  BY <1>2, FindingType
<1>4. \A node \in Node, k \in 0 .. Len(name) : f[node][k] = Found(f, node, k, name)
  <2>1. ASSUME NEW node \in Node, NEW k \in 0 .. Len(name)
        PROVE  f[node][k] = Found(f, node, k, name)
    <3>1. f[node] = [j \in 0 .. Len(name) |-> Found(f, node, j, name)]
      BY <1>2 DEF IsFinding
    <3>2. QED
      BY <3>1
  <2>2. QED
    BY <2>1
<1>5. QED
  BY <1>1, <1>3, <1>4

------------------------------------------------------------------------------
\* Parts found from the front of a name, and from where others end.
LEMMA ContinuesMember ==
  ASSUME NEW name \in Seq(Parts), NEW p \in Seq(Parts), NEW q \in Seq(Parts)
  PROVE  Continues(name, 0, p \o q) <=> Continues(name, 0, p) /\ Continues(name, Len(p), q)
<1>1. /\ Len(p) \in Nat /\ DOMAIN p = 1 .. Len(p)
      /\ Len(q) \in Nat /\ DOMAIN q = 1 .. Len(q)
      /\ Len(name) \in Nat
  BY LenProperties
<1> DEFINE w == p \o q
<1>2. /\ Len(w) = Len(p) + Len(q) /\ DOMAIN w = 1 .. (Len(p) + Len(q))
      /\ \A i \in 1 .. Len(p) + Len(q) : w[i] = IF i <= Len(p) THEN p[i] ELSE q[i - Len(p)]
  <2>1. w \in Seq(Parts)
    BY ConcatProperties
  <2>2. /\ Len(w) = Len(p) + Len(q)
        /\ \A i \in 1 .. Len(p) + Len(q) : w[i] = IF i <= Len(p) THEN p[i] ELSE q[i - Len(p)]
    BY ConcatProperties
  <2> HIDE DEF w
  <2>3. DOMAIN w = 1 .. Len(w)
    BY <2>1, LenProperties
  <2>4. QED
    BY <2>2, <2>3
<1> HIDE DEF w
<1>3. ASSUME Continues(name, 0, w)
      PROVE  Continues(name, 0, p) /\ Continues(name, Len(p), q)
  <2>1. Len(p) + Len(q) <= Len(name) /\ \A i \in 1 .. (Len(p) + Len(q)) : name[i] = w[i]
    BY <1>1, <1>2, <1>3 DEF Continues
  <2>2. \A i \in 1 .. Len(p) : name[i] = p[i]
    BY <1>1, <1>2, <2>1
  <2>3. ASSUME NEW i \in 1 .. Len(q) PROVE name[Len(p) + i] = q[i]
    <3>1. Len(p) + i \in 1 .. (Len(p) + Len(q)) /\ ~ (Len(p) + i <= Len(p)) /\ (Len(p) + i) - Len(p) = i
      BY <1>1
    <3>2. QED
      BY <1>2, <2>1, <3>1
  <2>4. QED
    BY <1>1, <2>1, <2>2, <2>3 DEF Continues
<1>4. ASSUME Continues(name, 0, p), Continues(name, Len(p), q)
      PROVE  Continues(name, 0, w)
  <2>1. /\ Len(p) + Len(q) <= Len(name)
        /\ \A i \in 1 .. Len(p) : name[i] = p[i]
        /\ \A i \in 1 .. Len(q) : name[Len(p) + i] = q[i]
    <3>1. /\ \A i \in 1 .. Len(p) : name[0 + i] = p[i]
          /\ Len(p) + Len(q) <= Len(name) /\ \A i \in 1 .. Len(q) : name[Len(p) + i] = q[i]
      BY <1>1, <1>4 DEF Continues
    <3>2. \A i \in 1 .. Len(p) : 0 + i = i
      BY <1>1
    <3>3. QED
      BY <3>1, <3>2
  <2>2. ASSUME NEW i \in 1 .. (Len(p) + Len(q)) PROVE name[i] = w[i]
    <3>1. CASE i <= Len(p)
      BY <1>1, <1>2, <2>1, <3>1
    <3>2. CASE ~ (i <= Len(p))
      <4>1. i - Len(p) \in 1 .. Len(q) /\ Len(p) + (i - Len(p)) = i
        BY <1>1, <3>2
      <4>2. QED
        BY <1>2, <2>1, <3>2, <4>1
    <3>3. QED
      BY <3>1, <3>2
  <2>3. QED
    BY <1>1, <1>2, <2>1, <2>2 DEF Continues
<1>5. QED
  BY <1>3, <1>4 DEF w

\* A valid name starts with valid names, and the one of its length is itself.
LEMMA StartOfName ==
  ASSUME NEW name \in Seq(Parts), NEW p \in Seq(Parts), Continues(name, 0, p)
  PROVE  /\ ValidName(name) => ValidName(p)
         /\ Len(p) \in 0 .. Len(name)
         /\ p = name <=> Len(p) = Len(name)
<1>1. /\ Len(p) \in Nat /\ DOMAIN p = 1 .. Len(p)
      /\ Len(name) \in Nat /\ DOMAIN name = 1 .. Len(name)
  BY LenProperties
<1>2. Len(p) <= Len(name) /\ \A i \in 1 .. Len(p) : name[i] = p[i]
  BY <1>1 DEF Continues
<1>3. ValidName(name) => ValidName(p)
  BY <1>1, <1>2 DEF ValidName
<1>4. Len(p) = Len(name) => p = name
  BY <1>2, SeqEqual
<1>5. Len(p) \in 0 .. Len(name)
  BY <1>1, <1>2
<1>6. QED
  BY <1>3, <1>4, <1>5

LEMMA NameStarts ==
  ASSUME NEW name \in Seq(Parts)
  PROVE  Continues(name, 0, name) /\ Continues(name, 0, <<>>)
<1>1. Len(name) \in Nat /\ DOMAIN name = 1 .. Len(name) /\ Len(<<>>) = 0 /\ DOMAIN <<>> = {}
  BY LenProperties
<1>2. QED
  BY <1>1 DEF Continues

------------------------------------------------------------------------------
\* No character of a valid name changes in lower case.
LEMMA LowerName ==
  ASSUME NEW p \in Seq(Parts), ValidName(p)
  PROVE  Lower(p) = p
<1>1. DOMAIN p = 1 .. Len(p) /\ \A i \in 1 .. Len(p) : p[i] \in Parts
  BY LenProperties
<1>2. \A i \in DOMAIN p : LowerPart(p[i]) = p[i]
  BY <1>1, LowerAssumption DEF ValidName
<1>3. p = [i \in DOMAIN p |-> p[i]]
  OBVIOUS
<1>4. QED
  BY <1>2, <1>3 DEF Lower

LEMMA NamesAreLower == \A n \in Names \ Invalid : n \in Seq(Parts) /\ ValidName(n) /\ Lower(n) = n
  BY LowerName, ConfigAssumption DEF Invalid

\* What LoadFromYaml gives to the variable of a name, as a function of what is listed.
PickOf(name) == [e \in Listed |-> Picked(e, name)]

LEMMA PickOfType ==
  ASSUME NEW name
  PROVE  Picks(PickOf(name), Listed, Node)
<1>1. <<>> \in Seq(Node)
  BY EmptySeq
<1>2. ASSUME NEW e \in Listed PROVE Picked(e, name) \in Seq(Node)
  <2>1. e.node \in Node
    BY DEF Listed
  <2>2. <<e.node>> \in Seq(Node)
    BY <2>1, OneIsSeq
  <2>3. QED
    BY <1>1, <2>2 DEF Picked
<1>3. QED
  BY <1>2 DEF Picks, PickOf

\* The node itself is for the name when its own name is that one.
LEMMA PickFirst ==
  ASSUME NEW name, NEW node \in Node, NEW p \in Seq(Parts), ValidName(p)
  PROVE  PickedBy(PickOf(name), <<Entry(p, node)>>) = IF p = name THEN <<node>> ELSE <<>>
<1> DEFINE e == Entry(p, node)
<1>1. e \in Listed /\ e.key = p /\ e.node = node
  BY DEF Entry, Listed
<1> HIDE DEF e
<1>2. <<e>> = More(<<>>, e) /\ <<>> \in Seq(Listed)
  BY EmptySeq DEF More
<1>3. Picks(PickOf(name), Listed, Node)
  BY PickOfType
<1>4. PickedBy(PickOf(name), More(<<>>, e)) = Then(PickedBy(PickOf(name), <<>>), PickOf(name)[e])
  <2> DEFINE none == <<>>
             pick == PickOf(name)
  <2>1. none \in Seq(Listed) /\ e \in Listed /\ Picks(pick, Listed, Node)
    BY <1>1, <1>2, <1>3
  <2> HIDE DEF none, pick
  <2>2. PickedBy(pick, More(none, e)) = Then(PickedBy(pick, none), pick[e])
    BY <2>1, PickAppend
  <2>3. QED
    BY <2>2 DEF none, pick
<1>5. PickedBy(PickOf(name), <<>>) = <<>>
  BY PickNone
<1>6. PickOf(name)[e] \in Seq(Node)
  BY <1>1, <1>3 DEF Picks
<1>7. Then(<<>>, PickOf(name)[e]) = PickOf(name)[e]
  BY <1>6, Thens
<1>8. PickOf(name)[e] = IF p = name THEN <<node>> ELSE <<>>
  BY <1>1, LowerName DEF PickOf, Picked
<1>9. QED
  BY <1>2, <1>4, <1>5, <1>7, <1>8 DEF e

\* The two walks agree at a node: with a prefix that the name starts with, they find the
\* same nodes, and with another, ListAllMember lists none for the name.
Same(f, name, node) ==
  \A p \in Seq(Parts) :
    PickedBy(PickOf(name), ListAllMember[node][p]) =
      IF Continues(name, 0, p) THEN f[node][Len(p)] ELSE <<>>

\* What is below a map is for the name where the name goes on.
LEMMA PickBelow ==
  ASSUME NEW name \in Seq(Parts), NEW f \in [Node -> [0 .. Len(name) -> Seq(Node)]],
         NEW node \in Node, node.kind = "map", NEW p \in Seq(Parts),
         \A y \in Node : DepthOf[y] < DepthOf[node] => Same(f, name, y)
  PROVE  PickedBy(PickOf(name), FlattenSeq(Below(ListAllMember, node, p))) =
           IF Continues(name, 0, p) THEN FlattenSeq(FoundBelow(f, node, Len(p), name)) ELSE <<>>
<1> DEFINE pick == PickOf(name)
           m == Below(ListAllMember, node, p)
           lift == [w \in Seq(Listed) |-> PickedBy(pick, w)]
           q == [i \in DOMAIN m |-> lift[m[i]]]
           n == Len(node.entries)
<1>1. ListAllMember \in [Node -> [Seq(Parts) -> Seq(Listed)]]
  BY ListAllMemberIs
<1>2. m \in Seq(Seq(Listed))
  BY <1>1, BelowType
<1>3. Picks(pick, Listed, Node)
  BY PickOfType
<1>4. PickedBy(pick, FlattenSeq(m)) = FlattenSeq(q)
  <2>1. PickedBy(lift, m) = FlattenSeq(q)
    BY DEF PickedBy
  <2>2. PickedBy(pick, FlattenSeq(m)) = PickedBy(lift, m)
    <3> HIDE DEF m, pick
    <3>1. QED
      BY <1>2, <1>3, PickFlatten
  <2>3. QED
    BY <2>1, <2>2
<1>5. DOMAIN m = 1 .. n /\ n \in Nat /\ DOMAIN node.entries = 1 .. n
  BY EntriesOf DEF Below
<1>6. ASSUME NEW i \in 1 .. n
      PROVE  LET key == node.entries[i].key
                 y   == node.entries[i].node
             IN  /\ q[i] \in Seq(Node)
                 /\ q[i] = IF Continues(name, 0, Member(p, key)) THEN f[y][Len(Member(p, key))] ELSE <<>>
  <2> DEFINE key == node.entries[i].key
             y   == node.entries[i].node
             mem == Member(p, key)
  <2>1. key \in Seq(Parts) /\ y \in Node /\ DepthOf[y] < DepthOf[node]
    BY <1>5, EntriesOf
  <2>2. mem \in Seq(Parts)
    BY <2>1, MemberName
  <2>3. m[i] = ListAllMember[y][mem] /\ m[i] \in Seq(Listed)
    <3>1. m[i] = ListAllMember[y][mem]
      BY <1>5 DEF Below
    <3>2. ListAllMember[y][mem] \in Seq(Listed)
      <4> HIDE DEF mem, y
      <4>1. QED
        BY <1>1, <2>1, <2>2
    <3>3. QED
      BY <3>1, <3>2
  <2>4. q[i] = PickedBy(pick, ListAllMember[y][mem])
    <3> HIDE DEF m, mem, y, pick
    <3>1. QED
      BY <1>5, <2>3
  <2>5. q[i] \in Seq(Node)
    <3>1. PickedBy(pick, m[i]) \in Seq(Node)
      <4> HIDE DEF pick, m
      <4>1. QED
        BY <1>3, <2>3, PickType
    <3>2. QED
      BY <2>3, <2>4, <3>1
  <2>6. Same(f, name, y)
    BY <2>1
  <2>7. PickedBy(PickOf(name), ListAllMember[y][mem]) =
          IF Continues(name, 0, mem) THEN f[y][Len(mem)] ELSE <<>>
    <3> HIDE DEF y, mem
    <3>1. QED
      BY <2>2, <2>6 DEF Same
  <2>8. QED
    BY <2>4, <2>5, <2>7
<1>7. q = [i \in 1 .. n |-> q[i]]
  BY <1>5
<1>8. CASE Continues(name, 0, p)
  <2>1. ASSUME NEW i \in 1 .. n
        PROVE  q[i] = FoundBelow(f, node, Len(p), name)[i]
    <3> DEFINE key == node.entries[i].key
               y   == node.entries[i].node
               parts == Taken(key, Len(p))
    <3>1. key \in Seq(Parts)
      BY <1>5, EntriesOf
    <3>2. parts \in Seq(Parts) /\ Member(p, key) = p \o parts
      BY <3>1, TakenType, MemberName
    <3>3. Len(p \o parts) = Len(p) + Len(parts)
      BY <3>2, ConcatProperties
    <3>4. Continues(name, 0, p \o parts) <=> Continues(name, Len(p), parts)
      BY <1>8, <3>2, ContinuesMember
    <3>5. FoundBelow(f, node, Len(p), name)[i] =
            IF Continues(name, Len(p), parts) THEN f[y][Len(p) + Len(parts)] ELSE <<>>
      BY <1>5 DEF FoundBelow
    <3>6. q[i] = IF Continues(name, 0, p \o parts) THEN f[y][Len(p \o parts)] ELSE <<>>
      BY <1>6, <3>2
    <3> HIDE DEF q, key, y, parts
    <3>7. QED
      BY <3>3, <3>4, <3>5, <3>6
  <2>2. FoundBelow(f, node, Len(p), name) = [i \in 1 .. n |-> FoundBelow(f, node, Len(p), name)[i]]
    BY <1>5 DEF FoundBelow
  <2>3. q = FoundBelow(f, node, Len(p), name)
    <3> HIDE DEF q, n
    <3>1. QED
      BY <1>7, <2>1, <2>2
  <2> HIDE DEF q
  <2>4. QED
    BY <1>4, <1>8, <2>3
<1>9. CASE ~ Continues(name, 0, p)
  <2>1. ASSUME NEW i \in 1 .. n
        PROVE  q[i] = <<>> /\ q[i] \in Seq(Node)
    <3> DEFINE key == node.entries[i].key
               parts == Taken(key, Len(p))
    <3>1. key \in Seq(Parts)
      BY <1>5, EntriesOf
    <3>2. parts \in Seq(Parts) /\ Member(p, key) = p \o parts
      BY <3>1, TakenType, MemberName
    <3>3. ~ Continues(name, 0, p \o parts)
      BY <1>9, <3>2, ContinuesMember
    <3>4. QED
      BY <1>6, <3>2, <3>3
  <2>2. q \in Seq(Seq(Node)) /\ Len(q) = n
    <3> HIDE DEF q, n
    <3>1. [i \in 1 .. n |-> q[i]] \in Seq(Seq(Node))
      BY <1>5, <2>1, IsASeq
    <3>2. Len([i \in 1 .. n |-> q[i]]) = n
      BY <1>5
    <3>3. QED
      BY <1>7, <3>1, <3>2
  <2>3. FlattenSeq(q) = <<>>
    <3> HIDE DEF q, n
    <3>1. QED
      BY <2>1, <2>2, FlattenEmpties
  <2> HIDE DEF q
  <2>4. QED
    BY <1>4, <1>9, <2>3
<1>10. QED
  BY <1>8, <1>9

\* A name that a variable can have, and the walk from the front of it.
LEMMA SameWalk ==
  ASSUME NEW name \in Seq(Parts), ValidName(name), NEW f \in [Node -> [0 .. Len(name) -> Seq(Node)]],
         \A node \in Node, k \in 0 .. Len(name) : f[node][k] = Found(f, node, k, name)
  PROVE  \A node \in Node : Same(f, name, node)
<1> DEFINE S == {node \in Node : Same(f, name, node)}
           pick == PickOf(name)
<1>1. DepthOf \in [Node -> Nat]
  BY NodeAssumption DEF DepthOf
<1>2. Picks(pick, Listed, Node)
  BY PickOfType
<1>3. ASSUME NEW node \in Node, \A y \in Node : DepthOf[y] < DepthOf[node] => y \in S
      PROVE  node \in S
  <2>1. \A y \in Node : DepthOf[y] < DepthOf[node] => Same(f, name, y)
    BY <1>3
  <2>2. ASSUME NEW p \in Seq(Parts)
        PROVE  PickedBy(pick, ListAllMember[node][p]) =
                 IF Continues(name, 0, p) THEN f[node][Len(p)] ELSE <<>>
    <3>1. ListAllMember[node][p] = Members(ListAllMember, node, p)
      BY ListAllMemberIs
    <3>2. CASE ~ ValidName(p)
      <4>1. ListAllMember[node][p] = <<>>
        BY <3>1, <3>2 DEF Members
      <4>2. ~ Continues(name, 0, p)
        BY <3>2, StartOfName
      <4>3. QED
        BY <4>1, <4>2, PickNone
    <3>3. CASE ValidName(p)
      <4> DEFINE first == <<Entry(p, node)>>
                 rest == IF node.kind # "map" THEN <<>> ELSE FlattenSeq(Below(ListAllMember, node, p))
                 found == IF node.kind # "map" THEN <<>> ELSE FlattenSeq(FoundBelow(f, node, Len(p), name))
      <4>1. ListAllMember[node][p] = Then(first, rest)
        BY <3>1, <3>3 DEF Members, Then
      <4>2. PickedBy(pick, first) = IF p = name THEN <<node>> ELSE <<>>
        BY <3>3, PickFirst
      <4>3. first \in Seq(Listed)
        <5>1. Entry(p, node) \in Listed
          BY DEF Entry, Listed
        <5>2. QED
          BY <5>1, OneIsSeq
      <4>4. rest \in Seq(Listed)
        <5>1. \A y \in Node : ListAllMember[y] \in [Seq(Parts) -> Seq(Listed)]
          BY ListAllMemberIs
        <5>2. node.kind = "map" => Below(ListAllMember, node, p) \in Seq(Seq(Listed))
          BY <5>1, BelowType
        <5>3. <<>> \in Seq(Listed)
          BY EmptySeq
        <5>4. node.kind = "map" => FlattenSeq(Below(ListAllMember, node, p)) \in Seq(Listed)
          BY <5>2, <5>3, FlattenAppend
        <5>5. QED
          BY <5>3, <5>4
      <4>5. PickedBy(pick, rest) = IF Continues(name, 0, p) THEN found ELSE <<>>
        <5>1. CASE node.kind # "map"
          BY <5>1, PickNone
        <5>2. CASE node.kind = "map"
          <6>1. PickedBy(pick, FlattenSeq(Below(ListAllMember, node, p))) =
                  IF Continues(name, 0, p) THEN FlattenSeq(FoundBelow(f, node, Len(p), name)) ELSE <<>>
            BY <2>1, <5>2, PickBelow
          <6>2. QED
            BY <5>2, <6>1
        <5>3. QED
          BY <5>1, <5>2
      <4>6. PickedBy(pick, Then(first, rest)) = Then(PickedBy(pick, first), PickedBy(pick, rest))
        <5> HIDE DEF pick, first, rest
        <5>1. QED
          BY <1>2, <4>3, <4>4, PickConcat
      <4>7. CASE Continues(name, 0, p)
        <5>1. Len(p) \in 0 .. Len(name) /\ (p = name <=> Len(p) = Len(name))
          BY <4>7, StartOfName
        <5>2. f[node][Len(p)] = Then(IF p = name THEN <<node>> ELSE <<>>, found)
          BY <5>1 DEF Found, Then
        <5> HIDE DEF first, rest, found, pick
        <5>3. QED
          BY <4>1, <4>2, <4>5, <4>6, <4>7, <5>2
      <4>8. CASE ~ Continues(name, 0, p)
        <5>1. p # name
          BY <4>8, NameStarts
        <5>2. Then(<<>>, <<>>) = <<>>
          BY DEF Then
        <5> HIDE DEF first, rest, found, pick
        <5>3. QED
          BY <4>1, <4>2, <4>5, <4>6, <4>8, <5>1, <5>2
      <4>9. QED
        BY <4>7, <4>8
    <3>4. QED
      BY <3>2, <3>3
  <2>3. QED
    BY <2>2 DEF Same
<1>4. Node \subseteq S
  <2> HIDE DEF S
  <2>1. QED
    BY <1>1, <1>3, RankInduction
<1>5. QED
  BY <1>4

\* What the document has for a name is what LoadFromYaml gives to its variable.
LEMMA SameNodes ==
  ASSUME NEW name \in Seq(Parts), ValidName(name), NEW doc \in Node
  PROVE  NodesFor(doc, name) = NodesAt(doc, name)
<1>1. PICK f \in [Node -> [0 .. Len(name) -> Seq(Node)]] :
        /\ \A node \in Node, k \in 0 .. Len(name) : f[node][k] = Found(f, node, k, name)
        /\ \A d : NodesAt(d, name) = f[d][0]
  BY NodesAtIs
<1>2. Same(f, name, doc)
  BY <1>1, SameWalk
<1>3. <<>> \in Seq(Parts) /\ Len(<<>>) = 0
  BY EmptySeq
<1>4. PickedBy(PickOf(name), ListAll(doc)) = NodesAt(doc, name)
  <2>1. Continues(name, 0, <<>>)
    BY NameStarts
  <2>2. QED
    BY <1>1, <1>2, <1>3, <2>1 DEF Same, ListAll
<1>5. ListAll(doc) \in Seq(Listed)
  BY <1>3, ListAllMemberIs DEF ListAll
<1>6. \A i \in DOMAIN ListAll(doc) : PickOf(name)[ListAll(doc)[i]] = Picked(ListAll(doc)[i], name)
  <2>1. \A i \in DOMAIN ListAll(doc) : ListAll(doc)[i] \in Listed
    BY <1>5, LenProperties
  <2>2. QED
    BY <2>1 DEF PickOf
<1>7. PickedBy(PickOf(name), ListAll(doc)) = NodesFor(doc, name)
  BY <1>6 DEF PickedBy, NodesFor
<1>8. QED
  BY <1>4, <1>7

------------------------------------------------------------------------------
(***************************************************************************)
(* The registry.                                                           *)
(***************************************************************************)
AllDocs == UNION {Docs(t) : t \in Threads}
Converted == {FromYaml(type, TextOf(n.node)) : type \in Types, n \in Listed}
Values == {Default(type) : type \in Types} \cup {c[1] : c \in Converted}

VarType == [name : {Lower(n) : n \in Names}, type : Types, val : Values, mutex : RWMutexType]

\* The places inside setValue, inside fromString, and all where a thread works on a
\* variable.
Setting == {"notify", "lookup", "notified", "wrlock", "assign"}
Loading == Setting \cup {"convert"}
Working == Loading \cup {"describe"}
PCs == Working \cup {"idle", "create", "visit", "load"}

\* What Lookup can make a variable of, and the places where it holds the registry's
\* write lock.
Makeable == (Names \ Invalid) \X Types
Writing == {"create", "describe"}

Frame ==
  [pc : PCs, obj : Nat, made : {<<>>} \cup Makeable, new : {<<>>} \cup Converted,
   nodes : Seq(Listed), todo : SUBSET Names, doc : {<<>>} \cup AllDocs, start : Seq(VarType)]

TypeInv ==
  /\ s_mutex \in RWMutexType
  /\ var \in Seq(VarType)
  /\ s_datas \in [Names -> Nat]
  /\ frame \in [Threads -> Frame]

\* The registry points at variables.
PointerInv == \A n \in Names : s_datas[n] \in 0 .. Len(var)

\* What a thread has where it makes a variable or works on one of n variables.
Equipped(f, n) ==
  /\ f.pc = "create" => f.made \in Makeable
  /\ f.pc \in Working => f.obj \in 1 .. n
  /\ f.pc \in Loading => f.nodes # <<>>
  /\ f.pc \in Setting => f.new # <<>>

WorkInv == \A t \in Threads : Equipped(frame[t], Len(var))

\* Who holds the registry's lock; a writer holds it alone.
LockInv ==
  /\ s_mutex.writer # NoThread => s_mutex.readers = {}
  /\ \A t \in Threads :
       /\ t \in s_mutex.readers <=> frame[t].pc = "visit"
       /\ s_mutex.writer = t <=> frame[t].pc \in Writing

\* The name that Lookup found absent is absent when the variable is inserted.
AbsentInv == \A t \in Threads : frame[t].pc = "create" => s_datas[frame[t].made[1]] = 0

IInv == TypeInv /\ PointerInv /\ WorkInv /\ LockInv /\ AbsentInv

------------------------------------------------------------------------------
\* LockSays stay locks.
LEMMA LockTypes ==
  ASSUME NEW m \in RWMutexType, NEW t \in Threads
  PROVE  /\ Unlocked \in RWMutexType
         /\ RdLocked(m, t) \in RWMutexType /\ RdUnlocked(m, t) \in RWMutexType
         /\ WrLocked(m, t) \in RWMutexType /\ WrUnlocked(m) \in RWMutexType
  BY DEF RWMutexType, Unlocked, RdLocked, RdUnlocked, WrLocked, WrUnlocked

LEMMA IdleFrame == Idle \in Frame /\ Idle.pc = "idle"
<1>1. <<>> \in Seq(Listed) /\ <<>> \in Seq(VarType)
  BY EmptySeq
<1>2. QED
  BY <1>1 DEF Idle, Frame, PCs, Working

\* A new variable with the default value.
LEMMA NewVar ==
  ASSUME NEW n \in Names, NEW type \in Types
  PROVE  New(n, type, Default(type)) \in VarType
<1>1. Unlocked \in RWMutexType
  BY DEF RWMutexType, Unlocked
<1>2. QED
  BY <1>1 DEF New, VarType, Values

\* The nodes of a document, and the next of them.
LEMMA DocNodes ==
  ASSUME NEW t \in Threads, NEW doc \in Docs(t)
  PROVE  doc \in AllDocs /\ ListAll(doc) \in Seq(Listed)
<1>1. doc \in Node
  BY ConfigAssumption
<1>2. <<>> \in Seq(Parts)
  BY EmptySeq
<1>3. ListAll(doc) \in Seq(Listed)
  BY <1>1, <1>2, ListAllMemberIs DEF ListAll
<1>4. QED
  BY <1>3 DEF AllDocs

\* A step of thread t that leaves the registry and the variables' types as they are, and
\* neither enters nor leaves the places where the registry's lock is held.
Inside(t) ==
  /\ frame' \in [Threads -> Frame]
  /\ \A u \in Threads : u # t => frame'[u] = frame[u]
  /\ Equipped(frame'[t], Len(var))
  /\ frame'[t].pc = "visit" <=> frame[t].pc = "visit"
  /\ frame[t].pc \notin Writing /\ frame'[t].pc \notin Writing
  /\ UNCHANGED <<s_datas, s_mutex>>

LEMMA InsideKeeps ==
  ASSUME IInv, NEW t \in Threads, Inside(t), var' \in Seq(VarType), Len(var') = Len(var)
  PROVE  IInv'
<1>1. TypeInv' /\ PointerInv' /\ WorkInv'
  BY DEF IInv, TypeInv, PointerInv, WorkInv, Inside
<1>2. LockInv' /\ AbsentInv'
  BY DEF IInv, LockInv, AbsentInv, Inside, Writing
<1>3. QED
  BY <1>1, <1>2 DEF IInv

\* What the insertion of a variable changes.
LEMMA Creates ==
  ASSUME IInv, NEW t \in Threads, create(t)
  PROVE  \E n \in Names \ Invalid, type \in Types :
           /\ s_datas[n] = 0
           /\ var' = Append(var, New(n, type, Default(type)))
           /\ s_datas' = [s_datas EXCEPT ![n] = Len(var) + 1]
<1>1. frame[t].made \in Makeable /\ s_datas[frame[t].made[1]] = 0
  BY DEF IInv, WorkInv, Equipped, AbsentInv, create, At
<1>2. frame[t].made[1] \in Names \ Invalid /\ frame[t].made[2] \in Types
  BY <1>1 DEF Makeable
<1>3. QED
  BY <1>1, <1>2 DEF create

\* A variable changes its value or its lock.
LEMMA Changed ==
  ASSUME var \in Seq(VarType), NEW o \in 1 .. Len(var), NEW v \in VarType,
         var' = [var EXCEPT ![o] = v], v.type = var[o].type
  PROVE  /\ var' \in Seq(VarType) /\ Len(var') = Len(var)
         /\ \A i \in 1 .. Len(var) : var'[i].type = var[i].type
<1>1. /\ var' \in Seq(VarType) /\ Len(var') = Len(var)
      /\ \A i \in 1 .. Len(var) : var'[i] = IF i = o THEN v ELSE var[i]
  BY ExceptSeq
<1>2. QED
  BY <1>1

\* What the properties need of every step.
Kept ==
  /\ Len(var) <= Len(var')
  /\ \A i \in 1 .. Len(var) : var'[i].type = var[i].type
  /\ \A n \in Names : s_datas[n] # 0 => s_datas'[n] = s_datas[n]
  /\ s_datas' # s_datas => s_mutex.readers = {}

LEMMA InitInv == Init => IInv
<1> SUFFICES ASSUME Init PROVE IInv
    OBVIOUS
<1>1. /\ Statics \in Seq([name : Names \ Invalid, type : Types])
      /\ Len(Statics) \in Nat /\ DOMAIN Statics = 1 .. Len(Statics)
  BY ConfigAssumption, LenProperties
<1>2. \A i \in 1 .. Len(Statics) : Statics[i].name \in Names /\ Statics[i].type \in Types
  <2>1. \A i \in 1 .. Len(Statics) : Statics[i] \in [name : Names \ Invalid, type : Types]
    BY <1>1, ElementOfSeq
  <2>2. QED
    BY <2>1
<1>3. var \in Seq(VarType) /\ Len(var) = Len(Statics)
  <2>1. var = [i \in 1 .. Len(Statics) |->
                 New(Statics[i].name, Statics[i].type, Default(Statics[i].type))]
    BY <1>1 DEF Init
  <2>2. var \in [1 .. Len(Statics) -> VarType]
    BY <1>2, <2>1, NewVar
  <2>3. var \in Seq(VarType)
    BY <1>1, <2>2, SeqDef
  <2>4. QED
    BY <1>1, <2>2, <2>3, LenProperties
<1>4. s_datas \in [Names -> Nat] /\ \A n \in Names : s_datas[n] \in 0 .. Len(var)
  <2>1. ASSUME NEW n \in Names
        PROVE  (IF \E i \in DOMAIN Statics : Statics[i].name = n
                THEN CHOOSE i \in DOMAIN Statics : Statics[i].name = n ELSE 0) \in 0 .. Len(var)
    BY <1>1, <1>3
  <2>2. 0 .. Len(var) \subseteq Nat
    BY <1>1, <1>3
  <2>3. QED
    BY <2>1, <2>2 DEF Init
<1>5. frame \in [Threads -> Frame] /\ \A t \in Threads : frame[t].pc = "idle"
  BY IdleFrame DEF Init
<1>6. s_mutex \in RWMutexType /\ s_mutex.readers = {} /\ s_mutex.writer = NoThread
  BY DEF Init, RWMutexType, Unlocked
<1>7. QED
  BY <1>3, <1>4, <1>5, <1>6, NoThreadAssumption
     DEF IInv, TypeInv, PointerInv, WorkInv, Equipped, LockInv, AbsentInv, Writing, Working,
         Loading, Setting

\* Every step keeps the invariant.
LEMMA StepInv == IInv /\ [Next]_vars => IInv' /\ Kept
<1> SUFFICES ASSUME IInv, [Next]_vars
             PROVE  IInv' /\ Kept
    OBVIOUS
<1> USE DEF Begin, At
<1>0. /\ TypeInv /\ PointerInv /\ WorkInv /\ LockInv /\ AbsentInv
      /\ frame \in [Threads -> Frame] /\ s_datas \in [Names -> Nat]
      /\ var \in Seq(VarType) /\ Len(var) \in Nat /\ DOMAIN var = 1 .. Len(var)
      /\ s_mutex \in RWMutexType
  BY LenProperties DEF IInv, TypeInv
<1>1. \A t \in Threads :
        /\ frame[t] \in Frame /\ frame[t].pc \in PCs /\ frame[t].obj \in Nat
        /\ frame[t].new \in {<<>>} \cup Converted /\ frame[t].nodes \in Seq(Listed)
        /\ frame[t].todo \in SUBSET Names
  BY <1>0 DEF Frame
<1>2. \A i \in 1 .. Len(var) : var[i] \in VarType /\ var[i].mutex \in RWMutexType
                               /\ var[i].type \in Types
  <2>1. \A i \in 1 .. Len(var) : var[i] \in VarType
    BY <1>0, ElementOfSeq
  <2>2. QED
    BY <2>1 DEF VarType
\* Steps that touch neither the variables nor the registry.
<1>3. ASSUME NEW t \in Threads, Inside(t), UNCHANGED var
      PROVE  IInv' /\ Kept
  <2>1. IInv'
    BY <1>0, <1>3, InsideKeeps
  <2>2. Kept
    BY <1>0, <1>3 DEF Inside, Kept
  <2>3. QED
    BY <2>1, <2>2
<1>4. ASSUME UNCHANGED <<s_datas, s_mutex, var, frame>>
      PROVE  IInv' /\ Kept
  BY <1>0, <1>4 DEF IInv, TypeInv, PointerInv, WorkInv, LockInv, AbsentInv, Kept
\* Steps that change the variable the thread works on.
<1>5. ASSUME NEW t \in Threads, Inside(t), frame[t].pc \in Working, NEW v \in VarType,
             v.type = Own(t).type, var' = [var EXCEPT ![frame[t].obj] = v]
      PROVE  IInv' /\ Kept
  <2>1. frame[t].obj \in 1 .. Len(var)
    BY <1>0, <1>5 DEF WorkInv, Equipped
  <2>2. /\ var' \in Seq(VarType) /\ Len(var') = Len(var)
        /\ \A i \in 1 .. Len(var) : var'[i].type = var[i].type
    BY <1>0, <1>5, <2>1, Changed DEF Own
  <2>3. IInv'
    BY <1>5, <2>2, InsideKeeps
  <2>4. Kept
    BY <1>0, <1>5, <2>2 DEF Inside, Kept
  <2>5. QED
    BY <2>3, <2>4
\* The own variable with another lock.
<1>6. ASSUME NEW t \in Threads, Inside(t), frame[t].pc \in Working, NEW m \in RWMutexType,
             OwnMutex(t, m)
      PROVE  IInv' /\ Kept
  <2> DEFINE v == [Own(t) EXCEPT !.mutex = m]
  <2>1. Own(t) \in VarType
    BY <1>0, <1>2, <1>6 DEF Own, WorkInv, Equipped
  <2>2. v \in VarType /\ v.type = Own(t).type
    BY <2>1 DEF VarType
  <2>3. var' = [var EXCEPT ![frame[t].obj] = v]
    BY <1>6 DEF OwnMutex, Own
  <2> HIDE DEF v
  <2>4. QED
    BY <1>5, <1>6, <2>2, <2>3
\* The thread goes to another place.
<1>7. ASSUME NEW t \in Threads, NEW pc \in PCs, Goto(t, pc), pc \notin Writing \cup {"visit"},
             frame[t].pc \in Loading, pc \in Setting => frame[t].new # <<>>, UNCHANGED <<s_datas, s_mutex>>
      PROVE  Inside(t)
  <2>1. /\ frame' \in [Threads -> Frame]
        /\ frame'[t].pc = pc /\ frame'[t].obj = frame[t].obj /\ frame'[t].nodes = frame[t].nodes
        /\ frame'[t].new = frame[t].new
        /\ \A u \in Threads : u # t => frame'[u] = frame[u]
    BY <1>0, <1>7 DEF Goto, Frame
  <2>2. /\ frame[t].obj \in 1 .. Len(var) /\ frame[t].nodes # <<>>
        /\ frame[t].pc \notin Writing \cup {"visit"}
    BY <1>0, <1>7 DEF WorkInv, Equipped, Working, Loading, Setting, Writing
  <2>3. QED
    BY <1>7, <2>1, <2>2 DEF Inside, Equipped, Writing
\* The loop of LoadFromYaml goes on with the next node.
<1>8. ASSUME NEW t \in Threads, Skip(t), frame[t].pc \in Loading \cup {"load"},
             frame[t].pc = "load" => frame[t].nodes # <<>>, UNCHANGED <<s_datas, s_mutex>>
      PROVE  Inside(t)
  <2>1. Tail(frame[t].nodes) \in Seq(Listed)
    BY <1>0, <1>1, <1>8, HeadTailProperties DEF WorkInv, Equipped
  <2> DEFINE f == [frame[t] EXCEPT !.pc = "load", !.nodes = Tail(frame[t].nodes), !.obj = 0,
                                   !.new = <<>>]
  <2>2. f \in Frame /\ f.pc = "load"
    <3>1. frame[t] \in Frame /\ "load" \in PCs
      BY <1>1 DEF PCs
    <3>2. QED
      BY <2>1, <3>1 DEF Frame
  <2>3. frame' = [frame EXCEPT ![t] = f]
    BY <1>0, <1>8 DEF Skip
  <2> HIDE DEF f
  <2>4. /\ frame' \in [Threads -> Frame] /\ frame'[t] = f
        /\ \A u \in Threads : u # t => frame'[u] = frame[u]
    BY <1>0, <2>2, <2>3
  <2>5. QED
    BY <1>8, <2>2, <2>4 DEF Inside, Equipped, Writing, Working, Loading, Setting
<1>9. ASSUME NEW t \in Threads, Skip(t), UNCHANGED <<s_datas, s_mutex, var>>,
             frame[t].pc \in Loading \cup {"load"}, frame[t].pc = "load" => frame[t].nodes # <<>>
      PROVE  IInv' /\ Kept
  BY <1>3, <1>8, <1>9
<1>10. ASSUME NEW t \in Threads, NEW n \in Names, NEW type \in Types, LookupAbsent(t, n, type)
      PROVE  IInv' /\ Kept
  <2>1. /\ s_mutex' = WrLocked(s_mutex, t) /\ CanWrLock(s_mutex)
        /\ frame' = [frame EXCEPT ![t].pc = "create", ![t].made = <<n, type>>]
        /\ frame[t].pc = "idle" /\ n \notin Registered /\ n \notin Invalid
        /\ UNCHANGED <<s_datas, var>>
    BY <1>10 DEF LookupAbsent
  <2>2. s_datas[n] = 0 /\ <<n, type>> \in Makeable
    BY <1>0, <2>1 DEF Registered, Makeable
  <2>3. /\ frame' \in [Threads -> Frame]
        /\ frame'[t].pc = "create" /\ frame'[t].made = <<n, type>>
        /\ \A u \in Threads : u # t => frame'[u] = frame[u]
    <3> DEFINE f == [frame[t] EXCEPT !.pc = "create", !.made = <<n, type>>]
    <3>1. frame[t] \in Frame /\ "create" \in PCs
      BY <1>1 DEF PCs, Working
    <3>2. f \in Frame /\ f.pc = "create" /\ f.made = <<n, type>>
      BY <2>2, <3>1 DEF Frame
    <3>3. frame' = [frame EXCEPT ![t] = f]
      BY <1>0, <2>1
    <3> HIDE DEF f
    <3>4. QED
      BY <1>0, <3>2, <3>3
  <2>4. /\ s_mutex' \in RWMutexType /\ s_mutex'.writer = t /\ s_mutex'.readers = {}
        /\ s_mutex.readers = {} /\ s_mutex.writer = NoThread
    BY <1>0, <2>1, LockTypes DEF WrLocked, CanWrLock, RWMutexType
  <2>5. LockInv'
    BY <1>0, <2>1, <2>3, <2>4, NoThreadAssumption DEF LockInv, Writing
  <2>6. AbsentInv'
    BY <1>0, <2>1, <2>2, <2>3 DEF AbsentInv
  <2>7. IInv' /\ Kept
    BY <1>0, <2>1, <2>2, <2>3, <2>4, <2>5, <2>6
       DEF IInv, TypeInv, PointerInv, WorkInv, Equipped, Working, Loading, Setting, Kept
  <2>8. QED
    BY <2>7
<1>11. ASSUME NEW t \in Threads, NEW n \in Names, LookupInvalid(t, n)
      PROVE  IInv' /\ Kept
  BY <1>4, <1>11 DEF LookupInvalid
<1>12. ASSUME NEW t \in Threads, NEW n \in Names, NEW type \in Types, LookupExisting(t, n, type)
      PROVE  IInv' /\ Kept
  BY <1>4, <1>12 DEF LookupExisting
<1>13. ASSUME NEW t \in Threads, LookupOnly(t)
      PROVE  IInv' /\ Kept
  BY <1>4, <1>13 DEF LookupOnly
<1>14. ASSUME NEW t \in Threads, NEW n \in Names, NEW type \in Types, LookupMismatch(t, n, type)
      PROVE  IInv' /\ Kept
  <2>1. /\ s_mutex' = WrLocked(s_mutex, t) /\ CanWrLock(s_mutex)
        /\ frame' = [frame EXCEPT ![t].pc = "describe", ![t].obj = s_datas[n]]
        /\ frame[t].pc = "idle" /\ n \in Registered
        /\ UNCHANGED <<s_datas, var>>
    BY <1>14 DEF LookupMismatch
  <2>2. s_datas[n] \in Nat /\ s_datas[n] \in 1 .. Len(var)
    BY <1>0, <2>1 DEF PointerInv, Registered
  <2>3. /\ frame' \in [Threads -> Frame]
        /\ frame'[t].pc = "describe" /\ frame'[t].obj = s_datas[n]
        /\ \A u \in Threads : u # t => frame'[u] = frame[u]
    <3> DEFINE f == [frame[t] EXCEPT !.pc = "describe", !.obj = s_datas[n]]
    <3>1. frame[t] \in Frame /\ "describe" \in PCs
      BY <1>1 DEF PCs, Working
    <3>2. f \in Frame /\ f.pc = "describe" /\ f.obj = s_datas[n]
      BY <2>2, <3>1 DEF Frame
    <3>3. frame' = [frame EXCEPT ![t] = f]
      BY <1>0, <2>1
    <3> HIDE DEF f
    <3>4. QED
      BY <1>0, <3>2, <3>3
  <2>4. /\ s_mutex' \in RWMutexType /\ s_mutex'.writer = t /\ s_mutex'.readers = {}
        /\ s_mutex.readers = {} /\ s_mutex.writer = NoThread
    BY <1>0, <2>1, LockTypes DEF WrLocked, CanWrLock, RWMutexType
  <2>5. LockInv'
    BY <1>0, <2>3, <2>4, NoThreadAssumption DEF LockInv, Writing
  <2>6. IInv' /\ Kept
    BY <1>0, <2>1, <2>2, <2>3, <2>4, <2>5
       DEF IInv, TypeInv, PointerInv, WorkInv, Equipped, AbsentInv, Working, Loading, Setting, Kept
  <2>7. QED
    BY <2>6
<1>15. ASSUME NEW t \in Threads, describe(t)
      PROVE  IInv' /\ Kept
  <2>1. /\ s_mutex' = WrUnlocked(s_mutex) /\ frame' = [frame EXCEPT ![t] = Idle]
        /\ frame[t].pc = "describe" /\ UNCHANGED <<s_datas, var>>
    BY <1>15 DEF describe, Return
  <2>2. /\ frame' \in [Threads -> Frame] /\ frame'[t] = Idle
        /\ \A u \in Threads : u # t => frame'[u] = frame[u]
    BY <1>0, <2>1, IdleFrame
  <2>3. /\ s_mutex' \in RWMutexType /\ s_mutex'.writer = NoThread
        /\ s_mutex'.readers = s_mutex.readers
    BY <1>0, <2>1, LockTypes DEF WrUnlocked, RWMutexType
  <2>4. s_mutex.writer = t
    BY <1>0, <2>1 DEF LockInv, Writing
  <2>5. LockInv'
    BY <1>0, <2>1, <2>2, <2>3, <2>4, IdleFrame, NoThreadAssumption DEF LockInv, Writing
  <2>6. QED
    BY <1>0, <2>1, <2>2, <2>3, <2>5, IdleFrame
       DEF IInv, TypeInv, PointerInv, WorkInv, Equipped, AbsentInv, Working, Loading, Setting, Kept
<1>16. ASSUME NEW t \in Threads, Visit(t)
      PROVE  IInv' /\ Kept
  <2>1. /\ s_mutex' = RdLocked(s_mutex, t) /\ CanRdLock(s_mutex)
        /\ frame' = [frame EXCEPT ![t].pc = "visit", ![t].todo = Registered]
        /\ frame[t].pc = "idle" /\ UNCHANGED <<s_datas, var>>
    BY <1>16 DEF Visit
  <2>2. Registered \in SUBSET Names
    BY <1>0 DEF Registered
  <2>3. /\ frame' \in [Threads -> Frame] /\ frame'[t].pc = "visit"
        /\ \A u \in Threads : u # t => frame'[u] = frame[u]
    <3> DEFINE f == [frame[t] EXCEPT !.pc = "visit", !.todo = Registered]
    <3>1. frame[t] \in Frame /\ "visit" \in PCs
      BY <1>1 DEF PCs, Working
    <3>2. f \in Frame /\ f.pc = "visit"
      BY <2>2, <3>1 DEF Frame
    <3>3. frame' = [frame EXCEPT ![t] = f]
      BY <1>0, <2>1
    <3> HIDE DEF f
    <3>4. QED
      BY <1>0, <3>2, <3>3
  <2>4. /\ s_mutex' \in RWMutexType /\ s_mutex'.writer = s_mutex.writer
        /\ s_mutex'.readers = s_mutex.readers \cup {t} /\ s_mutex.writer = NoThread
    BY <1>0, <2>1, LockTypes DEF RdLocked, RWMutexType, CanRdLock
  <2>5. LockInv'
    BY <1>0, <2>1, <2>3, <2>4 DEF LockInv, Writing
  <2>6. QED
    BY <1>0, <2>1, <2>3, <2>4, <2>5
       DEF IInv, TypeInv, PointerInv, WorkInv, Equipped, AbsentInv, Working, Loading, Setting, Kept
<1>17. ASSUME NEW t \in Threads, visitNext(t)
      PROVE  IInv' /\ Kept
  <2>1. PICK n : frame' = [frame EXCEPT ![t].todo = @ \ {n}]
    BY <1>17 DEF visitNext
  <2>2. /\ frame' \in [Threads -> Frame] /\ frame'[t].pc = frame[t].pc
        /\ \A u \in Threads : u # t => frame'[u] = frame[u]
    BY <1>0, <1>1, <2>1 DEF Frame
  <2>3. frame[t].pc = "visit" /\ UNCHANGED <<s_datas, s_mutex, var>>
    BY <1>17 DEF visitNext
  <2>4. QED
    BY <1>3, <2>2, <2>3 DEF Inside, Equipped, Writing, Working, Loading, Setting
<1>18. ASSUME NEW t \in Threads, visitEnd(t)
      PROVE  IInv' /\ Kept
  <2>1. /\ s_mutex' = RdUnlocked(s_mutex, t) /\ frame' = [frame EXCEPT ![t] = Idle]
        /\ frame[t].pc = "visit" /\ UNCHANGED <<s_datas, var>>
    BY <1>18 DEF visitEnd, Return
  <2>2. /\ frame' \in [Threads -> Frame] /\ frame'[t] = Idle
        /\ \A u \in Threads : u # t => frame'[u] = frame[u]
    BY <1>0, <2>1, IdleFrame
  <2>3. /\ s_mutex' \in RWMutexType /\ s_mutex'.writer = s_mutex.writer
        /\ s_mutex'.readers = s_mutex.readers \ {t}
    BY <1>0, <2>1, LockTypes DEF RdUnlocked, RWMutexType
  <2>4. LockInv'
    BY <1>0, <2>1, <2>2, <2>3, IdleFrame DEF LockInv, Writing
  <2>5. QED
    BY <1>0, <2>1, <2>2, <2>3, <2>4, IdleFrame
       DEF IInv, TypeInv, PointerInv, WorkInv, Equipped, AbsentInv, Working, Loading, Setting, Kept
<1>19. ASSUME NEW t \in Threads, NEW doc \in Docs(t), LoadFromYaml(t, doc)
      PROVE  IInv' /\ Kept
  <2> DEFINE f == [Idle EXCEPT !.pc = "load", !.nodes = ListAll(doc), !.doc = doc, !.start = var]
  <2>1. /\ frame' = [frame EXCEPT ![t] = f] /\ frame[t].pc = "idle"
        /\ UNCHANGED <<s_datas, s_mutex, var>>
    BY <1>19 DEF LoadFromYaml
  <2>2. doc \in AllDocs /\ ListAll(doc) \in Seq(Listed)
    BY DocNodes
  <2>3. f \in Frame /\ f.pc = "load"
    BY <1>0, <2>2, IdleFrame DEF Frame, PCs
  <2> HIDE DEF f
  <2>4. /\ frame' \in [Threads -> Frame] /\ frame'[t] = f
        /\ \A u \in Threads : u # t => frame'[u] = frame[u]
    BY <1>0, <2>1, <2>3
  <2>5. QED
    BY <1>3, <2>1, <2>3, <2>4 DEF Inside, Equipped, Writing, Working, Loading, Setting
<1>20. ASSUME NEW t \in Threads, loadUnnamed(t)
      PROVE  IInv' /\ Kept
  BY <1>9, <1>20 DEF loadUnnamed, Loading
<1>21. ASSUME NEW t \in Threads, loadUnknown(t)
      PROVE  IInv' /\ Kept
  BY <1>9, <1>21 DEF loadUnknown, Loading
<1>22. ASSUME NEW t \in Threads, convertFails(t)
      PROVE  IInv' /\ Kept
  BY <1>9, <1>22 DEF convertFails, Loading
<1>23. ASSUME NEW t \in Threads, setValueSame(t)
      PROVE  IInv' /\ Kept
  BY <1>9, <1>23 DEF setValueSame, Loading
<1>24. ASSUME NEW t \in Threads, loadEnd(t)
      PROVE  IInv' /\ Kept
  <2>1. /\ frame' = [frame EXCEPT ![t] = Idle]
        /\ frame[t].pc = "load" /\ UNCHANGED <<s_datas, s_mutex, var>>
    BY <1>24 DEF loadEnd, Return
  <2>2. /\ frame' \in [Threads -> Frame] /\ frame'[t] = Idle
        /\ \A u \in Threads : u # t => frame'[u] = frame[u]
    BY <1>0, <2>1, IdleFrame
  <2>3. QED
    BY <1>3, <2>1, <2>2, IdleFrame DEF Inside, Equipped, Writing, Working, Loading, Setting
<1>25. ASSUME NEW t \in Threads, loadKnown(t)
      PROVE  IInv' /\ Kept
  <2> DEFINE obj == s_datas[NextKey(t)]
             new == FromYaml(var[obj].type, TextOf(Head(frame[t].nodes).node))
  <2>1. /\ frame' = [frame EXCEPT ![t].pc = "convert", ![t].obj = obj, ![t].new = new]
        /\ frame[t].pc = "load" /\ frame[t].nodes # <<>> /\ NextKey(t) \in Registered
        /\ UNCHANGED <<s_datas, s_mutex, var>>
    BY <1>25 DEF loadKnown
  <2>2. obj \in Nat /\ obj \in 1 .. Len(var)
    BY <1>0, <2>1 DEF PointerInv, Registered
  <2>3. new \in Converted
    <3>1. Head(frame[t].nodes) \in Listed
      BY <1>1, <2>1, HeadTailProperties
    <3>2. var[obj].type \in Types
      BY <1>2, <2>2
    <3>3. QED
      BY <3>1, <3>2 DEF Converted
  <2> HIDE DEF obj, new
  <2> DEFINE f == [frame[t] EXCEPT !.pc = "convert", !.obj = obj, !.new = new]
  <2>4. f \in Frame /\ f.pc = "convert" /\ f.obj = obj /\ f.nodes = frame[t].nodes
    <3>1. frame[t] \in Frame /\ "convert" \in PCs
      BY <1>1 DEF PCs, Working, Loading
    <3>2. QED
      BY <2>2, <2>3, <3>1 DEF Frame
  <2>5. frame' = [frame EXCEPT ![t] = f]
    BY <1>0, <2>1
  <2> HIDE DEF f
  <2>6. /\ frame' \in [Threads -> Frame] /\ frame'[t] = f
        /\ \A u \in Threads : u # t => frame'[u] = frame[u]
    BY <1>0, <2>4, <2>5
  <2>7. QED
    BY <1>3, <2>1, <2>2, <2>4, <2>6 DEF Inside, Equipped, Writing, Working, Loading, Setting
<1>26. ASSUME NEW t \in Threads, setValueDiffers(t)
      PROVE  IInv' /\ Kept
  <2>1. /\ frame[t].pc = "convert" /\ frame[t].obj \in 1 .. Len(var)
        /\ frame[t].new # <<>>
    BY <1>0, <1>26 DEF setValueDiffers, WorkInv, Equipped, Working, Loading, Setting
  <2>2. Goto(t, "notify") /\ UNCHANGED <<s_datas, s_mutex>>
    BY <1>26 DEF setValueDiffers
  <2>3. Inside(t)
    BY <1>7, <2>1, <2>2 DEF PCs, Working, Loading, Setting, Writing
  <2>4. RdLocked(Own(t).mutex, t) \in RWMutexType
    BY <1>2, <2>1, LockTypes DEF Own
  <2>5. QED
    BY <1>6, <1>26, <2>1, <2>3, <2>4 DEF setValueDiffers, Working, Loading, Setting
<1>27. ASSUME NEW t \in Threads, notified(t)
      PROVE  IInv' /\ Kept
  <2>1. /\ frame[t].pc \in {"notify", "notified"} /\ frame[t].obj \in 1 .. Len(var)
        /\ frame[t].new # <<>>
    BY <1>0, <1>27 DEF notified, WorkInv, Equipped, Working, Loading, Setting
  <2>2. Goto(t, "wrlock") /\ UNCHANGED <<s_datas, s_mutex>>
    BY <1>27 DEF notified
  <2>3. Inside(t)
    BY <1>7, <2>1, <2>2 DEF PCs, Working, Loading, Setting, Writing
  <2>4. RdUnlocked(Own(t).mutex, t) \in RWMutexType
    BY <1>2, <2>1, LockTypes DEF Own
  <2>5. QED
    BY <1>6, <1>27, <2>1, <2>3, <2>4 DEF notified, Working, Loading, Setting
<1>28. ASSUME NEW t \in Threads, assignBegin(t)
      PROVE  IInv' /\ Kept
  <2>1. /\ frame[t].pc = "wrlock" /\ frame[t].obj \in 1 .. Len(var)
        /\ frame[t].new # <<>>
    BY <1>0, <1>28 DEF assignBegin, WorkInv, Equipped, Working, Loading, Setting
  <2>2. Goto(t, "assign") /\ UNCHANGED <<s_datas, s_mutex>>
    BY <1>28 DEF assignBegin
  <2>3. Inside(t)
    BY <1>7, <2>1, <2>2 DEF PCs, Working, Loading, Setting, Writing
  <2>4. WrLocked(Own(t).mutex, t) \in RWMutexType
    BY <1>2, <2>1, LockTypes DEF Own
  <2>5. QED
    BY <1>6, <1>28, <2>1, <2>3, <2>4 DEF assignBegin, Working, Loading, Setting
<1>29. ASSUME NEW t \in Threads, listenerLooksUp(t)
      PROVE  IInv' /\ Kept
  <2>1. frame[t].pc = "notify" /\ frame[t].new # <<>>
    BY <1>0, <1>29 DEF listenerLooksUp, WorkInv, Equipped, Setting
  <2>2. Goto(t, "lookup") /\ UNCHANGED <<s_datas, s_mutex, var>>
    BY <1>29 DEF listenerLooksUp
  <2>3. QED
    BY <1>3, <1>7, <2>1, <2>2 DEF PCs, Working, Loading, Setting, Writing
<1>30. ASSUME NEW t \in Threads, listenerLookup(t)
      PROVE  IInv' /\ Kept
  <2>1. frame[t].pc = "lookup" /\ frame[t].new # <<>>
    BY <1>0, <1>30 DEF listenerLookup, WorkInv, Equipped, Setting
  <2>2. Goto(t, "notified") /\ UNCHANGED <<s_datas, s_mutex, var>>
    BY <1>30 DEF listenerLookup
  <2>3. QED
    BY <1>3, <1>7, <2>1, <2>2 DEF PCs, Working, Loading, Setting, Writing
<1>31. ASSUME NEW t \in Threads, listenerThrows(t)
      PROVE  IInv' /\ Kept
  <2>1. frame[t].pc = "notify" /\ frame[t].obj \in 1 .. Len(var)
    BY <1>0, <1>31 DEF listenerThrows, WorkInv, Equipped, Working, Loading, Setting
  <2>2. Inside(t)
    BY <1>8, <1>31, <2>1 DEF listenerThrows, Loading, Setting
  <2>3. RdUnlocked(Own(t).mutex, t) \in RWMutexType
    BY <1>2, <2>1, LockTypes DEF Own
  <2>4. QED
    BY <1>6, <1>31, <2>1, <2>2, <2>3 DEF listenerThrows, Working, Loading, Setting
<1>32. ASSUME NEW t \in Threads, assignEnd(t)
      PROVE  IInv' /\ Kept
  <2> DEFINE v == [Own(t) EXCEPT !.val = frame[t].new[1], !.mutex = WrUnlocked(@)]
  <2>1. /\ frame[t].pc = "assign" /\ frame[t].obj \in 1 .. Len(var) /\ frame[t].new # <<>>
    BY <1>0, <1>32 DEF assignEnd, WorkInv, Equipped, Working, Loading, Setting
  <2>2. Inside(t)
    BY <1>8, <1>32, <2>1 DEF assignEnd, Loading, Setting
  <2>3. frame[t].new[1] \in Values
    BY <1>1, <2>1 DEF Values
  <2>4. Own(t) \in VarType /\ WrUnlocked(Own(t).mutex) \in RWMutexType
    BY <1>2, <2>1, LockTypes DEF Own
  <2>5. v \in VarType /\ v.type = Own(t).type
    BY <2>3, <2>4 DEF VarType
  <2>6. var' = [var EXCEPT ![frame[t].obj] = v]
    BY <1>32 DEF assignEnd, Own
  <2> HIDE DEF v
  <2>7. QED
    BY <1>5, <2>1, <2>2, <2>5, <2>6 DEF Working, Loading, Setting
<1>33. ASSUME NEW t \in Threads, create(t)
      PROVE  IInv' /\ Kept
  <2>1. PICK n \in Names \ Invalid, type \in Types :
          /\ s_datas[n] = 0
          /\ var' = Append(var, New(n, type, Default(type)))
          /\ s_datas' = [s_datas EXCEPT ![n] = Len(var) + 1]
    BY <1>33, Creates
  <2> DEFINE v == New(n, type, Default(type))
  <2>2. v \in VarType
    BY NewVar
  <2> HIDE DEF v
  <2>3. /\ var' \in Seq(VarType) /\ Len(var') = Len(var) + 1
        /\ \A i \in 1 .. Len(var) : var'[i] = var[i]
    BY <1>0, <2>1, <2>2, AppendProperties DEF v
  <2>4. s_datas' \in [Names -> Nat] /\ \A m \in Names : s_datas'[m] \in 0 .. Len(var')
    BY <1>0, <2>1, <2>3 DEF PointerInv
  <2>5. /\ frame' \in [Threads -> Frame] /\ frame'[t] = Idle
        /\ \A u \in Threads : u # t => frame'[u] = frame[u]
    BY <1>0, <1>33, IdleFrame DEF create, Return
  <2>6. /\ frame[t].pc = "create" /\ s_mutex.writer = t /\ s_mutex.readers = {}
        /\ s_mutex' \in RWMutexType /\ s_mutex'.writer = NoThread /\ s_mutex'.readers = {}
    BY <1>0, <1>33, LockTypes, NoThreadAssumption
       DEF create, LockInv, Writing, WrUnlocked, RWMutexType
  <2>7. LockInv'
    BY <1>0, <2>5, <2>6, IdleFrame, NoThreadAssumption DEF LockInv, Writing
  <2>8. AbsentInv'
    <3>1. \A u \in Threads : u # t => frame'[u].pc # "create"
      BY <1>0, <2>5, <2>6 DEF LockInv, Writing
    <3>2. QED
      BY <2>5, <3>1, IdleFrame DEF AbsentInv
  <2>9. WorkInv'
    <3>1. \A u \in Threads : Equipped(frame[u], Len(var'))
      BY <1>0, <1>1, <2>3 DEF WorkInv, Equipped
    <3>2. Equipped(Idle, Len(var'))
      BY IdleFrame DEF Equipped, Working, Loading, Setting
    <3>3. QED
      BY <2>5, <3>1, <3>2 DEF WorkInv
  <2>10. IInv'
    BY <2>3, <2>4, <2>5, <2>6, <2>7, <2>8, <2>9 DEF IInv, TypeInv, PointerInv
  <2>11. Kept
    BY <1>0, <2>1, <2>3, <2>6 DEF Kept
  <2>12. QED
    BY <2>10, <2>11
<1>34. CASE UNCHANGED vars
  BY <1>4, <1>34 DEF vars
<1>35. QED
  <2>1. ASSUME NEW t \in Threads, Call(t)
        PROVE  IInv' /\ Kept
    BY <2>1, <1>10, <1>11, <1>12, <1>13, <1>14, <1>16, <1>19 DEF Call
  <2>2. ASSUME NEW t \in Threads, Continue(t)
        PROVE  IInv' /\ Kept
    BY <2>2, <1>15, <1>17, <1>18, <1>20, <1>21, <1>22, <1>23, <1>24, <1>25, <1>26, <1>27,
       <1>28, <1>29, <1>30, <1>31, <1>32, <1>33 DEF Continue
  <2>3. QED
    BY <1>34, <2>1, <2>2 DEF Next

------------------------------------------------------------------------------
\* Every reachable state satisfies the invariant.
THEOREM Invariance == Spec => []IInv
<1>1. IInv /\ [Next]_vars => IInv'
  BY StepInv
<1>2. QED
  BY <1>1, InitInv, PTL DEF Spec

\* A name keeps its variable, and the variable its type, for ever: Lookup makes a
\* variable only for a name that has none, with the write lock held from the test to the
\* insertion (config.h:417-450).
THEOREM NamesKeepTheirVariable == Spec => OneVariablePerName
<1>1. IInv /\ [Next]_vars => [PointersKept]_vars
  <2> SUFFICES ASSUME IInv, Kept, NEW n \in Registered
               PROVE  s_datas'[n] = s_datas[n] /\ var'[s_datas[n]].type = var[s_datas[n]].type
    BY StepInv DEF PointersKept
  <2>1. n \in Names /\ s_datas[n] # 0 /\ s_datas[n] \in 1 .. Len(var)
    BY LenProperties DEF IInv, TypeInv, PointerInv, Registered
  <2>2. QED
    BY <2>1 DEF Kept
<1>2. QED
  BY <1>1, Invariance, PTL DEF Spec, OneVariablePerName

\* No step changes the map while a thread is inside Visit, which holds the read lock
\* from its begin to its end (config.cpp:73-78).
THEOREM IteratorsStayValid == Spec => IteratorValid
<1>1. IInv /\ [Next]_vars => [RegistryKept]_vars
  <2> SUFFICES ASSUME IInv, Kept, NEW t \in Threads, frame[t].pc = "visit"
               PROVE  s_datas' = s_datas
    BY StepInv DEF RegistryKept
  <2>1. t \in s_mutex.readers
    BY DEF IInv, LockInv
  <2>2. QED
    BY <2>1 DEF Kept
<1>2. QED
  BY <1>1, Invariance, PTL DEF Spec, IteratorValid

------------------------------------------------------------------------------
(***************************************************************************)
(* What a load leaves in the variables.  The names of the variables are    *)
(* the names they are registered under, and a thread inside LoadFromYaml   *)
(* has, for some number of nodes done, the other nodes before it, and in   *)
(* every variable that was there at its begin and that nobody else set     *)
(* what the nodes done ask for.                                            *)
(***************************************************************************)
NameInv ==
  /\ \A n \in Names : s_datas[n] # 0 => n \notin Invalid /\ var[s_datas[n]].name = n
  /\ \A i \in 1 .. Len(var) : var[i].name \in Names /\ s_datas[var[i].name] = i

\* The number of nodes done.
Done(f) == Len(ListAll(f.doc)) - Len(f.nodes)

\* The nodes before the thread, and the variables of its begin.
Before(t) ==
  LET f == frame[t]
  IN  /\ f.doc \in AllDocs
      /\ Len(f.nodes) <= Len(ListAll(f.doc))
      /\ \A j \in 1 .. Len(f.nodes) : f.nodes[j] = ListAll(f.doc)[Done(f) + j]
      /\ Len(f.start) <= Len(var)
      /\ \A i \in 1 .. Len(f.start) :
           f.start[i].name = var[i].name /\ f.start[i].type = var[i].type

\* The values of the variables.
Given(t) ==
  \A i \in (1 .. Len(frame[t].start)) \ foreign[t] :
    var[i].val = Asked(frame[t].start[i], ListAll(frame[t].doc), Done(frame[t]))

\* The variable of the node at hand, and the value read from it.
AtHand(t) ==
  LET f == frame[t]
  IN  /\ Head(f.nodes).key # <<>> /\ NextKey(t) \in Names
      /\ f.obj = s_datas[NextKey(t)]
      /\ f.new = FromYaml(var[f.obj].type, TextOf(Head(f.nodes).node))

Walk(t) ==
  /\ frame[t].pc \in Loading \cup {"load"} => Before(t) /\ Given(t)
  /\ frame[t].pc \in Loading => AtHand(t)

WalkInv ==
  /\ foreign \in [Threads -> SUBSET Nat]
  /\ NameInv
  /\ \A t \in Threads : Walk(t)

------------------------------------------------------------------------------
\* One node more: its answer counts, if it has one.
LEMMA AskedNext ==
  ASSUME NEW v, NEW nodes, NEW k \in Nat
  PROVE  Asked(v, nodes, k + 1) = IF Answer(v, nodes[k + 1]) = <<>> THEN Asked(v, nodes, k)
                                  ELSE Answer(v, nodes[k + 1])[1]
<1> DEFINE Good(n) == {i \in 1 .. n : Answer(v, nodes[i]) # <<>>}
           Latest(S) == CHOOSE i \in S : \A j \in S : j <= i
           Take(S) == IF S = {} THEN v.val ELSE Answer(v, nodes[Latest(S)])[1]
<1>1. Asked(v, nodes, k) = Take(Good(k)) /\ Asked(v, nodes, k + 1) = Take(Good(k + 1))
  BY DEF Asked
<1>2. CASE Answer(v, nodes[k + 1]) = <<>>
  <2>1. ASSUME NEW i
        PROVE  i \in Good(k + 1) <=> i \in Good(k)
    <3>1. i \in 1 .. (k + 1) <=> i \in 1 .. k \/ i = k + 1
      OBVIOUS
    <3>2. QED
      BY <1>2, <3>1
  <2> HIDE DEF Good, Take
  <2>2. Good(k + 1) = Good(k)
    BY <2>1
  <2>3. QED
    BY <1>1, <1>2, <2>2
<1>3. CASE Answer(v, nodes[k + 1]) # <<>>
  <2>1. k + 1 \in Good(k + 1) /\ \A j \in Good(k + 1) : j \in Int /\ j <= k + 1
    BY <1>3
  <2> HIDE DEF Good
  <2>2. Latest(Good(k + 1)) = k + 1
    BY <2>1
  <2> HIDE DEF Latest
  <2>3. QED
    BY <1>1, <1>3, <2>1, <2>2
<1>4. QED
  BY <1>2, <1>3

LEMMA AskedNone == \A v, nodes : Asked(v, nodes, 0) = v.val
<1>1. 1 .. 0 = {}
  OBVIOUS
<1>2. QED
  BY <1>1 DEF Asked

\* Variables keep their place, name and type, and names their variable.
Grown ==
  /\ Len(var) <= Len(var')
  /\ \A i \in 1 .. Len(var) : var'[i].name = var[i].name /\ var'[i].type = var[i].type
  /\ \A n \in Names : s_datas[n] # 0 => s_datas'[n] = s_datas[n]

\* The variables that count for t keep their values.
ValuesKept(t) ==
  /\ foreign[t] \subseteq foreign'[t]
  /\ \A i \in (1 .. Len(var)) \ foreign'[t] : var'[i].val = var[i].val

\* t works on the same node.
SameWork(t) ==
  /\ frame'[t].nodes = frame[t].nodes /\ frame'[t].doc = frame[t].doc
  /\ frame'[t].start = frame[t].start /\ frame'[t].obj = frame[t].obj
  /\ frame'[t].new = frame[t].new
  /\ frame'[t].pc \in Loading => frame[t].pc \in Loading
  /\ frame'[t].pc = "load" => frame[t].pc = "load"

\* The types of what a walk works with.
LEMMA WalkTypes ==
  ASSUME IInv, NEW t \in Threads
  PROVE  /\ var \in Seq(VarType) /\ Len(var) \in Nat /\ DOMAIN var = 1 .. Len(var)
         /\ frame[t] \in Frame
         /\ frame[t].nodes \in Seq(Listed) /\ Len(frame[t].nodes) \in Nat
         /\ frame[t].start \in Seq(VarType) /\ Len(frame[t].start) \in Nat
         /\ DOMAIN frame[t].start = 1 .. Len(frame[t].start)
<1>1. frame[t] \in Frame /\ var \in Seq(VarType)
  BY DEF IInv, TypeInv
<1>2. frame[t].nodes \in Seq(Listed) /\ frame[t].start \in Seq(VarType)
  BY <1>1 DEF Frame
<1>3. QED
  BY <1>1, <1>2, LenProperties

LEMMA ListTypes ==
  ASSUME NEW doc \in AllDocs
  PROVE  ListAll(doc) \in Seq(Listed) /\ Len(ListAll(doc)) \in Nat
<1>1. PICK t \in Threads : doc \in Docs(t)
  BY DEF AllDocs
<1>2. ListAll(doc) \in Seq(Listed)
  BY <1>1, DocNodes
<1>3. QED
  BY <1>2, LenProperties

\* A thread that works on the same node goes on as before.
LEMMA WalkStays ==
  ASSUME IInv, NEW t \in Threads, Walk(t), Grown, ValuesKept(t), SameWork(t)
  PROVE  Walk(t)'
<1>1. /\ Len(var) \in Nat /\ Len(frame[t].start) \in Nat /\ Len(frame[t].nodes) \in Nat
  BY WalkTypes
<1>2. ASSUME frame'[t].pc \in Loading \cup {"load"}
      PROVE  Before(t)'
  <2>1. Before(t)
    BY <1>2 DEF SameWork, Walk
  <2>2. Len(frame[t].start) <= Len(var')
    BY <1>1, <2>1, LenProperties DEF Before, Grown
  <2>3. \A i \in 1 .. Len(frame[t].start) :
          frame[t].start[i].name = var'[i].name /\ frame[t].start[i].type = var'[i].type
    BY <1>1, <2>1 DEF Before, Grown
  <2>4. QED
    BY <2>1, <2>2, <2>3 DEF Before, SameWork, Done
<1>3. ASSUME frame'[t].pc \in Loading \cup {"load"}
      PROVE  Given(t)'
  <2>1. Before(t) /\ Given(t)
    BY <1>3 DEF SameWork, Walk
  <2>2. ASSUME NEW i \in (1 .. Len(frame[t].start)) \ foreign'[t]
        PROVE  var'[i].val = Asked(frame[t].start[i], ListAll(frame[t].doc), Done(frame[t]))
    <3>1. i \in (1 .. Len(var)) \ foreign'[t] /\ i \notin foreign[t]
      BY <1>1, <2>1, <2>2 DEF Before, ValuesKept
    <3>2. QED
      BY <2>1, <2>2, <3>1 DEF Given, ValuesKept
  <2>3. Done(frame'[t]) = Done(frame[t])
    BY DEF Done, SameWork
  <2>4. QED
    BY <2>2, <2>3 DEF Given, SameWork
<1>4. ASSUME frame'[t].pc \in Loading
      PROVE  AtHand(t)'
  <2>1. AtHand(t) /\ frame[t].obj \in 1 .. Len(var)
    BY <1>4 DEF SameWork, Walk, IInv, WorkInv, Equipped, Working
  <2>2. /\ NextKey(t)' = NextKey(t) /\ s_datas'[NextKey(t)] = frame[t].obj
        /\ var'[frame[t].obj].type = var[frame[t].obj].type
    BY <1>1, <2>1 DEF SameWork, NextKey, AtHand, Grown
  <2>3. QED
    BY <2>1, <2>2 DEF AtHand, SameWork
<1>5. QED
  BY <1>2, <1>3, <1>4 DEF Walk

LEMMA DoneNext ==
  ASSUME NEW f, NEW g, g.doc = f.doc, Len(g.nodes) = Len(f.nodes) - 1,
         Len(f.nodes) \in Nat, Len(ListAll(f.doc)) \in Nat,
         Len(f.nodes) <= Len(ListAll(f.doc))
  PROVE  Done(f) \in Nat /\ Done(g) = Done(f) + 1
<1> DEFINE a == Len(ListAll(f.doc))
           n == Len(f.nodes)
<1>1. Done(f) = a - n /\ Done(g) = a - (n - 1)
  BY DEF Done
<1>2. a \in Nat /\ n \in Nat /\ n <= a
  OBVIOUS
<1> HIDE DEF a, n
<1>3. QED
  BY <1>1, <1>2

\* The next node is done, and every variable has what it answers.
LEMMA WalkSkips ==
  ASSUME IInv, NEW t \in Threads, Walk(t), Grown, foreign[t] \subseteq foreign'[t],
         frame[t].pc \in Loading \cup {"load"}, frame[t].nodes # <<>>,
         frame'[t].pc = "load", frame'[t].nodes = Tail(frame[t].nodes),
         frame'[t].doc = frame[t].doc, frame'[t].start = frame[t].start,
         \A i \in (1 .. Len(frame[t].start)) \ foreign'[t] :
           var'[i].val = IF Answer(frame[t].start[i], Head(frame[t].nodes)) = <<>>
                         THEN var[i].val
                         ELSE Answer(frame[t].start[i], Head(frame[t].nodes))[1]
  PROVE  Walk(t)'
<1> DEFINE nodes == frame[t].nodes
           all == ListAll(frame[t].doc)
           done == Done(frame[t])
<1>1. /\ Len(var) \in Nat /\ Len(frame[t].start) \in Nat
      /\ nodes \in Seq(Listed) /\ Len(nodes) \in Nat
  BY WalkTypes
<1>2. Before(t) /\ Given(t)
  BY DEF Walk
<1>3. all \in Seq(Listed) /\ Len(all) \in Nat
  BY <1>2, ListTypes DEF Before
<1>4. /\ Len(Tail(nodes)) = Len(nodes) - 1 /\ Head(nodes) = nodes[1] /\ Len(nodes) > 0
      /\ \A j \in 1 .. Len(Tail(nodes)) : Tail(nodes)[j] = nodes[j + 1]
  <2>1. nodes # <<>> /\ Len(nodes) > 0
    BY <1>1, EmptySeq
  <2>2. /\ Len(Tail(nodes)) = Len(nodes) - 1
        /\ \A j \in 1 .. Len(Tail(nodes)) : Tail(nodes)[j] = nodes[j + 1]
    BY <1>1, <2>1, HeadTailProperties
  <2>3. Head(nodes) = nodes[1]
    BY <1>1, <2>1
  <2>4. QED
    BY <2>1, <2>2, <2>3
<1>5. done \in Nat /\ Done(frame'[t]) = done + 1
  <2>1. Len(nodes) <= Len(all)
    BY <1>2 DEF Before
  <2>2. QED
    BY <1>1, <1>3, <1>4, <2>1, DoneNext
<1>6. all[done + 1] = Head(nodes)
  BY <1>1, <1>2, <1>4 DEF Before
<1>7. Before(t)'
  <2>1. \A j \in 1 .. Len(Tail(nodes)) : Tail(nodes)[j] = all[(done + 1) + j]
    <3> SUFFICES ASSUME NEW j \in 1 .. Len(Tail(nodes))
                 PROVE  Tail(nodes)[j] = all[(done + 1) + j]
        OBVIOUS
    <3>1. j + 1 \in 1 .. Len(nodes) /\ Tail(nodes)[j] = nodes[j + 1]
      BY <1>1, <1>4
    <3>2. nodes[j + 1] = all[done + (j + 1)]
      BY <1>2, <3>1 DEF Before
    <3>3. done + (j + 1) = (done + 1) + j
      BY <1>5
    <3>4. QED
      BY <3>1, <3>2, <3>3
  <2>2. /\ Len(frame[t].start) <= Len(var')
        /\ \A i \in 1 .. Len(frame[t].start) :
             frame[t].start[i].name = var'[i].name /\ frame[t].start[i].type = var'[i].type
    <3>1. /\ Len(frame[t].start) <= Len(var)
          /\ \A i \in 1 .. Len(frame[t].start) :
               frame[t].start[i].name = var[i].name /\ frame[t].start[i].type = var[i].type
      BY <1>2 DEF Before
    <3>2. /\ Len(var) <= Len(var')
          /\ \A i \in 1 .. Len(var) : var'[i].name = var[i].name /\ var'[i].type = var[i].type
      BY DEF Grown
    <3>3. Len(var') \in Nat => Len(frame[t].start) <= Len(var')
      BY <1>1, <3>1, <3>2
    <3>4. \A i \in 1 .. Len(frame[t].start) : i \in 1 .. Len(var)
      BY <1>1, <3>1
    <3>5. QED
      BY <3>1, <3>2, <3>3, <3>4
  <2>3. Len(Tail(nodes)) <= Len(all)
    <3>1. Len(nodes) <= Len(all)
      BY <1>2 DEF Before
    <3>2. Len(Tail(nodes)) = Len(nodes) - 1 /\ Len(nodes) \in Nat /\ Len(all) \in Nat
      BY <1>1, <1>3, <1>4
    <3> HIDE DEF nodes, all
    <3>3. QED
      BY <3>1, <3>2
  <2>4. frame'[t].doc \in AllDocs
    BY <1>2 DEF Before
  <2>5. QED
    BY <1>5, <2>1, <2>2, <2>3, <2>4 DEF Before
<1>8. Given(t)'
  <2> SUFFICES ASSUME NEW i \in (1 .. Len(frame[t].start)) \ foreign'[t]
               PROVE  var'[i].val = Asked(frame[t].start[i], all, done + 1)
      BY <1>5 DEF Given
  <2>1. var[i].val = Asked(frame[t].start[i], all, done)
    BY <1>2 DEF Given
  <2>2. QED
    BY <1>5, <1>6, <2>1, AskedNext
<1>9. QED
  BY <1>7, <1>8 DEF Walk, Loading, Setting

\* Only the variable at hand has an answer to the node at hand.
LEMMA OwnAnswer ==
  ASSUME IInv, NameInv, NEW t \in Threads, Walk(t), frame[t].pc \in Loading,
         NEW i \in 1 .. Len(frame[t].start)
  PROVE  Answer(frame[t].start[i], Head(frame[t].nodes)) =
           IF i = frame[t].obj THEN frame[t].new ELSE <<>>
<1>1. /\ Len(var) \in Nat /\ Len(frame[t].start) \in Nat
  BY WalkTypes
<1>2. Before(t) /\ AtHand(t) /\ frame[t].obj \in 1 .. Len(var)
  BY DEF Walk, IInv, WorkInv, Equipped, Working
<1>3. /\ i \in 1 .. Len(var)
      /\ frame[t].start[i].name = var[i].name /\ frame[t].start[i].type = var[i].type
  BY <1>1, <1>2 DEF Before
<1>4. NextKey(t) = var[i].name <=> i = frame[t].obj
  BY <1>2, <1>3 DEF NameInv, AtHand
<1>5. QED
  BY <1>2, <1>3, <1>4 DEF Answer, AtHand, NextKey

\* A step in which the variables keep their places, names and types.
Steady ==
  /\ UNCHANGED s_datas
  /\ Len(var') = Len(var)
  /\ \A i \in 1 .. Len(var) : var'[i].name = var[i].name /\ var'[i].type = var[i].type

LEMMA SteadyKeeps ==
  ASSUME IInv, NameInv, Steady
  PROVE  Grown /\ NameInv'
<1>1. Len(var) \in Nat /\ s_datas \in [Names -> Nat] /\ \A n \in Names : s_datas[n] \in 0 .. Len(var)
  BY LenProperties DEF IInv, TypeInv, PointerInv
<1>2. QED
  BY <1>1 DEF NameInv, Steady, Grown

\* The variable a thread works on gets another lock or value.
LEMMA OwnChanged ==
  ASSUME IInv, NEW t \in Threads, frame[t].pc \in Working, NEW v,
         v.name = Own(t).name, v.type = Own(t).type,
         var' = [var EXCEPT ![frame[t].obj] = v], UNCHANGED s_datas
  PROVE  /\ Steady
         /\ \A i \in 1 .. Len(var) : var'[i] = IF i = frame[t].obj THEN v ELSE var[i]
<1>1. /\ var \in Seq(VarType) /\ DOMAIN var = 1 .. Len(var) /\ Len(var) \in Nat
      /\ frame[t].obj \in 1 .. Len(var)
  BY LenProperties DEF IInv, TypeInv, WorkInv, Equipped
<1>2. var = [i \in 1 .. Len(var) |-> var[i]]
  BY <1>1, LenProperties, SeqDef
<1>3. \A i \in 1 .. Len(var) : var'[i] = IF i = frame[t].obj THEN v ELSE var[i]
  BY <1>1, <1>2
<1>4. Len(var') = Len(var)
  BY <1>1, <1>2
<1>5. QED
  BY <1>1, <1>3, <1>4 DEF Steady, Own

\* What a step of thread t leaves of the invariant, if t's own walk keeps it.
OthersKeep(t) ==
  /\ foreign' \in [Threads -> SUBSET Nat]
  /\ \A u \in Threads : u # t => frame'[u] = frame[u] /\ ValuesKept(u)

LEMMA WalkInvFrom ==
  ASSUME IInv, WalkInv, NEW t \in Threads, OthersKeep(t), Grown, NameInv', Walk(t)'
  PROVE  WalkInv'
<1>1. ASSUME NEW u \in Threads, u # t
      PROVE  Walk(u)'
  <2>1. Walk(u) /\ ValuesKept(u) /\ frame'[u] = frame[u]
    BY <1>1 DEF WalkInv, OthersKeep
  <2>2. SameWork(u)
    BY <2>1 DEF SameWork
  <2>3. QED
    BY <2>1, <2>2, WalkStays
<1>2. \A u \in Threads : Walk(u)'
  BY <1>1
<1>3. QED
  BY <1>2 DEF WalkInv, OthersKeep

LEMMA InitWalk == Init => WalkInv
<1> SUFFICES ASSUME Init PROVE WalkInv
    OBVIOUS
<1>1. /\ Statics \in Seq([name : Names \ Invalid, type : Types])
      /\ Len(Statics) \in Nat /\ DOMAIN Statics = 1 .. Len(Statics)
  BY ConfigAssumption, LenProperties
<1>2. \A i \in 1 .. Len(Statics) : Statics[i].name \in Names \ Invalid
  <2>1. \A i \in 1 .. Len(Statics) : Statics[i] \in [name : Names \ Invalid, type : Types]
    BY <1>1, ElementOfSeq
  <2>2. QED
    BY <2>1
<1>3. /\ Len(var) = Len(Statics)
      /\ \A i \in 1 .. Len(Statics) : var[i].name = Statics[i].name
  <2>1. var = [i \in 1 .. Len(Statics) |->
                 New(Statics[i].name, Statics[i].type, Default(Statics[i].type))]
    BY <1>1 DEF Init
  <2>2. Len(var) = Len(Statics)
    BY <1>1, <2>1
  <2>3. QED
    BY <1>2, <2>1, <2>2, NamesAreLower DEF New
<1>4. NameInv
  <2>1. ASSUME NEW i \in 1 .. Len(Statics)
        PROVE  s_datas[Statics[i].name] = i
    <3>1. \A j \in DOMAIN Statics : Statics[j].name = Statics[i].name <=> j = i
      BY <1>1, ConfigAssumption
    <3>2. (CHOOSE j \in DOMAIN Statics : Statics[j].name = Statics[i].name) = i
      BY <1>1, <3>1
    <3>3. QED
      BY <1>1, <1>2, <3>1, <3>2 DEF Init
  <2>2. ASSUME NEW n \in Names, s_datas[n] # 0
        PROVE  n \notin Invalid /\ var[s_datas[n]].name = n
    <3>1. PICK i \in DOMAIN Statics : Statics[i].name = n
      BY <2>2 DEF Init
    <3>2. QED
      BY <1>1, <1>2, <1>3, <2>1, <3>1
  <2>3. QED
    BY <1>2, <1>3, <2>1, <2>2 DEF NameInv
<1>5. foreign \in [Threads -> SUBSET Nat]
  BY DEF Init
<1>6. \A t \in Threads : Walk(t)
  BY DEF Init, Idle, Walk, Loading, Setting
<1>7. QED
  BY <1>4, <1>5, <1>6 DEF WalkInv

\* Every step keeps the invariant.
LEMMA WalkStep == IInv /\ WalkInv /\ [Next]_vars => WalkInv'
<1> SUFFICES ASSUME IInv, WalkInv, [Next]_vars
             PROVE  WalkInv'
    OBVIOUS
<1> USE DEF Begin, At
<1>0. /\ NameInv /\ foreign \in [Threads -> SUBSET Nat] /\ \A t \in Threads : Walk(t)
      /\ frame \in [Threads -> Frame] /\ var \in Seq(VarType) /\ Len(var) \in Nat
      /\ DOMAIN var = 1 .. Len(var) /\ s_datas \in [Names -> Nat]
      /\ \A n \in Names : s_datas[n] \in 0 .. Len(var)
  BY LenProperties DEF WalkInv, IInv, TypeInv, PointerInv
\* Steps that change no variable.
<1>1. ASSUME NEW t \in Threads, UNCHANGED <<s_datas, var, foreign>>,
             \A u \in Threads : u # t => frame'[u] = frame[u],
             Walk(t)'
      PROVE  WalkInv'
  <2>1. Steady
    BY <1>1 DEF Steady
  <2>2. OthersKeep(t)
    BY <1>0, <1>1 DEF OthersKeep, ValuesKept
  <2>3. QED
    BY <1>0, <1>1, <2>1, <2>2, SteadyKeeps, WalkInvFrom
\* A step to a place outside LoadFromYaml.
<1>2. ASSUME NEW t \in Threads, UNCHANGED <<s_datas, var, foreign>>,
             \A u \in Threads : u # t => frame'[u] = frame[u],
             frame'[t].pc \notin Loading \cup {"load"}
      PROVE  WalkInv'
  <2>1. Walk(t)'
    BY <1>2 DEF Walk
  <2>2. QED
    BY <1>1, <1>2, <2>1
\* A step on the same node.
<1>3. ASSUME NEW t \in Threads, UNCHANGED <<s_datas, var, foreign>>,
             \A u \in Threads : u # t => frame'[u] = frame[u], SameWork(t)
      PROVE  WalkInv'
  <2>1. Grown /\ ValuesKept(t)
    BY <1>0, <1>3, SteadyKeeps DEF Steady, ValuesKept
  <2>2. Walk(t)'
    BY <1>0, <1>3, <2>1, WalkStays
  <2>3. QED
    BY <1>1, <1>3, <2>2
\* Steps that leave frames, variables and registry alone.
<1>4. ASSUME UNCHANGED <<s_datas, var, frame, foreign>>
      PROVE  WalkInv'
  <2>1. Grown /\ NameInv'
    BY <1>0, <1>4, SteadyKeeps DEF Steady
  <2>2. ASSUME NEW t \in Threads
        PROVE  Walk(t)'
    <3>1. SameWork(t) /\ ValuesKept(t)
      BY <1>4 DEF SameWork, ValuesKept
    <3>2. QED
      BY <1>0, <2>1, <3>1, WalkStays
  <2>3. QED
    BY <1>0, <1>4, <2>1, <2>2 DEF WalkInv
\* What Goto and Skip change.
<1>5. ASSUME NEW t \in Threads, NEW pc \in Loading, Goto(t, pc), frame[t].pc \in Loading
      PROVE  SameWork(t) /\ \A u \in Threads : u # t => frame'[u] = frame[u]
  <2>1. frame[t] \in Frame
    BY <1>0
  <2>2. /\ frame'[t] = [frame[t] EXCEPT !.pc = pc]
        /\ \A u \in Threads : u # t => frame'[u] = frame[u]
    BY <1>0, <1>5 DEF Goto
  <2>3. QED
    BY <1>5, <2>1, <2>2 DEF SameWork, Frame, Loading, Setting
<1>6. ASSUME NEW t \in Threads, Skip(t)
      PROVE  /\ frame'[t].pc = "load" /\ frame'[t].nodes = Tail(frame[t].nodes)
             /\ frame'[t].doc = frame[t].doc /\ frame'[t].start = frame[t].start
             /\ \A u \in Threads : u # t => frame'[u] = frame[u]
  <2>1. frame[t] \in Frame
    BY <1>0
  <2>2. /\ frame'[t] = [frame[t] EXCEPT !.pc = "load", !.nodes = Tail(@), !.obj = 0,
                                        !.new = <<>>]
        /\ \A u \in Threads : u # t => frame'[u] = frame[u]
    BY <1>0, <1>6 DEF Skip
  <2>3. QED
    BY <2>1, <2>2 DEF Frame
\* The node at hand is left without a change of a variable: every variable has what the
\* node answers already.
<1>7. ASSUME NEW t \in Threads, Skip(t), UNCHANGED <<s_datas, var, foreign>>,
             frame[t].pc \in Loading \cup {"load"}, frame[t].nodes # <<>>,
             \A i \in 1 .. Len(frame[t].start) :
               LET a == Answer(frame[t].start[i], Head(frame[t].nodes))
               IN  a = <<>> \/ var[i].val = a[1]
      PROVE  WalkInv'
  <2>1. Grown
    BY <1>0, <1>7, SteadyKeeps DEF Steady
  <2>2. Walk(t)'
    BY <1>0, <1>6, <1>7, <2>1, WalkSkips
  <2>3. QED
    BY <1>1, <1>6, <1>7, <2>2
\* What a thread at work on a variable has.
<1>8. ASSUME NEW t \in Threads, frame[t].pc \in Loading
      PROVE  /\ frame[t].obj \in 1 .. Len(var) /\ frame[t].nodes # <<>>
             /\ Own(t) \in VarType /\ Before(t)
             /\ frame[t].pc \in Working
  BY <1>0, <1>8, ElementOfSeq DEF Own, Walk, IInv, WorkInv, Equipped, Working
\* The lock of the variable at work changes.
<1>9. ASSUME NEW t \in Threads, frame[t].pc \in Loading, NEW m, OwnMutex(t, m),
             UNCHANGED s_datas
      PROVE  Steady /\ \A i \in 1 .. Len(var) : var'[i].val = var[i].val
  <2> DEFINE v == [Own(t) EXCEPT !.mutex = m]
  <2>1. Own(t) \in VarType /\ frame[t].obj \in 1 .. Len(var)
    BY <1>8, <1>9
  <2>2. v.name = Own(t).name /\ v.type = Own(t).type /\ v.val = Own(t).val
    BY <2>1 DEF VarType
  <2>3. var' = [var EXCEPT ![frame[t].obj] = v]
    BY <1>9 DEF OwnMutex, Own
  <2> HIDE DEF v
  <2>4. /\ Steady
        /\ \A i \in 1 .. Len(var) : var'[i] = IF i = frame[t].obj THEN v ELSE var[i]
    BY <1>8, <1>9, <2>2, <2>3, OwnChanged
  <2>5. QED
    BY <2>1, <2>2, <2>4 DEF Own
\* A step of setValue that only locks or unlocks.
<1>10. ASSUME NEW t \in Threads, NEW m, OwnMutex(t, m), NEW pc \in Loading, Goto(t, pc),
              frame[t].pc \in Loading, UNCHANGED <<s_datas, foreign>>
       PROVE  WalkInv'
  <2>1. Steady /\ \A i \in 1 .. Len(var) : var'[i].val = var[i].val
    BY <1>9, <1>10
  <2>2. Grown /\ NameInv'
    BY <1>0, <2>1, SteadyKeeps
  <2>3. \A u \in Threads : ValuesKept(u)
    BY <1>10, <2>1 DEF ValuesKept
  <2>4. Walk(t)'
    BY <1>0, <1>5, <1>10, <2>2, <2>3, WalkStays
  <2>5. OthersKeep(t)
    BY <1>0, <1>5, <1>10, <2>3 DEF OthersKeep
  <2>6. QED
    BY <2>2, <2>4, <2>5, WalkInvFrom
<1>11. ASSUME NEW t \in Threads, create(t)
       PROVE  WalkInv'
  <2>0. PICK n \in Names \ Invalid, type \in Types :
          /\ s_datas[n] = 0
          /\ var' = Append(var, New(n, type, Default(type)))
          /\ s_datas' = [s_datas EXCEPT ![n] = Len(var) + 1]
    BY <1>11, Creates
  <2> DEFINE v == New(n, type, Default(type))
  <2>1. /\ var' = Append(var, v) /\ s_datas' = [s_datas EXCEPT ![n] = Len(var) + 1]
        /\ n \in Names /\ n \notin Invalid /\ type \in Types
        /\ frame' = [frame EXCEPT ![t] = Idle] /\ UNCHANGED foreign
    BY <1>11, <2>0 DEF create, Return
  <2>2. v \in VarType /\ v.name = n
    <3>1. v.name = Lower(n)
      BY DEF New
    <3>2. QED
      BY <2>1, <3>1, NewVar, NamesAreLower
  <2> HIDE DEF v
  <2>3. /\ Len(var') = Len(var) + 1 /\ var'[Len(var) + 1] = v
        /\ \A i \in 1 .. Len(var) : var'[i] = var[i]
    BY <1>0, <2>1, <2>2, AppendProperties
  <2>4. s_datas[n] = 0
    BY <2>0
  <2>5. Grown
    BY <1>0, <2>1, <2>3, <2>4 DEF Grown
  <2>6. NameInv'
    <3>1. ASSUME NEW m \in Names, s_datas'[m] # 0
          PROVE  m \notin Invalid /\ var'[s_datas'[m]].name = m
      <4>1. CASE m = n
        BY <1>0, <2>1, <2>2, <2>3, <4>1
      <4>2. CASE m # n
        <5>1. s_datas'[m] = s_datas[m] /\ s_datas[m] \in 1 .. Len(var)
          BY <1>0, <2>1, <3>1, <4>2
        <5>2. QED
          BY <1>0, <2>3, <5>1, <3>1 DEF NameInv
      <4>3. QED
        BY <4>1, <4>2
    <3>2. ASSUME NEW i \in 1 .. Len(var')
          PROVE  var'[i].name \in Names /\ s_datas'[var'[i].name] = i
      <4>1. CASE i = Len(var) + 1
        BY <1>0, <2>1, <2>2, <2>3, <4>1
      <4>2. CASE i # Len(var) + 1
        <5>1. i \in 1 .. Len(var) /\ var'[i] = var[i]
          BY <1>0, <2>3, <4>2
        <5>2. var[i].name \in Names /\ s_datas[var[i].name] = i
          BY <1>0, <5>1 DEF NameInv
        <5>3. var[i].name # n
          BY <2>4, <5>1, <5>2
        <5>4. QED
          BY <1>0, <2>1, <5>1, <5>2, <5>3
      <4>3. QED
        BY <4>1, <4>2
    <3>3. QED
      BY <3>1, <3>2 DEF NameInv
  <2>7. \A u \in Threads : ValuesKept(u)
    BY <2>1, <2>3 DEF ValuesKept
  <2>8. Walk(t)'
    BY <1>0, <2>1, IdleFrame DEF Walk, Loading, Setting
  <2>9. OthersKeep(t)
    BY <1>0, <2>1, <2>7 DEF OthersKeep
  <2>10. QED
    BY <2>5, <2>6, <2>8, <2>9, WalkInvFrom
<1>12. ASSUME NEW t \in Threads, NEW n \in Names, LookupInvalid(t, n)
       PROVE  WalkInv'
  BY <1>4, <1>12 DEF LookupInvalid
<1>13. ASSUME NEW t \in Threads, NEW n \in Names, NEW type \in Types, LookupExisting(t, n, type)
       PROVE  WalkInv'
  BY <1>4, <1>13 DEF LookupExisting
<1>14. ASSUME NEW t \in Threads, LookupOnly(t)
       PROVE  WalkInv'
  BY <1>4, <1>14 DEF LookupOnly
<1>15. ASSUME NEW t \in Threads, NEW n \in Names, NEW type \in Types,
              LookupAbsent(t, n, type) \/ LookupMismatch(t, n, type)
       PROVE  WalkInv'
  <2>1. /\ \/ frame' = [frame EXCEPT ![t].pc = "create", ![t].made = <<n, type>>]
           \/ frame' = [frame EXCEPT ![t].pc = "describe", ![t].obj = s_datas[n]]
        /\ UNCHANGED <<s_datas, var, foreign>>
    BY <1>15 DEF LookupAbsent, LookupMismatch
  <2>2. /\ frame'[t].pc \in {"create", "describe"}
        /\ \A u \in Threads : u # t => frame'[u] = frame[u]
    BY <1>0, <2>1 DEF Frame
  <2>3. QED
    BY <1>2, <2>1, <2>2 DEF Loading, Setting
<1>16. ASSUME NEW t \in Threads, Visit(t)
       PROVE  WalkInv'
  <2>1. /\ frame' = [frame EXCEPT ![t].pc = "visit", ![t].todo = Registered]
        /\ UNCHANGED <<s_datas, var, foreign>>
    BY <1>16 DEF Visit
  <2>2. /\ frame'[t].pc = "visit"
        /\ \A u \in Threads : u # t => frame'[u] = frame[u]
    BY <1>0, <2>1 DEF Frame
  <2>3. QED
    BY <1>2, <2>1, <2>2 DEF Loading, Setting
<1>17. ASSUME NEW t \in Threads, visitNext(t)
       PROVE  WalkInv'
  <2>1. PICK n : frame' = [frame EXCEPT ![t].todo = @ \ {n}]
    BY <1>17 DEF visitNext
  <2>2. frame[t].pc = "visit" /\ UNCHANGED <<s_datas, var, foreign>>
    BY <1>17 DEF visitNext
  <2>3. /\ frame'[t].pc = "visit"
        /\ \A u \in Threads : u # t => frame'[u] = frame[u]
    BY <1>0, <2>1, <2>2 DEF Frame
  <2>4. QED
    BY <1>2, <2>2, <2>3 DEF Loading, Setting
\* The call returns.
<1>18. ASSUME NEW t \in Threads, Return(t), UNCHANGED <<s_datas, var, foreign>>
       PROVE  WalkInv'
  <2>1. frame'[t] = Idle /\ \A u \in Threads : u # t => frame'[u] = frame[u]
    BY <1>0, <1>18 DEF Return
  <2>2. QED
    BY <1>2, <1>18, <2>1, IdleFrame DEF Loading, Setting
<1>19. ASSUME NEW t \in Threads, NEW doc \in Docs(t), LoadFromYaml(t, doc)
       PROVE  WalkInv'
  <2> DEFINE f == [Idle EXCEPT !.pc = "load", !.nodes = ListAll(doc), !.doc = doc, !.start = var]
  <2>1. /\ frame' = [frame EXCEPT ![t] = f] /\ foreign' = [foreign EXCEPT ![t] = {}]
        /\ UNCHANGED <<s_datas, var>>
    BY <1>19 DEF LoadFromYaml
  <2>2. doc \in AllDocs /\ ListAll(doc) \in Seq(Listed) /\ Len(ListAll(doc)) \in Nat
    BY DocNodes, LenProperties
  <2>3. f.pc = "load" /\ f.nodes = ListAll(doc) /\ f.doc = doc /\ f.start = var
    BY DEF Idle
  <2> HIDE DEF f
  <2>4. frame'[t] = f /\ \A u \in Threads : u # t => frame'[u] = frame[u]
    BY <1>0, <2>1
  <2>5. Steady
    BY <2>1 DEF Steady
  <2>6. Done(f) = 0
    BY <2>2, <2>3 DEF Done
  <2>7. Before(t)'
    <3>1. \A j \in 1 .. Len(ListAll(doc)) : ListAll(doc)[j] = ListAll(doc)[0 + j]
      BY <2>2
    <3>2. QED
      BY <1>0, <2>1, <2>2, <2>3, <2>4, <2>6, <3>1 DEF Before
  <2>8. Given(t)'
    BY <2>1, <2>3, <2>4, <2>6, AskedNone DEF Given
  <2>9. Walk(t)'
    BY <2>3, <2>4, <2>7, <2>8 DEF Walk, Loading, Setting
  <2>10. OthersKeep(t)
    BY <1>0, <2>1, <2>4 DEF OthersKeep, ValuesKept
  <2>11. QED
    BY <1>0, <2>5, <2>9, <2>10, SteadyKeeps, WalkInvFrom
<1>20. ASSUME NEW t \in Threads, loadUnnamed(t)
       PROVE  WalkInv'
  <2>1. \A i \in 1 .. Len(frame[t].start) :
          Answer(frame[t].start[i], Head(frame[t].nodes)) = <<>>
    BY <1>20 DEF loadUnnamed, Answer
  <2>2. QED
    BY <1>7, <1>20, <2>1 DEF loadUnnamed
<1>21. ASSUME NEW t \in Threads, loadUnknown(t)
       PROVE  WalkInv'
  <2>1. Before(t) /\ NextKey(t) \notin Registered
    BY <1>0, <1>21 DEF loadUnknown, Walk
  <2>2. ASSUME NEW i \in 1 .. Len(frame[t].start)
        PROVE  Answer(frame[t].start[i], Head(frame[t].nodes)) = <<>>
    <3>1. i \in 1 .. Len(var) /\ frame[t].start[i].name = var[i].name
      <4>1. Len(frame[t].start) \in Nat /\ Len(frame[t].start) <= Len(var)
        BY <2>1, WalkTypes DEF Before
      <4>2. i \in 1 .. Len(var)
        BY <1>0, <4>1
      <4>3. QED
        BY <2>1, <4>2 DEF Before
    <3>2. var[i].name \in Registered
      BY <1>0, <3>1 DEF NameInv, Registered
    <3>3. QED
      BY <2>1, <3>1, <3>2 DEF Answer, NextKey
  <2>3. QED
    BY <1>7, <1>21, <2>2 DEF loadUnknown
<1>22. ASSUME NEW t \in Threads, convertFails(t)
       PROVE  WalkInv'
  <2>1. frame[t].pc \in Loading /\ frame[t].new = <<>> /\ frame[t].nodes # <<>>
    BY <1>8, <1>22 DEF convertFails, Loading
  <2>2. \A i \in 1 .. Len(frame[t].start) :
          Answer(frame[t].start[i], Head(frame[t].nodes)) = <<>>
    BY <1>0, <2>1, OwnAnswer
  <2>3. QED
    BY <1>7, <1>22, <2>1, <2>2 DEF convertFails
<1>23. ASSUME NEW t \in Threads, setValueSame(t)
       PROVE  WalkInv'
  <2>1. /\ frame[t].pc \in Loading /\ frame[t].nodes # <<>>
        /\ frame[t].new[1] = var[frame[t].obj].val
    BY <1>8, <1>23 DEF setValueSame, Own, Loading
  <2>2. \A i \in 1 .. Len(frame[t].start) :
          LET a == Answer(frame[t].start[i], Head(frame[t].nodes))
          IN  a = <<>> \/ var[i].val = a[1]
    BY <1>0, <2>1, OwnAnswer
  <2>3. QED
    BY <1>7, <1>23, <2>1, <2>2 DEF setValueSame
<1>24. ASSUME NEW t \in Threads, loadKnown(t)
       PROVE  WalkInv'
  <2> DEFINE obj == s_datas[NextKey(t)]
             new == FromYaml(var[obj].type, TextOf(Head(frame[t].nodes).node))
  <2>1. /\ frame' = [frame EXCEPT ![t].pc = "convert", ![t].obj = obj, ![t].new = new]
        /\ frame[t].pc = "load" /\ Head(frame[t].nodes).key # <<>>
        /\ NextKey(t) \in Registered
        /\ UNCHANGED <<s_datas, var, foreign>>
    BY <1>24 DEF loadKnown
  <2> HIDE DEF obj, new
  <2>2. /\ frame'[t].pc = "convert" /\ frame'[t].obj = obj /\ frame'[t].new = new
        /\ frame'[t].nodes = frame[t].nodes /\ frame'[t].doc = frame[t].doc
        /\ frame'[t].start = frame[t].start
        /\ \A u \in Threads : u # t => frame'[u] = frame[u]
    BY <1>0, <2>1 DEF Frame
  <2>3. Before(t) /\ Given(t)
    BY <1>0, <2>1 DEF Walk
  <2>4. Before(t)' /\ Given(t)'
    BY <2>1, <2>2, <2>3 DEF Before, Given, Done
  <2>5. NextKey(t)' = NextKey(t) /\ NextKey(t) \in Names
    BY <1>0, <2>1, <2>2 DEF NextKey, Registered
  <2>6. AtHand(t)'
    BY <2>1, <2>2, <2>5 DEF AtHand, obj, new
  <2>7. Walk(t)'
    BY <2>4, <2>6 DEF Walk
  <2>8. QED
    BY <1>1, <2>1, <2>2, <2>7
<1>25. ASSUME NEW t \in Threads, setValueDiffers(t)
       PROVE  WalkInv'
  BY <1>10, <1>25 DEF setValueDiffers, Loading, Setting
<1>26. ASSUME NEW t \in Threads, notified(t)
       PROVE  WalkInv'
  BY <1>10, <1>26 DEF notified, Loading, Setting
<1>27. ASSUME NEW t \in Threads, assignBegin(t)
       PROVE  WalkInv'
  BY <1>10, <1>27 DEF assignBegin, Loading, Setting
<1>28. ASSUME NEW t \in Threads, listenerLooksUp(t)
       PROVE  WalkInv'
  BY <1>3, <1>5, <1>28 DEF listenerLooksUp, Loading, Setting
<1>29. ASSUME NEW t \in Threads, listenerLookup(t)
       PROVE  WalkInv'
  BY <1>3, <1>5, <1>29 DEF listenerLookup, Loading, Setting
\* A variable whose listener threw no longer counts for t.
<1>30. ASSUME NEW t \in Threads, listenerThrows(t)
       PROVE  WalkInv'
  <2>1. /\ frame[t].pc \in Loading /\ Skip(t) /\ UNCHANGED s_datas
        /\ OwnMutex(t, RdUnlocked(Own(t).mutex, t))
        /\ foreign' = [foreign EXCEPT ![t] = @ \cup {frame[t].obj}]
    BY <1>30 DEF listenerThrows, Loading, Setting
  <2>2. Steady /\ \A i \in 1 .. Len(var) : var'[i].val = var[i].val
    BY <1>9, <2>1
  <2>3. Grown /\ NameInv'
    BY <1>0, <2>2, SteadyKeeps
  <2>4. frame[t].obj \in 1 .. Len(var) /\ frame[t].nodes # <<>> /\ Before(t)
    BY <1>8, <2>1
  <2>5. /\ foreign' \in [Threads -> SUBSET Nat]
        /\ foreign'[t] = foreign[t] \cup {frame[t].obj}
        /\ \A u \in Threads : u # t => foreign'[u] = foreign[u]
    BY <1>0, <2>1, <2>4
  <2>6. ASSUME NEW i \in (1 .. Len(frame[t].start)) \ foreign'[t]
        PROVE  /\ Answer(frame[t].start[i], Head(frame[t].nodes)) = <<>>
               /\ var'[i].val = var[i].val
    <3>1. i # frame[t].obj /\ i \in 1 .. Len(var)
      BY <1>0, <2>4, <2>5, WalkTypes DEF Before
    <3>2. QED
      BY <1>0, <2>1, <2>2, <3>1, OwnAnswer
  <2>7. Walk(t)'
    BY <1>0, <1>6, <2>1, <2>3, <2>4, <2>5, <2>6, WalkSkips
  <2>8. OthersKeep(t)
    BY <1>6, <2>1, <2>2, <2>5 DEF OthersKeep, ValuesKept
  <2>9. QED
    BY <2>3, <2>7, <2>8, WalkInvFrom
\* The value read from the node becomes the variable's.
<1>31. ASSUME NEW t \in Threads, assignEnd(t)
       PROVE  WalkInv'
  <2> DEFINE v == [Own(t) EXCEPT !.val = frame[t].new[1], !.mutex = WrUnlocked(@)]
  <2>1. /\ frame[t].pc \in Loading /\ frame[t].pc \in Setting /\ Skip(t) /\ UNCHANGED s_datas
        /\ foreign' = [u \in Threads |-> IF u = t THEN foreign[u]
                                         ELSE foreign[u] \cup {frame[t].obj}]
    BY <1>31 DEF assignEnd, Loading, Setting
  <2>2. /\ frame[t].obj \in 1 .. Len(var) /\ frame[t].nodes # <<>> /\ Before(t)
        /\ Own(t) \in VarType /\ frame[t].pc \in Working
    BY <1>8, <2>1
  <2>3. frame[t].new # <<>>
    BY <2>1 DEF IInv, WorkInv, Equipped
  <2>4. var' = [var EXCEPT ![frame[t].obj] = v]
    BY <1>31 DEF assignEnd, Own
  <2>5. v.name = Own(t).name /\ v.type = Own(t).type /\ v.val = frame[t].new[1]
    BY <2>2 DEF VarType
  <2> HIDE DEF v
  <2>6. /\ Steady
        /\ \A i \in 1 .. Len(var) : var'[i] = IF i = frame[t].obj THEN v ELSE var[i]
    BY <2>1, <2>2, <2>4, <2>5, OwnChanged
  <2>7. Grown /\ NameInv'
    BY <1>0, <2>6, SteadyKeeps
  <2>8. ASSUME NEW i \in (1 .. Len(frame[t].start)) \ foreign'[t]
        PROVE  var'[i].val = IF Answer(frame[t].start[i], Head(frame[t].nodes)) = <<>>
                             THEN var[i].val
                             ELSE Answer(frame[t].start[i], Head(frame[t].nodes))[1]
    <3>1. i \in 1 .. Len(var)
      BY <1>0, <2>2, WalkTypes DEF Before
    <3>2. Answer(frame[t].start[i], Head(frame[t].nodes)) =
            IF i = frame[t].obj THEN frame[t].new ELSE <<>>
      BY <1>0, <2>1, OwnAnswer
    <3>3. QED
      BY <2>3, <2>5, <2>6, <3>1, <3>2
  <2>9. foreign[t] \subseteq foreign'[t]
    BY <2>1
  <2>10. Walk(t)'
    BY <1>0, <1>6, <2>1, <2>2, <2>7, <2>8, <2>9, WalkSkips
  <2>11. foreign' \in [Threads -> SUBSET Nat]
    BY <1>0, <2>1, <2>2
  <2>12. ASSUME NEW u \in Threads, u # t
         PROVE  frame'[u] = frame[u] /\ ValuesKept(u)
    BY <1>6, <2>1, <2>6, <2>12 DEF ValuesKept
  <2>13. QED
    BY <2>7, <2>10, <2>11, <2>12, WalkInvFrom DEF OthersKeep
<1>32. CASE UNCHANGED vars
  BY <1>4, <1>32 DEF vars
<1>33. QED
  <2>1. ASSUME NEW t \in Threads, Call(t)
        PROVE  WalkInv'
    BY <2>1, <1>12, <1>13, <1>14, <1>15, <1>16, <1>19 DEF Call
  <2>2. ASSUME NEW t \in Threads, describe(t) \/ visitEnd(t) \/ loadEnd(t)
        PROVE  WalkInv'
    BY <2>2, <1>18 DEF describe, visitEnd, loadEnd
  <2>3. ASSUME NEW t \in Threads, Continue(t)
        PROVE  WalkInv'
    BY <2>2, <2>3, <1>11, <1>17, <1>20, <1>21, <1>22, <1>23, <1>24, <1>25, <1>26, <1>27, <1>28,
       <1>29, <1>30, <1>31 DEF Continue
  <2>4. QED
    BY <1>32, <2>1, <2>3 DEF Next

\* Every reachable state satisfies the invariant.
THEOREM WalkInvariance == Spec => []WalkInv
<1>1. WalkInv /\ IInv /\ [Next]_vars => WalkInv'
  BY WalkStep
<1>2. QED
  BY <1>1, InitWalk, Invariance, PTL DEF Spec

\* At the end of LoadFromYaml every variable that was registered at its begin has the
\* value of the last node for its name that converts, or its old value if there is none,
\* unless another thread set it or its listener threw (config.cpp:38-60): whatever else
\* the document holds, and whatever the other threads look up, visit or load meanwhile.
THEOREM LoadsWhatIsAsked == Spec => []LoadedAsWritten
<1>1. IInv /\ WalkInv => LoadedAsWritten
  <2> SUFFICES ASSUME IInv, WalkInv, NEW t \in Threads,
                      frame[t].pc = "load", frame[t].nodes = <<>>,
                      NEW i \in DOMAIN frame[t].start \ foreign[t]
               PROVE  var[i].val = Asked(frame[t].start[i], ListAll(frame[t].doc),
                                         Len(ListAll(frame[t].doc)))
      BY DEF LoadedAsWritten
  <2>1. Before(t) /\ Given(t)
    BY DEF WalkInv, Walk
  <2>2. i \in (1 .. Len(frame[t].start)) \ foreign[t]
    BY WalkTypes
  <2>3. Len(ListAll(frame[t].doc)) \in Nat
    BY <2>1, ListTypes DEF Before
  <2>4. Done(frame[t]) = Len(ListAll(frame[t].doc))
    BY <2>3, EmptySeq DEF Done
  <2>5. QED
    BY <2>1, <2>2, <2>4 DEF Given
<1>2. QED
  BY <1>1, Invariance, WalkInvariance, PTL

\* What ListAllMember lists for a name (config.cpp:12-31) is what the document has for it,
\* in document order: any names, any finite documents.  A load starts from a document.
THEOREM ListsAreWhatIsWritten == Spec => []ListsWhatIsWritten
<1>1. IInv /\ WalkInv => ListsWhatIsWritten
  <2> SUFFICES ASSUME IInv, WalkInv, NEW t \in Threads, frame[t].pc = "load",
                      NEW n \in Names \ (Invalid \cup {<<>>})
               PROVE  NodesFor(frame[t].doc, n) = NodesAt(frame[t].doc, n)
    BY DEF ListsWhatIsWritten
  <2>1. frame[t].doc \in AllDocs
    BY DEF WalkInv, Walk, Before
  <2>2. frame[t].doc \in Node
    BY <2>1, ConfigAssumption DEF AllDocs
  <2>3. n \in Seq(Parts) /\ ValidName(n)
    BY NamesAreLower
  <2>4. QED
    BY <2>2, <2>3, SameNodes
<1>2. QED
  BY <1>1, Invariance, WalkInvariance, PTL DEF Spec

------------------------------------------------------------------------------
(***************************************************************************)
(* Printing and reading back.  A variable has a value of its type, and     *)
(* for every value of a type the printed text converts to that value: the  *)
(* element conversions do, and a container prints each of its elements     *)
(* once.                                                                   *)
(***************************************************************************)

\* The conversions of the containers that the types use, as the templates give them: the
\* operators of Yaml are the same in every instance of Containers.
LEMMA SameSeq ==
  ASSUME NEW S
  PROVE  OfInt!SetToSeq(S) = SetToSeq(S)
  BY DEF OfInt!SetToSeq, SetToSeq, OfInt!IsInjective, IsInjective, OfInt!Cardinality, Cardinality

LEMMA IntSetConversions ==
  /\ \A text :
       LET items == Elements(Load(text))
           values == AllOrNothing([i \in DOMAIN items |-> IntFrom(items[i])])
       IN  IntSetFrom(text) = IF values = <<>> THEN <<>> ELSE <<Range(values[1])>>
  /\ \A v : IntSetTo(v) = Pushed([i \in DOMAIN SetToSeq(v) |-> Load(IntTo(SetToSeq(v)[i]))])
<1>1. ASSUME NEW text
      PROVE  LET items == Elements(Load(text))
                 values == AllOrNothing([i \in DOMAIN items |-> IntFrom(items[i])])
             IN  IntSetFrom(text) = IF values = <<>> THEN <<>> ELSE <<Range(values[1])>>
  <2>1. OfInt!Elements(OfInt!Load(text)) = Elements(Load(text))
    BY DEF OfInt!Elements, Elements, OfInt!Load, Load, OfInt!Null, Null,
           OfInt!EmptyText, EmptyText
  <2>2. OfInt!VectorFrom(text) =
          LET items == Elements(Load(text))
          IN  AllOrNothing([i \in DOMAIN items |-> IntFrom(items[i])])
    BY <2>1 DEF OfInt!VectorFrom, OfInt!AllOrNothing, AllOrNothing
  <2>3. QED
    BY <2>2 DEF IntSetFrom, OfInt!UnorderedSetFrom, OfInt!SetFrom, OfInt!Range, Range
<1>2. ASSUME NEW v
      PROVE  IntSetTo(v) = Pushed([i \in DOMAIN SetToSeq(v) |-> Load(IntTo(SetToSeq(v)[i]))])
  <2>1. IntSetTo(v) = OfInt!VectorTo(SetToSeq(v))
    BY SameSeq DEF IntSetTo, OfInt!UnorderedSetTo, OfInt!SetTo
  <2>2. QED
    BY <2>1 DEF OfInt!VectorTo, OfInt!Pushed, Pushed, OfInt!Load, Load, OfInt!Null, Null,
                OfInt!EmptyText, EmptyText, OfInt!Sequence, Sequence
<1>3. QED
  BY <1>1, <1>2

LEMMA SetListConversions ==
  /\ \A text :
       LET items == Elements(Load(text))
       IN  OfSet!ListFrom(text) = AllOrNothing([i \in DOMAIN items |-> IntSetFrom(items[i])])
  /\ \A v : OfSet!ListTo(v) = Pushed([i \in DOMAIN v |-> Load(IntSetTo(v[i]))])
<1>1. \A text : OfSet!Elements(OfSet!Load(text)) = Elements(Load(text))
  BY DEF OfSet!Elements, Elements, OfSet!Load, Load, OfSet!Null, Null, OfSet!EmptyText, EmptyText
<1>2. QED
  BY <1>1 DEF OfSet!ListFrom, OfSet!VectorFrom, OfSet!AllOrNothing, AllOrNothing,
              OfSet!ListTo, OfSet!VectorTo, OfSet!Pushed, Pushed, OfSet!Load, Load,
              OfSet!Null, Null, OfSet!EmptyText, EmptyText, OfSet!Sequence, Sequence

LEMMA IntMapConversions ==
  /\ \A text :
       LET node == Load(text)
           entries == IF node.kind = "map" THEN node.entries ELSE <<>>
           values == AllOrNothing([i \in DOMAIN entries |-> IntFrom(entries[i].node)])
       IN  OfInt!UnorderedMapFrom(text) =
             IF values = <<>> \/ (node.kind = "seq" /\ node.items # <<>>) THEN <<>>
             ELSE <<[k \in {entries[i].key : i \in DOMAIN entries} |->
                       values[1][First(entries, k)]]>>
  /\ \A v :
       LET keys == SetToSeq(DOMAIN v)
       IN  OfInt!UnorderedMapTo(v) =
             IF keys = <<>> THEN Null
             ELSE Map([i \in DOMAIN keys |-> Entry(keys[i], Load(IntTo(v[keys[i]])))])
<1>1. \A text : OfInt!Load(text) = Load(text)
  BY DEF OfInt!Load, Load, OfInt!Null, Null, OfInt!EmptyText, EmptyText
<1>2. \A results : OfInt!AllOrNothing(results) = AllOrNothing(results)
  BY DEF OfInt!AllOrNothing, AllOrNothing
<1>3. \A entries, k : OfInt!First(entries, k) = First(entries, k)
  BY DEF OfInt!First, First
<1>4. QED
  BY <1>1, <1>2, <1>3, SameSeq
  DEF OfInt!UnorderedMapFrom, OfInt!MapFrom, OfInt!UnorderedMapTo, OfInt!MapTo,
      OfInt!Null, Null, OfInt!Map, Map, OfInt!Entry, Entry

\* A finite set as a sequence.
LEMMA SetAsSeq ==
  ASSUME NEW S, IsFiniteSet(S)
  PROVE  /\ SetToSeq(S) \in Seq(S) /\ DOMAIN SetToSeq(S) = 1 .. Len(SetToSeq(S))
         /\ \A i, j \in DOMAIN SetToSeq(S) : SetToSeq(S)[i] = SetToSeq(S)[j] => i = j
         /\ Range(SetToSeq(S)) = S
<1> DEFINE n == Cardinality(S)
           s == SetToSeq(S)
<1>1. n \in Nat /\ ExistsBijection(1 .. n, S)
  BY FS_CardinalityType
<1>2. \E f \in [1 .. n -> S] : IsInjective(f)
  BY <1>1 DEF ExistsBijection, Bijection, Injection, IsInjective
<1>3. s \in [1 .. n -> S] /\ IsInjective(s)
  BY <1>2 DEF SetToSeq
<1> HIDE DEF s
<1>4. s \in Injection(1 .. n, S)
  BY <1>3 DEF Injection, IsInjective
<1>5. Cardinality(1 .. n) = Cardinality(S)
  <2>1. n > 0 => n - 1 + 1 = n
    BY <1>1
  <2>2. Cardinality(1 .. n) = IF 1 > n THEN 0 ELSE n - 1 + 1
    BY <1>1, FS_Interval
  <2>3. QED
    BY <1>1, <2>1, <2>2
<1>6. s \in Surjection(1 .. n, S)
  BY <1>4, <1>5, FS_Injection
<1>7. Range(s) = S
  BY <1>3, <1>6 DEF Surjection, Range
<1>8. s \in Seq(S) /\ Len(s) = n
  BY <1>1, <1>3, SeqDef, LenProperties
<1>9. QED
  BY <1>3, <1>7, <1>8 DEF s, IsInjective

\* A loop of conversions that all succeed.
LEMMA AllConvert ==
  ASSUME NEW results, NEW s, s = [i \in DOMAIN s |-> s[i]], DOMAIN results = DOMAIN s,
         \A i \in DOMAIN s : results[i] = <<s[i]>>
  PROVE  AllOrNothing(results) = <<s>>
<1>1. ~ \E i \in DOMAIN results : results[i] = <<>>
  OBVIOUS
<1>2. [i \in DOMAIN results |-> results[i][1]] = s
  OBVIOUS
<1>3. QED
  BY <1>1, <1>2 DEF AllOrNothing

\* One that does not throw converted every element.
LEMMA AllConverted ==
  ASSUME NEW results, AllOrNothing(results) # <<>>
  PROVE  /\ AllOrNothing(results)[1] = [i \in DOMAIN results |-> results[i][1]]
         /\ \A i \in DOMAIN results : results[i] # <<>>
  BY DEF AllOrNothing

\* A node built with push_back holds what was pushed.
LEMMA PushedItems ==
  ASSUME NEW items
  PROVE  Load(Pushed(items)) = Pushed(items) /\ Elements(Pushed(items)) = items
  BY DEF Load, Pushed, Elements, Null, Sequence, EmptyText

LEMMA IntReadsBack ==
  ASSUME NEW v \in Ints
  PROVE  IntFrom(IntTo(v)) = <<v>> /\ Load(IntTo(v)) = IntTo(v)
<1>1. IntTo(v).kind = "scalar" /\ IntTo(v).text = IntText(v) /\ IntTo(v) # EmptyText
  BY DEF IntTo, Scalar, EmptyText
<1>2. (CHOOSE w \in Ints : IntText(w) = IntText(v)) = v
  BY IntTextAssumption
<1>3. QED
  BY <1>1, <1>2 DEF IntFrom, Load

LEMMA IntSetReadsBack ==
  ASSUME NEW v \in SUBSET Ints, IsFiniteSet(v)
  PROVE  IntSetFrom(IntSetTo(v)) = <<v>> /\ Load(IntSetTo(v)) = IntSetTo(v)
<1> DEFINE s == SetToSeq(v)
           items == [i \in DOMAIN s |-> Load(IntTo(s[i]))]
           results == [i \in DOMAIN items |-> IntFrom(items[i])]
<1>1. s \in Seq(v) /\ Range(s) = v /\ s = [i \in DOMAIN s |-> s[i]]
  BY SetAsSeq, LenProperties
<1> HIDE DEF s
<1>2. IntSetTo(v) = Pushed(items)
  BY IntSetConversions DEF s
<1>3. Load(IntSetTo(v)) = IntSetTo(v) /\ Elements(IntSetTo(v)) = items
  BY <1>2, PushedItems
<1>4. \A i \in DOMAIN s : items[i] = IntTo(s[i]) /\ results[i] = <<s[i]>>
  <2>1. \A i \in DOMAIN s : s[i] \in Ints
    BY <1>1 DEF Range
  <2>2. QED
    BY <2>1, IntReadsBack
<1>5. DOMAIN results = DOMAIN s
  OBVIOUS
<1>6. IntSetFrom(IntSetTo(v)) =
        IF AllOrNothing(results) = <<>> THEN <<>> ELSE <<Range(AllOrNothing(results)[1])>>
  BY <1>3, IntSetConversions
<1> HIDE DEF results
<1>7. AllOrNothing(results) = <<s>>
  BY <1>1, <1>4, <1>5, AllConvert
<1>8. QED
  BY <1>1, <1>3, <1>6, <1>7

LEMMA ListReadsBack ==
  ASSUME NEW v \in Seq(SUBSET Ints), \A i \in DOMAIN v : IsFiniteSet(v[i])
  PROVE  OfSet!ListFrom(OfSet!ListTo(v)) = <<v>>
<1> DEFINE items == [i \in DOMAIN v |-> Load(IntSetTo(v[i]))]
           results == [i \in DOMAIN items |-> IntSetFrom(items[i])]
           text == OfSet!ListTo(v)
<1>1. text = Pushed(items)
  BY SetListConversions
<1> HIDE DEF text
<1>2. Load(text) = text /\ Elements(text) = items
  BY <1>1, PushedItems
<1>3. \A i \in DOMAIN v : results[i] = <<v[i]>>
  <2>1. \A i \in DOMAIN v : v[i] \in SUBSET Ints /\ IsFiniteSet(v[i])
    BY LenProperties
  <2>2. QED
    BY <2>1, IntSetReadsBack
<1>4. v = [i \in DOMAIN v |-> v[i]] /\ DOMAIN results = DOMAIN v
  BY LenProperties
<1>5. OfSet!ListFrom(text) = AllOrNothing(results)
  BY <1>2, SetListConversions
<1> HIDE DEF results
<1>6. AllOrNothing(results) = <<v>>
  BY <1>3, <1>4, AllConvert
<1>7. QED
  BY <1>5, <1>6 DEF text

LEMMA MapReadsBack ==
  ASSUME NEW v, IsFiniteSet(DOMAIN v), v \in [DOMAIN v -> Ints]
  PROVE  OfInt!UnorderedMapFrom(OfInt!UnorderedMapTo(v)) = <<v>>
<1> DEFINE keys == SetToSeq(DOMAIN v)
           entries == [i \in DOMAIN keys |-> Entry(keys[i], Load(IntTo(v[keys[i]])))]
           text == OfInt!UnorderedMapTo(v)
           given == IF Load(text).kind = "map" THEN Load(text).entries ELSE <<>>
           results == [i \in DOMAIN given |-> IntFrom(given[i].node)]
           read == [i \in DOMAIN keys |-> v[keys[i]]]
<1>1. /\ DOMAIN keys = 1 .. Len(keys) /\ Len(keys) \in Nat /\ Range(keys) = DOMAIN v
      /\ \A i, j \in DOMAIN keys : keys[i] = keys[j] => i = j
  BY SetAsSeq, LenProperties
<1> HIDE DEF keys
<1>2. text = IF keys = <<>> THEN Null ELSE Map(entries)
  BY IntMapConversions DEF keys
<1> HIDE DEF text
<1>3. /\ given = entries
      /\ ~(Load(text).kind = "seq" /\ Load(text).items # <<>>)
  <2>1. CASE keys = <<>>
    BY <1>2, <2>1 DEF Load, Null, EmptyText
  <2>2. CASE keys # <<>>
    BY <1>2, <2>2 DEF Load, Map, EmptyText
  <2>3. QED
    BY <2>1, <2>2
<1> HIDE DEF given
<1>4. \A i \in DOMAIN keys : keys[i] \in DOMAIN v /\ v[keys[i]] \in Ints
  BY <1>1 DEF Range
<1>5. \A i \in DOMAIN keys : entries[i].key = keys[i] /\ entries[i].node = IntTo(v[keys[i]])
  BY <1>4, IntReadsBack DEF Entry
<1>6. \A i \in DOMAIN keys : results[i] = <<read[i]>>
  BY <1>3, <1>4, <1>5, IntReadsBack
<1>7. DOMAIN results = DOMAIN read /\ read = [i \in DOMAIN read |-> read[i]]
  BY <1>3
<1>8. AllOrNothing(results) = <<read>>
  <2> HIDE DEF results
  <2>1. \A i \in DOMAIN read : results[i] = <<read[i]>>
    BY <1>6
  <2> HIDE DEF read
  <2>2. QED
    BY <1>7, <2>1, AllConvert
<1>9. {entries[i].key : i \in DOMAIN entries} = DOMAIN v
  <2>1. DOMAIN entries = DOMAIN keys
    OBVIOUS
  <2> HIDE DEF entries
  <2>2. {entries[i].key : i \in DOMAIN entries} = {keys[i] : i \in DOMAIN keys}
    BY <1>5, <2>1
  <2>3. QED
    BY <1>1, <2>2 DEF Range
<1>10. \A i \in DOMAIN keys : First(entries, keys[i]) = i
  <2> SUFFICES ASSUME NEW i \in DOMAIN keys
               PROVE  First(entries, keys[i]) = i
      OBVIOUS
  <2>1. \A j \in DOMAIN entries : entries[j].key = keys[i] <=> j = i
    BY <1>1, <1>5
  <2>2. i \in DOMAIN entries /\ i <= i
    BY <1>1
  <2> HIDE DEF entries
  <2>3. QED
    BY <2>1, <2>2 DEF First
<1>11. \A k \in DOMAIN v : read[First(entries, k)] = v[k]
  <2> SUFFICES ASSUME NEW k \in DOMAIN v
               PROVE  read[First(entries, k)] = v[k]
      OBVIOUS
  <2>1. PICK i \in DOMAIN keys : keys[i] = k
    BY <1>1 DEF Range
  <2>2. QED
    BY <1>10, <2>1
<1> HIDE DEF entries, read
<1>12. [k \in DOMAIN v |-> read[First(entries, k)]] = v
  BY <1>11
<1>13. OfInt!UnorderedMapFrom(text) = <<[k \in DOMAIN v |-> read[First(entries, k)]]>>
  <2>1. OfInt!UnorderedMapFrom(text) =
          IF AllOrNothing(results) = <<>> \/ (Load(text).kind = "seq" /\ Load(text).items # <<>>)
          THEN <<>>
          ELSE <<[k \in {given[i].key : i \in DOMAIN given} |->
                    AllOrNothing(results)[1][First(given, k)]]>>
    BY IntMapConversions DEF given
  <2>2. QED
    BY <1>3, <1>8, <1>9, <2>1
<1>14. QED
  BY <1>12, <1>13 DEF text

\* What toString prints of a value is converted back to it, for every type.
LEMMA ReadsBack ==
  ASSUME NEW type \in Types, NEW v, IsValue(type, v)
  PROVE  FromYaml(type, ToYaml(type, v)) = <<v>>
<1>1. CASE type = "int"
  BY <1>1, IntReadsBack DEF IsValue, FromYaml, ToYaml
<1>2. CASE type = "set"
  BY <1>2, IntSetReadsBack DEF IsValue, FromYaml, ToYaml
<1>3. CASE type = "list of set"
  BY <1>3, ListReadsBack DEF IsValue, FromYaml, ToYaml
<1>4. CASE type = "map"
  BY <1>4, MapReadsBack DEF IsValue, FromYaml, ToYaml
<1>5. QED
  BY <1>1, <1>2, <1>3, <1>4, TypesAssumption

------------------------------------------------------------------------------
\* Conversions give values of their type.
LEMMA FiniteRange ==
  ASSUME NEW n \in Nat, NEW s, s = [i \in 1 .. n |-> s[i]]
  PROVE  IsFiniteSet(Range(s))
<1>1. IsFiniteSet(1 .. n)
  BY FS_Interval
<1>2. s \in Surjection(1 .. n, Range(s))
  BY DEF Surjection, Range
<1>3. QED
  BY <1>1, <1>2, FS_Surjection

LEMMA IntConverts ==
  ASSUME NEW text, IntFrom(text) # <<>>
  PROVE  IntFrom(text)[1] \in Ints
  BY DEF IntFrom

\* What fromString is given, and what a container finds in it.
Texts == Node \cup {EmptyText}

LEMMA ElementsOf ==
  ASSUME NEW text \in Texts
  PROVE  /\ \E n \in Nat : DOMAIN Elements(Load(text)) = 1 .. n
         /\ \A i \in DOMAIN Elements(Load(text)) : Elements(Load(text))[i] \in Texts
<1> DEFINE node == Load(text)
<1>1. DOMAIN (<<>>) = 1 .. 0
  OBVIOUS
<1>2. CASE text = EmptyText
  <2>1. Elements(node) = <<>>
    BY <1>2 DEF Load, Null, Elements
  <2>2. QED
    BY <1>1, <2>1
<1>3. CASE text # EmptyText /\ text.kind = "seq"
  <2>1. Elements(node) = text.items
    BY <1>3 DEF Load, Elements
  <2>2. text.items \in Seq(Node)
    BY <1>3, NodeAssumption DEF Texts
  <2>3. /\ DOMAIN text.items = 1 .. Len(text.items) /\ Len(text.items) \in Nat
        /\ \A i \in 1 .. Len(text.items) : text.items[i] \in Node
    BY <2>2, LenProperties, ElementOfSeq
  <2>4. QED
    BY <2>1, <2>3 DEF Texts
<1>4. CASE text # EmptyText /\ text.kind = "map"
  <2>1. Elements(node) = [i \in DOMAIN text.entries |-> EmptyText]
    BY <1>4 DEF Load, Elements
  <2>2. DOMAIN text.entries = 1 .. Len(text.entries) /\ Len(text.entries) \in Nat
    BY <1>4, NodeAssumption, LenProperties DEF Texts
  <2>3. QED
    BY <2>1, <2>2 DEF Texts
<1>5. CASE text # EmptyText /\ text.kind \notin {"seq", "map"}
  <2>1. Elements(node) = <<>>
    BY <1>5 DEF Load, Elements
  <2>2. QED
    BY <1>1, <2>1
<1>6. QED
  BY <1>2, <1>3, <1>4, <1>5

LEMMA IntSetConverts ==
  ASSUME NEW text \in Texts, IntSetFrom(text) # <<>>
  PROVE  IntSetFrom(text)[1] \in SUBSET Ints /\ IsFiniteSet(IntSetFrom(text)[1])
<1> DEFINE items == Elements(Load(text))
           results == [i \in DOMAIN items |-> IntFrom(items[i])]
           s == [i \in DOMAIN items |-> results[i][1]]
<1>1. IntSetFrom(text) =
        IF AllOrNothing(results) = <<>> THEN <<>> ELSE <<Range(AllOrNothing(results)[1])>>
  BY IntSetConversions
<1>2. AllOrNothing(results) # <<>> /\ IntSetFrom(text) = <<Range(AllOrNothing(results)[1])>>
  BY <1>1
<1>3. /\ AllOrNothing(results)[1] = [i \in DOMAIN results |-> results[i][1]]
      /\ \A i \in DOMAIN results : results[i] # <<>>
  <2> HIDE DEF results
  <2>1. QED
    BY <1>2, AllConverted
<1>4. AllOrNothing(results)[1] = s /\ \A i \in DOMAIN items : s[i] \in Ints
  BY <1>3, IntConverts
<1>5. PICK n \in Nat : DOMAIN items = 1 .. n
  BY ElementsOf
<1>6. DOMAIN s = 1 .. n /\ s = [i \in 1 .. n |-> s[i]]
  BY <1>5
<1> HIDE DEF s
<1>7. IsFiniteSet(Range(s)) /\ Range(s) \in SUBSET Ints
  BY <1>4, <1>5, <1>6, FiniteRange DEF Range
<1>8. QED
  BY <1>2, <1>4, <1>7

LEMMA ListConverts ==
  ASSUME NEW text \in Texts, OfSet!ListFrom(text) # <<>>
  PROVE  IsValue("list of set", OfSet!ListFrom(text)[1])
<1> DEFINE items == Elements(Load(text))
           results == [i \in DOMAIN items |-> IntSetFrom(items[i])]
           s == [i \in DOMAIN items |-> results[i][1]]
<1>1. OfSet!ListFrom(text) = AllOrNothing(results)
  BY SetListConversions
<1>2. /\ AllOrNothing(results)[1] = [i \in DOMAIN results |-> results[i][1]]
      /\ \A i \in DOMAIN results : results[i] # <<>>
  <2> HIDE DEF results
  <2>1. QED
    BY <1>1, AllConverted
<1>3. AllOrNothing(results)[1] = s
  BY <1>2
<1>4. \A i \in DOMAIN items : s[i] \in SUBSET Ints /\ IsFiniteSet(s[i])
  <2>1. \A i \in DOMAIN items : items[i] \in Texts
    BY ElementsOf
  <2> HIDE DEF items
  <2>2. QED
    BY <1>2, <2>1, IntSetConverts
<1>5. PICK n \in Nat : DOMAIN items = 1 .. n
  BY ElementsOf
<1>6. s \in Seq(SUBSET Ints) /\ DOMAIN s = DOMAIN items
  <2>1. DOMAIN s = 1 .. n /\ s \in [1 .. n -> SUBSET Ints]
    BY <1>4, <1>5
  <2> HIDE DEF s
  <2>2. QED
    BY <1>5, <2>1, SeqDef
<1> HIDE DEF s
<1>7. QED
  BY <1>1, <1>3, <1>4, <1>6 DEF IsValue

\* insert finds the first entry of a key.
LEMMA FirstEntry ==
  ASSUME NEW n \in Nat, NEW entries, DOMAIN entries = 1 .. n, NEW j \in 1 .. n
  PROVE  First(entries, entries[j].key) \in 1 .. n
<1> DEFINE S == {i \in 1 .. n : entries[i].key = entries[j].key}
<1>1. S \in SUBSET Nat /\ S # {}
  OBVIOUS
<1>2. PICK x \in S : \A y \in S : x <= y
  <2> HIDE DEF S
  <2>1. QED
    BY <1>1, HasLeast
<1>3. \E i \in DOMAIN entries :
        /\ entries[i].key = entries[j].key
        /\ \A k \in DOMAIN entries : entries[k].key = entries[j].key => i <= k
  BY <1>2
<1>4. QED
  BY <1>3 DEF First

LEMMA MapConverts ==
  ASSUME NEW text \in Texts, OfInt!UnorderedMapFrom(text) # <<>>
  PROVE  IsValue("map", OfInt!UnorderedMapFrom(text)[1])
<1> DEFINE node == Load(text)
           entries == IF node.kind = "map" THEN node.entries ELSE <<>>
           results == [i \in DOMAIN entries |-> IntFrom(entries[i].node)]
           keys == {entries[i].key : i \in DOMAIN entries}
           read == [k \in keys |-> AllOrNothing(results)[1][First(entries, k)]]
<1>1. AllOrNothing(results) # <<>> /\ OfInt!UnorderedMapFrom(text) = <<read>>
  BY IntMapConversions
<1>2. PICK n \in Nat : DOMAIN entries = 1 .. n
  <2>1. CASE text # EmptyText /\ text.kind = "map"
    <3>1. DOMAIN text.entries = 1 .. Len(text.entries) /\ Len(text.entries) \in Nat
      BY <2>1, NodeAssumption, LenProperties DEF Texts
    <3>2. QED
      BY <2>1, <3>1 DEF Load
  <2>2. CASE ~(text # EmptyText /\ text.kind = "map")
    <3>1. entries = <<>>
      BY <2>2 DEF Load, Null
    <3>2. QED
      BY <3>1
  <2>3. QED
    BY <2>1, <2>2
<1> HIDE DEF entries
<1>3. /\ AllOrNothing(results)[1] = [i \in DOMAIN results |-> results[i][1]]
      /\ \A i \in DOMAIN results : results[i] # <<>>
  <2> HIDE DEF results
  <2>1. QED
    BY <1>1, AllConverted
<1>4. \A i \in 1 .. n : AllOrNothing(results)[1][i] \in Ints
  BY <1>2, <1>3, IntConverts
<1>5. \A k \in keys : First(entries, k) \in 1 .. n
  BY <1>2, FirstEntry
<1>6. DOMAIN read = keys /\ read \in [keys -> Ints]
  BY <1>4, <1>5
<1>7. IsFiniteSet(keys)
  <2> DEFINE s == [i \in 1 .. n |-> entries[i].key]
  <2>1. keys = Range(s) /\ s = [i \in 1 .. n |-> s[i]]
    BY <1>2 DEF Range
  <2> HIDE DEF s, keys
  <2>2. QED
    BY <2>1, FiniteRange
<1> HIDE DEF read
<1>8. QED
  BY <1>1, <1>6, <1>7 DEF IsValue

LEMMA Converts ==
  ASSUME NEW type \in Types, NEW node \in Node, FromYaml(type, TextOf(node)) # <<>>
  PROVE  IsValue(type, FromYaml(type, TextOf(node))[1])
<1>1. TextOf(node) \in Texts
  BY DEF TextOf, Texts
<1>2. CASE type = "int"
  BY <1>2, IntConverts DEF IsValue, FromYaml
<1>3. CASE type = "set"
  BY <1>1, <1>3, IntSetConverts DEF IsValue, FromYaml
<1>4. CASE type = "list of set"
  BY <1>1, <1>4, ListConverts DEF FromYaml
<1>5. CASE type = "map"
  BY <1>1, <1>5, MapConverts DEF FromYaml
<1>6. QED
  BY <1>2, <1>3, <1>4, <1>5, TypesAssumption

------------------------------------------------------------------------------
\* Every variable has a value of its type.
ValueInv == \A i \in 1 .. Len(var) : IsValue(var[i].type, var[i].val)

LEMMA InitValues == Init => ValueInv
<1> SUFFICES ASSUME Init, NEW i \in 1 .. Len(var)
             PROVE  IsValue(var[i].type, var[i].val)
    BY DEF ValueInv
<1>1. /\ Statics \in Seq([name : Names \ Invalid, type : Types])
      /\ Len(Statics) \in Nat /\ DOMAIN Statics = 1 .. Len(Statics)
  BY ConfigAssumption, LenProperties
<1>2. var = [j \in 1 .. Len(Statics) |->
               New(Statics[j].name, Statics[j].type, Default(Statics[j].type))]
  BY <1>1 DEF Init
<1>3. i \in 1 .. Len(Statics)
  BY <1>1, <1>2
<1>4. Statics[i] \in [name : Names \ Invalid, type : Types]
  BY <1>1, <1>3, ElementOfSeq
<1>5. var[i].type = Statics[i].type /\ var[i].val = Default(Statics[i].type)
  BY <1>2, <1>3 DEF New
<1>6. QED
  BY <1>4, <1>5, TypesAssumption

\* Every step keeps the invariant: a new variable has its default value, and what
\* setValue is given was converted to the variable's type.
LEMMA ValueStep == IInv /\ WalkInv /\ ValueInv /\ [Next]_vars => ValueInv'
<1> SUFFICES ASSUME IInv, WalkInv, ValueInv, [Next]_vars
             PROVE  ValueInv'
    OBVIOUS
<1>1. /\ var \in Seq(VarType) /\ Len(var) \in Nat /\ DOMAIN var = 1 .. Len(var)
      /\ \A i \in 1 .. Len(var) : var[i] \in VarType
  BY LenProperties, ElementOfSeq DEF IInv, TypeInv
<1>2. ASSUME NEW t \in Threads, frame[t].pc \in Loading
      PROVE  frame[t].obj \in 1 .. Len(var) /\ Own(t) \in VarType
  BY <1>1, <1>2 DEF Own, IInv, WorkInv, Equipped, Working
<1>3. ASSUME UNCHANGED var
      PROVE  ValueInv'
  BY <1>3 DEF ValueInv
\* The variable at work gets another lock or value.
<1>4. ASSUME NEW t \in Threads, frame[t].pc \in Loading, NEW v,
             var' = [var EXCEPT ![frame[t].obj] = v], IsValue(v.type, v.val)
      PROVE  ValueInv'
  <2>1. var = [i \in 1 .. Len(var) |-> var[i]]
    BY <1>1, LenProperties, SeqDef
  <2>2. /\ Len(var') = Len(var)
        /\ \A i \in 1 .. Len(var) : var'[i] = IF i = frame[t].obj THEN v ELSE var[i]
    BY <1>1, <1>2, <1>4, <2>1
  <2>3. QED
    BY <1>4, <2>2 DEF ValueInv
<1>5. ASSUME NEW t \in Threads, frame[t].pc \in Loading, NEW m, OwnMutex(t, m)
      PROVE  ValueInv'
  <2> DEFINE v == [Own(t) EXCEPT !.mutex = m]
  <2>1. v.type = Own(t).type /\ v.val = Own(t).val
    BY <1>2, <1>5 DEF VarType
  <2>2. var' = [var EXCEPT ![frame[t].obj] = v]
    BY <1>5 DEF OwnMutex, Own
  <2> HIDE DEF v
  <2>3. IsValue(v.type, v.val)
    BY <1>2, <1>5, <2>1 DEF ValueInv, Own
  <2>4. QED
    BY <1>4, <1>5, <2>2, <2>3
<1>6. ASSUME NEW t \in Threads, create(t)
      PROVE  ValueInv'
  <2>0. PICK n \in Names \ Invalid, type \in Types :
          var' = Append(var, New(n, type, Default(type)))
    BY <1>6, Creates
  <2> DEFINE v == New(n, type, Default(type))
  <2>1. var' = Append(var, v) /\ v \in VarType /\ v.type = type /\ v.val = Default(type)
    BY <2>0, NewVar DEF New
  <2> HIDE DEF v
  <2>2. /\ Len(var') = Len(var) + 1 /\ var'[Len(var) + 1] = v
        /\ \A i \in 1 .. Len(var) : var'[i] = var[i]
    BY <1>1, <2>1, AppendProperties
  <2>3. \A i \in 1 .. Len(var') : i \in 1 .. Len(var) \/ i = Len(var) + 1
    BY <1>1, <2>2
  <2>4. QED
    BY <2>1, <2>2, <2>3, TypesAssumption DEF ValueInv
<1>7. ASSUME NEW t \in Threads, assignEnd(t)
      PROVE  ValueInv'
  <2> DEFINE v == [Own(t) EXCEPT !.val = frame[t].new[1], !.mutex = WrUnlocked(@)]
  <2>1. frame[t].pc \in Loading /\ frame[t].pc \in Setting
    BY <1>7 DEF assignEnd, At, Loading, Setting
  <2>2. frame[t].new # <<>> /\ frame[t].nodes # <<>> /\ AtHand(t)
    BY <2>1 DEF IInv, WorkInv, Equipped, WalkInv, Walk
  <2>3. Head(frame[t].nodes).node \in Node
    <3>1. Head(frame[t].nodes) \in Listed
      BY <2>2, WalkTypes, HeadTailProperties
    <3>2. \A n \in Listed : n.node \in Node
      BY DEF Listed
    <3>3. QED
      BY <3>1, <3>2
  <2>4. Own(t).type \in Types /\ Own(t) = var[frame[t].obj]
    BY <1>2, <2>1 DEF VarType, Own
  <2>5. IsValue(Own(t).type, frame[t].new[1])
    BY <2>2, <2>3, <2>4, Converts DEF AtHand
  <2>6. var' = [var EXCEPT ![frame[t].obj] = v]
    BY <1>7 DEF assignEnd, Own
  <2>7. v.type = Own(t).type /\ v.val = frame[t].new[1]
    BY <1>2, <2>1 DEF VarType
  <2> HIDE DEF v
  <2>8. QED
    BY <1>4, <2>1, <2>5, <2>6, <2>7
<1>8. ASSUME NEW t \in Threads, setValueDiffers(t) \/ listenerThrows(t)
                                \/ notified(t) \/ assignBegin(t)
      PROVE  ValueInv'
  BY <1>5, <1>8 DEF setValueDiffers, listenerThrows, notified, assignBegin, At, Loading, Setting
<1>9. ASSUME NEW t \in Threads, Call(t)
      PROVE  ValueInv'
  BY <1>3, <1>9 DEF Call, LookupInvalid, LookupAbsent, LookupExisting, LookupMismatch,
     LookupOnly, Visit, LoadFromYaml
<1>10. ASSUME NEW t \in Threads, Continue(t)
       PROVE  ValueInv'
  BY <1>3, <1>6, <1>7, <1>8, <1>10 DEF Continue, describe, visitNext, visitEnd, loadUnnamed,
     loadUnknown, loadKnown, loadEnd, convertFails, setValueSame, listenerLooksUp, listenerLookup
<1>11. QED
  BY <1>3, <1>9, <1>10 DEF Next, vars

\* toString and fromString are inverses on every value a variable ever has, the defaults
\* and what was loaded, for every type of the program: what Visit prints could be
\* loaded again (config.h:325, config.h:338).
THEOREM ValuesReadBack == Spec => []PrintsReadBack
<1>1. IInv /\ WalkInv /\ ValueInv /\ [Next]_vars => ValueInv'
  BY ValueStep
<1>2. IInv /\ ValueInv => PrintsReadBack
  <2> SUFFICES ASSUME IInv, ValueInv, NEW i \in DOMAIN var
               PROVE  FromYaml(var[i].type, ToYaml(var[i].type, var[i].val)) = <<var[i].val>>
      BY DEF PrintsReadBack
  <2>1. i \in 1 .. Len(var) /\ var[i] \in VarType
    BY LenProperties, ElementOfSeq DEF IInv, TypeInv
  <2>2. var[i].type \in Types
    BY <2>1 DEF VarType
  <2>3. QED
    BY <2>1, <2>2, ReadsBack DEF ValueInv
<1>3. QED
  BY <1>1, <1>2, InitValues, Invariance, WalkInvariance, PTL DEF Spec

------------------------------------------------------------------------------
(***************************************************************************)
(* Deadlock.  A variable is locked for reading by a thread in its listener *)
(* and for writing by a thread that assigns, which waits for nothing; what *)
(* is left of a walk through the registry is registered.                   *)
(***************************************************************************)
Listening == {"notify", "lookup", "notified"}

\* What the lock m of variable i says of thread t, whose record is f, and what those of
\* all variables say.
LockSays(t, f, i, m) ==
  /\ t \in m.readers => f.pc \in Listening /\ f.obj = i
  /\ m.writer = t => f.pc = "assign" /\ f.obj = i

HeldBy(t, f) == \A i \in 1 .. Len(var) : LockSays(t, f, i, var[i].mutex)

\* Nobody but t has got the lock m that had not got old.
OnlyFor(t, m, old) ==
  \A u \in Threads : u # t =>
    /\ u \in m.readers => u \in old.readers
    /\ m.writer = u => old.writer = u

TodoOf(f) == f.pc = "visit" => f.todo \subseteq Registered

HeldInv == \A t \in Threads : HeldBy(t, frame[t]) /\ TodoOf(frame[t])

\* A step of t that leaves the variables, and their locks with it.
LEMMA HeldSame ==
  ASSUME IInv, HeldInv, NEW t \in Threads, NEW f, frame' = [frame EXCEPT ![t] = f],
         UNCHANGED <<s_datas, var>>,
         \/ frame[t].pc \notin Listening \cup {"assign"}
         \/ frame[t].pc \in Listening /\ f.pc \in Listening /\ f.obj = frame[t].obj,
         TodoOf(f)
  PROVE  HeldInv'
<1>1. frame'[t] = f /\ \A u \in Threads : u # t => frame'[u] = frame[u]
  BY DEF IInv, TypeInv
<1>2. HeldBy(t, f)
  BY DEF HeldInv, HeldBy, LockSays, Listening
<1>3. \A u \in Threads : HeldBy(u, frame'[u]) /\ TodoOf(frame'[u])
  BY <1>1, <1>2 DEF HeldInv
<1>4. QED
  BY <1>3 DEF HeldInv, HeldBy, TodoOf, Registered

\* A step of t that changes the variable it works on, and its lock to m.
LEMMA HeldOwn ==
  ASSUME IInv, HeldInv, NEW t \in Threads, NEW f, frame' = [frame EXCEPT ![t] = f],
         UNCHANGED s_datas, frame[t].pc \in Loading, f.pc # "visit",
         NEW v \in VarType, var' = [var EXCEPT ![frame[t].obj] = v],
         OnlyFor(t, v.mutex, Own(t).mutex), LockSays(t, f, frame[t].obj, v.mutex)
  PROVE  HeldInv'
<1> DEFINE o == frame[t].obj
<1>1. /\ frame \in [Threads -> Frame] /\ var \in Seq(VarType) /\ o \in 1 .. Len(var)
      /\ Own(t) = var[o]
  BY DEF IInv, TypeInv, WorkInv, Equipped, Working, Own
<1>2. frame'[t] = f /\ \A u \in Threads : u # t => frame'[u] = frame[u]
  BY <1>1
<1> HIDE DEF o
<1>3. var' = [var EXCEPT ![o] = v]
  BY DEF o
<1>4. Len(var') = Len(var) /\ \A i \in 1 .. Len(var) : var'[i] = IF i = o THEN v ELSE var[i]
  BY <1>1, <1>3, ExceptSeq
<1>5. ASSUME NEW i \in 1 .. Len(var)
      PROVE  LockSays(t, f, i, var'[i].mutex)
  <2>1. CASE i = o
    BY <1>4, <2>1 DEF o
  <2>2. CASE i # o
    BY <1>4, <2>2 DEF HeldInv, HeldBy, LockSays, o
  <2>3. QED
    BY <2>1, <2>2
<1>6. ASSUME NEW u \in Threads, u # t, NEW i \in 1 .. Len(var)
      PROVE  LockSays(u, frame[u], i, var'[i].mutex)
  BY <1>1, <1>4, <1>6 DEF HeldInv, HeldBy, LockSays, OnlyFor
<1>7. \A u \in Threads : \A i \in 1 .. Len(var) : LockSays(u, frame'[u], i, var'[i].mutex)
  BY <1>2, <1>5, <1>6
<1>8. \A u \in Threads : HeldBy(u, frame[u])'
  BY <1>4, <1>7 DEF HeldBy
<1>9. \A u \in Threads : TodoOf(frame[u])'
  BY <1>2 DEF HeldInv, TodoOf, Registered
<1>10. QED
  BY <1>8, <1>9 DEF HeldInv

LEMMA HeldInit == Init => HeldInv
<1> SUFFICES ASSUME Init PROVE HeldInv
    OBVIOUS
<1>1. \A t \in Threads : frame[t].pc = "idle"
  BY IdleFrame DEF Init
<1>2. Len(Statics) \in Nat /\ DOMAIN Statics = 1 .. Len(Statics)
  BY ConfigAssumption, LenProperties
<1>3. Len(var) = Len(Statics) /\ \A i \in 1 .. Len(var) : var[i].mutex = Unlocked
  <2>1. var = [i \in 1 .. Len(Statics) |->
                 New(Statics[i].name, Statics[i].type, Default(Statics[i].type))]
    BY <1>2 DEF Init
  <2>2. Len(var) = Len(Statics)
    BY <1>2, <2>1
  <2>3. QED
    BY <2>1, <2>2 DEF New
<1>4. ASSUME NEW t \in Threads
      PROVE  HeldBy(t, frame[t]) /\ TodoOf(frame[t])
  BY <1>1, <1>3, <1>4, NoThreadAssumption DEF HeldBy, LockSays, TodoOf, Unlocked
<1>5. QED
  BY <1>4 DEF HeldInv

\* Every step keeps what is said of the locks.
LEMMA HeldStep == IInv /\ HeldInv /\ [Next]_vars => HeldInv'
<1> SUFFICES ASSUME IInv, HeldInv, [Next]_vars
             PROVE  HeldInv'
    OBVIOUS
<1> USE DEF Begin, At
<1>0. /\ frame \in [Threads -> Frame] /\ s_datas \in [Names -> Nat]
      /\ var \in Seq(VarType) /\ Len(var) \in Nat
      /\ NoThread \notin Threads
  BY LenProperties, NoThreadAssumption DEF IInv, TypeInv
\* Steps at the places where no variable is locked.
<1>1. ASSUME NEW t \in Threads, NEW f, frame' = [frame EXCEPT ![t] = f], UNCHANGED <<s_datas, var>>,
             frame[t].pc \notin Listening \cup {"assign"}, TodoOf(f)
      PROVE  HeldInv'
  BY <1>1, HeldSame
<1>2. ASSUME UNCHANGED <<s_datas, var, frame>>
      PROVE  HeldInv'
  BY <1>2 DEF HeldInv, HeldBy, TodoOf, Registered
\* The variable of t, when t is inside fromString.
<1>3. ASSUME NEW t \in Threads, frame[t].pc \in Loading
      PROVE  /\ frame[t].obj \in 1 .. Len(var)
             /\ Own(t) \in VarType /\ Own(t).mutex \in RWMutexType
             /\ t \in Own(t).mutex.readers => frame[t].pc \in Listening
             /\ Own(t).mutex.writer = t => frame[t].pc = "assign"
  <2>1. frame[t].obj \in 1 .. Len(var)
    BY <1>3 DEF IInv, WorkInv, Equipped, Working
  <2>2. Own(t) \in VarType
    BY <1>0, <2>1, ElementOfSeq DEF Own
  <2>3. QED
    BY <2>1, <2>2 DEF VarType, HeldInv, HeldBy, LockSays, Own
\* The next record of t, where it goes to another place or to the next node.
<1>4. ASSUME NEW t \in Threads, NEW pc, Goto(t, pc)
      PROVE  \E f : frame' = [frame EXCEPT ![t] = f] /\ f.pc = pc /\ f.obj = frame[t].obj
  <2> DEFINE f == [frame[t] EXCEPT !.pc = pc]
  <2>1. frame' = [frame EXCEPT ![t] = f]
    BY <1>0, <1>4 DEF Goto
  <2>2. f.pc = pc /\ f.obj = frame[t].obj
    BY <1>0 DEF Frame
  <2> HIDE DEF f
  <2>3. QED
    BY <2>1, <2>2
<1>5. ASSUME NEW t \in Threads, Skip(t)
      PROVE  \E f : frame' = [frame EXCEPT ![t] = f] /\ f.pc = "load"
  <2> DEFINE f == [frame[t] EXCEPT !.pc = "load", !.nodes = Tail(@), !.obj = 0, !.new = <<>>]
  <2>1. frame' = [frame EXCEPT ![t] = f]
    BY <1>0, <1>5 DEF Skip
  <2>2. f.pc = "load"
    BY <1>0 DEF Frame
  <2> HIDE DEF f
  <2>3. QED
    BY <2>1, <2>2
\* The variable of t gets another lock.
<1>6. ASSUME NEW t \in Threads, frame[t].pc \in Loading, NEW m \in RWMutexType, OwnMutex(t, m),
             NEW f, frame' = [frame EXCEPT ![t] = f], UNCHANGED s_datas, f.pc # "visit",
             OnlyFor(t, m, Own(t).mutex), LockSays(t, f, frame[t].obj, m)
      PROVE  HeldInv'
  <2> DEFINE v == [Own(t) EXCEPT !.mutex = m]
  <2>1. v \in VarType /\ v.mutex = m
    BY <1>3, <1>6 DEF VarType
  <2>2. var' = [var EXCEPT ![frame[t].obj] = v]
    BY <1>6 DEF OwnMutex, Own
  <2> HIDE DEF v
  <2>3. QED
    BY <1>6, <2>1, <2>2, HeldOwn
<1>7. ASSUME NEW t \in Threads, create(t)
      PROVE  HeldInv'
  <2>0. PICK n \in Names \ Invalid, type \in Types :
          /\ s_datas[n] = 0
          /\ var' = Append(var, New(n, type, Default(type)))
          /\ s_datas' = [s_datas EXCEPT ![n] = Len(var) + 1]
    BY <1>7, Creates
  <2> DEFINE v == New(n, type, Default(type))
  <2>1. v \in VarType /\ v.mutex = Unlocked
    BY NewVar DEF New
  <2>2. /\ var' = Append(var, v) /\ s_datas' = [s_datas EXCEPT ![n] = Len(var) + 1]
        /\ frame[t].pc = "create"
        /\ frame'[t] = Idle /\ \A u \in Threads : u # t => frame'[u] = frame[u]
    BY <1>0, <1>7, <2>0 DEF create, Return
  <2> HIDE DEF v
  <2>3. /\ Len(var') = Len(var) + 1 /\ var'[Len(var) + 1] = v
        /\ \A i \in 1 .. Len(var) : var'[i] = var[i]
    BY <1>0, <2>1, <2>2, AppendProperties
  <2>4. v.mutex.readers = {} /\ v.mutex.writer = NoThread
    BY <2>1 DEF Unlocked
  <2>5. ASSUME NEW u \in Threads
        PROVE  HeldBy(u, frame[u])'
    <3>1. ASSUME NEW i \in 1 .. Len(var')
          PROVE  LockSays(u, frame'[u], i, var'[i].mutex)
      <4>1. CASE i = Len(var) + 1
        BY <1>0, <2>3, <2>4, <4>1 DEF LockSays
      <4>2. CASE i \in 1 .. Len(var)
        <5>1. LockSays(u, frame[u], i, var'[i].mutex)
          BY <2>3, <4>2 DEF HeldInv, HeldBy
        <5>2. QED
          BY <2>2, <5>1 DEF LockSays, Listening
      <4>3. QED
        BY <1>0, <2>3, <4>1, <4>2
    <3>2. QED
      BY <3>1 DEF HeldBy
  <2>6. Registered \subseteq Registered'
    BY <1>0, <2>2 DEF Registered
  <2>7. \A u \in Threads : TodoOf(frame[u])'
    BY <2>2, <2>6, IdleFrame DEF HeldInv, TodoOf
  <2>8. QED
    BY <2>5, <2>7 DEF HeldInv
<1>8. ASSUME NEW t \in Threads, Call(t)
      PROVE  HeldInv'
  <2>1. ASSUME NEW n \in Names, LookupInvalid(t, n)
        PROVE  HeldInv'
    BY <1>2, <2>1 DEF LookupInvalid
  <2>2. ASSUME NEW n \in Names, NEW type \in Types, LookupExisting(t, n, type)
        PROVE  HeldInv'
    BY <1>2, <2>2 DEF LookupExisting
  <2>3. ASSUME NEW n \in Names, NEW type \in Types, LookupMismatch(t, n, type)
        PROVE  HeldInv'
    <3> DEFINE f == [frame[t] EXCEPT !.pc = "describe", !.obj = s_datas[n]]
    <3>1. frame' = [frame EXCEPT ![t] = f] /\ UNCHANGED <<s_datas, var>> /\ frame[t].pc = "idle"
      BY <1>0, <2>3 DEF LookupMismatch
    <3>2. f.pc = "describe"
      BY <1>0 DEF Frame
    <3> HIDE DEF f
    <3>3. QED
      BY <1>1, <3>1, <3>2 DEF Listening, TodoOf
  <2>8. ASSUME NEW n \in Names, NEW type \in Types, LookupAbsent(t, n, type)
        PROVE  HeldInv'
    <3> DEFINE f == [frame[t] EXCEPT !.pc = "create", !.made = <<n, type>>]
    <3>1. frame' = [frame EXCEPT ![t] = f] /\ UNCHANGED <<s_datas, var>> /\ frame[t].pc = "idle"
      BY <1>0, <2>8 DEF LookupAbsent
    <3>2. f.pc = "create"
      BY <1>0 DEF Frame
    <3> HIDE DEF f
    <3>3. QED
      BY <1>1, <3>1, <3>2 DEF Listening, TodoOf
  <2>4. CASE LookupOnly(t)
    BY <1>2, <2>4 DEF LookupOnly
  <2>5. CASE Visit(t)
    <3> DEFINE f == [frame[t] EXCEPT !.pc = "visit", !.todo = Registered]
    <3>1. frame' = [frame EXCEPT ![t] = f] /\ UNCHANGED <<s_datas, var>> /\ frame[t].pc = "idle"
      BY <1>0, <2>5 DEF Visit
    <3>2. f.todo = Registered
      BY <1>0 DEF Frame
    <3> HIDE DEF f
    <3>3. QED
      BY <1>1, <3>1, <3>2 DEF Listening, TodoOf
  <2>6. ASSUME NEW doc \in Docs(t), LoadFromYaml(t, doc)
        PROVE  HeldInv'
    <3> DEFINE f == [Idle EXCEPT !.pc = "load", !.nodes = ListAll(doc), !.doc = doc, !.start = var]
    <3>1. frame' = [frame EXCEPT ![t] = f] /\ UNCHANGED <<s_datas, var>> /\ frame[t].pc = "idle"
      BY <2>6 DEF LoadFromYaml
    <3>2. f.pc = "load"
      BY DEF Idle
    <3> HIDE DEF f
    <3>3. QED
      BY <1>1, <3>1, <3>2 DEF Listening, TodoOf
  <2>7. QED
    BY <1>8, <2>1, <2>2, <2>3, <2>4, <2>5, <2>6, <2>8 DEF Call
<1>9. ASSUME NEW t \in Threads, Continue(t)
      PROVE  HeldInv'
  <2>1. CASE describe(t) \/ visitEnd(t) \/ loadEnd(t)
    <3>1. /\ frame' = [frame EXCEPT ![t] = Idle] /\ UNCHANGED <<s_datas, var>>
          /\ frame[t].pc \in {"describe", "visit", "load"}
      BY <2>1 DEF describe, visitEnd, loadEnd, Return
    <3>2. TodoOf(Idle)
      BY IdleFrame DEF TodoOf
    <3>3. QED
      BY <1>1, <3>1, <3>2 DEF Listening
  <2>2. CASE visitNext(t)
    <3>1. PICK n : frame' = [frame EXCEPT ![t].todo = @ \ {n}]
      BY <2>2 DEF visitNext
    <3> DEFINE f == [frame[t] EXCEPT !.todo = @ \ {n}]
    <3>2. frame' = [frame EXCEPT ![t] = f] /\ UNCHANGED <<s_datas, var>> /\ frame[t].pc = "visit"
      BY <1>0, <2>2, <3>1 DEF visitNext
    <3>3. f.todo \subseteq frame[t].todo
      BY <1>0 DEF Frame
    <3>4. TodoOf(f)
      BY <3>2, <3>3 DEF HeldInv, TodoOf
    <3> HIDE DEF f
    <3>5. QED
      BY <1>1, <3>2, <3>4 DEF Listening
  <2>3. CASE loadUnnamed(t) \/ loadUnknown(t) \/ convertFails(t) \/ setValueSame(t)
    <3>1. /\ Skip(t) /\ UNCHANGED <<s_datas, var>> /\ frame[t].pc \in {"load", "convert"}
      BY <2>3 DEF loadUnnamed, loadUnknown, convertFails, setValueSame
    <3>2. PICK f : frame' = [frame EXCEPT ![t] = f] /\ f.pc = "load"
      BY <1>5, <3>1
    <3>3. QED
      BY <1>1, <3>1, <3>2 DEF Listening, TodoOf
  <2>4. CASE loadKnown(t)
    <3>1. PICK obj, new : frame' = [frame EXCEPT ![t].pc = "convert", ![t].obj = obj, ![t].new = new]
      BY <2>4 DEF loadKnown
    <3> DEFINE f == [frame[t] EXCEPT !.pc = "convert", !.obj = obj, !.new = new]
    <3>2. frame' = [frame EXCEPT ![t] = f] /\ UNCHANGED <<s_datas, var>> /\ frame[t].pc = "load"
      BY <1>0, <2>4, <3>1 DEF loadKnown
    <3>3. f.pc = "convert"
      BY <1>0 DEF Frame
    <3> HIDE DEF f
    <3>4. QED
      BY <1>1, <3>2, <3>3 DEF Listening, TodoOf
  <2>5. CASE setValueDiffers(t)
    <3> DEFINE m == RdLocked(Own(t).mutex, t)
    <3>1. /\ OwnMutex(t, m) /\ Goto(t, "notify") /\ UNCHANGED s_datas /\ frame[t].pc = "convert"
      BY <2>5 DEF setValueDiffers
    <3>2. PICK f : frame' = [frame EXCEPT ![t] = f] /\ f.pc = "notify" /\ f.obj = frame[t].obj
      BY <1>4, <3>1
    <3>3. /\ frame[t].pc \in Loading /\ Own(t).mutex \in RWMutexType
          /\ ~ Own(t).mutex.writer = t
      BY <1>3, <3>1 DEF Loading
    <3>4. m \in RWMutexType /\ m.readers = Own(t).mutex.readers \cup {t} /\ m.writer = Own(t).mutex.writer
      BY <3>3, LockTypes DEF RdLocked, RWMutexType
    <3> HIDE DEF m
    <3>5. QED
      BY <1>6, <3>1, <3>2, <3>3, <3>4 DEF Listening, OnlyFor, LockSays
  <2>6. CASE listenerLooksUp(t) \/ listenerLookup(t)
    <3>1. /\ UNCHANGED <<s_datas, var>> /\ frame[t].pc \in {"notify", "lookup"}
          /\ \/ Goto(t, "lookup") 
             \/ Goto(t, "notified")
      BY <2>6 DEF listenerLooksUp, listenerLookup
    <3>2. PICK f : /\ frame' = [frame EXCEPT ![t] = f] /\ f.pc \in {"lookup", "notified"}
                   /\ f.obj = frame[t].obj
      BY <1>4, <3>1
    <3>3. QED
      BY <3>1, <3>2, HeldSame DEF Listening, TodoOf
  <2>7. CASE listenerThrows(t) \/ notified(t)
    <3> DEFINE m == RdUnlocked(Own(t).mutex, t)
    <3>1. /\ OwnMutex(t, m) /\ (Skip(t) \/ Goto(t, "wrlock")) /\ UNCHANGED s_datas
          /\ frame[t].pc \in {"notify", "notified"}
      BY <2>7 DEF listenerThrows, notified
    <3>2. PICK f : frame' = [frame EXCEPT ![t] = f] /\ f.pc \in {"load", "wrlock"}
      BY <1>4, <1>5, <3>1
    <3>3. /\ frame[t].pc \in Loading /\ Own(t).mutex \in RWMutexType
          /\ ~ Own(t).mutex.writer = t
      BY <1>3, <3>1 DEF Loading, Setting
    <3>4. m \in RWMutexType /\ m.readers = Own(t).mutex.readers \ {t} /\ m.writer = Own(t).mutex.writer
      BY <3>3, LockTypes DEF RdUnlocked, RWMutexType
    <3> HIDE DEF m
    <3>5. OnlyFor(t, m, Own(t).mutex) /\ LockSays(t, f, frame[t].obj, m)
      BY <1>0, <3>2, <3>3, <3>4 DEF OnlyFor, LockSays
    <3>6. QED
      BY <1>6, <3>1, <3>2, <3>3, <3>4, <3>5
  <2>8. CASE assignBegin(t)
    <3> DEFINE m == WrLocked(Own(t).mutex, t)
    <3>1. /\ OwnMutex(t, m) /\ Goto(t, "assign") /\ UNCHANGED s_datas /\ frame[t].pc = "wrlock"
          /\ CanWrLock(Own(t).mutex)
      BY <2>8 DEF assignBegin
    <3>2. PICK f : frame' = [frame EXCEPT ![t] = f] /\ f.pc = "assign" /\ f.obj = frame[t].obj
      BY <1>4, <3>1
    <3>3. frame[t].pc \in Loading /\ Own(t).mutex \in RWMutexType
      BY <1>3, <3>1 DEF Loading, Setting
    <3>4. m \in RWMutexType /\ m.readers = {} /\ m.writer = t
      BY <3>1, <3>3, LockTypes DEF WrLocked, CanWrLock, RWMutexType
    <3> HIDE DEF m
    <3>5. OnlyFor(t, m, Own(t).mutex) /\ LockSays(t, f, frame[t].obj, m)
      BY <1>0, <3>2, <3>3, <3>4 DEF OnlyFor, LockSays
    <3>6. QED
      BY <1>6, <3>1, <3>2, <3>3, <3>4, <3>5
  <2>9. CASE assignEnd(t)
    <3> DEFINE v == [Own(t) EXCEPT !.val = frame[t].new[1], !.mutex = WrUnlocked(@)]
    <3>1. /\ Skip(t) /\ UNCHANGED s_datas /\ frame[t].pc = "assign" /\ frame[t].pc \in Loading
          /\ var' = [var EXCEPT ![frame[t].obj] = v]
      BY <2>9 DEF assignEnd, Own, Loading, Setting
    <3>2. PICK f : frame' = [frame EXCEPT ![t] = f] /\ f.pc = "load"
      BY <1>5, <3>1
    <3>3. /\ Own(t) \in VarType /\ WrUnlocked(Own(t).mutex) \in RWMutexType
          /\ t \notin Own(t).mutex.readers
      BY <1>3, <3>1, LockTypes DEF Listening
    <3>4. frame[t].new[1] \in Values
      BY <1>0, <3>1 DEF IInv, WorkInv, Equipped, Setting, Frame, Values
    <3>5. /\ v \in VarType /\ v.mutex.readers = Own(t).mutex.readers /\ v.mutex.writer = NoThread
      BY <3>3, <3>4 DEF VarType, RWMutexType, WrUnlocked
    <3> HIDE DEF v
    <3>6. QED
      BY <1>0, <3>1, <3>2, <3>3, <3>5, HeldOwn DEF OnlyFor, LockSays
  <2>10. QED
    BY <1>7, <1>9, <2>1, <2>2, <2>3, <2>4, <2>5, <2>6, <2>7, <2>8, <2>9 DEF Continue
<1>10. CASE UNCHANGED vars
  BY <1>2, <1>10 DEF vars
<1>11. QED
  BY <1>8, <1>9, <1>10 DEF Next

\* However many threads look up, visit and load, they never come to wait for each other
\* in a circle: the holder of a variable's write lock waits for nothing, so everyone who
\* holds the registry's lock can go on, and with the registry free so can a listener.
THEOREM DeadlockFree == Spec => []NoDeadlock
<1>1. IInv /\ HeldInv => NoDeadlock
  <2> SUFFICES ASSUME IInv, HeldInv, NEW s \in Threads, frame[s].pc # "idle",
                      \A t \in Threads : frame[t].pc # "idle" => ~CanGoOn(t)
               PROVE  FALSE
    BY DEF NoDeadlock
  <2>0. /\ Len(var) \in Nat /\ \A i \in 1 .. Len(var) : var[i].mutex \in RWMutexType
        /\ \A t \in Threads : frame[t].pc \in PCs /\ frame[t].todo \subseteq Names
    <3>1. var \in Seq(VarType) /\ frame \in [Threads -> Frame]
      BY DEF IInv, TypeInv
    <3>2. \A i \in 1 .. Len(var) : var[i] \in VarType
      BY <3>1, ElementOfSeq
    <3>3. QED
      BY <3>1, <3>2, LenProperties DEF VarType, Frame
  <2>1. \A t \in Threads : frame[t].pc \notin {"create", "notify", "notified", "assign"}
    BY DEF CanGoOn
  <2>2. \A i \in 1 .. Len(var) : CanRdLock(var[i].mutex)
    BY <2>0, <2>1 DEF HeldInv, HeldBy, LockSays, CanRdLock, RWMutexType
  <2>3. \A t \in Threads : frame[t].pc \in Working => CanRdLock(Own(t).mutex)
    BY <2>2 DEF IInv, WorkInv, Equipped, Own
  <2>4. ASSUME NEW t \in Threads
        PROVE  frame[t].pc \notin {"describe", "convert"}
    BY <2>3 DEF CanGoOn, Working, Loading
  <2>5. ASSUME NEW t \in Threads, frame[t].pc = "visit"
        PROVE  FALSE
    <3>1. frame[t].todo # {} /\ \A n \in frame[t].todo : ~CanRdLock(var[s_datas[n]].mutex)
      BY <2>5 DEF CanGoOn
    <3>2. PICK n \in frame[t].todo : TRUE
      BY <3>1
    <3>3. n \in Names /\ s_datas[n] # 0
      BY <2>0, <2>5 DEF HeldInv, TodoOf, Registered
    <3>4. s_datas[n] \in 1 .. Len(var)
      BY <2>0, <3>3 DEF IInv, PointerInv
    <3>5. QED
      BY <2>2, <3>1, <3>4
  <2>6. CanWrLock(s_mutex) /\ CanRdLock(s_mutex)
    <3>1. s_mutex \in RWMutexType /\ \A t \in Threads : t \notin s_mutex.readers /\ s_mutex.writer # t
      BY <2>1, <2>4, <2>5 DEF IInv, TypeInv, LockInv, Writing
    <3>2. QED
      BY <3>1 DEF RWMutexType, CanWrLock, CanRdLock
  <2>7. \A t \in Threads : frame[t].pc \notin {"lookup", "load"}
    BY <2>6 DEF CanGoOn
  <2>8. \A i \in 1 .. Len(var) : CanWrLock(var[i].mutex)
    <3>1. \A i \in 1 .. Len(var), t \in Threads : t \notin var[i].mutex.readers
      BY <2>1, <2>7 DEF HeldInv, HeldBy, LockSays, Listening
    <3>2. QED
      BY <2>0, <2>2, <3>1 DEF CanWrLock, CanRdLock, RWMutexType
  <2>9. frame[s].pc = "wrlock"
    BY <2>0, <2>1, <2>4, <2>5, <2>7 DEF PCs, Working, Loading, Setting
  <2>10. CanWrLock(Own(s).mutex)
    BY <2>8, <2>9 DEF IInv, WorkInv, Equipped, Working, Loading, Setting, Own
  <2>11. QED
    BY <2>9, <2>10 DEF CanGoOn
<1>2. IInv /\ HeldInv /\ [Next]_vars => IInv' /\ HeldInv'
  BY StepInv, HeldStep
<1>3. QED
  BY <1>1, <1>2, InitInv, HeldInit, PTL DEF Spec
==============================================================================
