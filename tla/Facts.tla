-------------------------------- MODULE Facts --------------------------------
(***************************************************************************)
(* Facts that the proofs share: what begins a string (the nodes of the      *)
(* tries of config.c and acs.c stand for the strings that lead to them), and *)
(* what a function that is defined by recursion is.                         *)
(***************************************************************************)
EXTENDS Integers, Sequences, FiniteSetTheorems, WellFoundedInduction, TLAPS

\* One more character of a string.
LEMMA OneMore ==
  ASSUME NEW S, NEW k \in Seq(S), NEW i \in 0 .. Len(k) - 1
  PROVE  /\ SubSeq(k, 1, i + 1) = Append(SubSeq(k, 1, i), k[i + 1])
         /\ k[i + 1] \in S
         /\ SubSeq(k, 1, i) \in Seq(S)
OBVIOUS

\* All of a string, and nothing of it.
LEMMA Whole ==
  ASSUME NEW S, NEW k \in Seq(S)
  PROVE  SubSeq(k, 1, Len(k)) = k /\ SubSeq(k, 1, 0) = <<>>
OBVIOUS

\* What begins a string begins the string with one character more.
LEMMA Begins ==
  ASSUME NEW S, NEW p \in Seq(S), NEW c \in S, NEW i \in 1 .. Len(p)
  PROVE  /\ SubSeq(Append(p, c), 1, i - 1) = SubSeq(p, 1, i - 1)
         /\ Append(p, c)[i] = p[i]
OBVIOUS

\* The string itself begins it, before the last character.
LEMMA BeginsLast ==
  ASSUME NEW S, NEW p \in Seq(S), NEW c \in S
  PROVE  /\ Len(Append(p, c)) = Len(p) + 1 /\ Append(p, c) \in Seq(S)
         /\ SubSeq(Append(p, c), 1, Len(p)) = p
         /\ Append(p, c)[Len(p) + 1] = c
OBVIOUS

\* What begins the beginning of a string.
LEMMA BeginsBeginning ==
  ASSUME NEW S, NEW k \in Seq(S), NEW n \in 0 .. Len(k), NEW i \in 1 .. n
  PROVE  /\ Len(SubSeq(k, 1, n)) = n
         /\ SubSeq(SubSeq(k, 1, n), 1, i - 1) = SubSeq(k, 1, i - 1)
         /\ SubSeq(k, 1, n)[i] = k[i]
OBVIOUS

\* What is left of a string, behind the first n characters.
LEMMA Remainder ==
  ASSUME NEW S, NEW k \in Seq(S), NEW n \in 0 .. Len(k)
  PROVE  /\ SubSeq(k, n + 1, Len(k)) = <<>> <=> n = Len(k)
         /\ n < Len(k) =>
              /\ Head(SubSeq(k, n + 1, Len(k))) = k[n + 1] /\ k[n + 1] \in S
              /\ Tail(SubSeq(k, n + 1, Len(k))) = SubSeq(k, n + 1 + 1, Len(k))
<1>. DEFINE r == SubSeq(k, n + 1, Len(k))
<1>1. r \in Seq(S) /\ Len(r) = Len(k) - n
  OBVIOUS
<1>2. n < Len(k) => Head(r) = k[n + 1] /\ k[n + 1] \in S /\ Tail(r) = SubSeq(k, n + 1 + 1, Len(k))
  OBVIOUS
<1>3. r = <<>> <=> Len(r) = 0
  BY <1>1
<1>. HIDE DEF r
<1>4. r = <<>> <=> n = Len(k)
  BY <1>1, <1>3
<1>. QED
  BY <1>2, <1>4 DEF r

\* There is a smallest among numbers.
LEMMA Smallest ==
  ASSUME NEW T \in SUBSET Nat, T # {}
  PROVE  \E c \in T : \A d \in T : c <= d
<1>. DEFINE R == {p \in Nat \X Nat : p[1] < p[2]}
<1>1. IsWellFoundedOn(R, Nat)
  BY NatLessThanWellFounded DEF OpToRel
<1>2. \A d, c \in Nat : <<d, c>> \in R <=> d < c
  OBVIOUS
<1>. HIDE DEF R
<1>3. PICK c \in T : \A d \in T : ~(<<d, c>> \in R)
  BY <1>1, WFMin
<1>4. ASSUME NEW d \in T PROVE c <= d
  <2>1. ~(d < c)
    BY <1>2, <1>3
  <2>. QED
    BY <2>1
<1>. QED
  BY <1>4

\* The function that begins with init and takes the steps F.
Recurs(h, R, n, init, F) ==
  h \in [0 .. n -> R] /\ h[0] = init /\ \A i \in 1 .. n : h[i] = F[<<h[i - 1], i>>]

\* A function that is defined by recursion exists.
LEMMA Recursion ==
  ASSUME NEW R, NEW n \in Nat, NEW init \in R, NEW F \in [R \X (1 .. n) -> R]
  PROVE  \E h : Recurs(h, R, n, init, F)
<1>. DEFINE Defined(h, m) == h[0] = init /\ \A i \in 1 .. m : h[i] = F[<<h[i - 1], i>>]
            T == {m \in 0 .. n : ~\E h \in [0 .. m -> R] : Defined(h, m)}
<1>1. T = {}
  <2>. SUFFICES ASSUME T # {} PROVE FALSE
    OBVIOUS
  <2>1. T \in SUBSET Nat
    OBVIOUS
  <2>. HIDE DEF T
  <2>2. PICK m \in T : \A d \in T : m <= d
    BY <2>1, Smallest
  <2>3. m \in 0 .. n /\ ~\E h \in [0 .. m -> R] : Defined(h, m)
    BY <2>2 DEF T
  <2>4. CASE m = 0
    <3>. DEFINE h == [i \in 0 .. 0 |-> init]
    <3>1. h \in [0 .. 0 -> R] /\ h[0] = init /\ 1 .. 0 = {}
      OBVIOUS
    <3>. QED
      BY <3>1, <2>3, <2>4
  <2>5. CASE m # 0
    <3>1. m - 1 \in 0 .. n /\ m - 1 \notin T /\ m \in 1 .. n
      BY <2>2, <2>3, <2>5
    <3>2. PICK h \in [0 .. m - 1 -> R] : Defined(h, m - 1)
      BY <3>1 DEF T
    <3>. DEFINE k == [i \in 0 .. m |-> IF i = m THEN F[<<h[m - 1], m>>] ELSE h[i]]
    <3>3. h[m - 1] \in R /\ F[<<h[m - 1], m>>] \in R
      BY <3>1, <3>2
    <3>4. k \in [0 .. m -> R]
      BY <3>1, <3>2, <3>3
    <3>5. k[0] = init
      BY <3>1, <3>2
    <3>6. ASSUME NEW i \in 1 .. m PROVE k[i] = F[<<k[i - 1], i>>]
      <4>1. i - 1 \in 0 .. m /\ i - 1 # m /\ k[i - 1] = h[i - 1]
        BY <3>1
      <4>2. CASE i = m
        BY <4>1, <4>2
      <4>3. CASE i # m
        <5>1. i \in 1 .. m - 1 /\ k[i] = h[i]
          BY <4>3, <3>1
        <5>. QED
          BY <5>1, <4>1, <3>2
      <4>. QED
        BY <4>2, <4>3
    <3>. QED
      BY <3>4, <3>5, <3>6, <2>3
  <2>. QED
    BY <2>4, <2>5
<1>2. n \notin T
  BY <1>1
<1>. QED
  BY <1>2 DEF Recurs

\* What holds of 0, and of i + 1 if it holds of i, holds of all.
LEMMA Steps ==
  ASSUME NEW n \in Nat, NEW T, 0 \in T, \A i \in 0 .. n - 1 : i \in T => i + 1 \in T
  PROVE  0 .. n \subseteq T
<1>. DEFINE U == {i \in 0 .. n : i \notin T}
<1>1. U = {}
  <2>. SUFFICES ASSUME U # {} PROVE FALSE
    OBVIOUS
  <2>1. PICK m \in U : \A d \in U : m <= d
    <3>1. U \in SUBSET Nat
      OBVIOUS
    <3>. HIDE DEF U
    <3>. QED
      BY <3>1, Smallest
  <2>2. m # 0 /\ m - 1 \in 0 .. n - 1 /\ m - 1 \notin U
    BY <2>1
  <2>. QED
    BY <2>1, <2>2
<1>. QED
  BY <1>1

\* There is a greatest among finitely many numbers.
LEMMA Greatest ==
  ASSUME NEW T \in SUBSET Nat, T # {}, IsFiniteSet(T)
  PROVE  \E m \in T : \A d \in T : d <= m
<1>1. PICK n \in Nat : ExistsBijection(1 .. n, T)
  BY FS_NatBijection
<1>2. PICK h \in [1 .. n -> T] : \A d \in T : \E i \in 1 .. n : h[i] = d
  BY <1>1 DEF ExistsBijection, Bijection, Surjection, Injection
<1>. DEFINE Bound(i) == \E m \in Nat : \A k \in 1 .. i : h[k] <= m
            U == {i \in 0 .. n : Bound(i)}
            V == {m \in Nat : \A d \in T : d <= m}
<1>3. 0 .. n \subseteq U
  <2>1. 0 \in U
    <3>1. \A k \in 1 .. 0 : h[k] <= 0
      OBVIOUS
    <3>. QED
      BY <3>1
  <2>2. ASSUME NEW i \in 0 .. n - 1, i \in U PROVE i + 1 \in U
    <3>1. PICK m \in Nat : \A k \in 1 .. i : h[k] <= m
      BY <2>2
    <3>2. \A k \in 1 .. n : h[k] \in Nat
      OBVIOUS
    <3>3. i + 1 \in 1 .. n /\ i \in Nat /\ \A k \in 1 .. i + 1 : k \in 1 .. n /\ (k \in 1 .. i \/ k = i + 1)
      OBVIOUS
    <3>4. m + h[i + 1] \in Nat /\ \A k \in 1 .. i + 1 : h[k] <= m + h[i + 1]
      BY <3>1, <3>2, <3>3
    <3>. QED
      BY <3>3, <3>4
  <2>. HIDE DEF U
  <2>. QED
    BY <2>1, <2>2, Steps
<1>4. V # {} /\ V \in SUBSET Nat
  <2>1. PICK m \in Nat : \A k \in 1 .. n : h[k] <= m
    <3>1. n \in 0 .. n
      OBVIOUS
    <3>2. n \in U
      BY <3>1, <1>3
    <3>. QED
      BY <3>2
  <2>2. m \in V
    BY <2>1, <1>2
  <2>. QED
    BY <2>2
<1>5. PICK m \in V : \A d \in V : m <= d
  <2>. HIDE DEF V
  <2>. QED
    BY <1>4, Smallest
<1>6. m \in T
  <2>. SUFFICES ASSUME m \notin T PROVE FALSE
    OBVIOUS
  <2>1. m \in Nat /\ \A d \in T : d \in Nat /\ d < m
    BY <1>5
  <2>2. m - 1 \in Nat /\ \A d \in T : d <= m - 1
    <3>1. PICK d \in T : TRUE
      OBVIOUS
    <3>2. d < m /\ d \in Nat
      BY <2>1, <3>1
    <3>. HIDE DEF V
    <3>. QED
      BY <2>1, <3>2
  <2>3. m - 1 \in V
    BY <2>2
  <2>. QED
    BY <2>3, <1>5
<1>. QED
  BY <1>5, <1>6

=============================================================================
