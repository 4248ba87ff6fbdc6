------------------------- MODULE SubsequencesProofs -------------------------
(***************************************************************************)
(* What Without returns, for every sequence and every set, with the        *)
(* induction these proofs are made by: the induction theorems of the       *)
(* library take the property as an operator, the ones here take the set of *)
(* numbers that have it.                                                   *)
(***************************************************************************)
EXTENDS Subsequences, FiniteSetTheorems, WellFoundedInduction, TLAPS

\* A nonempty set of natural numbers has a least element.
LEMMA LeastNumber ==
    ASSUME NEW P \in SUBSET Nat, P # {}
    PROVE  \E n \in P : \A m \in P : n <= m
<1>1. PICK k \in P : TRUE
  OBVIOUS
<1> DEFINE R == StrictSubsetOrdering(0 .. k)
           T == {0 .. n : n \in {m \in P : m <= k}}
<1>2. IsWellFoundedOn(R, SUBSET (0 .. k))
  <2>1. IsFiniteSet(0 .. k)
    BY FS_Interval
  <2>2. FiniteSubsetsOf(0 .. k) = SUBSET (0 .. k)
    BY <2>1, FS_FiniteSubsetsOfFinite
  <2>3. IsWellFoundedOn(R, FiniteSubsetsOf(0 .. k))
    BY FS_StrictSubsetOrderingWellFounded
  <2> QED
    BY <2>2, <2>3
<1>3. T \subseteq SUBSET (0 .. k) /\ T # {}
  OBVIOUS
<1>4. PICK x \in T : \A y \in T : <<y, x>> \notin R
  <2> HIDE DEF T
  <2> QED
    BY <1>2, <1>3, WFMin
<1>5. PICK n \in P : n <= k /\ x = 0 .. n
  OBVIOUS
<1>6. ASSUME NEW m \in P, m < n
      PROVE  FALSE
  <2>1. 0 .. m \in T /\ 0 .. n \in T
    BY <1>5, <1>6
  <2>2. 0 .. m \subseteq 0 .. n /\ n \in 0 .. n /\ n \notin 0 .. m
    BY <1>6
  <2>3. <<0 .. m, x>> \in R
    BY <1>3, <1>5, <2>1, <2>2 DEF StrictSubsetOrdering
  <2> QED
    BY <1>4, <2>1, <2>3
<1> QED
  BY <1>5, <1>6

\* Induction on the natural numbers.
LEMMA NumbersInduction ==
    ASSUME NEW P \in SUBSET Nat, 0 \in P, \A n \in P : n + 1 \in P
    PROVE  P = Nat
<1> DEFINE Q == Nat \ P
<1> SUFFICES ASSUME Q # {}
             PROVE  FALSE
  OBVIOUS
<1>1. PICK n \in Q : \A m \in Q : n <= m
  <2>1. Q \in SUBSET Nat
    OBVIOUS
  <2> HIDE DEF Q
  <2> QED
    BY <2>1, LeastNumber
<1>2. n # 0 /\ n - 1 \in P
  BY <1>1
<1> QED
  BY <1>2

\* Induction downwards from a number, for functions defined from the end.
LEMMA Downwards ==
    ASSUME NEW N \in Nat, NEW P \in SUBSET (0 .. N), N \in P,
           \A k \in 0 .. N : k < N /\ (\A j \in k + 1 .. N : j \in P) => k \in P
    PROVE  P = 0 .. N
<1> DEFINE Q == {N - k : k \in (0 .. N) \ P}
<1> SUFFICES ASSUME Q # {}
             PROVE  FALSE
  OBVIOUS
<1>1. PICK n \in Q : \A m \in Q : n <= m
  <2>1. Q \in SUBSET Nat
    OBVIOUS
  <2> HIDE DEF Q
  <2> QED
    BY <2>1, LeastNumber
<1>2. PICK k \in (0 .. N) \ P : n = N - k
  BY <1>1
<1>3. ASSUME NEW j \in k + 1 .. N, j \notin P
      PROVE  FALSE
  <2>1. N - j \in Q
    BY <1>3
  <2>2. n <= N - j
    <3> HIDE DEF Q
    <3> QED
      BY <1>1, <2>1
  <2> QED
    BY <1>2, <1>3, <2>2
<1> QED
  BY <1>2, <1>3

-----------------------------------------------------------------------------
\* The function by which Without is defined does what its equations say.
Rest(s, T, g) ==
    g = [n \in 0 .. Len(s) |->
            IF n = 0 THEN <<>>
            ELSE IF s[n] \in T THEN g[n - 1] ELSE Append(g[n - 1], s[n])]

LEMMA RestEquations ==
    ASSUME NEW S, NEW T, NEW s \in Seq(S), NEW g, Rest(s, T, g)
    PROVE  /\ g[0] = <<>>
           /\ \A n \in 1 .. Len(s) :
                  g[n] = IF s[n] \in T THEN g[n - 1]
                         ELSE Append(g[n - 1], s[n])
<1> DEFINE body(n) ==
        IF n = 0 THEN <<>>
        ELSE IF s[n] \in T THEN g[n - 1] ELSE Append(g[n - 1], s[n])
<1>1. \A n \in 0 .. Len(s) : g[n] = body(n)
  <2>1. g = [n \in 0 .. Len(s) |-> body(n)]
    BY DEF Rest
  <2> HIDE DEF body
  <2> QED
    BY <2>1
<1>2. 0 \in 0 .. Len(s)
  OBVIOUS
<1> QED
  BY <1>1, <1>2

LEMMA RestExists ==
    ASSUME NEW S, NEW T, NEW s \in Seq(S)
    PROVE  \E g : Rest(s, T, g)
<1> DEFINE body(g, n) ==
        IF n = 0 THEN <<>>
        ELSE IF s[n] \in T THEN g[n - 1] ELSE Append(g[n - 1], s[n])
    P == {n \in Nat : \E g : g = [m \in 0 .. n |-> body(g, m)]}
<1>1. 0 \in P
  <2>1. [m \in 0 .. 0 |-> <<>>] =
            [m \in 0 .. 0 |-> body([k \in 0 .. 0 |-> <<>>], m)]
    OBVIOUS
  <2> QED
    BY <2>1
<1>2. ASSUME NEW n \in P
      PROVE  n + 1 \in P
  <2>1. PICK g : g = [m \in 0 .. n |-> body(g, m)]
    OBVIOUS
  <2>2. \A m \in 0 .. n : g[m] = body(g, m)
    <3> HIDE DEF body
    <3> QED
      BY <2>1
  <2> DEFINE h == [m \in 0 .. n + 1 |->
                      IF m <= n THEN g[m] ELSE body(g, n + 1)]
  <2>3. \A m \in 0 .. n + 1 : h[m] = body(h, m)
    <3> SUFFICES ASSUME NEW m \in 0 .. n + 1
                 PROVE  h[m] = body(h, m)
      OBVIOUS
    <3>1. m # 0 => m - 1 \in 0 .. n /\ h[m - 1] = g[m - 1]
      OBVIOUS
    <3>2. h[m] = body(g, m)
      <4>1. CASE m <= n
        BY <2>2, <4>1
      <4>2. CASE m = n + 1
        BY <4>2
      <4> QED
        BY <4>1, <4>2
    <3> QED
      BY <3>1, <3>2
  <2>4. h = [m \in 0 .. n + 1 |-> body(h, m)]
    BY <2>3
  <2>5. \E f : f = [m \in 0 .. n + 1 |-> body(f, m)]
    <3> HIDE DEF h
    <3> QED
      BY <2>4
  <2>6. n + 1 \in Nat
    OBVIOUS
  <2> HIDE DEF body
  <2> QED
    BY <2>5, <2>6
<1>3. Len(s) \in P
  <2>1. P \in SUBSET Nat
    OBVIOUS
  <2> HIDE DEF P
  <2>2. \A n \in P : n + 1 \in P
    BY <1>2
  <2>3. P = Nat
    BY <1>1, <2>1, <2>2, NumbersInduction
  <2> QED
    BY <2>3
<1> QED
  BY <1>3 DEF Rest

LEMMA WithoutIsRest ==
    ASSUME NEW S, NEW T, NEW s \in Seq(S)
    PROVE  \E g : Rest(s, T, g) /\ Without(s, T) = g[Len(s)]
<1> DEFINE g == CHOOSE g : Rest(s, T, g)
<1>1. Rest(s, T, g)
  BY RestExists
<1>2. Without(s, T) = g[Len(s)]
  BY DEF Without, Rest
<1> QED
  BY <1>1, <1>2

-----------------------------------------------------------------------------
\* r is the subsequence of s at the places that e lists, which are the places
\* up to n with an element outside T.
Selects(e, r, s, T, n) ==
    /\ e \in [1 .. Len(r) -> 1 .. n]
    /\ \A i, j \in 1 .. Len(r) : i < j => e[i] < e[j]
    /\ \A i \in 1 .. Len(r) : r[i] = s[e[i]] /\ s[e[i]] \notin T
    /\ \A a \in 1 .. n : s[a] \notin T => \E i \in 1 .. Len(r) : e[i] = a

LEMMA SelectsNext ==
    ASSUME NEW S, NEW T, NEW s \in Seq(S), NEW r \in Seq(S), NEW n \in Nat,
           n + 1 <= Len(s), NEW e, Selects(e, r, s, T, n)
    PROVE  \E f : Selects(f, IF s[n + 1] \in T THEN r ELSE Append(r, s[n + 1]),
                          s, T, n + 1)
<1>1. CASE s[n + 1] \in T
  <2>1. Selects(e, r, s, T, n + 1)
    BY <1>1 DEF Selects
  <2> QED
    BY <1>1, <2>1
<1>2. CASE s[n + 1] \notin T
  <2> DEFINE q == Append(r, s[n + 1])
             f == [i \in 1 .. Len(r) + 1 |->
                      IF i <= Len(r) THEN e[i] ELSE n + 1]
  <2>1. /\ Len(q) = Len(r) + 1
        /\ \A i \in 1 .. Len(r) : q[i] = r[i]
        /\ q[Len(r) + 1] = s[n + 1]
    OBVIOUS
  <2>2. /\ \A i \in 1 .. Len(r) : f[i] = e[i] /\ e[i] \in 1 .. n
        /\ f[Len(r) + 1] = n + 1
    BY DEF Selects
  <2> HIDE DEF q
  <2>3. f \in [1 .. Len(q) -> 1 .. n + 1]
    BY <2>1 DEF Selects
  <2> HIDE DEF f
  <2>4. ASSUME NEW i \in 1 .. Len(q), NEW j \in 1 .. Len(q), i < j
        PROVE  f[i] < f[j]
    <3>1. i \in 1 .. Len(r) /\ f[i] = e[i] /\ e[i] \in 1 .. n
      BY <2>1, <2>2, <2>4
    <3>2. CASE j = Len(r) + 1
      BY <2>2, <3>1, <3>2
    <3>3. CASE j \in 1 .. Len(r)
      BY <2>2, <2>4, <3>1, <3>3 DEF Selects
    <3> QED
      BY <2>1, <3>2, <3>3
  <2>5. ASSUME NEW i \in 1 .. Len(q)
        PROVE  q[i] = s[f[i]] /\ s[f[i]] \notin T
    <3>1. CASE i = Len(r) + 1
      BY <1>2, <2>1, <2>2, <3>1
    <3>2. CASE i \in 1 .. Len(r)
      BY <2>1, <2>2, <3>2 DEF Selects
    <3> QED
      BY <2>1, <3>1, <3>2
  <2>6. ASSUME NEW a \in 1 .. n + 1, s[a] \notin T
        PROVE  \E i \in 1 .. Len(q) : f[i] = a
    <3>1. CASE a = n + 1
      BY <2>1, <2>2, <3>1
    <3>2. CASE a \in 1 .. n
      <4>1. PICK i \in 1 .. Len(r) : e[i] = a
        BY <2>6, <3>2 DEF Selects
      <4> QED
        BY <2>1, <2>2, <4>1
    <3> QED
      BY <3>1, <3>2
  <2>7. Selects(f, q, s, T, n + 1)
    BY <2>3, <2>4, <2>5, <2>6 DEF Selects
  <2> QED
    BY <1>2, <2>7 DEF q
<1> QED
  BY <1>1, <1>2

LEMMA WithoutSelects ==
    ASSUME NEW S, NEW T, NEW s \in Seq(S)
    PROVE  /\ Without(s, T) \in Seq(S)
           /\ \E e : Selects(e, Without(s, T), s, T, Len(s))
<1>1. PICK g : Rest(s, T, g) /\ Without(s, T) = g[Len(s)]
  BY WithoutIsRest
<1>2. /\ g[0] = <<>>
      /\ \A n \in 1 .. Len(s) :
             g[n] = IF s[n] \in T THEN g[n - 1] ELSE Append(g[n - 1], s[n])
  BY <1>1, RestEquations
<1> DEFINE Q(n) == g[n] \in Seq(S) /\ \E e : Selects(e, g[n], s, T, n)
           P == {n \in Nat : n <= Len(s) => Q(n)}
<1>3. 0 \in P
  <2>1. Selects(<<>>, <<>>, s, T, 0)
    BY DEF Selects
  <2>2. Q(0)
    BY <1>2, <2>1
  <2> QED
    BY <2>2
<1>4. ASSUME NEW n \in P
      PROVE  n + 1 \in P
  <2> SUFFICES ASSUME n + 1 <= Len(s)
               PROVE  Q(n + 1)
    OBVIOUS
  <2>1. Q(n)
    OBVIOUS
  <2>2. g[n + 1] = IF s[n + 1] \in T THEN g[n] ELSE Append(g[n], s[n + 1])
    BY <1>2
  <2>3. s[n + 1] \in S
    OBVIOUS
  <2>4. PICK e : Selects(e, g[n], s, T, n)
    BY <2>1
  <2>5. \E f : Selects(f, g[n + 1], s, T, n + 1)
    BY <2>1, <2>2, <2>4, SelectsNext
  <2>6. g[n + 1] \in Seq(S)
    BY <2>1, <2>2, <2>3
  <2> QED
    BY <2>5, <2>6
<1>5. P = Nat
  <2>1. P \in SUBSET Nat
    OBVIOUS
  <2> HIDE DEF P
  <2>2. \A n \in P : n + 1 \in P
    BY <1>4
  <2> QED
    BY <1>3, <2>1, <2>2, NumbersInduction
<1>6. Q(Len(s))
  <2>1. Len(s) \in P
    BY <1>5
  <2> QED
    BY <2>1
<1> QED
  BY <1>1, <1>6

\* What the callers use.  Nothing of T is left, nothing else is lost, and the
\* order stays.
LEMMA WithoutProperties ==
    ASSUME NEW S, NEW T, NEW s \in Seq(S)
    PROVE  /\ Without(s, T) \in Seq(S \ T)
           /\ \A i \in DOMAIN Without(s, T) :
                  \E a \in DOMAIN s : Without(s, T)[i] = s[a]
           /\ \A a \in DOMAIN s : s[a] \notin T =>
                  \E i \in DOMAIN Without(s, T) : Without(s, T)[i] = s[a]
           /\ \A i, j \in DOMAIN Without(s, T) : i < j =>
                  \E a, b \in DOMAIN s : /\ a < b
                                         /\ Without(s, T)[i] = s[a]
                                         /\ Without(s, T)[j] = s[b]
<1> DEFINE r == Without(s, T)
<1>1. r \in Seq(S)
  BY WithoutSelects
<1>2. PICK e : Selects(e, r, s, T, Len(s))
  BY WithoutSelects
<1> HIDE DEF r
<1>3. DOMAIN r = 1 .. Len(r) /\ DOMAIN s = 1 .. Len(s)
  BY <1>1
<1>4. r \in Seq(S \ T)
  <2>1. \A i \in 1 .. Len(r) : r[i] \in S \ T
    BY <1>1, <1>2 DEF Selects
  <2> QED
    BY <1>1, <2>1
<1>5. \A i \in 1 .. Len(r) : e[i] \in 1 .. Len(s) /\ r[i] = s[e[i]]
  BY <1>2 DEF Selects
<1>6. \A a \in 1 .. Len(s) : s[a] \notin T => \E i \in 1 .. Len(r) : r[i] = s[a]
  BY <1>2 DEF Selects
<1>7. \A i, j \in 1 .. Len(r) : i < j => e[i] < e[j]
  BY <1>2 DEF Selects
<1> QED
  BY <1>3, <1>4, <1>5, <1>6, <1>7 DEF r

\* A sequence that has nothing of T stays as it is.
LEMMA WithoutNothing ==
    ASSUME NEW S, NEW T, NEW s \in Seq(S), \A a \in DOMAIN s : s[a] \notin T
    PROVE  Without(s, T) = s
<1>1. PICK g : Rest(s, T, g) /\ Without(s, T) = g[Len(s)]
  BY WithoutIsRest
<1>2. /\ g[0] = <<>>
      /\ \A n \in 1 .. Len(s) : g[n] = Append(g[n - 1], s[n])
  <2>1. /\ g[0] = <<>>
        /\ \A n \in 1 .. Len(s) :
               g[n] = IF s[n] \in T THEN g[n - 1] ELSE Append(g[n - 1], s[n])
    BY <1>1, RestEquations
  <2>2. \A n \in 1 .. Len(s) : s[n] \notin T
    OBVIOUS
  <2> QED
    BY <2>1, <2>2
<1> DEFINE P == {n \in Nat : n <= Len(s) => g[n] = SubSeq(s, 1, n)}
<1>3. 0 \in P
  <2>1. g[0] = SubSeq(s, 1, 0)
    BY <1>2
  <2> QED
    BY <2>1
<1>4. ASSUME NEW n \in P
      PROVE  n + 1 \in P
  <2> SUFFICES ASSUME n + 1 <= Len(s)
               PROVE  g[n + 1] = SubSeq(s, 1, n + 1)
    OBVIOUS
  <2>1. g[n + 1] = Append(g[n], s[n + 1])
    BY <1>2
  <2>2. g[n] = SubSeq(s, 1, n)
    OBVIOUS
  <2> QED
    BY <2>1, <2>2
<1>5. P = Nat
  <2>1. P \in SUBSET Nat
    OBVIOUS
  <2> HIDE DEF P
  <2>2. \A n \in P : n + 1 \in P
    BY <1>4
  <2> QED
    BY <1>3, <2>1, <2>2, NumbersInduction
<1>6. g[Len(s)] = SubSeq(s, 1, Len(s))
  <2>1. Len(s) \in P
    BY <1>5
  <2> QED
    BY <2>1
<1> QED
  BY <1>1, <1>6

=============================================================================
