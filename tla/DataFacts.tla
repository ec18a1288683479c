----------------------------- MODULE DataFacts -----------------------------
(***************************************************************************)
(* Facts about data that several proofs need.  The kernel's intrusive      *)
(* lists (list.c) are modelled as sequences: what inserting at the tail    *)
(* and removing at the head do to the set of the elements of a list, and   *)
(* to the fact that each is linked once.  Searches (bitmap.c) return the   *)
(* least element of a set: that there is one.  A loop is a recursion over  *)
(* the numbers up to a bound: that it computes something, and what is true *)
(* of it when each turn keeps it.                                          *)
(***************************************************************************)
EXTENDS Integers, Sequences, Functions, FiniteSetsExt, WellFoundedInduction, TLAPS

\* A part of a sequence, from one place to another.
LEMMA Excerpt ==
  ASSUME NEW S, NEW s \in Seq(S), NEW m \in Nat, NEW n \in Nat, 1 <= m, m <= n + 1, n <= Len(s)
  PROVE  /\ SubSeq(s, m, n) \in Seq(S) /\ Len(SubSeq(s, m, n)) = n - m + 1
         /\ \A i \in 1 .. n - m + 1 : SubSeq(s, m, n)[i] = s[m + i - 1]
OBVIOUS

\* InsertTailList: the new element is added to the set of elements.
LEMMA RangeAppend ==
  ASSUME NEW S, NEW s \in Seq(S), NEW x \in S
  PROVE  Range(Append(s, x)) = Range(s) \cup {x}
<1>1. /\ Append(s, x) \in Seq(S)
      /\ Len(Append(s, x)) = Len(s) + 1
      /\ Append(s, x)[Len(s) + 1] = x
      /\ \A i \in 1 .. Len(s) : Append(s, x)[i] = s[i]
  OBVIOUS
<1>2. DOMAIN Append(s, x) = 1 .. Len(s) + 1 /\ DOMAIN s = 1 .. Len(s)
  BY <1>1
<1> QED
  BY <1>1, <1>2 DEF Range

\* InsertTailList of an element that is not linked links nothing twice.
LEMMA InjectiveAppend ==
  ASSUME NEW S, NEW s \in Seq(S), NEW x \in S, IsInjective(s), x \notin Range(s)
  PROVE  IsInjective(Append(s, x))
<1>1. /\ Append(s, x) \in Seq(S)
      /\ Len(Append(s, x)) = Len(s) + 1
      /\ Append(s, x)[Len(s) + 1] = x
      /\ \A i \in 1 .. Len(s) : Append(s, x)[i] = s[i]
  OBVIOUS
<1>2. DOMAIN Append(s, x) = 1 .. Len(s) + 1 /\ DOMAIN s = 1 .. Len(s)
  BY <1>1
<1> QED
  BY <1>1, <1>2 DEF Range, IsInjective

\* RemoveHeadList: exactly the first element is removed.
LEMMA RangeTail ==
  ASSUME NEW S, NEW s \in Seq(S), s # <<>>, IsInjective(s)
  PROVE  /\ Head(s) \in Range(s)
         /\ Range(Tail(s)) = Range(s) \ {Head(s)}
         /\ IsInjective(Tail(s))
<1>1. /\ Tail(s) \in Seq(S)
      /\ Len(s) \in Nat /\ Len(s) > 0
      /\ Len(Tail(s)) = Len(s) - 1
      /\ \A i \in 1 .. Len(s) - 1 : Tail(s)[i] = s[i + 1]
      /\ Head(s) = s[1]
  OBVIOUS
<1>2. DOMAIN Tail(s) = 1 .. Len(s) - 1 /\ DOMAIN s = 1 .. Len(s)
  BY <1>1
<1>3. Head(s) \in Range(s)
  BY <1>1, <1>2 DEF Range
<1>4. IsInjective(Tail(s))
  BY <1>1, <1>2 DEF IsInjective
<1>5. Range(Tail(s)) \subseteq Range(s) \ {Head(s)}
  BY <1>1, <1>2 DEF IsInjective, Range
<1>6. Range(s) \ {Head(s)} \subseteq Range(Tail(s))
  <2> SUFFICES ASSUME NEW i \in 1 .. Len(s), s[i] # Head(s)
               PROVE  s[i] \in Range(Tail(s))
    BY <1>2 DEF Range
  <2>1. i - 1 \in 1 .. Len(s) - 1 /\ Tail(s)[i - 1] = s[i]
    BY <1>1
  <2> QED
    BY <2>1, <1>2 DEF Range
<1> QED
  BY <1>3, <1>4, <1>5, <1>6

\* InitializeListHead: a list without elements.
LEMMA EmptyRange == Range(<<>>) = {} /\ IsInjective(<<>>)
BY DEF Range, IsInjective

\* The order on the naturals is well-founded.
LEMMA NatOrder ==
  \E R : IsWellFoundedOn(R, Nat) /\ \A x, y \in Nat : (<<x, y>> \in R) <=> x < y
  <1>1. \A x, y \in Nat : (<<x, y>> \in OpToRel(<, Nat)) <=> x < y
    BY DEF OpToRel
  <1> QED
    BY <1>1, NatLessThanWellFounded

\* A set of naturals that is not empty has a least element, and Min is it.
LEMMA MinIsLeast ==
  ASSUME NEW S \in SUBSET Nat, S # {}
  PROVE  Min(S) \in S /\ \A y \in S : Min(S) <= y
  <1>1. PICK R : IsWellFoundedOn(R, Nat) /\ \A x, y \in Nat : (<<x, y>> \in R) <=> x < y
    BY NatOrder
  <1>2. S \subseteq Nat
    OBVIOUS
  <1>3. PICK x \in S : \A y \in S : ~(<<y, x>> \in R)
    <2>1. IsWellFoundedOn(R, Nat)
      BY <1>1
    <2> QED
      BY <1>2, <2>1, WFMin, Zenon
  <1>4. ASSUME NEW y \in S PROVE x <= y
    <2>1. x \in Nat /\ y \in Nat
      BY <1>2
    <2>2. ~(y < x)
      BY <1>1, <1>3, <2>1, Zenon
    <2> QED
      BY <2>1, <2>2
  <1> QED
    BY <1>4 DEF Min

\* Division by a positive number keeps the order of the naturals.
LEMMA QuotientMonotone ==
  ASSUME NEW a \in Nat, NEW b \in Nat, NEW d \in Nat \ {0}, a <= b
  PROVE  a \div d \in Nat /\ b \div d \in Nat /\ a \div d <= b \div d
OBVIOUS
\* A set of naturals that is not empty and has a bound has a greatest
\* element, and Max is it.
LEMMA MaxIsGreatest ==
  ASSUME NEW n \in Nat, NEW S \in SUBSET (0 .. n), S # {}
  PROVE  Max(S) \in S /\ \A y \in S : Max(S) >= y
  <1> DEFINE below == {k \in 0 .. n : n - k \in S}
  <1>1. below # {} /\ below \in SUBSET Nat
    <2>1. PICK y \in S : TRUE
      OBVIOUS
    <2>2. y \in 0 .. n /\ n - (n - y) = y /\ n - y \in 0 .. n
      BY <2>1
    <2>3. n - y \in below
      BY <2>1, <2>2
    <2>4. below \subseteq Nat
      OBVIOUS
    <2> HIDE DEF below
    <2> QED
      BY <2>3, <2>4
  <1>2. Min(below) \in below /\ \A y \in below : Min(below) <= y
    BY <1>1, MinIsLeast
  <1> DEFINE m == Min(below)
             x == n - m
  <1>a. m \in Nat /\ m <= n /\ \A y \in below : m <= y
    BY <1>2
  <1>3. x \in S
    BY <1>2
  <1>4. ASSUME NEW y \in S PROVE x >= y
    <2>0. y \in 0 .. n /\ n - (n - y) = y /\ n - y \in 0 .. n
      OBVIOUS
    <2>1. n - y \in below
      BY <2>0
    <2> HIDE DEF m, below
    <2>2. m <= n - y /\ m \in Nat /\ y \in Int
      BY <1>a, <2>1
    <2> QED
      BY <2>2
  <1> HIDE DEF x
  <1> QED
    BY <1>3, <1>4 DEF Max

\* One turn around a ring at most.
LEMMA OnceAround ==
  ASSUME NEW n \in Nat \ {0}, NEW x \in 0 .. 2 * n - 1
  PROVE  x % n = IF x < n THEN x ELSE x - n
OBVIOUS

\* Counting from zero up to a number.
LEMMA CountingUp ==
  ASSUME NEW N \in Nat, NEW S, 0 \in S, \A n \in 1 .. N : n - 1 \in S => n \in S
  PROVE  \A n \in 0 .. N : n \in S
<1> DEFINE Missed == {n \in Nat : n <= N /\ n \notin S}
<1> SUFFICES ASSUME Missed # {} PROVE FALSE
  OBVIOUS
<1>1. PICK m \in Missed : \A n \in Missed : m <= n
  <2>1. Missed \in SUBSET Nat
    OBVIOUS
  <2> QED
    BY <2>1, MinIsLeast
<1>2. m # 0 /\ m \in 1 .. N
  OBVIOUS
<1>3. m - 1 \in Nat /\ m - 1 <= N /\ ~(m <= m - 1)
  BY <1>2
<1>4. m - 1 \in S
  BY <1>1, <1>3
<1> QED
  BY <1>2, <1>4

\* What a recursion over the numbers up to N computes, and that each step
\* G[n] keeps a value within the bounds V.
StepsWithin(N, V, G) == \A n \in 1 .. N : \A v \in V[n - 1] : G[n][v] \in V[n]
Computed(f, N, base, V, G) == f[0] = base /\ \A n \in 1 .. N : f[n] = G[n][f[n - 1]] /\ f[n] \in V[n]

LEMMA Recursion ==
  ASSUME NEW N \in Nat, NEW W, NEW V \in [0 .. N -> SUBSET W], NEW base \in V[0], NEW G,
         StepsWithin(N, V, G)
  PROVE  \E f \in [0 .. N -> W] : Computed(f, N, base, V, G)
<1> USE DEF StepsWithin, Computed
<1> DEFINE Computes(f, m) == /\ f[0] = base
                             /\ \A n \in 1 .. m : f[n] = G[n][f[n - 1]]
                             /\ \A n \in 0 .. m : f[n] \in V[n]
           S == {m \in 0 .. N : \E f \in [0 .. m -> W] : Computes(f, m)}
<1>1. 0 \in S
  <2> DEFINE f == [n \in 0 .. 0 |-> base]
  <2>1. base \in W /\ \A n \in 0 .. 0 : n = 0
    OBVIOUS
  <2>2. f \in [0 .. 0 -> W] /\ f[0] = base
    BY <2>1
  <2> HIDE DEF f
  <2>3. Computes(f, 0)
    BY <2>1, <2>2
  <2> HIDE DEF Computes
  <2> QED
    BY <2>2, <2>3
<1>2. ASSUME NEW m \in 1 .. N, m - 1 \in S PROVE m \in S
  <2>1. PICK g \in [0 .. m - 1 -> W] : Computes(g, m - 1)
    BY <1>2
  <2> DEFINE f == [n \in 0 .. m |-> IF n = m THEN G[m][g[m - 1]] ELSE g[n]]
  <2>2. m - 1 \in 0 .. m - 1 /\ g[m - 1] \in V[m - 1] /\ f[m] = G[m][g[m - 1]] /\ f[m] \in V[m]
    BY <2>1
  <2>3. \A n \in 0 .. m : n # m => n \in 0 .. m - 1 /\ f[n] = g[n]
    OBVIOUS
  <2>4. f \in [0 .. m -> W]
    BY <2>2
  <2> HIDE DEF f
  <2>5. \A n \in 0 .. m : f[n] \in V[n]
    BY <2>1, <2>2, <2>3
  <2>6. ASSUME NEW n \in 1 .. m PROVE f[n] = G[n][f[n - 1]]
    <3>1. f[n - 1] = g[n - 1]
      BY <2>3
    <3>2. n # m => n \in 1 .. m - 1
      OBVIOUS
    <3> QED
      BY <3>1, <3>2, <2>1, <2>2, <2>3
  <2>7. f[0] = base
    BY <2>1, <2>3
  <2>8. Computes(f, m) /\ m \in 0 .. N
    BY <2>5, <2>6, <2>7
  <2> HIDE DEF Computes
  <2> QED
    BY <2>4, <2>8
<1>3. N \in S
  <2> HIDE DEF S
  <2> QED
    BY <1>1, <1>2, CountingUp, N \in 0 .. N
<1> QED
  BY <1>3
=============================================================================
