----------------------------- MODULE Recursion -----------------------------
(***************************************************************************)
(* Induction over sets of numbers, and that functions that are defined by  *)
(* recursion over a number exist: what the proofs about directories, files *)
(* and names rest on.  A step of a recursion is given as a function.       *)
(***************************************************************************)
EXTENDS Integers, WellFoundedInduction, TLAPS

\* Every set of natural numbers that is not empty has a least member.
LEMMA LeastNumber ==
  ASSUME NEW T, T \subseteq Nat, T # {}
  PROVE  \E x \in T : \A y \in T : x <= y
<1> DEFINE R == {ss \in Nat \X Nat : ss[1] < ss[2]}
<1>1. IsWellFoundedOn(R, Nat)
  BY NatLessThanWellFounded DEF OpToRel
<1>2. PICK x \in T : \A y \in T : <<y, x>> \notin R
  <2> HIDE DEF R
  <2> QED BY <1>1, WFMin
<1>3. \A y \in T : ~(y < x)
  BY <1>2
<1> QED BY <1>2, <1>3

\* A set that has n0 and, with every number from there on, the next one, has
\* all of them.
LEMMA SetInduction ==
  ASSUME NEW S, NEW n0 \in Nat, n0 \in S,
         \A n \in Nat : n >= n0 /\ n \in S => n + 1 \in S
  PROVE  \A n \in Nat : n >= n0 => n \in S
<1> DEFINE T == {n \in Nat : n >= n0 /\ n \notin S}
<1>1. SUFFICES ASSUME T # {} PROVE FALSE
  OBVIOUS
<1>2. PICK x \in T : \A y \in T : x <= y
  BY <1>1, LeastNumber
<1>3. x - 1 \in Nat /\ x - 1 >= n0
  BY <1>2
<1>4. x - 1 \in S
  BY <1>2, <1>3
<1> QED BY <1>2, <1>3, <1>4

\* The same for the numbers up to N
LEMMA BoundedInduction ==
  ASSUME NEW S, NEW N \in Nat, 0 \in S,
         \A n \in 0 .. N - 1 : n \in S => n + 1 \in S
  PROVE  \A n \in 0 .. N : n \in S
<1> DEFINE T == {n \in Nat : n <= N => n \in S}
<1>1. 0 \in T
  OBVIOUS
<1>2. \A n \in Nat : n >= 0 /\ n \in T => n + 1 \in T
  OBVIOUS
<1>3. \A n \in Nat : n >= 0 => n \in T
  <2> HIDE DEF T
  <2> QED BY <1>1, <1>2, SetInduction
<1> QED BY <1>3

\* A recursion over 0 .. N in a set S: the steps it is given by, and the
\* functions that meet it
Steps(N, S) == [1 .. N -> [S -> S]]
Recursive(N, S, a, F) ==
  {f \in [0 .. N -> S] : f[0] = a /\ \A n \in 1 .. N : f[n] = F[n][f[n - 1]]}

\* Every recursion has a function that meets it.
LEMMA PrimitiveRecursion ==
  ASSUME NEW N \in Nat, NEW S, NEW a \in S, NEW F \in Steps(N, S)
  PROVE  \E f : f \in Recursive(N, S, a, F)
<1> USE DEF Steps
<1> DEFINE Upto(n) == \E f \in [0 .. n -> S] :
                        f[0] = a /\ \A k \in 1 .. n : f[k] = F[k][f[k - 1]]
           T == {n \in Nat : n <= N /\ Upto(n)}
<1>1. 0 \in T
  <2> DEFINE f0 == [i \in 0 .. 0 |-> a]
  <2>1. f0 \in [0 .. 0 -> S] /\ f0[0] = a /\ 1 .. 0 = {}
    OBVIOUS
  <2> HIDE DEF f0
  <2>2. Upto(0)
    BY <2>1
  <2> QED BY <2>2
<1>2. ASSUME NEW n \in 0 .. N - 1, n \in T PROVE n + 1 \in T
  <2>1. PICK f \in [0 .. n -> S] :
          f[0] = a /\ \A k \in 1 .. n : f[k] = F[k][f[k - 1]]
    BY <1>2
  <2> DEFINE g == [k \in 0 .. n + 1 |-> IF k <= n THEN f[k] ELSE F[n + 1][f[n]]]
  <2>2. f[n] \in S /\ n + 1 \in 1 .. N
    BY <1>2
  <2>3. F[n + 1][f[n]] \in S
    BY <2>2
  <2>4. g \in [0 .. n + 1 -> S]
    BY <2>3
  <2>5. g[0] = a
    BY <2>1, <1>2
  <2>6. ASSUME NEW k \in 1 .. n + 1 PROVE g[k] = F[k][g[k - 1]]
    <3>1. CASE k <= n
      BY <3>1, <2>1, <1>2
    <3>2. CASE k = n + 1
      BY <3>2, <1>2
    <3> QED BY <3>1, <3>2, <1>2
  <2> HIDE DEF g
  <2>7. Upto(n + 1)
    BY <2>4, <2>5, <2>6
  <2> QED BY <2>7, <1>2
<1> HIDE DEF T
<1>3. \A n \in 0 .. N : n \in T
  BY <1>1, <1>2, BoundedInduction
<1> QED BY <1>3 DEF T, Recursive

\* What is defined by a recursion meets it.
LEMMA RecursionMet ==
  ASSUME NEW N \in Nat, NEW S, NEW a \in S, NEW F \in Steps(N, S),
         NEW p, p = [k \in 0 .. N |-> p[k]], p[0] = a,
         \A k \in 1 .. N : p[k - 1] \in S => p[k] = F[k][p[k - 1]]
  PROVE  p \in Recursive(N, S, a, F)
<1> DEFINE T == {k \in 0 .. N : p[k] \in S}
<1>1. 0 \in T
  OBVIOUS
<1>2. ASSUME NEW k \in 0 .. N - 1, k \in T PROVE k + 1 \in T
  <2>1. k + 1 \in 1 .. N /\ k + 1 - 1 = k
    OBVIOUS
  <2>2. p[k] \in S
    BY <1>2
  <2>3. F[k + 1][p[k]] \in S
    BY <2>1, <2>2 DEF Steps
  <2>4. p[k + 1] = F[k + 1][p[k]]
    <3>1. PICK j \in 1 .. N : j = k + 1
      BY <2>1
    <3>2. j - 1 = k
      BY <2>1, <3>1
    <3>3. p[j - 1] \in S => p[j] = F[j][p[j - 1]]
      OBVIOUS
    <3> QED BY <2>2, <3>1, <3>2, <3>3
  <2> QED BY <2>1, <2>3, <2>4
<1>3. \A k \in 0 .. N : k \in T
  <2> HIDE DEF T
  <2> QED BY <1>1, <1>2, BoundedInduction
<1>4. p \in [0 .. N -> S]
  <2>1. \A k \in 0 .. N : p[k] \in S
    BY <1>3
  <2> QED BY <2>1
<1>5. \A k \in 1 .. N : p[k - 1] \in S
  BY <1>4
<1> QED BY <1>4, <1>5 DEF Recursive

\* The running totals of t from a on
Totals(N, a, t) ==
  {f \in [0 .. N -> Nat] : f[0] = a /\ \A n \in 1 .. N : f[n] = f[n - 1] + t[n]}

LEMMA TotalsExist ==
  ASSUME NEW N \in Nat, NEW a \in Nat, NEW t \in [1 .. N -> Nat]
  PROVE  \E f : f \in Totals(N, a, t)
<1> DEFINE F == [n \in 1 .. N |-> [x \in Nat |-> x + t[n]]]
<1>1. F \in Steps(N, Nat)
  BY DEF Steps
<1>2. PICK f : f \in Recursive(N, Nat, a, F)
  <2> HIDE DEF F
  <2> QED BY <1>1, PrimitiveRecursion
<1>3. f \in [0 .. N -> Nat] /\ f[0] = a
  BY <1>2 DEF Recursive
<1>4. ASSUME NEW n \in 1 .. N PROVE f[n] = f[n - 1] + t[n]
  <2>1. f[n] = F[n][f[n - 1]]
    <3> HIDE DEF F
    <3> QED BY <1>2 DEF Recursive
  <2>2. n - 1 \in 0 .. N
    OBVIOUS
  <2>3. f[n - 1] \in Nat
    BY <1>3, <2>2
  <2> QED BY <2>1, <2>3
<1>5. f \in Totals(N, a, t)
  BY <1>3, <1>4 DEF Totals
<1> QED BY <1>5

\* What is defined as running totals are running totals.
LEMMA TotalsMeet ==
  ASSUME NEW N \in Nat, NEW a \in Nat, NEW t \in [1 .. N -> Nat], NEW p,
         p = [n \in 0 .. N |-> IF n = 0 THEN a ELSE p[n - 1] + t[n]]
  PROVE  p \in Totals(N, a, t)
<1> DEFINE T == {n \in 0 .. N : p[n] \in Nat}
<1>1. p[0] = a
  OBVIOUS
<1>2. \A n \in 1 .. N : p[n] = p[n - 1] + t[n]
  OBVIOUS
<1>3. 0 \in T
  BY <1>1
<1>4. \A n \in 0 .. N - 1 : n \in T => n + 1 \in T
  <2>1. SUFFICES ASSUME NEW n \in 0 .. N - 1, n \in T PROVE n + 1 \in T
    OBVIOUS
  <2>2. n + 1 \in 1 .. N /\ n + 1 - 1 = n
    OBVIOUS
  <2>3. p[n + 1] = p[n] + t[n + 1]
    BY <1>2, <2>2
  <2>4. p[n] \in Nat /\ t[n + 1] \in Nat
    BY <2>1, <2>2
  <2> QED BY <2>2, <2>3, <2>4
<1>5. \A n \in 0 .. N : n \in T
  <2> HIDE DEF T
  <2> QED BY <1>3, <1>4, BoundedInduction
<1>6. p \in [0 .. N -> Nat]
  BY <1>5
<1> QED BY <1>1, <1>2, <1>6 DEF Totals

\* Totals of the same numbers are the same.
LEMMA TotalsAgree ==
  ASSUME NEW N \in Nat, NEW M \in 0 .. N, NEW a, NEW t, NEW u,
         NEW f \in Totals(N, a, t), NEW g \in Totals(M, a, u),
         \A n \in 1 .. M : t[n] = u[n]
  PROVE  \A n \in 0 .. M : f[n] = g[n]
<1> DEFINE T == {n \in 0 .. M : f[n] = g[n]}
<1>1. 0 \in T
  BY DEF Totals
<1>2. \A n \in 0 .. M - 1 : n \in T => n + 1 \in T
  <2>1. SUFFICES ASSUME NEW n \in 0 .. M - 1, n \in T PROVE n + 1 \in T
    OBVIOUS
  <2>2. n + 1 \in 1 .. N /\ n + 1 \in 1 .. M /\ n + 1 - 1 = n
    OBVIOUS
  <2>3. f[n + 1] = f[n] + t[n + 1] /\ g[n + 1] = g[n] + u[n + 1]
    BY <2>2 DEF Totals
  <2> QED BY <2>1, <2>2, <2>3
<1>3. \A n \in 0 .. M : n \in T
  <2> HIDE DEF T
  <2> QED BY <1>1, <1>2, BoundedInduction
<1> QED BY <1>3
=============================================================================
