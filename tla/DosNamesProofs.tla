--------------------------- MODULE DosNamesProofs ---------------------------
(***************************************************************************)
(* What nameMatches and hasNon83Name compute, for every specification and  *)
(* every name.                                                             *)
(***************************************************************************)
EXTENDS DosNames, Recursion, SequenceTheorems

-----------------------------------------------------------------------------
(* nameMatches                                                             *)

Places(exp, name) == (1 .. Len(exp) + 1) \X (1 .. Len(name) + 1)

\* One turn of nameMatches, the rest being done by f
Turn(f, exp, name, i, j) ==
  LET end == j > Len(name)
      here(c) == ~end /\ name[j] = c
  IN  IF i > Len(exp)
      THEN \A k \in j .. Len(name) : name[k] = Period
      ELSE CASE exp[i] = Star -> \/ ~end /\ f[<<i, j + 1>>]
                                \/ f[<<i + 1, j>>]
             [] exp[i] = Question ->
                  \/ end
                  \/ here(Period) /\ f[<<i + 1, j>>]
                  \/ ~end /\ ~here(Period) /\ f[<<i + 1, j + 1>>]
             [] exp[i] = Period -> \/ end /\ f[<<i + 1, j>>]
                                   \/ here(Period) /\ f[<<i + 1, j + 1>>]
             [] OTHER -> /\ ~end /\ tolower(exp[i]) = tolower(name[j])
                         /\ f[<<i + 1, j + 1>>]

Rank(exp, name, at) == Len(exp) + 1 - at[1] + (Len(name) + 1 - at[2])

LEMMA TurnBoolean ==
  ASSUME NEW exp, NEW name, NEW i, NEW j, NEW f
  PROVE  Turn(f, exp, name, i, j) \in BOOLEAN
BY DEF Turn

\* A turn for each kind of character, without CASE
LEMMA TurnEnd ==
  ASSUME NEW exp, NEW name, NEW f, NEW i, NEW j,
         i > Len(exp)
  PROVE  Turn(f, exp, name, i, j)
           <=> \A k \in j .. Len(name) : name[k] = Period
BY DEF Turn, Star, Question, Period

LEMMA TurnStar ==
  ASSUME NEW exp, NEW name, NEW f, NEW i, NEW j,
         ~(i > Len(exp)), exp[i] = Star
  PROVE  Turn(f, exp, name, i, j)
           <=> \/ ~(j > Len(name)) /\ f[<<i, j + 1>>]
               \/ f[<<i + 1, j>>]
BY DEF Turn, Star, Question, Period

LEMMA TurnQuestion ==
  ASSUME NEW exp, NEW name, NEW f, NEW i, NEW j,
         ~(i > Len(exp)), exp[i] = Question
  PROVE  Turn(f, exp, name, i, j)
           <=> \/ j > Len(name)
               \/ name[j] = Period /\ f[<<i + 1, j>>]
               \/ name[j] # Period /\ f[<<i + 1, j + 1>>]
BY DEF Turn, Star, Question, Period

LEMMA TurnPeriod ==
  ASSUME NEW exp, NEW name, NEW f, NEW i, NEW j,
         ~(i > Len(exp)), exp[i] = Period
  PROVE  Turn(f, exp, name, i, j)
           <=> \/ j > Len(name) /\ f[<<i + 1, j>>]
               \/ /\ ~(j > Len(name)) /\ name[j] = Period
                  /\ f[<<i + 1, j + 1>>]
BY DEF Turn, Star, Question, Period

LEMMA TurnLetter ==
  ASSUME NEW exp, NEW name, NEW f, NEW i, NEW j,
         ~(i > Len(exp)), exp[i] \notin {Star, Question, Period}
  PROVE  Turn(f, exp, name, i, j)
           <=> /\ ~(j > Len(name)) /\ tolower(exp[i]) = tolower(name[j])
               /\ f[<<i + 1, j + 1>>]
BY DEF Turn, Star, Question, Period

LEMMA TurnUsesLater ==
  ASSUME NEW exp \in Seq(Nat), NEW name \in Seq(Nat),
         NEW f \in [Places(exp, name) -> BOOLEAN],
         NEW g \in [Places(exp, name) -> BOOLEAN],
         NEW i \in 1 .. Len(exp) + 1, NEW j \in 1 .. Len(name) + 1,
         \A at \in Places(exp, name) :
           Rank(exp, name, at) < Rank(exp, name, <<i, j>>) => f[at] = g[at]
  PROVE  Turn(f, exp, name, i, j) = Turn(g, exp, name, i, j)
<1>1. ASSUME i <= Len(exp) PROVE f[<<i + 1, j>>] = g[<<i + 1, j>>]
  <2>1. <<i + 1, j>> \in Places(exp, name)
    BY <1>1 DEF Places
  <2> QED BY <2>1 DEF Rank
<1>2. ASSUME j <= Len(name) PROVE f[<<i, j + 1>>] = g[<<i, j + 1>>]
  <2>1. <<i, j + 1>> \in Places(exp, name)
    BY <1>2 DEF Places
  <2> QED BY <2>1 DEF Rank
<1>3. ASSUME i <= Len(exp), j <= Len(name)
      PROVE  f[<<i + 1, j + 1>>] = g[<<i + 1, j + 1>>]
  <2>1. <<i + 1, j + 1>> \in Places(exp, name)
    BY <1>3 DEF Places
  <2> QED BY <2>1 DEF Rank
<1>4. CASE i > Len(exp)
  BY <1>4 DEF Turn
<1>5. CASE i <= Len(exp)
  <2>1. ~(i > Len(exp)) /\ (~(j > Len(name)) => j <= Len(name)) /\ i <= Len(exp)
    BY <1>5
  <2>3. Turn(f, exp, name, i, j) \in BOOLEAN /\ Turn(g, exp, name, i, j) \in BOOLEAN
    BY TurnBoolean
  <2>4. CASE exp[i] = Star
    <3>1. Turn(f, exp, name, i, j)
           <=> \/ ~(j > Len(name)) /\ f[<<i, j + 1>>]
               \/ f[<<i + 1, j>>]
      BY <2>1, <2>4, TurnStar
    <3>2. Turn(g, exp, name, i, j)
           <=> \/ ~(j > Len(name)) /\ g[<<i, j + 1>>]
               \/ g[<<i + 1, j>>]
      BY <2>1, <2>4, TurnStar
    <3> QED BY <3>1, <3>2, <2>1, <2>3, <1>1, <1>2
  <2>5. CASE exp[i] = Question
    <3>1. Turn(f, exp, name, i, j)
           <=> \/ j > Len(name)
               \/ name[j] = Period /\ f[<<i + 1, j>>]
               \/ name[j] # Period /\ f[<<i + 1, j + 1>>]
      BY <2>1, <2>5, TurnQuestion
    <3>2. Turn(g, exp, name, i, j)
           <=> \/ j > Len(name)
               \/ name[j] = Period /\ g[<<i + 1, j>>]
               \/ name[j] # Period /\ g[<<i + 1, j + 1>>]
      BY <2>1, <2>5, TurnQuestion
    <3> QED BY <3>1, <3>2, <2>1, <2>3, <1>1, <1>3
  <2>6. CASE exp[i] = Period
    <3>1. Turn(f, exp, name, i, j)
           <=> \/ j > Len(name) /\ f[<<i + 1, j>>]
               \/ /\ ~(j > Len(name)) /\ name[j] = Period
                  /\ f[<<i + 1, j + 1>>]
      BY <2>1, <2>6, TurnPeriod
    <3>2. Turn(g, exp, name, i, j)
           <=> \/ j > Len(name) /\ g[<<i + 1, j>>]
               \/ /\ ~(j > Len(name)) /\ name[j] = Period
                  /\ g[<<i + 1, j + 1>>]
      BY <2>1, <2>6, TurnPeriod
    <3> QED BY <3>1, <3>2, <2>1, <2>3, <1>1, <1>3
  <2>7. CASE exp[i] \notin {Star, Question, Period}
    <3>1. Turn(f, exp, name, i, j)
           <=> /\ ~(j > Len(name)) /\ tolower(exp[i]) = tolower(name[j])
               /\ f[<<i + 1, j + 1>>]
      BY <2>1, <2>7, TurnLetter
    <3>2. Turn(g, exp, name, i, j)
           <=> /\ ~(j > Len(name)) /\ tolower(exp[i]) = tolower(name[j])
               /\ g[<<i + 1, j + 1>>]
      BY <2>1, <2>7, TurnLetter
    <3> QED BY <3>1, <3>2, <2>1, <2>3, <1>3
  <2> QED BY <2>4, <2>5, <2>6, <2>7
<1> QED BY <1>4, <1>5

LEMMA RankIsNat ==
  ASSUME NEW exp \in Seq(Nat), NEW name \in Seq(Nat), NEW at \in Places(exp, name)
  PROVE  /\ at = <<at[1], at[2]>>
         /\ at[1] \in 1 .. Len(exp) + 1 /\ at[2] \in 1 .. Len(name) + 1
         /\ Rank(exp, name, at) \in 0 .. Len(exp) + Len(name)
BY DEF Places, Rank

\* There is a function whose value is, at every place, that of one turn.
LEMMA TurnsEnd ==
  ASSUME NEW exp \in Seq(Nat), NEW name \in Seq(Nat)
  PROVE  \E f \in [Places(exp, name) -> BOOLEAN] :
           \A at \in Places(exp, name) : f[at] = Turn(f, exp, name, at[1], at[2])
<1> DEFINE P == Places(exp, name)
           R(at) == Rank(exp, name, at)
           T(f, at) == Turn(f, exp, name, at[1], at[2])
           Upto(n) == \E f \in [P -> BOOLEAN] :
                        \A at \in P : R(at) <= n => f[at] = T(f, at)
           S == {n \in Nat : Upto(n)}
           N == Len(exp) + Len(name)
<1>1. \A at \in P : R(at) \in 0 .. N
  BY RankIsNat
<1>2. ASSUME NEW f \in [P -> BOOLEAN], NEW g \in [P -> BOOLEAN], NEW at \in P,
             \A b \in P : R(b) < R(at) => f[b] = g[b]
      PROVE  T(f, at) = T(g, at)
  BY <1>2, RankIsNat, TurnUsesLater
<1>3. \A f, at : T(f, at) \in BOOLEAN
  BY TurnBoolean
<1>4. N \in Nat
  OBVIOUS
<1> HIDE DEF P, R, T, N
<1>5. ASSUME NEW n \in Int, NEW f \in [P -> BOOLEAN],
             \A at \in P : R(at) <= n => f[at] = T(f, at)
      PROVE  Upto(n + 1)
  <2> DEFINE g == [at \in P |-> IF R(at) <= n THEN f[at] ELSE T(f, at)]
  <2>1. g \in [P -> BOOLEAN]
    BY <1>3
  <2>2. ASSUME NEW at \in P, R(at) <= n + 1 PROVE g[at] = T(g, at)
    <3>1. \A b \in P : R(b) < R(at) => g[b] = f[b]
      BY <2>2, <1>1
    <3>2. T(g, at) = T(f, at)
      <4> HIDE DEF g
      <4> QED BY <3>1, <2>1, <1>2
    <3>3. g[at] = T(f, at)
      BY <1>5
    <3> QED BY <3>2, <3>3
  <2> HIDE DEF g
  <2> QED BY <2>1, <2>2
<1>6. 0 \in S
  <2> DEFINE f == [at \in P |-> FALSE]
  <2>1. f \in [P -> BOOLEAN]
    OBVIOUS
  <2>2. \A at \in P : R(at) <= -1 => f[at] = T(f, at)
    BY <1>1
  <2> HIDE DEF f, Upto
  <2>3. Upto(-1 + 1)
    BY <2>1, <2>2, <1>5
  <2> QED BY <2>3
<1>7. ASSUME NEW n \in 0 .. N - 1, n \in S PROVE n + 1 \in S
  <2>1. PICK f \in [P -> BOOLEAN] : \A at \in P : R(at) <= n => f[at] = T(f, at)
    BY <1>7
  <2> HIDE DEF Upto
  <2>2. Upto(n + 1)
    BY <2>1, <1>5
  <2> QED BY <2>2, <1>7
<1> HIDE DEF S
<1>8. \A n \in 0 .. N : n \in S
  BY <1>4, <1>6, <1>7, BoundedInduction
<1>9. Upto(N)
  BY <1>4, <1>8 DEF S
<1> QED BY <1>9, <1>1 DEF P, R, T, N

\* nameMatches is the value of such a function at the beginning of both.
LEMMA MatchesByTurns ==
  ASSUME NEW exp \in Seq(Nat), NEW name \in Seq(Nat)
  PROVE  \E f \in [Places(exp, name) -> BOOLEAN] :
           /\ \A at \in Places(exp, name) : f[at] = Turn(f, exp, name, at[1], at[2])
           /\ nameMatches(exp, name) = f[<<1, 1>>]
<1> DEFINE m == CHOOSE f : f = [at \in Places(exp, name) |->
                                  Turn(f, exp, name, at[1], at[2])]
<1>1. \E f : f = [at \in Places(exp, name) |-> Turn(f, exp, name, at[1], at[2])]
  BY TurnsEnd
<1>2. m = [at \in Places(exp, name) |-> Turn(m, exp, name, at[1], at[2])]
  BY <1>1
<1>3. nameMatches(exp, name) = m[<<1, 1>>]
  BY DEF nameMatches, Turn, Places
<1> HIDE DEF m
<1> QED BY <1>2, <1>3, TurnBoolean

-----------------------------------------------------------------------------
(* The rule, and that it is what the turns compute                         *)

\* Where one can be after one more character: after of Reached
After(name, c, j) ==
  LET end == Len(name) + 1
      isDot(q) == q < end /\ name[q] = Period
  IN  CASE c = Star     -> j .. end
        [] c = Question -> {IF j = end \/ isDot(j) THEN j ELSE j + 1}
        [] c = Period   -> IF j = end THEN {j} ELSE IF isDot(j) THEN {j + 1}
                           ELSE {}
        [] OTHER        -> IF j < end /\ tolower(name[j]) = tolower(c)
                           THEN {j + 1} ELSE {}

LEMMA AfterInName ==
  ASSUME NEW name \in Seq(Nat), NEW c, NEW j \in 1 .. Len(name) + 1
  PROVE  After(name, c, j) \subseteq 1 .. Len(name) + 1
<1>1. CASE c = Star
  BY <1>1 DEF After, Star, Question, Period
<1>2. CASE c = Question
  BY <1>2 DEF After, Star, Question, Period
<1>3. CASE c = Period
  BY <1>3 DEF After, Star, Question, Period
<1>4. CASE c \notin {Star, Question, Period}
  BY <1>4 DEF After, Star, Question, Period
<1> QED BY <1>1, <1>2, <1>3, <1>4

\* Reached, as a function of how much of the specification has been used
LEMMA PlacesReached ==
  ASSUME NEW exp \in Seq(Nat), NEW name \in Seq(Nat)
  PROVE  \E places \in [0 .. Len(exp) -> SUBSET (1 .. Len(name) + 1)] :
           /\ places[0] = {1}
           /\ \A k \in 1 .. Len(exp) :
                places[k] = UNION {After(name, exp[k], j) : j \in places[k - 1]}
           /\ Reached(exp, name) = places[Len(exp)]
<1> DEFINE E == Len(exp)
           S == SUBSET (1 .. Len(name) + 1)
           a == {1}
           Step(k, was) == UNION {After(name, exp[k], j) : j \in was}
           F == [k \in 1 .. E |-> [was \in S |-> Step(k, was)]]
           Body(f) == [k \in 0 .. E |-> IF k = 0 THEN a ELSE Step(k, f[k - 1])]
           p == CHOOSE f : f = Body(f)
<1>1. E \in Nat /\ a \in S
  OBVIOUS
<1>2. \A k \in 1 .. E, was \in S : Step(k, was) \in S
  BY AfterInName
<1>3. Reached(exp, name) = p[E]
  BY DEF Reached, After
<1> HIDE DEF E, S, a, Step
<1>4. F \in Steps(E, S)
  BY <1>1, <1>2 DEF Steps
<1>5. PICK f : f \in Recursive(E, S, a, F)
  <2> HIDE DEF F
  <2> QED BY <1>1, <1>4, PrimitiveRecursion
<1>6. f = Body(f)
  <2>1. f \in [0 .. E -> S] /\ f[0] = a
    BY <1>5 DEF Recursive
  <2>2. \A k \in 1 .. E : f[k] = F[k][f[k - 1]]
    <3> HIDE DEF F
    <3> QED BY <1>5 DEF Recursive
  <2>3. \A k \in 1 .. E : f[k - 1] \in S
    BY <1>1, <2>1
  <2>4. \A k \in 1 .. E : f[k] = Step(k, f[k - 1])
    BY <2>2, <2>3
  <2> QED BY <1>1, <2>1, <2>4
<1>7. p = Body(p)
  BY <1>6
<1> HIDE DEF p
<1>8. p[0] = a /\ \A k \in 1 .. E : p[k] = Step(k, p[k - 1])
  BY <1>1, <1>7
<1>9. \A k \in 0 .. E : p[k] \in S
  <2> DEFINE T == {k \in 0 .. E : p[k] \in S}
  <2>1. 0 \in T
    BY <1>1, <1>8
  <2>2. ASSUME NEW k \in 0 .. E - 1, k \in T PROVE k + 1 \in T
    BY <1>1, <1>2, <1>8, <2>2
  <2> HIDE DEF T
  <2>3. \A k \in 0 .. E : k \in T
    BY <1>1, <2>1, <2>2, BoundedInduction
  <2> QED BY <2>3 DEF T
<1>10. p \in [0 .. E -> S]
  BY <1>7, <1>9
<1> QED BY <1>3, <1>8, <1>10 DEF E, S, a, Step

\* f computes nameMatches.
Computes(f, exp, name) ==
  /\ f \in [Places(exp, name) -> BOOLEAN]
  /\ \A at \in Places(exp, name) : f[at] = Turn(f, exp, name, at[1], at[2])

\* The rest of the specification from i on matches the rest of the name from j.
Met(f, i, j) == f[<<i, j>>] = TRUE

LEMMA ComputedByTurns ==
  ASSUME NEW exp \in Seq(Nat), NEW name \in Seq(Nat), NEW f,
         Computes(f, exp, name),
         NEW i \in 1 .. Len(exp) + 1, NEW j \in 1 .. Len(name) + 1
  PROVE  f[<<i, j>>] \in BOOLEAN /\ f[<<i, j>>] = Turn(f, exp, name, i, j)
<1>1. <<i, j>> \in Places(exp, name)
  BY DEF Places
<1> QED BY <1>1 DEF Computes

LEMMA Boolean ==
  ASSUME NEW exp \in Seq(Nat), NEW name \in Seq(Nat), NEW f,
         Computes(f, exp, name)
  PROVE  \A i \in 1 .. Len(exp) + 1, j \in 1 .. Len(name) + 1 :
           f[<<i, j>>] <=> Met(f, i, j)
<1>1. TAKE i \in 1 .. Len(exp) + 1, j \in 1 .. Len(name) + 1
<1>2. f[<<i, j>>] \in BOOLEAN
  BY ComputedByTurns
<1> QED BY <1>2 DEF Met

\* What has been met, by the kind of character
LEMMA MetEnd ==
  ASSUME NEW exp \in Seq(Nat), NEW name \in Seq(Nat), NEW f,
         Computes(f, exp, name), NEW j \in 1 .. Len(name) + 1
  PROVE  Met(f, Len(exp) + 1, j) <=> \A k \in j .. Len(name) : name[k] = Period
<1> DEFINE i == Len(exp) + 1
<1>1. i \in 1 .. Len(exp) + 1 /\ i > Len(exp)
  OBVIOUS
<1> HIDE DEF i
<1>2. Turn(f, exp, name, i, j) <=> \A k \in j .. Len(name) : name[k] = Period
  BY <1>1, TurnEnd
<1>3. f[<<i, j>>] \in BOOLEAN /\ f[<<i, j>>] = Turn(f, exp, name, i, j)
  BY <1>1, ComputedByTurns
<1> QED BY <1>2, <1>3 DEF i, Met

LEMMA MetStar ==
  ASSUME NEW exp \in Seq(Nat), NEW name \in Seq(Nat), NEW f,
         Computes(f, exp, name), NEW i \in 1 .. Len(exp),
         NEW j \in 1 .. Len(name) + 1, exp[i] = Star
  PROVE  Met(f, i, j) <=> \/ j <= Len(name) /\ Met(f, i, j + 1)
                          \/ Met(f, i + 1, j)
<1>1. ~(i > Len(exp)) /\ i \in 1 .. Len(exp) + 1 /\ i + 1 \in 1 .. Len(exp) + 1
  OBVIOUS
<1>2. Turn(f, exp, name, i, j) <=> \/ ~(j > Len(name)) /\ f[<<i, j + 1>>]
                                   \/ f[<<i + 1, j>>]
  BY <1>1, TurnStar
<1>3. f[<<i, j>>] \in BOOLEAN /\ f[<<i, j>>] = Turn(f, exp, name, i, j)
  BY <1>1, ComputedByTurns
<1>4. Met(f, i, j) <=> Turn(f, exp, name, i, j)
  BY <1>3 DEF Met
<1>5. f[<<i + 1, j>>] <=> Met(f, i + 1, j)
  BY <1>1, Boolean
<1>6. CASE j > Len(name)
  BY <1>2, <1>4, <1>5, <1>6
<1>7. CASE ~(j > Len(name))
  <2>1. j + 1 \in 1 .. Len(name) + 1 /\ j <= Len(name)
    BY <1>7
  <2>2. f[<<i, j + 1>>] <=> Met(f, i, j + 1)
    BY <1>1, <2>1, Boolean
  <2> QED BY <1>2, <1>4, <1>5, <1>7, <2>1, <2>2
<1> QED BY <1>6, <1>7

LEMMA MetQuestion ==
  ASSUME NEW exp \in Seq(Nat), NEW name \in Seq(Nat), NEW f,
         Computes(f, exp, name), NEW i \in 1 .. Len(exp),
         NEW j \in 1 .. Len(name) + 1, exp[i] = Question
  PROVE  Met(f, i, j) <=> \/ j > Len(name)
                          \/ /\ j <= Len(name) /\ name[j] = Period
                             /\ Met(f, i + 1, j)
                          \/ /\ j <= Len(name) /\ name[j] # Period
                             /\ Met(f, i + 1, j + 1)
<1>1. ~(i > Len(exp)) /\ i \in 1 .. Len(exp) + 1 /\ i + 1 \in 1 .. Len(exp) + 1
  OBVIOUS
<1>2. Turn(f, exp, name, i, j)
           <=> \/ j > Len(name)
               \/ name[j] = Period /\ f[<<i + 1, j>>]
               \/ name[j] # Period /\ f[<<i + 1, j + 1>>]
  BY <1>1, TurnQuestion
<1>3. f[<<i, j>>] \in BOOLEAN /\ f[<<i, j>>] = Turn(f, exp, name, i, j)
  BY <1>1, ComputedByTurns
<1>4. Met(f, i, j) <=> Turn(f, exp, name, i, j)
  BY <1>3 DEF Met
<1>5. f[<<i + 1, j>>] <=> Met(f, i + 1, j)
  BY <1>1, Boolean
<1>6. CASE j > Len(name)
  BY <1>2, <1>4, <1>6
<1>7. CASE ~(j > Len(name))
  <2>1. j + 1 \in 1 .. Len(name) + 1 /\ j <= Len(name)
    BY <1>7
  <2>2. f[<<i + 1, j + 1>>] <=> Met(f, i + 1, j + 1)
    BY <1>1, <2>1, Boolean
  <2> QED BY <1>2, <1>4, <1>5, <1>7, <2>1, <2>2
<1> QED BY <1>6, <1>7

LEMMA MetPeriod ==
  ASSUME NEW exp \in Seq(Nat), NEW name \in Seq(Nat), NEW f,
         Computes(f, exp, name), NEW i \in 1 .. Len(exp),
         NEW j \in 1 .. Len(name) + 1, exp[i] = Period
  PROVE  Met(f, i, j) <=> \/ j > Len(name) /\ Met(f, i + 1, j)
                          \/ /\ j <= Len(name) /\ name[j] = Period
                             /\ Met(f, i + 1, j + 1)
<1>1. ~(i > Len(exp)) /\ i \in 1 .. Len(exp) + 1 /\ i + 1 \in 1 .. Len(exp) + 1
  OBVIOUS
<1>2. Turn(f, exp, name, i, j)
           <=> \/ j > Len(name) /\ f[<<i + 1, j>>]
               \/ /\ ~(j > Len(name)) /\ name[j] = Period
                  /\ f[<<i + 1, j + 1>>]
  BY <1>1, TurnPeriod
<1>3. f[<<i, j>>] \in BOOLEAN /\ f[<<i, j>>] = Turn(f, exp, name, i, j)
  BY <1>1, ComputedByTurns
<1>4. Met(f, i, j) <=> Turn(f, exp, name, i, j)
  BY <1>3 DEF Met
<1>5. f[<<i + 1, j>>] <=> Met(f, i + 1, j)
  BY <1>1, Boolean
<1>6. CASE j > Len(name)
  BY <1>2, <1>4, <1>5, <1>6
<1>7. CASE ~(j > Len(name))
  <2>1. j + 1 \in 1 .. Len(name) + 1 /\ j <= Len(name)
    BY <1>7
  <2>2. f[<<i + 1, j + 1>>] <=> Met(f, i + 1, j + 1)
    BY <1>1, <2>1, Boolean
  <2> QED BY <1>2, <1>4, <1>5, <1>7, <2>1, <2>2
<1> QED BY <1>6, <1>7

LEMMA MetLetter ==
  ASSUME NEW exp \in Seq(Nat), NEW name \in Seq(Nat), NEW f,
         Computes(f, exp, name), NEW i \in 1 .. Len(exp),
         NEW j \in 1 .. Len(name) + 1, exp[i] \notin {Star, Question, Period}
  PROVE  Met(f, i, j) <=> /\ j <= Len(name) /\ tolower(exp[i]) = tolower(name[j])
                          /\ Met(f, i + 1, j + 1)
<1>1. ~(i > Len(exp)) /\ i \in 1 .. Len(exp) + 1 /\ i + 1 \in 1 .. Len(exp) + 1
  OBVIOUS
<1>2. Turn(f, exp, name, i, j)
           <=> /\ ~(j > Len(name)) /\ tolower(exp[i]) = tolower(name[j])
               /\ f[<<i + 1, j + 1>>]
  BY <1>1, TurnLetter
<1>3. f[<<i, j>>] \in BOOLEAN /\ f[<<i, j>>] = Turn(f, exp, name, i, j)
  BY <1>1, ComputedByTurns
<1>4. Met(f, i, j) <=> Turn(f, exp, name, i, j)
  BY <1>3 DEF Met
<1>6. CASE j > Len(name)
  BY <1>2, <1>4, <1>6
<1>7. CASE ~(j > Len(name))
  <2>1. j + 1 \in 1 .. Len(name) + 1 /\ j <= Len(name)
    BY <1>7
  <2>2. f[<<i + 1, j + 1>>] <=> Met(f, i + 1, j + 1)
    BY <1>1, <2>1, Boolean
  <2> QED BY <1>2, <1>4, <1>7, <2>1, <2>2
<1> QED BY <1>6, <1>7

\* At the end of the name, stars, question marks and periods all match.
LEMMA EndMatches ==
  ASSUME NEW exp \in Seq(Nat), NEW name \in Seq(Nat), NEW f,
         Computes(f, exp, name), NEW i \in 1 .. Len(exp) + 1,
         \A k \in i .. Len(exp) : exp[k] \in {Star, Question, Period}
  PROVE  Met(f, i, Len(name) + 1)
<1> DEFINE E == Len(exp)
           L == Len(name)
           T == {d \in Nat : d <= E + 1 - i => Met(f, E + 1 - d, L + 1)}
<1>1. E \in Nat /\ L \in Nat /\ E + 1 - i \in Nat /\ L + 1 \in 1 .. L + 1
      /\ L + 1 > L
  OBVIOUS
<1>2. 0 \in T
  <2>1. Met(f, E + 1, L + 1)
    BY <1>1, MetEnd
  <2> QED BY <2>1, <1>1
<1>3. ASSUME NEW k \in i .. E, Met(f, k + 1, L + 1) PROVE Met(f, k, L + 1)
  <2>1. exp[k] \in {Star, Question, Period} /\ k \in 1 .. E
    OBVIOUS
  <2>2. CASE exp[k] = Star
    BY <1>1, <1>3, <2>1, <2>2, MetStar
  <2>3. CASE exp[k] = Question
    BY <1>1, <1>3, <2>1, <2>3, MetQuestion
  <2>4. CASE exp[k] = Period
    BY <1>1, <1>3, <2>1, <2>4, MetPeriod
  <2> QED BY <2>1, <2>2, <2>3, <2>4
<1>4. \A d \in 0 .. (E + 1 - i) - 1 : d \in T => d + 1 \in T
  <2>1. SUFFICES ASSUME NEW d \in 0 .. (E + 1 - i) - 1, d \in T
                 PROVE  d + 1 \in T
    OBVIOUS
  <2>2. E - d \in i .. E /\ E - d + 1 = E + 1 - d /\ E - d = E + 1 - (d + 1)
    BY <1>1
  <2>3. Met(f, E - d, L + 1)
    BY <1>1, <1>3, <2>1, <2>2
  <2> QED BY <1>1, <2>2, <2>3
<1>5. E + 1 - i \in T
  <2> DEFINE M == E + 1 - i
  <2>1. M \in Nat /\ \A d \in 0 .. M - 1 : d \in T => d + 1 \in T
    BY <1>1, <1>4
  <2> HIDE DEF T, M
  <2>2. \A d \in 0 .. M : d \in T
    BY <1>2, <2>1, BoundedInduction
  <2>3. M \in T
    BY <2>1, <2>2
  <2> QED BY <2>3 DEF M
<1> QED BY <1>1, <1>5

\* A star matches up to any later place.
LEMMA StarMatches ==
  ASSUME NEW exp \in Seq(Nat), NEW name \in Seq(Nat), NEW f,
         Computes(f, exp, name),
         NEW i \in 1 .. Len(exp), NEW j \in 1 .. Len(name) + 1, exp[i] = Star
  PROVE  Met(f, i, j) <=> \E q \in j .. Len(name) + 1 : Met(f, i + 1, q)
<1> DEFINE L == Len(name)
           Good(p) == Met(f, i, p) <=> \E q \in p .. L + 1 : Met(f, i + 1, q)
           T == {d \in Nat : d <= L => Good(L + 1 - d)}
<1>1. L \in Nat /\ L + 1 - j \in 0 .. L /\ L + 1 - (L + 1 - j) = j
  OBVIOUS
<1>2. \A q \in 1 .. L + 1 : Met(f, i, q) <=> \/ q <= L /\ Met(f, i, q + 1)
                                             \/ Met(f, i + 1, q)
  BY MetStar
<1> HIDE DEF L
<1>3. 0 \in T
  <2>1. L + 1 \in 1 .. L + 1 /\ L + 1 .. L + 1 = {L + 1} /\ ~(L + 1 <= L)
    BY <1>1
  <2>2. Good(L + 1)
    BY <1>2, <2>1
  <2> HIDE DEF Good
  <2> QED BY <1>1, <2>2
<1>4. \A d \in 0 .. L - 1 : d \in T => d + 1 \in T
  <2>1. SUFFICES ASSUME NEW d \in 0 .. L - 1, d \in T PROVE d + 1 \in T
    OBVIOUS
  <2> DEFINE k == L - d
  <2>2. k \in 1 .. L /\ k + 1 = L + 1 - d /\ k = L + 1 - (d + 1)
    BY <1>1
  <2>3. Good(k + 1)
    BY <1>1, <2>1, <2>2
  <2> HIDE DEF k
  <2>4. \A q : q \in k .. L + 1 <=> q = k \/ q \in k + 1 .. L + 1
    <3>1. ASSUME NEW q \in k .. L + 1 PROVE q = k \/ q \in k + 1 .. L + 1
      BY <1>1, <2>2
    <3>2. ASSUME NEW q \in k + 1 .. L + 1 PROVE q \in k .. L + 1
      BY <1>1, <2>2
    <3>3. k \in k .. L + 1
      BY <1>1, <2>2
    <3> QED BY <3>1, <3>2, <3>3
  <2>5. Met(f, i, k) <=> Met(f, i, k + 1) \/ Met(f, i + 1, k)
    BY <1>1, <1>2, <2>2
  <2>6. Good(k)
    BY <2>3, <2>4, <2>5
  <2> HIDE DEF Good
  <2> QED BY <2>1, <2>2, <2>6
<1>5. L + 1 - j \in T
  <2> HIDE DEF T
  <2> QED BY <1>1, <1>3, <1>4, BoundedInduction
<1>6. Good(j)
  <2> HIDE DEF Good
  <2> QED BY <1>1, <1>5
<1> QED BY <1>6 DEF L

\* One more character, in the code and by the rule
LEMMA CharacterMatches ==
  ASSUME NEW exp \in Seq(Nat), NEW name \in Seq(Nat), NEW f,
         Computes(f, exp, name), ~LetterAfterQuestion(exp),
         NEW i \in 1 .. Len(exp), NEW j \in 1 .. Len(name) + 1
  PROVE  Met(f, i, j) <=> \E q \in After(name, exp[i], j) : Met(f, i + 1, q)
<1> DEFINE A == After(name, exp[i], j)
<1>1. CASE exp[i] = Star
  <2>1. A = j .. Len(name) + 1
    BY <1>1 DEF After, Star, Question, Period
  <2> QED BY <1>1, <2>1, StarMatches
<1>2. CASE exp[i] = Question
  <2>1. Met(f, i, j) <=> \/ j > Len(name)
                         \/ /\ j <= Len(name) /\ name[j] = Period
                            /\ Met(f, i + 1, j)
                         \/ /\ j <= Len(name) /\ name[j] # Period
                            /\ Met(f, i + 1, j + 1)
    BY <1>2, MetQuestion
  <2>2. \A k \in i + 1 .. Len(exp) : exp[k] \in {Star, Question, Period}
    BY <1>2 DEF LetterAfterQuestion
  <2>3. i + 1 \in 1 .. Len(exp) + 1
    OBVIOUS
  <2>4. Met(f, i + 1, Len(name) + 1)
    BY <2>2, <2>3, EndMatches
  <2>5. CASE j = Len(name) + 1 \/ (j <= Len(name) /\ name[j] = Period)
    <3>1. A = {j}
      BY <1>2, <2>5 DEF After, Star, Question, Period
    <3> HIDE DEF A
    <3>2. Met(f, i, j) <=> Met(f, i + 1, j)
      BY <2>1, <2>4, <2>5
    <3> QED BY <3>1, <3>2 DEF A
  <2>6. CASE j <= Len(name) /\ name[j] # Period
    <3>1. A = {j + 1}
      BY <1>2, <2>6 DEF After, Star, Question, Period
    <3> HIDE DEF A
    <3>2. Met(f, i, j) <=> Met(f, i + 1, j + 1)
      BY <2>1, <2>6
    <3> QED BY <3>1, <3>2 DEF A
  <2> QED BY <2>5, <2>6
<1>3. CASE exp[i] = Period
  <2>1. Met(f, i, j) <=> \/ j > Len(name) /\ Met(f, i + 1, j)
                         \/ /\ j <= Len(name) /\ name[j] = Period
                            /\ Met(f, i + 1, j + 1)
    BY <1>3, MetPeriod
  <2>2. CASE j = Len(name) + 1
    <3>1. A = {j}
      BY <1>3, <2>2 DEF After, Star, Question, Period
    <3> HIDE DEF A
    <3>2. Met(f, i, j) <=> Met(f, i + 1, j)
      BY <2>1, <2>2
    <3> QED BY <3>1, <3>2 DEF A
  <2>3. CASE j <= Len(name) /\ name[j] = Period
    <3>1. A = {j + 1}
      BY <1>3, <2>3 DEF After, Star, Question, Period
    <3> HIDE DEF A
    <3>2. Met(f, i, j) <=> Met(f, i + 1, j + 1)
      BY <2>1, <2>3
    <3> QED BY <3>1, <3>2 DEF A
  <2>4. CASE j <= Len(name) /\ name[j] # Period
    <3>1. A = {}
      BY <1>3, <2>4 DEF After, Star, Question, Period
    <3> HIDE DEF A
    <3>2. ~Met(f, i, j)
      BY <2>1, <2>4
    <3> QED BY <3>1, <3>2 DEF A
  <2> QED BY <2>2, <2>3, <2>4
<1>4. CASE exp[i] \notin {Star, Question, Period}
  <2>1. Met(f, i, j) <=> /\ j <= Len(name) /\ tolower(exp[i]) = tolower(name[j])
                         /\ Met(f, i + 1, j + 1)
    BY <1>4, MetLetter
  <2>2. CASE j <= Len(name) /\ tolower(exp[i]) = tolower(name[j])
    <3>1. A = {j + 1}
      BY <1>4, <2>2 DEF After
    <3> HIDE DEF A
    <3>2. Met(f, i, j) <=> Met(f, i + 1, j + 1)
      BY <2>1, <2>2
    <3> QED BY <3>1, <3>2 DEF A
  <2>3. CASE ~(j <= Len(name) /\ tolower(exp[i]) = tolower(name[j]))
    <3>1. A = {}
      BY <1>4, <2>3 DEF After
    <3> HIDE DEF A
    <3>2. ~Met(f, i, j)
      BY <2>1, <2>3
    <3> QED BY <3>1, <3>2 DEF A
  <2> QED BY <2>2, <2>3
<1> QED BY <1>1, <1>2, <1>3, <1>4

\* The matching of a search (nameMatches) takes a name just if the characters of
\* the pattern stand for its characters by the rules of * and ?, for every name
\* and every pattern in which no letter stands behind a question mark.
THEOREM NameMatchesByRule ==
  ASSUME NEW exp \in Seq(Nat), NEW name \in Seq(Nat), ~LetterAfterQuestion(exp)
  PROVE  nameMatches(exp, name) <=> MatchesByRule(exp, name)
<1> DEFINE E == Len(exp)
           L == Len(name)
<1>1. PICK f \in [Places(exp, name) -> BOOLEAN] :
           /\ \A at \in Places(exp, name) : f[at] = Turn(f, exp, name, at[1], at[2])
           /\ nameMatches(exp, name) = f[<<1, 1>>]
  BY MatchesByTurns
<1>2. Computes(f, exp, name)
  BY <1>1 DEF Computes
<1>3. PICK places \in [0 .. E -> SUBSET (1 .. L + 1)] :
           /\ places[0] = {1}
           /\ \A k \in 1 .. E :
                places[k] = UNION {After(name, exp[k], j) : j \in places[k - 1]}
           /\ Reached(exp, name) = places[E]
  BY PlacesReached
<1> DEFINE Some(k) == \E j \in places[k] : Met(f, k + 1, j)
           T == {k \in 0 .. E : Some(k) <=> Met(f, 1, 1)}
<1>4. E \in Nat /\ L \in Nat
  OBVIOUS
<1>5. 0 \in T
  <2>1. Some(0) <=> Met(f, 1, 1)
    BY <1>3
  <2> HIDE DEF Some
  <2> QED BY <1>4, <2>1
<1>6. \A k \in 0 .. E - 1 : k \in T => k + 1 \in T
  <2>1. SUFFICES ASSUME NEW k \in 0 .. E - 1, k \in T PROVE k + 1 \in T
    OBVIOUS
  <2>2. k + 1 \in 1 .. E /\ k \in 0 .. E /\ k + 1 - 1 = k /\ k + 1 \in 0 .. E
    BY <1>4
  <2>3. \A q : q \in places[k + 1]
                 <=> \E j \in places[k] : q \in After(name, exp[k + 1], j)
    <3>1. places[k + 1] = UNION {After(name, exp[k + 1], j) : j \in places[k]}
      BY <1>3, <2>2
    <3> QED BY <3>1
  <2>4. \A j \in places[k] : j \in 1 .. L + 1
    BY <2>2
  <2>5. \A j \in places[k] :
          Met(f, k + 1, j) <=> \E q \in After(name, exp[k + 1], j) :
                                 Met(f, k + 1 + 1, q)
    BY <1>2, <2>2, <2>4, CharacterMatches
  <2>6. Some(k) <=> Some(k + 1)
    BY <2>3, <2>5
  <2> HIDE DEF Some
  <2> QED BY <2>1, <2>2, <2>6
<1>7. E \in T
  <2> HIDE DEF T, E
  <2>1. \A k \in 0 .. E : k \in T
    BY <1>4, <1>5, <1>6, BoundedInduction
  <2> QED BY <2>1, <1>4
<1>8. \A j \in places[E] :
        Met(f, E + 1, j) <=> \A k \in j .. L : name[k] = Period
  <2>1. \A j \in places[E] : j \in 1 .. L + 1
    <3> HIDE DEF E, L
    <3>1. E \in 0 .. E
      BY <1>4
    <3> QED BY <3>1
  <2> QED BY <1>2, <2>1, MetEnd
<1>9. nameMatches(exp, name) <=> Met(f, 1, 1)
  <2>1. f[<<1, 1>>] <=> Met(f, 1, 1)
    BY <1>2, <1>4, Boolean
  <2> QED BY <1>1, <2>1
<1>10. Some(E) <=> Met(f, 1, 1)
  BY <1>7
<1>11. MatchesByRule(exp, name) <=> Some(E)
  BY <1>3, <1>8 DEF MatchesByRule
<1> QED BY <1>9, <1>10, <1>11

-----------------------------------------------------------------------------
(* hasNon83Name and splitPath                                              *)

\* The first period, or where one would be behind the name
FirstPeriod(name) ==
  LET dots == {i \in DOMAIN name : name[i] = Period}
  IN  IF dots = {} THEN Len(name) + 1
      ELSE CHOOSE i \in dots : \A j \in dots : i <= j

LEMMA FirstPeriodIs ==
  ASSUME NEW name \in Seq(Nat)
  PROVE  /\ FirstPeriod(name) \in 1 .. Len(name) + 1
         /\ \A i \in 1 .. FirstPeriod(name) - 1 : name[i] # Period
         /\ FirstPeriod(name) <= Len(name) => name[FirstPeriod(name)] = Period
<1> DEFINE dots == {i \in DOMAIN name : name[i] = Period}
<1>1. DOMAIN name = 1 .. Len(name) /\ Len(name) \in Nat
  OBVIOUS
<1>2. CASE dots = {}
  <2>1. FirstPeriod(name) = Len(name) + 1
    BY <1>2 DEF FirstPeriod
  <2>2. \A i \in 1 .. Len(name) : name[i] # Period
    BY <1>1, <1>2
  <2> QED BY <1>1, <2>1, <2>2
<1>3. CASE dots # {}
  <2>1. dots \subseteq Nat
    BY <1>1
  <2>2. \E i \in dots : \A j \in dots : i <= j
    <3> HIDE DEF dots
    <3> QED BY <1>3, <2>1, LeastNumber
  <2>3. FirstPeriod(name) = CHOOSE i \in dots : \A j \in dots : i <= j
    BY <1>3 DEF FirstPeriod
  <2>4. FirstPeriod(name) \in dots /\ \A j \in dots : FirstPeriod(name) <= j
    <3> HIDE DEF dots
    <3> QED BY <2>2, <2>3
  <2>5. \A i \in 1 .. Len(name) : i \in dots <=> name[i] = Period
    BY <1>1
  <2>6. FirstPeriod(name) \in 1 .. Len(name)
    BY <1>1, <2>4
  <2> HIDE DEF dots
  <2>7. ASSUME NEW i \in 1 .. FirstPeriod(name) - 1 PROVE name[i] # Period
    <3>1. i \in 1 .. Len(name) /\ ~(FirstPeriod(name) <= i)
      BY <1>1, <2>6
    <3> QED BY <2>4, <2>5, <3>1
  <2> QED BY <1>1, <2>4, <2>5, <2>6, <2>7
<1> QED BY <1>2, <1>3

\* A search that knows short names only leaves out (hasNon83Name) exactly the
\* names that are none: for every name, however long and with dots anywhere.
THEOREM Non83ByRule ==
  ASSUME NEW name \in Seq(Nat)
  PROVE  hasNon83Name(name) <=> ~IsShort(name)
<1> DEFINE L == Len(name)
           dot == FirstPeriod(name)
           Special == name \in {<<Period>>, <<Period, Period>>}
           Bad(i) == name[i] \in DosBadChars
<1>1. /\ L \in Nat /\ dot \in 1 .. L + 1 /\ DOMAIN name = 1 .. L
      /\ \A i \in 1 .. dot - 1 : name[i] # Period
      /\ dot <= L => name[dot] = Period
  BY FirstPeriodIs
<1>2. hasNon83Name(name)
        <=> /\ ~Special
            /\ \/ dot - 1 > 8 \/ L - dot > 3
               \/ \E i \in 1 .. L : i # dot /\ Bad(i)
  BY <1>1 DEF hasNon83Name, FirstPeriod
<1>3. \A i \in 1 .. L : name[i] = Period => Bad(i)
  BY DEF Period, DosBadChars
<1> DEFINE Short(n) == /\ n <= 8 /\ \A i \in 1 .. n : ~Bad(i)
                       /\ \/ n = L
                          \/ /\ name[n + 1] = Period /\ L - (n + 1) <= 3
                             /\ \A i \in n + 2 .. L : ~Bad(i)
<1>4. IsShort(name) <=> Special \/ \E n \in 0 .. L : Short(n)
  BY DEF IsShort
<1> HIDE DEF L, dot, Special, Bad
<1>5. ASSUME NEW n \in 0 .. L, Short(n)
      PROVE  /\ ~(dot - 1 > 8) /\ ~(L - dot > 3)
             /\ \A i \in 1 .. L : i # dot => ~Bad(i)
  <2>1. ~(dot <= n)
    <3>1. dot <= n => dot \in 1 .. n /\ dot \in 1 .. L
      BY <1>1
    <3> QED BY <1>1, <1>3, <1>5, <3>1
  <2>2. n < L => n + 1 = dot
    <3> SUFFICES ASSUME n < L PROVE n + 1 = dot
      OBVIOUS
    <3>1. name[n + 1] = Period
      BY <1>5
    <3>2. ~(n + 1 \in 1 .. dot - 1)
      BY <1>1, <3>1
    <3> QED BY <1>1, <2>1, <3>2
  <2>3. dot = n + 1
    BY <1>1, <2>1, <2>2
  <2>4. ASSUME NEW i \in 1 .. L, i # dot PROVE ~Bad(i)
    <3>1. CASE i <= n
      <4>1. i \in 1 .. n
        BY <3>1
      <4> QED BY <1>5, <4>1
    <3>2. CASE ~(i <= n)
      <4>1. n # L /\ i \in n + 2 .. L
        BY <1>1, <2>3, <2>4, <3>2
      <4> QED BY <1>5, <4>1
    <3> QED BY <3>1, <3>2
  <2>5. ~(L - dot > 3) /\ ~(dot - 1 > 8)
    BY <1>1, <1>5, <2>3
  <2> QED BY <2>4, <2>5
<1>6. ASSUME ~(dot - 1 > 8), ~(L - dot > 3),
             \A i \in 1 .. L : i # dot => ~Bad(i)
      PROVE  \E n \in 0 .. L : Short(n)
  <2> DEFINE n == dot - 1
  <2>1. n \in 0 .. L /\ n + 1 = dot /\ n <= 8 /\ L - (n + 1) <= 3
    BY <1>1, <1>6
  <2>2. \A i \in 1 .. n : i \in 1 .. L /\ i # dot
    BY <1>1, <2>1
  <2>3. \A i \in n + 2 .. L : i \in 1 .. L /\ i # dot
    BY <1>1, <2>1
  <2>4. n = L \/ name[n + 1] = Period
    BY <1>1, <2>1
  <2> HIDE DEF n
  <2>5. Short(n)
    BY <1>6, <2>1, <2>2, <2>3, <2>4
  <2> QED BY <2>1, <2>5
<1> HIDE DEF Short
<1> QED BY <1>2, <1>4, <1>5, <1>6

\* The last component of a path is a name.
LEMMA LastIsName ==
  ASSUME NEW path \in Seq(Nat), \E i \in DOMAIN path : path[i] \in Slashes
  PROVE  splitPath(path).last \in Seq(Nat)
<1> DEFINE L == Len(path)
           IsLast(i) == path[i] \in Slashes /\ \A j \in DOMAIN path :
                                                 j > i => path[j] \notin Slashes
           T == {d \in Nat : d <= L /\ L - d \in DOMAIN path
                             /\ path[L - d] \in Slashes}
           p2 == CHOOSE i \in DOMAIN path : IsLast(i)
<1>1. L \in Nat /\ DOMAIN path = 1 .. L
  OBVIOUS
<1>2. PICK d \in T : \A e \in T : d <= e
  <2>1. PICK i \in DOMAIN path : path[i] \in Slashes
    OBVIOUS
  <2>2. L - i \in T
    <3>1. L - i \in Nat /\ L - i <= L /\ L - (L - i) = i
      BY <1>1
    <3> QED BY <2>1, <3>1
  <2>3. T \subseteq Nat /\ T # {}
    BY <2>2
  <2> HIDE DEF T
  <2> QED BY <2>3, LeastNumber
<1>3. L - d \in DOMAIN path /\ path[L - d] \in Slashes
  OBVIOUS
<1>4. ASSUME NEW j \in DOMAIN path, j > L - d PROVE path[j] \notin Slashes
  <2>1. L - j \in Nat /\ L - j <= L /\ L - (L - j) = j /\ ~(d <= L - j)
    BY <1>1, <1>4
  <2>2. L - j \notin T
    BY <1>2, <2>1
  <2> QED BY <2>1, <2>2
<1>5. p2 \in DOMAIN path
  <2>1. IsLast(L - d)
    BY <1>3, <1>4
  <2> HIDE DEF IsLast
  <2> QED BY <1>3, <2>1
<1>6. splitPath(path).last = SubSeq(path, p2 + 1, L)
  BY DEF splitPath
<1> HIDE DEF p2
<1>7. SubSeq(path, p2 + 1, L) \in Seq(Nat)
  BY <1>1, <1>5, SubSeqProperties
<1> QED BY <1>6, <1>7

=============================================================================
