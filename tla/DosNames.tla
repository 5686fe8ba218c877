------------------------------ MODULE DosNames ------------------------------
(***************************************************************************)
(* File names as OS/2 programs know them (daemon/utils.c and nameMatches   *)
(* of daemon/find.c).  A name, a path or a search specification is a       *)
(* sequence of bytes without the zero at its end.                          *)
(***************************************************************************)
EXTENDS Integers, Sequences, FiniteSets

Period   == 46
Star     == 42
Question == 63
Slashes  == {92, 47}        \* IS_PATH_SEPARATOR: \ and /

tolower(c) == IF c \in 65 .. 90 THEN c + 32 ELSE c

\* A path, which begins with a separator, in its last component and what is
\* before it, without the separators between the two
splitPath(path) ==
  LET p2 == CHOOSE i \in DOMAIN path :
              path[i] \in Slashes /\ \A j \in DOMAIN path :
                                       j > i => path[j] \notin Slashes
      before == {i \in 1 .. p2 : path[i] \notin Slashes}
      end == IF before = {} THEN 0
             ELSE CHOOSE i \in before : \A j \in before : j <= i
  IN  [prefix |-> SubSeq(path, 1, end), last |-> SubSeq(path, p2 + 1, Len(path))]

\* DOSBADCHARS: < > | + = : ; , . " / \ [ ]
DosBadChars == {60, 62, 124, 43, 61, 58, 59, 44, 46, 34, 47, 92, 91, 93}

\* Up to the first period there may be eight characters, and behind it three;
\* a second period is a bad character.
hasNon83Name(name) ==
  LET dots == {i \in DOMAIN name : name[i] = Period}
      dot  == IF dots = {} THEN Len(name) + 1
              ELSE CHOOSE i \in dots : \A j \in dots : i <= j
  IN  /\ name \notin {<<Period>>, <<Period, Period>>}
      /\ \/ dot - 1 > 8 \/ Len(name) - dot > 3
         \/ \E i \in DOMAIN name : i # dot /\ name[i] \in DosBadChars

\* The rest of the specification from i on against the rest of the name from j
nameMatches(exp, name) ==
  LET m[at \in (1 .. Len(exp) + 1) \X (1 .. Len(name) + 1)] ==
        LET i == at[1]
            j == at[2]
            end == j > Len(name)
            here(c) == ~end /\ name[j] = c
        IN  IF i > Len(exp)
            THEN \A k \in j .. Len(name) : name[k] = Period
            ELSE CASE exp[i] = Star -> \/ ~end /\ m[<<i, j + 1>>]
                                      \/ m[<<i + 1, j>>]
                   [] exp[i] = Question ->
                        \/ end
                        \/ here(Period) /\ m[<<i + 1, j>>]
                        \/ ~end /\ ~here(Period) /\ m[<<i + 1, j + 1>>]
                   [] exp[i] = Period -> \/ end /\ m[<<i + 1, j>>]
                                         \/ here(Period) /\ m[<<i + 1, j + 1>>]
                   [] OTHER -> /\ ~end /\ tolower(exp[i]) = tolower(name[j])
                               /\ m[<<i + 1, j + 1>>]
  IN  m[<<1, 1>>]

-----------------------------------------------------------------------------
(* The same by their rules, for comparison.                                *)

\* Where in the name one can be after the first k characters of exp: a star
\* stands for anything, a question mark for one character that is no period or
\* for nothing before a period or the end, a period for a period or the end.
Reached(exp, name) ==
  LET end == Len(name) + 1
      isDot(j) == j < end /\ name[j] = Period
      after(c, j) ==
        CASE c = Star     -> j .. end
          [] c = Question -> {IF j = end \/ isDot(j) THEN j ELSE j + 1}
          [] c = Period   -> IF j = end THEN {j} ELSE IF isDot(j) THEN {j + 1}
                             ELSE {}
          [] OTHER        -> IF j < end /\ tolower(name[j]) = tolower(c)
                             THEN {j + 1} ELSE {}
      places[k \in 0 .. Len(exp)] ==
        IF k = 0 THEN {1}
        ELSE LET was == places[k - 1]
             IN  UNION {after(exp[k], j) : j \in was}
  IN  places[Len(exp)]

MatchesByRule(exp, name) ==
  \E j \in Reached(exp, name) : \A k \in j .. Len(name) : name[k] = Period

\* A letter behind a question mark
LetterAfterQuestion(exp) ==
  \E i, j \in DOMAIN exp :
    i < j /\ exp[i] = Question /\ exp[j] \notin {Star, Question, Period}

\* At most eight characters, and after a period at most three; the parts may
\* be empty.
IsShort(name) ==
  \/ name \in {<<Period>>, <<Period, Period>>}
  \/ \E n \in 0 .. Len(name) :
       /\ n <= 8 /\ \A i \in 1 .. n : name[i] \notin DosBadChars
       /\ \/ n = Len(name)
          \/ /\ name[n + 1] = Period /\ Len(name) - (n + 1) <= 3
             /\ \A i \in n + 2 .. Len(name) : name[i] \notin DosBadChars
=============================================================================
