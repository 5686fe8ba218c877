--------------------------- MODULE IsoPathProofs ---------------------------
(***************************************************************************)
(* Theorems about names, paths and listings: on images that are written as *)
(* ISO9660 and Joliet ask for, of any size and depth, whatever the sector  *)
(* size, the character set and the session, a path leads to what its       *)
(* author put there, and isoinfo lists and extracts what the daemon finds. *)
(* The latter is not said of runs in which isoinfo goes through memory it  *)
(* has freed: when directories are in others than the root and the first   *)
(* one in it.                                                              *)
(***************************************************************************)
EXTENDS IsoVolumeProofs

-----------------------------------------------------------------------------
(* The records of a directory, and the sectors they are in                 *)

LEMMA RangeOf ==
  ASSUME NEW S, NEW s \in Seq(S)
  PROVE  Range(s) = {s[i] : i \in 1 .. Len(s)} /\ Range(s) \subseteq S
BY DEF Range

LEMMA RangeOfConcat ==
  ASSUME NEW S, NEW s \in Seq(S), NEW t \in Seq(S)
  PROVE  Range(s \o t) = Range(s) \cup Range(t)
<1> DEFINE st_ == s \o t
<1>1. /\ st_ \in Seq(S) /\ Len(st_) = Len(s) + Len(t)
      /\ \A i \in 1 .. Len(s) + Len(t) :
           st_[i] = IF i <= Len(s) THEN s[i] ELSE t[i - Len(s)]
  BY ConcatProperties
<1>2. Len(s) \in Nat /\ Len(t) \in Nat
  OBVIOUS
<1> HIDE DEF st_
<1>3. Range(st_) = {st_[i] : i \in 1 .. Len(st_)}
  BY <1>1, RangeOf
<1>4. Range(s) = {s[i] : i \in 1 .. Len(s)} /\ Range(t) = {t[i] : i \in 1 .. Len(t)}
  BY RangeOf
<1>5. ASSUME NEW x \in Range(st_) PROVE x \in Range(s) \cup Range(t)
  <2>1. PICK i \in 1 .. Len(s) + Len(t) : x = st_[i]
    BY <1>1, <1>3
  <2>2. CASE i <= Len(s)
    BY <1>1, <1>2, <1>4, <2>1, <2>2
  <2>3. CASE ~(i <= Len(s))
    <3>1. i - Len(s) \in 1 .. Len(t)
      BY <1>2, <2>3
    <3> QED BY <1>1, <1>4, <2>1, <2>3, <3>1
  <2> QED BY <2>2, <2>3
<1>6. ASSUME NEW x \in Range(s) PROVE x \in Range(st_)
  <2>1. PICK i \in 1 .. Len(s) : x = s[i]
    BY <1>4
  <2> QED BY <1>1, <1>2, <1>3, <2>1
<1>7. ASSUME NEW x \in Range(t) PROVE x \in Range(st_)
  <2>1. PICK i \in 1 .. Len(t) : x = t[i]
    BY <1>4
  <2>2. PICK j \in 1 .. Len(s) + Len(t) : j = i + Len(s)
    BY <1>2
  <2>3. ~(j <= Len(s)) /\ j - Len(s) = i
    BY <1>2, <2>2
  <2>4. st_[j] = t[i]
    BY <1>1, <2>3
  <2> QED BY <1>1, <1>3, <2>1, <2>4
<1>8. Range(st_) = Range(s) \cup Range(t)
  BY <1>5, <1>6, <1>7
<1> QED BY <1>8 DEF st_

LEMMA DirRecordsAre ==
  ASSUME NEW img \in DOMAIN Images, NEW e \in DOMAIN Masters[img].dirs
  PROVE  LET m == Masters[img]
             r == DirRecords(m, e)
         IN  /\ e \in Nat /\ NodesOf(m, e) \in Seq(Nodes)
             /\ r \in Seq(RecordTypes) /\ Len(r) = Len(NodesOf(m, e)) + 2
             /\ Range(r) = {Special("self", e), Special("parent", e)}
                           \cup {RecordOf(m, node) : node \in NodesIn(m, e)}
             /\ DOMAIN DirSectors(m, e) = DirExtentOf(m, e)
<1> DEFINE m == Masters[img]
           nodes == NodesOf(m, e)
           two == <<Special("self", e), Special("parent", e)>>
           named == [i \in DOMAIN nodes |-> RecordOf(m, nodes[i])]
           r == DirRecords(m, e)
           T == {Special("self", e), Special("parent", e)} \cup Range(named)
<1>1. nodes \in Seq(Nodes) /\ e \in Nat
  BY MasterTyped DEF NodesOf, At
<1>2. r \in Seq(RecordTypes)
  BY DirRecordsTyped
<1>3. r = two \o named
  BY DEF DirRecords
<1> HIDE DEF m, r
<1>4. Range(named) = {RecordOf(m, node) : node \in NodesIn(m, e)}
  <2>1. Range(named) = {RecordOf(m, nodes[i]) : i \in DOMAIN nodes}
    BY DEF Range
  <2>2. NodesIn(m, e) = {nodes[i] : i \in DOMAIN nodes}
    BY DEF NodesIn, Range
  <2> HIDE DEF nodes, named
  <2> QED BY <2>1, <2>2
<1>5. named \in Seq(T) /\ Len(named) = Len(nodes)
  <2>1. \A i \in DOMAIN nodes : named[i] \in T
    BY DEF Range
  <2>2. DOMAIN nodes = 1 .. Len(nodes) /\ Len(nodes) \in Nat
    BY <1>1
  <2>3. named = [i \in 1 .. Len(nodes) |-> named[i]]
    BY <2>2
  <2> HIDE DEF named, T, nodes
  <2> QED BY <2>1, <2>2, <2>3
<1>6. two \in Seq(T) /\ Len(two) = 2
      /\ Range(two) = {Special("self", e), Special("parent", e)}
  <2>1. Special("self", e) \in T /\ Special("parent", e) \in T
    OBVIOUS
  <2> HIDE DEF T
  <2>2. DOMAIN two = 1 .. 2 /\ 1 .. 2 = {1, 2}
        /\ two[1] = Special("self", e) /\ two[2] = Special("parent", e)
    OBVIOUS
  <2>3. Range(two) = {two[i] : i \in {1, 2}}
    BY <2>2 DEF Range
  <2>4. Range(two) = {two[1], two[2]}
    BY <2>3
  <2> QED BY <2>1, <2>2, <2>4
<1> HIDE DEF two, named, T, nodes
<1>7. Len(r) = Len(nodes) + 2
  <2>1. Len(two \o named) = Len(two) + Len(named)
    BY <1>5, <1>6, ConcatProperties
  <2>2. Len(nodes) \in Nat
    BY <1>1
  <2> QED BY <1>3, <1>5, <1>6, <2>1, <2>2
<1>8. Range(r) = {Special("self", e), Special("parent", e)} \cup Range(named)
  <2>1. Range(two \o named) = Range(two) \cup Range(named)
    BY <1>5, <1>6, RangeOfConcat
  <2> QED BY <1>3, <1>6, <2>1
<1>9. DOMAIN DirSectors(m, e) = DirExtentOf(m, e)
  <2>1. DOMAIN DirSectors(m, e) = e .. (e + (Len(r) - 1) \div m.per)
    BY DEF DirSectors, r
  <2>2. Len(r) - 1 = Len(nodes) + 1
    BY <1>1, <1>7
  <2> QED BY <2>1, <2>2 DEF DirExtentOf, nodes
<1> QED BY <1>1, <1>2, <1>4, <1>7, <1>8, <1>9 DEF m, r, nodes

\* A sector of a directory is read as what was written there.
LEMMA DirSectorRead ==
  ASSUME NEW img \in DOMAIN Images, DirsApart(Masters[img]),
         NEW e \in DOMAIN Masters[img].dirs, NEW n \in DirExtentOf(Masters[img], e),
         n <= Masters[img].last, NEW kept
  PROVE  ReadRecs(img, n, kept) = DirSectors(Masters[img], e)[n]
<1> DEFINE m    == Masters[img]
           dirs == {DirSectors(m, f) : f \in DOMAIN m.dirs}
           recs == ImageOf(m).recs
           d    == DirSectors(m, e)
<1>1. m.last \in Nat /\ Images[img] = ImageOf(m) /\ ImageOf(m).last = m.last
  BY MasterTyped DEF ImageOf
<1>2. \A f \in DOMAIN m.dirs : DOMAIN DirSectors(m, f) = DirExtentOf(m, f)
  BY DirRecordsAre
<1>3. d \in dirs /\ n \in DOMAIN d
  BY <1>2
<1>4. \A c \in dirs : n \in DOMAIN c => c = d
  <2> SUFFICES ASSUME NEW f \in DOMAIN m.dirs, n \in DOMAIN DirSectors(m, f)
               PROVE  DirSectors(m, f) = d
    OBVIOUS
  <2>1. n \in DirExtentOf(m, f) \cap DirExtentOf(m, e)
    BY <1>2
  <2>2. f = e
    BY <2>1 DEF DirsApart
  <2> QED BY <2>2
<1> HIDE DEF d
<1>5. (CHOOSE c \in dirs : n \in DOMAIN c) = d
  <2> HIDE DEF dirs
  <2> QED BY <1>3, <1>4
<1>6. n \in (UNION {DOMAIN c : c \in dirs}) \cup {node.at : node \in AllNodes(m)}
  <2> HIDE DEF dirs
  <2> QED BY <1>3
<1>7. recs = [k \in (UNION {DOMAIN c : c \in dirs}) \cup {node.at : node \in AllNodes(m)} |->
                IF \E c \in dirs : k \in DOMAIN c
                THEN (CHOOSE c \in dirs : k \in DOMAIN c)[k] ELSE <<Garbage>>]
  BY DEF ImageOf
<1> HIDE DEF dirs, recs
<1>8. n \in DOMAIN recs /\ recs[n] = d[n]
  BY <1>3, <1>5, <1>6, <1>7
<1>9. Stored[img].recs = recs /\ LastSector(img) = m.last
  BY <1>1 DEF Stored, LastSector, recs
<1>10. ReadRecs(img, n, kept) = At(recs, n, <<>>)
  BY <1>9 DEF ReadRecs
<1> QED BY <1>8, <1>10 DEF At, d

\* A sector of something else is read as what may look like records.
LEMMA OtherSectorRead ==
  ASSUME NEW img \in DOMAIN Images, NEW n,
         \A e \in DOMAIN Masters[img].dirs : n \notin DirExtentOf(Masters[img], e),
         NEW kept \in Seq({Garbage})
  PROVE  ReadRecs(img, n, kept) \in Seq({Garbage})
<1> DEFINE m    == Masters[img]
           dirs == {DirSectors(m, f) : f \in DOMAIN m.dirs}
           recs == ImageOf(m).recs
           S    == (UNION {DOMAIN c : c \in dirs}) \cup {node.at : node \in AllNodes(m)}
<1>1. Images[img] = ImageOf(m)
  BY MasterTyped
<1>2. \A c \in dirs : n \notin DOMAIN c
  BY DirRecordsAre
<1>3. recs = [k \in S |->
                IF \E c \in dirs : k \in DOMAIN c
                THEN (CHOOSE c \in dirs : k \in DOMAIN c)[k] ELSE <<Garbage>>]
  BY DEF ImageOf
<1>4. Stored[img].recs = recs
  BY <1>1 DEF Stored
<1>5. <<Garbage>> \in Seq({Garbage}) /\ <<>> \in Seq({Garbage})
  OBVIOUS
<1> HIDE DEF dirs, recs, S
<1>6. n \in DOMAIN recs => recs[n] = <<Garbage>>
  BY <1>2, <1>3
<1>7. At(recs, n, <<>>) \in Seq({Garbage})
  BY <1>5, <1>6 DEF At
<1> QED BY <1>4, <1>7 DEF ReadRecs

LEMMA DivisionGrows ==
  ASSUME NEW a \in Nat, NEW b \in Nat, a <= b, NEW s \in Nat \ {0}
  PROVE  a \div s <= b \div s
<1> DEFINE q == a \div s
           t == b \div s
<1>1. q \in Nat /\ a % s \in 0 .. s - 1 /\ a = q * s + (a % s)
  BY Divided
<1>2. t \in Nat /\ b % s \in 0 .. s - 1 /\ b = t * s + (b % s)
  BY Divided
<1> DEFINE y == a % s
           z == b % s
<1> HIDE DEF q, t, y, z
<1>3. y \in 0 .. s - 1 /\ a = q * s + y
  BY <1>1 DEF y
<1>4. z \in 0 .. s - 1 /\ b = t * s + z
  BY <1>2 DEF z
<1>5. (t + 1) * s = t * s + s /\ t * s \in Nat /\ q * s \in Nat
  BY <1>1, <1>2
<1>6. q * s < (t + 1) * s
  BY <1>3, <1>4, <1>5
<1>7. q < t + 1
  BY <1>1, <1>2, <1>6, CancelFactor
<1> QED BY <1>1, <1>2, <1>7 DEF q, t

\* What is in the sectors of a directory are all of its records, and no others.
LEMMA SectorsHoldRecords ==
  ASSUME NEW img \in DOMAIN Images, NEW e \in DOMAIN Masters[img].dirs
  PROVE  LET m == Masters[img]
         IN  /\ \A n \in DirExtentOf(m, e) :
                  DirSectors(m, e)[n] \in Seq(Range(DirRecords(m, e)))
             /\ UNION {Range(DirSectors(m, e)[n]) : n \in DirExtentOf(m, e)}
                  = Range(DirRecords(m, e))
<1> DEFINE m == Masters[img]
           r == DirRecords(m, e)
           L == Len(r)
           per == m.per
           A(n) == (n - e) * per + 1
           B(n) == Min2((n - e + 1) * per, L)
           d == DirSectors(m, e)
           X == DirExtentOf(m, e)
<1>1. /\ e \in Nat /\ per \in Nat \ {0}
      /\ r \in Seq(RecordTypes) /\ L = Len(NodesOf(m, e)) + 2
      /\ NodesOf(m, e) \in Seq(Nodes) /\ DOMAIN d = X
  BY DirRecordsAre, MasterTyped
<1>2. L \in Nat /\ L >= 2
  <2>1. Len(NodesOf(m, e)) \in Nat
    BY <1>1
  <2> HIDE DEF L
  <2> QED BY <1>1, <2>1
<1>3. d = [n \in X |-> SubSeq(r, A(n), B(n))]
  <2>1. d = [n \in e .. (e + (L - 1) \div per) |-> SubSeq(r, A(n), B(n))]
    BY DEF DirSectors
  <2> HIDE DEF d, A, B
  <2> QED BY <1>1, <2>1
<1>4. X = e .. (e + (L - 1) \div per)
  <2>1. DOMAIN d = e .. (e + (L - 1) \div per)
    BY DEF DirSectors
  <2> QED BY <1>1, <2>1
<1> HIDE DEF X, d, per, L
<1>5. r \in Seq(Range(r)) /\ Range(r) = {r[i] : i \in 1 .. L}
  <2> HIDE DEF r
  <2>1. r = [i \in 1 .. L |-> r[i]] /\ Range(r) = {r[i] : i \in 1 .. L}
    BY <1>1 DEF Range, L
  <2> QED BY <1>2, <2>1
<1> HIDE DEF r
<1>6. ASSUME NEW n \in X
      PROVE  /\ d[n] \in Seq(Range(r))
             /\ Range(d[n]) \subseteq Range(r)
             /\ Len(d[n]) = IF A(n) <= B(n) THEN B(n) - A(n) + 1 ELSE 0
             /\ \A i \in 1 .. Len(d[n]) : d[n][i] = r[A(n) + i - 1]
  <2>1. n - e \in Nat
    BY <1>1, <1>4
  <2>2. (n - e) * per \in Nat /\ (n - e + 1) * per \in Nat
    BY <1>1, <2>1
  <2>3. A(n) \in Nat \ {0} /\ B(n) \in Nat /\ B(n) <= Len(r)
    BY <1>2, <2>2 DEF Min2, L
  <2>4. d[n] = SubSeq(r, A(n), B(n))
    BY <1>3
  <2> HIDE DEF A, B
  <2>5. /\ d[n] \in Seq(Range(r))
        /\ Len(d[n]) = IF A(n) <= B(n) THEN B(n) - A(n) + 1 ELSE 0
        /\ \A i \in 1 .. Len(d[n]) : d[n][i] = r[A(n) + i - 1]
    <3> DEFINE a == A(n)
               b == B(n)
               S == Range(r)
    <3>1. r \in Seq(S) /\ a \in Nat \ {0} /\ b \in Nat /\ b <= Len(r)
          /\ d[n] = SubSeq(r, a, b)
      BY <1>5, <2>3, <2>4
    <3> HIDE DEF a, b, S
    <3>2. /\ SubSeq(r, a, b) \in Seq(S)
          /\ Len(SubSeq(r, a, b)) = IF a <= b THEN b - a + 1 ELSE 0
          /\ \A i \in 1 .. Len(SubSeq(r, a, b)) : SubSeq(r, a, b)[i] = r[a + i - 1]
      BY <3>1, RunOf
    <3> QED BY <3>1, <3>2 DEF a, b, S
  <2>6. Range(d[n]) \subseteq Range(r)
    BY <2>5, RangeOf
  <2> QED BY <2>5, <2>6
<1>7. ASSUME NEW i \in 1 .. L PROVE \E n \in X : r[i] \in Range(d[n])
  <2> DEFINE q == (i - 1) \div per
             z == (i - 1) % per
  <2>1. i - 1 \in Nat /\ L - 1 \in Nat /\ i - 1 <= L - 1
    BY <1>2
  <2>2. q \in Nat /\ z \in 0 .. per - 1 /\ i - 1 = q * per + z
    BY <1>1, <2>1, Divided
  <2>3. q <= (L - 1) \div per
    BY <1>1, <2>1, DivisionGrows
  <2>4. (L - 1) \div per \in Nat
    BY <1>1, <2>1, Divided
  <2> HIDE DEF q, z
  <2>5. PICK n \in X : n - e = q
    <3>1. e + q \in X /\ (e + q) - e = q
      BY <1>1, <1>4, <2>2, <2>3, <2>4
    <3> QED BY <3>1
  <2>6. /\ A(n) = q * per + 1 /\ B(n) = Min2((q + 1) * per, L)
        /\ (q + 1) * per = q * per + per /\ q * per \in Nat
    BY <1>1, <2>2, <2>5
  <2> HIDE DEF A, B
  <2>7. A(n) <= i /\ i <= B(n)
    BY <1>1, <1>2, <2>2, <2>6 DEF Min2
  <2>8. B(n) \in Int /\ A(n) \in Int
    BY <1>1, <1>2, <2>2, <2>6 DEF Min2
  <2>9. PICK j \in 1 .. Len(d[n]) : A(n) + j - 1 = i
    <3>1. Len(d[n]) = B(n) - A(n) + 1
      BY <1>6, <2>7, <2>8
    <3>2. i - A(n) + 1 \in 1 .. Len(d[n]) /\ A(n) + (i - A(n) + 1) - 1 = i
      BY <2>7, <2>8, <3>1
    <3> QED BY <3>2
  <2>10. d[n][j] = r[i]
    BY <1>6, <2>9
  <2>11. Range(d[n]) = {d[n][k] : k \in 1 .. Len(d[n])}
    BY <1>6, RangeOf
  <2> QED BY <2>9, <2>10, <2>11
<1>8. UNION {Range(d[n]) : n \in X} = Range(r)
  <2> DEFINE U == UNION {Range(d[n]) : n \in X}
  <2>1. U \subseteq Range(r)
    BY <1>6
  <2>2. ASSUME NEW x \in Range(r) PROVE x \in U
    <3>1. PICK i \in 1 .. L : x = r[i]
      BY <1>5
    <3>2. PICK n \in X : r[i] \in Range(d[n])
      BY <1>7
    <3> QED BY <3>1, <3>2
  <2> HIDE DEF U
  <2>3. U = Range(r)
    BY <2>1, <2>2
  <2> QED BY <2>3 DEF U
<1> QED BY <1>6, <1>8 DEF d, X, r, m

EntriesMade(v, s) == [i \in DOMAIN s |-> Entry(v, s[i])]
EntrySet(v, R)    == {Entry(v, r) : r \in R}

LEMMA MappedRange ==
  ASSUME NEW R, NEW s \in Seq(R), NEW v
  PROVE  EntriesMade(v, s) \in Seq(EntrySet(v, R)) /\ Range(EntriesMade(v, s)) = EntrySet(v, Range(s))
<1>1. EntriesMade(v, s) \in Seq(EntrySet(v, R))
  <2>1. \A r \in R : Entry(v, r) \in EntrySet(v, R)
    BY DEF EntrySet
  <2> QED BY <2>1 DEF EntriesMade
<1>2. Range(EntriesMade(v, s)) = {Entry(v, s[i]) : i \in DOMAIN s}
  BY DEF Range, EntriesMade
<1>3. Range(s) = {s[i] : i \in DOMAIN s}
  BY DEF Range
<1>4. Range(EntriesMade(v, s)) = EntrySet(v, Range(s))
  BY <1>2, <1>3 DEF EntrySet
<1> QED BY <1>1, <1>4

\* The entries of a directory are those of its records (getDirEntries).
LEMMA DirEntriesAre ==
  ASSUME NEW v, v.img \in DOMAIN Images, DirsApart(Masters[v.img]),
         NEW at, NEW size \in Nat, IsDirAt(Masters[v.img], at, size)
  PROVE  LET E == {Entry(v, r) : r \in Range(DirRecords(Masters[v.img], at))}
         IN  /\ getDirEntries(v, at, size) \in Seq(E)
             /\ Range(getDirEntries(v, at, size)) = E
<1> DEFINE m == Masters[v.img]
           R == Range(DirRecords(m, at))
           D == DirSectors(m, at)
           X == DirExtentOf(m, at)
           E == {Entry(v, r) : r \in R}
           N == Sectors(size)
           es == getDirEntries(v, at, size)
<1>1. /\ at \in DOMAIN m.dirs /\ 0 < size /\ size < HighBit /\ at .. (at + N - 1) = X
      /\ at + N - 1 <= m.last
  BY DEF IsDirAt, Extent
<1>2. N \in Nat /\ at \in Nat /\ m.last \in Nat
  BY <1>1, SectorsEnough, DirRecordsAre, MasterTyped
<1>3. (\A n \in X : D[n] \in Seq(R)) /\ UNION {Range(D[n]) : n \in X} = R
  BY <1>1, SectorsHoldRecords
<1>4. PICK p : DirReads(v, at, size, p)
  BY DirEntriesRead
<1>5. /\ p[0] = NothingRead
      /\ \A k \in 1 .. N : p[k] = ReadSector(v, at, k, p[k - 1])
      /\ es = p[N].entries
  <2>1. es = IF 0 < size /\ size < HighBit THEN p[N].entries ELSE <<>>
    BY <1>4 DEF DirReads
  <2>2. /\ p[0] = NothingRead
        /\ \A k \in 1 .. N : p[k] = ReadSector(v, at, k, p[k - 1])
    BY <1>4 DEF DirReads
  <2> QED BY <1>1, <2>1, <2>2
<1>6. \A n \in X : \A b : ReadRecs(v.img, n, b) = D[n]
  <2> SUFFICES ASSUME NEW n \in X, NEW b PROVE ReadRecs(v.img, n, b) = D[n]
    OBVIOUS
  <2>1. n <= m.last
    BY <1>1, <1>2
  <2> QED BY <1>1, <2>1, DirSectorRead
<1> HIDE DEF N, X, D, R, es
<1> DEFINE Upto(k) == {Entry(v, r) : r \in UNION {Range(D[n]) : n \in at .. (at + k - 1)}}
           Good(k) == p[k].entries \in Seq(E) /\ Range(p[k].entries) = Upto(k)
           T == {k \in 0 .. N : Good(k)}
<1>7. 0 \in T
  <2>1. p[0].entries = <<>>
    BY <1>5 DEF NothingRead
  <2>2. Range(<<>>) = {}
    BY DEF Range
  <2>3. at .. (at + 0 - 1) = {}
    BY <1>2
  <2>4. Upto(0) = {}
    BY <2>3
  <2> HIDE DEF Upto, E
  <2>5. Good(0)
    <3>1. <<>> \in Seq(E)
      OBVIOUS
    <3>2. Range(p[0].entries) = {} /\ p[0].entries \in Seq(E)
      BY <2>1, <2>2, <3>1
    <3> QED BY <2>4, <3>2
  <2> HIDE DEF Good
  <2> QED BY <1>2, <2>5
<1>8. ASSUME NEW k \in 0 .. N - 1, k \in T PROVE k + 1 \in T
  <2>1. PICK j \in 1 .. N : j = k + 1
    BY <1>2
  <2>2. j - 1 = k
    BY <2>1
  <2> DEFINE n0 == at + j - 1
             recs == D[n0]
             old == p[k].entries
             more == [i \in DOMAIN recs |-> Entry(v, recs[i])]
  <2>3. n0 \in X
    BY <1>1, <1>2 DEF X, N
  <2>4. recs \in Seq(R)
    BY <1>3, <2>3
  <2>5. p[j].entries = old \o more
    <3>1. ReadRecs(v.img, at + j - 1, p[j - 1].buffer) = recs
      BY <1>6, <2>3
    <3>2. p[j] = ReadSector(v, at, j, p[j - 1])
      BY <1>5
    <3>3. p[j - 1].entries = old
      BY <2>2
    <3> HIDE DEF recs, old
    <3>4. ReadSector(v, at, j, p[j - 1]).entries
            = p[j - 1].entries \o [i \in DOMAIN recs |-> Entry(v, recs[i])]
      BY <3>1 DEF ReadSector
    <3> QED BY <3>2, <3>3, <3>4
  <2>6. more \in Seq(E) /\ Range(more) = {Entry(v, r) : r \in Range(recs)}
    <3> HIDE DEF E, recs, T, R
    <3>2. /\ EntriesMade(v, recs) \in Seq(EntrySet(v, R))
          /\ Range(EntriesMade(v, recs)) = EntrySet(v, Range(recs))
      BY <2>4, MappedRange
    <3> QED BY <3>2 DEF EntriesMade, EntrySet, E
  <2>7. old \in Seq(E) /\ Range(old) = Upto(k)
    BY <1>8
  <2> HIDE DEF E, old, more
  <2>8. old \o more \in Seq(E) /\ Range(old \o more) = Range(old) \cup Range(more)
    BY <2>6, <2>7, RangeOfConcat, ConcatProperties
  <2>9. Upto(j) = Upto(k) \cup {Entry(v, r) : r \in Range(recs)}
    <3>1. at .. (at + j - 1) = (at .. (at + k - 1)) \cup {n0}
      BY <1>2, <2>1
    <3> DEFINE A == at .. (at + k - 1)
               B == at .. (at + j - 1)
    <3>2. B = A \cup {n0}
      BY <3>1
    <3> HIDE DEF A, B, n0
    <3>3. UNION {Range(D[n]) : n \in B}
            = (UNION {Range(D[n]) : n \in A}) \cup Range(D[n0])
      BY <3>2
    <3> DEFINE UA == UNION {Range(D[n]) : n \in A}
               UB == UNION {Range(D[n]) : n \in B}
    <3>4. UB = UA \cup Range(recs)
      BY <3>3
    <3>5. Upto(j) = {Entry(v, r) : r \in UB} /\ Upto(k) = {Entry(v, r) : r \in UA}
      BY DEF A, B
    <3> HIDE DEF UA, UB, Upto, recs
    <3> QED BY <3>4, <3>5
  <2>10. Good(j)
    <3> HIDE DEF Upto
    <3> QED BY <2>5, <2>6, <2>7, <2>8, <2>9
  <2> HIDE DEF Good
  <2> QED BY <1>2, <2>1, <2>10
<1> HIDE DEF T
<1>9. \A k \in 0 .. N : k \in T
  BY <1>2, <1>7, <1>8, BoundedInduction
<1>10. Good(N)
  <2> HIDE DEF Good
  <2>1. N \in T
    BY <1>2, <1>9
  <2> QED BY <2>1 DEF T
<1>11. Upto(N) = E
  BY <1>1, <1>3 DEF N, X
<1> QED BY <1>5, <1>10, <1>11 DEF es, R, m

\* What looks like an entry where no directory is
GarbageEntry(v) == Entry(v, Garbage)

LEMMA FileEntries ==
  ASSUME NEW v, v.img \in DOMAIN Images, NEW at \in Int, NEW size \in Nat,
         NoDirAt(Masters[v.img], at, size)
  PROVE  getDirEntries(v, at, size) \in Seq({GarbageEntry(v)})
<1> DEFINE m == Masters[v.img]
<1>1. ASSUME NEW k \in 1 .. Sectors(size), NEW b \in Seq({Garbage})
      PROVE  ReadRecs(v.img, at + k - 1, b) \in Seq({Garbage})
  <2>1. Sectors(size) \in Nat
    BY SectorsEnough
  <2>2. at + k - 1 \in Extent(at, size)
    BY <2>1 DEF Extent
  <2>3. \A e \in DOMAIN m.dirs : at + k - 1 \notin DirExtentOf(m, e)
    BY <2>2 DEF NoDirAt
  <2> HIDE DEF m
  <2> QED BY <2>3, OtherSectorRead DEF m
<1>2. getDirEntries(v, at, size) \in Seq({Entry(v, r) : r \in {Garbage}})
  BY <1>1, EntriesFrom
<1>3. {Entry(v, r) : r \in {Garbage}} = {GarbageEntry(v)}
  BY DEF GarbageEntry
<1> QED BY <1>2, <1>3

-----------------------------------------------------------------------------
(* Which entry of a directory a component of a path is                     *)

LEMMA FirstMatchIs ==
  ASSUME NEW S, NEW entries \in Seq(S), NEW name
  PROVE  LET e == FirstMatch(entries, name)
         IN  \/ e = NotFound /\ \A x \in Range(entries) : ~SameName(x.chrName, name)
             \/ e \in Range(entries) /\ SameName(e.chrName, name)
<1> DEFINE I == {i \in 1 .. Len(entries) : SameName(entries[i].chrName, name)}
           i == SelectInSeq(entries, LAMBDA e : SameName(e.chrName, name))
<1>1. i = IF I # {} THEN Min(I) ELSE 0
  BY DEF SelectInSeq
<1>2. Range(entries) = {entries[k] : k \in 1 .. Len(entries)}
  BY RangeOf
<1>3. CASE I = {}
  <2>1. FirstMatch(entries, name) = NotFound
    BY <1>1, <1>3 DEF FirstMatch
  <2>2. \A k \in 1 .. Len(entries) : ~SameName(entries[k].chrName, name)
    BY <1>3
  <2> QED BY <1>2, <2>1, <2>2
<1>4. CASE I # {}
  <2>1. I \subseteq Nat
    OBVIOUS
  <2>2. \E x \in I : \A y \in I : x <= y
    <3> HIDE DEF I
    <3> QED BY <1>4, <2>1, LeastNumber
  <2>3. Min(I) \in I
    <3> HIDE DEF I
    <3> QED BY <2>2 DEF Min
  <2>4. i \in 1 .. Len(entries) /\ SameName(entries[i].chrName, name)
    BY <1>1, <1>4, <2>3
  <2> HIDE DEF i, I
  <2>5. i # 0 /\ entries[i] \in Range(entries)
    BY <1>2, <2>4
  <2>6. FirstMatch(entries, name) = entries[i]
    BY <2>5 DEF FirstMatch, i
  <2> QED BY <2>4, <2>5, <2>6
<1> QED BY <1>3, <1>4

\* Names that match the same component are the same name.
LEMMA SameAsThird ==
  ASSUME NEW a, NEW b, NEW c, DOMAIN a = 1 .. Len(a), DOMAIN b = 1 .. Len(b),
         SameName(a, c), SameName(b, c)
  PROVE  SameName(a, b)
<1>1. Len(a) = Len(b) /\ DOMAIN a = DOMAIN b
  BY DEF SameName
<1>2. \A i \in DOMAIN a : Lower(a[i]) = Lower(b[i])
  BY <1>1 DEF SameName
<1> QED BY <1>1, <1>2 DEF SameName

-----------------------------------------------------------------------------
(* The name of an entry, and the identifier it is made from                *)

LEMMA WithoutZeros ==
  ASSUME NEW s, \A i \in DOMAIN s : s[i] # 0
  PROVE  CString(s) = s
BY DEF CString

\* Where the version begins
LEMMA LastSemicolon ==
  ASSUME NEW s, NEW at, at \in 1 .. Len(s), s[at] = Semicolon, Len(s) \in Nat,
         \A i \in 1 .. Len(s) : i # at => s[i] # Semicolon
  PROVE  SelectLastInSeq(s, LAMBDA c : c = Semicolon) = at
<1> DEFINE I == {i \in 1 .. Len(s) : s[i] = Semicolon}
<1>1. SelectLastInSeq(s, LAMBDA c : c = Semicolon) = IF I # {} THEN Max(I) ELSE 0
  BY DEF SelectLastInSeq
<1>2. I = {at}
  OBVIOUS
<1>3. at <= at
  OBVIOUS
<1> HIDE DEF I
<1>4. Max(I) = at
  BY <1>2, <1>3 DEF Max
<1> QED BY <1>1, <1>2, <1>4

LEMMA NoSemicolon ==
  ASSUME NEW s, \A i \in 1 .. Len(s) : s[i] # Semicolon
  PROVE  SelectLastInSeq(s, LAMBDA c : c = Semicolon) = 0
BY DEF SelectLastInSeq

LEMMA BeginningOf ==
  ASSUME NEW S, NEW s \in Seq(S), NEW k \in Nat, k <= Len(s)
  PROVE  /\ SubSeq(s, 1, k) \in Seq(S) /\ Len(SubSeq(s, 1, k)) = k
         /\ \A i \in 1 .. k : SubSeq(s, 1, k)[i] = s[i]
<1>1. \A i \in 1 .. k : s[i] \in S /\ 1 + i - 1 = i
  OBVIOUS
<1>2. k - 1 + 1 = k
  OBVIOUS
<1>3. CASE k = 0
  <2>1. SubSeq(s, 1, k) = <<>>
    BY <1>3, SubSeqEmpty
  <2> QED BY <1>3, <2>1
<1>4. CASE k # 0
  <2>1. Len(SubSeq(s, 1, k)) = k
    BY <1>2, <1>4, RunOf
  <2>2. /\ SubSeq(s, 1, k) \in Seq(S)
        /\ \A i \in 1 .. Len(SubSeq(s, 1, k)) : SubSeq(s, 1, k)[i] = s[1 + i - 1]
    BY RunOf
  <2> QED BY <1>1, <2>1, <2>2
<1> QED BY <1>3, <1>4

\* What is left of an identifier is the name.
LEMMA NameOfIdentifier ==
  ASSUME NEW S, NEW id \in Seq(S), NEW name, NEW len \in Nat,
         Len(id) > 1 => len > 1, Len(name) \in Nat, Identifies(id, name)
  PROVE  BuildName(CString(id), len) = name
<1> DEFINE n == Len(name)
           semi == SelectLastInSeq(id, LAMBDA c : c = Semicolon)
           base == IF semi = 0 THEN id ELSE SubSeq(id, 1, semi - 1)
<1>1. /\ n > 0 /\ n <= Len(id) /\ SubSeq(id, 1, n) = name
      /\ name[n] # Dot /\ n \in Nat
      /\ \A i \in 1 .. Len(id) : id[i] # 0
  BY DEF Identifies
<1>2. PICK cut \in {n, n + 1} :
        /\ cut = n + 1 => cut <= Len(id) /\ id[cut] = Dot
        /\ cut < Len(id) => id[cut + 1] = Semicolon
        /\ \A i \in 1 .. Len(id) : i # cut + 1 => id[i] # Semicolon
  BY DEF Identifies
<1>3. CString(id) = id
  BY <1>1, WithoutZeros
<1>4. BuildName(id, len) =
        IF len > 1 /\ base # <<>> /\ Last(base) = Dot THEN Front(base) ELSE base
  BY DEF BuildName
<1> HIDE DEF n
<1>5. Len(id) \in Nat /\ cut \in Nat /\ cut > 0 /\ cut <= Len(id)
  BY <1>1, <1>2
<1>6. base = SubSeq(id, 1, cut)
  <2>1. CASE cut < Len(id)
    <3>1. cut + 1 \in 1 .. Len(id) /\ id[cut + 1] = Semicolon
      BY <1>2, <1>5, <2>1
    <3>2. semi = cut + 1
      <4> DEFINE at == cut + 1
      <4>1. at \in 1 .. Len(id) /\ id[at] = Semicolon
        BY <3>1
      <4>2. \A i \in 1 .. Len(id) : i # at => id[i] # Semicolon
        BY <1>2
      <4> HIDE DEF at
      <4>3. semi = at
        BY <1>5, <4>1, <4>2, LastSemicolon
      <4> QED BY <4>3 DEF at
    <3> HIDE DEF semi
    <3>3. semi # 0 /\ semi - 1 = cut
      BY <1>5, <3>2
    <3> QED BY <3>3
  <2>2. CASE cut = Len(id)
    <3>1. \A i \in 1 .. Len(id) : id[i] # Semicolon
      BY <1>2, <1>5, <2>2
    <3>2. semi = 0
      BY <3>1, NoSemicolon
    <3>3. SubSeq(id, 1, Len(id)) = id
      <4> DEFINE t == SubSeq(id, 1, Len(id))
      <4>1. t \in Seq(S) /\ Len(t) = Len(id) /\ \A i \in 1 .. Len(id) : t[i] = id[i]
        BY <1>5, BeginningOf
      <4> HIDE DEF t
      <4>2. \A i \in 1 .. Len(t) : t[i] = id[i]
        BY <4>1
      <4>3. t = id
        BY <4>1, <4>2, SeqEqual
      <4> QED BY <4>3 DEF t
    <3> HIDE DEF semi
    <3> QED BY <2>2, <3>2, <3>3
  <2> HIDE DEF base
  <2> QED BY <1>5, <2>1, <2>2
<1> HIDE DEF base
<1>7. /\ base \in Seq(S) /\ Len(base) = cut
      /\ \A i \in 1 .. cut : base[i] = id[i]
  <2>1. /\ SubSeq(id, 1, cut) \in Seq(S) /\ Len(SubSeq(id, 1, cut)) = cut
        /\ \A i \in 1 .. cut : SubSeq(id, 1, cut)[i] = id[i]
    BY <1>5, BeginningOf
  <2> QED BY <1>6, <2>1
<1>8. base # <<>> /\ Last(base) = id[cut]
  BY <1>5, <1>7 DEF Last
<1>9. CASE cut = n
  <2>1. base = name
    BY <1>1, <1>6, <1>9
  <2>2. Last(base) # Dot
    BY <1>1, <1>7, <1>9, <2>1 DEF Last
  <2> QED BY <1>3, <1>4, <2>1, <2>2
<1>10. CASE cut = n + 1
  <2>1. id[cut] = Dot /\ len > 1 /\ cut - 1 = n
    BY <1>1, <1>2, <1>5, <1>10
  <2>2. Front(base) = SubSeq(base, 1, n)
    BY <1>7, <2>1 DEF Front
  <2>3. SubSeq(base, 1, n) = SubSeq(id, 1, n)
    <3>1. /\ SubSeq(base, 1, n) \in Seq(S) /\ Len(SubSeq(base, 1, n)) = n
          /\ \A i \in 1 .. n : SubSeq(base, 1, n)[i] = base[i]
      BY <1>1, <1>5, <1>7, <2>1, BeginningOf
    <3>2. /\ SubSeq(id, 1, n) \in Seq(S) /\ Len(SubSeq(id, 1, n)) = n
          /\ \A i \in 1 .. n : SubSeq(id, 1, n)[i] = id[i]
      BY <1>1, <1>5, BeginningOf
    <3>3. \A i \in 1 .. n : base[i] = id[i]
      BY <1>1, <1>7, <1>10
    <3> QED BY <3>1, <3>2, <3>3, SeqEqual
  <2> QED BY <1>1, <1>3, <1>4, <1>8, <2>1, <2>2, <2>3
<1> QED BY <1>2, <1>9, <1>10

LEMMA ShownName ==
  ASSUME NEW v, NEW name \in Seq(Nat)
  PROVE  LET s == Shows(v, name)
         IN  /\ s \in Seq(Range(s)) /\ Len(s) = Len(name)
             /\ DOMAIN s = 1 .. Len(s) /\ Len(s) \in Nat
             /\ \A i \in 1 .. Len(name) : s[i] = CharOf(v, name[i])
<1> DEFINE s == Shows(v, name)
<1>1. s = [i \in 1 .. Len(name) |-> CharOf(v, name[i])] /\ Len(name) \in Nat
  BY DEF Shows
<1> HIDE DEF s
<1>2. \A i \in 1 .. Len(name) : s[i] \in Range(s)
  BY <1>1 DEF Range
<1>3. s \in Seq(Range(s)) /\ Len(s) = Len(name)
  <2>1. s = [i \in 1 .. Len(name) |-> s[i]]
    BY <1>1
  <2> QED BY <1>1, <1>2, <2>1
<1> QED BY <1>1, <1>3 DEF s

\* What is left of two dots or one are these dots.
LEMMA DotsStay ==
  /\ BuildName(<<Dot>>, 1) = <<Dot>>
  /\ BuildName(<<Dot, Dot>>, 1) = <<Dot, Dot>>
<1>1. ASSUME NEW s \in {<<Dot>>, <<Dot, Dot>>} PROVE BuildName(s, 1) = s
  <2>1. \A i \in 1 .. Len(s) : s[i] # Semicolon
    BY DEF Dot, Semicolon
  <2>2. SelectLastInSeq(s, LAMBDA c : c = Semicolon) = 0
    BY <2>1, NoSemicolon
  <2>3. ~(1 > 1)
    OBVIOUS
  <2> QED BY <2>2, <2>3 DEF BuildName
<1> QED BY <1>1

LEMMA SpecialEntry ==
  ASSUME NEW v, NEW at
  PROVE  /\ Entry(v, Special("self", at)).chrName = <<Dot>>
         /\ Entry(v, Special("parent", at)).chrName = <<Dot, Dot>>
<1>1. RawName(v, Special("self", at)) = <<Dot>> /\ NameLen(v, Special("self", at)) = 1
  BY DEF RawName, NameLen, Special
<1>2. /\ RawName(v, Special("parent", at)) = <<Dot, Dot>>
      /\ NameLen(v, Special("parent", at)) = 1
  BY DEF RawName, NameLen, Special
<1> QED BY <1>1, <1>2, DotsStay DEF Entry

\* The entry of a node
EntryOf(v, node) == [chrName |-> Shows(v, node.name), iExtent |-> node.at,
                     iSize |-> node.size, dir |-> node.dir]

\* What is read of a record is the identifier, in the character set of the
\* volume.
LEMMA RawOf ==
  ASSUME NEW v, NEW m, NEW node \in Nodes, node \in AllNodes(m),
         NodeWritten(v, node), TableExact(m, v), v.ucs_level \in Nat
  PROVE  /\ RawName(v, RecordOf(m, node)) = Shows(v, node.id)
         /\ CString(Shows(v, node.id)) = Shows(v, node.id)
<1> DEFINE r  == RecordOf(m, node)
           id == Shows(v, node.id)
<1>1. /\ r.kind = "named" /\ r.name = node.id
      /\ r.extent = node.at /\ r.size = node.size
  BY DEF RecordOf
<1>2. node.id \in Seq(Nat) /\ node.name \in Seq(Nat)
  BY DEF Nodes
<1> HIDE DEF r
<1>4. /\ id \in Seq(Range(id)) /\ Len(id) = Len(node.id)
      /\ Len(Shows(v, node.name)) \in Nat /\ Len(node.id) \in Nat
      /\ id = [i \in DOMAIN node.id |-> CharOf(v, node.id[i])]
  BY <1>2, ShownName DEF Shows
<1>5. RawName(v, r) = CString(id)
  <2>1. CASE v.ucs_level = 0
    <3>1. id = [i \in DOMAIN node.id |-> node.id[i]]
      BY <1>4, <2>1 DEF CharOf
    <3>2. node.id = [i \in DOMAIN node.id |-> node.id[i]]
      BY <1>2
    <3>3. id = node.id
      BY <3>1, <3>2
    <3> HIDE DEF id
    <3> QED BY <1>1, <2>1, <3>3 DEF RawName
  <2>2. CASE v.ucs_level # 0 /\ v.nls # NoTable
    <3>1. id = [i \in DOMAIN node.id |-> ToChar(v.nls, node.id[i])]
      <4>1. \A i \in DOMAIN node.id : ToChar(v.nls, node.id[i]) = CharOf(v, node.id[i])
        BY <2>2 DEF TableExact
      <4> HIDE DEF id
      <4> QED BY <1>4, <4>1
    <3>2. RawName(v, r) = CString([i \in DOMAIN node.id |-> ToChar(v.nls, node.id[i])])
      BY <1>1, <2>2 DEF RawName
    <3> HIDE DEF id
    <3> QED BY <3>1, <3>2
  <2>3. CASE v.ucs_level # 0 /\ v.nls = NoTable
    <3>1. id = [i \in DOMAIN node.id |-> node.id[i] % 256]
      BY <1>4, <2>3 DEF CharOf
    <3>2. RawName(v, r) = CString([i \in DOMAIN node.id |-> node.id[i] % 256])
      BY <1>1, <2>3 DEF RawName
    <3> HIDE DEF id
    <3> QED BY <3>1, <3>2
  <2> QED BY <2>1, <2>2, <2>3
<1>6. CString(id) = id
  <2>1. \A i \in 1 .. Len(id) : id[i] # 0
    <3>1. Identifies(id, Shows(v, node.name))
      BY DEF NodeWritten
    <3> HIDE DEF id
    <3> QED BY <3>1 DEF Identifies
  <2>2. DOMAIN id = 1 .. Len(id)
    BY <1>2, ShownName
  <2> HIDE DEF id
  <2> QED BY <2>1, <2>2, WithoutZeros
<1> QED BY <1>5, <1>6 DEF r

LEMMA NodeEntry ==
  ASSUME NEW v, NEW m, NEW node \in Nodes, node \in AllNodes(m),
         NodeWritten(v, node), TableExact(m, v),
         v.high_sierra = HS(m), v.ucs_level \in Nat
  PROVE  Entry(v, RecordOf(m, node)) = EntryOf(v, node)
<1> DEFINE r  == RecordOf(m, node)
           id == Shows(v, node.id)
<1>1. /\ r.kind = "named" /\ r.name = node.id
      /\ r.extent = node.at /\ r.size = node.size
  BY DEF RecordOf
<1>2. node.id \in Seq(Nat) /\ node.name \in Seq(Nat) /\ node.dir \in BOOLEAN
  BY DEF Nodes
<1>3. IsDirectory(v, r) = node.dir
  <2>1. r.dir = (node.dir /\ ~HS(m)) /\ r.hsdir = (node.dir /\ HS(m))
    BY DEF RecordOf
  <2>2. CASE HS(m)
    BY <1>2, <2>1, <2>2 DEF IsDirectory
  <2>3. CASE ~HS(m)
    BY <1>2, <2>1, <2>3 DEF IsDirectory
  <2> QED BY <2>2, <2>3
<1>4. /\ id \in Seq(Range(id)) /\ Len(id) = Len(node.id)
      /\ Len(Shows(v, node.name)) \in Nat /\ Len(node.id) \in Nat
  BY <1>2, ShownName
<1>5. RawName(v, r) = CString(id)
  BY RawOf
<1> HIDE DEF r
<1>6. NameLen(v, r) \in Nat /\ (Len(id) > 1 => NameLen(v, r) > 1)
  BY <1>1, <1>4 DEF NameLen
<1>7. BuildName(RawName(v, r), NameLen(v, r)) = Shows(v, node.name)
  <2>1. Identifies(id, Shows(v, node.name))
    BY DEF NodeWritten
  <2> DEFINE S == Range(id)
             name == Shows(v, node.name)
             len == NameLen(v, r)
  <2>2. id \in Seq(S) /\ Len(name) \in Nat /\ len \in Nat
        /\ (Len(id) > 1 => len > 1) /\ Identifies(id, name)
    BY <1>4, <1>6, <2>1
  <2> HIDE DEF id, S, name, len
  <2>3. BuildName(CString(id), len) = name
    BY <2>2, NameOfIdentifier
  <2> QED BY <1>5, <2>3 DEF len, name
<1> QED BY <1>1, <1>3, <1>7 DEF Entry, EntryOf, r

-----------------------------------------------------------------------------
(* The tree of a volume, and what is found in it                           *)

Written(v, dirs) ==
  /\ v.img \in DOMAIN Images /\ v.ucs_level \in Nat /\ v.iRootSize \in Nat
  /\ dirs \subseteq DOMAIN Masters[v.img].dirs
  /\ WrittenFor(Masters[v.img], v, dirs) /\ TableExact(Masters[v.img], v)

WrittenApart(v, dirs) == Written(v, dirs) /\ Unambiguous(Masters[v.img], v, dirs)

\* A node of the tree, or its root, is a directory of it or none.
Placed(m, dirs, n) ==
  /\ n.at \in Nat /\ n.size \in Nat /\ n.dir \in BOOLEAN
  /\ IF n.dir THEN n.at \in dirs /\ IsDirAt(m, n.at, n.size)
     ELSE NoDirAt(m, n.at, n.size)

LEMMA NodesOfTree ==
  ASSUME NEW v, NEW dirs, Written(v, dirs), NEW e \in dirs,
         NEW node \in NodesIn(Masters[v.img], e)
  PROVE  /\ node \in Nodes /\ NodeWritten(v, node)
         /\ Placed(Masters[v.img], dirs, node)
         /\ node \in AllNodes(Masters[v.img])
<1> DEFINE m == Masters[v.img]
<1>1. v.img \in DOMAIN Images /\ e \in DOMAIN m.dirs /\ IsTree(m, v, dirs)
  BY DEF Written, WrittenFor
<1>2. NodesOf(m, e) \in Seq(Nodes)
  BY <1>1, DirRecordsAre
<1>3. NodesIn(m, e) \subseteq Nodes
  BY <1>2, RangeOf DEF NodesIn
<1>4. node \in Nodes
  BY <1>3
<1>5. /\ NodeWritten(v, node)
      /\ IF node.dir THEN node.at \in dirs /\ IsDirAt(m, node.at, node.size)
         ELSE NoDirAt(m, node.at, node.size)
  BY <1>1 DEF IsTree
<1>6. node.at \in Nat /\ node.size \in Nat /\ node.dir \in BOOLEAN
  BY <1>4, ZeroIsSize DEF Nodes
<1>7. node \in AllNodes(m)
  BY <1>1 DEF AllNodes, NodesIn, NodesOf, At
<1> QED BY <1>4, <1>5, <1>6, <1>7 DEF Placed

\* A directory is read as its two special entries and those of its nodes.
LEMMA TreeEntries ==
  ASSUME NEW v, NEW dirs, Written(v, dirs), NEW e \in dirs, NEW size \in Nat,
         IsDirAt(Masters[v.img], e, size)
  PROVE  LET es == getDirEntries(v, e, size)
         IN  /\ es \in Seq(Range(es))
             /\ Range(es) = {Entry(v, Special("self", e)), Entry(v, Special("parent", e))}
                            \cup {EntryOf(v, node) : node \in NodesIn(Masters[v.img], e)}
<1> DEFINE m == Masters[v.img]
           es == getDirEntries(v, e, size)
           R == Range(DirRecords(m, e))
           E == {Entry(v, r) : r \in R}
           two == {Special("self", e), Special("parent", e)}
<1>1. /\ v.img \in DOMAIN Images /\ e \in DOMAIN m.dirs /\ DirsApart(m)
      /\ v.high_sierra = HS(m) /\ v.ucs_level \in Nat /\ TableExact(m, v)
  BY DEF Written, WrittenFor
<1>2. es \in Seq(E) /\ Range(es) = E
  BY <1>1, DirEntriesAre
<1>3. R = two \cup {RecordOf(m, node) : node \in NodesIn(m, e)}
  BY <1>1, DirRecordsAre
<1>4. \A node \in NodesIn(m, e) : Entry(v, RecordOf(m, node)) = EntryOf(v, node)
  BY <1>1, NodesOfTree, NodeEntry
<1> HIDE DEF m, R
<1>5. E = {Entry(v, Special("self", e)), Entry(v, Special("parent", e))}
          \cup {EntryOf(v, node) : node \in NodesIn(m, e)}
  <2>1. ASSUME NEW x \in E
        PROVE  x \in {Entry(v, Special("self", e)), Entry(v, Special("parent", e))}
                     \cup {EntryOf(v, node) : node \in NodesIn(m, e)}
    <3>1. PICK r \in R : x = Entry(v, r)
      OBVIOUS
    <3>2. CASE r \in two
      BY <3>1, <3>2
    <3>3. CASE r \notin two
      <4>1. PICK node \in NodesIn(m, e) : r = RecordOf(m, node)
        BY <1>3, <3>3
      <4> QED BY <1>4, <3>1, <4>1
    <3> QED BY <3>2, <3>3
  <2>2. Entry(v, Special("self", e)) \in E /\ Entry(v, Special("parent", e)) \in E
    BY <1>3
  <2>3. ASSUME NEW node \in NodesIn(m, e) PROVE EntryOf(v, node) \in E
    <3>1. RecordOf(m, node) \in R
      BY <1>3
    <3> QED BY <1>4, <3>1
  <2> HIDE DEF E
  <2> QED BY <2>1, <2>2, <2>3
<1> HIDE DEF E, es
<1> QED BY <1>2, <1>5 DEF es, m

LEMMA NamedIs ==
  ASSUME NEW v, NEW nodes, NEW name
  PROVE  LET n == Named(Visible(v, nodes), name)
         IN  \/ n = NoNode /\ \A k \in nodes : ~SameName(Shows(v, k.name), name)
             \/ n \in nodes /\ SameName(Shows(v, n.name), name)
<1> DEFINE seen == Visible(v, nodes)
           hits == {n \in DOMAIN seen : SameName(seen[n], name)}
<1>1. DOMAIN seen = nodes /\ \A k \in nodes : seen[k] = Shows(v, k.name)
  BY DEF Visible
<1> HIDE DEF seen
<1>2. CASE hits = {}
  BY <1>1, <1>2 DEF Named, seen
<1>3. CASE hits # {}
  <2>1. Named(seen, name) = CHOOSE n \in hits : TRUE
    BY <1>3 DEF Named
  <2>2. (CHOOSE n \in hits : TRUE) \in hits
    BY <1>3
  <2> HIDE DEF hits
  <2>3. Named(seen, name) \in hits
    BY <2>1, <2>2
  <2> QED BY <1>1, <2>3 DEF hits, seen
<1> QED BY <1>2, <1>3

\* An entry and a node belong together: both are missing, or they are the same
\* place of the tree.
Together(v, dirs, e, n) ==
  \/ e = NotFound /\ n = NoNode
  \/ /\ e # NotFound /\ e.iExtent = n.at /\ e.iSize = n.size /\ e.dir = n.dir
     /\ Placed(Masters[v.img], dirs, n)

\* A component of a path that is asked for
NoOddName(v, c) ==
  \A odd \in {<<Dot>>, <<Dot, Dot>>, GarbageEntry(v).chrName} : ~SameName(odd, c)

LEMMA EntryFound ==
  ASSUME NEW v, NEW node, node.at \in Nat
  PROVE  EntryOf(v, node) # NotFound
BY DEF EntryOf, NotFound

\* In a directory of the tree, a component leads the code and the author to the
\* same place.
NoDots(c) == \A odd \in {<<Dot>>, <<Dot, Dot>>} : ~SameName(odd, c)

\* The names in a directory are told apart.
NamesApart(v, e) ==
  \A a, b \in NodesIn(Masters[v.img], e) :
    SameName(Shows(v, a.name), Shows(v, b.name)) => a = b

LEMMA InDirectory ==
  ASSUME NEW v, NEW dirs, Written(v, dirs), NEW n,
         Placed(Masters[v.img], dirs, n), n.dir, NamesApart(v, n.at),
         NEW c, NoDots(c)
  PROVE  Together(v, dirs, FirstMatch(getDirEntries(v, n.at, n.size), c),
                  NodeIn(Masters[v.img], v, n, c))
<1> DEFINE m == Masters[v.img]
           X == NodesIn(m, n.at)
           es == getDirEntries(v, n.at, n.size)
           two == {Entry(v, Special("self", n.at)), Entry(v, Special("parent", n.at))}
           named == {EntryOf(v, node) : node \in X}
           e == FirstMatch(es, c)
           k == NodeIn(m, v, n, c)
<1>1. n.at \in dirs /\ n.size \in Nat /\ IsDirAt(m, n.at, n.size)
  BY DEF Placed
<1>2. es \in Seq(Range(es)) /\ Range(es) = two \cup named
  BY <1>1, TreeEntries
<1>3. \/ e = NotFound /\ \A x \in Range(es) : ~SameName(x.chrName, c)
      \/ e \in Range(es) /\ SameName(e.chrName, c)
  <2> HIDE DEF es
  <2> QED BY <1>2, FirstMatchIs
<1>4. \/ k = NoNode /\ \A y \in X : ~SameName(Shows(v, y.name), c)
      \/ k \in X /\ SameName(Shows(v, k.name), c)
  <2>1. k = Named(Visible(v, X), c)
    BY DEF NodeIn
  <2> HIDE DEF X, k
  <2> QED BY <2>1, NamedIs
<1>5. \A y \in X : y \in Nodes /\ Placed(m, dirs, y)
  BY <1>1, NodesOfTree
<1>6. \A y \in X : \A z \in X : SameName(Shows(v, y.name), Shows(v, z.name)) => y = z
  BY DEF NamesApart
<1>7. \A x \in two : ~SameName(x.chrName, c)
  BY SpecialEntry DEF NoDots
<1> HIDE DEF X, es, e, k, m, two
<1>8. CASE e = NotFound /\ \A x \in Range(es) : ~SameName(x.chrName, c)
  <2>1. \A y \in X : ~SameName(Shows(v, y.name), c)
    <3> SUFFICES ASSUME NEW y \in X, SameName(Shows(v, y.name), c) PROVE FALSE
      OBVIOUS
    <3>1. EntryOf(v, y) \in Range(es)
      BY <1>2
    <3>2. EntryOf(v, y).chrName = Shows(v, y.name)
      BY DEF EntryOf
    <3> QED BY <1>8, <3>1, <3>2
  <2>2. k = NoNode
    BY <1>4, <2>1
  <2> QED BY <1>8, <2>2 DEF Together, e, k, es, m
<1>9. CASE e \in Range(es) /\ SameName(e.chrName, c)
  <2>1. e \in named
    BY <1>2, <1>7, <1>9
  <2>2. PICK y \in X : e = EntryOf(v, y)
    BY <2>1
  <2>3. SameName(Shows(v, y.name), c)
    BY <1>9, <2>2 DEF EntryOf
  <2>4. k \in X /\ SameName(Shows(v, k.name), c)
    BY <1>4, <2>3
  <2>5. k = y
    <3>1. y.name \in Seq(Nat) /\ k.name \in Seq(Nat)
      BY <1>5, <2>4 DEF Nodes
    <3> DEFINE a == Shows(v, y.name)
               b == Shows(v, k.name)
    <3>2. DOMAIN a = 1 .. Len(a) /\ DOMAIN b = 1 .. Len(b)
      BY <3>1, ShownName
    <3>3. SameName(a, c) /\ SameName(b, c)
      BY <2>3, <2>4
    <3> HIDE DEF a, b
    <3>4. SameName(a, b)
      BY <3>2, <3>3, SameAsThird
    <3> QED BY <1>6, <2>4, <3>4 DEF a, b
  <2>6. Placed(m, dirs, k)
    BY <1>5, <2>4
  <2>7. e # NotFound /\ e.iExtent = k.at /\ e.iSize = k.size /\ e.dir = k.dir
    <3>1. y.at \in Nat
      BY <2>5, <2>6 DEF Placed
    <3>2. e # NotFound
      BY <2>2, <3>1, EntryFound
    <3> QED BY <2>2, <2>5, <3>2 DEF EntryOf
  <2> QED BY <2>6, <2>7 DEF Together, e, k, es, m
<1> QED BY <1>3, <1>8, <1>9

\* So it is of names that are told apart in all directories.
LEMMA InAnyDirectory ==
  ASSUME NEW v, NEW dirs, WrittenApart(v, dirs), NEW n,
         Placed(Masters[v.img], dirs, n), n.dir, NEW c, NoOddName(v, c)
  PROVE  Together(v, dirs, FirstMatch(getDirEntries(v, n.at, n.size), c),
                  NodeIn(Masters[v.img], v, n, c))
<1>1. Written(v, dirs) /\ n.at \in dirs
  BY DEF WrittenApart, Placed
<1>2. NamesApart(v, n.at)
  BY <1>1 DEF WrittenApart, Unambiguous, NamesApart
<1>3. NoDots(c)
  BY DEF NoOddName, NoDots
<1> QED BY <1>1, <1>2, <1>3, InDirectory

\* Where no directory is, neither finds anything.
LEMMA InNone ==
  ASSUME NEW m, NEW v, NEW n, ~n.dir, NEW c
  PROVE  NodeIn(m, v, n, c) = NoNode
<1>1. NodeIn(m, v, n, c) = Named(Visible(v, {}), c)
  BY DEF NodeIn
<1>2. Named(Visible(v, {}), c) = NoNode
  BY NamedIs
<1> QED BY <1>1, <1>2

LEMMA InFile ==
  ASSUME NEW v, NEW dirs, Written(v, dirs), NEW n,
         Placed(Masters[v.img], dirs, n), ~n.dir, NEW c, NoOddName(v, c)
  PROVE  FirstMatch(getDirEntries(v, n.at, n.size), c) = NotFound
<1> DEFINE es == getDirEntries(v, n.at, n.size)
           e  == FirstMatch(es, c)
           S  == {GarbageEntry(v)}
<1>1. /\ v.img \in DOMAIN Images /\ n.at \in Int /\ n.size \in Nat
      /\ NoDirAt(Masters[v.img], n.at, n.size)
  BY DEF Written, Placed
<1>2. es \in Seq(S)
  BY <1>1, FileEntries
<1> HIDE DEF es
<1>3. Range(es) \subseteq S
  BY <1>2, RangeOf
<1>4. \/ e = NotFound /\ \A x \in Range(es) : ~SameName(x.chrName, c)
      \/ e \in Range(es) /\ SameName(e.chrName, c)
  BY <1>2, FirstMatchIs
<1>5. \A x \in S : ~SameName(x.chrName, c)
  BY DEF NoOddName
<1> QED BY <1>3, <1>4, <1>5 DEF es

LEMMA OneComponent ==
  ASSUME NEW v, NEW dirs, WrittenApart(v, dirs), NEW e, NEW n,
         Together(v, dirs, e, n), NEW c, NoOddName(v, c)
  PROVE  Together(v, dirs, EntryIn(v, e, c), NodeIn(Masters[v.img], v, n, c))
<1> DEFINE m == Masters[v.img]
<1>1. CASE e = NotFound /\ n = NoNode
  <2>1. EntryIn(v, e, c) = NotFound
    BY <1>1 DEF EntryIn
  <2>2. ~n.dir
    BY <1>1 DEF NoNode
  <2>3. NodeIn(m, v, n, c) = NoNode
    BY <2>2, InNone
  <2> QED BY <2>1, <2>3 DEF Together
<1>2. CASE e # NotFound /\ e.iExtent = n.at /\ e.iSize = n.size /\ Placed(m, dirs, n)
  <2>1. EntryIn(v, e, c) = FirstMatch(getDirEntries(v, n.at, n.size), c)
    BY <1>2 DEF EntryIn
  <2>2. CASE n.dir
    <3>1. Together(v, dirs, FirstMatch(getDirEntries(v, n.at, n.size), c),
                   NodeIn(m, v, n, c))
      BY <1>2, <2>2, InAnyDirectory
    <3> QED BY <2>1, <3>1
  <2>3. CASE ~n.dir
    <3>1. Written(v, dirs)
      BY DEF WrittenApart
    <3>2. FirstMatch(getDirEntries(v, n.at, n.size), c) = NotFound
      BY <1>2, <2>3, <3>1, InFile
    <3>3. NodeIn(m, v, n, c) = NoNode
      BY <2>3, InNone
    <3> QED BY <2>1, <3>2, <3>3 DEF Together
  <2> QED BY <2>2, <2>3
<1> QED BY <1>1, <1>2 DEF Together

\* What the author's path leads to, component by component
Walks(m, v, path, w) ==
  LET parts == Components(path)
  IN  /\ w[0] = RootNode(v)
      /\ \A k \in 1 .. Len(parts) : w[k] = NodeIn(m, v, w[k - 1], parts[k])
      /\ NodeOf(m, v, path) = w[Len(parts)]

LEMMA NodeWalk ==
  ASSUME NEW img \in DOMAIN Images, NEW v, NEW path \in Seq(Nat)
  PROVE  \E w : Walks(Masters[img], v, path, w)
<1> DEFINE m == Masters[img]
           parts == Components(path)
           N == Len(parts)
           S == AllNodes(m) \cup {NoNode, RootNode(v)}
           a == RootNode(v)
           Step(k, x) == NodeIn(m, v, x, parts[k])
           F == [k \in 1 .. N |-> [x \in S |-> Step(k, x)]]
           Body(f) == [k \in 0 .. N |-> IF k = 0 THEN a ELSE Step(k, f[k - 1])]
           p == CHOOSE f : f = Body(f)
<1>1. N \in Nat
  BY ComponentsTyped
<1>2. NodeOf(m, v, path) = p[N]
  BY DEF NodeOf
<1>3. a \in S
  OBVIOUS
<1>4. \A k \in 1 .. N, x \in S : Step(k, x) \in S
  <2> SUFFICES ASSUME NEW k \in 1 .. N, NEW x \in S PROVE Step(k, x) \in S
    OBVIOUS
  <2> DEFINE X == IF x.dir THEN NodesIn(m, x.at) ELSE {}
  <2>1. Step(k, x) = Named(Visible(v, X), parts[k])
    BY DEF NodeIn
  <2>2. X \subseteq AllNodes(m)
    <3>1. CASE x.at \in DOMAIN m.dirs
      BY <3>1 DEF NodesIn, NodesOf, At, AllNodes
    <3>2. CASE x.at \notin DOMAIN m.dirs
      BY <3>2 DEF NodesIn, NodesOf, At, Range
    <3> QED BY <3>1, <3>2
  <2> HIDE DEF X, Step, parts, m
  <2>3. Step(k, x) \in X \cup {NoNode}
    BY <2>1, NamedIs
  <2> QED BY <2>2, <2>3
<1> HIDE DEF N, S, a, Step
<1>5. F \in Steps(N, S)
  BY <1>4 DEF Steps
<1>6. PICK f : f \in Recursive(N, S, a, F)
  <2> HIDE DEF F
  <2> QED BY <1>1, <1>3, <1>5, PrimitiveRecursion
<1>7. f = Body(f)
  <2>1. f \in [0 .. N -> S] /\ f[0] = a
    BY <1>6 DEF Recursive
  <2>2. \A k \in 1 .. N : f[k] = F[k][f[k - 1]]
    <3> HIDE DEF F
    <3> QED BY <1>6 DEF Recursive
  <2>3. \A k \in 1 .. N : f[k - 1] \in S
    BY <1>1, <2>1
  <2>4. \A k \in 1 .. N : f[k] = Step(k, f[k - 1])
    BY <2>2, <2>3
  <2> QED BY <1>1, <2>1, <2>4
<1>8. p = Body(p)
  BY <1>7
<1> HIDE DEF p
<1>9. p[0] = a /\ \A k \in 1 .. N : p[k] = Step(k, p[k - 1])
  BY <1>1, <1>8
<1>10. Walks(m, v, path, p)
  BY <1>2, <1>9 DEF N, a, Step, Walks
<1> QED BY <1>10

LEMMA RootIsPlaced ==
  ASSUME NEW v, NEW dirs, Written(v, dirs)
  PROVE  /\ Placed(Masters[v.img], dirs, RootNode(v))
         /\ Together(v, dirs, RootEntry(v), RootNode(v))
         /\ RootNode(v).dir /\ RootNode(v).at = v.iRootExtent
         /\ RootNode(v).size = v.iRootSize
<1> DEFINE m == Masters[v.img]
<1>1. /\ v.img \in DOMAIN Images /\ v.iRootSize \in Nat
      /\ v.iRootExtent \in dirs /\ v.iRootExtent \in DOMAIN m.dirs
      /\ IsDirAt(m, v.iRootExtent, v.iRootSize)
  BY DEF Written, WrittenFor, IsTree
<1>2. v.iRootExtent \in Nat
  BY <1>1, DirRecordsAre
<1>3. /\ RootNode(v).dir = TRUE /\ RootNode(v).at = v.iRootExtent
      /\ RootNode(v).size = v.iRootSize
  BY DEF RootNode, NoNode
<1> HIDE DEF m
<1>4. Placed(m, dirs, RootNode(v))
  BY <1>1, <1>2, <1>3 DEF Placed
<1>5. /\ RootEntry(v).iExtent = v.iRootExtent /\ RootEntry(v).iSize = v.iRootSize
      /\ RootEntry(v).dir = TRUE /\ NotFound.dir = FALSE
  BY DEF RootEntry, NotFound
<1> QED BY <1>3, <1>4, <1>5 DEF Together, m

\* The components of a path that is asked for are names.
LEMMA NamesOfPath ==
  ASSUME NEW v, NEW dirs, WrittenApart(v, dirs), NEW path \in Paths[v.img]
  PROVE  /\ path \in Seq(Nat) /\ Components(path) \in Seq(Seq(Nat))
         /\ \A k \in 1 .. Len(Components(path)) : NoOddName(v, Components(path)[k])
<1>1. path \in Seq(Nat)
  BY RequestsAssumption DEF WrittenApart, Written
<1> DEFINE parts == Components(path)
<1>2. parts \in Seq(Seq(Nat))
  BY <1>1, ComponentsTyped
<1>3. \A c \in Range(parts) : NoOddName(v, c)
  BY DEF WrittenApart, Unambiguous, NoOddName, GarbageEntry
<1> HIDE DEF parts
<1>4. \A k \in 1 .. Len(parts) : parts[k] \in Range(parts)
  BY <1>2 DEF Range
<1> QED BY <1>1, <1>2, <1>3, <1>4 DEF parts

LEMMA TogetherAllTheWay ==
  ASSUME NEW v, NEW dirs, WrittenApart(v, dirs), NEW path \in Paths[v.img]
  PROVE  Together(v, dirs, isoQueryIsoEntryFromPath(v, path),
                  NodeOf(Masters[v.img], v, path))
<1> DEFINE m == Masters[v.img]
           parts == Components(path)
           N == Len(parts)
<1>1. /\ path \in Seq(Nat) /\ N \in Nat
      /\ \A k \in 1 .. N : NoOddName(v, parts[k])
  BY NamesOfPath
<1>2. Written(v, dirs) /\ v.img \in DOMAIN Images /\ v.iRootSize \in Nat
  BY DEF WrittenApart, Written
<1>3. PICK p : Finds(v, path, p)
  BY <1>1, <1>2, QueryFound
<1>4. PICK w : Walks(m, v, path, w)
  BY <1>1, <1>2, NodeWalk
<1>5. /\ p[0] = RootEntry(v) /\ isoQueryIsoEntryFromPath(v, path) = p[N]
      /\ \A k \in 1 .. N : p[k] = EntryIn(v, p[k - 1], parts[k])
  BY <1>3 DEF Finds
<1>6. /\ w[0] = RootNode(v) /\ NodeOf(m, v, path) = w[N]
      /\ \A k \in 1 .. N : w[k] = NodeIn(m, v, w[k - 1], parts[k])
  BY <1>4 DEF Walks
<1> HIDE DEF N, parts, m
<1> DEFINE Good(k) == Together(v, dirs, p[k], w[k])
           T == {k \in 0 .. N : Good(k)}
<1>7. 0 \in T
  BY <1>1, <1>2, <1>5, <1>6, RootIsPlaced
<1>8. ASSUME NEW k \in 0 .. N - 1, k \in T PROVE k + 1 \in T
  <2>1. PICK j \in 1 .. N : j = k + 1
    BY <1>1
  <2>2. j - 1 = k
    BY <2>1
  <2>3. p[j] = EntryIn(v, p[k], parts[j]) /\ w[j] = NodeIn(m, v, w[k], parts[j])
    BY <1>5, <1>6, <2>2
  <2>4. Together(v, dirs, p[k], w[k])
    BY <1>8
  <2> DEFINE e == p[k]
             n == w[k]
             c == parts[j]
  <2>5. Together(v, dirs, e, n) /\ NoOddName(v, c)
    BY <1>1, <2>4
  <2> HIDE DEF e, n, c, T, Good
  <2>6. Together(v, dirs, EntryIn(v, e, c), NodeIn(Masters[v.img], v, n, c))
    BY <2>5, OneComponent
  <2>7. Good(j)
    BY <2>3, <2>6 DEF e, n, c, m, Good
  <2> QED BY <1>1, <2>1, <2>7 DEF T
<1> HIDE DEF T
<1>9. \A k \in 0 .. N : k \in T
  BY <1>1, <1>7, <1>8, BoundedInduction
<1>10. Good(N)
  BY <1>1, <1>9 DEF T
<1> QED BY <1>5, <1>6, <1>10 DEF m

-----------------------------------------------------------------------------
(* The other resolution: directories only, with an extent of zero for the   *)
(* root                                                                    *)

AtRoot(v) == [ok |-> TRUE, iExtent |-> 0, iSize |-> v.iRootSize]
Ats       == [ok : BOOLEAN, iExtent : Int, iSize : Nat]

Enters(v, path, p) ==
  LET parts == Components(path)
  IN  /\ p[0] = AtRoot(v)
      /\ \A k \in 1 .. Len(parts) : p[k] = DirectoryIn(v, p[k - 1], parts[k])
      /\ isoQueryDirExtentFromPath(v, path) = DirExtent(v, p[Len(parts)])

LEMMA DirectoryInTyped ==
  ASSUME NEW v, v.img \in DOMAIN Images, v.iRootSize \in Nat, NEW at \in Ats, NEW c
  PROVE  DirectoryIn(v, at, c) \in Ats
<1> DEFINE es == EntriesAt(v, at)
           e  == FirstMatch(es, c)
<1>1. at.ok \in BOOLEAN /\ at.iSize \in Nat
  BY DEF Ats
<1>2. es \in Seq(EntriesOf(v))
  <2>1. getDirEntries(v, v.iRootExtent, v.iRootSize) \in Seq(EntriesOf(v))
    BY DirEntriesTyped
  <2>2. getDirEntries(v, at.iExtent, at.iSize) \in Seq(EntriesOf(v))
    BY <1>1, DirEntriesTyped
  <2> QED BY <2>1, <2>2 DEF EntriesAt
<1> HIDE DEF es
<1>3. e \in EntriesOf(v) \cup {NotFound}
  BY <1>2, FirstMatchIn
<1> HIDE DEF e
<1>4. e.iExtent \in Int /\ e.iSize \in Nat
  <2>1. CASE e \in EntriesOf(v)
    BY <2>1, EntryTyped, ZeroIsSize DEF Sizes
  <2>2. CASE e = NotFound
    BY <2>2 DEF NotFound
  <2> QED BY <1>3, <2>1, <2>2
<1>5. (at.ok /\ e # NotFound /\ e.dir) \in BOOLEAN
  OBVIOUS
<1>6. Descend(at, e) \in Ats
  BY <1>4, <1>5 DEF Descend, Ats
<1> QED BY <1>6 DEF DirectoryIn, e, es

LEMMA DirectoryEntered ==
  ASSUME NEW v, v.img \in DOMAIN Images, v.iRootSize \in Nat, NEW path \in Seq(Nat)
  PROVE  \E p : Enters(v, path, p)
<1> DEFINE parts == Components(path)
           N == Len(parts)
           S == Ats
           a == AtRoot(v)
           Step(k, x) == DirectoryIn(v, x, parts[k])
           F == [k \in 1 .. N |-> [x \in S |-> Step(k, x)]]
           Body(f) == [k \in 0 .. N |-> IF k = 0 THEN a ELSE Step(k, f[k - 1])]
           p == CHOOSE f : f = Body(f)
<1>1. N \in Nat
  BY ComponentsTyped
<1>2. isoQueryDirExtentFromPath(v, path) = DirExtent(v, p[N])
  BY DEF isoQueryDirExtentFromPath, AtRoot
<1>3. a \in S
  BY DEF AtRoot, Ats
<1>4. \A k \in 1 .. N, x \in S : Step(k, x) \in S
  BY DirectoryInTyped
<1> HIDE DEF N, S, a, Step
<1>5. F \in Steps(N, S)
  BY <1>4 DEF Steps
<1>6. PICK f : f \in Recursive(N, S, a, F)
  <2> HIDE DEF F
  <2> QED BY <1>1, <1>3, <1>5, PrimitiveRecursion
<1>7. f = Body(f)
  <2>1. f \in [0 .. N -> S] /\ f[0] = a
    BY <1>6 DEF Recursive
  <2>2. \A k \in 1 .. N : f[k] = F[k][f[k - 1]]
    <3> HIDE DEF F
    <3> QED BY <1>6 DEF Recursive
  <2>3. \A k \in 1 .. N : f[k - 1] \in S
    BY <1>1, <2>1
  <2>4. \A k \in 1 .. N : f[k] = Step(k, f[k - 1])
    BY <2>2, <2>3
  <2> QED BY <1>1, <2>1, <2>4
<1>8. p = Body(p)
  BY <1>7
<1> HIDE DEF p
<1>9. p[0] = a /\ \A k \in 1 .. N : p[k] = Step(k, p[k - 1])
  BY <1>1, <1>8
<1>10. Enters(v, path, p)
  BY <1>2, <1>9 DEF N, a, Step, Enters
<1> QED BY <1>10

\* Where the code is, and the node: once a component was no directory, nothing
\* is one any more.
Stands(v, dirs, at, n) ==
  IF at.ok
  THEN /\ Placed(Masters[v.img], dirs, n) /\ n.dir /\ at.iSize = n.size
       /\ n.at = IF at.iExtent = 0 THEN v.iRootExtent ELSE at.iExtent
       /\ at.iExtent = 0 => n.size = v.iRootSize
  ELSE ~n.dir

LEMMA OneDirectory ==
  ASSUME NEW v, NEW dirs, WrittenApart(v, dirs), NEW at, NEW n,
         Stands(v, dirs, at, n), NEW c, NoOddName(v, c)
  PROVE  Stands(v, dirs, DirectoryIn(v, at, c), NodeIn(Masters[v.img], v, n, c))
<1> DEFINE m == Masters[v.img]
           e == FirstMatch(EntriesAt(v, at), c)
           k == NodeIn(m, v, n, c)
           d == DirectoryIn(v, at, c)
<1>1. /\ d.ok = (at.ok /\ e # NotFound /\ e.dir)
      /\ d.iExtent = e.iExtent /\ d.iSize = e.iSize
  BY DEF DirectoryIn, Descend
<1>2. CASE at.ok
  <2>1. /\ Placed(m, dirs, n) /\ n.dir /\ at.iSize = n.size
        /\ n.at = IF at.iExtent = 0 THEN v.iRootExtent ELSE at.iExtent
        /\ at.iExtent = 0 => n.size = v.iRootSize
    BY <1>2 DEF Stands
  <2>2. EntriesAt(v, at) = getDirEntries(v, n.at, n.size)
    BY <2>1 DEF EntriesAt
  <2>3. Together(v, dirs, FirstMatch(getDirEntries(v, n.at, n.size), c), k)
    BY <2>1, InAnyDirectory
  <2>4. Together(v, dirs, e, k)
    BY <2>2, <2>3
  <2> HIDE DEF e, k, d
  <2>5. CASE e = NotFound /\ k = NoNode
    <3>1. ~d.ok /\ ~k.dir
      BY <1>1, <2>5 DEF NoNode
    <3>2. Stands(v, dirs, d, k)
      BY <3>1 DEF Stands
    <3> QED BY <3>2 DEF d, k, m
  <2>6. CASE /\ e # NotFound /\ e.iExtent = k.at /\ e.iSize = k.size /\ e.dir = k.dir
             /\ Placed(m, dirs, k)
    <3>1. CASE k.dir
      <4>1. d.ok /\ k.at # 0
        BY <1>1, <1>2, <2>6, <3>1 DEF Placed, IsDirAt
      <4> HIDE DEF m
      <4>2. Stands(v, dirs, d, k)
        BY <1>1, <2>6, <3>1, <4>1 DEF Stands, m
      <4> QED BY <4>2 DEF d, k, m
    <3>2. CASE ~k.dir
      <4>1. ~d.ok
        BY <1>1, <2>6, <3>2
      <4>2. Stands(v, dirs, d, k)
        BY <3>2, <4>1 DEF Stands
      <4> QED BY <4>2 DEF d, k, m
    <3> QED BY <3>1, <3>2
  <2> QED BY <2>4, <2>5, <2>6 DEF Together
<1>3. CASE ~at.ok
  <2>1. ~n.dir
    BY <1>3 DEF Stands
  <2>2. k = NoNode
    BY <2>1, InNone
  <2>3. ~d.ok
    BY <1>1, <1>3
  <2> HIDE DEF e, d, k
  <2>4. Stands(v, dirs, d, k)
    BY <2>2, <2>3 DEF Stands, NoNode
  <2> QED BY <2>4 DEF d, k, m
<1> QED BY <1>2, <1>3

LEMMA StandsAllTheWay ==
  ASSUME NEW v, NEW dirs, WrittenApart(v, dirs), NEW path \in Paths[v.img]
  PROVE  SameDirectory(isoQueryDirExtentFromPath(v, path),
                       NodeOf(Masters[v.img], v, path))
<1> DEFINE m == Masters[v.img]
           parts == Components(path)
           N == Len(parts)
<1>1. /\ path \in Seq(Nat) /\ N \in Nat
      /\ \A k \in 1 .. N : NoOddName(v, parts[k])
  BY NamesOfPath
<1>2. Written(v, dirs) /\ v.img \in DOMAIN Images /\ v.iRootSize \in Nat
  BY DEF WrittenApart, Written
<1>3. PICK p : Enters(v, path, p)
  BY <1>1, <1>2, DirectoryEntered
<1>4. PICK w : Walks(m, v, path, w)
  BY <1>1, <1>2, NodeWalk
<1>5. /\ p[0] = AtRoot(v) /\ isoQueryDirExtentFromPath(v, path) = DirExtent(v, p[N])
      /\ \A k \in 1 .. N : p[k] = DirectoryIn(v, p[k - 1], parts[k])
  BY <1>3 DEF Enters
<1>6. /\ w[0] = RootNode(v) /\ NodeOf(m, v, path) = w[N]
      /\ \A k \in 1 .. N : w[k] = NodeIn(m, v, w[k - 1], parts[k])
  BY <1>4 DEF Walks
<1> HIDE DEF N, parts, m
<1> DEFINE Good(k) == Stands(v, dirs, p[k], w[k])
           T == {k \in 0 .. N : Good(k)}
<1>7. 0 \in T
  <2>1. Stands(v, dirs, AtRoot(v), RootNode(v))
    BY <1>2, RootIsPlaced DEF Stands, AtRoot
  <2> QED BY <1>1, <1>5, <1>6, <2>1
<1>8. ASSUME NEW k \in 0 .. N - 1, k \in T PROVE k + 1 \in T
  <2>1. PICK j \in 1 .. N : j = k + 1
    BY <1>1
  <2>2. j - 1 = k
    BY <2>1
  <2>3. p[j] = DirectoryIn(v, p[k], parts[j]) /\ w[j] = NodeIn(m, v, w[k], parts[j])
    BY <1>5, <1>6, <2>2
  <2>4. Stands(v, dirs, p[k], w[k])
    BY <1>8
  <2> DEFINE at == p[k]
             n == w[k]
             c == parts[j]
  <2>5. Stands(v, dirs, at, n) /\ NoOddName(v, c)
    BY <1>1, <2>4
  <2> HIDE DEF at, n, c, T, Good
  <2>6. Stands(v, dirs, DirectoryIn(v, at, c), NodeIn(Masters[v.img], v, n, c))
    BY <2>5, OneDirectory
  <2>7. Good(j)
    BY <2>3, <2>6 DEF at, n, c, m, Good
  <2> QED BY <1>1, <2>1, <2>7 DEF T
<1> HIDE DEF T
<1>9. \A k \in 0 .. N : k \in T
  BY <1>1, <1>7, <1>8, BoundedInduction
<1>10. Good(N)
  BY <1>1, <1>9 DEF T
<1> HIDE DEF Good
<1> DEFINE at == p[N]
           n == w[N]
<1>11. Stands(v, dirs, at, n)
  BY <1>10 DEF Good
<1> HIDE DEF at, n
<1>12. SameDirectory(DirExtent(v, at), n)
  BY <1>11 DEF Stands, SameDirectory, DirExtent
<1> QED BY <1>5, <1>6, <1>12 DEF m, at, n

-----------------------------------------------------------------------------
(* What is mounted                                                         *)

LEMMA MountedVolume ==
  ASSUME VolumeInv, st = "mounted"
  PROVE  /\ parms \in Attachments /\ Mountable(parms)
         /\ vol = VolumeFor(parms) /\ vol.img = parms.img
         /\ vol.img \in DOMAIN Images /\ vol.ucs_level \in Nat /\ vol.iRootSize \in Nat
         /\ Master = Masters[vol.img] /\ Master = Made[parms.img]
<1>1. /\ parms \in Attachments /\ parms.iOffset \in Nat
      /\ parms.img \in DOMAIN Images /\ First \in DOMAIN Master.descs
      /\ vol = VolumeFor(parms) /\ vol.img = parms.img /\ vol.iRootSize \in Sizes
  BY DEF VolumeInv, Attached, VolumeIs, OpenFile
<1>2. Mountable(parms)
  BY <1>1, ImagesAssumption DEF Mountable, First, Master
<1>3. vol.ucs_level \in Nat
  BY <1>1 DEF VolumeFor, NewVolume, UcsLevel
<1>4. vol.iRootSize \in Nat
  BY <1>1, ZeroIsSize DEF Sizes
<1> QED BY <1>1, <1>2, <1>3, <1>4 DEF Master, Made

\* On a volume with paths to look at, both resolutions find what is there.
LEMMA PathsInState ==
  ASSUME WrittenForPaths(Attachments), TablesExact(Attachments), VolumeInv
  PROVE  PathsResolve /\ DirectoriesResolve
<1> SUFFICES ASSUME st = "mounted", NEW path \in Paths[parms.img]
             PROVE  /\ SamePlace(isoQueryIsoEntryFromPath(vol, path),
                                 NodeOf(Master, vol, path))
                    /\ SameDirectory(isoQueryDirExtentFromPath(vol, path),
                                     NodeOf(Master, vol, path))
  BY DEF PathsResolve, DirectoriesResolve, Quiet, Mounted
<1>1. /\ parms \in Attachments /\ Mountable(parms)
      /\ vol = VolumeFor(parms) /\ vol.img = parms.img
      /\ vol.img \in DOMAIN Images /\ vol.ucs_level \in Nat /\ vol.iRootSize \in Nat
      /\ Master = Masters[vol.img] /\ Master = Made[parms.img]
  BY MountedVolume
<1>2. Paths[parms.img] # {}
  OBVIOUS
<1>3. PICK dirs \in SUBSET DOMAIN Made[parms.img].dirs :
        /\ WrittenFor(Made[parms.img], VolumeFor(parms), dirs)
        /\ Unambiguous(Made[parms.img], VolumeFor(parms), dirs)
  BY <1>1, <1>2 DEF WrittenForPaths
<1>4. WrittenApart(vol, dirs)
  BY <1>1, <1>3 DEF WrittenApart, Written, TablesExact
<1>5. path \in Paths[vol.img]
  BY <1>1
<1>6. Together(vol, dirs, isoQueryIsoEntryFromPath(vol, path),
               NodeOf(Masters[vol.img], vol, path))
  BY <1>4, <1>5, TogetherAllTheWay
<1>7. SameDirectory(isoQueryDirExtentFromPath(vol, path),
                    NodeOf(Masters[vol.img], vol, path))
  BY <1>4, <1>5, StandsAllTheWay
<1>8. SamePlace(isoQueryIsoEntryFromPath(vol, path), NodeOf(Masters[vol.img], vol, path))
  <2> DEFINE e == isoQueryIsoEntryFromPath(vol, path)
             n == NodeOf(Masters[vol.img], vol, path)
  <2>1. Together(vol, dirs, e, n)
    BY <1>6
  <2> HIDE DEF e, n
  <2>2. SamePlace(e, n)
    BY <2>1 DEF Together, SamePlace
  <2> QED BY <2>2 DEF e, n
<1> QED BY <1>1, <1>7, <1>8

\* The names of the root directory of a volume
LEMMA RootNames ==
  ASSUME NEW v, NEW dirs, Written(v, dirs)
  PROVE  LET entries == getDirEntries(v, v.iRootExtent, v.iRootSize)
             seen    == Visible(v, NodesIn(Masters[v.img], v.iRootExtent))
         IN  {entries[i].chrName : i \in DOMAIN entries} \ {<<Dot>>, <<Dot, Dot>>}
             = {seen[n] : n \in DOMAIN seen}
<1> DEFINE e == v.iRootExtent
           entries == getDirEntries(v, e, v.iRootSize)
           X == NodesIn(Masters[v.img], e)
           seen == Visible(v, X)
           self == Entry(v, Special("self", e))
           up == Entry(v, Special("parent", e))
           odd == {<<Dot>>, <<Dot, Dot>>}
           all == {entries[i].chrName : i \in DOMAIN entries}
           named == {EntryOf(v, node) : node \in X}
           names == {Shows(v, node.name) : node \in X}
<1>1. e \in dirs /\ v.iRootSize \in Nat /\ IsDirAt(Masters[v.img], e, v.iRootSize)
  BY DEF Written, WrittenFor, IsTree
<1>2. Range(entries) = {self, up} \cup named
  BY <1>1, TreeEntries
<1>3. self.chrName = <<Dot>> /\ up.chrName = <<Dot, Dot>>
  BY SpecialEntry
<1>4. {seen[n] : n \in DOMAIN seen} = names
  BY DEF Visible
<1>5. all = {x.chrName : x \in Range(entries)}
  BY DEF Range
<1>6. \A node \in X : EntryOf(v, node).chrName = Shows(v, node.name)
  BY DEF EntryOf
<1>7. \A node \in X : Shows(v, node.name) \notin odd
  <2> SUFFICES ASSUME NEW node \in X, NEW s \in odd, Shows(v, node.name) = s
               PROVE  FALSE
    OBVIOUS
  <2>1. Identifies(Shows(v, node.id), s)
    BY <1>1, NodesOfTree DEF NodeWritten
  <2>2. s[Len(s)] # Dot
    BY <2>1 DEF Identifies
  <2>3. s[Len(s)] = Dot
    <3>1. CASE s = <<Dot>>
      BY <3>1
    <3>2. CASE s = <<Dot, Dot>>
      BY <3>2
    <3> QED BY <3>1, <3>2
  <2> QED BY <2>2, <2>3
<1> HIDE DEF entries, X, seen, self, up, odd, all
<1>8. ASSUME NEW c \in all \ odd PROVE c \in names
  <2>1. PICK x \in Range(entries) : c = x.chrName
    BY <1>5
  <2>2. x \in named
    BY <1>2, <1>3, <2>1 DEF odd
  <2> QED BY <1>6, <2>1, <2>2
<1>9. ASSUME NEW c \in names PROVE c \in all \ odd
  <2>1. PICK node \in X : c = Shows(v, node.name)
    OBVIOUS
  <2>2. EntryOf(v, node) \in Range(entries)
    BY <1>2
  <2> QED BY <1>5, <1>6, <1>7, <2>1, <2>2
<1> HIDE DEF names
<1>10. all \ odd = names
  BY <1>8, <1>9
<1> QED BY <1>4, <1>10 DEF all, odd, entries, seen, X

LEMMA NamesInState ==
  ASSUME WrittenForNames(Attachments), TablesExact(Attachments), VolumeInv
  PROVE  NamesExact
<1> SUFFICES ASSUME st = "mounted", vol.ucs_level > 0, vol.nls # NoTable
             PROVE  NamesExact
  BY DEF NamesExact, Quiet, Mounted
<1>1. /\ parms \in Attachments /\ Mountable(parms)
      /\ vol = VolumeFor(parms) /\ vol.img = parms.img
      /\ vol.img \in DOMAIN Images /\ vol.ucs_level \in Nat /\ vol.iRootSize \in Nat
      /\ Master = Masters[vol.img] /\ Master = Made[parms.img]
  BY MountedVolume
<1>2. PICK dirs \in SUBSET DOMAIN Made[parms.img].dirs :
        WrittenFor(Made[parms.img], VolumeFor(parms), dirs)
  BY <1>1 DEF WrittenForNames
<1>3. Written(vol, dirs)
  BY <1>1, <1>2 DEF Written, TablesExact
<1>4. LET entries == getDirEntries(vol, vol.iRootExtent, vol.iRootSize)
          seen    == Visible(vol, NodesIn(Masters[vol.img], vol.iRootExtent))
      IN  {entries[i].chrName : i \in DOMAIN entries} \ {<<Dot>>, <<Dot, Dot>>}
          = {seen[n] : n \in DOMAIN seen}
  BY <1>3, RootNames
<1> QED BY <1>1, <1>4 DEF NamesExact

-----------------------------------------------------------------------------
(* The theorems                                                            *)

\* On images that are written as ISO9660 and Joliet ask for, a path leads to the
\* file or directory its author put there, and to nothing if there is none
\* (isoQueryIsoEntryFromPath), while volumes come and go and are read.
THEOREM PathsLead ==
  WrittenForPaths(Attachments) /\ TablesExact(Attachments)
    => (BothSpec => []PathsResolve)
<1> SUFFICES ASSUME WrittenForPaths(Attachments), TablesExact(Attachments)
             PROVE  BothSpec => []PathsResolve
  OBVIOUS
<1>1. VolumeInv => PathsResolve
  BY PathsInState
<1> QED BY <1>1, VolumeInvariant, PTL

\* So it is with the directories that searches and changes of the directory look
\* for, in spite of the extent that stands for the root and for no directory
\* (isoQueryDirExtentFromPath).
THEOREM DirectoriesLead ==
  WrittenForPaths(Attachments) /\ TablesExact(Attachments)
    => (BothSpec => []DirectoriesResolve)
<1> SUFFICES ASSUME WrittenForPaths(Attachments), TablesExact(Attachments)
             PROVE  BothSpec => []DirectoriesResolve
  OBVIOUS
<1>1. VolumeInv => DirectoriesResolve
  BY PathsInState
<1> QED BY <1>1, VolumeInvariant, PTL

\* A Joliet volume shows the names its author gave, and no others, from as many
\* sectors as its root takes (getDirEntries, with the tables of libunls).
THEOREM NamesAreExact ==
  WrittenForNames(Attachments) /\ TablesExact(Attachments)
    => (BothSpec => []NamesExact)
<1> SUFFICES ASSUME WrittenForNames(Attachments), TablesExact(Attachments)
             PROVE  BothSpec => []NamesExact
  OBVIOUS
<1>1. VolumeInv => NamesExact
  BY NamesInState
<1> QED BY <1>1, VolumeInvariant, PTL

-----------------------------------------------------------------------------
(* The paths isoinfo prints: one name below another                        *)

\* What agrees at first and agrees a step later agrees up to the end.
Agree(f, g, N)      == \A k \in 0 .. N : f[k] = g[k]
StaysEqual(f, g, N) == \A k \in 1 .. N : f[k - 1] = g[k - 1] => f[k] = g[k]

LEMMA AgreeUpTo ==
  ASSUME NEW N \in Nat, NEW f, NEW g, f[0] = g[0], StaysEqual(f, g, N)
  PROVE  Agree(f, g, N)
<1> DEFINE T == {k \in 0 .. N : f[k] = g[k]}
<1>1. 0 \in T
  OBVIOUS
<1>2. ASSUME NEW k \in 0 .. N - 1, k \in T PROVE k + 1 \in T
  <2>1. PICK j \in 1 .. N : j = k + 1
    OBVIOUS
  <2>2. j - 1 = k
    BY <2>1
  <2>3. f[j] = g[j]
    BY <1>2, <2>2 DEF StaysEqual
  <2> QED BY <2>1, <2>3
<1>3. \A k \in 0 .. N : k \in T
  <2> HIDE DEF T
  <2> QED BY <1>1, <1>2, BoundedInduction
<1> QED BY <1>3 DEF Agree

Below(p, c) == p \o << 92 >> \o c

\* A name without separators, that is not empty
Clean(c) == c # <<>> /\ \A i \in 1 .. Len(c) : c[i] \notin Separators

\* What a sequence behind another is, and a name behind a path
IsJoined(s, t) ==
  /\ s \o t \in Seq(Nat) /\ Len(s \o t) = Len(s) + Len(t)
  /\ \A i \in 1 .. Len(s) + Len(t) :
       (s \o t)[i] = IF i <= Len(s) THEN s[i] ELSE t[i - Len(s)]

LEMMA Joined ==
  ASSUME NEW s \in Seq(Nat), NEW t \in Seq(Nat)
  PROVE  IsJoined(s, t)
BY ConcatProperties DEF IsJoined

IsBelow(p, c) ==
  /\ Below(p, c) \in Seq(Nat) /\ Len(Below(p, c)) = Len(p) + 1 + Len(c)
  /\ Len(p) \in Nat /\ Len(c) \in Nat
  /\ \A i \in 1 .. Len(p) : Below(p, c)[i] = p[i]
  /\ Below(p, c)[Len(p) + 1] = 92
  /\ \A j \in 1 .. Len(c) : Below(p, c)[Len(p) + 1 + j] = c[j]

LEMMA BelowIs ==
  ASSUME NEW p \in Seq(Nat), NEW c \in Seq(Nat)
  PROVE  IsBelow(p, c)
<1> DEFINE w == << 92 >>
<1>1. w \in Seq(Nat) /\ Len(w) = 1 /\ w[1] = 92
  OBVIOUS
<1> HIDE DEF w
<1>0. IsJoined(p, w)
  BY <1>1, Joined
<1> DEFINE q == p \o w
           n == Len(p)
<1>3. n \in Nat /\ Len(c) \in Nat
  OBVIOUS
<1>2. /\ q \in Seq(Nat) /\ Len(q) = n + 1
      /\ \A i \in 1 .. n + 1 : q[i] = IF i <= n THEN p[i] ELSE w[i - n]
  BY <1>0, <1>1 DEF IsJoined
<1> HIDE DEF q, n
<1>4. (\A i \in 1 .. n : q[i] = p[i]) /\ q[n + 1] = 92
  <2>1. PICK i \in 1 .. n + 1 : i = n + 1
    BY <1>3
  <2>2. i - n = 1 /\ ~(i <= n)
    BY <1>3, <2>1
  <2>3. q[i] = w[i - n]
    BY <1>2, <2>2
  <2>4. q[n + 1] = 92
    BY <1>1, <2>1, <2>2, <2>3
  <2> QED BY <1>2, <1>3, <2>4
<1>5. /\ q \o c \in Seq(Nat) /\ Len(q \o c) = n + 1 + Len(c)
      /\ \A i \in 1 .. n + 1 + Len(c) :
           (q \o c)[i] = IF i <= n + 1 THEN q[i] ELSE c[i - (n + 1)]
  <2>1. IsJoined(q, c)
    BY <1>2, Joined
  <2>2. Len(q) = n + 1
    BY <1>2
  <2> QED BY <2>1, <2>2 DEF IsJoined
<1>6. ASSUME NEW j \in 1 .. Len(c) PROVE (q \o c)[n + 1 + j] = c[j]
  <2>1. PICK i \in 1 .. n + 1 + Len(c) : i = n + 1 + j
    BY <1>3
  <2>2. ~(i <= n + 1) /\ i - (n + 1) = j
    BY <1>3, <2>1
  <2> QED BY <1>5, <2>1, <2>2
<1>7. \A i \in 1 .. n + 1 : (q \o c)[i] = q[i]
  BY <1>3, <1>5
<1>8. Below(p, c) = q \o c
  BY DEF Below, q, w
<1> QED BY <1>3, <1>4, <1>5, <1>6, <1>7, <1>8 DEF n, IsBelow

\* A name that is put below a path is its last component.
LEMMA ComponentsBelow ==
  ASSUME NEW p \in Seq(Nat), NEW c \in Seq(Nat), Clean(c)
  PROVE  Components(Below(p, c)) = Append(Components(p), c)
<1>0. IsBelow(p, c)
  BY BelowIs
<1> DEFINE n == Len(p)
           l == Len(c)
           path == Below(p, c)
<1>1. /\ path \in Seq(Nat) /\ Len(path) = n + 1 + l /\ n \in Nat /\ l \in Nat
      /\ \A i \in 1 .. n : path[i] = p[i]
      /\ path[n + 1] = 92
      /\ \A j \in 1 .. l : path[n + 1 + j] = c[j]
  BY <1>0 DEF IsBelow
<1> HIDE DEF path
<1>2. PICK f : Scans(p, f)
  BY PathScanned
<1>3. PICK g : Scans(path, g)
  BY <1>1, PathScanned
<1>4. /\ f[0] = AtStart /\ \A k \in 1 .. n : f[k] = ScanStep(p[k], f[k - 1])
      /\ Components(p) = Ended(f[n])
  BY <1>2 DEF Scans
<1>5. /\ g[0] = AtStart
      /\ \A k \in 1 .. n + 1 + l : g[k] = ScanStep(path[k], g[k - 1])
      /\ Components(path) = Ended(g[n + 1 + l])
      /\ g \in [0 .. n + 1 + l -> [parts : Seq(Seq(Nat)), part : Seq(Nat)]]
  BY <1>1, <1>3 DEF Scans
<1> HIDE DEF n, l
<1>6. g[n] = f[n]
  <2>1. ASSUME NEW k \in 1 .. n, g[k - 1] = f[k - 1] PROVE g[k] = f[k]
    BY <1>1, <1>4, <1>5, <2>1
  <2>2. n \in Nat /\ g[0] = f[0]
    BY <1>1, <1>4, <1>5
  <2>3. StaysEqual(g, f, n)
    BY <2>1 DEF StaysEqual
  <2>4. Agree(g, f, n)
    BY <2>2, <2>3, AgreeUpTo
  <2> QED BY <2>2, <2>4 DEF Agree
<1> DEFINE C == Components(p)
           Good(j) == /\ g[n + 1 + j].parts = C /\ Len(g[n + 1 + j].part) = j
                      /\ \A i \in 1 .. j : g[n + 1 + j].part[i] = c[i]
           T == {j \in 0 .. l : Good(j)}
<1>7. 0 \in T
  <2>1. n + 1 \in 1 .. n + 1 + l /\ n + 1 - 1 = n /\ n + 1 + 0 = n + 1
    BY <1>1
  <2>2. g[n + 1] = ScanStep(92, g[n])
    <3>1. PICK k \in 1 .. n + 1 + l : k = n + 1
      BY <2>1
    <3>2. k - 1 = n
      BY <1>1, <3>1
    <3> QED BY <1>1, <1>5, <3>1, <3>2
  <2>3. 92 \in Separators
    BY DEF Separators
  <2>4. g[n + 1] = [parts |-> C, part |-> <<>>]
    BY <1>4, <1>6, <2>2, <2>3 DEF ScanStep
  <2>5. Good(0)
    BY <2>1, <2>4
  <2> HIDE DEF Good
  <2> QED BY <1>1, <2>5
<1>8. ASSUME NEW j \in 0 .. l - 1, j \in T PROVE j + 1 \in T
  <2>1. PICK k \in 1 .. n + 1 + l : k = n + 1 + (j + 1)
    BY <1>1
  <2>2. PICK i \in 1 .. l : i = j + 1
    BY <1>1
  <2>3. k - 1 = n + 1 + j /\ k = n + 1 + i /\ k - 1 \in 0 .. n + 1 + l
    BY <1>1, <2>1, <2>2
  <2>4. path[k] = c[i] /\ c[i] \notin Separators
    BY <1>1, <2>3 DEF Clean, l
  <2> DEFINE x == g[k - 1]
  <2>5. x.part \in Seq(Nat) /\ Len(x.part) = j /\ x.parts = C
        /\ \A h \in 1 .. j : x.part[h] = c[h]
    BY <1>5, <1>8, <2>3
  <2>6. g[k] = [parts |-> C, part |-> Append(x.part, c[i])]
    <3>1. g[k] = ScanStep(path[k], x)
      BY <1>5
    <3> HIDE DEF x
    <3> QED BY <2>4, <2>5, <3>1 DEF ScanStep
  <2> HIDE DEF x, T
  <2>7. c[i] \in Nat
    <3>1. i \in 1 .. Len(c)
      BY DEF l
    <3> QED BY <3>1, ElementOfSeq
  <2>8. /\ Len(Append(x.part, c[i])) = i
        /\ \A h \in 1 .. j : Append(x.part, c[i])[h] = x.part[h]
        /\ Append(x.part, c[i])[j + 1] = c[i]
    BY <2>2, <2>5, <2>7, AppendProperties
  <2>9. \A h \in 1 .. i : Append(x.part, c[i])[h] = c[h]
    <3> SUFFICES ASSUME NEW h \in 1 .. i PROVE Append(x.part, c[i])[h] = c[h]
      OBVIOUS
    <3>1. h \in 1 .. j \/ h = j + 1
      BY <1>1, <2>2
    <3> QED BY <2>2, <2>5, <2>8, <3>1
  <2>10. Good(i)
    BY <2>3, <2>6, <2>8, <2>9
  <2> HIDE DEF Good
  <2> QED BY <1>1, <2>2, <2>10 DEF T
<1>9. \A j \in 0 .. l : j \in T
  <2> HIDE DEF T
  <2> QED BY <1>1, <1>7, <1>8, BoundedInduction
<1>10. Good(l)
  <2>1. l \in T
    <3> HIDE DEF T
    <3> QED BY <1>1, <1>9
  <2> QED BY <2>1
<1> DEFINE z == g[n + 1 + l]
<1>11. z.part \in Seq(Nat)
  BY <1>1, <1>5
<1>12. z.parts = C /\ Len(z.part) = l /\ \A i \in 1 .. l : z.part[i] = c[i]
  BY <1>10
<1>13. Components(path) = Ended(z)
  BY <1>5
<1> HIDE DEF z, Good, T
<1>14. z.part = c
  <2>1. Len(z.part) = Len(c) /\ \A i \in 1 .. Len(z.part) : z.part[i] = c[i]
    BY <1>12 DEF l
  <2> QED BY <1>11, <2>1, SeqEqual
<1>15. Ended(z) = Append(C, c)
  BY <1>12, <1>14 DEF Ended, Clean
<1> QED BY <1>13, <1>15 DEF C, path

LEMMA NoComponents == Components(<<>>) = <<>>
<1>1. PICK p : Scans(<<>>, p)
  <2>1. <<>> \in Seq(Nat)
    OBVIOUS
  <2> QED BY <2>1, PathScanned
<1>2. Len(<<>>) = 0
  OBVIOUS
<1>3. Components(<<>>) = Ended(p[0]) /\ p[0] = AtStart
  BY <1>1, <1>2 DEF Scans
<1> QED BY <1>3 DEF Ended, AtStart

\* The separator a path begins with is no part of its components.
LEMMA ComponentsOfTail ==
  ASSUME NEW s \in Seq(Nat), s # <<>>, s[1] = 92
  PROVE  Tail(s) \in Seq(Nat) /\ Components(Tail(s)) = Components(s)
<1> DEFINE t == Tail(s)
           n == Len(t)
<1>1. /\ t \in Seq(Nat) /\ n = Len(s) - 1 /\ n \in Nat
      /\ \A i \in 1 .. n : t[i] = s[i + 1]
  BY HeadTailProperties
<1>2. Len(s) = n + 1
  BY <1>1
<1> HIDE DEF t
<1>3. PICK f : Scans(t, f)
  BY <1>1, PathScanned
<1>4. PICK g : Scans(s, g)
  BY PathScanned
<1>5. /\ f[0] = AtStart /\ \A k \in 1 .. n : f[k] = ScanStep(t[k], f[k - 1])
      /\ Components(t) = Ended(f[n])
  BY <1>3 DEF Scans
<1>6. /\ g[0] = AtStart /\ \A k \in 1 .. n + 1 : g[k] = ScanStep(s[k], g[k - 1])
      /\ Components(s) = Ended(g[n + 1])
  BY <1>2, <1>4 DEF Scans
<1> HIDE DEF n
<1> DEFINE h == [k \in 0 .. n |-> g[k + 1]]
<1>7. \A k \in 0 .. n : h[k] = g[k + 1]
  OBVIOUS
<1> HIDE DEF h
<1>8. h[0] = f[0]
  <2>1. 1 \in 1 .. n + 1 /\ 1 - 1 = 0 /\ 0 + 1 = 1 /\ 0 \in 0 .. n
    BY <1>1
  <2>2. g[1] = ScanStep(s[1], g[0])
    BY <1>6, <2>1
  <2>3. 92 \in Separators
    BY DEF Separators
  <2>4. ScanStep(92, AtStart) = AtStart
    BY <2>3 DEF ScanStep, AtStart, Ended
  <2> QED BY <1>5, <1>6, <1>7, <2>1, <2>2, <2>4
<1>9. ASSUME NEW k \in 1 .. n, h[k - 1] = f[k - 1] PROVE h[k] = f[k]
  <2>1. PICK j \in 1 .. n + 1 : j = k + 1
    BY <1>1
  <2>2. k - 1 \in 0 .. n /\ k - 1 + 1 = k /\ j - 1 = k
    BY <1>1, <2>1
  <2>3. h[k - 1] = g[k] /\ h[k] = g[j]
    <3>1. h[k - 1] = g[k - 1 + 1]
      BY <1>7, <2>2
    <3>2. k \in 0 .. n /\ h[k] = g[k + 1]
      BY <1>1, <1>7
    <3> QED BY <2>1, <2>2, <3>1, <3>2
  <2>4. g[j] = ScanStep(s[j], g[k])
    BY <1>6, <2>2
  <2>5. t[k] = s[j]
    BY <1>1, <2>1
  <2> QED BY <1>5, <1>9, <2>3, <2>4, <2>5
<1>10. Agree(h, f, n)
  <2>1. n \in Nat
    BY <1>1
  <2>2. StaysEqual(h, f, n)
    BY <1>9 DEF StaysEqual
  <2> HIDE DEF h
  <2> QED BY <1>8, <2>1, <2>2, AgreeUpTo
<1>11. g[n + 1] = f[n]
  BY <1>1, <1>7, <1>10 DEF Agree
<1> QED BY <1>1, <1>5, <1>6, <1>11 DEF t

-----------------------------------------------------------------------------
(* Names that are the same without regard to case                          *)

\* Where the version of a name begins, and how much of it is left without its
\* version and the dot before
VersionAt(s) == SelectLastInSeq(s, LAMBDA c : c = Semicolon)
Unversioned(s) == IF VersionAt(s) = 0 THEN Len(s) ELSE VersionAt(s) - 1
Cut(s) == LET k == Unversioned(s)
          IN  IF k > 0 /\ s[k] = Dot THEN k - 1 ELSE k

LEMMA VersionIn ==
  ASSUME NEW s, Len(s) \in Nat
  PROVE  VersionAt(s) \in 0 .. Len(s)
<1> DEFINE n == Len(s)
           I == {i \in 1 .. n : s[i] = Semicolon}
           T == {n - i : i \in I}
<1>1. VersionAt(s) = IF I # {} THEN Max(I) ELSE 0
  BY DEF VersionAt, SelectLastInSeq
<1>2. CASE I = {}
  BY <1>1, <1>2
<1>3. CASE I # {}
  <2>1. T \subseteq Nat /\ T # {}
    BY <1>3
  <2>2. PICK x \in T : \A y \in T : x <= y
    <3> HIDE DEF T
    <3> QED BY <2>1, LeastNumber
  <2>3. PICK i \in I : x = n - i
    BY <2>2
  <2>4. \A j \in I : i >= j
    <3> SUFFICES ASSUME NEW j \in I PROVE i >= j
      OBVIOUS
    <3>1. n - j \in T
      OBVIOUS
    <3>2. n - i <= n - j
      BY <2>2, <2>3, <3>1
    <3> QED BY <3>2
  <2> HIDE DEF I
  <2>5. Max(I) \in I
    BY <2>3, <2>4 DEF Max
  <2> QED BY <1>1, <1>3, <2>5 DEF I
<1> QED BY <1>2, <1>3

\* What is left of a name is its beginning.
IsBuilt(s) ==
  /\ BuildName(s, 2) \in Seq(Nat) /\ Len(BuildName(s, 2)) = Cut(s)
  /\ Cut(s) \in 0 .. Len(s)
  /\ \A i \in 1 .. Cut(s) : BuildName(s, 2)[i] = s[i]

LEMMA BuiltFrom ==
  ASSUME NEW s \in Seq(Nat)
  PROVE  IsBuilt(s)
<1> DEFINE semi == VersionAt(s)
           base == IF semi = 0 THEN s ELSE SubSeq(s, 1, semi - 1)
           k    == Unversioned(s)
<1>1. Len(s) \in Nat /\ semi \in 0 .. Len(s)
  BY VersionIn
<1>2. BuildName(s, 2) = IF base # <<>> /\ Last(base) = Dot THEN Front(base) ELSE base
  BY DEF BuildName, VersionAt
<1> HIDE DEF semi
<1>3. k \in 0 .. Len(s) /\ k = IF semi = 0 THEN Len(s) ELSE semi - 1
  BY <1>1 DEF Unversioned, semi
<1>4. base \in Seq(Nat) /\ Len(base) = k /\ \A i \in 1 .. k : base[i] = s[i]
  <2>1. CASE semi = 0
    BY <1>3, <2>1
  <2>2. CASE semi # 0
    <3>1. k \in Nat /\ k <= Len(s) /\ base = SubSeq(s, 1, k)
      BY <1>1, <1>3, <2>2
    <3>2. /\ SubSeq(s, 1, k) \in Seq(Nat) /\ Len(SubSeq(s, 1, k)) = k
          /\ \A i \in 1 .. k : SubSeq(s, 1, k)[i] = s[i]
      BY <3>1, BeginningOf
    <3> QED BY <3>1, <3>2
  <2> QED BY <2>1, <2>2
<1> HIDE DEF base
<1>5. CASE k > 0 /\ s[k] = Dot
  <2>1. base # <<>> /\ Last(base) = Dot
    BY <1>3, <1>4, <1>5 DEF Last
  <2> DEFINE l == k - 1
  <2>2. l \in Nat /\ l <= k
    BY <1>3, <1>5
  <2>3. Front(base) = SubSeq(base, 1, l)
    BY <1>4 DEF Front
  <2> HIDE DEF l
  <2>4. /\ SubSeq(base, 1, l) \in Seq(Nat) /\ Len(SubSeq(base, 1, l)) = l
        /\ \A i \in 1 .. l : SubSeq(base, 1, l)[i] = base[i]
    BY <1>4, <2>2, BeginningOf
  <2>5. Cut(s) = l
    BY <1>5 DEF Cut, l, k
  <2>6. l \in 0 .. Len(s) /\ \A i \in 1 .. l : i \in 1 .. k
    BY <1>3, <2>2
  <2>7. BuildName(s, 2) = SubSeq(base, 1, l)
    BY <1>2, <2>1, <2>3
  <2>8. \A i \in 1 .. l : SubSeq(base, 1, l)[i] = s[i]
    BY <1>4, <2>4, <2>6
  <2> QED BY <2>4, <2>5, <2>6, <2>7, <2>8 DEF IsBuilt
<1>6. CASE ~(k > 0 /\ s[k] = Dot)
  <2>1. ~(base # <<>> /\ Last(base) = Dot)
    <3> SUFFICES ASSUME base # <<>>, Last(base) = Dot PROVE FALSE
      OBVIOUS
    <3>1. k > 0
      BY <1>3, <1>4
    <3>2. s[k] = Dot
      BY <1>3, <1>4, <3>1 DEF Last
    <3> QED BY <1>6, <3>1, <3>2
  <2>2. Cut(s) = k
    BY <1>6 DEF Cut, k
  <2> QED BY <1>2, <1>3, <1>4, <2>1, <2>2 DEF IsBuilt
<1> QED BY <1>5, <1>6

LEMMA LowerKeeps ==
  ASSUME NEW a, NEW b, Lower(a) = Lower(b)
  PROVE  /\ a = Semicolon <=> b = Semicolon
         /\ a = Dot <=> b = Dot
         /\ a \in Separators <=> b \in Separators
BY DEF Lower, Semicolon, Dot, Separators

\* The same cut is made in names that are the same.
LEMMA CutAlike ==
  ASSUME NEW s \in Seq(Nat), NEW t \in Seq(Nat), SameName(s, t)
  PROVE  Cut(s) = Cut(t)
<1>1. Len(s) = Len(t) /\ Len(s) \in Nat /\ \A i \in 1 .. Len(s) : Lower(s[i]) = Lower(t[i])
  BY DEF SameName
<1>2. VersionAt(s) = VersionAt(t)
  <2> DEFINE I == {i \in 1 .. Len(s) : s[i] = Semicolon}
             J == {i \in 1 .. Len(t) : t[i] = Semicolon}
  <2>1. VersionAt(s) = IF I # {} THEN Max(I) ELSE 0
    BY DEF VersionAt, SelectLastInSeq
  <2>2. VersionAt(t) = IF J # {} THEN Max(J) ELSE 0
    BY DEF VersionAt, SelectLastInSeq
  <2>3. I = J
    BY <1>1, LowerKeeps
  <2> HIDE DEF I, J
  <2> QED BY <2>1, <2>2, <2>3
<1>3. VersionAt(s) \in 0 .. Len(s)
  BY <1>1, VersionIn
<1>4. Unversioned(s) = Unversioned(t) /\ Unversioned(s) \in 0 .. Len(s)
  BY <1>1, <1>2, <1>3 DEF Unversioned
<1>5. Unversioned(s) > 0 => (s[Unversioned(s)] = Dot <=> t[Unversioned(s)] = Dot)
  BY <1>1, <1>4, LowerKeeps
<1> QED BY <1>4, <1>5 DEF Cut

LEMMA BuildAlike ==
  ASSUME NEW s \in Seq(Nat), NEW t \in Seq(Nat), SameName(s, t)
  PROVE  SameName(BuildName(s, 2), BuildName(t, 2))
<1>1. IsBuilt(s) /\ IsBuilt(t) /\ Cut(s) = Cut(t)
  BY BuiltFrom, CutAlike
<1> DEFINE a == BuildName(s, 2)
           b == BuildName(t, 2)
           n == Cut(s)
<1>2. /\ a \in Seq(Nat) /\ b \in Seq(Nat) /\ Len(a) = n /\ Len(b) = n /\ n \in 0 .. Len(s)
      /\ \A i \in 1 .. n : a[i] = s[i] /\ b[i] = t[i]
  BY <1>1 DEF IsBuilt
<1>3. \A i \in 1 .. Len(s) : Lower(s[i]) = Lower(t[i])
  BY DEF SameName
<1> HIDE DEF a, b, n
<1>4. \A i \in 1 .. n : Lower(a[i]) = Lower(b[i])
  <2> SUFFICES ASSUME NEW i \in 1 .. n PROVE Lower(a[i]) = Lower(b[i])
    OBVIOUS
  <2>1. i \in 1 .. Len(s)
    BY <1>2
  <2>2. a[i] = s[i] /\ b[i] = t[i]
    BY <1>2
  <2> QED BY <1>3, <2>1, <2>2
<1>5. DOMAIN a = 1 .. n
  BY <1>2
<1>6. SameName(a, b)
  BY <1>2, <1>4, <1>5 DEF SameName
<1> QED BY <1>6 DEF a, b

LEMMA SameNameLaws ==
  ASSUME NEW s \in Seq(Nat), NEW t \in Seq(Nat), NEW u \in Seq(Nat)
  PROVE  /\ SameName(s, s)
         /\ SameName(s, t) => SameName(t, s)
         /\ SameName(s, t) /\ SameName(t, u) => SameName(s, u)
BY DEF SameName

\* Of a name that is the same as a clean one, what is built is clean.
LEMMA CleanAlike ==
  ASSUME NEW s \in Seq(Nat), NEW t \in Seq(Nat), SameName(s, t), Clean(s)
  PROVE  Clean(t)
<1>1. Len(s) = Len(t) /\ Len(s) \in Nat /\ \A i \in 1 .. Len(s) : Lower(s[i]) = Lower(t[i])
  BY DEF SameName
<1>2. Len(s) # 0
  BY DEF Clean
<1>3. t # <<>>
  BY <1>1, <1>2
<1>4. \A i \in 1 .. Len(t) : t[i] \notin Separators
  BY <1>1, LowerKeeps DEF Clean
<1> QED BY <1>3, <1>4 DEF Clean

-----------------------------------------------------------------------------
(* The characters of names, and the path that is asked for a printed line   *)

TableKnown(v) == v.nls \in ToSet(init_nls) \cup {NoTable}

LEMMA CharTyped ==
  ASSUME NEW v, TableKnown(v), NEW u \in Nat
  PROVE  CharOf(v, u) \in Nat
<1>1. CASE v.ucs_level = 0
  BY <1>1 DEF CharOf
<1>2. CASE v.ucs_level # 0 /\ v.nls = NoTable
  BY <1>2 DEF CharOf
<1>3. CASE v.ucs_level # 0 /\ v.nls # NoTable
  <2> DEFINE unit == [c \in 1 .. 255 |-> char2uni(v.nls, c)]
             f    == Alphabets[v.nls]
  <2>1. f = [w \in Range(unit) |-> CHOOSE c \in 1 .. 255 : unit[c] = w]
    BY <1>3 DEF TableKnown, Alphabets
  <2>2. CharOf(v, u) = IF u \in DOMAIN f THEN f[u] ELSE Underscore
    BY <1>3 DEF CharOf, At
  <2>3. \A w \in Range(unit) : \E c \in 1 .. 255 : unit[c] = w
    BY DEF Range
  <2> HIDE DEF unit, f
  <2>4. CASE u \in DOMAIN f
    <3>1. u \in Range(unit) /\ f[u] = CHOOSE c \in 1 .. 255 : unit[c] = u
      BY <2>1, <2>4
    <3>2. (CHOOSE c \in 1 .. 255 : unit[c] = u) \in 1 .. 255
      BY <2>3, <3>1
    <3>3. f[u] \in 1 .. 255
      <4> DEFINE c == CHOOSE c \in 1 .. 255 : unit[c] = u
      <4>1. f[u] = c /\ c \in 1 .. 255
        BY <3>1, <3>2
      <4> QED BY <4>1
    <3> QED BY <2>2, <2>4, <3>3
  <2>5. CASE u \notin DOMAIN f
    BY <2>2, <2>5 DEF Underscore
  <2> QED BY <2>4, <2>5
<1> QED BY <1>1, <1>2, <1>3

LEMMA ShowsTyped ==
  ASSUME NEW v, TableKnown(v), NEW name \in Seq(Nat)
  PROVE  Shows(v, name) \in Seq(Nat) /\ Len(Shows(v, name)) = Len(name)
<1> DEFINE s == Shows(v, name)
<1>1. /\ Len(s) = Len(name) /\ Len(s) \in Nat /\ s \in Seq(Range(s))
      /\ \A i \in 1 .. Len(name) : s[i] = CharOf(v, name[i])
  BY ShownName
<1>2. \A i \in 1 .. Len(name) : name[i] \in Nat
  OBVIOUS
<1> HIDE DEF s
<1>3. \A i \in 1 .. Len(s) : s[i] \in Nat
  BY <1>1, <1>2, CharTyped
<1>4. s \in Seq(Nat)
  BY <1>1, <1>3
<1> QED BY <1>1, <1>4 DEF s

\* p is the path after each component of a printed line.
Builds(x, p) ==
  /\ p \in [0 .. Len(Components(x)) -> Seq(Nat)]
  /\ p[0] = <<>>
  /\ \A k \in 1 .. Len(Components(x)) :
       p[k] = Below(p[k - 1], BuildName(Components(x)[k], 2))
  /\ Shown(x) = p[Len(Components(x))]

LEMMA ShownBuilt ==
  ASSUME NEW x \in Seq(Nat)
  PROVE  \E p : Builds(x, p)
<1> DEFINE parts == Components(x)
           N == Len(parts)
           S == Seq(Nat)
           a == <<>>
           Step(k, y) == Below(y, BuildName(parts[k], 2))
           F == [k \in 1 .. N |-> [y \in S |-> Step(k, y)]]
           Body(f) == [k \in 0 .. N |-> IF k = 0 THEN a ELSE Step(k, f[k - 1])]
           p == CHOOSE f : f = Body(f)
<1>1. parts \in Seq(Seq(Nat)) /\ N \in Nat
  BY ComponentsTyped
<1>2. Shown(x) = p[N]
  BY DEF Shown, Below
<1>3. a \in S
  OBVIOUS
<1>4. \A k \in 1 .. N : IsBuilt(parts[k])
  <2> SUFFICES ASSUME NEW k \in 1 .. N PROVE IsBuilt(parts[k])
    OBVIOUS
  <2>1. parts[k] \in Seq(Nat)
    BY <1>1
  <2> QED BY <2>1, BuiltFrom
<1>5. \A k \in 1 .. N, y \in S : Step(k, y) \in S
  <2> SUFFICES ASSUME NEW k \in 1 .. N, NEW y \in S PROVE Step(k, y) \in S
    OBVIOUS
  <2>1. BuildName(parts[k], 2) \in Seq(Nat)
    BY <1>4 DEF IsBuilt
  <2>2. IsBelow(y, BuildName(parts[k], 2))
    BY <2>1, BelowIs
  <2> QED BY <2>2 DEF IsBelow
<1> HIDE DEF N, S, a, Step
<1>6. F \in Steps(N, S)
  BY <1>5 DEF Steps
<1>7. PICK f : f \in Recursive(N, S, a, F)
  <2> HIDE DEF F
  <2> QED BY <1>1, <1>3, <1>6, PrimitiveRecursion
<1>8. f = Body(f)
  <2>1. f \in [0 .. N -> S] /\ f[0] = a
    BY <1>7 DEF Recursive
  <2>2. \A k \in 1 .. N : f[k] = F[k][f[k - 1]]
    <3> HIDE DEF F
    <3> QED BY <1>7 DEF Recursive
  <2>3. \A k \in 1 .. N : f[k - 1] \in S
    BY <1>1, <2>1
  <2>4. \A k \in 1 .. N : f[k] = Step(k, f[k - 1])
    BY <2>2, <2>3
  <2> QED BY <1>1, <2>1, <2>4
<1>9. p = Body(p)
  BY <1>8
<1> HIDE DEF p
<1>10. p[0] = a /\ \A k \in 1 .. N : p[k] = Step(k, p[k - 1])
  BY <1>1, <1>9
<1>11. p = [k \in 0 .. N |-> p[k]]
       /\ \A k \in 1 .. N : p[k - 1] \in S => p[k] = F[k][p[k - 1]]
  <2>1. p = [k \in 0 .. N |-> p[k]]
    BY <1>1, <1>9
  <2> QED BY <1>10, <2>1
<1>12. p \in Recursive(N, S, a, F)
  <2> HIDE DEF F
  <2> QED BY <1>1, <1>3, <1>6, <1>10, <1>11, RecursionMet
<1>13. p \in [0 .. N -> S]
  BY <1>12 DEF Recursive
<1>14. Builds(x, p)
  BY <1>2, <1>10, <1>13 DEF Builds, N, S, a, Step
<1> QED BY <1>14

\* The components of a path, and one more
OneMore(x, y, c) ==
  /\ x \in Seq(Nat) /\ y \in Seq(Nat) /\ c \in Seq(Nat)
  /\ Components(y) = Append(Components(x), c)

LEMMA PartsOfOneMore ==
  ASSUME NEW x, NEW y, NEW c, OneMore(x, y, c)
  PROVE  /\ Len(Components(x)) \in Nat /\ Len(Components(y)) = Len(Components(x)) + 1
         /\ Components(x) \in Seq(Seq(Nat)) /\ Components(y) \in Seq(Seq(Nat))
         /\ \A k \in 1 .. Len(Components(x)) : Components(y)[k] = Components(x)[k]
         /\ Components(y)[Len(Components(x)) + 1] = c
<1> DEFINE parts == Components(x)
           q == Append(parts, c)
<1>1. parts \in Seq(Seq(Nat)) /\ c \in Seq(Nat) /\ Components(y) = q
  BY ComponentsTyped DEF OneMore
<1>2. Len(parts) \in Nat
  BY <1>1
<1> HIDE DEF parts
<1>3. /\ q \in Seq(Seq(Nat)) /\ Len(q) = Len(parts) + 1
      /\ \A k \in 1 .. Len(parts) : q[k] = parts[k]
      /\ q[Len(parts) + 1] = c
  BY <1>1, AppendProperties
<1> HIDE DEF q
<1> QED BY <1>1, <1>2, <1>3 DEF parts

LEMMA ShownOneMore ==
  ASSUME NEW x, NEW y, NEW c, OneMore(x, y, c)
  PROVE  Shown(y) = Below(Shown(x), BuildName(c, 2))
<1> DEFINE n == Len(Components(x))
           px == Components(x)
           py == Components(y)
<1>1. /\ n \in Nat /\ Len(py) = n + 1 /\ py[n + 1] = c
      /\ \A k \in 1 .. n : py[k] = px[k]
  BY PartsOfOneMore
<1>2. x \in Seq(Nat) /\ y \in Seq(Nat)
  BY DEF OneMore
<1>3. PICK f : Builds(x, f)
  BY <1>2, ShownBuilt
<1>4. PICK g : Builds(y, g)
  BY <1>2, ShownBuilt
<1>5. /\ f[0] = <<>> /\ Shown(x) = f[n]
      /\ \A k \in 1 .. n : f[k] = Below(f[k - 1], BuildName(px[k], 2))
  BY <1>3 DEF Builds
<1>6. /\ g[0] = <<>> /\ Shown(y) = g[n + 1]
      /\ \A k \in 1 .. n + 1 : g[k] = Below(g[k - 1], BuildName(py[k], 2))
  BY <1>1, <1>4 DEF Builds
<1> HIDE DEF n, px, py
<1>7. StaysEqual(g, f, n)
  BY <1>1, <1>5, <1>6 DEF StaysEqual
<1>8. Agree(g, f, n)
  BY <1>1, <1>5, <1>6, <1>7, AgreeUpTo
<1>9. g[n] = f[n]
  BY <1>1, <1>8 DEF Agree
<1>10. PICK k \in 1 .. n + 1 : k = n + 1
  BY <1>1
<1>11. k - 1 = n
  BY <1>1, <1>10
<1>12. g[k] = Below(g[n], BuildName(c, 2))
  BY <1>1, <1>6, <1>10, <1>11
<1> QED BY <1>5, <1>6, <1>9, <1>10, <1>12

\* What the code finds under one name more
LEMMA QueryOneMore ==
  ASSUME NEW v, v.img \in DOMAIN Images, v.iRootSize \in Nat,
         NEW x, NEW y, NEW c, OneMore(x, y, c)
  PROVE  isoQueryIsoEntryFromPath(v, y)
           = EntryIn(v, isoQueryIsoEntryFromPath(v, x), c)
<1> DEFINE n == Len(Components(x))
           px == Components(x)
           py == Components(y)
<1>1. /\ n \in Nat /\ Len(py) = n + 1 /\ py[n + 1] = c
      /\ \A k \in 1 .. n : py[k] = px[k]
  BY PartsOfOneMore
<1>2. x \in Seq(Nat) /\ y \in Seq(Nat)
  BY DEF OneMore
<1>3. PICK f : Finds(v, x, f)
  BY <1>2, QueryFound
<1>4. PICK g : Finds(v, y, g)
  BY <1>2, QueryFound
<1>5. /\ f[0] = RootEntry(v) /\ isoQueryIsoEntryFromPath(v, x) = f[n]
      /\ \A k \in 1 .. n : f[k] = EntryIn(v, f[k - 1], px[k])
  BY <1>3 DEF Finds
<1>6. /\ g[0] = RootEntry(v) /\ isoQueryIsoEntryFromPath(v, y) = g[n + 1]
      /\ \A k \in 1 .. n + 1 : g[k] = EntryIn(v, g[k - 1], py[k])
  BY <1>1, <1>4 DEF Finds
<1> HIDE DEF n, px, py
<1>7. StaysEqual(g, f, n)
  BY <1>1, <1>5, <1>6 DEF StaysEqual
<1>8. Agree(g, f, n)
  BY <1>1, <1>5, <1>6, <1>7, AgreeUpTo
<1>9. g[n] = f[n]
  BY <1>1, <1>8 DEF Agree
<1>10. PICK k \in 1 .. n + 1 : k = n + 1
  BY <1>1
<1>11. k - 1 = n
  BY <1>1, <1>10
<1>12. g[k] = EntryIn(v, g[n], c)
  BY <1>1, <1>6, <1>10, <1>11
<1> QED BY <1>5, <1>6, <1>9, <1>10, <1>12

\* and the node its author put there
LEMMA NodeOneMore ==
  ASSUME NEW img \in DOMAIN Images, NEW v, NEW x, NEW y, NEW c, OneMore(x, y, c)
  PROVE  NodeOf(Masters[img], v, y)
           = NodeIn(Masters[img], v, NodeOf(Masters[img], v, x), c)
<1> DEFINE n == Len(Components(x))
           px == Components(x)
           py == Components(y)
           m == Masters[img]
<1>1. /\ n \in Nat /\ Len(py) = n + 1 /\ py[n + 1] = c
      /\ \A k \in 1 .. n : py[k] = px[k]
  BY PartsOfOneMore
<1>2. x \in Seq(Nat) /\ y \in Seq(Nat)
  BY DEF OneMore
<1>3. PICK f : Walks(Masters[img], v, x, f)
  BY <1>2, NodeWalk
<1>4. PICK g : Walks(Masters[img], v, y, g)
  BY <1>2, NodeWalk
<1>5. /\ f[0] = RootNode(v) /\ NodeOf(m, v, x) = f[n]
      /\ \A k \in 1 .. n : f[k] = NodeIn(m, v, f[k - 1], px[k])
  BY <1>3 DEF Walks
<1>6. /\ g[0] = RootNode(v) /\ NodeOf(m, v, y) = g[n + 1]
      /\ \A k \in 1 .. n + 1 : g[k] = NodeIn(m, v, g[k - 1], py[k])
  BY <1>1, <1>4 DEF Walks
<1> HIDE DEF n, px, py, m
<1>7. StaysEqual(g, f, n)
  BY <1>1, <1>5, <1>6 DEF StaysEqual
<1>8. Agree(g, f, n)
  BY <1>1, <1>5, <1>6, <1>7, AgreeUpTo
<1>9. g[n] = f[n]
  BY <1>1, <1>8 DEF Agree
<1>10. PICK k \in 1 .. n + 1 : k = n + 1
  BY <1>1
<1>11. k - 1 = n
  BY <1>1, <1>10
<1>12. g[k] = NodeIn(m, v, g[n], c)
  BY <1>1, <1>6, <1>10, <1>11
<1> QED BY <1>5, <1>6, <1>9, <1>10, <1>12 DEF m

-----------------------------------------------------------------------------
(* Paths that are the same without regard to case lead to the same node     *)

LEMMA NowhereElse ==
  ASSUME NEW v, v.img \in DOMAIN Images, v.iRootSize \in Nat
  PROVE  /\ Shown(<<>>) = <<>>
         /\ NodeOf(Masters[v.img], v, <<>>) = RootNode(v)
         /\ isoQueryIsoEntryFromPath(v, <<>>) = RootEntry(v)
<1> DEFINE e == <<>>
<1>1. e \in Seq(Nat) /\ Components(e) = <<>> /\ Len(<<>>) = 0
  BY NoComponents
<1> HIDE DEF e
<1>2. PICK p : Builds(e, p)
  BY <1>1, ShownBuilt
<1>3. PICK q : Walks(Masters[v.img], v, e, q)
  BY <1>1, NodeWalk
<1>4. PICK r : Finds(v, e, r)
  BY <1>1, QueryFound
<1>5. Shown(e) = <<>>
  BY <1>1, <1>2 DEF Builds
<1>6. NodeOf(Masters[v.img], v, e) = RootNode(v)
  BY <1>1, <1>3 DEF Walks
<1>7. isoQueryIsoEntryFromPath(v, e) = RootEntry(v)
  BY <1>1, <1>4 DEF Finds
<1> QED BY <1>5, <1>6, <1>7 DEF e

\* Only the components of a line tell what is shown.
LEMMA SameParts ==
  ASSUME NEW x \in Seq(Nat), NEW y \in Seq(Nat), Components(x) = Components(y)
  PROVE  Shown(x) = Shown(y)
<1> DEFINE n == Len(Components(x))
           px == Components(x)
<1>1. n \in Nat /\ Components(y) = px
  BY ComponentsTyped
<1>2. PICK f : Builds(x, f)
  BY ShownBuilt
<1>3. PICK g : Builds(y, g)
  BY ShownBuilt
<1>4. /\ f[0] = <<>> /\ Shown(x) = f[n]
      /\ \A k \in 1 .. n : f[k] = Below(f[k - 1], BuildName(px[k], 2))
  BY <1>2 DEF Builds
<1>5. /\ g[0] = <<>> /\ Shown(y) = g[n]
      /\ \A k \in 1 .. n : g[k] = Below(g[k - 1], BuildName(px[k], 2))
  BY <1>1, <1>3 DEF Builds
<1> HIDE DEF n, px
<1>6. StaysEqual(g, f, n)
  BY <1>4, <1>5 DEF StaysEqual
<1>7. Agree(g, f, n)
  BY <1>1, <1>4, <1>5, <1>6, AgreeUpTo
<1>8. g[n] = f[n]
  BY <1>1, <1>7 DEF Agree
<1> QED BY <1>4, <1>5, <1>8

LEMMA NodesTyped ==
  ASSUME NEW img \in DOMAIN Images, NEW e
  PROVE  /\ NodesOf(Masters[img], e) \in Seq(Nodes)
         /\ NodesIn(Masters[img], e) \subseteq Nodes
<1> DEFINE s == NodesOf(Masters[img], e)
<1>1. s \in Seq(Nodes)
  <2>1. CASE e \in DOMAIN Masters[img].dirs
    BY <2>1, DirRecordsAre
  <2>2. CASE e \notin DOMAIN Masters[img].dirs
    BY <2>2 DEF NodesOf, At
  <2> QED BY <2>1, <2>2
<1> HIDE DEF s
<1>2. Range(s) \subseteq Nodes
  BY <1>1, RangeOf
<1> QED BY <1>1, <1>2 DEF NodesIn, s

\* A directory has the same node under names that are the same.
LEMMA NodeInAlike ==
  ASSUME NEW img \in DOMAIN Images, NEW v, NEW n, NEW c \in Seq(Nat),
         NEW d \in Seq(Nat), SameName(c, d)
  PROVE  NodeIn(Masters[img], v, n, c) = NodeIn(Masters[img], v, n, d)
<1> DEFINE m == Masters[img]
           nodes == IF n.dir THEN NodesIn(m, n.at) ELSE {}
           seen == Visible(v, nodes)
           A == {k \in DOMAIN seen : SameName(seen[k], c)}
           B == {k \in DOMAIN seen : SameName(seen[k], d)}
<1>1. nodes \subseteq Nodes
  BY NodesTyped
<1> HIDE DEF nodes
<1>2. DOMAIN seen = nodes /\ \A k \in nodes : seen[k] = Shows(v, k.name)
  BY DEF Visible
<1> HIDE DEF seen
<1>3. \A k \in nodes : SameName(seen[k], c) <=> SameName(seen[k], d)
  <2> SUFFICES ASSUME NEW k \in nodes
               PROVE  SameName(seen[k], c) <=> SameName(seen[k], d)
    OBVIOUS
  <2> DEFINE s == Shows(v, k.name)
  <2>1. k.name \in Seq(Nat)
    BY <1>1 DEF Nodes
  <2>2. DOMAIN s = 1 .. Len(s)
    BY <2>1, ShownName
  <2>3. seen[k] = s
    BY <1>2
  <2> HIDE DEF s
  <2>4. SameName(s, c) <=> SameName(s, d)
    BY <2>2 DEF SameName
  <2> QED BY <2>3, <2>4
<1>4. A = B
  BY <1>2, <1>3
<1>5. Named(seen, c) = (IF A = {} THEN NoNode ELSE CHOOSE k \in A : TRUE)
  BY DEF Named
<1>6. Named(seen, d) = (IF B = {} THEN NoNode ELSE CHOOSE k \in B : TRUE)
  BY DEF Named
<1> HIDE DEF A, B
<1>7. Named(seen, c) = Named(seen, d)
  BY <1>4, <1>5, <1>6
<1> QED BY <1>7 DEF NodeIn, seen, nodes, m

\* Components that are the same, one by one
AlikeSeqs(p, q) == Len(p) = Len(q) /\ \A k \in 1 .. Len(p) : SameName(p[k], q[k])

\* Every component, without its version, is a name.
AllClean(x) ==
  \A k \in 1 .. Len(Components(x)) : Clean(BuildName(Components(x)[k], 2))

LeadsOn(m, v, x, y, c) == NodeOf(m, v, y) = NodeIn(m, v, NodeOf(m, v, x), c)

LEMMA NodeLeadsOn ==
  ASSUME NEW img \in DOMAIN Images, NEW v, NEW x, NEW y, NEW c, OneMore(x, y, c)
  PROVE  LeadsOn(Masters[img], v, x, y, c)
BY NodeOneMore DEF LeadsOn

LEMMA NodesAlike ==
  ASSUME NEW img \in DOMAIN Images, NEW v, v.iRootSize \in Nat,
         NEW x \in Seq(Nat), NEW y \in Seq(Nat),
         AllClean(x), AlikeSeqs(Components(x), Components(y))
  PROVE  NodeOf(Masters[img], v, Shown(x)) = NodeOf(Masters[img], v, Shown(y))
<1> DEFINE n == Len(Components(x))
           px == Components(x)
           py == Components(y)
           m == Masters[img]
<1>1. n \in Nat /\ px \in Seq(Seq(Nat)) /\ py \in Seq(Seq(Nat)) /\ Len(py) = n
  BY ComponentsTyped DEF AlikeSeqs
<1>2. PICK f : Builds(x, f)
  BY ShownBuilt
<1>3. PICK g : Builds(y, g)
  BY ShownBuilt
<1>4. /\ f \in [0 .. n -> Seq(Nat)] /\ f[0] = <<>> /\ Shown(x) = f[n]
      /\ \A k \in 1 .. n : f[k] = Below(f[k - 1], BuildName(px[k], 2))
  BY <1>2 DEF Builds
<1>5. /\ g \in [0 .. n -> Seq(Nat)] /\ g[0] = <<>> /\ Shown(y) = g[n]
      /\ \A k \in 1 .. n : g[k] = Below(g[k - 1], BuildName(py[k], 2))
  BY <1>1, <1>3 DEF Builds
<1>6. \A k \in 1 .. n : SameName(px[k], py[k]) /\ Clean(BuildName(px[k], 2))
  BY DEF AlikeSeqs, AllClean
<1>7. \A k \in 1 .. n : px[k] \in Seq(Nat) /\ py[k] \in Seq(Nat)
  BY <1>1
<1> HIDE DEF n, px, py
<1> DEFINE T == {k \in 0 .. n : NodeOf(m, v, f[k]) = NodeOf(m, v, g[k])}
<1>8. 0 \in T
  BY <1>1, <1>4, <1>5
<1>9. ASSUME NEW h \in 0 .. n - 1, h \in T PROVE h + 1 \in T
  <2>1. PICK k \in 1 .. n : k = h + 1
    BY <1>1
  <2>2. k - 1 = h /\ h \in 0 .. n
    BY <1>1, <2>1
  <2> DEFINE c == BuildName(px[k], 2)
             d == BuildName(py[k], 2)
  <2>3. /\ c \in Seq(Nat) /\ d \in Seq(Nat) /\ SameName(c, d) /\ Clean(c)
    <3>1. px[k] \in Seq(Nat) /\ py[k] \in Seq(Nat) /\ SameName(px[k], py[k])
      BY <1>6, <1>7
    <3>2. IsBuilt(px[k]) /\ IsBuilt(py[k])
      BY <3>1, BuiltFrom
    <3>3. SameName(c, d)
      BY <3>1, BuildAlike
    <3> QED BY <1>6, <3>2, <3>3 DEF IsBuilt
  <2>4. f[k] = Below(f[h], c) /\ g[k] = Below(g[h], d)
    BY <1>4, <1>5, <2>2
  <2>5. f[h] \in Seq(Nat) /\ g[h] \in Seq(Nat)
    BY <1>4, <1>5, <2>2
  <2> HIDE DEF c, d
  <2>6. Clean(d)
    BY <2>3, CleanAlike
  <2>7. IsBelow(f[h], c) /\ IsBelow(g[h], d)
    BY <2>3, <2>5, BelowIs
  <2>8. OneMore(f[h], f[k], c)
    BY <2>3, <2>4, <2>5, <2>7, ComponentsBelow DEF OneMore, IsBelow
  <2>9. OneMore(g[h], g[k], d)
    BY <2>3, <2>4, <2>5, <2>6, <2>7, ComponentsBelow DEF OneMore, IsBelow
  <2>12. NodeOf(m, v, f[h]) = NodeOf(m, v, g[h])
    BY <1>9
  <2> HIDE DEF T
  <2>10. LeadsOn(Masters[img], v, f[h], f[k], c)
    BY <2>8, NodeLeadsOn
  <2>11. LeadsOn(Masters[img], v, g[h], g[k], d)
    BY <2>9, NodeLeadsOn
  <2> DEFINE w == NodeOf(m, v, f[h])
  <2>13. NodeIn(m, v, w, c) = NodeIn(m, v, w, d)
    BY <2>3, NodeInAlike
  <2>14. NodeOf(m, v, f[k]) = NodeOf(m, v, g[k])
    BY <2>10, <2>11, <2>12, <2>13 DEF LeadsOn
  <2> QED BY <1>1, <2>1, <2>14 DEF T
<1>10. \A k \in 0 .. n : k \in T
  <2> HIDE DEF T
  <2> QED BY <1>1, <1>8, <1>9, BoundedInduction
<1>11. NodeOf(m, v, f[n]) = NodeOf(m, v, g[n])
  BY <1>1, <1>10
<1> QED BY <1>4, <1>5, <1>11

LEMMA AppendAlike ==
  ASSUME NEW p \in Seq(Seq(Nat)), NEW q \in Seq(Seq(Nat)), NEW a \in Seq(Nat),
         NEW b \in Seq(Nat)
  PROVE  AlikeSeqs(Append(p, a), Append(q, b)) <=> AlikeSeqs(p, q) /\ SameName(a, b)
<1> DEFINE r == Append(p, a)
           s == Append(q, b)
<1>1. Len(p) \in Nat /\ Len(q) \in Nat
  OBVIOUS
<1>2. /\ Len(r) = Len(p) + 1 /\ r[Len(p) + 1] = a
      /\ \A k \in 1 .. Len(p) : r[k] = p[k]
  BY AppendProperties
<1>3. /\ Len(s) = Len(q) + 1 /\ s[Len(q) + 1] = b
      /\ \A k \in 1 .. Len(q) : s[k] = q[k]
  BY AppendProperties
<1> HIDE DEF r, s
<1>4. ASSUME AlikeSeqs(r, s) PROVE AlikeSeqs(p, q) /\ SameName(a, b)
  <2>1. Len(p) = Len(q) /\ \A k \in 1 .. Len(p) + 1 : SameName(r[k], s[k])
    BY <1>1, <1>2, <1>3, <1>4 DEF AlikeSeqs
  <2>2. \A k \in 1 .. Len(p) : SameName(p[k], q[k])
    BY <1>1, <1>2, <1>3, <2>1
  <2>3. SameName(r[Len(p) + 1], s[Len(p) + 1])
    BY <1>1, <2>1
  <2> QED BY <1>2, <1>3, <2>1, <2>2, <2>3 DEF AlikeSeqs
<1>5. ASSUME AlikeSeqs(p, q), SameName(a, b) PROVE AlikeSeqs(r, s)
  <2>1. Len(p) = Len(q) /\ \A k \in 1 .. Len(p) : SameName(p[k], q[k])
    BY <1>5 DEF AlikeSeqs
  <2>2. \A k \in 1 .. Len(r) : SameName(r[k], s[k])
    <3> SUFFICES ASSUME NEW k \in 1 .. Len(r) PROVE SameName(r[k], s[k])
      OBVIOUS
    <3>1. k \in 1 .. Len(p) \/ k = Len(p) + 1
      BY <1>1, <1>2
    <3> QED BY <1>2, <1>3, <1>5, <2>1, <3>1
  <2> QED BY <1>2, <1>3, <2>1, <2>2 DEF AlikeSeqs
<1> QED BY <1>4, <1>5 DEF r, s

\* Paths that are the same have components that are.
ScansAlike(x, y) == AlikeSeqs(x.parts, y.parts) /\ SameName(x.part, y.part)

LEMMA EndedAlike ==
  ASSUME NEW x \in [parts : Seq(Seq(Nat)), part : Seq(Nat)],
         NEW y \in [parts : Seq(Seq(Nat)), part : Seq(Nat)], ScansAlike(x, y)
  PROVE  AlikeSeqs(Ended(x), Ended(y))
<1>1. x.part = <<>> <=> y.part = <<>>
  BY DEF ScansAlike, SameName
<1>2. AlikeSeqs(Append(x.parts, x.part), Append(y.parts, y.part))
  BY AppendAlike DEF ScansAlike
<1> QED BY <1>1, <1>2 DEF Ended, ScansAlike

LEMMA StepAlike ==
  ASSUME NEW x \in [parts : Seq(Seq(Nat)), part : Seq(Nat)],
         NEW y \in [parts : Seq(Seq(Nat)), part : Seq(Nat)], ScansAlike(x, y),
         NEW a \in Nat, NEW b \in Nat, Lower(a) = Lower(b)
  PROVE  ScansAlike(ScanStep(a, x), ScanStep(b, y))
<1>1. a \in Separators <=> b \in Separators
  BY LowerKeeps
<1>2. CASE a \in Separators
  <2>1. AlikeSeqs(Ended(x), Ended(y))
    BY EndedAlike
  <2>2. SameName(<<>>, <<>>)
    BY DEF SameName
  <2> QED BY <1>1, <1>2, <2>1, <2>2 DEF ScanStep, ScansAlike
<1>3. CASE a \notin Separators
  <2> DEFINE p == x.part
             q == y.part
             r == Append(p, a)
             s == Append(q, b)
  <2>1. /\ p \in Seq(Nat) /\ q \in Seq(Nat) /\ Len(p) = Len(q) /\ Len(p) \in Nat
        /\ \A k \in 1 .. Len(p) : Lower(p[k]) = Lower(q[k])
    BY DEF ScansAlike, SameName
  <2> HIDE DEF p, q
  <2>2. /\ Len(r) = Len(p) + 1 /\ r[Len(p) + 1] = a /\ r \in Seq(Nat)
        /\ \A k \in 1 .. Len(p) : r[k] = p[k]
    BY <2>1, AppendProperties
  <2>3. /\ Len(s) = Len(q) + 1 /\ s[Len(q) + 1] = b
        /\ \A k \in 1 .. Len(q) : s[k] = q[k]
    BY <2>1, AppendProperties
  <2> HIDE DEF r, s
  <2>4. \A k \in 1 .. Len(r) : Lower(r[k]) = Lower(s[k])
    <3> SUFFICES ASSUME NEW k \in 1 .. Len(r) PROVE Lower(r[k]) = Lower(s[k])
      OBVIOUS
    <3>1. k \in 1 .. Len(p) \/ k = Len(p) + 1
      BY <2>1, <2>2
    <3> QED BY <2>1, <2>2, <2>3, <3>1
  <2>5. SameName(r, s)
    BY <2>1, <2>2, <2>3, <2>4 DEF SameName
  <2>6. ScanStep(a, x) = [parts |-> x.parts, part |-> r]
    BY <1>3 DEF ScanStep, r, p
  <2>7. ScanStep(b, y) = [parts |-> y.parts, part |-> s]
    BY <1>1, <1>3 DEF ScanStep, s, q
  <2> QED BY <2>5, <2>6, <2>7 DEF ScansAlike
<1> QED BY <1>2, <1>3

LEMMA PathsAlike ==
  ASSUME NEW x \in Seq(Nat), NEW y \in Seq(Nat), SameName(x, y)
  PROVE  AlikeSeqs(Components(x), Components(y))
<1> DEFINE n == Len(x)
           R == [parts : Seq(Seq(Nat)), part : Seq(Nat)]
<1>1. n \in Nat /\ Len(y) = n
      /\ \A k \in 1 .. n : x[k] \in Nat /\ y[k] \in Nat /\ Lower(x[k]) = Lower(y[k])
  BY DEF SameName
<1>2. PICK f : Scans(x, f)
  BY PathScanned
<1>3. PICK g : Scans(y, g)
  BY PathScanned
<1>4. /\ f \in [0 .. n -> R] /\ f[0] = AtStart /\ Components(x) = Ended(f[n])
      /\ \A k \in 1 .. n : f[k] = ScanStep(x[k], f[k - 1])
  BY <1>2 DEF Scans
<1>5. /\ g \in [0 .. n -> R] /\ g[0] = AtStart /\ Components(y) = Ended(g[n])
      /\ \A k \in 1 .. n : g[k] = ScanStep(y[k], g[k - 1])
  BY <1>1, <1>3 DEF Scans
<1> HIDE DEF n
<1> DEFINE T == {k \in 0 .. n : ScansAlike(f[k], g[k])}
<1>6. 0 \in T
  <2>1. ScansAlike(AtStart, AtStart)
    BY DEF ScansAlike, AtStart, AlikeSeqs, SameName
  <2> QED BY <1>1, <1>4, <1>5, <2>1
<1>7. ASSUME NEW h \in 0 .. n - 1, h \in T PROVE h + 1 \in T
  <2>1. PICK k \in 1 .. n : k = h + 1
    BY <1>1
  <2>2. k - 1 = h /\ h \in 0 .. n
    BY <1>1, <2>1
  <2> DEFINE r == f[h]
             s == g[h]
  <2>3. r \in R /\ s \in R /\ ScansAlike(r, s)
    BY <1>4, <1>5, <1>7, <2>2
  <2>4. f[k] = ScanStep(x[k], r) /\ g[k] = ScanStep(y[k], s)
    BY <1>4, <1>5, <2>2
  <2> HIDE DEF r, s
  <2>5. ScansAlike(ScanStep(x[k], r), ScanStep(y[k], s))
    BY <1>1, <2>3, StepAlike
  <2> QED BY <1>1, <2>1, <2>4, <2>5
<1>8. \A k \in 0 .. n : k \in T
  <2> HIDE DEF T
  <2> QED BY <1>1, <1>6, <1>7, BoundedInduction
<1>9. ScansAlike(f[n], g[n]) /\ f[n] \in R /\ g[n] \in R
  BY <1>1, <1>4, <1>5, <1>8
<1>10. AlikeSeqs(Ended(f[n]), Ended(g[n]))
  <2> HIDE DEF T
  <2> QED BY <1>9, EndedAlike
<1> QED BY <1>4, <1>5, <1>10

-----------------------------------------------------------------------------
(* Where the line of a file or directory leads                              *)

\* A volume that can be listed
Listable(v, dirs) ==
  /\ Written(v, dirs) /\ TableKnown(v)
  /\ EachInOne(Masters[v.img], v, dirs) /\ NamesTold(Masters[v.img], v, dirs)
  /\ FilesWithin(Masters[v.img], dirs)

\* What is of a name that stands on its own, of an identifier, and of a node
IsName(c) == c \in Seq(Nat) /\ Clean(c) /\ NoDots(c)
IsIdentifier(v, node) ==
  /\ Shows(v, node.id) \in Seq(Nat) /\ Clean(Shows(v, node.id))
  /\ BuildName(Shows(v, node.id), 2) = Shows(v, node.name)
  /\ IsName(Shows(v, node.name))
IsNode(v, dirs, node) ==
  /\ node \in Nodes /\ NodeWritten(v, node) /\ node \in AllNodes(Masters[v.img])
  /\ Placed(Masters[v.img], dirs, node) /\ IsIdentifier(v, node)

LEMMA NoDotsAtEnd ==
  ASSUME NEW c \in Seq(Nat), c # <<>>, c[Len(c)] # Dot
  PROVE  NoDots(c)
<1>1. \A a \in Nat, b \in Nat : Lower(a) = Lower(b) => (a = Dot <=> b = Dot)
  BY LowerKeeps
<1>2. Dot \in Nat
  BY DEF Dot
<1>3. ASSUME NEW s \in Seq(Nat), s # <<>>, s[Len(s)] = Dot, SameName(s, c) PROVE FALSE
  <2>1. /\ Len(c) = Len(s) /\ Len(s) \in 1 .. Len(s)
        /\ Lower(s[Len(s)]) = Lower(c[Len(s)]) /\ c[Len(s)] \in Nat
    BY <1>3 DEF SameName
  <2> QED BY <1>1, <1>2, <1>3, <2>1
<1>4. /\ <<Dot>> \in Seq(Nat) /\ <<Dot>> # <<>> /\ <<Dot>>[Len(<<Dot>>)] = Dot
      /\ <<Dot, Dot>> \in Seq(Nat) /\ <<Dot, Dot>> # <<>>
      /\ <<Dot, Dot>>[Len(<<Dot, Dot>>)] = Dot
  BY <1>2
<1> QED BY <1>3, <1>4 DEF NoDots

LEMMA IdentifierOfNode ==
  ASSUME NEW v, NEW dirs, Listable(v, dirs), NEW e \in dirs,
         NEW node \in NodesIn(Masters[v.img], e)
  PROVE  IsNode(v, dirs, node)
<1> DEFINE m == Masters[v.img]
           id == Shows(v, node.id)
           name == Shows(v, node.name)
<1>1. Written(v, dirs) /\ TableKnown(v) /\ v.ucs_level \in Nat /\ v.img \in DOMAIN Images
      /\ TableExact(m, v)
  BY DEF Listable, Written
<1>2. /\ node \in Nodes /\ NodeWritten(v, node) /\ node \in AllNodes(m)
      /\ Placed(m, dirs, node)
  BY <1>1, NodesOfTree
<1>3. node.id \in Seq(Nat) /\ node.name \in Seq(Nat)
  BY <1>2 DEF Nodes
<1>4. id \in Seq(Nat) /\ name \in Seq(Nat)
  BY <1>1, <1>3, ShowsTyped
<1>5. CString(id) = id
  BY <1>1, <1>2, RawOf
<1>6. Identifies(id, name)
  BY <1>2 DEF NodeWritten
<1>7. \A i \in 1 .. Len(id) : id[i] \notin Separators
  <2>1. PICK i \in DOMAIN NodesOf(m, e) : NodesOf(m, e)[i] = node
    BY DEF NodesIn, Range
  <2>2. \A c \in Range(id) : c \notin Separators
    BY <2>1 DEF Listable, NamesTold
  <2> HIDE DEF id
  <2>3. \A j \in 1 .. Len(id) : id[j] \in Range(id)
    BY <1>4 DEF Range
  <2> QED BY <2>2, <2>3
<1> HIDE DEF id, name
<1>8. BuildName(id, 2) = name
  <2>1. Len(name) \in Nat /\ 2 \in Nat /\ (Len(id) > 1 => 2 > 1)
    BY <1>4
  <2>2. BuildName(CString(id), 2) = name
    BY <1>4, <1>6, <2>1, NameOfIdentifier
  <2> QED BY <1>5, <2>2
<1>9. /\ Len(name) \in Nat /\ Len(id) \in Nat /\ Len(name) > 0 /\ Len(name) <= Len(id)
      /\ SubSeq(id, 1, Len(name)) = name /\ name[Len(name)] # Dot
  BY <1>4, <1>6 DEF Identifies
<1>10. \A i \in 1 .. Len(name) : name[i] = id[i]
  BY <1>4, <1>9, BeginningOf
<1>11. Clean(id) /\ Clean(name)
  <2>1. id # <<>> /\ name # <<>>
    BY <1>4, <1>9
  <2>2. \A i \in 1 .. Len(name) : name[i] \notin Separators
    BY <1>7, <1>9, <1>10
  <2> QED BY <1>7, <2>1, <2>2 DEF Clean
<1>12. NoDots(name)
  <2>1. name # <<>>
    BY <1>9
  <2> QED BY <1>4, <1>9, <2>1, NoDotsAtEnd
<1> QED BY <1>2, <1>4, <1>8, <1>11, <1>12 DEF IsNode, IsIdentifier, IsName, id, name, m

LEMMA NamesAreApart ==
  ASSUME NEW v, NEW dirs, Listable(v, dirs), NEW e \in dirs
  PROVE  NamesApart(v, e)
<1> DEFINE s == NodesOf(Masters[v.img], e)
<1>1. \A i, j \in DOMAIN s :
        SameName(Shows(v, s[i].name), Shows(v, s[j].name)) => i = j
  BY DEF Listable, NamesTold
<1>2. NodesIn(Masters[v.img], e) = {s[i] : i \in DOMAIN s}
  BY DEF NodesIn, Range
<1> HIDE DEF s
<1> QED BY <1>1, <1>2 DEF NamesApart

\* A line, or the beginning of one, leads to a node.
LedTo(v, dirs, b, n) ==
  /\ b \in Seq(Nat) /\ (b # <<>> => b[1] = 92) /\ AllClean(b)
  /\ Shown(b) \in Seq(Nat)
  /\ NodeOf(Masters[v.img], v, Shown(b)) = n
  /\ Together(v, dirs, isoQueryIsoEntryFromPath(v, Shown(b)), n)

LEMMA RootIsLedTo ==
  ASSUME NEW v, NEW dirs, Listable(v, dirs)
  PROVE  LedTo(v, dirs, <<>>, RootNode(v))
<1> DEFINE b == <<>>
<1>1. Written(v, dirs) /\ v.img \in DOMAIN Images /\ v.iRootSize \in Nat
  BY DEF Listable, Written
<1>2. /\ Shown(b) = <<>> /\ NodeOf(Masters[v.img], v, Shown(b)) = RootNode(v)
      /\ isoQueryIsoEntryFromPath(v, Shown(b)) = RootEntry(v)
  BY <1>1, NowhereElse
<1>3. Together(v, dirs, RootEntry(v), RootNode(v))
  BY <1>1, RootIsPlaced
<1>4. AllClean(b)
  BY NoComponents DEF AllClean
<1>5. b \in Seq(Nat) /\ Shown(b) \in Seq(Nat)
  <2>1. b \in Seq(Nat)
    OBVIOUS
  <2>2. Shown(b) = b
    BY <1>2
  <2> QED BY <2>1, <2>2
<1> HIDE DEF b
<1>6. b # <<>> => b[1] = 92
  BY DEF b
<1> QED BY <1>2, <1>3, <1>4, <1>5, <1>6 DEF LedTo, b

\* A name below a path is one component more, in the line and in what is shown.
LEMMA LineParts ==
  ASSUME NEW b \in Seq(Nat), NEW raw \in Seq(Nat), Clean(raw), NEW c,
         c = BuildName(raw, 2), Clean(c), Shown(b) \in Seq(Nat), AllClean(b)
  PROVE  LET l == Below(b, raw)
         IN  /\ OneMore(b, l, raw) /\ OneMore(Shown(b), Shown(l), c)
             /\ AllClean(l) /\ Shown(l) \in Seq(Nat)
             /\ l # <<>> /\ (b # <<>> => l[1] = b[1]) /\ (b = <<>> => l[1] = 92)
<1> DEFINE l == Below(b, raw)
<1>1. IsBelow(b, raw)
  BY BelowIs
<1>2. OneMore(b, l, raw)
  BY <1>1, ComponentsBelow DEF OneMore, IsBelow
<1>3. c \in Seq(Nat)
  BY BuiltFrom DEF IsBuilt
<1>4. Shown(l) = Below(Shown(b), c)
  BY <1>2, ShownOneMore
<1>5. IsBelow(Shown(b), c)
  BY <1>3, BelowIs
<1>6. OneMore(Shown(b), Shown(l), c)
  BY <1>3, <1>4, <1>5, ComponentsBelow DEF OneMore, IsBelow
<1>7. AllClean(l)
  <2>1. /\ Len(Components(b)) \in Nat /\ Len(Components(l)) = Len(Components(b)) + 1
        /\ \A k \in 1 .. Len(Components(b)) : Components(l)[k] = Components(b)[k]
        /\ Components(l)[Len(Components(b)) + 1] = raw
    BY <1>2, PartsOfOneMore
  <2> HIDE DEF l
  <2> SUFFICES ASSUME NEW k \in 1 .. Len(Components(l))
               PROVE  Clean(BuildName(Components(l)[k], 2))
    BY DEF AllClean
  <2>2. k \in 1 .. Len(Components(b)) \/ k = Len(Components(b)) + 1
    BY <2>1
  <2> QED BY <2>1, <2>2 DEF AllClean
<1>8. Shown(l) \in Seq(Nat)
  BY <1>6 DEF OneMore
<1>9. l # <<>> /\ (b # <<>> => l[1] = b[1]) /\ (b = <<>> => l[1] = 92)
  <2>1. /\ l \in Seq(Nat) /\ Len(l) = Len(b) + 1 + Len(raw) /\ Len(b) \in Nat
        /\ Len(raw) \in Nat
        /\ \A i \in 1 .. Len(b) : l[i] = b[i]
        /\ l[Len(b) + 1] = 92
    BY <1>1 DEF IsBelow
  <2> HIDE DEF l
  <2>2. l # <<>>
    BY <2>1
  <2>3. b # <<>> => 1 \in 1 .. Len(b)
    OBVIOUS
  <2>4. b = <<>> => Len(b) = 0
    OBVIOUS
  <2> QED BY <2>1, <2>2, <2>3, <2>4
<1> QED BY <1>2, <1>6, <1>7, <1>8, <1>9

\* In a directory a name leads to its node.
LEMMA OwnName ==
  ASSUME NEW v, NEW dirs, Listable(v, dirs), NEW n, n.dir, n.at \in dirs,
         NEW node \in NodesIn(Masters[v.img], n.at)
  PROVE  NodeIn(Masters[v.img], v, n, Shows(v, node.name)) = node
<1> DEFINE m == Masters[v.img]
           X == NodesIn(m, n.at)
           c == Shows(v, node.name)
           k == NodeIn(m, v, n, c)
<1>1. NamesApart(v, n.at)
  BY NamesAreApart
<1>2. \A y \in X : \A z \in X : SameName(Shows(v, y.name), Shows(v, z.name)) => y = z
  BY <1>1 DEF NamesApart
<1>3. c \in Seq(Nat)
  BY IdentifierOfNode DEF IsNode, IsIdentifier, IsName
<1>4. SameName(c, c)
  BY <1>3, SameNameLaws
<1>5. k = Named(Visible(v, X), c)
  BY DEF NodeIn
<1> HIDE DEF X, k
<1>6. \/ k = NoNode /\ \A y \in X : ~SameName(Shows(v, y.name), c)
      \/ k \in X /\ SameName(Shows(v, k.name), c)
  BY <1>5, NamedIs
<1>7. node \in X
  BY DEF X
<1> QED BY <1>2, <1>4, <1>6, <1>7 DEF k

LEMMA LineLeads ==
  ASSUME NEW v, NEW dirs, Listable(v, dirs), NEW b, NEW n, LedTo(v, dirs, b, n),
         n.dir, NEW node \in NodesIn(Masters[v.img], n.at)
  PROVE  LET l == Below(b, Shows(v, node.id))
         IN  LedTo(v, dirs, l, node) /\ l # <<>> /\ OneMore(b, l, Shows(v, node.id))
<1> DEFINE m == Masters[v.img]
           raw == Shows(v, node.id)
           c == Shows(v, node.name)
           l == Below(b, raw)
           p == Shown(b)
           q == Shown(l)
<1>1. /\ Written(v, dirs) /\ v.img \in DOMAIN Images /\ v.iRootSize \in Nat
  BY DEF Listable, Written
<1>2. /\ b \in Seq(Nat) /\ (b # <<>> => b[1] = 92) /\ AllClean(b) /\ p \in Seq(Nat)
      /\ NodeOf(m, v, p) = n
      /\ Together(v, dirs, isoQueryIsoEntryFromPath(v, p), n)
  BY DEF LedTo
<1> DEFINE x == isoQueryIsoEntryFromPath(v, p)
<1>3. x # NotFound /\ x.iExtent = n.at /\ x.iSize = n.size /\ Placed(m, dirs, n)
  <2>1. n # NoNode
    BY DEF NoNode
  <2>2. Together(v, dirs, x, n)
    BY <1>2
  <2> HIDE DEF x
  <2> QED BY <2>1, <2>2 DEF Together
<1>4. n.at \in dirs
  BY <1>3 DEF Placed
<1>5. IsNode(v, dirs, node)
  BY <1>4, IdentifierOfNode
<1>6. /\ raw \in Seq(Nat) /\ Clean(raw) /\ BuildName(raw, 2) = c
      /\ c \in Seq(Nat) /\ Clean(c) /\ NoDots(c)
  BY <1>5 DEF IsNode, IsIdentifier, IsName
<1> HIDE DEF raw, c, m
<1>7. /\ OneMore(b, l, raw) /\ OneMore(p, q, c) /\ AllClean(l) /\ q \in Seq(Nat)
      /\ l # <<>> /\ (b # <<>> => l[1] = b[1]) /\ (b = <<>> => l[1] = 92)
  BY <1>2, <1>6, LineParts
<1> HIDE DEF p, q, l, x
<1>8. NodeOf(m, v, q) = NodeIn(m, v, n, c)
  <2>1. LeadsOn(Masters[v.img], v, p, q, c)
    BY <1>1, <1>7, NodeLeadsOn
  <2> QED BY <1>2, <2>1 DEF LeadsOn, m
<1>9. NodeIn(m, v, n, c) = node
  BY <1>4, OwnName DEF c, m
<1>10. isoQueryIsoEntryFromPath(v, q) = EntryIn(v, x, c)
  BY <1>1, <1>7, QueryOneMore DEF x
<1>11. EntryIn(v, x, c) = FirstMatch(getDirEntries(v, n.at, n.size), c)
  BY <1>3 DEF EntryIn
<1>12. NamesApart(v, n.at)
  BY <1>4, NamesAreApart
<1>13. Together(v, dirs, FirstMatch(getDirEntries(v, n.at, n.size), c),
                NodeIn(Masters[v.img], v, n, c))
  BY <1>1, <1>3, <1>6, <1>12, InDirectory DEF m
<1>14. Together(v, dirs, isoQueryIsoEntryFromPath(v, q), node)
  BY <1>9, <1>10, <1>11, <1>13 DEF m
<1>15. l \in Seq(Nat) /\ (l # <<>> => l[1] = 92)
  BY <1>2, <1>7 DEF OneMore
<1>16. LedTo(v, dirs, l, node)
  BY <1>7, <1>8, <1>9, <1>14, <1>15 DEF LedTo, q, m
<1> QED BY <1>7, <1>16 DEF l, raw

-----------------------------------------------------------------------------
(* What isoinfo reads of a directory and of a file                          *)

NoRecords == [buffer |-> buffer, recs |-> <<>>]
RecordsStep(extent, k, x) ==
  LET b == ReadRecs(disk.img, extent + k - 1, x.buffer)
  IN  [buffer |-> b, recs |-> x.recs \o b]

\* p is what has been read of a directory after each sector.
RecordsRead(extent, len, p) ==
  /\ p[0] = NoRecords
  /\ \A k \in 1 .. Sectors(len) : p[k] = RecordsStep(extent, k, p[k - 1])
  /\ \A k \in 0 .. Sectors(len) : p[k].buffer \in Seq(RecordTypes)
  /\ ReadDir(extent, len)
       = p[IF 0 < len /\ len < HighBit THEN Sectors(len) ELSE 0]

LEMMA RecordsAreRead ==
  ASSUME disk.img \in DOMAIN Images, buffer \in Seq(RecordTypes),
         NEW extent, NEW len \in Nat
  PROVE  \E p : RecordsRead(extent, len, p)
<1> DEFINE N == Sectors(len)
           R == Seq(RecordTypes)
           S == [buffer : R, recs : R]
           a == NoRecords
           Step(k, x) == RecordsStep(extent, k, x)
           F == [k \in 1 .. N |-> [x \in S |-> Step(k, x)]]
           Body(f) == [k \in 0 .. N |-> IF k = 0 THEN a ELSE Step(k, f[k - 1])]
           p == CHOOSE f : f = Body(f)
<1>1. N \in Nat
  BY SectorsEnough
<1>2. ReadDir(extent, len) = p[IF 0 < len /\ len < HighBit THEN N ELSE 0]
  BY DEF ReadDir, RecordsStep, NoRecords
<1>3. a \in S
  BY DEF NoRecords
<1>4. \A k \in 1 .. N, x \in S : Step(k, x) \in S
  <2> SUFFICES ASSUME NEW k \in 1 .. N, NEW x \in S PROVE Step(k, x) \in S
    OBVIOUS
  <2> DEFINE b == ReadRecs(disk.img, extent + k - 1, x.buffer)
  <2>1. x.buffer \in R /\ x.recs \in R
    OBVIOUS
  <2>2. b \in R
    BY <2>1, RecsTyped
  <2>3. Step(k, x) = [buffer |-> b, recs |-> x.recs \o b]
    BY DEF RecordsStep
  <2> HIDE DEF b, Step
  <2> QED BY <2>1, <2>2, <2>3
<1> HIDE DEF N, S, a, Step
<1>5. F \in Steps(N, S)
  BY <1>4 DEF Steps
<1>6. PICK f : f \in Recursive(N, S, a, F)
  <2> HIDE DEF F
  <2> QED BY <1>1, <1>3, <1>5, PrimitiveRecursion
<1>7. f = Body(f)
  <2>1. f \in [0 .. N -> S] /\ f[0] = a
    BY <1>6 DEF Recursive
  <2>2. \A k \in 1 .. N : f[k] = F[k][f[k - 1]]
    <3> HIDE DEF F
    <3> QED BY <1>6 DEF Recursive
  <2>3. \A k \in 1 .. N : f[k - 1] \in S
    BY <1>1, <2>1
  <2>4. \A k \in 1 .. N : f[k] = Step(k, f[k - 1])
    BY <2>2, <2>3
  <2> QED BY <1>1, <2>1, <2>4
<1>8. p = Body(p)
  BY <1>7
<1>11. \A g : g = Body(g) => \A k \in 0 .. N : g[k] \in S
  <2> SUFFICES ASSUME NEW g, g = Body(g) PROVE \A k \in 0 .. N : g[k] \in S
    OBVIOUS
  <2> DEFINE T == {k \in 0 .. N : g[k] \in S}
  <2>1. g[0] = a /\ \A k \in 1 .. N : g[k] = Step(k, g[k - 1])
    BY <1>1
  <2>2. 0 \in T
    BY <1>1, <1>3, <2>1
  <2>3. ASSUME NEW k \in 0 .. N - 1, k \in T PROVE k + 1 \in T
    <3>1. PICK j \in 1 .. N : j = k + 1
      BY <1>1
    <3>2. j - 1 = k /\ j \in 0 .. N /\ g[k] \in S
      BY <2>3, <3>1
    <3>3. g[j] \in S
      BY <1>4, <2>1, <3>2
    <3> QED BY <3>1, <3>2, <3>3
  <2> HIDE DEF T
  <2>4. \A k \in 0 .. N : k \in T
    BY <1>1, <2>2, <2>3, BoundedInduction
  <2> QED BY <2>4 DEF T
<1> HIDE DEF p
<1>9. p[0] = a /\ \A k \in 1 .. N : p[k] = Step(k, p[k - 1])
  BY <1>1, <1>8
<1>12. \A k \in 0 .. N : p[k].buffer \in R
  <2>1. \A k \in 0 .. N : p[k] \in S
    BY <1>8, <1>11
  <2> QED BY <2>1 DEF S
<1>10. RecordsRead(extent, len, p)
  BY <1>2, <1>9, <1>12 DEF N, a, Step, RecordsRead
<1> QED BY <1>10

\* Before the last of the blocks that n takes, by s, all are full.
LEMMA FullBefore ==
  ASSUME NEW n \in Nat, NEW s \in Nat \ {0}, NEW k \in Nat \ {0},
         k <= (n + s - 1) \div s
  PROVE  (k - 1) * s \in Nat /\ (k - 1) * s < n /\ k * s = (k - 1) * s + s
<1> DEFINE p == n + s - 1
           q == p \div s
           d == q - k
<1>1. p \in Nat /\ q \in Nat /\ (p % s) \in 0 .. s - 1 /\ p = q * s + (p % s)
  BY Divided
<1>2. d \in Nat /\ q = k + d
  BY <1>1
<1> HIDE DEF q, d
<1>3. q * s = (k - 1) * s + s + d * s /\ (k - 1) * s \in Nat /\ d * s \in Nat
      /\ k * s = (k - 1) * s + s
  BY <1>2
<1> HIDE DEF p
<1>4. (k - 1) * s + s <= p
  BY <1>1, <1>3
<1> QED BY <1>3, <1>4 DEF p

\* The number of blocks is what it takes for the last of them.
LEMMA BlocksOf ==
  ASSUME NEW l \in Nat \ {0}, NEW s \in Nat \ {0}
  PROVE  /\ (l - 1) \div s + 1 = (l + s - 1) \div s
         /\ l <= ((l + s - 1) \div s) * s /\ (l + s - 1) \div s \in Nat \ {0}
<1> DEFINE p == l - 1
           q == p \div s
           r == p % s
           t == l + s - 1
           u == t \div s
           w == t % s
<1>2. t \in Nat /\ p \in Nat /\ t = p + s /\ l = p + 1
  OBVIOUS
<1> HIDE DEF p, t
<1>1. q \in Nat /\ r \in 0 .. s - 1 /\ p = q * s + r
  BY <1>2, Divided
<1>3. u \in Nat /\ w \in 0 .. s - 1 /\ t = u * s + w
  BY <1>2, Divided
<1>4. t = p + s
  BY <1>2
<1> HIDE DEF q, r, u, w
<1>5. (q + 1) * s = q * s + s /\ q * s \in Nat /\ u * s \in Nat
      /\ (u + 1) * s = u * s + s
  BY <1>1, <1>3
<1>6. (q + 1) * s < (u + 1) * s
  BY <1>1, <1>3, <1>4, <1>5
<1>7. u * s < (q + 1 + 1) * s
  <2>1. (q + 1 + 1) * s = q * s + s + s
    BY <1>1
  <2> QED BY <1>1, <1>3, <1>4, <1>5, <2>1
<1>8. q + 1 < u + 1
  <2>1. q + 1 \in Int /\ u + 1 \in Int
    BY <1>1, <1>3
  <2> QED BY <1>6, <2>1, CancelFactor
<1>9. u < q + 1 + 1
  <2>1. u \in Int /\ q + 1 + 1 \in Int
    BY <1>1, <1>3
  <2> QED BY <1>7, <2>1, CancelFactor
<1>10. u = q + 1
  BY <1>1, <1>3, <1>8, <1>9
<1>11. l <= u * s
  BY <1>1, <1>2, <1>5, <1>10
<1> QED BY <1>1, <1>10, <1>11 DEF q, u, p, t

\* The end of the sector after the first a records, all but the last being full
LEMMA NextEnd ==
  ASSUME NEW a \in Nat, NEW per \in Nat, NEW L \in Nat, a < L,
         NEW c, c = a + per
  PROVE  a \in 0 .. L /\ Min2(c, L) \in a .. L /\ Min2(a, L) = a
BY DEF Min2

\* The records of a directory are read just as they were written, whatever was
\* in the buffer.
LEMMA RecordsAre ==
  ASSUME disk.img \in DOMAIN Images, DirsApart(Masters[disk.img]),
         buffer \in Seq(RecordTypes),
         NEW at, NEW size \in Nat, IsDirAt(Masters[disk.img], at, size)
  PROVE  /\ ReadDir(at, size).recs = DirRecords(Masters[disk.img], at)
         /\ ReadDir(at, size).buffer \in Seq(RecordTypes)
<1> DEFINE m == Masters[disk.img]
           r == DirRecords(m, at)
           L == Len(r)
           per == m.per
           N == Sectors(size)
<1>1. /\ at \in DOMAIN m.dirs /\ 0 < size /\ size < HighBit
      /\ Extent(at, size) = DirExtentOf(m, at)
      /\ at + N - 1 <= m.last
  BY DEF IsDirAt
<1>2. /\ at \in Nat /\ per \in Nat \ {0} /\ r \in Seq(RecordTypes)
      /\ L = Len(NodesOf(m, at)) + 2 /\ NodesOf(m, at) \in Seq(Nodes)
  BY <1>1, DirRecordsAre, MasterTyped
<1>3. L \in Nat \ {0} /\ Len(NodesOf(m, at)) + 1 = L - 1
  <2>1. Len(NodesOf(m, at)) \in Nat
    BY <1>2
  <2> HIDE DEF L
  <2> QED BY <1>2, <2>1
<1> HIDE DEF L, per
<1> DEFINE M == (L + per - 1) \div per
           q == (L - 1) \div per
<1>4. N \in Nat /\ M \in Nat \ {0} /\ q + 1 = M /\ L <= M * per
  BY <1>2, <1>3, BlocksOf, SectorsEnough
<1>5. at .. (at + N - 1) = at .. (at + q)
  BY <1>1, <1>3 DEF Extent, DirExtentOf, per
<1>6. N = M
  <2> HIDE DEF q, M, N
  <2>3. q \in Nat
    <3>1. L - 1 \in Nat
      BY <1>3
    <3> QED BY <1>2, <3>1, Divided DEF q
  <2>4. at + q \in at .. (at + N - 1)
    <3> DEFINE z == at + q
    <3>1. z \in at .. z
      BY <1>2, <2>3
    <3> QED BY <1>5, <3>1
  <2>5. at + N - 1 \in at .. (at + q)
    BY <1>2, <1>4, <1>5, <2>4
  <2> QED BY <1>2, <1>4, <2>3, <2>4, <2>5
<1>7. PICK p : RecordsRead(at, size, p)
  BY RecordsAreRead
<1>8. /\ p[0] = NoRecords
      /\ \A k \in 1 .. N : p[k] = RecordsStep(at, k, p[k - 1])
      /\ ReadDir(at, size) = p[N]
  BY <1>1, <1>7 DEF RecordsRead
<1>15. ReadDir(at, size).buffer \in Seq(RecordTypes)
  <2>1. N \in 0 .. N
    BY <1>4
  <2>2. p[N].buffer \in Seq(RecordTypes)
    BY <1>7, <2>1 DEF RecordsRead
  <2> QED BY <1>8, <2>2
<1> DEFINE T == {k \in 0 .. N : p[k].recs = SubSeq(r, 1, Min2(k * per, L))}
<1> HIDE DEF N
<1>9. 0 \in T
  <2>1. Min2(0 * per, L) = 0
    <3>1. 0 * per = 0
      BY <1>2
    <3> QED BY <1>3, <3>1 DEF Min2
  <2>2. SubSeq(r, 1, 0) = <<>>
    BY SubSeqEmpty
  <2>3. p[0].recs = SubSeq(r, 1, Min2(0 * per, L))
    <3> HIDE DEF r
    <3> QED BY <1>8, <2>1, <2>2 DEF NoRecords
  <2> QED BY <1>4, <2>3
<1>10. ASSUME NEW h \in 0 .. N - 1, h \in T PROVE h + 1 \in T
  <2>1. PICK k \in 1 .. N : k = h + 1
    BY <1>4
  <2>2. k - 1 = h /\ h \in 0 .. N /\ at + k - 1 = at + h
    BY <1>2, <1>4, <2>1
  <2> HIDE DEF r
  <2>3. h * per \in Nat /\ h * per < L /\ k * per = h * per + per
    <3>1. k \in Nat \ {0} /\ k <= (L + per - 1) \div per
      BY <1>4, <1>6
    <3>2. (k - 1) * per \in Nat /\ (k - 1) * per < L /\ k * per = (k - 1) * per + per
      BY <1>2, <1>3, <3>1, FullBefore
    <3> QED BY <2>2, <3>2
  <2> DEFINE A == h * per
             B == Min2(k * per, L)
             s == at + h
  <2>4. A \in 0 .. L /\ B \in A .. L /\ Min2(h * per, L) = A
    <3>1. per \in Nat /\ L \in Nat
      BY <1>2, <1>3
    <3>2. /\ A \in 0 .. L /\ Min2(k * per, L) \in A .. L
          /\ Min2(A, L) = A
      BY <2>3, <3>1, NextEnd
    <3> QED BY <3>2
  <2>5. s \in DirExtentOf(m, at) /\ s <= m.last
    <3>1. s \in at .. (at + N - 1)
      BY <1>2, <1>4
    <3>2. s \in Extent(at, size)
      BY <3>1 DEF Extent, N
    <3>3. m.last \in Nat
      BY MasterTyped
    <3> QED BY <1>1, <1>2, <1>4, <3>1, <3>2, <3>3 DEF N
  <2> DEFINE b == ReadRecs(disk.img, at + k - 1, p[h].buffer)
  <2>6. b = SubSeq(r, A + 1, B)
    <3>1. ReadRecs(disk.img, s, p[h].buffer) = DirSectors(m, at)[s]
      BY <1>1, <2>5, DirSectorRead
    <3>2. at .. (at + (L - 1) \div per) = at .. (at + N - 1)
      BY <1>5
    <3>3. s \in at .. (at + (L - 1) \div per)
      <4>1. s \in at .. (at + N - 1)
        BY <1>2, <1>4
      <4> QED BY <3>2, <4>1
    <3>4. DirSectors(m, at)[s]
            = SubSeq(r, (s - at) * per + 1, Min2((s - at + 1) * per, L))
      BY <3>3 DEF DirSectors, r, L, per
    <3>5. s - at = h /\ s - at + 1 = k
      BY <1>2, <2>1
    <3> QED BY <2>2, <3>1, <3>4, <3>5
  <2>7. p[k].recs = p[h].recs \o b
    <3>1. p[k] = RecordsStep(at, k, p[h])
      BY <1>8, <2>2
    <3> DEFINE x == p[h]
    <3>2. RecordsStep(at, k, x).recs = x.recs \o ReadRecs(disk.img, at + k - 1, x.buffer)
      <4> HIDE DEF x
      <4> QED BY DEF RecordsStep
    <3> QED BY <3>1, <3>2
  <2>8. p[h].recs = SubSeq(r, 1, A)
    BY <1>10, <2>4
  <2> HIDE DEF A, B, b, T, s
  <2>9. SubSeq(r, 1, A) \o SubSeq(r, A + 1, B) = SubSeq(r, 1, B)
    <3>1. 1 \in 1 .. Len(r) + 1 /\ A \in 1 - 1 .. Len(r) /\ B \in A .. Len(r)
      BY <1>3, <2>4 DEF L
    <3> QED BY <1>2, <3>1, ConcatAdjacentSubSeq
  <2>10. p[k].recs = SubSeq(r, 1, B)
    BY <2>6, <2>7, <2>8, <2>9
  <2> QED BY <1>4, <2>1, <2>10 DEF T, B
<1>11. \A k \in 0 .. N : k \in T
  <2> HIDE DEF T
  <2> QED BY <1>4, <1>9, <1>10, BoundedInduction
<1>12. p[N].recs = SubSeq(r, 1, Min2(N * per, L))
  BY <1>4, <1>11
<1>13. Min2(N * per, L) = L
  <2>1. N * per \in Nat
    BY <1>2, <1>4
  <2> QED BY <1>3, <1>4, <1>6, <2>1 DEF Min2
<1>14. SubSeq(r, 1, L) = r
  <2> HIDE DEF r
  <2>1. L \in Nat /\ L <= Len(r)
    BY <1>3 DEF L
  <2>2. /\ SubSeq(r, 1, L) \in Seq(RecordTypes) /\ Len(SubSeq(r, 1, L)) = L
        /\ \A i \in 1 .. L : SubSeq(r, 1, L)[i] = r[i]
    BY <1>2, <2>1, BeginningOf
  <2> QED BY <1>2, <2>2, SeqEqual DEF L
<1> QED BY <1>8, <1>12, <1>13, <1>14, <1>15

ExtractStart == [buff |-> NewBuffer, out |-> <<>>]
BlockLen(size, k) == Min2(SectorSize, size - (k - 1) * SectorSize)
ExtractStep(rec, k, x) ==
  LET buff == ReadBytes(disk.img, rec.extent + k - 1, BlockLen(rec.size, k), x.buff)
  IN  [buff |-> buff, out |-> x.out \o SubSeq(buff, 1, BlockLen(rec.size, k))]
ExtractStates == [buff : Buffers, out : Seq(Int)]

\* What a block adds to the output
BlockAdded(rec, k, x, y) ==
  LET t == BlockLen(rec.size, k)
  IN  /\ t \in Nat /\ t <= SectorSize /\ Len(x.out) \in Nat
      /\ y \in ExtractStates /\ Len(y.out) = Len(x.out) + t
      /\ \A j \in 1 .. Len(x.out) : y.out[j] = x.out[j]
      /\ rec.extent + k - 1 <= Masters[disk.img].last =>
           \A j \in 1 .. t : y.out[Len(x.out) + j] = ByteAt(rec.extent + k - 1, j)

LEMMA BlockOfFile ==
  ASSUME disk.img \in DOMAIN Images, NEW rec, rec.extent \in Nat, rec.size \in Nat,
         NEW k \in 1 .. Sectors(rec.size), NEW x \in ExtractStates
  PROVE  BlockAdded(rec, k, x, ExtractStep(rec, k, x))
<1> DEFINE t == BlockLen(rec.size, k)
           at == rec.extent + k - 1
           buff == ReadBytes(disk.img, at, t, x.buff)
           more == SubSeq(buff, 1, t)
           y == ExtractStep(rec, k, x)
           L == Len(x.out)
<1>1. SectorSize \in Nat \ {0} /\ k \in Nat \ {0} /\ at \in Nat
  BY SectorSizeAssumption
<1>2. k <= (rec.size + SectorSize - 1) \div SectorSize
  <2>1. Sectors(rec.size) \in Nat
    BY SectorsEnough
  <2> QED BY <2>1 DEF Sectors
<1>3. t \in Nat /\ t <= SectorSize
  <2>1. (k - 1) * SectorSize \in Nat /\ (k - 1) * SectorSize < rec.size
    BY <1>1, <1>2, FullBefore
  <2> QED BY <1>1, <2>1 DEF BlockLen, Min2
<1>4. x.buff \in Buffers /\ x.out \in Seq(Int) /\ L \in Nat
  BY DEF ExtractStates
<1>5. y = [buff |-> buff, out |-> x.out \o more]
  BY DEF ExtractStep
<1> HIDE DEF t, at, y, L
<1>6. /\ buff \in Buffers
      /\ at <= Masters[disk.img].last =>
           \A i \in 1 .. SectorSize : i <= t => buff[i] = ByteAt(at, i)
  BY <1>1, <1>3, <1>4, BytesRead
<1> HIDE DEF buff
<1>7. \A i \in 1 .. t : buff[i] \in Int
  BY <1>1, <1>3, <1>6 DEF Buffers
<1>8. /\ more \in Seq(Int) /\ Len(more) = t
      /\ \A i \in 1 .. t : more[i] = buff[i]
  <2>1. /\ more \in Seq(Int)
        /\ Len(more) = IF 1 <= t THEN t - 1 + 1 ELSE 0
        /\ \A i \in 1 .. t - 1 + 1 : more[i] = buff[1 + i - 1]
    BY <1>3, <1>7, SubSeqProperties
  <2> QED BY <1>3, <2>1
<1> HIDE DEF more
<1> DEFINE z == x.out \o more
<1>9. /\ z \in Seq(Int) /\ Len(z) = L + t
      /\ \A j \in 1 .. L + t : z[j] = IF j <= L THEN x.out[j] ELSE more[j - L]
  BY <1>4, <1>8, ConcatProperties DEF L
<1>10. y.out = z /\ y.buff = buff /\ y \in ExtractStates
  BY <1>5, <1>6, <1>9 DEF ExtractStates
<1> HIDE DEF z
<1>11. \A j \in 1 .. L : y.out[j] = x.out[j]
  BY <1>3, <1>4, <1>9, <1>10
<1>12. ASSUME at <= Masters[disk.img].last, NEW j \in 1 .. t
       PROVE  y.out[L + j] = ByteAt(at, j)
  <2>1. L + j \in 1 .. L + t /\ ~(L + j <= L) /\ L + j - L = j
    BY <1>3, <1>4
  <2>2. y.out[L + j] = more[j]
    <3> DEFINE i == L + j
    <3>1. i \in 1 .. L + t /\ ~(i <= L) /\ i - L = j
      BY <1>3, <1>4
    <3> HIDE DEF i
    <3>2. z[i] = IF i <= L THEN x.out[i] ELSE more[i - L]
      BY <1>9, <3>1
    <3> QED BY <1>10, <3>1, <3>2 DEF i
  <2>3. j \in 1 .. SectorSize /\ j <= t
    BY <1>1, <1>3
  <2>4. more[j] = buff[j]
    BY <1>8
  <2>5. buff[j] = ByteAt(at, j)
    BY <1>6, <1>12, <2>3
  <2> QED BY <2>2, <2>4, <2>5
<1>13. /\ t \in Nat /\ t <= SectorSize /\ L \in Nat
       /\ y \in ExtractStates /\ Len(y.out) = L + t
  BY <1>3, <1>4, <1>9, <1>10
<1> QED BY <1>11, <1>12, <1>13 DEF BlockAdded, t, at, y, L

\* p is what there is after each block.
Extracts(rec, p) ==
  /\ p \in [0 .. Sectors(rec.size) -> ExtractStates] /\ p[0] = ExtractStart
  /\ \A k \in 1 .. Sectors(rec.size) : p[k] = ExtractStep(rec, k, p[k - 1])
  /\ ExtractFile(rec) = p[Sectors(rec.size)].out

LEMMA FileIsExtracted ==
  ASSUME disk.img \in DOMAIN Images, NEW rec, rec.extent \in Nat, rec.size \in Nat,
         rec.size < HighBit
  PROVE  \E p : Extracts(rec, p)
<1> DEFINE N == Sectors(rec.size)
           S == ExtractStates
           a == ExtractStart
           Step(k, x) == ExtractStep(rec, k, x)
           F == [k \in 1 .. N |-> [x \in S |-> Step(k, x)]]
           Body(f) == [k \in 0 .. N |-> IF k = 0 THEN a ELSE Step(k, f[k - 1])]
           p == CHOOSE f : f = Body(f)
<1>1. N \in Nat
  BY SectorsEnough
<1>2. ExtractFile(rec) = p[N].out
  BY DEF ExtractFile, ExtractStep, ExtractStart, BlockLen
<1>3. a \in S
  BY DEF ExtractStart, ExtractStates, NewBuffer, Junk, Buffers
<1>4. \A k \in 1 .. N, x \in S : Step(k, x) \in S
  BY BlockOfFile DEF BlockAdded
<1> HIDE DEF N, S, a, Step
<1>5. F \in Steps(N, S)
  BY <1>4 DEF Steps
<1>6. PICK f : f \in Recursive(N, S, a, F)
  <2> HIDE DEF F
  <2> QED BY <1>1, <1>3, <1>5, PrimitiveRecursion
<1>7. f = Body(f)
  <2>1. f \in [0 .. N -> S] /\ f[0] = a
    BY <1>6 DEF Recursive
  <2>2. \A k \in 1 .. N : f[k] = F[k][f[k - 1]]
    <3> HIDE DEF F
    <3> QED BY <1>6 DEF Recursive
  <2>3. \A k \in 1 .. N : f[k - 1] \in S
    BY <1>1, <2>1
  <2>4. \A k \in 1 .. N : f[k] = Step(k, f[k - 1])
    BY <2>2, <2>3
  <2> QED BY <1>1, <2>1, <2>4
<1>8. p = Body(p)
  BY <1>7
<1> HIDE DEF p
<1>9. p[0] = a /\ \A k \in 1 .. N : p[k] = Step(k, p[k - 1])
  BY <1>1, <1>8
<1>10. p = [k \in 0 .. N |-> p[k]]
       /\ \A k \in 1 .. N : p[k - 1] \in S => p[k] = F[k][p[k - 1]]
  <2>1. p = [k \in 0 .. N |-> p[k]]
    BY <1>8
  <2> QED BY <1>9, <2>1
<1>11. p \in Recursive(N, S, a, F)
  <2> HIDE DEF F
  <2> QED BY <1>1, <1>3, <1>5, <1>9, <1>10, RecursionMet
<1>12. p \in [0 .. N -> S]
  BY <1>11 DEF Recursive
<1>13. Extracts(rec, p)
  BY <1>2, <1>9, <1>12 DEF N, S, a, Step, Extracts
<1> QED BY <1>13

\* The bytes of a file
BytesOf(at, size) == [i \in 1 .. size |-> ByteAt(at, i)]

\* What isoinfo writes of a file: nothing if its length is below zero as an int
BytesWritten(at, size) == IF size < HighBit THEN BytesOf(at, size) ELSE <<>>

\* isoinfo writes all bytes of a file that lies within the image.
LEMMA FileBytes ==
  ASSUME disk.img \in DOMAIN Images, NEW rec, rec.extent \in Nat, rec.size \in Nat,
         rec.size < HighBit,
         rec.extent + Sectors(rec.size) - 1 <= Masters[disk.img].last
  PROVE  ExtractFile(rec) = BytesOf(rec.extent, rec.size)
<1> DEFINE N == Sectors(rec.size)
           S == SectorSize
           size == rec.size
           at == rec.extent
           end == Masters[disk.img].last
<1>1. N \in Nat /\ size <= N * S /\ S \in Nat \ {0} /\ end \in Nat
  BY SectorsEnough, SectorSizeAssumption, MasterTyped
<1>2. PICK p : Extracts(rec, p)
  BY FileIsExtracted
<1>3. /\ p \in [0 .. N -> ExtractStates] /\ p[0] = ExtractStart
      /\ \A k \in 1 .. N : p[k] = ExtractStep(rec, k, p[k - 1])
      /\ ExtractFile(rec) = p[N].out
  BY <1>2 DEF Extracts
<1> DEFINE Good(k) == /\ Len(p[k].out) = Min2(k * S, size)
                      /\ \A j \in 1 .. Len(p[k].out) : p[k].out[j] = ByteAt(at, j)
           T == {k \in 0 .. N : Good(k)}
<1>4. \A k \in 1 .. N : BlockAdded(rec, k, p[k - 1], p[k])
  <2> SUFFICES ASSUME NEW k \in 1 .. N PROVE BlockAdded(rec, k, p[k - 1], p[k])
    OBVIOUS
  <2>1. p[k - 1] \in ExtractStates
    BY <1>1, <1>3
  <2> QED BY <1>3, <2>1, BlockOfFile
<1>5. \A k \in 1 .. N : k <= (size + S - 1) \div S /\ k \in Nat \ {0}
  BY <1>1 DEF Sectors
<1> HIDE DEF N
<1>6. 0 \in T
  <2>1. Min2(0 * S, size) = 0
    BY <1>1 DEF Min2
  <2>2. p[0].out = <<>>
    BY <1>3 DEF ExtractStart
  <2>3. Len(p[0].out) = 0
    BY <2>2
  <2> QED BY <1>1, <2>1, <2>3
<1>7. ASSUME NEW h \in 0 .. N - 1, h \in T PROVE h + 1 \in T
  <2>1. PICK k \in 1 .. N : k = h + 1
    BY <1>1
  <2>2. k - 1 = h /\ h \in Nat /\ k \in Nat \ {0}
    BY <2>1
  <2> DEFINE x == p[h]
             y == p[k]
             t == BlockLen(size, k)
             A == (k - 1) * S
  <2>3. A \in Nat /\ A < size /\ k * S = A + S
    BY <1>1, <1>5, FullBefore
  <2>4. BlockAdded(rec, k, x, y)
    BY <1>4, <2>2
  <2> HIDE DEF x, y
  <2>5. /\ t \in Nat /\ Len(y.out) = Len(x.out) + t
        /\ \A j \in 1 .. Len(x.out) : y.out[j] = x.out[j]
        /\ at + k - 1 <= end =>
             \A j \in 1 .. t : y.out[Len(x.out) + j] = ByteAt(at + k - 1, j)
    BY <2>4 DEF BlockAdded
  <2>6. Good(h)
    BY <1>7
  <2>7. Len(x.out) = A /\ \A j \in 1 .. A : x.out[j] = ByteAt(at, j)
    <3>1. Min2(h * S, size) = A
      BY <2>2, <2>3 DEF Min2
    <3> QED BY <2>6, <3>1 DEF x
  <2>8. t = Min2(S, size - A) /\ A + t = Min2(k * S, size) /\ t <= S
    <3>1. t = Min2(S, size - A)
      BY DEF BlockLen
    <3> HIDE DEF A, t
    <3> QED BY <1>1, <2>3, <3>1 DEF Min2
  <2>9. at + k - 1 <= end
    BY <1>1, <2>2 DEF N
  <2>10. (at + k - 1) * S = at * S + A /\ at * S \in Nat
    BY <1>1, <2>2
  <2> HIDE DEF A, t
  <2>11. ASSUME NEW j \in 1 .. A + t PROVE y.out[j] = ByteAt(at, j)
    <3>1. CASE j <= A
      <4>1. j \in 1 .. A
        BY <2>3, <2>5, <3>1
      <4> QED BY <2>5, <2>7, <4>1
    <3>2. CASE j > A
      <4>1. PICK i \in 1 .. t : j = A + i
        <5>1. j - A \in 1 .. t /\ j = A + (j - A)
          BY <2>3, <2>5, <3>2
        <5> QED BY <5>1
      <4>2. y.out[j] = ByteAt(at + k - 1, i)
        BY <2>5, <2>7, <2>9, <4>1
      <4>3. ByteAt(at + k - 1, i) = ByteAt(at, j)
        BY <2>3, <2>10, <4>1 DEF ByteAt
      <4> QED BY <4>2, <4>3
    <3> QED BY <2>3, <2>5, <3>1, <3>2
  <2>12. Good(k)
    BY <2>5, <2>7, <2>8, <2>11 DEF y
  <2> QED BY <2>1, <2>12
<1> HIDE DEF T
<1>8. \A k \in 0 .. N : k \in T
  BY <1>1, <1>6, <1>7, BoundedInduction
<1>9. Good(N)
  <2>1. N \in 0 .. N
    BY <1>1
  <2>2. N \in T
    BY <1>8, <2>1
  <2> QED BY <2>2 DEF T
<1>10. Min2(N * S, size) = size
  <2>1. N * S \in Nat
    BY <1>1
  <2> QED BY <1>1, <2>1 DEF Min2
<1> DEFINE z == p[N].out
           b == BytesOf(at, size)
<1>11. z \in Seq(Int) /\ Len(z) = size /\ \A j \in 1 .. size : z[j] = ByteAt(at, j)
  <2>1. p[N] \in ExtractStates
    BY <1>1, <1>3
  <2> QED BY <1>9, <1>10, <2>1 DEF ExtractStates
<1> HIDE DEF z
<1>12. b \in Seq(Int) /\ Len(b) = size /\ \A j \in 1 .. size : b[j] = ByteAt(at, j)
  <2>1. at \in Nat /\ size \in Nat
    OBVIOUS
  <2> HIDE DEF at, size
  <2>2. \A j \in 1 .. size : ByteAt(at, j) \in Int
    BY <2>1, SectorSizeAssumption DEF ByteAt
  <2> QED BY <2>1, <2>2 DEF BytesOf
<1> HIDE DEF b
<1>13. z = b
  BY <1>11, <1>12, SeqEqual
<1> QED BY <1>3, <1>13 DEF z, b

LEMMA NothingToWrite ==
  ASSUME disk.img \in DOMAIN Images, NEW rec, rec.extent \in Nat, rec.size = 0
  PROVE  ExtractFile(rec) = <<>>
<1> DEFINE N == Sectors(rec.size)
<1>1. PICK p : Extracts(rec, p)
  <2>1. rec.size \in Nat /\ rec.size < HighBit
    BY HighBitAssumption
  <2> QED BY <2>1, FileIsExtracted
<1>2. N = 0
  <2>1. N \in Nat
    BY SectorsEnough
  <2>2. N * SectorSize <= 0 + SectorSize - 1
    <3> DEFINE q == SectorSize - 1
    <3>1. q \in Nat /\ 0 + SectorSize - 1 = q
      BY SectorSizeAssumption
    <3>2. N = q \div SectorSize
      BY <3>1 DEF Sectors
    <3> HIDE DEF q, N
    <3>3. q = N * SectorSize + (q % SectorSize) /\ (q % SectorSize) \in Nat
      <4>1. SectorSize \in Nat \ {0}
        BY SectorSizeAssumption
      <4>2. /\ q = (q \div SectorSize) * SectorSize + (q % SectorSize)
            /\ (q % SectorSize) \in 0 .. SectorSize - 1
        BY <3>1, <4>1, Divided
      <4> QED BY <3>2, <4>1, <4>2
    <3>4. N * SectorSize \in Int
      BY <2>1, SectorSizeAssumption
    <3> QED BY <3>1, <3>3, <3>4
  <2> HIDE DEF N
  <2>3. N * SectorSize < 1 * SectorSize
    BY <2>1, <2>2, SectorSizeAssumption
  <2>4. N < 1
    BY <2>1, <2>3, CancelFactor, SectorSizeAssumption
  <2> QED BY <2>1, <2>4
<1>3. ExtractFile(rec) = p[0].out /\ p[0] = ExtractStart
  BY <1>1, <1>2 DEF Extracts
<1> QED BY <1>3 DEF ExtractStart

-----------------------------------------------------------------------------
(* The places of files and directories, and their lines                     *)

\* A place is a directory and a number in it; B has the path of every directory
\* that has been met.
NodeAt(v, w) == NodesOf(Masters[v.img], w[1])[w[2]]
RawAt(v, w)  == Shows(v, NodeAt(v, w).id)
PathAt(v, B, w) == Below(B[w[1]], RawAt(v, w))
LineAt(v, B, w) == [name |-> PathAt(v, B, w), extent |-> NodeAt(v, w).at]

IsPlace(v, S, w) ==
  /\ w = <<w[1], w[2]>> /\ w[1] \in S /\ w[2] \in DOMAIN NodesOf(Masters[v.img], w[1])

\* The path of every directory that has been met leads to it.
PathsKnown(v, dirs, B) ==
  /\ DOMAIN B \subseteq dirs
  /\ \A e \in DOMAIN B : \E n : n.dir /\ n.at = e /\ LedTo(v, dirs, B[e], n)

IsLine(v, dirs, b, raw, node, l) ==
  /\ IsNode(v, dirs, node) /\ LedTo(v, dirs, l, node) /\ l # <<>>
  /\ raw = Shows(v, node.id) /\ raw \in Seq(Nat) /\ OneMore(b, l, raw)
  /\ l \in Seq(Nat) /\ Tail(l) \in Seq(Nat) /\ Components(Tail(l)) = Components(l)

LEMMA LineOfPlace ==
  ASSUME NEW v, NEW dirs, Listable(v, dirs), NEW B, PathsKnown(v, dirs, B),
         NEW w, IsPlace(v, DOMAIN B, w)
  PROVE  /\ IsLine(v, dirs, B[w[1]], RawAt(v, w), NodeAt(v, w), PathAt(v, B, w))
         /\ NodeAt(v, w) \in NodesIn(Masters[v.img], w[1])
<1> DEFINE e == w[1]
           k == w[2]
           node == NodeAt(v, w)
           raw == RawAt(v, w)
           l == PathAt(v, B, w)
<1>1. e \in DOMAIN B /\ k \in DOMAIN NodesOf(Masters[v.img], e) /\ e \in dirs
  BY DEF IsPlace, PathsKnown
<1>2. node \in NodesIn(Masters[v.img], e)
  BY <1>1 DEF NodesIn, Range, NodeAt
<1>3. PICK n : n.dir /\ n.at = e /\ LedTo(v, dirs, B[e], n)
  BY <1>1 DEF PathsKnown
<1>4. IsNode(v, dirs, node)
  BY <1>1, <1>2, IdentifierOfNode
<1>5. raw = Shows(v, node.id) /\ raw \in Seq(Nat)
  BY <1>4 DEF RawAt, IsNode, IsIdentifier
<1>6. l = Below(B[e], Shows(v, node.id))
  BY DEF PathAt, RawAt
<1> HIDE DEF node, raw, l, e
<1>7. LedTo(v, dirs, l, node) /\ l # <<>> /\ OneMore(B[e], l, raw)
  BY <1>2, <1>3, <1>5, <1>6, LineLeads
<1>8. l \in Seq(Nat) /\ l[1] = 92
  BY <1>7 DEF LedTo
<1>9. Tail(l) \in Seq(Nat) /\ Components(Tail(l)) = Components(l)
  BY <1>7, <1>8, ComponentsOfTail
<1>10. IsLine(v, dirs, B[e], raw, node, l)
  BY <1>4, <1>5, <1>7, <1>8, <1>9 DEF IsLine
<1> QED BY <1>2, <1>10 DEF e, raw, node, l

\* A path that is the same as a line leads to the node of the line.
LEMMA WantedNode ==
  ASSUME NEW v, NEW dirs, Listable(v, dirs), NEW b, NEW raw, NEW node, NEW l,
         IsLine(v, dirs, b, raw, node, l),
         NEW x \in Seq(Nat), SameName(x, Tail(l))
  PROVE  /\ NodeOf(Masters[v.img], v, Shown(x)) = node
         /\ AlikeSeqs(Components(x), Append(Components(b), raw))
<1>1. /\ v.img \in DOMAIN Images /\ v.iRootSize \in Nat
      /\ l \in Seq(Nat) /\ Tail(l) \in Seq(Nat) /\ Components(Tail(l)) = Components(l)
      /\ AllClean(l) /\ NodeOf(Masters[v.img], v, Shown(l)) = node
      /\ Components(l) = Append(Components(b), raw)
  BY DEF Listable, Written, IsLine, LedTo, OneMore
<1>2. AlikeSeqs(Components(x), Components(l))
  BY <1>1, PathsAlike
<1>3. SameName(Tail(l), x)
  BY <1>1, SameNameLaws
<1>4. AlikeSeqs(Components(l), Components(x))
  BY <1>1, <1>3, PathsAlike
<1>5. NodeOf(Masters[v.img], v, Shown(l)) = NodeOf(Masters[v.img], v, Shown(x))
  BY <1>1, <1>4, NodesAlike
<1> QED BY <1>1, <1>2, <1>5

\* Sequences of names that are the same as a third are the same.
LEMMA AlikeLaws ==
  ASSUME NEW p \in Seq(Seq(Nat)), NEW q \in Seq(Seq(Nat)), NEW r \in Seq(Seq(Nat)),
         AlikeSeqs(p, q), AlikeSeqs(p, r)
  PROVE  AlikeSeqs(q, r)
<1>1. Len(p) = Len(q) /\ Len(p) = Len(r) /\ Len(p) \in Nat
  BY DEF AlikeSeqs
<1>2. ASSUME NEW k \in 1 .. Len(p) PROVE SameName(q[k], r[k])
  <2> DEFINE S == Seq(Nat)
  <2>0. p \in Seq(S) /\ q \in Seq(S) /\ r \in Seq(S)
    OBVIOUS
  <2> HIDE DEF S
  <2>1. p[k] \in S /\ q[k] \in S /\ r[k] \in S
    <3>1. k \in 1 .. Len(q) /\ k \in 1 .. Len(r)
      BY <1>1
    <3>2. p[k] \in S
      BY <2>0, ElementOfSeq
    <3>3. q[k] \in S
      BY <2>0, <3>1, ElementOfSeq
    <3>4. r[k] \in S
      BY <2>0, <3>1, ElementOfSeq
    <3> QED BY <3>2, <3>3, <3>4
  <2> USE DEF S
  <2>2. SameName(p[k], q[k]) /\ SameName(p[k], r[k])
    BY <1>1 DEF AlikeSeqs
  <2>3. SameName(q[k], p[k])
    BY <2>1, <2>2, SameNameLaws
  <2> QED BY <2>1, <2>2, <2>3, SameNameLaws
<1> QED BY <1>1, <1>2 DEF AlikeSeqs

\* Only one line is the same as the path that is asked for.
LEMMA OneWanted ==
  ASSUME NEW v, NEW dirs, Listable(v, dirs), NEW B, PathsKnown(v, dirs, B),
         NEW w, IsPlace(v, DOMAIN B, w), NEW u, IsPlace(v, DOMAIN B, u),
         NEW x \in Seq(Nat),
         SameName(x, Tail(PathAt(v, B, w))), SameName(x, Tail(PathAt(v, B, u)))
  PROVE  w = u
<1> DEFINE a == B[w[1]]
           b == B[u[1]]
           s == RawAt(v, w)
           t == RawAt(v, u)
<1>1. /\ IsLine(v, dirs, a, s, NodeAt(v, w), PathAt(v, B, w))
      /\ IsLine(v, dirs, b, t, NodeAt(v, u), PathAt(v, B, u))
  BY LineOfPlace
<1>2. AlikeSeqs(Components(x), Append(Components(a), s))
  BY <1>1, WantedNode
<1>3. AlikeSeqs(Components(x), Append(Components(b), t))
  BY <1>1, WantedNode
<1>4. /\ a \in Seq(Nat) /\ b \in Seq(Nat) /\ s \in Seq(Nat) /\ t \in Seq(Nat)
      /\ Append(Components(a), s) = Components(PathAt(v, B, w))
      /\ Append(Components(b), t) = Components(PathAt(v, B, u))
      /\ PathAt(v, B, w) \in Seq(Nat) /\ PathAt(v, B, u) \in Seq(Nat)
  BY <1>1 DEF IsLine, OneMore
<1>5. w[1] \in DOMAIN B /\ u[1] \in DOMAIN B
  BY DEF IsPlace
<1>6. PICK n : n.dir /\ n.at = w[1] /\ LedTo(v, dirs, a, n)
  BY <1>5 DEF PathsKnown
<1>7. PICK k : k.dir /\ k.at = u[1] /\ LedTo(v, dirs, b, k)
  BY <1>5 DEF PathsKnown
<1> HIDE DEF a, b, s, t
<1>8. /\ Components(x) \in Seq(Seq(Nat))
      /\ Components(a) \in Seq(Seq(Nat)) /\ Components(b) \in Seq(Seq(Nat))
      /\ Append(Components(a), s) \in Seq(Seq(Nat))
      /\ Append(Components(b), t) \in Seq(Seq(Nat))
  BY <1>4, ComponentsTyped
<1>9. AlikeSeqs(Append(Components(a), s), Append(Components(b), t))
  BY <1>2, <1>3, <1>8, AlikeLaws
<1>10. AlikeSeqs(Components(a), Components(b)) /\ SameName(s, t)
  BY <1>4, <1>8, <1>9, AppendAlike
<1>11. w[1] = u[1]
  <2>1. /\ v.img \in DOMAIN Images /\ v.iRootSize \in Nat /\ AllClean(a)
        /\ NodeOf(Masters[v.img], v, Shown(a)) = n
        /\ NodeOf(Masters[v.img], v, Shown(b)) = k
    BY <1>6, <1>7 DEF Listable, Written, LedTo
  <2>2. NodeOf(Masters[v.img], v, Shown(a)) = NodeOf(Masters[v.img], v, Shown(b))
    BY <1>4, <1>10, <2>1, NodesAlike
  <2> QED BY <1>6, <1>7, <2>1, <2>2
<1>12. w[2] = u[2]
  <2> DEFINE nodes == NodesOf(Masters[v.img], w[1])
             i == w[2]
             j == u[2]
  <2>1. i \in DOMAIN nodes /\ j \in DOMAIN nodes /\ w[1] \in dirs
    BY <1>5, <1>11 DEF IsPlace, PathsKnown
  <2>2. NodeAt(v, w) = nodes[i] /\ NodeAt(v, u) = nodes[j]
    BY <1>11 DEF NodeAt
  <2>3. /\ BuildName(s, 2) = Shows(v, nodes[i].name)
        /\ BuildName(t, 2) = Shows(v, nodes[j].name)
    BY <1>1, <2>2 DEF IsLine, IsNode, IsIdentifier
  <2>4. SameName(BuildName(s, 2), BuildName(t, 2))
    BY <1>4, <1>10, BuildAlike
  <2>5. SameName(Shows(v, nodes[i].name), Shows(v, nodes[j].name))
    BY <2>3, <2>4
  <2>6. NamesTold(Masters[v.img], v, dirs)
    BY DEF Listable
  <2> QED BY <2>1, <2>5, <2>6 DEF NamesTold
<1> QED BY <1>11, <1>12 DEF IsPlace

-----------------------------------------------------------------------------
(* What isoinfo has listed so far, and what one more record adds            *)

\* The directories that have been met: the root, and only what is below it
DirsMet(v, dirs, B) ==
  /\ PathsKnown(v, dirs, B)
  /\ v.iRootExtent \in DOMAIN B
  /\ \A D \in SUBSET DOMAIN Masters[v.img].dirs :
       v.iRootExtent \in D /\ Closed(Masters[v.img], D) => DOMAIN B \subseteq D

\* The places that have been listed; those of directories have been met, and
\* every directory but the root has been met at one of them.
PlacesTaken(v, B, W) ==
  /\ IsFiniteSet(W)
  /\ \A w \in W : /\ IsPlace(v, DOMAIN B, w)
                  /\ NodeAt(v, w).dir => NodeAt(v, w).at \in DOMAIN B
  /\ \A e \in DOMAIN B :
       e = v.iRootExtent \/ \E w \in W : NodeAt(v, w).dir /\ NodeAt(v, w).at = e

\* The directories that are to be listed later, each once
ToDos == [name : Seq(Nat), extent : Nat, length : Nat]
Waiting(v, B, td) ==
  /\ td \in Seq(ToDos)
  /\ \A i \in 1 .. Len(td) :
       /\ td[i].extent \in DOMAIN B /\ td[i].name = B[td[i].extent] \o << 92 >>
       /\ IsDirAt(Masters[v.img], td[i].extent, td[i].length)
  /\ \A i, j \in 1 .. Len(td) : td[i].extent = td[j].extent => i = j

\* The others have been listed, the directory at now only up to its n-th node.
Waits(td, e) == \E i \in 1 .. Len(td) : td[i].extent = e
Listed(v, B, td, W, now, n) ==
  /\ ~Waits(td, now)
  /\ \A e \in DOMAIN B : \A k \in DOMAIN NodesOf(Masters[v.img], e) :
       <<e, k>> \in W <=> ~Waits(td, e) /\ (e = now => k <= n)

\* There is a line for every place.
PrintedLines == [name : Seq(Nat), extent : Nat]
LinesAre(v, B, W, pr) ==
  /\ pr \in Seq(PrintedLines) /\ Len(pr) = Cardinality(W)
  /\ \A i \in 1 .. Len(pr) : \E w \in W : pr[i] = LineAt(v, B, w)
  /\ \A w \in W : \E i \in 1 .. Len(pr) : pr[i] = LineAt(v, B, w)

\* What is written is the file whose line is asked for.
Wants(v, B, x, w) ==
  x # <<>> /\ ~NodeAt(v, w).dir /\ SameName(x, Tail(PathAt(v, B, w)))
BytesAt(v, w) == BytesWritten(NodeAt(v, w).at, NodeAt(v, w).size)
BytesAre(v, B, W, x, ex) ==
  /\ (\A w \in W : ~Wants(v, B, x, w)) => ex = <<>>
  /\ \A w \in W : Wants(v, B, x, w) => ex = BytesAt(v, w)

Listing(v, dirs, B, W, td, pr, x, ex, now, n) ==
  /\ Listable(v, dirs) /\ DirsMet(v, dirs, B) /\ PlacesTaken(v, B, W)
  /\ Waiting(v, B, td) /\ Listed(v, B, td, W, now, n)
  /\ LinesAre(v, B, W, pr) /\ x \in Seq(Nat) /\ BytesAre(v, B, W, x, ex)

\* One place more: a directory there is met.
Meets(v, dirs, B, W, w) ==
  /\ Listable(v, dirs) /\ DirsMet(v, dirs, B) /\ PlacesTaken(v, B, W)
  /\ IsPlace(v, DOMAIN B, w) /\ w \notin W
PathsWith(v, B, w) ==
  IF NodeAt(v, w).dir
  THEN [e \in DOMAIN B \cup {NodeAt(v, w).at} |->
          IF e = NodeAt(v, w).at THEN PathAt(v, B, w) ELSE B[e]]
  ELSE B

\* A directory is met at one place.
LEMMA NotMet ==
  ASSUME NEW v, NEW dirs, NEW B, NEW W, NEW w, Meets(v, dirs, B, W, w),
         NodeAt(v, w).dir
  PROVE  NodeAt(v, w).at \notin DOMAIN B
<1> DEFINE m == Masters[v.img]
           at == NodeAt(v, w).at
<1>1. EachInOne(m, v, dirs) /\ PathsKnown(v, dirs, B) /\ PlacesTaken(v, B, W)
      /\ w \notin W
  BY DEF Meets, Listable, DirsMet
<1>2. IsPlace(v, DOMAIN B, w)
  BY DEF Meets
<1>3. w[1] \in dirs /\ w[2] \in DOMAIN NodesOf(m, w[1]) /\ w = <<w[1], w[2]>>
  BY <1>1, <1>2 DEF IsPlace, PathsKnown
<1>4. at # v.iRootExtent
  BY <1>1, <1>3 DEF EachInOne, NodeAt
<1>5. ASSUME at \in DOMAIN B PROVE FALSE
  <2>1. PICK u \in W : NodeAt(v, u).dir /\ NodeAt(v, u).at = at
    BY <1>1, <1>4, <1>5 DEF PlacesTaken
  <2>2. IsPlace(v, DOMAIN B, u)
    BY <1>1 DEF PlacesTaken
  <2>3. u[1] \in dirs /\ u[2] \in DOMAIN NodesOf(m, u[1]) /\ u = <<u[1], u[2]>>
    BY <1>1, <2>2 DEF IsPlace, PathsKnown
  <2>4. w[1] = u[1] /\ w[2] = u[2]
    BY <1>1, <1>3, <2>1, <2>3 DEF EachInOne, NodeAt
  <2>5. w = u
    BY <1>3, <2>3, <2>4
  <2> QED BY <1>1, <2>5
<1> QED BY <1>5

\* What is known of the paths stays.
Extends(B, C) ==
  DOMAIN B \subseteq DOMAIN C /\ \A e \in DOMAIN B : C[e] = B[e]

LEMMA PathsGrow ==
  ASSUME NEW v, NEW dirs, NEW B, NEW W, NEW w, Meets(v, dirs, B, W, w)
  PROVE  /\ Extends(B, PathsWith(v, B, w))
         /\ DOMAIN PathsWith(v, B, w) =
              DOMAIN B \cup (IF NodeAt(v, w).dir THEN {NodeAt(v, w).at} ELSE {})
         /\ NodeAt(v, w).dir => PathsWith(v, B, w)[NodeAt(v, w).at] = PathAt(v, B, w)
<1> DEFINE at == NodeAt(v, w).at
           p == PathAt(v, B, w)
           C == PathsWith(v, B, w)
<1>1. CASE NodeAt(v, w).dir
  <2>1. at \notin DOMAIN B
    BY <1>1, NotMet
  <2>2. C = [e \in DOMAIN B \cup {at} |-> IF e = at THEN p ELSE B[e]]
    BY <1>1 DEF PathsWith
  <2> HIDE DEF at, p, C
  <2>3. Extends(B, C) /\ DOMAIN C = DOMAIN B \cup {at} /\ C[at] = p
    BY <2>1, <2>2 DEF Extends
  <2> QED BY <1>1, <2>3 DEF at, p, C
<1>2. CASE ~NodeAt(v, w).dir
  <2>1. C = B
    BY <1>2 DEF PathsWith
  <2> HIDE DEF C
  <2>2. Extends(B, C) /\ DOMAIN C = DOMAIN B
    BY <2>1 DEF Extends
  <2> QED BY <1>2, <2>2 DEF C
<1> QED BY <1>1, <1>2

LEMMA SamePath ==
  ASSUME NEW v, NEW B, NEW C, Extends(B, C), NEW u, IsPlace(v, DOMAIN B, u)
  PROVE  /\ IsPlace(v, DOMAIN C, u) /\ PathAt(v, C, u) = PathAt(v, B, u)
         /\ LineAt(v, C, u) = LineAt(v, B, u)
         /\ \A x : Wants(v, C, x, u) <=> Wants(v, B, x, u)
BY DEF Extends, IsPlace, PathAt, LineAt, Wants

LEMMA DirsMetWith ==
  ASSUME NEW v, NEW dirs, NEW B, NEW W, NEW w, Meets(v, dirs, B, W, w)
  PROVE  DirsMet(v, dirs, PathsWith(v, B, w))
<1> DEFINE m == Masters[v.img]
           node == NodeAt(v, w)
           at == node.at
           C == PathsWith(v, B, w)
           N == IF node.dir THEN {at} ELSE {}
<1>1. /\ Listable(v, dirs) /\ PathsKnown(v, dirs, B) /\ IsPlace(v, DOMAIN B, w)
      /\ v.iRootExtent \in DOMAIN B
      /\ \A D \in SUBSET DOMAIN m.dirs :
           v.iRootExtent \in D /\ Closed(m, D) => DOMAIN B \subseteq D
  BY DEF Meets, DirsMet
<1>2. /\ Extends(B, C) /\ DOMAIN C = DOMAIN B \cup N
      /\ node.dir => C[at] = PathAt(v, B, w)
  BY PathsGrow
<1>3. /\ node \in NodesIn(m, w[1]) /\ w[1] \in DOMAIN B
      /\ IsNode(v, dirs, node) /\ LedTo(v, dirs, PathAt(v, B, w), node)
  BY <1>1, LineOfPlace DEF IsLine, IsPlace
<1>4. node.dir => at \in dirs
  BY <1>3 DEF IsNode, Placed
<1>5. ASSUME NEW D \in SUBSET DOMAIN m.dirs, v.iRootExtent \in D, Closed(m, D)
      PROVE  DOMAIN C \subseteq D
  <2>1. DOMAIN B \subseteq D
    BY <1>1, <1>5
  <2>2. node.dir => at \in D
    BY <1>3, <1>5, <2>1 DEF Closed
  <2> QED BY <1>2, <2>1, <2>2
<1> HIDE DEF C, node
<1>6. ASSUME NEW e \in DOMAIN C
      PROVE  \E n : n.dir /\ n.at = e /\ LedTo(v, dirs, C[e], n)
  <2>1. CASE e \in DOMAIN B
    <3>1. PICK n : n.dir /\ n.at = e /\ LedTo(v, dirs, B[e], n)
      BY <1>1, <2>1 DEF PathsKnown
    <3>2. C[e] = B[e]
      BY <1>2, <2>1 DEF Extends
    <3> QED BY <3>1, <3>2
  <2>2. CASE e \notin DOMAIN B
    <3>1. node.dir /\ e = at
      BY <1>2, <1>6, <2>2
    <3>2. C[e] = PathAt(v, B, w)
      BY <1>2, <3>1
    <3>3. node.dir /\ node.at = e /\ LedTo(v, dirs, C[e], node)
      BY <1>3, <3>1, <3>2
    <3> QED BY <3>3
  <2> QED BY <2>1, <2>2
<1>7. PathsKnown(v, dirs, C)
  BY <1>1, <1>2, <1>4, <1>6 DEF PathsKnown
<1> QED BY <1>1, <1>2, <1>5, <1>7 DEF DirsMet, C

LEMMA PlacesWith ==
  ASSUME NEW v, NEW dirs, NEW B, NEW W, NEW w, Meets(v, dirs, B, W, w)
  PROVE  PlacesTaken(v, PathsWith(v, B, w), W \cup {w})
<1> DEFINE node == NodeAt(v, w)
           at == node.at
           C == PathsWith(v, B, w)
           N == IF node.dir THEN {at} ELSE {}
           X == W \cup {w}
<1>1. /\ PlacesTaken(v, B, W) /\ IsPlace(v, DOMAIN B, w)
      /\ Extends(B, C) /\ DOMAIN C = DOMAIN B \cup N
  <2>1. PlacesTaken(v, B, W) /\ IsPlace(v, DOMAIN B, w)
    BY DEF Meets
  <2>2. Extends(B, C) /\ DOMAIN C = DOMAIN B \cup N
    BY PathsGrow
  <2> QED BY <2>1, <2>2
<1>2. IsFiniteSet(X)
  BY <1>1, FS_AddElement DEF PlacesTaken
<1> HIDE DEF C
<1>3. ASSUME NEW u \in X
      PROVE  /\ IsPlace(v, DOMAIN C, u)
             /\ NodeAt(v, u).dir => NodeAt(v, u).at \in DOMAIN C
  <2>1. IsPlace(v, DOMAIN B, u)
    BY <1>1 DEF PlacesTaken
  <2>2. IsPlace(v, DOMAIN C, u)
    BY <1>1, <2>1, SamePath
  <2>3. NodeAt(v, u).dir => NodeAt(v, u).at \in DOMAIN C
    BY <1>1 DEF PlacesTaken
  <2> QED BY <2>2, <2>3
<1>4. ASSUME NEW e \in DOMAIN C
      PROVE  e = v.iRootExtent \/ \E u \in X : NodeAt(v, u).dir /\ NodeAt(v, u).at = e
  <2>1. e \in DOMAIN B \/ (node.dir /\ e = at)
    BY <1>1
  <2> QED BY <1>1, <2>1 DEF PlacesTaken
<1> QED BY <1>2, <1>3, <1>4 DEF PlacesTaken, C

\* The list of directories, with the one that is met
ToDoAt(v, B, w) == [name |-> PathAt(v, B, w) \o << 92 >>,
                    extent |-> NodeAt(v, w).at, length |-> NodeAt(v, w).size]
ToDoWith(v, B, w, td) ==
  IF NodeAt(v, w).dir THEN Append(td, ToDoAt(v, B, w)) ELSE td

LEMMA WaitingWith ==
  ASSUME NEW v, NEW dirs, NEW B, NEW W, NEW w, Meets(v, dirs, B, W, w),
         NEW td, Waiting(v, B, td)
  PROVE  /\ Waiting(v, PathsWith(v, B, w), ToDoWith(v, B, w, td))
         /\ \A e : Waits(ToDoWith(v, B, w, td), e) <=>
                     Waits(td, e) \/ (NodeAt(v, w).dir /\ NodeAt(v, w).at = e)
<1> DEFINE m == Masters[v.img]
           node == NodeAt(v, w)
           at == node.at
           C == PathsWith(v, B, w)
           l == PathAt(v, B, w)
           z == ToDoAt(v, B, w)
           n == Len(td)
<1>1. /\ td \in Seq(ToDos) /\ n \in Nat
      /\ \A i \in 1 .. n :
           /\ td[i].extent \in DOMAIN B /\ td[i].name = B[td[i].extent] \o << 92 >>
           /\ IsDirAt(m, td[i].extent, td[i].length)
      /\ \A i, j \in 1 .. n : td[i].extent = td[j].extent => i = j
  <2>1. td \in Seq(ToDos)
    BY DEF Waiting
  <2>2. n \in Nat
    BY <2>1
  <2> QED BY <2>1, <2>2 DEF Waiting
<1>2. /\ Extends(B, C)
      /\ node.dir => DOMAIN C = DOMAIN B \cup {at} /\ C[at] = l
  BY PathsGrow
<1>3. CASE ~node.dir
  <2>1. C = B /\ ToDoWith(v, B, w, td) = td
    BY <1>3 DEF PathsWith, ToDoWith
  <2> HIDE DEF C, node, at
  <2> QED BY <1>3, <2>1 DEF C, node
<1>4. CASE node.dir
  <2>1. at \notin DOMAIN B
    BY <1>4, NotMet
  <2>2. Listable(v, dirs) /\ PathsKnown(v, dirs, B) /\ IsPlace(v, DOMAIN B, w)
    BY DEF Meets, DirsMet
  <2>3. IsNode(v, dirs, node) /\ l \in Seq(Nat)
    BY <2>2, LineOfPlace DEF IsLine
  <2>4. IsDirAt(m, at, node.size) /\ at \in Nat /\ node.size \in Nat
    BY <1>4, <2>3 DEF IsNode, Placed
  <2>5. z = [name |-> l \o << 92 >>, extent |-> at, length |-> node.size]
    BY DEF ToDoAt
  <2>6. l \o << 92 >> \in Seq(Nat)
    BY <2>3
  <2> DEFINE t == Append(td, z)
  <2>7. ToDoWith(v, B, w, td) = t
    BY <1>4 DEF ToDoWith
  <2> HIDE DEF z, l, C, node, at, m, n
  <2>8. z \in ToDos
    BY <2>4, <2>5, <2>6 DEF ToDos
  <2>9. /\ t \in Seq(ToDos) /\ Len(t) = n + 1 /\ t[n + 1] = z
        /\ \A i \in 1 .. n : t[i] = td[i]
    BY <1>1, <2>8, AppendProperties DEF n
  <2> HIDE DEF t
  <2>10. \A i \in 1 .. n + 1 : i \in 1 .. n \/ i = n + 1
    BY <1>1
  <2>11. z.extent = at /\ z.name = l \o << 92 >> /\ z.length = node.size
    BY <2>5
  <2>12. ASSUME NEW i \in 1 .. Len(t)
         PROVE  /\ t[i].extent \in DOMAIN C /\ t[i].name = C[t[i].extent] \o << 92 >>
                /\ IsDirAt(m, t[i].extent, t[i].length)
    <3>1. CASE i \in 1 .. n
      <4>1. t[i] = td[i] /\ td[i].extent \in DOMAIN B
        BY <1>1, <2>9, <3>1
      <4>2. td[i].extent \in DOMAIN C /\ C[td[i].extent] = B[td[i].extent]
        BY <1>2, <4>1 DEF Extends
      <4>3. td[i].name = B[td[i].extent] \o << 92 >> /\ IsDirAt(m, td[i].extent, td[i].length)
        BY <1>1, <3>1
      <4> QED BY <4>1, <4>2, <4>3
    <3>2. CASE i = n + 1
      <4>1. t[i] = z
        BY <2>9, <3>2
      <4> QED BY <1>2, <1>4, <2>4, <2>11, <4>1
    <3> QED BY <2>9, <2>10, <3>1, <3>2
  <2>13. ASSUME NEW i \in 1 .. Len(t), NEW j \in 1 .. Len(t), t[i].extent = t[j].extent
         PROVE  i = j
    <3>1. \A h \in 1 .. n : t[h].extent # at
      BY <1>1, <2>1, <2>9
    <3>2. t[n + 1].extent = at
      BY <2>9, <2>11
    <3>3. (i \in 1 .. n \/ i = n + 1) /\ (j \in 1 .. n \/ j = n + 1)
      BY <2>9, <2>10
    <3>4. i \in 1 .. n /\ j \in 1 .. n => i = j
      BY <1>1, <2>9, <2>13
    <3> QED BY <2>13, <3>1, <3>2, <3>3, <3>4
  <2>14. Waiting(v, C, t)
    BY <2>9, <2>12, <2>13 DEF Waiting, m
  <2>15. ASSUME NEW e
         PROVE  Waits(t, e) <=> Waits(td, e) \/ at = e
    <3>1. Waits(t, e) => Waits(td, e) \/ at = e
      BY <2>9, <2>10, <2>11 DEF Waits, n
    <3>2. n + 1 \in 1 .. Len(t) /\ (\A i \in 1 .. n : i \in 1 .. Len(t))
      BY <1>1, <2>9
    <3>3. at = e => Waits(t, e)
      BY <2>9, <2>11, <3>2 DEF Waits
    <3>4. Waits(td, e) => Waits(t, e)
      BY <2>9, <3>2 DEF Waits, n
    <3> QED BY <3>1, <3>3, <3>4
  <2> QED BY <1>4, <2>7, <2>14, <2>15 DEF C, node, at
<1> QED BY <1>3, <1>4

LEMMA ListedWith ==
  ASSUME NEW v, NEW dirs, NEW B, NEW W, NEW w, Meets(v, dirs, B, W, w),
         NEW td, Waiting(v, B, td), NEW n \in Nat, w[2] = n + 1,
         Listed(v, B, td, W, w[1], n)
  PROVE  Listed(v, PathsWith(v, B, w), ToDoWith(v, B, w, td), W \cup {w}, w[1], n + 1)
<1> DEFINE m == Masters[v.img]
           node == NodeAt(v, w)
           at == node.at
           C == PathsWith(v, B, w)
           t == ToDoWith(v, B, w, td)
           N == IF node.dir THEN {at} ELSE {}
<1>1. \A e : Waits(t, e) <=> Waits(td, e) \/ (node.dir /\ at = e)
  BY WaitingWith
<1>2. DOMAIN C = DOMAIN B \cup N
  BY PathsGrow
<1>3. node.dir => at \notin DOMAIN B
  BY NotMet
<1>4. /\ IsPlace(v, DOMAIN B, w) /\ \A u \in W : IsPlace(v, DOMAIN B, u)
  BY DEF Meets, PlacesTaken
<1>5. w = <<w[1], w[2]>> /\ w[1] \in DOMAIN B
      /\ \A u \in W : u[1] \in DOMAIN B
  BY <1>4 DEF IsPlace
<1> HIDE DEF t, C, node, at
<1>6. ASSUME NEW e \in DOMAIN C, NEW k \in DOMAIN NodesOf(m, e)
      PROVE  <<e, k>> \in W \cup {w} <=> ~Waits(t, e) /\ (e = w[1] => k <= n + 1)
  <2>1. <<e, k>> = w <=> e = w[1] /\ k = n + 1
    BY <1>5
  <2>2. CASE e \in DOMAIN B
    <3>1. <<e, k>> \in W <=> ~Waits(td, e) /\ (e = w[1] => k <= n)
      BY <2>2 DEF Listed
    <3>2. Waits(t, e) <=> Waits(td, e)
      BY <1>1, <1>3, <2>2
    <3>3. e = w[1] => k \in Nat
      <4>1. NodesOf(m, e) \in Seq(Nodes)
        BY NodesTyped DEF Meets, Listable, Written
      <4> QED BY <4>1
    <3>4. e = w[1] => ~Waits(td, e)
      BY DEF Listed
    <3> QED BY <2>1, <3>1, <3>2, <3>3, <3>4
  <2>3. CASE e \notin DOMAIN B
    <3>1. node.dir /\ e = at
      BY <1>2, <1>6, <2>3
    <3>2. Waits(t, e)
      BY <1>1, <3>1
    <3>3. <<e, k>> \notin W
      <4>1. <<e, k>>[1] = e
        OBVIOUS
      <4> QED BY <1>5, <2>3, <4>1
    <3>4. e # w[1]
      BY <1>5, <2>3
    <3> QED BY <2>1, <3>2, <3>3, <3>4
  <2> QED BY <2>2, <2>3
<1>7. ~Waits(t, w[1])
  BY <1>1, <1>3, <1>5 DEF Listed
<1> QED BY <1>6, <1>7 DEF Listed, m, t, C

LEMMA LinesWith ==
  ASSUME NEW v, NEW dirs, NEW B, NEW W, NEW w, Meets(v, dirs, B, W, w),
         NEW pr, LinesAre(v, B, W, pr)
  PROVE  LinesAre(v, PathsWith(v, B, w), W \cup {w}, Append(pr, LineAt(v, B, w)))
<1> DEFINE C == PathsWith(v, B, w)
           z == LineAt(v, B, w)
           n == Len(pr)
           q == Append(pr, z)
           X == W \cup {w}
<1>1. /\ pr \in Seq(PrintedLines) /\ n = Cardinality(W)
      /\ \A i \in 1 .. n : \E u \in W : pr[i] = LineAt(v, B, u)
      /\ \A u \in W : \E i \in 1 .. n : pr[i] = LineAt(v, B, u)
  BY DEF LinesAre
<1>2. n \in Nat
  BY <1>1
<1>3. Extends(B, C)
  BY PathsGrow
<1>4. /\ Listable(v, dirs) /\ PathsKnown(v, dirs, B) /\ w \notin W /\ IsFiniteSet(W)
      /\ \A u \in X : IsPlace(v, DOMAIN B, u)
  BY DEF Meets, DirsMet, PlacesTaken
<1>5. \A u \in X : LineAt(v, C, u) = LineAt(v, B, u)
  BY <1>3, <1>4, SamePath
<1>6. z \in PrintedLines
  <2>1. IsLine(v, dirs, B[w[1]], RawAt(v, w), NodeAt(v, w), PathAt(v, B, w))
    BY <1>4, LineOfPlace
  <2>2. PathAt(v, B, w) \in Seq(Nat) /\ NodeAt(v, w).at \in Nat
    BY <2>1 DEF IsLine, IsNode, Placed
  <2> QED BY <2>2 DEF LineAt, PrintedLines
<1>7. Cardinality(X) = n + 1
  BY <1>1, <1>4, FS_AddElement
<1> HIDE DEF z, n, C
<1>8. /\ q \in Seq(PrintedLines) /\ Len(q) = n + 1 /\ q[n + 1] = z
      /\ \A i \in 1 .. n : q[i] = pr[i]
  BY <1>1, <1>6, AppendProperties DEF n
<1> HIDE DEF q
<1>9. ASSUME NEW i \in 1 .. Len(q) PROVE \E u \in X : q[i] = LineAt(v, C, u)
  <2>1. CASE i \in 1 .. n
    <3>1. PICK u \in W : pr[i] = LineAt(v, B, u)
      BY <1>1, <2>1
    <3>2. u \in X /\ q[i] = LineAt(v, C, u)
      BY <1>5, <1>8, <2>1, <3>1
    <3> QED BY <3>2
  <2>2. CASE i = n + 1
    <3>1. w \in X /\ q[i] = LineAt(v, C, w)
      BY <1>5, <1>8, <2>2 DEF z
    <3> QED BY <3>1
  <2> QED BY <1>2, <1>8, <2>1, <2>2
<1>10. ASSUME NEW u \in X PROVE \E i \in 1 .. Len(q) : q[i] = LineAt(v, C, u)
  <2>1. CASE u \in W
    <3>1. PICK i \in 1 .. n : pr[i] = LineAt(v, B, u)
      BY <1>1, <2>1
    <3>2. i \in 1 .. Len(q) /\ q[i] = LineAt(v, C, u)
      BY <1>2, <1>5, <1>8, <3>1
    <3> QED BY <3>2
  <2>2. CASE u = w
    <3>1. n + 1 \in 1 .. Len(q) /\ q[n + 1] = LineAt(v, C, u)
      BY <1>2, <1>5, <1>8, <2>2 DEF z
    <3> QED BY <3>1
  <2> QED BY <2>1, <2>2
<1> QED BY <1>7, <1>8, <1>9, <1>10 DEF LinesAre, q, C, z

LEMMA BytesTyped ==
  ASSUME NEW at \in Nat, NEW size \in Nat
  PROVE  /\ BytesWritten(at, size) \in Seq(Int)
         /\ <<>> \o BytesWritten(at, size) = BytesWritten(at, size)
<1> DEFINE b == BytesWritten(at, size)
<1>1. b \in Seq(Int)
  <2>1. BytesOf(at, size) \in Seq(Int)
    BY SectorSizeAssumption DEF BytesOf, ByteAt
  <2> QED BY <2>1 DEF BytesWritten
<1> HIDE DEF b
<1>2. <<>> \o b = b
  BY <1>1
<1> QED BY <1>1, <1>2 DEF b

LEMMA BytesWith ==
  ASSUME NEW v, NEW dirs, NEW B, NEW W, NEW w, Meets(v, dirs, B, W, w),
         NEW x \in Seq(Nat), NEW ex, BytesAre(v, B, W, x, ex)
  PROVE  BytesAre(v, PathsWith(v, B, w), W \cup {w}, x,
                  IF Wants(v, B, x, w) THEN ex \o BytesAt(v, w) ELSE ex)
<1> DEFINE C == PathsWith(v, B, w)
           X == W \cup {w}
           y == IF Wants(v, B, x, w) THEN ex \o BytesAt(v, w) ELSE ex
<1>1. Extends(B, C)
  BY PathsGrow
<1>2. /\ Listable(v, dirs) /\ PathsKnown(v, dirs, B) /\ w \notin W
      /\ \A u \in X : IsPlace(v, DOMAIN B, u)
  BY DEF Meets, DirsMet, PlacesTaken
<1>3. \A u \in X : Wants(v, C, x, u) <=> Wants(v, B, x, u)
  BY <1>1, <1>2, SamePath
<1>4. /\ (\A u \in W : ~Wants(v, B, x, u)) => ex = <<>>
      /\ \A u \in W : Wants(v, B, x, u) => ex = BytesAt(v, u)
  BY DEF BytesAre
<1> HIDE DEF C
<1>5. CASE Wants(v, B, x, w)
  <2>1. ASSUME NEW u \in X, Wants(v, B, x, u) PROVE u = w
    <3>1. SameName(x, Tail(PathAt(v, B, u))) /\ SameName(x, Tail(PathAt(v, B, w)))
      BY <1>5, <2>1 DEF Wants
    <3>2. IsPlace(v, DOMAIN B, u) /\ IsPlace(v, DOMAIN B, w)
      BY <1>2
    <3> QED BY <1>2, <3>1, <3>2, OneWanted
  <2>2. ex = <<>>
    BY <1>2, <1>4, <2>1
  <2>3. y = BytesAt(v, w)
    <3>1. IsLine(v, dirs, B[w[1]], RawAt(v, w), NodeAt(v, w), PathAt(v, B, w))
      BY <1>2, LineOfPlace
    <3>2. NodeAt(v, w).size \in Nat /\ NodeAt(v, w).at \in Nat
      BY <3>1 DEF IsLine, IsNode, Placed
    <3>3. <<>> \o BytesAt(v, w) = BytesAt(v, w)
      BY <3>2, BytesTyped DEF BytesAt
    <3> QED BY <1>5, <2>2, <3>3
  <2> HIDE DEF y
  <2>4. \A u \in X : Wants(v, C, x, u) => y = BytesAt(v, u)
    BY <1>3, <2>1, <2>3
  <2>5. Wants(v, C, x, w) /\ w \in X
    BY <1>3, <1>5
  <2> QED BY <2>4, <2>5 DEF BytesAre, C, y
<1>6. CASE ~Wants(v, B, x, w)
  <2>1. y = ex
    BY <1>6
  <2> HIDE DEF y
  <2>2. (\A u \in X : ~Wants(v, C, x, u)) => y = <<>>
    BY <1>3, <1>4, <2>1
  <2>3. \A u \in X : Wants(v, C, x, u) => y = BytesAt(v, u)
    BY <1>3, <1>4, <1>6, <2>1
  <2> QED BY <2>2, <2>3 DEF BytesAre, C, y
<1> QED BY <1>5, <1>6

\* What is listed with one place more
LEMMA ListingWith ==
  ASSUME NEW v, NEW dirs, NEW B, NEW W, NEW td, NEW pr, NEW x, NEW ex, NEW now,
         NEW n \in Nat, Listing(v, dirs, B, W, td, pr, x, ex, now, n),
         NEW w, w = <<now, n + 1>>, IsPlace(v, DOMAIN B, w)
  PROVE  Listing(v, dirs, PathsWith(v, B, w), W \cup {w}, ToDoWith(v, B, w, td),
                 Append(pr, LineAt(v, B, w)), x,
                 IF Wants(v, B, x, w) THEN ex \o BytesAt(v, w) ELSE ex, now, n + 1)
<1>1. /\ Listable(v, dirs) /\ DirsMet(v, dirs, B) /\ PlacesTaken(v, B, W)
      /\ Waiting(v, B, td) /\ Listed(v, B, td, W, now, n)
      /\ LinesAre(v, B, W, pr) /\ x \in Seq(Nat) /\ BytesAre(v, B, W, x, ex)
  BY DEF Listing
<1>2. w[1] = now /\ w[2] = n + 1
  OBVIOUS
<1>3. now \in DOMAIN B /\ n + 1 \in DOMAIN NodesOf(Masters[v.img], now)
  BY <1>2 DEF IsPlace
<1>4. w \notin W
  <2>1. ~(n + 1 <= n)
    OBVIOUS
  <2>2. <<now, n + 1>> \in W <=> ~Waits(td, now) /\ (now = now => n + 1 <= n)
    BY <1>1, <1>3 DEF Listed
  <2> QED BY <2>1, <2>2
<1>5. Meets(v, dirs, B, W, w)
  BY <1>1, <1>4 DEF Meets
<1>6. DirsMet(v, dirs, PathsWith(v, B, w))
  BY <1>5, DirsMetWith
<1>7. PlacesTaken(v, PathsWith(v, B, w), W \cup {w})
  BY <1>5, PlacesWith
<1>8. Waiting(v, PathsWith(v, B, w), ToDoWith(v, B, w, td))
  BY <1>1, <1>5, WaitingWith
<1>9. Listed(v, B, td, W, w[1], n)
  BY <1>1, <1>2
<1>10. Listed(v, PathsWith(v, B, w), ToDoWith(v, B, w, td), W \cup {w}, w[1], n + 1)
  BY <1>1, <1>2, <1>5, <1>9, ListedWith
<1>11. LinesAre(v, PathsWith(v, B, w), W \cup {w}, Append(pr, LineAt(v, B, w)))
  BY <1>1, <1>5, LinesWith
<1>12. BytesAre(v, PathsWith(v, B, w), W \cup {w}, x,
                IF Wants(v, B, x, w) THEN ex \o BytesAt(v, w) ELSE ex)
  BY <1>1, <1>5, BytesWith
<1>13. Listed(v, PathsWith(v, B, w), ToDoWith(v, B, w, td), W \cup {w}, now, n + 1)
  BY <1>2, <1>10
<1> QED BY <1>1, <1>6, <1>7, <1>8, <1>11, <1>12, <1>13 DEF Listing

-----------------------------------------------------------------------------
(* A directory is listed                                                    *)

\* g is what has been found after each record of a directory.
TakesAll(td, recs, a, g) ==
  g[0] = a /\ \A k \in 1 .. Len(recs) : g[k] = Taken(td, recs[k], g[k - 1])

LEMMA RecordsAreTaken ==
  ASSUME NEW td, NEW recs, Len(recs) \in Nat, NEW a
  PROVE  LET loop[k \in 0 .. Len(recs)] ==
               IF k = 0 THEN a ELSE Taken(td, recs[k], loop[k - 1])
         IN  TakesAll(td, recs, a, loop)
<1> DEFINE N == Len(recs)
           Step(k, y) == Taken(td, recs[k], y)
           Body(f) == [k \in 0 .. N |-> IF k = 0 THEN a ELSE Step(k, f[k - 1])]
           Up(g, n) == g[0] = a /\ \A k \in 1 .. n : g[k] = Step(k, g[k - 1])
           T == {n \in 0 .. N : \E g : Up(g, n)}
           p == CHOOSE f : f = Body(f)
<1> HIDE DEF N, Step
<1>0. N \in Nat
  BY DEF N
<1>1. 0 \in T
  <2> DEFINE g == [k \in {0} |-> a]
  <2>1. Up(g, 0)
    OBVIOUS
  <2>2. 0 \in 0 .. N
    BY <1>0
  <2> HIDE DEF g, Up
  <2> QED BY <2>1, <2>2
<1>2. ASSUME NEW n \in 0 .. N - 1, n \in T PROVE n + 1 \in T
  <2>1. PICK g : Up(g, n)
    BY <1>2
  <2> DEFINE h == [k \in 0 .. n + 1 |-> IF k <= n THEN g[k] ELSE Step(n + 1, g[n])]
  <2>2. h[0] = a
    BY <2>1
  <2>3. ASSUME NEW k \in 1 .. n + 1 PROVE h[k] = Step(k, h[k - 1])
    <3>1. k - 1 \in 0 .. n /\ h[k - 1] = g[k - 1]
      OBVIOUS
    <3>2. CASE k = n + 1
      <4>1. h[k] = Step(n + 1, g[n]) /\ k - 1 = n
        BY <3>2
      <4> QED BY <3>1, <3>2, <4>1
    <3>3. CASE k # n + 1
      <4>1. k \in 1 .. n /\ h[k] = g[k]
        BY <3>3
      <4>2. g[k] = Step(k, g[k - 1])
        BY <2>1, <4>1
      <4> QED BY <3>1, <4>1, <4>2
    <3> QED BY <3>2, <3>3
  <2> HIDE DEF h
  <2>4. Up(h, n + 1)
    BY <2>2, <2>3
  <2>5. n + 1 \in 0 .. N
    BY <1>0
  <2> HIDE DEF Up
  <2> QED BY <2>4, <2>5
<1>3. \A n \in 0 .. N : n \in T
  <2> HIDE DEF T
  <2> QED BY <1>0, <1>1, <1>2, BoundedInduction
<1>4. PICK g : Up(g, N)
  <2>1. N \in T
    BY <1>0, <1>3
  <2> HIDE DEF Up
  <2> QED BY <2>1
<1> DEFINE f == [k \in 0 .. N |-> g[k]]
<1>5. \A k \in 1 .. N : k - 1 \in 0 .. N
  BY <1>0
<1>6. f = Body(f)
  <2>1. \A k \in 0 .. N : f[k] = IF k = 0 THEN a ELSE Step(k, f[k - 1])
    BY <1>0, <1>4, <1>5
  <2> QED BY <2>1
<1>7. p = Body(p)
  <2> HIDE DEF f
  <2> QED BY <1>6
<1> HIDE DEF p
<1>8. p[0] = a /\ \A k \in 1 .. N : p[k] = Step(k, p[k - 1])
  BY <1>0, <1>7
<1>9. TakesAll(td, recs, a, p)
  BY <1>8 DEF TakesAll, N, Step
<1> QED BY <1>9 DEF p, Step, N

\* What . and .. are read as changes nothing.
LEMMA SpecialTaken ==
  ASSUME disk.img \in DOMAIN Images, NEW td, NEW kind \in {"self", "parent"},
         NEW at \in Nat, NEW got, got.extracted \in Seq(Int),
         got = [todo |-> got.todo, printed |-> got.printed,
                extracted |-> got.extracted]
  PROVE  Taken(td, Special(kind, at), got) = got
<1> DEFINE r == Special(kind, at)
<1>1. r.kind # "named" /\ r.extent = at /\ r.size = 0
  BY DEF Special
<1> HIDE DEF r
<1>2. ExtractFile(r) = <<>>
  BY <1>1, NothingToWrite
<1>3. got.extracted \o ExtractFile(r) = got.extracted
  BY <1>2
<1> DEFINE t == got.todo
           p == got.printed
           e == got.extracted
<1> HIDE DEF t, p, e
<1>4. Taken(td, r, got) = [todo |-> t, printed |-> p, extracted |-> e]
  BY <1>1, <1>3 DEF Taken, t, p, e
<1> QED BY <1>4 DEF r, t, p, e

\* What a file or directory is read as
LEMMA NodeTaken ==
  ASSUME NEW dirs, Listable(disk, dirs), NEW B, PathsKnown(disk, dirs, B),
         NEW w, IsPlace(disk, DOMAIN B, w), NEW got,
         NEW td, td.name = B[w[1]] \o << 92 >>
  PROVE  Taken(td, RecordOf(Masters[disk.img], NodeAt(disk, w)), got) =
           [todo |-> ToDoWith(disk, B, w, got.todo),
            printed |-> Append(got.printed, LineAt(disk, B, w)),
            extracted |-> IF Wants(disk, B, opt.x, w)
                          THEN got.extracted \o BytesAt(disk, w) ELSE got.extracted]
<1> DEFINE m == Masters[disk.img]
           node == NodeAt(disk, w)
           r == RecordOf(m, node)
           l == PathAt(disk, B, w)
           raw == RawName(disk, r)
           t == ToDoWith(disk, B, w, got.todo)
           p == Append(got.printed, LineAt(disk, B, w))
           e == IF Wants(disk, B, opt.x, w)
                THEN got.extracted \o BytesAt(disk, w) ELSE got.extracted
<1>1. /\ Written(disk, dirs) /\ disk.img \in DOMAIN Images
      /\ TableExact(m, disk) /\ disk.ucs_level \in Nat /\ disk.high_sierra = HS(m)
      /\ FilesWithin(m, dirs)
  BY DEF Listable, Written, WrittenFor
<1>2. /\ IsNode(disk, dirs, node) /\ l \in Seq(Nat) /\ w[1] \in dirs
      /\ node \in NodesIn(m, w[1])
  <2>1. w[1] \in dirs
    BY DEF IsPlace, PathsKnown
  <2> QED BY <2>1, LineOfPlace DEF IsLine
<1>3. /\ node \in Nodes /\ NodeWritten(disk, node) /\ node \in AllNodes(m)
      /\ node.at \in Nat /\ node.size \in Nat /\ node.dir \in BOOLEAN
  BY <1>2 DEF IsNode, Placed
<1>4. raw = Shows(disk, node.id)
  BY <1>1, <1>3, RawOf
<1>5. /\ r.kind = "named" /\ r.extent = node.at /\ r.size = node.size
      /\ (IsDirectory(disk, r) <=> node.dir)
  <2>1. /\ r.kind = "named" /\ r.extent = node.at /\ r.size = node.size
        /\ r.dir = (node.dir /\ ~HS(m)) /\ r.hsdir = (node.dir /\ HS(m))
    BY DEF RecordOf
  <2> HIDE DEF r
  <2>2. IsDirectory(disk, r) = IF disk.high_sierra THEN r.hsdir ELSE r.dir
    BY DEF IsDirectory
  <2>3. IsDirectory(disk, r) <=> node.dir
    BY <1>1, <2>1, <2>2, Zenon
  <2> QED BY <2>1, <2>3
<1>6. l = td.name \o raw
  BY <1>4 DEF PathAt, RawAt, Below
<1> HIDE DEF r, raw, l, node, m
<1>7. Line(td, r) = LineAt(disk, B, w)
  BY <1>5, <1>6 DEF Line, LineAt, raw, l, node
<1>8. ToDo(td, r) = ToDoAt(disk, B, w)
  BY <1>5, <1>6 DEF ToDo, ToDoAt, raw, l, node
<1>9. Wanted(td, r) <=> opt.x # <<>> /\ SameName(opt.x, Tail(l))
  BY <1>6 DEF Wanted, raw
<1>10. ~node.dir => ExtractFile(r) = BytesAt(disk, w)
  <2> SUFFICES ASSUME ~node.dir PROVE ExtractFile(r) = BytesAt(disk, w)
    OBVIOUS
  <2>1. node.at + Sectors(node.size) - 1 <= m.last
    BY <1>1, <1>2 DEF FilesWithin
  <2>2. ExtractFile(r) = BytesWritten(r.extent, r.size)
    <3>1. CASE r.size < HighBit
      <4>1. ExtractFile(r) = BytesOf(r.extent, r.size)
        BY <1>1, <1>3, <1>5, <2>1, <3>1, FileBytes DEF m
      <4> QED BY <3>1, <4>1 DEF BytesWritten
    <3>2. CASE ~(r.size < HighBit)
      BY <3>2 DEF ExtractFile, BytesWritten
    <3> QED BY <3>1, <3>2
  <2> QED BY <1>5, <2>2 DEF BytesAt, node
<1>11. t = IF node.dir THEN Append(got.todo, ToDo(td, r)) ELSE got.todo
  BY <1>8 DEF ToDoWith, node
<1>12. e = IF ~node.dir /\ Wanted(td, r) THEN got.extracted \o ExtractFile(r)
           ELSE got.extracted
  <2>1. Wants(disk, B, opt.x, w) <=> ~node.dir /\ Wanted(td, r)
    BY <1>9 DEF Wants, node, l
  <2>2. CASE Wants(disk, B, opt.x, w)
    BY <1>10, <2>1, <2>2
  <2>3. CASE ~Wants(disk, B, opt.x, w)
    BY <2>1, <2>3
  <2> QED BY <2>2, <2>3
<1>13. p = Append(got.printed, Line(td, r))
  BY <1>7
<1> HIDE DEF t, p, e
<1>14. Taken(td, r, got) =
         [todo |-> IF node.dir THEN Append(got.todo, ToDo(td, r)) ELSE got.todo,
          printed |-> Append(got.printed, Line(td, r)),
          extracted |-> IF ~node.dir /\ Wanted(td, r)
                        THEN got.extracted \o ExtractFile(r) ELSE got.extracted]
  BY <1>5 DEF Taken
<1>15. Taken(td, r, got) = [todo |-> t, printed |-> p, extracted |-> e]
  BY <1>11, <1>12, <1>13, <1>14
<1> QED BY <1>15 DEF r, m, node, t, p, e

\* What is listed as long as isoinfo lists directories; no directory has the
\* number Nowhere.
Nowhere == -1
Lists(v, td, pr, x, ex) ==
  \E dirs, B, W : Listing(v, dirs, B, W, td, pr, x, ex, Nowhere, 0)

\* The list of directories without the one that is taken from it
LEMMA FirstTaken ==
  ASSUME NEW v, NEW dirs, NEW B, NEW W, NEW td, NEW pr, NEW x, NEW ex,
         Listing(v, dirs, B, W, td, pr, x, ex, Nowhere, 0), td # <<>>
  PROVE  /\ Listing(v, dirs, B, W, Tail(td), pr, x, ex, Head(td).extent, 0)
         /\ Head(td).extent \in DOMAIN B /\ Head(td).length \in Nat
         /\ Head(td).name = B[Head(td).extent] \o << 92 >>
         /\ IsDirAt(Masters[v.img], Head(td).extent, Head(td).length)
<1> DEFINE m == Masters[v.img]
           h == Head(td)
           t == Tail(td)
           n == Len(t)
<1>1. /\ Listable(v, dirs) /\ DirsMet(v, dirs, B) /\ PlacesTaken(v, B, W)
      /\ Waiting(v, B, td) /\ Listed(v, B, td, W, Nowhere, 0)
      /\ LinesAre(v, B, W, pr) /\ x \in Seq(Nat) /\ BytesAre(v, B, W, x, ex)
  BY DEF Listing
<1>2. td \in Seq(ToDos)
  BY <1>1 DEF Waiting
<1>3. /\ \A i \in 1 .. Len(td) :
           /\ td[i].extent \in DOMAIN B /\ td[i].name = B[td[i].extent] \o << 92 >>
           /\ IsDirAt(m, td[i].extent, td[i].length)
      /\ \A i, j \in 1 .. Len(td) : td[i].extent = td[j].extent => i = j
  BY <1>1 DEF Waiting
<1>4. /\ h \in ToDos /\ t \in Seq(ToDos) /\ Len(td) = n + 1 /\ n \in Nat
      /\ h = td[1] /\ \A i \in 1 .. n : t[i] = td[i + 1]
  <2>1. /\ h \in ToDos /\ t \in Seq(ToDos) /\ Len(t) = Len(td) - 1
        /\ \A i \in 1 .. Len(t) : t[i] = td[i + 1]
    BY <1>2, HeadTailProperties
  <2>2. Len(td) \in Nat /\ Len(td) # 0
    BY <1>2
  <2>3. h = td[1]
    OBVIOUS
  <2> HIDE DEF h, t
  <2> QED BY <2>1, <2>2, <2>3
<1> HIDE DEF h, t, n
<1>5. 1 \in 1 .. Len(td) /\ \A i \in 1 .. n : i + 1 \in 1 .. Len(td) /\ i + 1 # 1
  BY <1>4
<1>6. /\ h.extent \in DOMAIN B /\ h.length \in Nat
      /\ h.name = B[h.extent] \o << 92 >> /\ IsDirAt(m, h.extent, h.length)
  <2>1. h.length \in Nat
    BY <1>4 DEF ToDos
  <2> QED BY <1>3, <1>4, <1>5, <2>1
<1>7. Waiting(v, B, t)
  <2>1. ASSUME NEW i \in 1 .. n
        PROVE  /\ t[i].extent \in DOMAIN B /\ t[i].name = B[t[i].extent] \o << 92 >>
               /\ IsDirAt(m, t[i].extent, t[i].length)
    <3>1. PICK k \in 1 .. Len(td) : k = i + 1
      BY <1>5
    <3>2. t[i] = td[k]
      BY <1>4, <3>1
    <3> QED BY <1>3, <3>2
  <2>2. ASSUME NEW i \in 1 .. n, NEW j \in 1 .. n, t[i].extent = t[j].extent
        PROVE  i = j
    <3>1. PICK k \in 1 .. Len(td) : k = i + 1
      BY <1>5
    <3>2. PICK l \in 1 .. Len(td) : l = j + 1
      BY <1>5
    <3>3. t[i] = td[k] /\ t[j] = td[l]
      BY <1>4, <3>1, <3>2
    <3>4. k = l
      BY <1>3, <2>2, <3>3
    <3> QED BY <1>4, <3>1, <3>2, <3>4
  <2> QED BY <1>4, <2>1, <2>2 DEF Waiting, m, n
<1>8. \A e : Waits(td, e) <=> Waits(t, e) \/ h.extent = e
  <2> SUFFICES ASSUME NEW e PROVE Waits(td, e) <=> Waits(t, e) \/ h.extent = e
    OBVIOUS
  <2>1. ASSUME NEW i \in 1 .. Len(td), td[i].extent = e
        PROVE  Waits(t, e) \/ h.extent = e
    <3>1. CASE i = 1
      BY <1>4, <2>1, <3>1
    <3>2. CASE i # 1
      <4>1. PICK j \in 1 .. n : i = j + 1
        <5>1. i - 1 \in 1 .. n /\ i = (i - 1) + 1
          BY <1>4, <3>2
        <5> QED BY <5>1
      <4>2. t[j].extent = e
        BY <1>4, <2>1, <4>1
      <4> QED BY <4>2 DEF Waits, n
    <3> QED BY <3>1, <3>2
  <2>2. ASSUME NEW i \in 1 .. n, t[i].extent = e PROVE Waits(td, e)
    BY <1>4, <1>5, <2>2 DEF Waits
  <2>3. h.extent = e => Waits(td, e)
    BY <1>4, <1>5 DEF Waits
  <2> QED BY <2>1, <2>2, <2>3 DEF Waits, n
<1>9. ~Waits(t, h.extent)
  <2> SUFFICES ASSUME NEW i \in 1 .. n, t[i].extent = h.extent PROVE FALSE
    BY DEF Waits, n
  <2>1. td[i + 1].extent = td[1].extent
    BY <1>4
  <2> QED BY <1>3, <1>5, <2>1
<1>10. \A e \in DOMAIN B : e # Nowhere
  <2>1. DOMAIN B \subseteq Nat
    <3>1. DOMAIN B \subseteq DOMAIN m.dirs /\ v.img \in DOMAIN Images
      BY <1>1 DEF DirsMet, PathsKnown, Listable, Written
    <3>2. \A e \in DOMAIN m.dirs : e \in Nat
      BY <3>1, MasterTyped
    <3> QED BY <3>1, <3>2
  <2> QED BY <2>1 DEF Nowhere
<1>11. ASSUME NEW e \in DOMAIN B, NEW k \in DOMAIN NodesOf(m, e)
       PROVE  <<e, k>> \in W <=> ~Waits(t, e) /\ (e = h.extent => k <= 0)
  <2>1. <<e, k>> \in W <=> ~Waits(td, e)
    BY <1>1, <1>10 DEF Listed
  <2>2. ~(k <= 0)
    <3>1. NodesOf(m, e) \in Seq(Nodes)
      BY <1>1, NodesTyped DEF Listable, Written
    <3> QED BY <3>1
  <2> QED BY <1>8, <2>1, <2>2
<1>12. Listed(v, B, t, W, h.extent, 0)
  BY <1>9, <1>11 DEF Listed, m
<1>13. Listing(v, dirs, B, W, t, pr, x, ex, h.extent, 0)
  BY <1>1, <1>7, <1>12 DEF Listing
<1> QED BY <1>6, <1>13 DEF h, t, m

\* A directory that has been listed to its end
LEMMA DirListed ==
  ASSUME NEW v, NEW dirs, NEW B, NEW W, NEW td, NEW pr, NEW x, NEW ex, NEW now,
         Listing(v, dirs, B, W, td, pr, x, ex, now, Len(NodesOf(Masters[v.img], now)))
  PROVE  Lists(v, td, pr, x, ex)
<1> DEFINE m == Masters[v.img]
<1>1. /\ Listable(v, dirs) /\ DirsMet(v, dirs, B) /\ PlacesTaken(v, B, W)
      /\ Waiting(v, B, td) /\ Listed(v, B, td, W, now, Len(NodesOf(m, now)))
      /\ LinesAre(v, B, W, pr) /\ x \in Seq(Nat) /\ BytesAre(v, B, W, x, ex)
  BY DEF Listing
<1>2. DOMAIN B \subseteq Nat
  <2>1. DOMAIN B \subseteq DOMAIN m.dirs /\ v.img \in DOMAIN Images
    BY <1>1 DEF DirsMet, PathsKnown, Listable, Written
  <2>2. \A e \in DOMAIN m.dirs : e \in Nat
    BY <2>1, MasterTyped
  <2> QED BY <2>1, <2>2
<1>3. ~Waits(td, Nowhere)
  <2>1. ASSUME NEW i \in 1 .. Len(td), td[i].extent = Nowhere PROVE FALSE
    <3>1. td[i].extent \in Nat
      BY <1>1, <1>2 DEF Waiting
    <3> QED BY <2>1, <3>1 DEF Nowhere
  <2> QED BY <2>1 DEF Waits
<1>4. ASSUME NEW e \in DOMAIN B, NEW k \in DOMAIN NodesOf(m, e)
      PROVE  <<e, k>> \in W <=> ~Waits(td, e) /\ (e = Nowhere => k <= 0)
  <2>1. <<e, k>> \in W <=> ~Waits(td, e) /\ (e = now => k <= Len(NodesOf(m, now)))
    BY <1>1 DEF Listed
  <2>2. e = now => k <= Len(NodesOf(m, now))
    <3>1. NodesOf(m, e) \in Seq(Nodes)
      BY <1>1, NodesTyped DEF Listable, Written
    <3> QED BY <3>1
  <2>3. e # Nowhere
    BY <1>2 DEF Nowhere
  <2> QED BY <2>1, <2>2, <2>3
<1>5. Listed(v, B, td, W, Nowhere, 0)
  BY <1>3, <1>4 DEF Listed, m
<1>6. Listing(v, dirs, B, W, td, pr, x, ex, Nowhere, 0)
  BY <1>1, <1>5 DEF Listing
<1> QED BY <1>6 DEF Lists

LEMMA RecordsInOrder ==
  ASSUME NEW img \in DOMAIN Images, NEW e \in DOMAIN Masters[img].dirs
  PROVE  LET m == Masters[img]
             r == DirRecords(m, e)
             n == Len(NodesOf(m, e))
         IN  /\ n \in Nat /\ Len(r) = n + 2
             /\ r[1] = Special("self", e) /\ r[2] = Special("parent", e)
             /\ \A k \in 1 .. n : r[k + 2] = RecordOf(m, NodesOf(m, e)[k])
<1> DEFINE m == Masters[img]
           nodes == NodesOf(m, e)
           n == Len(nodes)
           a == Special("self", e)
           b == Special("parent", e)
           two == <<a, b>>
           named == [i \in DOMAIN nodes |-> RecordOf(m, nodes[i])]
           r == DirRecords(m, e)
           R == Range(named) \cup {a, b}
<1>1. nodes \in Seq(Nodes) /\ n \in Nat /\ Len(r) = n + 2
  <2>1. nodes \in Seq(Nodes) /\ Len(r) = Len(nodes) + 2
    BY DirRecordsAre
  <2> QED BY <2>1
<1>2. r = two \o named
  BY DEF DirRecords
<1> HIDE DEF nodes, a, b, r
<1>3. DOMAIN nodes = 1 .. n
  BY <1>1
<1>4. named \in Seq(R) /\ Len(named) = n
      /\ \A k \in 1 .. n : named[k] = RecordOf(m, nodes[k])
  BY <1>1, <1>3 DEF Range
<1>5. two \in Seq(R) /\ Len(two) = 2 /\ two[1] = a /\ two[2] = b
  OBVIOUS
<1> HIDE DEF two, named, n, R
<1>6. \A i \in 1 .. 2 + n : r[i] = IF i <= 2 THEN two[i] ELSE named[i - 2]
  <2>1. \A i \in 1 .. Len(two) + Len(named) :
          (two \o named)[i] = IF i <= Len(two) THEN two[i] ELSE named[i - Len(two)]
    BY <1>4, <1>5, ConcatProperties
  <2> QED BY <1>2, <1>4, <1>5, <2>1
<1>7. r[1] = a /\ r[2] = b
  BY <1>1, <1>5, <1>6
<1>8. \A k \in 1 .. n : r[k + 2] = named[k]
  <2> SUFFICES ASSUME NEW k \in 1 .. n PROVE r[k + 2] = named[k]
    OBVIOUS
  <2>1. k + 2 \in 1 .. 2 + n /\ ~(k + 2 <= 2) /\ k + 2 - 2 = k
    BY <1>1
  <2> QED BY <1>6, <2>1
<1> QED BY <1>1, <1>4, <1>7, <1>8 DEF n, r, a, b, nodes

LEMMA BytesAreBytes ==
  ASSUME NEW v, NEW dirs, NEW B, NEW W, NEW td, NEW pr, NEW x, NEW ex, NEW now,
         NEW n, Listing(v, dirs, B, W, td, pr, x, ex, now, n)
  PROVE  ex \in Seq(Int)
<1>1. CASE \A w \in W : ~Wants(v, B, x, w)
  <2>1. ex = <<>>
    BY <1>1 DEF Listing, BytesAre
  <2> QED BY <2>1
<1>2. CASE ~(\A w \in W : ~Wants(v, B, x, w))
  <2>1. PICK w \in W : Wants(v, B, x, w)
    BY <1>2
  <2>2. ex = BytesAt(v, w)
    BY <2>1 DEF Listing, BytesAre
  <2>3. Listable(v, dirs) /\ PathsKnown(v, dirs, B) /\ IsPlace(v, DOMAIN B, w)
    BY DEF Listing, DirsMet, PlacesTaken
  <2>4. IsLine(v, dirs, B[w[1]], RawAt(v, w), NodeAt(v, w), PathAt(v, B, w))
    BY <2>3, LineOfPlace
  <2>5. NodeAt(v, w).size \in Nat /\ NodeAt(v, w).at \in Nat
    BY <2>4 DEF IsLine, IsNode, Placed
  <2> QED BY <2>2, <2>5, BytesTyped DEF BytesAt
<1> QED BY <1>1, <1>2

\* After n nodes of a directory
InTheDir(dirs, h, got, n) ==
  \E B, W : /\ Listing(disk, dirs, B, W, got.todo, got.printed, opt.x,
                       got.extracted, h.extent, n)
            /\ h.extent \in DOMAIN B /\ h.name = B[h.extent] \o << 92 >>

LEMMA OneNodeMore ==
  ASSUME NEW dirs, NEW h, NEW got, NEW n \in Nat, InTheDir(dirs, h, got, n),
         n + 1 \in DOMAIN NodesOf(Masters[disk.img], h.extent)
  PROVE  InTheDir(dirs, h,
                  Taken(h, RecordOf(Masters[disk.img],
                                    NodesOf(Masters[disk.img], h.extent)[n + 1]), got),
                  n + 1)
<1>1. PICK B, W : /\ Listing(disk, dirs, B, W, got.todo, got.printed, opt.x,
                             got.extracted, h.extent, n)
                  /\ h.extent \in DOMAIN B /\ h.name = B[h.extent] \o << 92 >>
  BY DEF InTheDir
<1> DEFINE w == <<h.extent, n + 1>>
           C == PathsWith(disk, B, w)
           X == W \cup {w}
           t == ToDoWith(disk, B, w, got.todo)
           p == Append(got.printed, LineAt(disk, B, w))
           e == IF Wants(disk, B, opt.x, w)
                THEN got.extracted \o BytesAt(disk, w) ELSE got.extracted
           y == Taken(h, RecordOf(Masters[disk.img], NodeAt(disk, w)), got)
<1>2. w[1] = h.extent /\ w[2] = n + 1 /\ w = <<w[1], w[2]>>
  OBVIOUS
<1>3. IsPlace(disk, DOMAIN B, w)
  BY <1>1, <1>2 DEF IsPlace
<1>4. Listable(disk, dirs) /\ DirsMet(disk, dirs, B) /\ PathsKnown(disk, dirs, B)
      /\ PlacesTaken(disk, B, W) /\ Listed(disk, B, got.todo, W, h.extent, n)
  BY <1>1 DEF Listing, DirsMet
<1>5. h.name = B[w[1]] \o << 92 >>
  BY <1>1, <1>2
<1>6. Listing(disk, dirs, C, X, t, p, opt.x, e, h.extent, n + 1)
  BY <1>1, <1>3, ListingWith
<1>7. y = [todo |-> t, printed |-> p, extracted |-> e]
  <2> HIDE DEF w
  <2> QED BY <1>3, <1>4, <1>5, NodeTaken
<1>8. NodeAt(disk, w) = NodesOf(Masters[disk.img], h.extent)[n + 1]
  BY <1>2 DEF NodeAt
<1>9. Extends(B, C)
  <2>1. w \notin W
    <3>1. ~(n + 1 <= n)
      OBVIOUS
    <3>2. <<h.extent, n + 1>> \in W <=>
            ~Waits(got.todo, h.extent) /\ (h.extent = h.extent => n + 1 <= n)
      BY <1>1, <1>4 DEF Listed
    <3> QED BY <3>1, <3>2
  <2>2. Meets(disk, dirs, B, W, w)
    BY <1>3, <1>4, <2>1 DEF Meets
  <2> QED BY <2>2, PathsGrow
<1> HIDE DEF w, C, X, t, p, e, y
<1>10. h.extent \in DOMAIN C /\ h.name = C[h.extent] \o << 92 >>
  BY <1>1, <1>9 DEF Extends
<1>11. y.todo = t /\ y.printed = p /\ y.extracted = e
  BY <1>7
<1>12. Listing(disk, dirs, C, X, y.todo, y.printed, opt.x, y.extracted, h.extent, n + 1)
  BY <1>6, <1>11
<1>13. InTheDir(dirs, h, y, n + 1)
  BY <1>10, <1>12 DEF InTheDir
<1> QED BY <1>8, <1>13 DEF y

\* parse_dir lists one directory more, as long as it does not follow memory that
\* has been freed.
LEMMA ParseDirLists ==
  ASSUME ParseDir, Lists(disk, todo, printed, opt.x, extracted),
         buffer \in Seq(RecordTypes)
  PROVE  /\ Lists(disk, todo', printed', opt.x, extracted')
         /\ buffer' \in Seq(RecordTypes)
<1> DEFINE h == Head(todo)
           recs == ReadDir(h.extent, h.length).recs
           a == [todo |-> Tail(todo), printed |-> printed, extracted |-> extracted]
           loop[k \in 0 .. Len(recs)] ==
             IF k = 0 THEN a ELSE Taken(h, recs[k], loop[k - 1])
<1>1. /\ todo # <<>>
      /\ LET end == loop[Len(recs)]
         IN  todo' = end.todo /\ printed' = end.printed /\ extracted' = end.extracted
      /\ buffer' = ReadDir(h.extent, h.length).buffer
  BY DEF ParseDir, Parsed
<1>2. PICK dirs, B, W :
        Listing(disk, dirs, B, W, todo, printed, opt.x, extracted, Nowhere, 0)
  BY DEF Lists
<1>3. /\ Listing(disk, dirs, B, W, Tail(todo), printed, opt.x, extracted, h.extent, 0)
      /\ h.extent \in DOMAIN B /\ h.length \in Nat
      /\ h.name = B[h.extent] \o << 92 >>
      /\ IsDirAt(Masters[disk.img], h.extent, h.length)
  BY <1>1, <1>2, FirstTaken
<1>4. /\ disk.img \in DOMAIN Images /\ DirsApart(Masters[disk.img])
  BY <1>2 DEF Listing, Listable, Written, WrittenFor
<1> DEFINE m == Masters[disk.img]
           at == h.extent
           n == Len(NodesOf(m, at))
<1>5. at \in DOMAIN m.dirs /\ at \in Nat
  <2>1. at \in DOMAIN m.dirs
    BY <1>3 DEF IsDirAt
  <2> QED BY <1>4, <2>1, MasterTyped
<1>6. recs = DirRecords(m, at) /\ buffer' \in Seq(RecordTypes)
  <2> HIDE DEF h
  <2>1. /\ ReadDir(at, h.length).recs = DirRecords(m, at)
        /\ ReadDir(at, h.length).buffer \in Seq(RecordTypes)
    BY <1>3, <1>4, RecordsAre
  <2> QED BY <1>1, <2>1
<1>7. /\ n \in Nat /\ Len(DirRecords(m, at)) = n + 2
      /\ DirRecords(m, at)[1] = Special("self", at)
      /\ DirRecords(m, at)[2] = Special("parent", at)
      /\ \A k \in 1 .. n : DirRecords(m, at)[k + 2] = RecordOf(m, NodesOf(m, at)[k])
  BY <1>4, <1>5, RecordsInOrder
<1>8. Len(recs) \in Nat
  BY <1>6, <1>7
<1>9. TakesAll(h, recs, a, loop)
  <2> HIDE DEF recs, a, h
  <2> QED BY <1>8, RecordsAreTaken
<1> DEFINE g == loop
<1> HIDE DEF loop
<1>10. g[0] = a /\ \A k \in 1 .. n + 2 : g[k] = Taken(h, recs[k], g[k - 1])
  BY <1>6, <1>7, <1>9 DEF TakesAll
<1>11. extracted \in Seq(Int)
  BY <1>2, BytesAreBytes
<1>12. g[2] = a
  <2>1. a.extracted \in Seq(Int)
        /\ a = [todo |-> a.todo, printed |-> a.printed, extracted |-> a.extracted]
    BY <1>11
  <2>2. 1 \in 1 .. n + 2 /\ 2 \in 1 .. n + 2 /\ 1 - 1 = 0 /\ 2 - 1 = 1
    BY <1>7
  <2> HIDE DEF recs, a, g, h, n
  <2>3. g[1] = Taken(h, Special("self", at), a)
    BY <1>6, <1>7, <1>10, <2>2
  <2>4. g[1] = a
    BY <1>4, <1>5, <2>1, <2>3, SpecialTaken
  <2>5. g[2] = Taken(h, Special("parent", at), a)
    BY <1>6, <1>7, <1>10, <2>2, <2>4
  <2> QED BY <1>4, <1>5, <2>1, <2>5, SpecialTaken
<1> DEFINE T == {k \in 0 .. n : InTheDir(dirs, h, g[k + 2], k)}
<1>13. 0 \in T
  <2>1. InTheDir(dirs, h, a, 0)
    BY <1>3 DEF InTheDir
  <2>2. g[0 + 2] = a /\ 0 \in 0 .. n
    BY <1>7, <1>12
  <2> HIDE DEF g, a, h, n
  <2> QED BY <2>1, <2>2
<1>14. ASSUME NEW k \in 0 .. n - 1, k \in T PROVE k + 1 \in T
  <2>1. InTheDir(dirs, h, g[k + 2], k)
    BY <1>14
  <2>2. k \in Nat /\ k + 1 \in 1 .. n /\ k + 1 + 2 \in 1 .. n + 2
        /\ k + 1 + 2 - 1 = k + 2 /\ k + 1 \in 0 .. n
    BY <1>7
  <2>3. k + 1 \in DOMAIN NodesOf(m, at)
    <3>1. NodesOf(m, at) \in Seq(Nodes)
      BY <1>4, NodesTyped
    <3> QED BY <2>2, <3>1
  <2> DEFINE r == RecordOf(m, NodesOf(m, at)[k + 1])
             i == k + 1 + 2
  <2>4. recs[i] = r
    BY <1>6, <1>7, <2>2
  <2>5. g[i] = Taken(h, recs[i], g[k + 2])
    <3>1. i \in 1 .. n + 2 /\ i - 1 = k + 2
      BY <2>2
    <3> HIDE DEF i, g, recs, h
    <3>2. g[i] = Taken(h, recs[i], g[i - 1])
      BY <1>10, <3>1
    <3> QED BY <3>1, <3>2
  <2> HIDE DEF recs, g, n
  <2>6. InTheDir(dirs, h, Taken(h, r, g[k + 2]), k + 1)
    BY <2>1, <2>2, <2>3, OneNodeMore
  <2> HIDE DEF r, h, i
  <2>7. InTheDir(dirs, h, g[i], k + 1)
    BY <2>4, <2>5, <2>6
  <2> QED BY <2>2, <2>7 DEF i
<1>15. InTheDir(dirs, h, g[n + 2], n)
  <2> HIDE DEF T
  <2>1. \A k \in 0 .. n : k \in T
    BY <1>7, <1>13, <1>14, BoundedInduction
  <2>2. n \in T
    BY <1>7, <2>1
  <2> QED BY <2>2 DEF T
<1>16. PICK C, X : Listing(disk, dirs, C, X, g[n + 2].todo, g[n + 2].printed, opt.x,
                           g[n + 2].extracted, at, n)
  BY <1>15 DEF InTheDir
<1>17. /\ todo' = g[n + 2].todo /\ printed' = g[n + 2].printed
       /\ extracted' = g[n + 2].extracted
  BY <1>1, <1>6, <1>7
<1> HIDE DEF g, h
<1>18. Listing(disk, dirs, C, X, todo', printed', opt.x, extracted', at, n)
  BY <1>16, <1>17
<1> QED BY <1>6, <1>18, DirListed DEF m

-----------------------------------------------------------------------------
(* All directories have been listed                                         *)

LEMMA AllPlaces ==
  ASSUME NEW v, NEW dirs, NEW B, NEW W, NEW pr, NEW x, NEW ex,
         Listing(v, dirs, B, W, <<>>, pr, x, ex, Nowhere, 0)
  PROVE  W = Within(Masters[v.img], v.iRootExtent)
<1> DEFINE m == Masters[v.img]
           D == DOMAIN B
           root == v.iRootExtent
<1>1. /\ Listable(v, dirs) /\ DirsMet(v, dirs, B) /\ PlacesTaken(v, B, W)
      /\ Listed(v, B, <<>>, W, Nowhere, 0)
  BY DEF Listing
<1>2. D \subseteq DOMAIN m.dirs /\ D \subseteq Nat
  <2>1. D \subseteq DOMAIN m.dirs /\ v.img \in DOMAIN Images
    BY <1>1 DEF DirsMet, PathsKnown, Listable, Written
  <2>2. \A e \in DOMAIN m.dirs : e \in Nat
    BY <2>1, MasterTyped
  <2> QED BY <2>1, <2>2
<1>3. \A e \in D : \A k \in DOMAIN NodesOf(m, e) : <<e, k>> \in W
  <2>1. \A e : ~Waits(<<>>, e)
    <3>1. Len(<<>>) = 0
      OBVIOUS
    <3> QED BY <3>1 DEF Waits
  <2>2. \A e \in D : e # Nowhere
    BY <1>2 DEF Nowhere
  <2> QED BY <1>1, <2>1, <2>2 DEF Listed
<1>4. \A w \in W : /\ w = <<w[1], w[2]>> /\ w[1] \in D
                   /\ w[2] \in DOMAIN NodesOf(m, w[1])
                   /\ NodeAt(v, w).dir => NodeAt(v, w).at \in D
  BY <1>1 DEF PlacesTaken, IsPlace
<1>5. Closed(m, D)
  <2> SUFFICES ASSUME NEW e \in D, NEW node \in NodesIn(m, e), node.dir
               PROVE  node.at \in D
    BY DEF Closed
  <2>1. PICK k \in DOMAIN NodesOf(m, e) : node = NodesOf(m, e)[k]
    BY DEF NodesIn, Range
  <2> DEFINE w == <<e, k>>
  <2>2. w \in W
    BY <1>3
  <2>3. NodeAt(v, w) = node
    BY <2>1 DEF NodeAt
  <2> HIDE DEF w
  <2> QED BY <1>4, <2>2, <2>3
<1>6. root \in D /\ \A E \in SUBSET DOMAIN m.dirs :
                      root \in E /\ Closed(m, E) => D \subseteq E
  BY <1>1 DEF DirsMet
<1> HIDE DEF D, root, m
<1>7. D = DirsBelow(m, root)
  <2>1. ASSUME NEW e \in D PROVE e \in DirsBelow(m, root)
    BY <1>2, <1>6 DEF DirsBelow
  <2>2. ASSUME NEW e \in DirsBelow(m, root) PROVE e \in D
    <3>1. D \in SUBSET DOMAIN m.dirs
      BY <1>2
    <3> QED BY <1>5, <1>6, <3>1 DEF DirsBelow
  <2> QED BY <2>1, <2>2
<1>8. ASSUME NEW w \in W PROVE w \in Within(m, root)
  <2>1. w \in {w[1]} \X DOMAIN NodesOf(m, w[1]) /\ w[1] \in DirsBelow(m, root)
    <3> DEFINE a == w[1]
               b == w[2]
    <3>1. w = <<a, b>> /\ a \in D /\ b \in DOMAIN NodesOf(m, a)
      BY <1>4
    <3> HIDE DEF a, b
    <3>2. w \in {a} \X DOMAIN NodesOf(m, a) /\ a \in DirsBelow(m, root)
      BY <1>7, <3>1
    <3> QED BY <3>2 DEF a
  <2> QED BY <2>1 DEF Within
<1>9. ASSUME NEW w \in Within(m, root) PROVE w \in W
  <2>1. PICK e \in DirsBelow(m, root) : w \in {e} \X DOMAIN NodesOf(m, e)
    BY DEF Within
  <2>2. PICK k \in DOMAIN NodesOf(m, e) : w = <<e, k>>
    BY <2>1
  <2> QED BY <1>3, <1>7, <2>2
<1>10. W = Within(m, root)
  BY <1>8, <1>9
<1> QED BY <1>10 DEF m, root

\* Every line leads to what it was printed for.
LEMMA LinesLead ==
  ASSUME NEW v, NEW dirs, NEW B, NEW W, NEW td, NEW pr, NEW x, NEW ex, NEW now,
         NEW n, Listing(v, dirs, B, W, td, pr, x, ex, now, n),
         NEW i \in 1 .. Len(pr)
  PROVE  isoQueryIsoEntryFromPath(v, Shown(pr[i].name)).iExtent = pr[i].extent
<1>1. /\ Listable(v, dirs) /\ PathsKnown(v, dirs, B) /\ PlacesTaken(v, B, W)
      /\ LinesAre(v, B, W, pr)
  BY DEF Listing, DirsMet
<1>2. PICK w \in W : pr[i] = LineAt(v, B, w)
  BY <1>1 DEF LinesAre
<1> DEFINE node == NodeAt(v, w)
           l == PathAt(v, B, w)
           q == isoQueryIsoEntryFromPath(v, Shown(l))
<1>3. IsPlace(v, DOMAIN B, w)
  BY <1>1 DEF PlacesTaken
<1>4. IsLine(v, dirs, B[w[1]], RawAt(v, w), node, l)
  BY <1>1, <1>3, LineOfPlace
<1>5. Together(v, dirs, q, node) /\ node.at \in Nat
  BY <1>4 DEF IsLine, LedTo, IsNode, Placed
<1>6. pr[i].name = l /\ pr[i].extent = node.at
  BY <1>2 DEF LineAt
<1> HIDE DEF node, l, q
<1>7. node # NoNode
  BY <1>5 DEF NoNode
<1>8. q.iExtent = node.at
  BY <1>5, <1>7 DEF Together
<1> QED BY <1>6, <1>8 DEF q

\* What has been written is the file that is asked for, if there is one.
LEMMA FileIsWritten ==
  ASSUME NEW v, NEW dirs, NEW B, NEW W, NEW td, NEW pr, NEW x, NEW ex, NEW now,
         NEW n, Listing(v, dirs, B, W, td, pr, x, ex, now, n), x # <<>>
  PROVE  LET hits == {i \in DOMAIN pr : SameName(Tail(pr[i].name), x)}
             k    == NodeOf(Masters[v.img], v, Shown(x))
         IN  ex = IF hits = {} \/ k.dir THEN <<>> ELSE BytesWritten(k.at, k.size)
<1> DEFINE hits == {i \in DOMAIN pr : SameName(Tail(pr[i].name), x)}
           k == NodeOf(Masters[v.img], v, Shown(x))
<1>1. /\ Listable(v, dirs) /\ PathsKnown(v, dirs, B) /\ PlacesTaken(v, B, W)
      /\ LinesAre(v, B, W, pr) /\ x \in Seq(Nat) /\ BytesAre(v, B, W, x, ex)
  BY DEF Listing, DirsMet
<1>2. DOMAIN pr = 1 .. Len(pr)
  BY <1>1 DEF LinesAre
<1>3. ASSUME NEW w \in W
      PROVE  /\ Tail(PathAt(v, B, w)) \in Seq(Nat)
             /\ SameName(x, Tail(PathAt(v, B, w))) <=> SameName(Tail(PathAt(v, B, w)), x)
             /\ SameName(x, Tail(PathAt(v, B, w))) => k = NodeAt(v, w)
             /\ LineAt(v, B, w).name = PathAt(v, B, w)
  <2>1. IsPlace(v, DOMAIN B, w)
    BY <1>1 DEF PlacesTaken
  <2>2. IsLine(v, dirs, B[w[1]], RawAt(v, w), NodeAt(v, w), PathAt(v, B, w))
    BY <1>1, <2>1, LineOfPlace
  <2>3. Tail(PathAt(v, B, w)) \in Seq(Nat)
    BY <2>2 DEF IsLine
  <2>4. SameName(x, Tail(PathAt(v, B, w))) <=> SameName(Tail(PathAt(v, B, w)), x)
    BY <1>1, <2>3, SameNameLaws
  <2>5. SameName(x, Tail(PathAt(v, B, w))) => k = NodeAt(v, w)
    BY <1>1, <2>2, WantedNode
  <2>6. LineAt(v, B, w).name = PathAt(v, B, w)
    BY DEF LineAt
  <2> QED BY <2>3, <2>4, <2>5, <2>6
<1>4. hits = {} <=> \A w \in W : ~SameName(x, Tail(PathAt(v, B, w)))
  <2>1. ASSUME NEW i \in hits PROVE \E w \in W : SameName(x, Tail(PathAt(v, B, w)))
    <3>1. i \in 1 .. Len(pr) /\ SameName(Tail(pr[i].name), x)
      BY <1>2
    <3>2. PICK w \in W : pr[i] = LineAt(v, B, w)
      BY <1>1, <3>1 DEF LinesAre
    <3> QED BY <1>3, <3>1, <3>2
  <2>2. ASSUME NEW w \in W, SameName(x, Tail(PathAt(v, B, w))) PROVE hits # {}
    <3>1. PICK i \in 1 .. Len(pr) : pr[i] = LineAt(v, B, w)
      BY <1>1 DEF LinesAre
    <3>2. i \in hits
      BY <1>2, <1>3, <2>2, <3>1
    <3> QED BY <3>2
  <2> HIDE DEF hits
  <2> QED BY <2>1, <2>2
<1> HIDE DEF hits, k
<1>5. CASE hits = {} \/ k.dir
  <2>1. ASSUME NEW w \in W PROVE ~Wants(v, B, x, w)
    BY <1>3, <1>4, <1>5 DEF Wants
  <2> QED BY <1>1, <1>5, <2>1 DEF BytesAre, hits, k
<1>6. CASE ~(hits = {} \/ k.dir)
  <2>1. PICK w \in W : SameName(x, Tail(PathAt(v, B, w)))
    BY <1>4, <1>6
  <2>2. k = NodeAt(v, w)
    BY <1>3, <2>1
  <2>3. Wants(v, B, x, w)
    BY <1>6, <2>1, <2>2 DEF Wants
  <2>4. ex = BytesWritten(k.at, k.size)
    BY <1>1, <2>2, <2>3 DEF BytesAre, BytesAt
  <2> QED BY <1>6, <2>4 DEF hits, k
<1> QED BY <1>5, <1>6

\* The first directory that is listed is the root.
LEMMA RootIsListed ==
  ASSUME NEW v, NEW dirs, Listable(v, dirs), NEW x \in Seq(Nat)
  PROVE  Lists(v, RootToDo(v), <<>>, x, <<>>)
<1> DEFINE m == Masters[v.img]
           root == v.iRootExtent
           size == v.iRootSize
           B == [e \in {root} |-> <<>>]
           W == {}
           td == RootToDo(v)
           z == [name |-> << 92 >>, extent |-> root, length |-> size]
           pr == <<>>
           ex == <<>>
<1>1. /\ v.img \in DOMAIN Images /\ size \in Nat /\ dirs \subseteq DOMAIN m.dirs
      /\ IsTree(m, v, dirs)
  BY DEF Listable, Written, WrittenFor
<1>2. root \in dirs /\ IsDirAt(m, root, size) /\ root \in Nat
  <2>1. root \in dirs /\ IsDirAt(m, root, size)
    BY <1>1 DEF IsTree
  <2> QED BY <1>1, <2>1, MasterTyped
<1>3. DOMAIN B = {root} /\ B[root] = <<>>
  OBVIOUS
<1>4. LedTo(v, dirs, B[root], RootNode(v))
  BY RootIsLedTo
<1>5. RootNode(v).dir /\ RootNode(v).at = root
  BY DEF RootNode, NoNode
<1> HIDE DEF B, root, size, m
<1>6. PathsKnown(v, dirs, B)
  BY <1>2, <1>3, <1>4, <1>5 DEF PathsKnown
<1>7. DirsMet(v, dirs, B)
  BY <1>3, <1>6 DEF DirsMet, root
<1>8. PlacesTaken(v, B, W)
  <2>1. IsFiniteSet(W)
    BY FS_EmptySet
  <2> QED BY <1>3, <2>1 DEF PlacesTaken, root
<1>9. Len(td) = 1 /\ td[1] = z /\ td \in Seq(ToDos)
  <2>1. td = <<z>>
    BY DEF RootToDo, root, size
  <2>2. << 92 >> \in Seq(Nat)
    OBVIOUS
  <2>3. z \in ToDos
    BY <1>1, <1>2, <2>2 DEF ToDos
  <2> HIDE DEF z, td
  <2> QED BY <2>1, <2>3
<1>10. z.extent = root /\ z.length = size /\ z.name = B[root] \o << 92 >>
  <2>1. <<>> \o << 92 >> = << 92 >>
    OBVIOUS
  <2> QED BY <1>3, <2>1
<1> HIDE DEF td, z
<1>11. \A i \in 1 .. Len(td) : i = 1
  BY <1>9
<1>12. Waiting(v, B, td)
  <2>1. ASSUME NEW i \in 1 .. Len(td)
        PROVE  /\ td[i].extent \in DOMAIN B /\ td[i].name = B[td[i].extent] \o << 92 >>
               /\ IsDirAt(m, td[i].extent, td[i].length)
    BY <1>2, <1>3, <1>9, <1>10, <1>11
  <2> QED BY <1>9, <1>11, <2>1 DEF Waiting, m
<1>13. Listed(v, B, td, W, Nowhere, 0)
  <2>1. Waits(td, root) /\ ~Waits(td, Nowhere)
    <3>1. 1 \in 1 .. Len(td) /\ root # Nowhere
      BY <1>2, <1>9 DEF Nowhere
    <3> QED BY <1>9, <1>10, <1>11, <3>1 DEF Waits
  <2> QED BY <1>3, <2>1 DEF Listed
<1>14. LinesAre(v, B, W, pr)
  <2>1. pr \in Seq(PrintedLines) /\ Len(pr) = 0 /\ Cardinality(W) = 0
    BY FS_EmptySet
  <2> QED BY <2>1 DEF LinesAre
<1>15. BytesAre(v, B, W, x, ex)
  BY DEF BytesAre
<1>16. Listing(v, dirs, B, W, td, pr, x, ex, Nowhere, 0)
  BY <1>7, <1>8, <1>12, <1>13, <1>14, <1>15 DEF Listing
<1> QED BY <1>16 DEF Lists, td

-----------------------------------------------------------------------------
(* The state of isoinfo                                                     *)

\* isoinfo looks at the volume that is attached.
OfParms == opt.img = parms.img /\ opt.T = parms.iOffset

\* Its search for a Joliet descriptor has come as far as that of the daemon had
\* at the same sector.
IsoPlace == parms.iOffset + blk
IsoScanned ==
  ipc = "scan" /\ OfParms =>
    /\ blk \in Nat /\ blk >= 16
    /\ IsPrimary(Master.descs[First]) \/ IsHighSierra(Master.descs[First])
    /\ \A n \in First .. IsoPlace - 1 : n <= Master.last => Passed(n)
    /\ dsc \in Descs \cup {NoDesc}
    /\ IF IsoPlace <= Master.last THEN dsc = At(Master.descs, IsoPlace, NoDesc)
       ELSE GoesOn(dsc) /\ ~IsJoliet(dsc)

\* It runs while the volume is mounted, and begins with nothing.
IsoProgress ==
  /\ ipc # "off" => Mounted
  /\ ipc \in {"scan", "list", "done"} => opt \in Commands
  /\ ipc \in {"off", "scan"} =>
       todo = <<>> /\ buffer = <<>> /\ printed = <<>> /\ extracted = <<>>
  /\ ipc = "done" => todo = <<>>

\* It sees the volume as the daemon does, and has listed some of it, unless it
\* has been led astray.
IsoListed ==
  ipc \in {"list", "done"} /\ ~astray /\ SameView =>
    /\ disk = vol /\ Lists(disk, todo, printed, opt.x, extracted)
    /\ buffer \in Seq(RecordTypes)

IsoinfoInv == IsoProgress /\ IsoScanned /\ IsoListed

LEMMA FirstSector ==
  ASSUME VolumeInv, st = "mounted"
  PROVE  /\ First \in Nat /\ First <= Master.last /\ First \in DOMAIN Master.descs
         /\ Master.last \in Nat /\ DOMAIN Master.descs \subseteq 0 .. Master.last
         /\ parms.iOffset \in Nat /\ First = 16 + parms.iOffset
         /\ ReadDesc(parms.img, First, NoDesc) = Master.descs[First]
         /\ LastSector(parms.img) = Master.last
<1>1. /\ parms.iOffset \in Nat /\ parms.img \in DOMAIN Images
      /\ First \in DOMAIN Master.descs /\ Master = Masters[parms.img]
  BY DEF VolumeInv, Attached, Master, Made
<1>2. First = 16 + parms.iOffset
  BY DEF First
<1>3. DOMAIN Master.descs \subseteq 0 .. Master.last /\ Master.last \in Nat
  BY <1>1, DescsNumbered, MasterTyped
<1>4. First \in Nat /\ First <= Master.last
  BY <1>1, <1>2, <1>3
<1>5. /\ ReadDesc(parms.img, First, NoDesc)
           = IF First <= Master.last THEN At(Master.descs, First, NoDesc) ELSE NoDesc
      /\ LastSector(parms.img) = Master.last
  BY <1>1, <1>4, DescRead
<1>6. ReadDesc(parms.img, First, NoDesc) = Master.descs[First]
  BY <1>1, <1>4, <1>5 DEF At
<1> QED BY <1>1, <1>2, <1>3, <1>4, <1>5, <1>6

LEMMA StartScans ==
  ASSUME VolumeInv, st = "mounted", UNCHANGED volvars, NEW o \in Commands, Start(o)
  PROVE  IsoScanned'
<1> DEFINE pvd == ReadDesc(o.img, 16 + o.T, NoDesc)
<1> SUFFICES ASSUME ipc' = "scan", OfParms' PROVE IsoScanned'
  BY DEF IsoScanned
<1>1. /\ opt' = o /\ blk' = 16 /\ dsc' = pvd
      /\ IsHighSierra(pvd) \/ IsPrimary(pvd)
  BY DEF Start
<1>2. parms' = parms
  BY DEF volvars
<1>3. o.img = parms.img /\ o.T = parms.iOffset
  BY <1>1, <1>2 DEF OfParms
<1>4. /\ First \in Nat /\ First <= Master.last /\ First \in DOMAIN Master.descs
      /\ parms.iOffset \in Nat /\ First = 16 + parms.iOffset
      /\ ReadDesc(parms.img, First, NoDesc) = Master.descs[First]
  BY FirstSector
<1>5. pvd = Master.descs[First]
  BY <1>3, <1>4
<1>6. First' = First /\ Master' = Master /\ IsoPlace' = First
  BY <1>1, <1>2, <1>4 DEF First, Master, IsoPlace
<1>7. Master.descs[First] \in Descs
  <2>1. parms.img \in DOMAIN Images
    BY DEF VolumeInv, Attached
  <2> QED BY <1>4, <2>1, MasterTyped DEF Master, Made
<1> HIDE DEF pvd
<1>8. /\ blk' \in Nat /\ blk' >= 16
      /\ IsPrimary(Master.descs[First]) \/ IsHighSierra(Master.descs[First])
      /\ dsc' \in Descs \cup {NoDesc}
      /\ dsc' = At(Master.descs, First, NoDesc)
  BY <1>1, <1>4, <1>5, <1>7 DEF At
<1>9. \A n \in First .. First - 1 : FALSE
  BY <1>4
<1> QED BY <1>4, <1>6, <1>8, <1>9 DEF IsoScanned

LEMMA SearchScans ==
  ASSUME VolumeInv, IsoinfoInv, UNCHANGED volvars, Search
  PROVE  IsoScanned'
<1> SUFFICES ASSUME ipc' = "scan", OfParms' PROVE IsoScanned'
  BY DEF IsoScanned
<1>1. /\ ipc = "scan" /\ GoesOn(dsc) /\ ~IsJoliet(dsc) /\ opt' = opt
      /\ blk' = Min2(blk + 1, LastSector(opt.img) + 1)
      /\ dsc' = ReadDesc(opt.img, opt.T + blk', dsc)
  BY DEF Search
<1>2. parms' = parms
  BY DEF volvars
<1>3. OfParms /\ opt.img = parms.img /\ opt.T = parms.iOffset
  BY <1>1, <1>2 DEF OfParms
<1> DEFINE m == Master
           i == parms.iOffset
<1>4. st = "mounted"
  BY <1>1 DEF IsoinfoInv, IsoProgress, Mounted
<1>5. /\ First \in Nat /\ First <= m.last /\ m.last \in Nat /\ i \in Nat
      /\ First = 16 + i /\ LastSector(parms.img) = m.last
  BY <1>4, FirstSector
<1>6. /\ blk \in Nat /\ blk >= 16
      /\ IsPrimary(m.descs[First]) \/ IsHighSierra(m.descs[First])
      /\ \A n \in First .. IsoPlace - 1 : n <= m.last => Passed(n)
      /\ dsc \in Descs \cup {NoDesc}
      /\ IsoPlace <= m.last => dsc = At(m.descs, IsoPlace, NoDesc)
  BY <1>1, <1>3 DEF IsoinfoInv, IsoScanned
<1>7. First' = First /\ Master' = Master
      /\ \A n : Passed(n)' <=> Passed(n)
  BY <1>2 DEF First, Master, Passed
<1>20. IsoPlace = i + blk /\ IsoPlace' = i + blk'
  BY <1>2 DEF IsoPlace
<1>8. IsoPlace <= m.last => Passed(IsoPlace)
  <2> SUFFICES ASSUME IsoPlace <= m.last PROVE Passed(IsoPlace)
    OBVIOUS
  <2>1. dsc = At(m.descs, IsoPlace, NoDesc) /\ dsc # NoDesc
    BY <1>1, <1>6, NoDescEnds
  <2>2. IsoPlace \in DOMAIN m.descs /\ dsc = m.descs[IsoPlace]
    BY <2>1 DEF At
  <2> QED BY <1>1, <2>2 DEF Passed
<1>9. parms.img \in DOMAIN Images /\ m = Masters[parms.img]
  BY <1>4 DEF VolumeInv, Attached, Master, Made
<1> HIDE DEF m
<1>10. blk' \in Nat /\ blk' >= 16 /\ blk' <= blk + 1
  <2>1. m.last >= 16
    BY <1>5
  <2>2. blk' = Min2(blk + 1, m.last + 1)
    BY <1>1, <1>3, <1>5
  <2> QED BY <1>5, <1>6, <2>1, <2>2 DEF Min2
<1>11. \A n \in First .. IsoPlace' - 1 : n <= m.last => Passed(n)
  <2> SUFFICES ASSUME NEW n \in First .. IsoPlace' - 1, n <= m.last PROVE Passed(n)
    OBVIOUS
  <2>1. /\ First \in Int /\ IsoPlace \in Int /\ IsoPlace' \in Int
        /\ IsoPlace' <= IsoPlace + 1
    <3>1. First \in Int /\ i \in Int /\ blk \in Int /\ blk' \in Int /\ blk' <= blk + 1
      BY <1>5, <1>6, <1>10
    <3> QED BY <1>2, <3>1 DEF IsoPlace
  <2>2. n \in First .. IsoPlace - 1 \/ n = IsoPlace
    BY <2>1, UpToNext
  <2> QED BY <1>6, <1>8, <2>2
<1>12. /\ dsc' = (IF IsoPlace' <= m.last THEN At(m.descs, IsoPlace', NoDesc) ELSE dsc)
       /\ At(m.descs, IsoPlace', NoDesc) \in Descs \cup {NoDesc}
  <2>1. IsoPlace' \in Nat
    <3>1. i \in Nat /\ blk' \in Nat
      BY <1>5, <1>10
    <3> QED BY <1>2, <3>1 DEF IsoPlace
  <2>2. dsc' = ReadDesc(parms.img, IsoPlace', dsc)
    BY <1>1, <1>3, <1>20
  <2> QED BY <1>9, <2>1, <2>2, DescRead
<1>13. dsc' \in Descs \cup {NoDesc}
  BY <1>6, <1>12
<1>14. IF IsoPlace' <= m.last THEN dsc' = At(m.descs, IsoPlace', NoDesc)
       ELSE GoesOn(dsc') /\ ~IsJoliet(dsc')
  BY <1>1, <1>12
<1> QED BY <1>6, <1>7, <1>10, <1>11, <1>13, <1>14 DEF IsoScanned, m

\* The volume and what it is made of
VolumeMade ==
  LET d == Master.descs[Used(Master, First)]
  IN  vol = NewVolume(parms, IsHighSierra(Master.descs[First]),
                      IF IsJoliet(d) THEN UcsLevel(d.esc) ELSE 0, d.root)

LEMMA VolumeIsMade ==
  ASSUME VolumeInv, st = "mounted"
  PROVE  /\ VolumeMade /\ Master = Masters[parms.img]
         /\ IsHighSierra(Master.descs[First]) => JolietFrom(Master, First) = {}
         /\ vol.ucs_level = 0 => JolietFrom(Master, First) = {}
         /\ JolietFrom(Master, First) = {} => Used(Master, First) = First
<1>1. vol = VolumeFor(parms) /\ JolietPreferred
  BY DEF VolumeInv, VolumeIs
<1>2. Master = Masters[parms.img]
  BY DEF Master, Made
<1>3. VolumeMade
  BY <1>1 DEF VolumeFor, VolumeMade, Master, First
<1>4. IsHighSierra(Master.descs[First]) => JolietFrom(Master, First) = {}
  <2> SUFFICES ASSUME IsHighSierra(Master.descs[First]),
                      NEW n \in JolietFrom(Master, First)
               PROVE  FALSE
    OBVIOUS
  <2>1. First \in Nat /\ DOMAIN Master.descs \subseteq 0 .. Master.last
    BY FirstSector
  <2>2. /\ n \in DOMAIN Master.descs /\ n >= First
        /\ \A s \in First .. n : GoesOn(Master.descs[s])
    BY DEF JolietFrom
  <2>3. First \in First .. n
    BY <2>1, <2>2
  <2>4. GoesOn(Master.descs[First])
    BY <2>2, <2>3
  <2> QED BY <2>4 DEF GoesOn, IsHighSierra
<1>5. vol.ucs_level = 0 => JolietFrom(Master, First) = {}
  <2>1. vol.ucs_level > 0 <=> JolietFrom(Master, First) # {}
    BY <1>1 DEF JolietPreferred, Mounted, First
  <2> QED BY <2>1
<1>6. JolietFrom(Master, First) = {} => Used(Master, First) = First
  BY DEF Used
<1> QED BY <1>2, <1>3, <1>4, <1>5, <1>6

\* The root directory isoinfo begins with is that of the volume.
LEMMA RootIsOpened ==
  ASSUME VolumeInv, IsoinfoInv, UNCHANGED volvars, OpenRoot, ipc' = "list", SameView'
  PROVE  disk' = vol /\ todo' = RootToDo(disk') /\ OfParms /\ ipc = "scan"
<1> DEFINE m == Master
           pvd == m.descs[First]
           used == Used(m, First)
           d == m.descs[used]
           ucs == IF IsJoliet(d) THEN UcsLevel(d.esc) ELSE 0
<1>1. ipc = "scan" /\ opt' = opt
  BY DEF OpenRoot
<1>2. parms' = parms /\ vol' = vol
  BY DEF volvars
<1>3. /\ opt.img = parms.img /\ opt.T = parms.iOffset
      /\ disk'.nls = vol.nls /\ disk'.ucs_level = vol.ucs_level
  BY <1>1, <1>2 DEF SameView
<1>4. OfParms
  BY <1>3 DEF OfParms
<1>5. st = "mounted"
  BY <1>1 DEF IsoinfoInv, IsoProgress, Mounted
<1>6. /\ First \in Nat /\ First <= m.last /\ m.last \in Nat /\ parms.iOffset \in Nat
      /\ First = 16 + parms.iOffset /\ ReadDesc(parms.img, First, NoDesc) = pvd
      /\ First \in DOMAIN m.descs /\ DOMAIN m.descs \subseteq 0 .. m.last
  BY <1>5, FirstSector
<1>7. ReadDesc(opt.img, 16 + opt.T, NoDesc) = pvd
  BY <1>3, <1>6
<1>8. /\ vol = NewVolume(parms, IsHighSierra(pvd), ucs, d.root)
      /\ IsHighSierra(pvd) => JolietFrom(m, First) = {}
      /\ vol.ucs_level = 0 => JolietFrom(m, First) = {}
      /\ JolietFrom(m, First) = {} => used = First
  BY <1>5, VolumeIsMade DEF VolumeMade
<1>9. /\ todo' = RootToDo(disk')
      /\ \/ IsHighSierra(pvd) /\ disk' = Described(TRUE, 0, pvd.root)
         \/ ~IsHighSierra(pvd) /\ disk' = Described(FALSE, 0, pvd.root)
         \/ /\ GoesOn(dsc) /\ IsJoliet(dsc)
            /\ disk' = Described(FALSE, UcsLevel(dsc.esc), dsc.root)
  BY <1>7 DEF OpenRoot
<1>10. ASSUME NEW hs, NEW u, NEW root, disk' = Described(hs, u, root),
              hs = IsHighSierra(pvd), root = d.root
       PROVE  disk' = vol
  <2>1. disk' = [img |-> opt.img, nls |-> NlsOption(opt.charset), high_sierra |-> hs,
                 ucs_level |-> u, iRootExtent |-> root.extent, iRootSize |-> root.size]
    BY <1>10 DEF Described
  <2>2. vol = [img |-> parms.img, nls |-> NlsFor(parms.charset),
               high_sierra |-> IsHighSierra(pvd), ucs_level |-> ucs,
               iRootExtent |-> d.root.extent, iRootSize |-> d.root.size]
    BY <1>8 DEF NewVolume
  <2>3. NlsOption(opt.charset) = NlsFor(parms.charset) /\ u = ucs
    <3> HIDE DEF ucs, d, pvd
    <3> QED BY <1>3, <2>1, <2>2
  <2> HIDE DEF ucs, d, pvd
  <2> QED BY <1>3, <1>10, <2>1, <2>2, <2>3
<1>11. CASE IsHighSierra(pvd) /\ disk' = Described(TRUE, 0, pvd.root)
  <2>1. d = pvd
    BY <1>8, <1>11
  <2>2. IsHighSierra(pvd) = TRUE
    BY <1>11 DEF IsHighSierra
  <2> QED BY <1>4, <1>1, <1>9, <1>10, <1>11, <2>1, <2>2
<1>12. CASE ~IsHighSierra(pvd) /\ disk' = Described(FALSE, 0, pvd.root)
  <2>1. disk'.ucs_level = 0
    BY <1>12 DEF Described
  <2>2. d = pvd
    BY <1>3, <1>8, <2>1
  <2>3. IsHighSierra(pvd) = FALSE
    BY <1>12 DEF IsHighSierra
  <2> QED BY <1>4, <1>1, <1>9, <1>10, <1>12, <2>2, <2>3
<1>13. CASE /\ GoesOn(dsc) /\ IsJoliet(dsc)
            /\ disk' = Described(FALSE, UcsLevel(dsc.esc), dsc.root)
  <2>1. /\ blk \in Nat /\ blk >= 16
        /\ \A n \in First .. IsoPlace - 1 : n <= m.last => Passed(n)
        /\ IF IsoPlace <= m.last THEN dsc = At(m.descs, IsoPlace, NoDesc)
           ELSE GoesOn(dsc) /\ ~IsJoliet(dsc)
    BY <1>1, <1>4 DEF IsoinfoInv, IsoScanned
  <2>2. IsoPlace <= m.last /\ dsc = At(m.descs, IsoPlace, NoDesc) /\ dsc # NoDesc
    BY <1>13, <2>1, NoDescEnds
  <2>3. IsoPlace \in DOMAIN m.descs /\ dsc = m.descs[IsoPlace]
    BY <2>2 DEF At
  <2>4. IsoPlace = parms.iOffset + blk
    BY DEF IsoPlace
  <2>5. IsoPlace \in Nat /\ First <= IsoPlace
    BY <1>6, <2>1, <2>4
  <2> HIDE DEF pvd, d, ucs
  <2>6. \A n \in First .. IsoPlace - 1 :
          n \in DOMAIN m.descs /\ GoesOn(m.descs[n]) /\ ~IsJoliet(m.descs[n])
    <3>1. \A n \in First .. IsoPlace - 1 : n <= m.last
      BY <1>6, <2>2, <2>5
    <3>2. \A n \in First .. IsoPlace - 1 : Passed(n)
      BY <2>1, <3>1
    <3> QED BY <3>2 DEF Passed
  <2>7. used = IsoPlace
    <3>1. First \in Int /\ IsoPlace \in Int /\ DOMAIN m.descs \subseteq Int
      BY <1>6, <2>5
    <3>2. GoesOn(m.descs[IsoPlace]) /\ IsJoliet(m.descs[IsoPlace])
      BY <1>13, <2>3
    <3>3. /\ JolietFrom(m, First) # {}
          /\ (CHOOSE n \in JolietFrom(m, First) :
                \A h \in JolietFrom(m, First) : n <= h) = IsoPlace
      BY <2>3, <2>5, <2>6, <3>1, <3>2, FirstOfThem
    <3> QED BY <3>3 DEF Used
  <2>8. d = dsc
    BY <2>3, <2>7 DEF d
  <2>9. GoesOn(pvd)
    <3>1. First = IsoPlace \/ First \in First .. IsoPlace - 1
      BY <1>6, <2>5
    <3> QED BY <1>13, <2>3, <2>6, <3>1 DEF pvd
  <2>10. IsHighSierra(pvd) = FALSE
    BY <2>9 DEF IsHighSierra, GoesOn
  <2> QED BY <1>4, <1>1, <1>9, <1>10, <1>13, <2>8, <2>10 DEF pvd
<1> QED BY <1>9, <1>11, <1>12, <1>13

\* A volume that is attached and listed is written so that it can be.
LEMMA VolumeListable ==
  ASSUME WrittenForIsoinfo(Attachments, Commands), TablesExact(Attachments),
         VolumeInv, st = "mounted", opt \in Commands, OfParms,
         IsPrimary(Master.descs[First]) \/ IsHighSierra(Master.descs[First])
  PROVE  \E dirs : Listable(vol, dirs)
<1>1. /\ parms \in Attachments /\ Mountable(parms)
      /\ vol = VolumeFor(parms) /\ vol.img = parms.img
      /\ vol.img \in DOMAIN Images /\ vol.ucs_level \in Nat /\ vol.iRootSize \in Nat
      /\ Master = Masters[vol.img] /\ Master = Made[parms.img]
  BY MountedVolume
<1>2. OfVolume(opt, parms)
  BY <1>1 DEF OfVolume, OfParms, First
<1>3. PICK dirs \in SUBSET DOMAIN Made[parms.img].dirs :
        WrittenToList(Made[parms.img], VolumeFor(parms), dirs)
  BY <1>1, <1>2 DEF WrittenForIsoinfo
<1>4. TableExact(Made[parms.img], VolumeFor(parms))
  BY <1>1 DEF TablesExact
<1>5. TableKnown(vol)
  <2>1. vol.nls = NlsFor(parms.charset)
    BY <1>1 DEF VolumeFor, NewVolume
  <2> QED BY <2>1 DEF TableKnown, NlsFor, load_nls, find_nls
<1> DEFINE m == Masters[vol.img]
<1>6. m = Made[parms.img] /\ vol = VolumeFor(parms)
  BY <1>1
<1>7. WrittenToList(m, vol, dirs) /\ TableExact(m, vol) /\ dirs \subseteq DOMAIN m.dirs
  BY <1>3, <1>4, <1>6
<1>8. Written(vol, dirs)
  BY <1>1, <1>7 DEF Written, WrittenToList
<1>9. Listable(vol, dirs)
  BY <1>5, <1>7, <1>8 DEF Listable, WrittenToList
<1> QED BY <1>9

-----------------------------------------------------------------------------
(* isoinfo step by step                                                     *)

\* Before isoinfo runs nothing is claimed of it.
LEMMA NotRunning ==
  ASSUME ipc = "off", todo = <<>>, buffer = <<>>, printed = <<>>, extracted = <<>>
  PROVE  IsoinfoInv
BY DEF IsoinfoInv, IsoProgress, IsoScanned, IsoListed

\* A step that goes on with the volume as it is
LEMMA StartKeeps ==
  ASSUME VolumeInv, IsoinfoInv, Mounted, UNCHANGED volvars, NEW o \in Commands,
         Start(o)
  PROVE  IsoinfoInv'
<1>1. /\ ipc = "off" /\ ipc' \in {"scan", "failed"} /\ opt' = o
      /\ UNCHANGED <<disk, todo, buffer, printed, extracted>>
  BY DEF Start, listvars
<1>2. Mounted' /\ st = "mounted"
  BY DEF volvars, Mounted
<1>3. IsoScanned'
  BY <1>2, StartScans
<1>4. IsoProgress'
  BY <1>1, <1>2 DEF IsoinfoInv, IsoProgress
<1>5. IsoListed'
  BY <1>1 DEF IsoListed
<1> QED BY <1>3, <1>4, <1>5 DEF IsoinfoInv

LEMMA SearchKeeps ==
  ASSUME VolumeInv, IsoinfoInv, Mounted, UNCHANGED volvars, Search
  PROVE  IsoinfoInv'
<1>1. /\ ipc = "scan"
      /\ UNCHANGED <<ipc, opt, disk, todo, buffer, printed, extracted>>
  BY DEF Search, listvars
<1>2. Mounted'
  BY DEF volvars, Mounted
<1>3. IsoScanned'
  BY SearchScans
<1>4. IsoProgress'
  BY <1>1, <1>2 DEF IsoinfoInv, IsoProgress
<1>5. IsoListed'
  BY <1>1 DEF IsoListed
<1> QED BY <1>3, <1>4, <1>5 DEF IsoinfoInv

LEMMA OpenRootKeeps ==
  ASSUME WrittenForIsoinfo(Attachments, Commands), TablesExact(Attachments),
         VolumeInv, IsoinfoInv, Mounted, UNCHANGED volvars, OpenRoot
  PROVE  IsoinfoInv'
<1>1. /\ ipc = "scan" /\ ipc' \in {"list", "failed"}
      /\ UNCHANGED <<opt, blk, dsc, buffer, printed, extracted>>
  BY DEF OpenRoot
<1>2. Mounted' /\ st = "mounted" /\ vol' = vol
  BY DEF volvars, Mounted
<1>3. opt \in Commands /\ buffer = <<>> /\ printed = <<>> /\ extracted = <<>>
  BY <1>1 DEF IsoinfoInv, IsoProgress
<1>4. IsoProgress'
  BY <1>1, <1>2, <1>3 DEF IsoProgress
<1>5. IsoScanned'
  BY <1>1 DEF IsoScanned
<1>6. IsoListed'
  <2> SUFFICES ASSUME ipc' = "list", SameView' PROVE IsoListed'
    BY <1>1 DEF IsoListed
  <2>1. disk' = vol /\ todo' = RootToDo(disk') /\ OfParms /\ ipc = "scan"
    BY RootIsOpened
  <2>2. IsPrimary(Master.descs[First]) \/ IsHighSierra(Master.descs[First])
    BY <2>1 DEF IsoinfoInv, IsoScanned
  <2>3. PICK dirs : Listable(vol, dirs)
    BY <1>2, <1>3, <2>1, <2>2, VolumeListable
  <2>4. opt.x \in Seq(Nat)
    BY <1>3, CommandsAssumption
  <2>5. Lists(vol, RootToDo(vol), <<>>, opt.x, <<>>)
    BY <2>3, <2>4, RootIsListed
  <2>6. /\ disk' = vol' /\ Lists(disk', todo', printed', opt'.x, extracted')
        /\ buffer' \in Seq(RecordTypes)
    BY <1>1, <1>2, <1>3, <2>1, <2>5
  <2> QED BY <2>6 DEF IsoListed
<1> QED BY <1>4, <1>5, <1>6 DEF IsoinfoInv

LEMMA ParseDirKeeps ==
  ASSUME VolumeInv, IsoinfoInv, Mounted, UNCHANGED volvars, ParseDir
  PROVE  IsoinfoInv'
<1>1. ipc = "list" /\ UNCHANGED <<ipc, opt, blk, dsc, disk, astray>>
  BY DEF ParseDir
<1>2. Mounted' /\ vol' = vol /\ parms' = parms
  BY DEF volvars, Mounted
<1>3. IsoProgress'
  BY <1>1, <1>2 DEF IsoinfoInv, IsoProgress
<1>4. IsoScanned'
  BY <1>1 DEF IsoScanned
<1>5. IsoListed'
  <2> SUFFICES ASSUME SameView', ~astray' PROVE IsoListed'
    BY DEF IsoListed
  <2>1. SameView
    BY <1>1, <1>2 DEF SameView
  <2>2. /\ disk = vol /\ Lists(disk, todo, printed, opt.x, extracted)
        /\ buffer \in Seq(RecordTypes)
    BY <1>1, <2>1 DEF IsoinfoInv, IsoListed
  <2>3. /\ Lists(disk, todo', printed', opt.x, extracted')
        /\ buffer' \in Seq(RecordTypes)
    BY <2>2, ParseDirLists
  <2>4. /\ disk' = vol' /\ Lists(disk', todo', printed', opt'.x, extracted')
        /\ buffer' \in Seq(RecordTypes)
    BY <1>1, <1>2, <2>2, <2>3
  <2> QED BY <2>4 DEF IsoListed
<1> QED BY <1>3, <1>4, <1>5 DEF IsoinfoInv

\* What follows a walk through freed memory is not claimed.
LEMMA AstrayKeeps ==
  ASSUME IsoinfoInv, Mounted, UNCHANGED volvars, ParseDirAstray
  PROVE  IsoinfoInv'
<1>1. /\ ipc = "list" /\ ipc' \in {"list", "failed"} /\ astray'
      /\ UNCHANGED <<opt, blk, dsc, disk>>
  BY DEF ParseDirAstray
<1>2. Mounted'
  BY DEF volvars, Mounted
<1>3. IsoProgress'
  BY <1>1, <1>2 DEF IsoinfoInv, IsoProgress
<1>4. IsoScanned' /\ IsoListed'
  BY <1>1 DEF IsoScanned, IsoListed
<1> QED BY <1>3, <1>4 DEF IsoinfoInv

LEMMA FinishKeeps ==
  ASSUME IsoinfoInv, Mounted, UNCHANGED volvars, Finish
  PROVE  IsoinfoInv'
<1>1. /\ ipc = "list" /\ ipc' = "done" /\ todo = <<>>
      /\ UNCHANGED <<opt, blk, dsc, disk, todo, astray, buffer, printed, extracted>>
  BY DEF Finish, listvars
<1>2. Mounted' /\ vol' = vol /\ parms' = parms
  BY DEF volvars, Mounted
<1>3. IsoProgress'
  BY <1>1, <1>2 DEF IsoinfoInv, IsoProgress
<1>4. IsoScanned'
  BY <1>1 DEF IsoScanned
<1>5. IsoListed'
  <2> SUFFICES ASSUME SameView', ~astray' PROVE IsoListed'
    BY DEF IsoListed
  <2>1. SameView
    BY <1>1, <1>2 DEF SameView
  <2>2. /\ disk = vol /\ Lists(disk, todo, printed, opt.x, extracted)
        /\ buffer \in Seq(RecordTypes)
    BY <1>1, <2>1 DEF IsoinfoInv, IsoListed
  <2>3. /\ disk' = vol' /\ Lists(disk', todo', printed', opt'.x, extracted')
        /\ buffer' \in Seq(RecordTypes)
    BY <1>1, <1>2, <2>2
  <2> QED BY <2>3 DEF IsoListed
<1> QED BY <1>3, <1>4, <1>5 DEF IsoinfoInv

LEMMA IsoinfoStutters ==
  ASSUME IsoinfoInv, UNCHANGED bothvars
  PROVE  IsoinfoInv'
<1>1. /\ UNCHANGED <<ipc, opt, blk, dsc, disk, todo, astray, buffer, printed,
                      extracted>>
      /\ UNCHANGED <<st, parms, block, jpd, vol, file, sfi_position, last>>
  BY DEF bothvars, volvars, isovars
<1>2. IsoProgress'
  BY <1>1 DEF IsoinfoInv, IsoProgress, Mounted
<1>3. First' = First /\ Master' = Master /\ IsoPlace' = IsoPlace
      /\ \A n : Passed(n)' <=> Passed(n)
  BY <1>1 DEF First, Master, IsoPlace, Passed
<1>4. IsoScanned'
  <2> SUFFICES ASSUME ipc' = "scan", OfParms' PROVE IsoScanned'
    BY DEF IsoScanned
  <2>1. ipc = "scan" /\ OfParms
    BY <1>1 DEF OfParms
  <2>2. /\ blk \in Nat /\ blk >= 16
        /\ IsPrimary(Master.descs[First]) \/ IsHighSierra(Master.descs[First])
        /\ \A n \in First .. IsoPlace - 1 : n <= Master.last => Passed(n)
        /\ dsc \in Descs \cup {NoDesc}
        /\ IF IsoPlace <= Master.last THEN dsc = At(Master.descs, IsoPlace, NoDesc)
           ELSE GoesOn(dsc) /\ ~IsJoliet(dsc)
    BY <2>1 DEF IsoinfoInv, IsoScanned
  <2> QED BY <1>1, <1>3, <2>2 DEF IsoScanned
<1>5. IsoListed'
  <2> SUFFICES ASSUME ipc' \in {"list", "done"}, SameView', ~astray'
             PROVE IsoListed'
    BY DEF IsoListed
  <2>1. SameView
    BY <1>1 DEF SameView
  <2>2. /\ disk = vol /\ Lists(disk, todo, printed, opt.x, extracted)
        /\ buffer \in Seq(RecordTypes)
    BY <1>1, <2>1 DEF IsoinfoInv, IsoListed
  <2>3. /\ disk' = vol' /\ Lists(disk', todo', printed', opt'.x, extracted')
        /\ buffer' \in Seq(RecordTypes)
    BY <1>1, <2>2
  <2> QED BY <2>3 DEF IsoListed
<1> QED BY <1>2, <1>4, <1>5 DEF IsoinfoInv

LEMMA IsoinfoKeeps ==
  ASSUME WrittenForIsoinfo(Attachments, Commands), TablesExact(Attachments),
         VolumeInv, IsoinfoInv, [BothNext]_bothvars
  PROVE  IsoinfoInv'
<1>1. CASE ipc = "off" /\ Next /\ UNCHANGED isovars
  <2>1. /\ ipc' = "off" /\ todo' = <<>> /\ buffer' = <<>> /\ printed' = <<>>
        /\ extracted' = <<>>
    BY <1>1 DEF isovars, IsoinfoInv, IsoProgress
  <2> QED BY <2>1 DEF IsoinfoInv, IsoProgress, IsoScanned, IsoListed
<1>2. CASE Mounted /\ INext /\ UNCHANGED volvars
  <2>1. ASSUME NEW o \in Commands, Start(o) PROVE IsoinfoInv'
    BY <1>2, <2>1, StartKeeps
  <2>2. CASE Search
    BY <1>2, <2>2, SearchKeeps
  <2>3. CASE OpenRoot
    BY <1>2, <2>3, OpenRootKeeps
  <2>4. CASE ParseDir
    BY <1>2, <2>4, ParseDirKeeps
  <2>5. CASE ParseDirAstray
    BY <1>2, <2>5, AstrayKeeps
  <2>6. CASE Finish
    BY <1>2, <2>6, FinishKeeps
  <2> QED BY <1>2, <2>1, <2>2, <2>3, <2>4, <2>5, <2>6 DEF INext
<1>3. CASE Again
  <2>1. /\ ipc' = "off" /\ todo' = <<>> /\ buffer' = <<>> /\ printed' = <<>>
        /\ extracted' = <<>>
    BY <1>3 DEF Again
  <2> QED BY <2>1 DEF IsoinfoInv, IsoProgress, IsoScanned, IsoListed
<1>4. CASE UNCHANGED bothvars
  BY <1>4, IsoinfoStutters
<1> QED BY <1>1, <1>2, <1>3, <1>4 DEF BothNext

\* What is left when isoinfo is done: every place of the volume has its line.
LEMMA DoneInState ==
  ASSUME VolumeInv, IsoinfoInv, ipc = "done", ~astray, Mounted, SameView
  PROVE  /\ Master = Masters[vol.img]
         /\ \E dirs, B, W :
              Listing(vol, dirs, B, W, <<>>, printed, opt.x, extracted, Nowhere, 0)
<1>1. st = "mounted"
  BY DEF Mounted
<1>2. Master = Masters[vol.img]
  BY <1>1, MountedVolume
<1>3. todo = <<>> /\ disk = vol /\ Lists(disk, todo, printed, opt.x, extracted)
  BY DEF IsoinfoInv, IsoProgress, IsoListed
<1>4. Lists(vol, <<>>, printed, opt.x, extracted)
  BY <1>3
<1> QED BY <1>2, <1>4 DEF Lists

LEMMA AgreesInState ==
  ASSUME VolumeInv, IsoinfoInv
  PROVE  IsoinfoAgrees
<1> SUFFICES ASSUME ipc = "done", ~astray, Mounted, SameView PROVE IsoinfoAgrees
  BY DEF IsoinfoAgrees
<1>1. Master = Masters[vol.img]
  BY DoneInState
<1>2. PICK dirs, B, W :
        Listing(vol, dirs, B, W, <<>>, printed, opt.x, extracted, Nowhere, 0)
  BY DoneInState
<1>3. W = Within(Masters[vol.img], vol.iRootExtent)
  BY <1>2, AllPlaces
<1>4. printed \in Seq(PrintedLines) /\ Len(printed) = Cardinality(W)
  BY <1>2 DEF Listing, LinesAre
<1>5. \A i \in 1 .. Len(printed) :
        isoQueryIsoEntryFromPath(vol, Shown(printed[i].name)).iExtent
          = printed[i].extent
  BY <1>2, LinesLead
<1>6. DOMAIN printed = 1 .. Len(printed)
  BY <1>4
<1> QED BY <1>1, <1>3, <1>4, <1>5, <1>6 DEF IsoinfoAgrees

LEMMA ExtractsInState ==
  ASSUME VolumeInv, IsoinfoInv
  PROVE  ExtractsContent
<1> SUFFICES ASSUME ipc = "done", ~astray, Mounted, SameView, opt.x # <<>>
             PROVE  ExtractsContent
  BY DEF ExtractsContent
<1>1. Master = Masters[vol.img]
  BY DoneInState
<1>2. PICK dirs, B, W :
        Listing(vol, dirs, B, W, <<>>, printed, opt.x, extracted, Nowhere, 0)
  BY DoneInState
<1>3. LET hits == {i \in DOMAIN printed : SameName(Tail(printed[i].name), opt.x)}
          k    == NodeOf(Masters[vol.img], vol, Shown(opt.x))
      IN  extracted
            = IF hits = {} \/ k.dir THEN <<>> ELSE BytesWritten(k.at, k.size)
  BY <1>2, FileIsWritten
<1> DEFINE hits == {i \in DOMAIN printed : SameName(Tail(printed[i].name), opt.x)}
           k == NodeOf(Master, vol, Shown(opt.x))
<1>4. extracted = IF hits = {} \/ k.dir THEN <<>> ELSE BytesWritten(k.at, k.size)
  BY <1>1, <1>3
<1> QED BY <1>4 DEF ExtractsContent, BytesWritten, BytesOf

\* While isoinfo runs, on a volume that is attached, it has listed some of the
\* directories of that volume, from the root on, and will list the others it has
\* met (main and parse_dir of isoinfo.c), as long as it has not appended one
\* through freed memory (astray).
THEOREM IsoinfoInvariant ==
  WrittenForIsoinfo(Attachments, Commands) /\ TablesExact(Attachments)
    => (BothSpec => []IsoinfoInv)
<1> SUFFICES ASSUME WrittenForIsoinfo(Attachments, Commands),
                    TablesExact(Attachments)
             PROVE  BothSpec => []IsoinfoInv
  OBVIOUS
<1>1. BothInit => IsoinfoInv
  BY NotRunning DEF BothInit, IInit
<1>2. VolumeInv /\ IsoinfoInv /\ [BothNext]_bothvars => IsoinfoInv'
  BY IsoinfoKeeps
<1> QED BY <1>1, <1>2, VolumeInvariant, PTL DEF BothSpec

\* On images that are written so that they can be listed, every line isoinfo
\* prints leads the daemon to the same extent, and there is one line for every
\* file and directory (parse_dir, isoQueryIsoEntryFromPath), unless the run has
\* gone through freed memory.
THEOREM IsoinfoShowsTheSame ==
  WrittenForIsoinfo(Attachments, Commands) /\ TablesExact(Attachments)
    => (BothSpec => []IsoinfoAgrees)
<1> SUFFICES ASSUME WrittenForIsoinfo(Attachments, Commands),
                    TablesExact(Attachments)
             PROVE  BothSpec => []IsoinfoAgrees
  OBVIOUS
<1>1. VolumeInv /\ IsoinfoInv => IsoinfoAgrees
  BY AgreesInState
<1> QED BY <1>1, VolumeInvariant, IsoinfoInvariant, PTL

\* On such images isoinfo -x writes the bytes of the file that is asked for, over
\* all its blocks and no further, and nothing if there is no such file or it has
\* 2^31 bytes or more (parse_dir, extract_file); again unless the run has gone
\* through freed memory.
THEOREM IsoinfoWritesContent ==
  WrittenForIsoinfo(Attachments, Commands) /\ TablesExact(Attachments)
    => (BothSpec => []ExtractsContent)
<1> SUFFICES ASSUME WrittenForIsoinfo(Attachments, Commands),
                    TablesExact(Attachments)
             PROVE  BothSpec => []ExtractsContent
  OBVIOUS
<1>1. VolumeInv /\ IsoinfoInv => ExtractsContent
  BY ExtractsInState
<1> QED BY <1>1, VolumeInvariant, IsoinfoInvariant, PTL
=============================================================================
