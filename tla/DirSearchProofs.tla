-------------------------- MODULE DirSearchProofs --------------------------
(***************************************************************************)
(* Proofs about DirSearch: a search gives every wanted entry once and in   *)
(* order, the positions it tells keep their distances, and it implements   *)
(* DirCursor; for any directories, searches, requests and sizes of         *)
(* buffers.                                                                *)
(***************************************************************************)
EXTENDS DirListing, DosNamesProofs, FiniteSetTheorems

-----------------------------------------------------------------------------
(* Records in a buffer *)

\* What a field is about
Place == [entry : Nat, pos : Nat]

FieldSet ==
  [kind : {"pos", "status", "easize", "fealist", "name"},
   of : Place, size : Nat]

Codes == {"NO_ERROR", "ERROR_BUFFER_OVERFLOW", "ERROR_EAS_DIDNT_FIT",
          "ERROR_EA_LIST_INCONSISTENT", "ERROR_FILENAME_EXCED_RANGE"}

\* out is one whole record about p, as the program expects it.
IsRecord(out, r, rc, p) ==
  /\ Len(out) = Len(Kinds(r, rc))
  /\ \A j \in 1 .. Len(out) : out[j].kind = Kinds(r, rc)[j]
  /\ out[Len(out)].of = p

\* Facts about sequences that the provers need said
LEMMA Joined ==
  ASSUME NEW S, NEW s \in Seq(S), NEW t \in Seq(S)
  PROVE  /\ s \o t \in Seq(S)
         /\ Len(s \o t) = Len(s) + Len(t)
         /\ \A m \in 1 .. Len(s) : (s \o t)[m] = s[m]
         /\ \A m \in 1 .. Len(t) : (s \o t)[Len(s) + m] = t[m]
  OBVIOUS

LEMMA Appended ==
  ASSUME NEW S, NEW s \in Seq(S), NEW e \in S
  PROVE  /\ Append(s, e) \in Seq(S)
         /\ Len(Append(s, e)) = Len(s) + 1
         /\ \A m \in 1 .. Len(s) : Append(s, e)[m] = s[m]
         /\ Append(s, e)[Len(s) + 1] = e
  OBVIOUS

\* The fields of a record, one by one
LEMMA KindsAre ==
  ASSUME NEW r, NEW rc, r.usLevel \in 1 .. 3, r.getpos \in BOOLEAN
  PROVE  LET k   == Kinds(r, rc)
             g   == IF r.getpos THEN 1 ELSE 0
             eas == r.usLevel = 2 \/ rc = "ERROR_EAS_DIDNT_FIT"
         IN  /\ r.getpos => k[1] = "pos"
             /\ k[g + 1] = "status"
             /\ r.usLevel = 1 => Len(k) = g + 2 /\ k[g + 2] = "name"
             /\ r.usLevel # 1 =>
                  /\ Len(k) = g + 3
                  /\ k[g + 2] = IF eas THEN "easize" ELSE "fealist"
                  /\ k[g + 3] = "name"
  <1> DEFINE eas  == IF r.usLevel = 2 \/ rc = "ERROR_EAS_DIDNT_FIT"
                     THEN "easize" ELSE "fealist"
             rest == IF r.usLevel = 1 THEN <<"status", "name">>
                     ELSE <<"status", eas, "name">>
             S    == {"pos", "status", "easize", "fealist", "name"}
  <1>1. /\ rest \in Seq(S) /\ <<"pos">> \in Seq(S)
        /\ rest[1] = "status"
        /\ r.usLevel = 1 => Len(rest) = 2 /\ rest[2] = "name"
        /\ r.usLevel # 1 => Len(rest) = 3 /\ rest[2] = eas /\ rest[3] = "name"
    <2>1. eas \in S
      OBVIOUS
    <2> HIDE DEF eas
    <2>2. /\ <<"status", "name">> \in Seq(S) /\ <<"status", eas, "name">> \in Seq(S)
          /\ <<"pos">> \in Seq(S)
      BY <2>1
    <2> QED BY <2>2
  <1>2. Kinds(r, rc) = IF r.getpos THEN <<"pos">> \o rest ELSE rest
    BY DEF Kinds
  <1> HIDE DEF rest, S
  <1>3. CASE r.getpos
    <2>1. /\ Kinds(r, rc)[1] = <<"pos">>[1]
          /\ Len(Kinds(r, rc)) = 1 + Len(rest)
          /\ \A m \in 1 .. Len(rest) : Kinds(r, rc)[1 + m] = rest[m]
      BY <1>1, <1>2, <1>3, Joined
    <2> QED BY <2>1, <1>1, <1>3
  <1>4. CASE ~r.getpos
    BY <1>1, <1>2, <1>4
  <1> QED BY <1>3, <1>4

LEMMA KindsLength ==
  ASSUME NEW r, NEW rc, r.usLevel \in 1 .. 3, r.getpos \in BOOLEAN
  PROVE  Len(Kinds(r, rc)) \in {2, 3, 4}
  BY KindsAre

\* What is read of the first records does not depend on what comes after them.
LEMMA RecordsKept ==
  ASSUME NEW r, NEW rc, r.usLevel \in 1 .. 3, r.getpos \in BOOLEAN,
         NEW n \in Nat,
         NEW fields \in Seq(FieldSet), NEW out \in Seq(FieldSet),
         Len(fields) = n * Len(Kinds(r, rc))
  PROVE  RecordsRead(fields \o out, r, rc, n) = RecordsRead(fields, r, rc, n)
  <1> DEFINE k == Len(Kinds(r, rc))
             Is(f, i) == /\ i * k <= Len(f)
                         /\ \A j \in 1 .. k : f[(i - 1) * k + j].kind
                                              = Kinds(r, rc)[j]
  <1>1. k \in {2, 3, 4}
    BY KindsLength
  <1>2. ASSUME NEW i \in 1 .. n
        PROVE  /\ i * k \in 1 .. Len(fields)
               /\ \A j \in 1 .. k : (i - 1) * k + j \in 1 .. Len(fields)
    <2>1. CASE k = 2 BY <2>1
    <2>2. CASE k = 3 BY <2>2
    <2>3. CASE k = 4 BY <2>3
    <2> QED BY <1>1, <2>1, <2>2, <2>3
  <1>3. /\ Len(fields \o out) = Len(fields) + Len(out)
        /\ \A m \in 1 .. Len(fields) : (fields \o out)[m] = fields[m]
    OBVIOUS
  <1>4. Len(fields) \in Nat /\ Len(out) \in Nat
    OBVIOUS
  <1>5. ASSUME NEW i \in 1 .. n
        PROVE  /\ (fields \o out)[i * k] = fields[i * k]
               /\ Is(fields \o out, i) <=> Is(fields, i)
    <2> HIDE DEF k
    <2>1. (fields \o out)[i * k] = fields[i * k]
      BY <1>2, <1>3
    <2>2. \A j \in 1 .. k : (fields \o out)[(i - 1) * k + j]
                             = fields[(i - 1) * k + j]
      BY <1>2, <1>3
    <2>3. i * k <= Len(fields \o out) /\ i * k <= Len(fields)
      BY <1>2, <1>3, <1>4
    <2> QED BY <2>1, <2>2, <2>3
  <1> HIDE DEF k
  <1> QED BY <1>5 DEF RecordsRead, k

\* What is read are places.
LEMMA RecordsTyped ==
  ASSUME NEW r, NEW rc, r.usLevel \in 1 .. 3, r.getpos \in BOOLEAN,
         NEW n \in Nat, NEW fields \in Seq(FieldSet)
  PROVE  /\ RecordsRead(fields, r, rc, n) \in Seq(Place)
         /\ Len(RecordsRead(fields, r, rc, n)) = n
  <1> DEFINE k == Len(Kinds(r, rc))
  <1>1. k \in {2, 3, 4}
    BY KindsLength
  <1>2. [entry |-> 0, pos |-> 0] \in Place
    BY DEF Place
  <1>3. ASSUME NEW i \in 1 .. n, i * k <= Len(fields)
        PROVE  fields[i * k].of \in Place
    <2>1. i * k \in 1 .. Len(fields)
      <3>1. CASE k = 2 BY <3>1, <1>3
      <3>2. CASE k = 3 BY <3>2, <1>3
      <3>3. CASE k = 4 BY <3>3, <1>3
      <3> QED BY <1>1, <3>1, <3>2, <3>3
    <2>2. fields[i * k] \in FieldSet
      BY <2>1
    <2> QED BY <2>2 DEF FieldSet
  <1> HIDE DEF k
  <1>4. RecordsRead(fields, r, rc, n) \in [1 .. n -> Place]
    BY <1>2, <1>3 DEF RecordsRead, k
  <1> QED BY <1>4

\* A record more in the buffer is a record more that is read.
LEMMA RecordsGrow ==
  ASSUME NEW r, NEW rc, r.usLevel \in 1 .. 3, r.getpos \in BOOLEAN,
         NEW n \in Nat, NEW p \in Place,
         NEW fields \in Seq(FieldSet), NEW out \in Seq(FieldSet),
         Len(fields) = n * Len(Kinds(r, rc)), IsRecord(out, r, rc, p)
  PROVE  RecordsRead(fields \o out, r, rc, n + 1)
           = Append(RecordsRead(fields, r, rc, n), p)
  <1> DEFINE k == Len(Kinds(r, rc))
             all == fields \o out
             R(m) == RecordsRead(all, r, rc, m)
  <1>1. k \in {2, 3, 4}
    BY KindsLength
  <1>2. /\ Len(all) = Len(fields) + k
        /\ \A m \in 1 .. k : all[Len(fields) + m] = out[m]
    <2>1. Len(out) = k
      BY DEF IsRecord
    <2> HIDE DEF k
    <2> QED BY <2>1
  <1>0. all \in Seq(FieldSet) /\ n + 1 \in Nat
    OBVIOUS
  <1>3. R(n) \in Seq(Place) /\ Len(R(n)) = n
    <2> HIDE DEF all
    <2> QED BY <1>0, RecordsTyped
  <1>4. R(n) = RecordsRead(fields, r, rc, n)
    BY RecordsKept
  <1>5. /\ (n + 1) * k = Len(fields) + k
        /\ ((n + 1) - 1) * k = Len(fields)
    <2>1. CASE k = 2 BY <2>1
    <2>2. CASE k = 3 BY <2>2
    <2>3. CASE k = 4 BY <2>3
    <2> QED BY <1>1, <2>1, <2>2, <2>3
  <1>6. R(n + 1)[n + 1] = p
    <2>1. all[(n + 1) * k] = out[k] /\ out[k].of = p
      BY <1>1, <1>2, <1>5 DEF IsRecord
    <2>2. \A j \in 1 .. k : all[((n + 1) - 1) * k + j].kind = Kinds(r, rc)[j]
      BY <1>2, <1>5 DEF IsRecord
    <2>3. (n + 1) * k <= Len(all)
      BY <1>2, <1>5
    <2>4. n + 1 \in 1 .. n + 1
      OBVIOUS
    <2> HIDE DEF k, all
    <2> QED BY <2>1, <2>2, <2>3, <2>4 DEF RecordsRead, k
  <1>7. /\ R(n + 1) \in Seq(Place) /\ Len(R(n + 1)) = n + 1
    <2> HIDE DEF all
    <2> QED BY <1>0, RecordsTyped
  <1>8. \A i \in 1 .. n : R(n + 1)[i] = R(n)[i]
    <2> HIDE DEF all
    <2> QED BY DEF RecordsRead
  <1> HIDE DEF R, all
  <1>9. /\ Append(R(n), p) \in Seq(Place) /\ Len(Append(R(n), p)) = n + 1
        /\ \A i \in 1 .. n : Append(R(n), p)[i] = R(n)[i]
        /\ Append(R(n), p)[n + 1] = p
    BY <1>3, Appended
  <1>10. \A i \in 1 .. n + 1 : R(n + 1)[i] = Append(R(n), p)[i]
    BY <1>6, <1>8, <1>9
  <1>11. R(n + 1) = Append(R(n), p)
    BY <1>7, <1>9, <1>10
  <1> QED BY <1>4, <1>11 DEF R, all

-----------------------------------------------------------------------------
(* What storeFileInfo writes *)

\* What the elements of a list of names take, one by one
Elements(names, more) == [n \in 1 .. Len(names) |-> names[n] + more]

\* Where the elements of a list end
LEMMA EndOfIs ==
  ASSUME NEW names \in Seq(Nat), NEW more \in Nat, NEW k \in 0 .. Len(names)
  PROVE  /\ \A f \in Totals(Len(names), 4, Elements(names, more)) :
              EndOf(names, more, k) = f[k]
         /\ EndOf(names, more, k) \in Nat
  <1> DEFINE t == [n \in 1 .. k |-> names[n] + more]
             Body(f) == [n \in 0 .. k |->
                           IF n = 0 THEN 4 ELSE f[n - 1] + (names[n] + more)]
             p == CHOOSE f : f = Body(f)
             e == Elements(names, more)
             L == Len(names)
  <1>1. k \in Nat /\ t \in [1 .. k -> Nat] /\ L \in Nat /\ 4 \in Nat /\ k <= L
        /\ k <= k
    OBVIOUS
  <1>2. PICK g : g \in Totals(k, 4, t)
    <2> HIDE DEF t
    <2> QED BY <1>1, TotalsExist
  <1>3. g = Body(g)
    BY <1>2 DEF Totals
  <1>4. p = Body(p)
    <2> HIDE DEF Body
    <2> QED BY <1>3
  <1>5. EndOf(names, more, k) = p[k]
    BY DEF EndOf
  <1> HIDE DEF p
  <1>6. p = [n \in 0 .. k |-> IF n = 0 THEN 4 ELSE p[n - 1] + t[n]]
    BY <1>4
  <1>7. \A n \in 1 .. k : e[n] = t[n]
    BY DEF Elements
  <1> HIDE DEF t, Body, e, L
  <1>8. p \in Totals(k, 4, t)
    BY <1>1, <1>6, TotalsMeet
  <1>9. p[k] \in Nat
    BY <1>1, <1>8 DEF Totals
  <1>10. ASSUME NEW f \in Totals(L, 4, e) PROVE f[k] = p[k]
    <2>1. \A n \in 0 .. k : f[n] = p[n]
      <3>1. k \in 0 .. L /\ L \in Nat
        BY <1>1
      <3>2. \A n \in 1 .. k : e[n] = t[n]
        BY <1>7
      <3> QED BY <1>8, <3>1, <3>2, TotalsAgree
    <2> QED BY <1>1, <2>1
  <1> QED BY <1>5, <1>9, <1>10 DEF e, L

\* The program's list of names ends within a name.
Torn(pgeas) ==
  /\ pgeas # NoGeas
  /\ \/ pgeas.cbList < 4
     \/ \E k \in DOMAIN pgeas.names :
          /\ EndOf(pgeas.names, GEABytes, k - 1) < pgeas.cbList
          /\ EndOf(pgeas.names, GEABytes, k) > pgeas.cbList

\* Whether a list of names is damaged does not depend on the room there is.
LEMMA ListStored ==
  ASSUME NEW r \in Requests, NEW cb
  PROVE  LET eas == storeEAsInFEAList(r.pgeas, cb)
         IN  /\ eas.rc \in {"NO_ERROR", "ERROR_BUFFER_OVERFLOW",
                            "ERROR_EA_LIST_INCONSISTENT"}
             /\ eas.cbList \in Nat
             /\ eas.rc = "NO_ERROR" => ~Torn(r.pgeas)
             /\ eas.rc = "ERROR_EA_LIST_INCONSISTENT" => Torn(r.pgeas)
  <1> DEFINE names   == r.pgeas.names
             taken   == {k \in DOMAIN names :
                           EndOf(names, GEABytes, k - 1) < r.pgeas.cbList}
             torn    == {k \in taken : EndOf(names, GEABytes, k) > r.pgeas.cbList}
             tooMuch == {k \in taken : EndOf(names, EABytes, k) > cb}
             eas     == storeEAsInFEAList(r.pgeas, cb)
             inconsistent == \/ r.pgeas.cbList < 4
                             \/ \E k \in torn : \A j \in tooMuch : k <= j
  <1>1. names \in Seq(Nat)
    BY RequestsAssumption
  <1>2. Cardinality(taken) \in 0 .. Len(names)
    <2>1. IsFiniteSet(1 .. Len(names)) /\ DOMAIN names = 1 .. Len(names)
      BY <1>1, FS_Interval
    <2>2. taken \subseteq 1 .. Len(names)
      BY <2>1
    <2> HIDE DEF taken
    <2>3. IsFiniteSet(taken) /\ Cardinality(taken) <= Cardinality(1 .. Len(names))
      BY <2>1, <2>2, FS_Subset
    <2>4. Cardinality(1 .. Len(names)) = Len(names)
      BY <1>1, FS_Interval
    <2>5. Cardinality(taken) \in Nat
      BY <2>3, FS_CardinalityType
    <2> QED BY <1>1, <2>3, <2>4, <2>5
  <1>3. eas = IF cb < 4 THEN [rc |-> "ERROR_BUFFER_OVERFLOW", cbList |-> 0]
              ELSE IF r.pgeas = NoGeas THEN [rc |-> "NO_ERROR", cbList |-> 4]
              ELSE IF inconsistent
              THEN [rc |-> "ERROR_EA_LIST_INCONSISTENT", cbList |-> 0]
              ELSE IF tooMuch # {}
              THEN [rc |-> "ERROR_BUFFER_OVERFLOW", cbList |-> 0]
              ELSE [rc |-> "NO_ERROR",
                    cbList |-> EndOf(names, EABytes, Cardinality(taken))]
    BY DEF storeEAsInFEAList
  <1>4. torn = {k \in DOMAIN names :
                  /\ EndOf(names, GEABytes, k - 1) < r.pgeas.cbList
                  /\ EndOf(names, GEABytes, k) > r.pgeas.cbList}
    OBVIOUS
  <1>5. inconsistent /\ r.pgeas # NoGeas => Torn(r.pgeas)
    BY DEF Torn
  <1>6. ~inconsistent /\ tooMuch = {} => ~Torn(r.pgeas)
    BY DEF Torn
  <1>7. r.pgeas = NoGeas => ~Torn(r.pgeas)
    BY DEF Torn
  <1>8. EndOf(names, EABytes, Cardinality(taken)) \in Nat
    <2>1. EABytes \in Nat
      BY DEF EABytes, FEASize
    <2> HIDE DEF taken, names
    <2> QED BY <1>1, <1>2, <2>1, EndOfIs
  <1>9. 0 \in Nat /\ 4 \in Nat
    OBVIOUS
  <1> HIDE DEF inconsistent, tooMuch, taken, torn, eas
  <1>10. /\ eas.rc \in {"NO_ERROR", "ERROR_BUFFER_OVERFLOW",
                        "ERROR_EA_LIST_INCONSISTENT"}
         /\ eas.cbList \in Nat
    BY <1>3, <1>8, <1>9
  <1>11. eas.rc = "NO_ERROR" => ~Torn(r.pgeas)
    BY <1>3, <1>6, <1>7
  <1>12. eas.rc = "ERROR_EA_LIST_INCONSISTENT" => Torn(r.pgeas)
    BY <1>3, <1>5
  <1> QED BY <1>10, <1>11, <1>12 DEF eas

LEMMA PutIs ==
  ASSUME NEW s, NEW f \in FieldSet, s.out \in Seq(FieldSet), s.rc \in Codes
  PROVE  LET t == Put(s, f)
         IN  /\ t.out \in Seq(FieldSet) /\ t.rc \in Codes
             /\ t.rc = "NO_ERROR" => /\ s.rc = "NO_ERROR"
                                     /\ t.out = Append(s.out, f)
             /\ t.rc \in {s.rc, "ERROR_BUFFER_OVERFLOW"}
  BY DEF Put, Codes

LEMMA EndedIs ==
  ASSUME NEW s, NEW rc
  PROVE  /\ Ended(s, rc).out = s.out
         /\ Ended(s, rc).rc = IF s.rc = "NO_ERROR" THEN rc ELSE s.rc
  BY DEF Ended

\* When all fields of an entry have been stored, they are the record that the
\* program expects; a list of names is damaged for every entry or for none.
LEMMA StoredFields ==
  ASSUME NEW r \in Requests, NEW p \in Place, NEW cbName \in Nat, NEW cb
  PROVE  LET s == storeFileInfo(r.pgeas, p, cbName, cb, r.usLevel, r.getpos)
         IN  /\ s.out \in Seq(FieldSet) /\ s.rc \in Codes
             /\ s.rc \in {"NO_ERROR", "ERROR_EAS_DIDNT_FIT"}
                  => IsRecord(s.out, r, s.rc, p)
             /\ s.rc = "NO_ERROR" /\ r.usLevel = 3 => ~Torn(r.pgeas)
             /\ s.rc = "ERROR_EA_LIST_INCONSISTENT"
                  => r.usLevel = 3 /\ Torn(r.pgeas)
             /\ s.rc = "ERROR_FILENAME_EXCED_RANGE" => cbName > 255
  <1> DEFINE
    g        == IF r.getpos THEN 1 ELSE 0
    start    == [rc |-> "NO_ERROR", cb |-> cb, out |-> <<>>]
    fpos     == Field("pos", p, PosSize)
    fstatus  == Field("status", p, StatusSize)
    fsize    == Field("easize", p, EASizeSize)
    fname    == Field("name", p, cbName + 2)
    pos      == IF r.getpos THEN Put(start, fpos) ELSE start
    status   == Put(pos, fstatus)
    eas      == storeEAsInFEAList(r.pgeas, status.cb)
    flist    == Field("fealist", p, eas.cbList)
    didntFit == r.usLevel = 3 /\ eas.rc = "ERROR_BUFFER_OVERFLOW"
    ea       == IF r.usLevel = 2 \/ didntFit THEN Put(status, fsize)
                ELSE IF r.usLevel # 3 THEN status
                ELSE IF eas.rc = "NO_ERROR" THEN Put(status, flist)
                ELSE Ended(status, eas.rc)
    name     == IF cbName > 255 THEN Ended(ea, "ERROR_FILENAME_EXCED_RANGE")
                ELSE Put(ea, fname)
    final    == IF didntFit THEN "ERROR_EAS_DIDNT_FIT" ELSE "NO_ERROR"
    s        == storeFileInfo(r.pgeas, p, cbName, cb, r.usLevel, r.getpos)
  <1>1. s = Ended(name, final)
    BY DEF storeFileInfo
  <1>2. r.usLevel \in 1 .. 3 /\ r.getpos \in BOOLEAN
    BY RequestsAssumption
  <1>3. /\ eas.rc \in {"NO_ERROR", "ERROR_BUFFER_OVERFLOW",
                       "ERROR_EA_LIST_INCONSISTENT"}
        /\ eas.cbList \in Nat
        /\ eas.rc = "NO_ERROR" => ~Torn(r.pgeas)
        /\ eas.rc = "ERROR_EA_LIST_INCONSISTENT" => Torn(r.pgeas)
    BY ListStored
  <1> HIDE DEF eas
  <1>4. /\ fpos \in FieldSet /\ fstatus \in FieldSet /\ fsize \in FieldSet
        /\ fname \in FieldSet /\ flist \in FieldSet
        /\ fpos.kind = "pos" /\ fstatus.kind = "status" /\ fsize.kind = "easize"
        /\ fname.kind = "name" /\ fname.of = p /\ flist.kind = "fealist"
    <2>1. PosSize \in Nat /\ StatusSize \in Nat /\ EASizeSize \in Nat
          /\ cbName + 2 \in Nat
      BY DEF PosSize, StatusSize, EASizeSize
    <2> QED BY <1>3, <2>1 DEF FieldSet, Field
  <1> HIDE DEF fpos, fstatus, fsize, fname, flist, didntFit
  <1>5. /\ pos.out \in Seq(FieldSet) /\ pos.rc \in Codes
        /\ pos.rc \in {"NO_ERROR", "ERROR_BUFFER_OVERFLOW"}
        /\ pos.rc = "NO_ERROR" => /\ Len(pos.out) = g
                                  /\ r.getpos => pos.out[1].kind = "pos"
    <2>1. start.out \in Seq(FieldSet) /\ start.rc \in Codes
          /\ start.rc = "NO_ERROR" /\ Len(start.out) = 0
      BY DEF Codes
    <2> HIDE DEF start
    <2>2. CASE r.getpos
      <3>1. pos = Put(start, fpos) /\ g = 1
        BY <2>2
      <3>2. Len(start.out) + 1 = 1
        BY <2>1
      <3> HIDE DEF pos, g
      <3>3. pos.rc = "NO_ERROR" => pos.out = Append(start.out, fpos)
        BY <1>4, <2>1, <3>1, PutIs
      <3>4. /\ Len(Append(start.out, fpos)) = 1
            /\ Append(start.out, fpos)[1] = fpos
        BY <1>4, <2>1, <3>2, Appended
      <3>5. /\ pos.out \in Seq(FieldSet) /\ pos.rc \in Codes
            /\ pos.rc \in {"NO_ERROR", "ERROR_BUFFER_OVERFLOW"}
        BY <1>4, <2>1, <3>1, PutIs
      <3> QED BY <1>4, <3>1, <3>3, <3>4, <3>5
    <2>3. CASE ~r.getpos
      BY <2>1, <2>3
    <2> QED BY <1>2, <2>2, <2>3
  <1> HIDE DEF pos
  <1>6. /\ status.out \in Seq(FieldSet) /\ status.rc \in Codes
        /\ status.rc \in {"NO_ERROR", "ERROR_BUFFER_OVERFLOW"}
        /\ status.rc = "NO_ERROR" => /\ Len(status.out) = g + 1
                                     /\ r.getpos => status.out[1].kind = "pos"
                                     /\ status.out[g + 1].kind = "status"
    BY <1>2, <1>4, <1>5, PutIs, Appended
  <1> HIDE DEF status
  <1>7. /\ ea.out \in Seq(FieldSet) /\ ea.rc \in Codes
        /\ ea.rc \in {"NO_ERROR", "ERROR_BUFFER_OVERFLOW",
                      "ERROR_EA_LIST_INCONSISTENT"}
        /\ ea.rc = "ERROR_EA_LIST_INCONSISTENT"
             => r.usLevel = 3 /\ Torn(r.pgeas)
        /\ ea.rc = "NO_ERROR" =>
             /\ r.getpos => ea.out[1].kind = "pos"
             /\ ea.out[g + 1].kind = "status"
             /\ r.usLevel = 1 => Len(ea.out) = g + 1
             /\ r.usLevel # 1 =>
                  /\ Len(ea.out) = g + 2
                  /\ ea.out[g + 2].kind = IF r.usLevel = 2 \/ didntFit
                                          THEN "easize" ELSE "fealist"
             /\ r.usLevel = 3 /\ ~didntFit => ~Torn(r.pgeas)
    <2>1. CASE r.usLevel = 2 \/ didntFit
      <3>1. ea = Put(status, fsize)
        BY <2>1
      <3>2. r.usLevel # 1
        BY <2>1 DEF didntFit
      <3> HIDE DEF ea
      <3> QED BY <1>2, <1>4, <1>6, <2>1, <3>1, <3>2, PutIs, Appended
    <2>2. CASE r.usLevel = 1
      <3>1. ea = status /\ ~didntFit
        BY <2>2 DEF didntFit
      <3> HIDE DEF ea
      <3> QED BY <1>6, <2>2, <3>1
    <2>3. CASE r.usLevel = 3 /\ eas.rc = "NO_ERROR"
      <3>1. ea = Put(status, flist) /\ ~didntFit
        BY <2>3 DEF didntFit
      <3> HIDE DEF ea
      <3> QED BY <1>2, <1>3, <1>4, <1>6, <2>3, <3>1, PutIs, Appended
    <2>4. CASE r.usLevel = 3 /\ eas.rc = "ERROR_EA_LIST_INCONSISTENT"
      <3>1. ea = Ended(status, eas.rc) /\ ~didntFit
        BY <2>4 DEF didntFit
      <3> HIDE DEF ea
      <3> QED BY <1>3, <1>6, <2>4, <3>1, EndedIs DEF Codes
    <2> QED BY <1>2, <1>3, <2>1, <2>2, <2>3, <2>4 DEF didntFit
  <1> HIDE DEF ea
  <1>8. /\ name.out \in Seq(FieldSet) /\ name.rc \in Codes
        /\ name.rc \in {ea.rc, "ERROR_BUFFER_OVERFLOW",
                        "ERROR_FILENAME_EXCED_RANGE"}
        /\ name.rc = "ERROR_FILENAME_EXCED_RANGE" => cbName > 255
        /\ name.rc = "NO_ERROR" =>
             /\ ea.rc = "NO_ERROR"
             /\ Len(name.out) = Len(ea.out) + 1
             /\ \A i \in 1 .. Len(ea.out) : name.out[i] = ea.out[i]
             /\ name.out[Len(ea.out) + 1] = fname
    <2>1. CASE cbName > 255
      <3>1. name = Ended(ea, "ERROR_FILENAME_EXCED_RANGE")
        BY <2>1
      <3> HIDE DEF name
      <3> QED BY <1>7, <2>1, <3>1, EndedIs DEF Codes
    <2>2. CASE ~(cbName > 255)
      <3>1. name = Put(ea, fname)
        BY <2>2
      <3> HIDE DEF name
      <3> QED BY <1>4, <1>7, <2>2, <3>1, PutIs, Appended
    <2> QED BY <2>1, <2>2
  <1> HIDE DEF name, s
  <1>9. s.out = name.out /\ s.rc = IF name.rc = "NO_ERROR" THEN final
                                   ELSE name.rc
    BY <1>1, EndedIs
  <1>10. ASSUME name.rc = "NO_ERROR"
         PROVE  IsRecord(s.out, r, final, p)
    <2>1. (r.usLevel = 2 \/ final = "ERROR_EAS_DIDNT_FIT")
            <=> (r.usLevel = 2 \/ didntFit)
      OBVIOUS
    <2>2. g \in {0, 1} /\ (r.getpos => g = 1)
      BY <1>2
    <2> HIDE DEF final
    <2>3. LET k == Kinds(r, final)
          IN  /\ r.getpos => k[1] = "pos"
              /\ k[g + 1] = "status"
              /\ r.usLevel = 1 => Len(k) = g + 2 /\ k[g + 2] = "name"
              /\ r.usLevel # 1 =>
                   /\ Len(k) = g + 3
                   /\ k[g + 2] = IF r.usLevel = 2 \/ didntFit
                                 THEN "easize" ELSE "fealist"
                   /\ k[g + 3] = "name"
      BY <1>2, <2>1, KindsAre
    <2>4. /\ Len(s.out) = Len(Kinds(r, final))
          /\ s.out[Len(s.out)] = fname
      <3> HIDE DEF g
      <3>1. Len(s.out) = Len(ea.out) + 1 /\ s.out[Len(ea.out) + 1] = fname
        BY <1>8, <1>9, <1>10
      <3>2. CASE r.usLevel = 1
        BY <1>7, <1>8, <1>10, <2>2, <2>3, <3>1, <3>2
      <3>3. CASE r.usLevel # 1
        BY <1>7, <1>8, <1>10, <2>2, <2>3, <3>1, <3>3
      <3> QED BY <3>2, <3>3
    <2>5. ASSUME NEW j \in 1 .. Len(s.out)
          PROVE  s.out[j].kind = Kinds(r, final)[j]
      <3>1. CASE r.usLevel = 1
        BY <1>2, <1>4, <1>7, <1>8, <1>9, <1>10, <2>2, <2>3, <2>4, <3>1
      <3>2. CASE r.usLevel # 1
        BY <1>2, <1>4, <1>7, <1>8, <1>9, <1>10, <2>2, <2>3, <2>4, <3>2
      <3> QED BY <3>1, <3>2
    <2> QED BY <1>4, <2>4, <2>5 DEF IsRecord
  <1>11. didntFit => r.usLevel = 3
    BY DEF didntFit
  <1>12. s.out \in Seq(FieldSet) /\ s.rc \in Codes
    BY <1>8, <1>9 DEF Codes
  <1>13. s.rc \in {"NO_ERROR", "ERROR_EAS_DIDNT_FIT"}
           => name.rc = "NO_ERROR" /\ s.rc = final
    BY <1>7, <1>8, <1>9
  <1>14. s.rc = "NO_ERROR" /\ r.usLevel = 3 => ~Torn(r.pgeas)
    BY <1>7, <1>8, <1>9
  <1>15. s.rc = "ERROR_EA_LIST_INCONSISTENT" => r.usLevel = 3 /\ Torn(r.pgeas)
    BY <1>7, <1>8, <1>9
  <1>16. s.rc = "ERROR_FILENAME_EXCED_RANGE" => cbName > 255
    BY <1>7, <1>8, <1>9
  <1> HIDE DEF final
  <1> QED BY <1>10, <1>12, <1>13, <1>14, <1>15, <1>16 DEF s

-----------------------------------------------------------------------------
(* How much room is left *)

SizesOf(fields) == [n \in 1 .. Len(fields) |-> fields[n].size]

LEMMA SizesTyped ==
  ASSUME NEW s \in Seq(FieldSet)
  PROVE  SizesOf(s) \in [1 .. Len(s) -> Nat]
  <1>1. \A n \in 1 .. Len(s) : s[n] \in FieldSet
    OBVIOUS
  <1>2. \A e \in FieldSet : e.size \in Nat
    BY DEF FieldSet
  <1>3. \A n \in 1 .. Len(s) : s[n].size \in Nat
    BY <1>1, <1>2
  <1> QED BY <1>3 DEF SizesOf

\* The bytes of a buffer are the total of its fields'.
LEMMA BytesIs ==
  ASSUME NEW s \in Seq(FieldSet)
  PROVE  \E f : /\ f \in Totals(Len(s), 0, SizesOf(s))
                /\ Bytes(s) = f[Len(s)]
  <1> DEFINE L == Len(s)
             t == SizesOf(s)
             Body(f) == [n \in 0 .. L |-> IF n = 0 THEN 0 ELSE f[n - 1] + s[n].size]
             p == CHOOSE f : f = Body(f)
  <1>1. L \in Nat /\ 0 \in Nat
    OBVIOUS
  <1>2. t \in [1 .. L -> Nat]
    BY SizesTyped
  <1>3. PICK g : g \in Totals(L, 0, t)
    <2> HIDE DEF t, L
    <2> QED BY <1>1, <1>2, TotalsExist
  <1>4. g = Body(g)
    BY <1>3 DEF Totals, SizesOf
  <1>5. p = Body(p)
    <2> HIDE DEF Body
    <2> QED BY <1>4
  <1>6. Bytes(s) = p[L]
    BY DEF Bytes
  <1> HIDE DEF p
  <1>7. p = [n \in 0 .. L |-> IF n = 0 THEN 0 ELSE p[n - 1] + t[n]]
    BY <1>5 DEF SizesOf
  <1> HIDE DEF t, L
  <1>8. p \in Totals(L, 0, t)
    BY <1>1, <1>2, <1>7, TotalsMeet
  <1> QED BY <1>6, <1>8 DEF t, L

\* Two ways to write the same bytes
LEMMA BytesGrow ==
  ASSUME NEW s \in Seq(FieldSet), NEW e \in FieldSet
  PROVE  Bytes(s) \in Nat /\ Bytes(Append(s, e)) = Bytes(s) + e.size
  <1> DEFINE u == Append(s, e)
             L == Len(s)
             t == SizesOf(s)
             v == SizesOf(u)
  <1>1. u \in Seq(FieldSet) /\ Len(u) = L + 1 /\ L \in Nat
        /\ (\A n \in 1 .. L : u[n] = s[n]) /\ u[L + 1] = e
    BY Appended
  <1>2. (\A n \in 1 .. L : v[n] = t[n]) /\ v[L + 1] = e.size
    BY <1>1 DEF SizesOf
  <1> HIDE DEF u
  <1>3. PICK f : f \in Totals(L, 0, t) /\ Bytes(s) = f[L]
    BY BytesIs
  <1>4. PICK g : g \in Totals(L + 1, 0, v) /\ Bytes(u) = g[L + 1]
    BY <1>1, BytesIs
  <1> HIDE DEF t, v, L
  <1>5. L + 1 \in Nat /\ L \in 0 .. L + 1 /\ L + 1 \in 1 .. L + 1 /\ L + 1 - 1 = L
        /\ L \in 0 .. L
    BY <1>1
  <1>6. \A n \in 0 .. L : g[n] = f[n]
    BY <1>2, <1>3, <1>4, <1>5, TotalsAgree
  <1>7. g[L + 1] = g[L] + v[L + 1]
    BY <1>4, <1>5 DEF Totals
  <1>8. f[L] \in Nat
    BY <1>3, <1>5 DEF Totals
  <1> QED BY <1>2, <1>3, <1>4, <1>5, <1>6, <1>7, <1>8 DEF u

LEMMA BytesEmpty == Bytes(<<>>) = 0
  <1>1. <<>> \in Seq(FieldSet) /\ Len(<<>>) = 0
    OBVIOUS
  <1>2. PICK f : /\ f \in Totals(Len(<<>>), 0, SizesOf(<<>>))
                 /\ Bytes(<<>>) = f[Len(<<>>)]
    BY <1>1, BytesIs
  <1> QED BY <1>1, <1>2 DEF Totals

LEMMA BytesJoined ==
  ASSUME NEW s \in Seq(FieldSet), NEW o \in Seq(FieldSet)
  PROVE  Bytes(s \o o) = Bytes(s) + Bytes(o)
  <1> DEFINE u == s \o o
             L == Len(s)
             N == Len(o)
             t == SizesOf(s)
             v == SizesOf(u)
             w == SizesOf(o)
  <1>1. /\ L \in Nat /\ N \in Nat /\ u \in Seq(FieldSet) /\ Len(u) = L + N
        /\ \A n \in 1 .. L : u[n] = s[n]
        /\ \A n \in 1 .. N : u[L + n] = o[n]
    BY Joined
  <1>2. /\ \A n \in 1 .. L : v[n] = t[n]
        /\ \A n \in 1 .. N : v[L + n] = w[n]
    <2>1. \A n \in 1 .. L : n \in 1 .. L + N
      BY <1>1
    <2>2. \A n \in 1 .. N : L + n \in 1 .. L + N
      BY <1>1
    <2> HIDE DEF u, L, N
    <2> QED BY <1>1, <2>1, <2>2 DEF SizesOf, L, N
  <1> HIDE DEF u
  <1>3. PICK f : f \in Totals(L, 0, t) /\ Bytes(s) = f[L]
    BY BytesIs
  <1>4. PICK g : g \in Totals(L + N, 0, v) /\ Bytes(u) = g[L + N]
    BY <1>1, BytesIs
  <1>5. PICK h : h \in Totals(N, 0, w) /\ Bytes(o) = h[N]
    BY BytesIs
  <1> HIDE DEF t, v, w, L, N
  <1>6. L + N \in Nat /\ L \in 0 .. L + N /\ L \in 0 .. L /\ N \in 0 .. N
    BY <1>1
  <1>7. \A n \in 0 .. L : g[n] = f[n]
    BY <1>2, <1>3, <1>4, <1>6, TotalsAgree
  <1> DEFINE T == {n \in 0 .. N : g[L + n] = f[L] + h[n]}
  <1>8. 0 \in T
    <2>1. h[0] = 0 /\ g[L] = f[L] /\ f[L] \in Nat /\ L + 0 = L /\ 0 \in 0 .. N
      BY <1>1, <1>3, <1>5, <1>6, <1>7 DEF Totals
    <2> QED BY <2>1
  <1>9. \A n \in 0 .. N - 1 : n \in T => n + 1 \in T
    <2>1. SUFFICES ASSUME NEW n \in 0 .. N - 1, n \in T PROVE n + 1 \in T
      OBVIOUS
    <2>2. /\ n + 1 \in 1 .. N /\ n + 1 - 1 = n /\ L + (n + 1) \in 1 .. L + N
          /\ L + (n + 1) - 1 = L + n /\ n \in 0 .. N /\ n + 1 \in 0 .. N
      BY <1>1
    <2>3. g[L + (n + 1)] = g[L + n] + v[L + (n + 1)]
      <3>1. \A m \in 1 .. L + N : g[m] = g[m - 1] + v[m]
        BY <1>4 DEF Totals
      <3> DEFINE q == L + (n + 1)
      <3>2. q \in 1 .. L + N /\ q - 1 = L + n
        BY <1>1, <2>1
      <3> HIDE DEF q
      <3>3. g[q] = g[q - 1] + v[q]
        BY <3>1, <3>2
      <3> QED BY <3>2, <3>3 DEF q
    <2>4. h[n + 1] = h[n] + w[n + 1]
      BY <1>5, <2>2 DEF Totals
    <2>5. v[L + (n + 1)] = w[n + 1]
      BY <1>2, <2>2
    <2>6. h[n] \in Nat /\ h[n + 1] \in Nat /\ f[L] \in Nat
      BY <1>3, <1>5, <1>6, <2>2 DEF Totals
    <2>7. g[L + n] = f[L] + h[n]
      BY <2>1
    <2>8. w[n + 1] \in Nat
      <3>1. w \in [1 .. N -> Nat]
        BY SizesTyped DEF w, N
      <3> QED BY <2>2, <3>1
    <2> QED BY <2>2, <2>3, <2>4, <2>5, <2>6, <2>7, <2>8
  <1>10. N \in T
    <2> HIDE DEF T
    <2>1. \A n \in 0 .. N : n \in T
      BY <1>1, <1>8, <1>9, BoundedInduction
    <2> QED BY <1>6, <2>1
  <1> QED BY <1>3, <1>4, <1>5, <1>10 DEF u

\* Of cb bytes, cb of s are left.
Room(s, cb) ==
  s.out \in Seq(FieldSet) /\ s.cb \in Nat /\ s.cb + Bytes(s.out) = cb

LEMMA PutRoom ==
  ASSUME NEW s, NEW cb, Room(s, cb), NEW f \in FieldSet
  PROVE  Room(Put(s, f), cb)
  <1>1. CASE s.rc # "NO_ERROR" \/ f.size > s.cb
    BY <1>1 DEF Put, Room
  <1>2. CASE ~(s.rc # "NO_ERROR" \/ f.size > s.cb)
    <2>1. Put(s, f).cb = s.cb - f.size /\ Put(s, f).out = Append(s.out, f)
      BY <1>2 DEF Put
    <2>2. f.size \in Nat /\ s.out \in Seq(FieldSet) /\ s.cb \in Nat
          /\ s.cb + Bytes(s.out) = cb
      BY DEF FieldSet, Room
    <2>3. Bytes(s.out) \in Nat /\ Bytes(Append(s.out, f)) = Bytes(s.out) + f.size
      BY <2>2, BytesGrow
    <2>4. Append(s.out, f) \in Seq(FieldSet)
      BY <2>2
    <2> QED BY <1>2, <2>1, <2>2, <2>3, <2>4 DEF Room
  <1> QED BY <1>1, <1>2

LEMMA EndedRoom ==
  ASSUME NEW s, NEW cb, Room(s, cb), NEW rc
  PROVE  Room(Ended(s, rc), cb)
  BY DEF Ended, Room

\* What storeFileInfo takes of the room and what it leaves
LEMMA StoredRoom ==
  ASSUME NEW r \in Requests, NEW p \in Place, NEW cbName \in Nat, NEW cb \in Nat
  PROVE  Room(storeFileInfo(r.pgeas, p, cbName, cb, r.usLevel, r.getpos), cb)
  <1> DEFINE
    start    == [rc |-> "NO_ERROR", cb |-> cb, out |-> <<>>]
    fpos     == Field("pos", p, PosSize)
    fstatus  == Field("status", p, StatusSize)
    fsize    == Field("easize", p, EASizeSize)
    fname    == Field("name", p, cbName + 2)
    pos      == IF r.getpos THEN Put(start, fpos) ELSE start
    status   == Put(pos, fstatus)
    eas      == storeEAsInFEAList(r.pgeas, status.cb)
    flist    == Field("fealist", p, eas.cbList)
    didntFit == r.usLevel = 3 /\ eas.rc = "ERROR_BUFFER_OVERFLOW"
    ea       == IF r.usLevel = 2 \/ didntFit THEN Put(status, fsize)
                ELSE IF r.usLevel # 3 THEN status
                ELSE IF eas.rc = "NO_ERROR" THEN Put(status, flist)
                ELSE Ended(status, eas.rc)
    name     == IF cbName > 255 THEN Ended(ea, "ERROR_FILENAME_EXCED_RANGE")
                ELSE Put(ea, fname)
    final    == IF didntFit THEN "ERROR_EAS_DIDNT_FIT" ELSE "NO_ERROR"
  <1>1. storeFileInfo(r.pgeas, p, cbName, cb, r.usLevel, r.getpos)
          = Ended(name, final)
    BY DEF storeFileInfo
  <1>2. eas.cbList \in Nat
    BY ListStored
  <1> HIDE DEF eas
  <1>3. /\ fpos \in FieldSet /\ fstatus \in FieldSet /\ fsize \in FieldSet
        /\ fname \in FieldSet /\ flist \in FieldSet
    BY <1>2 DEF FieldSet, Field, PosSize, StatusSize, EASizeSize
  <1>4. Room(start, cb)
    BY BytesEmpty DEF Room
  <1> HIDE DEF fpos, fstatus, fsize, fname, flist, didntFit, start, final
  <1>5. Room(pos, cb)
    BY <1>3, <1>4, PutRoom
  <1> HIDE DEF pos
  <1>6. Room(status, cb)
    BY <1>3, <1>5, PutRoom
  <1> HIDE DEF status
  <1>7. Room(ea, cb)
    BY <1>3, <1>6, PutRoom, EndedRoom
  <1> HIDE DEF ea
  <1>8. Room(name, cb)
    BY <1>3, <1>7, PutRoom, EndedRoom
  <1> HIDE DEF name
  <1> QED BY <1>1, <1>8, EndedRoom

-----------------------------------------------------------------------------
(* What has been given *)

\* s are places of all entries in W from lo on and before hi, in order.
Listing(s, W, lo, hi) ==
  /\ s \in Seq(Place)
  /\ {s[k].entry : k \in DOMAIN s} = {i \in W : lo <= i /\ i < hi}
  /\ \A k, l \in DOMAIN s : k < l => s[k].entry < s[l].entry

LEMMA ListingEmpty ==
  ASSUME NEW W \in SUBSET Nat, NEW n \in Nat
  PROVE  Listing(<<>>, W, n, n)
  <1>1. {i \in W : n <= i /\ i < n} = {}
    <2>1. \A i \in W : i \in Nat
      OBVIOUS
    <2>2. \A i \in W : ~(n <= i /\ i < n)
      BY <2>1
    <2> QED BY <2>2
  <1>2. <<>> \in Seq(Place) /\ DOMAIN (<<>>) = {}
    OBVIOUS
  <1> QED BY <1>1, <1>2 DEF Listing

LEMMA ListingSkip ==
  ASSUME NEW W \in SUBSET Nat, NEW s, NEW lo \in Nat, NEW n \in Nat,
         Listing(s, W, lo, n), n \notin W
  PROVE  Listing(s, W, lo, n + 1)
  <1>1. \A i \in W : i \in Nat /\ i # n
    OBVIOUS
  <1>2. \A i \in W : i < n + 1 <=> i < n
    BY <1>1
  <1>3. {i \in W : lo <= i /\ i < n + 1} = {i \in W : lo <= i /\ i < n}
    BY <1>2
  <1> QED BY <1>3 DEF Listing

LEMMA ListingGrow ==
  ASSUME NEW W \in SUBSET Nat, NEW s, NEW lo \in Nat, NEW n \in W,
         Listing(s, W, lo, n), lo <= n, NEW p \in Place, p.entry = n
  PROVE  Listing(Append(s, p), W, lo, n + 1)
  <1> DEFINE t == Append(s, p)
  <1>1. s \in Seq(Place) /\ Len(s) \in Nat /\ DOMAIN s = 1 .. Len(s)
    BY DEF Listing
  <1>2. /\ t \in Seq(Place) /\ DOMAIN t = 1 .. Len(s) + 1
        /\ \A k \in 1 .. Len(s) : t[k] = s[k]
        /\ t[Len(s) + 1] = p
    BY <1>1
  <1>3. \A k \in 1 .. Len(s) : s[k].entry \in W /\ lo <= s[k].entry /\ s[k].entry < n
    BY <1>1 DEF Listing
  <1> HIDE DEF t
  <1>4. {t[k].entry : k \in DOMAIN t} = {s[k].entry : k \in DOMAIN s} \cup {n}
    BY <1>1, <1>2
  <1>5. {i \in W : lo <= i /\ i < n + 1} = {i \in W : lo <= i /\ i < n} \cup {n}
    <2>1. \A i \in W : i \in Nat
      OBVIOUS
    <2>2. \A i \in W : (i < n + 1) <=> (i < n \/ i = n)
      BY <2>1
    <2> QED BY <2>2
  <1>6. \A k, l \in DOMAIN t : k < l => t[k].entry < t[l].entry
    <2> SUFFICES ASSUME NEW k \in 1 .. Len(s) + 1, NEW l \in 1 .. Len(s) + 1,
                        k < l
                 PROVE  t[k].entry < t[l].entry
      BY <1>2
    <2>1. k \in 1 .. Len(s) /\ t[k] = s[k]
      BY <1>1, <1>2
    <2>2. CASE l \in 1 .. Len(s)
      BY <1>1, <1>2, <2>1, <2>2 DEF Listing
    <2>3. CASE l = Len(s) + 1
      BY <1>2, <1>3, <2>1, <2>3
    <2> QED BY <1>1, <2>2, <2>3
  <1> QED BY <1>2, <1>4, <1>5, <1>6 DEF Listing, t

LEMMA ListingJoin ==
  ASSUME NEW W \in SUBSET Nat, NEW s, NEW t,
         NEW lo \in Nat, NEW mid \in Nat, NEW hi \in Nat, lo <= mid, mid <= hi,
         Listing(s, W, lo, mid), Listing(t, W, mid, hi)
  PROVE  Listing(s \o t, W, lo, hi)
  <1> DEFINE u == s \o t
  <1>1. /\ s \in Seq(Place) /\ Len(s) \in Nat /\ DOMAIN s = 1 .. Len(s)
        /\ t \in Seq(Place) /\ Len(t) \in Nat /\ DOMAIN t = 1 .. Len(t)
    BY DEF Listing
  <1>2. /\ u \in Seq(Place) /\ DOMAIN u = 1 .. Len(s) + Len(t)
        /\ \A k \in 1 .. Len(s) : u[k] = s[k]
        /\ \A k \in 1 .. Len(t) : u[Len(s) + k] = t[k]
    BY <1>1
  <1>3. /\ \A k \in 1 .. Len(s) : s[k].entry \in W /\ lo <= s[k].entry /\ s[k].entry < mid
        /\ \A k \in 1 .. Len(t) : t[k].entry \in W /\ mid <= t[k].entry /\ t[k].entry < hi
    BY <1>1 DEF Listing
  <1> HIDE DEF u
  <1>4. ASSUME NEW k \in 1 .. Len(s) + Len(t), ~(k \in 1 .. Len(s))
        PROVE  /\ k - Len(s) \in 1 .. Len(t)
               /\ u[k] = t[k - Len(s)]
    <2>1. k - Len(s) \in 1 .. Len(t) /\ Len(s) + (k - Len(s)) = k
      BY <1>1, <1>4
    <2> QED BY <1>2, <2>1
  <1>5. {u[k].entry : k \in DOMAIN u}
          = {s[k].entry : k \in DOMAIN s} \cup {t[k].entry : k \in DOMAIN t}
    <2>1. ASSUME NEW k \in DOMAIN u
          PROVE  u[k].entry \in {s[j].entry : j \in DOMAIN s}
                                \cup {t[j].entry : j \in DOMAIN t}
      BY <1>1, <1>2, <1>4
    <2>2. ASSUME NEW j \in DOMAIN s
          PROVE  s[j].entry \in {u[k].entry : k \in DOMAIN u}
      <3>1. j \in DOMAIN u /\ u[j] = s[j]
        BY <1>1, <1>2
      <3> QED BY <3>1
    <2>3. ASSUME NEW j \in DOMAIN t
          PROVE  t[j].entry \in {u[k].entry : k \in DOMAIN u}
      <3>1. Len(s) + j \in DOMAIN u /\ u[Len(s) + j] = t[j]
        BY <1>1, <1>2
      <3> QED BY <3>1
    <2> QED BY <2>1, <2>2, <2>3
  <1>6. {i \in W : lo <= i /\ i < hi}
          = {i \in W : lo <= i /\ i < mid} \cup {i \in W : mid <= i /\ i < hi}
    <2>1. \A i \in W : i \in Nat
      OBVIOUS
    <2>2. \A i \in W : (lo <= i /\ i < hi)
                         <=> ((lo <= i /\ i < mid) \/ (mid <= i /\ i < hi))
      BY <2>1
    <2> QED BY <2>2
  <1>7. \A k, l \in DOMAIN u : k < l => u[k].entry < u[l].entry
    <2> SUFFICES ASSUME NEW k \in 1 .. Len(s) + Len(t),
                        NEW l \in 1 .. Len(s) + Len(t), k < l
                 PROVE  u[k].entry < u[l].entry
      BY <1>2
    <2>1. CASE l \in 1 .. Len(s)
      <3>1. k \in 1 .. Len(s) /\ u[k] = s[k] /\ u[l] = s[l]
        BY <1>1, <1>2, <2>1
      <3> QED BY <1>1, <2>1, <3>1 DEF Listing
    <2>2. CASE k \in 1 .. Len(s) /\ ~(l \in 1 .. Len(s))
      <3>1. u[k].entry < mid /\ mid <= u[l].entry /\ u[k].entry \in Nat
            /\ u[l].entry \in Nat
        BY <1>2, <1>3, <1>4, <2>2
      <3> QED BY <3>1
    <2>3. CASE ~(k \in 1 .. Len(s)) /\ ~(l \in 1 .. Len(s))
      <3> DEFINE i == k - Len(s)
                 j == l - Len(s)
      <3>1. /\ i \in 1 .. Len(t) /\ j \in 1 .. Len(t) /\ i < j
            /\ u[k] = t[i] /\ u[l] = t[j]
        BY <1>1, <1>4, <2>3
      <3> HIDE DEF i, j
      <3> QED BY <1>1, <3>1 DEF Listing
    <2> QED BY <1>1, <2>1, <2>2, <2>3
  <1>8. /\ {u[k].entry : k \in DOMAIN u} = {i \in W : lo <= i /\ i < hi}
    BY <1>5, <1>6 DEF Listing
  <1> QED BY <1>2, <1>7, <1>8 DEF Listing, u

\* The end of what has been seen is what came last.
LEMMA LastOf ==
  ASSUME NEW s \in Seq(Place), NEW t \in Seq(Place)
  PROVE  {(s \o t)[k].entry : k \in Len(s \o t) - Len(t) + 1 .. Len(s \o t)}
           = {t[k].entry : k \in DOMAIN t}
  <1> DEFINE u == s \o t
             A == {u[k].entry : k \in Len(u) - Len(t) + 1 .. Len(u)}
             B == {t[k].entry : k \in DOMAIN t}
  <1>1. /\ Len(s) \in Nat /\ Len(t) \in Nat /\ DOMAIN t = 1 .. Len(t)
        /\ Len(u) = Len(s) + Len(t)
        /\ \A k \in 1 .. Len(t) : u[Len(s) + k] = t[k]
    OBVIOUS
  <1> HIDE DEF u
  <1>2. A \subseteq B
    <2> SUFFICES ASSUME NEW k \in Len(u) - Len(t) + 1 .. Len(u)
                 PROVE  u[k].entry \in B
      OBVIOUS
    <2>1. k - Len(s) \in 1 .. Len(t) /\ Len(s) + (k - Len(s)) = k
      BY <1>1
    <2> QED BY <1>1, <2>1
  <1>3. B \subseteq A
    <2> SUFFICES ASSUME NEW j \in 1 .. Len(t)
                 PROVE  t[j].entry \in A
      BY <1>1
    <2>1. Len(s) + j \in Len(u) - Len(t) + 1 .. Len(u) /\ u[Len(s) + j] = t[j]
      BY <1>1
    <2> QED BY <2>1
  <1> QED BY <1>2, <1>3 DEF u

-----------------------------------------------------------------------------
(* Remainders *)

LEMMA Quotient ==
  ASSUME NEW x \in Int, NEW P \in Nat \ {0}
  PROVE  \E d \in Int, m \in 0 .. P - 1 : x % P = m /\ x = d * P + m
  <1>1. P \in Int /\ P > 0
    OBVIOUS
  <1>2. x % P = x - P * (x \div P)
    BY <1>1
  <1>3. x \div P \in Int /\ x % P \in 0 .. P - 1
    OBVIOUS
  <1> DEFINE d == x \div P
             m == x % P
  <1>4. d \in Int /\ m \in 0 .. P - 1 /\ m = x - P * d /\ x % P = m
    BY <1>2, <1>3
  <1> HIDE DEF d, m
  <1>5. x = d * P + m
    BY <1>4
  <1> QED BY <1>4, <1>5

LEMMA Remainder ==
  ASSUME NEW x \in Int, NEW P \in Nat \ {0}, NEW d \in Int,
         NEW m \in 0 .. P - 1, x = d * P + m
  PROVE  x % P = m
  OBVIOUS

LEMMA Congruent ==
  ASSUME NEW x \in Int, NEW y \in Int, NEW P \in Nat \ {0}, NEW q \in Int,
         y = x + q * P
  PROVE  y % P = x % P
  <1>1. PICK d \in Int, m \in 0 .. P - 1 : x % P = m /\ x = d * P + m
    BY Quotient
  <1> DEFINE e == d + q
  <1>2. y = e * P + m
    BY <1>1
  <1>3. e \in Int
    OBVIOUS
  <1> HIDE DEF e
  <1>4. y % P = m
    BY <1>2, <1>3, Remainder
  <1> QED BY <1>1, <1>4

\* Distances are the same before and after positions wrap around.
LEMMA Distance ==
  ASSUME NEW x \in Int, NEW y \in Int, NEW P \in Nat \ {0}
  PROVE  ((x % P) - (y % P)) % P = (x - y) % P
  <1>1. PICK d \in Int, m \in 0 .. P - 1 : x % P = m /\ x = d * P + m
    BY Quotient
  <1>2. PICK e \in Int, n \in 0 .. P - 1 : y % P = n /\ y = e * P + n
    BY Quotient
  <1> DEFINE u == x - y
             v == m - n
             q == d - e
  <1>3. u = v + q * P
    BY <1>1, <1>2
  <1>4. u \in Int /\ v \in Int /\ q \in Int
    OBVIOUS
  <1> HIDE DEF u, v, q
  <1>5. u % P = v % P
    BY <1>3, <1>4, Congruent
  <1> QED BY <1>1, <1>2, <1>5 DEF u, v

LEMMA OneMore ==
  ASSUME NEW x \in Int, NEW P \in Nat \ {0}
  PROVE  /\ ((x % P) + 1) % P = (x + 1) % P
         /\ (x + 1) % P \in 0 .. P - 1
  <1>1. PICK d \in Int, m \in 0 .. P - 1 : x % P = m /\ x = d * P + m
    BY Quotient
  <1>2. x + 1 = (m + 1) + d * P
    BY <1>1
  <1>3. x + 1 \in Int /\ m + 1 \in Int
    OBVIOUS
  <1>4. (x + 1) % P = (m + 1) % P
    BY <1>2, <1>3, Congruent
  <1>5. (x + 1) % P \in 0 .. P - 1
    BY <1>3
  <1> QED BY <1>1, <1>4, <1>5

-----------------------------------------------------------------------------
(* The invariant *)

\* The entries that are meant, by what the code does
Meant == {i \in 1 .. Len(Entries) : Matches(i)}

\* What the buffer holds for the program
Rd == RecordsRead(pData, rq, "NO_ERROR", cAdded)

\* The places in s count the entries from the position of the first one.
Tells(s, b) ==
  \A k \in DOMAIN s : s[k].pos = (b + s[k].entry - 1) % Positions

Counts(b, next, pos, s) == pos = (b + next - 1) % Positions /\ Tells(s, b)

Counted ==
  \E b \in Nat : Counts(b, pIsoNext, iNext, seen) /\ Tells(Rd, b)

Typed ==
  /\ open \in BOOLEAN /\ first \in BOOLEAN
  /\ rq \in Requests \cup {NoRequest}
  /\ cAdded \in Nat /\ pData \in Seq(FieldSet) /\ seen \in Seq(Place)
  /\ pIsoNext \in Nat \ {0} /\ from \in Nat \ {0}
  /\ iNext \in 0 .. Positions - 1

\* A search stands at an entry of its directory or at the end.
Begun ==
  open \/ Busy => /\ params \in Searches /\ szDir \in DOMAIN Dirs
                  /\ pIsoNext \in 1 .. Len(Entries) + 1

Between ==
  ~Busy => /\ cAdded = 0 /\ pData = <<>> /\ ~first
           /\ open => Listing(seen, Meant, 1, pIsoNext)

Closed == ~open => seen = <<>>

\* While a request is carried out, the program has seen the entries before it
\* began, and the buffer holds those since.
During ==
  Busy =>
    /\ rq.cMatch > cAdded
    /\ Len(pData) = cAdded * Len(Kinds(rq, "NO_ERROR"))
    /\ answer = NoAnswer
    /\ first <=> ~open
    /\ first => from = 1
    /\ from <= pIsoNext
    /\ Listing(seen, Meant, 1, from)
    /\ Listing(Rd, Meant, from, pIsoNext)
    /\ cAdded > 0 /\ rq.usLevel = 3 => ~Torn(rq.pgeas)

SearchInv ==
  Typed /\ Begun /\ Between /\ Closed /\ During /\ Counted

EntryRecord == [name : Seq(Nat), dir : BOOLEAN]

LEMMA EntriesAre ==
  ASSUME params = NoParams \/ szDir \in DOMAIN Dirs
  PROVE  /\ Entries \in Seq(EntryRecord)
         /\ NamesFit => \A i \in 1 .. Len(Entries) :
                          Len(Entries[i].name) \in 0 .. 255
  <1>1. Entries \in Seq(EntryRecord)
    BY DirsAssumption DEF Entries, EntryRecord
  <1>2. ASSUME NamesFit, NEW i \in 1 .. Len(Entries)
        PROVE  Len(Entries[i].name) \in 0 .. 255
    <2>1. Entries[i] \in EntryRecord
      BY <1>1
    <2>2. Len(Entries[i].name) \in Nat
      BY <2>1 DEF EntryRecord
    <2>3. params # NoParams
      BY <1>2 DEF Entries
    <2>4. Entries = Dirs[szDir] /\ i \in DOMAIN Dirs[szDir]
      BY <1>1, <2>3 DEF Entries
    <2>5. szDir \in DOMAIN Dirs
      BY <2>3
    <2>6. \A j \in DOMAIN Dirs[szDir] : Len(Dirs[szDir][j].name) <= 255
      BY <1>2, <2>5, Zenon DEF NamesFit
    <2>7. Len(Entries[i].name) <= 255
      BY <2>4, <2>6, Zenon
    <2> DEFINE n == Len(Entries[i].name)
    <2>8. n \in Nat /\ n <= 255
      BY <2>2, <2>7
    <2> HIDE DEF n
    <2>9. n \in 0 .. 255
      BY <2>8
    <2> QED BY <2>9 DEF n
  <1> QED BY <1>1, <1>2

LEMMA MeantIs ==
  ASSUME params = NoParams \/ szDir \in DOMAIN Dirs
  PROVE  /\ Meant \in SUBSET Nat /\ Len(Entries) \in Nat
         /\ \A i \in Meant : i \in 1 .. Len(Entries)
  BY EntriesAre DEF Meant

\* A search does not change what it is for.
LEMMA SameSearch ==
  ASSUME params' = params
  PROVE  Meant' = Meant /\ Entries' = Entries /\ szDir' = szDir
  <1>1. szDir' = szDir /\ szName' = szName
    BY DEF szDir, szName
  <1>2. Entries' = Entries
    BY <1>1 DEF Entries
  <1>3. \A i : Matches(i)' = Matches(i)
    BY <1>1, <1>2 DEF Matches, entryMatches, fileMatches2
  <1> QED BY <1>1, <1>2, <1>3 DEF Meant

LEMMA NothingRead ==
  ASSUME NEW fields, NEW r, NEW rc
  PROVE  RecordsRead(fields, r, rc, 0) = <<>>
  <1> DEFINE k == Len(Kinds(r, rc))
             E(i) == IF /\ i * k <= Len(fields)
                        /\ \A j \in 1 .. k : fields[(i - 1) * k + j].kind
                                             = Kinds(r, rc)[j]
                     THEN fields[i * k].of ELSE [entry |-> 0, pos |-> 0]
  <1>1. RecordsRead(fields, r, rc, 0) = [i \in 1 .. 0 |-> E(i)]
    BY DEF RecordsRead
  <1> HIDE DEF E
  <1>2. [i \in 1 .. 0 |-> E(i)] = <<>>
    OBVIOUS
  <1> QED BY <1>1, <1>2

LEMMA TellsNothing == ASSUME NEW b PROVE Tells(<<>>, b)
  BY DEF Tells

LEMMA TellsMore ==
  ASSUME NEW s \in Seq(Place), NEW p \in Place, NEW b, Tells(s, b),
         p.pos = (b + p.entry - 1) % Positions
  PROVE  Tells(Append(s, p), b)
  <1> DEFINE t == Append(s, p)
  <1>1. /\ DOMAIN t = 1 .. Len(s) + 1
        /\ \A i \in 1 .. Len(s) : t[i] = s[i]
        /\ t[Len(s) + 1] = p
        /\ DOMAIN s = 1 .. Len(s) /\ Len(s) \in Nat
    OBVIOUS
  <1> HIDE DEF t
  <1> SUFFICES ASSUME NEW i \in 1 .. Len(s) + 1
               PROVE  t[i].pos = (b + t[i].entry - 1) % Positions
    BY <1>1 DEF Tells, t
  <1>2. CASE i \in 1 .. Len(s)
    BY <1>1, <1>2 DEF Tells
  <1>3. CASE i = Len(s) + 1
    BY <1>1, <1>3
  <1> QED BY <1>1, <1>2, <1>3

LEMMA TellsJoined ==
  ASSUME NEW s \in Seq(Place), NEW t \in Seq(Place), NEW b,
         Tells(s, b), Tells(t, b)
  PROVE  Tells(s \o t, b)
  <1> DEFINE u == s \o t
  <1>1. /\ DOMAIN u = 1 .. Len(s) + Len(t)
        /\ \A i \in 1 .. Len(s) : u[i] = s[i]
        /\ \A i \in 1 .. Len(t) : u[Len(s) + i] = t[i]
        /\ DOMAIN s = 1 .. Len(s) /\ Len(s) \in Nat
        /\ DOMAIN t = 1 .. Len(t) /\ Len(t) \in Nat
    OBVIOUS
  <1> HIDE DEF u
  <1> SUFFICES ASSUME NEW i \in 1 .. Len(s) + Len(t)
               PROVE  u[i].pos = (b + u[i].entry - 1) % Positions
    BY <1>1 DEF Tells, u
  <1>2. CASE i \in 1 .. Len(s)
    BY <1>1, <1>2 DEF Tells
  <1>3. CASE ~(i \in 1 .. Len(s))
    <2>1. i - Len(s) \in 1 .. Len(t) /\ Len(s) + (i - Len(s)) = i
      BY <1>1, <1>3
    <2>2. u[i] = t[i - Len(s)]
      BY <1>1, <2>1
    <2> QED BY <1>1, <2>1, <2>2 DEF Tells
  <1> QED BY <1>2, <1>3

LEMMA InitHolds == Init => SearchInv
  <1> SUFFICES ASSUME Init PROVE SearchInv
    OBVIOUS
  <1>1. ~Busy /\ Rd = <<>>
    BY NothingRead DEF Init, Busy, Rd
  <1>2. Typed
    <2>1. <<>> \in Seq(FieldSet) /\ <<>> \in Seq(Place)
      OBVIOUS
    <2>2. 0 \in 0 .. Positions - 1
      BY PositionsAssumption
    <2>3. iNext \in 0 .. Positions - 1 /\ pIsoNext \in Nat \ {0}
          /\ from \in Nat \ {0} /\ cAdded \in Nat
      BY <2>2 DEF Init
    <2>4. pData \in Seq(FieldSet) /\ seen \in Seq(Place)
      BY <2>1 DEF Init
    <2> QED BY <2>3, <2>4 DEF Init, Typed
  <1>3. Begun /\ Between /\ Closed /\ During
    BY <1>1 DEF Init, Begun, Between, Closed, During
  <1>4. Counted
    <2>1. 0 % Positions = 0
      <3>1. 0 = 0 * Positions + 0 /\ 0 \in 0 .. Positions - 1
        BY PositionsAssumption
      <3> QED BY <3>1, PositionsAssumption, Remainder
    <2>2. (0 + 1) - 1 = 0
      OBVIOUS
    <2> QED BY <1>1, <2>1, <2>2, TellsNothing DEF Init, Counted, Counts
  <1> QED BY <1>2, <1>3, <1>4 DEF SearchInv

\* A request that has just begun
LEMMA BeginHolds ==
  ASSUME SearchInv, ~Busy, NEW r \in Requests, r.cMatch > 0, BeginRequest(r),
         params' \in Searches, szDir' \in DOMAIN Dirs, Meant' \in SUBSET Nat,
         pIsoNext' \in 1 .. Len(Entries') + 1, Len(Entries') \in Nat,
         from' = pIsoNext', UNCHANGED <<open, seen>>, first' = ~open,
         ~open => pIsoNext' = 1 /\ iNext' \in 0 .. Positions - 1,
         open => Meant' = Meant /\ UNCHANGED <<pIsoNext, iNext>>
  PROVE  SearchInv'
  <1>1. /\ rq' = r /\ cbData' = r.cbData /\ cAdded' = 0 /\ pData' = <<>>
        /\ answer' = NoAnswer
    BY DEF BeginRequest
  <1>2. Rd' = <<>>
    BY <1>1, NothingRead DEF Rd
  <1>3. Busy'
    <2>1. r # NoRequest
      BY DEF NoRequest
    <2> QED BY <1>1, <2>1 DEF Busy
  <1>4. Typed'
    BY <1>1 DEF Typed, SearchInv
  <1>5. Begun' /\ Between' /\ Closed'
    BY <1>3 DEF Begun, Between, Closed, SearchInv
  <1>6. During'
    <2>1. Len(pData') = cAdded' * Len(Kinds(rq', "NO_ERROR"))
      <3>1. r.usLevel \in 1 .. 3 /\ r.getpos \in BOOLEAN
        BY RequestsAssumption
      <3>2. Len(Kinds(rq', "NO_ERROR")) \in {2, 3, 4}
        BY <1>1, <3>1, KindsLength
      <3> QED BY <1>1, <3>2
    <2>2. Listing(Rd', Meant', from', pIsoNext')
      BY <1>2, ListingEmpty
    <2>3. Listing(seen', Meant', 1, from')
      <3>1. CASE open
        BY <3>1 DEF SearchInv, Between
      <3>2. CASE ~open
        <4>1. seen' = <<>> /\ from' = 1
          BY <3>2 DEF SearchInv, Closed
        <4> QED BY <4>1, ListingEmpty
      <3> QED BY <3>1, <3>2
    <2>5. (first' <=> ~open') /\ (first' => from' = 1)
      BY Zenon
    <2>7. from' <= pIsoNext'
      <3>1. pIsoNext' \in Nat
        OBVIOUS
      <3> QED BY <3>1
    <2>6. rq'.cMatch > cAdded' /\ ~(cAdded' > 0)
      BY <1>1
    <2> QED BY <1>1, <2>1, <2>2, <2>3, <2>5, <2>6, <2>7 DEF During
  <1>7. Counted'
    <2>1. CASE open
      BY <1>2, <2>1, TellsNothing DEF SearchInv, Counted, Counts
    <2>2. CASE ~open
      <3>1. PICK n \in 0 .. Positions - 1 : n = iNext'
        BY <2>2
      <3>2. n \in Nat /\ seen' = <<>> /\ pIsoNext' = 1
        BY <2>2, PositionsAssumption DEF SearchInv, Closed
      <3>3. n % Positions = n
        <4>1. n = 0 * Positions + n
          BY <3>2, PositionsAssumption
        <4> QED BY <3>2, <4>1, PositionsAssumption, Remainder
      <3>4. (n + 1) - 1 = n
        BY <3>2
      <3>5. Counts(n, pIsoNext', iNext', seen') /\ Tells(Rd', n)
        BY <1>2, <3>1, <3>2, <3>3, <3>4, TellsNothing DEF Counts
      <3> QED BY <3>2, <3>5 DEF Counted
    <2> QED BY <2>1, <2>2
  <1> QED BY <1>4, <1>5, <1>6, <1>7 DEF SearchInv

\* The next entry has the next position.
LEMMA NextPosition ==
  ASSUME NEW b \in Nat, NEW next \in Nat \ {0}, NEW pos,
         pos = (b + next - 1) % Positions
  PROVE  /\ (pos + 1) % Positions = (b + (next + 1) - 1) % Positions
         /\ (pos + 1) % Positions \in 0 .. Positions - 1
  <1> DEFINE x == b + next - 1
  <1>1. x \in Int /\ b + (next + 1) - 1 = x + 1
    OBVIOUS
  <1>2. pos = x % Positions
    OBVIOUS
  <1> HIDE DEF x
  <1>3. /\ (pos + 1) % Positions = (x + 1) % Positions
        /\ (x + 1) % Positions \in 0 .. Positions - 1
    BY <1>1, <1>2, PositionsAssumption, OneMore
  <1> QED BY <1>1, <1>3

LEMMA AdvanceCounts ==
  ASSUME SearchInv, advanceSearch
  PROVE  /\ pIsoNext' = pIsoNext + 1 /\ iNext' \in 0 .. Positions - 1
         /\ \A b \in Nat : \A s : Counts(b, pIsoNext, iNext, s)
                                  => Counts(b, pIsoNext', iNext', s)
  <1>1. /\ pIsoNext' = pIsoNext + 1 /\ iNext' = (iNext + 1) % Positions
        /\ pIsoNext \in Nat \ {0}
    BY DEF advanceSearch, SearchInv, Typed
  <1>2. PICK b \in Nat : Counts(b, pIsoNext, iNext, seen)
    BY DEF SearchInv, Counted
  <1>3. iNext' \in 0 .. Positions - 1
    BY <1>1, <1>2, NextPosition DEF Counts
  <1>4. ASSUME NEW c \in Nat, NEW s, Counts(c, pIsoNext, iNext, s)
        PROVE  Counts(c, pIsoNext', iNext', s)
    BY <1>1, <1>4, NextPosition DEF Counts
  <1> QED BY <1>1, <1>3, <1>4

LEMMA SkipHolds ==
  ASSUME SearchInv, Skip
  PROVE  SearchInv'
  <1>1. /\ Busy /\ pIsoNext <= Len(Entries) /\ ~Matches(pIsoNext)
        /\ advanceSearch
        /\ UNCHANGED <<open, params, rq, first, cbData, cAdded, pData, from,
                       answer, seen>>
    BY DEF Skip
  <1>2. /\ params \in Searches /\ szDir \in DOMAIN Dirs
        /\ pIsoNext \in 1 .. Len(Entries) + 1
    BY <1>1 DEF SearchInv, Begun
  <1>3. Meant' = Meant /\ Entries' = Entries /\ szDir' = szDir
    BY <1>1, SameSearch
  <1>4. /\ Meant \in SUBSET Nat /\ Len(Entries) \in Nat
    BY <1>2, MeantIs
  <1>5. Busy' /\ Rd' = Rd
    BY <1>1 DEF Busy, Rd
  <1>6. /\ pIsoNext' = pIsoNext + 1 /\ iNext' \in 0 .. Positions - 1
        /\ \A b \in Nat : \A s : Counts(b, pIsoNext, iNext, s)
                               => Counts(b, pIsoNext', iNext', s)
    BY <1>1, AdvanceCounts
  <1>7. pIsoNext \in Nat \ {0} /\ from \in Nat \ {0}
    BY DEF SearchInv, Typed
  <1>8. Typed'
    <2>1. pIsoNext' \in Nat \ {0}
      BY <1>6, <1>7
    <2> QED BY <1>1, <1>6, <2>1 DEF SearchInv, Typed
  <1>9. Begun'
    <2>1. pIsoNext' \in 1 .. Len(Entries') + 1
      BY <1>1, <1>2, <1>3, <1>4, <1>6
    <2> QED BY <1>1, <1>2, <1>3, <2>1 DEF Begun
  <1>10. Between' /\ Closed'
    BY <1>1, <1>5 DEF SearchInv, Between, Closed
  <1>11. During'
    <2>1. pIsoNext \notin Meant
      BY <1>1 DEF Meant
    <2>2. Listing(Rd, Meant, from, pIsoNext)
      BY <1>1 DEF SearchInv, During
    <2>3. Listing(Rd', Meant', from', pIsoNext')
      BY <1>1, <1>3, <1>4, <1>5, <1>6, <1>7, <2>1, <2>2, ListingSkip
    <2>4. from' <= pIsoNext'
      BY <1>1, <1>6, <1>7 DEF SearchInv, During
    <2> QED BY <1>1, <1>3, <2>3, <2>4 DEF SearchInv, During
  <1>12. Counted'
    BY <1>1, <1>5, <1>6 DEF SearchInv, Counted
  <1> QED BY <1>8, <1>9, <1>10, <1>11, <1>12 DEF SearchInv

\* The place of the next entry
Here == [entry |-> pIsoNext, pos |-> iNext]

\* What storing the next entry comes to
LEMMA StoredIs ==
  ASSUME SearchInv, NamesFit, Busy, pIsoNext <= Len(Entries)
  PROVE  /\ Here \in Place
         /\ Stored.out \in Seq(FieldSet) /\ Stored.rc \in Codes
         /\ Stored.rc \in {"NO_ERROR", "ERROR_EAS_DIDNT_FIT"}
              => IsRecord(Stored.out, rq, Stored.rc, Here)
         /\ Stored.rc = "NO_ERROR" /\ rq.usLevel = 3 => ~Torn(rq.pgeas)
         /\ Stored.rc # "ERROR_FILENAME_EXCED_RANGE"
         /\ cAdded > 0 => Stored.rc # "ERROR_EA_LIST_INCONSISTENT"
  <1>1. rq \in Requests
    BY DEF SearchInv, Typed, Busy
  <1>2. Here \in Place
    BY PositionsAssumption DEF SearchInv, Typed, Here, Place
  <1> DEFINE n == Len(Entries[pIsoNext].name)
  <1>3. n \in 0 .. 255
    <2>1. szDir \in DOMAIN Dirs /\ pIsoNext \in 1 .. Len(Entries) + 1
      BY DEF SearchInv, Begun
    <2>2. pIsoNext \in 1 .. Len(Entries)
      BY <2>1, EntriesAre
    <2> QED BY <2>1, <2>2, EntriesAre
  <1>4. Stored = storeFileInfo(rq.pgeas, Here, n, cbData, rq.usLevel, rq.getpos)
    BY DEF Stored, Here
  <1> HIDE DEF n
  <1>5. n \in Nat /\ ~(n > 255)
    BY <1>3
  <1>6. /\ Stored.out \in Seq(FieldSet) /\ Stored.rc \in Codes
        /\ Stored.rc \in {"NO_ERROR", "ERROR_EAS_DIDNT_FIT"}
             => IsRecord(Stored.out, rq, Stored.rc, Here)
        /\ Stored.rc = "NO_ERROR" /\ rq.usLevel = 3 => ~Torn(rq.pgeas)
        /\ Stored.rc = "ERROR_EA_LIST_INCONSISTENT"
             => rq.usLevel = 3 /\ Torn(rq.pgeas)
        /\ Stored.rc = "ERROR_FILENAME_EXCED_RANGE" => n > 255
    BY <1>1, <1>2, <1>4, <1>5, StoredFields
  <1>7. cAdded > 0 => Stored.rc # "ERROR_EA_LIST_INCONSISTENT"
    BY <1>6 DEF SearchInv, During
  <1> QED BY <1>2, <1>5, <1>6, <1>7

\* An entry that is stored is one more that the buffer holds.
LEMMA StoreGrows ==
  ASSUME SearchInv, NamesFit, Store
  PROVE  LET fields == pData \o Stored.out
             rec    == RecordsRead(fields, rq, "NO_ERROR", cAdded + 1)
         IN  /\ advanceSearch
             /\ fields \in Seq(FieldSet)
             /\ Len(fields) = (cAdded + 1) * Len(Kinds(rq, "NO_ERROR"))
             /\ Listing(rec, Meant, from, pIsoNext + 1)
             /\ \A b \in Nat : Counts(b, pIsoNext, iNext, seen) /\ Tells(Rd, b)
                                 => Tells(rec, b)
             /\ rq.usLevel = 3 => ~Torn(rq.pgeas)
  <1> DEFINE fields == pData \o Stored.out
             rec    == RecordsRead(fields, rq, "NO_ERROR", cAdded + 1)
             k      == Len(Kinds(rq, "NO_ERROR"))
  <1>1. /\ Busy /\ pIsoNext <= Len(Entries) /\ Matches(pIsoNext)
        /\ Stored.rc = "NO_ERROR" /\ advanceSearch
    BY DEF Store
  <1>2. rq \in Requests /\ rq.usLevel \in 1 .. 3 /\ rq.getpos \in BOOLEAN
    BY <1>1, RequestsAssumption DEF SearchInv, Typed, Busy
  <1>3. /\ cAdded \in Nat /\ pData \in Seq(FieldSet)
        /\ pIsoNext \in Nat \ {0} /\ from \in Nat \ {0}
    BY DEF SearchInv, Typed
  <1>4. /\ Len(pData) = cAdded * k /\ from <= pIsoNext
        /\ Listing(Rd, Meant, from, pIsoNext)
    BY <1>1 DEF SearchInv, During
  <1>5. /\ Here \in Place /\ Stored.out \in Seq(FieldSet)
        /\ IsRecord(Stored.out, rq, "NO_ERROR", Here)
        /\ rq.usLevel = 3 => ~Torn(rq.pgeas)
    BY <1>1, StoredIs
  <1>6. rec = Append(Rd, Here)
    BY <1>2, <1>3, <1>4, <1>5, RecordsGrow DEF Rd
  <1>7. fields \in Seq(FieldSet) /\ Len(fields) = Len(pData) + Len(Stored.out)
    <2> DEFINE o == Stored.out
    <2>1. o \in Seq(FieldSet)
      BY <1>5
    <2> HIDE DEF o
    <2>2. pData \o o \in Seq(FieldSet) /\ Len(pData \o o) = Len(pData) + Len(o)
      BY <1>3, <2>1
    <2> QED BY <2>2 DEF o
  <1> HIDE DEF fields, rec, k
  <1>8. Len(fields) = (cAdded + 1) * k
    <2>1. Len(Stored.out) = k
      BY <1>5 DEF IsRecord, k
    <2>2. k \in {2, 3, 4}
      BY <1>2, KindsLength DEF k
    <2>3. CASE k = 2 BY <1>3, <1>4, <1>7, <2>1, <2>3
    <2>4. CASE k = 3 BY <1>3, <1>4, <1>7, <2>1, <2>4
    <2>5. CASE k = 4 BY <1>3, <1>4, <1>7, <2>1, <2>5
    <2> QED BY <2>2, <2>3, <2>4, <2>5
  <1>9. Listing(rec, Meant, from, pIsoNext + 1)
    <2>1. szDir \in DOMAIN Dirs
      BY <1>1 DEF SearchInv, Begun
    <2>2. Meant \in SUBSET Nat /\ Len(Entries) \in Nat
      BY <2>1, MeantIs
    <2>3. pIsoNext \in Meant
      BY <1>1, <1>3, <2>2 DEF Meant
    <2>4. Here.entry = pIsoNext
      BY DEF Here
    <2> QED BY <1>3, <1>4, <1>5, <1>6, <2>2, <2>3, <2>4, ListingGrow
  <1>10. ASSUME NEW b \in Nat, Counts(b, pIsoNext, iNext, seen), Tells(Rd, b)
         PROVE  Tells(rec, b)
    <2>1. Rd \in Seq(Place)
      BY <1>4 DEF Listing
    <2>2. Here.pos = (b + Here.entry - 1) % Positions
      BY <1>10 DEF Counts, Here
    <2> QED BY <1>5, <1>6, <1>10, <2>1, <2>2, TellsMore
  <1> QED BY <1>1, <1>5, <1>7, <1>8, <1>9, <1>10 DEF fields, rec, k

\* A request ends with an answer that lists what is meant from where it began.
Ends(rc, n, fields) ==
  LET rec == RecordsRead(fields, rq, rc, n)
  IN  /\ Busy /\ Return(rc, n, fields)
      /\ n \in Nat
      /\ rc \in {"NO_ERROR", "ERROR_EAS_DIDNT_FIT"} <=> n > 0
      /\ rc = "ERROR_NO_MORE_FILES" => pIsoNext' > Len(Entries)
      /\ pIsoNext' \in pIsoNext .. Len(Entries) + 1
      /\ iNext' \in 0 .. Positions - 1
      /\ Listing(rec, Meant, from, pIsoNext')
      /\ \E b \in Nat : Counts(b, pIsoNext', iNext', seen) /\ Tells(rec, b)

\* A step of the loop that stores an entry, and is not the last
LEMMA StoreHolds ==
  ASSUME SearchInv, NamesFit, Store, cAdded + 1 < rq.cMatch
  PROVE  SearchInv'
  <1>1. /\ Busy /\ pIsoNext <= Len(Entries)
        /\ cAdded' = cAdded + 1
        /\ pData' = pData \o Stored.out
        /\ UNCHANGED <<open, params, rq, first, from, answer, seen>>
    BY DEF Store
  <1>2. /\ params \in Searches /\ szDir \in DOMAIN Dirs
        /\ pIsoNext \in 1 .. Len(Entries) + 1
    BY <1>1 DEF SearchInv, Begun
  <1>3. Meant' = Meant /\ Entries' = Entries /\ szDir' = szDir
    BY <1>1, SameSearch
  <1>4. /\ Meant \in SUBSET Nat /\ Len(Entries) \in Nat
    BY <1>2, MeantIs
  <1>5. /\ advanceSearch
        /\ pData' \in Seq(FieldSet)
        /\ Len(pData') = cAdded' * Len(Kinds(rq', "NO_ERROR"))
        /\ Listing(Rd', Meant, from, pIsoNext + 1)
        /\ \A b \in Nat : Counts(b, pIsoNext, iNext, seen) /\ Tells(Rd, b)
                            => Tells(Rd', b)
        /\ rq.usLevel = 3 => ~Torn(rq.pgeas)
    BY <1>1, StoreGrows DEF Rd
  <1>6. /\ pIsoNext' = pIsoNext + 1 /\ iNext' \in 0 .. Positions - 1
        /\ \A b \in Nat : \A s : Counts(b, pIsoNext, iNext, s)
                                   => Counts(b, pIsoNext', iNext', s)
    BY <1>5, AdvanceCounts
  <1>7. /\ pIsoNext \in Nat \ {0} /\ from \in Nat \ {0} /\ cAdded \in Nat
        /\ Busy'
    BY <1>1 DEF SearchInv, Typed, Busy
  <1>8. Typed'
    <2>1. pIsoNext' \in Nat \ {0} /\ cAdded' \in Nat
      BY <1>1, <1>6, <1>7
    <2> QED BY <1>1, <1>5, <1>6, <2>1 DEF SearchInv, Typed
  <1>9. Begun'
    <2>1. pIsoNext' \in 1 .. Len(Entries') + 1
      BY <1>1, <1>2, <1>3, <1>4, <1>6
    <2> QED BY <1>1, <1>2, <1>3, <2>1 DEF Begun
  <1>10. Between' /\ Closed'
    BY <1>1, <1>7 DEF SearchInv, Between, Closed
  <1>11. During'
    <2>1. from' <= pIsoNext'
      BY <1>1, <1>6, <1>7 DEF SearchInv, During
    <2> QED BY <1>1, <1>3, <1>5, <1>6, <2>1 DEF SearchInv, During
  <1>12. Counted'
    BY <1>1, <1>5, <1>6 DEF SearchInv, Counted
  <1> QED BY <1>8, <1>9, <1>10, <1>11, <1>12 DEF SearchInv

\* The last entry that was asked for
LEMMA StoreEnds ==
  ASSUME SearchInv, NamesFit, Store, ~(cAdded + 1 < rq.cMatch)
  PROVE  Ends("NO_ERROR", cAdded + 1, pData \o Stored.out)
  <1> DEFINE rec == RecordsRead(pData \o Stored.out, rq, "NO_ERROR", cAdded + 1)
  <1>1. /\ Busy /\ pIsoNext <= Len(Entries) /\ advanceSearch
        /\ Return("NO_ERROR", cAdded + 1, pData \o Stored.out)
    BY DEF Store
  <1>2. /\ szDir \in DOMAIN Dirs /\ pIsoNext \in 1 .. Len(Entries) + 1
    BY <1>1 DEF SearchInv, Begun
  <1>3. Len(Entries) \in Nat
    BY <1>2, MeantIs
  <1>4. /\ Listing(rec, Meant, from, pIsoNext + 1)
        /\ \A b \in Nat : Counts(b, pIsoNext, iNext, seen) /\ Tells(Rd, b)
                            => Tells(rec, b)
    BY StoreGrows
  <1> HIDE DEF rec
  <1>5. /\ pIsoNext' = pIsoNext + 1 /\ iNext' \in 0 .. Positions - 1
        /\ \A b \in Nat : \A s : Counts(b, pIsoNext, iNext, s)
                                   => Counts(b, pIsoNext', iNext', s)
    BY <1>1, AdvanceCounts
  <1>6. cAdded + 1 \in Nat /\ cAdded + 1 > 0
    BY DEF SearchInv, Typed
  <1>7. pIsoNext' \in pIsoNext .. Len(Entries) + 1
    BY <1>1, <1>2, <1>3, <1>5
  <1>8. \E b \in Nat : Counts(b, pIsoNext', iNext', seen) /\ Tells(rec, b)
    BY <1>4, <1>5 DEF SearchInv, Counted
  <1> QED BY <1>1, <1>4, <1>5, <1>6, <1>7, <1>8 DEF Ends, rec

\* What stops a request ends it, with what the buffer holds.
LEMMA StopEnds ==
  ASSUME SearchInv, Busy, NEW rc, NEW out \in Seq(FieldSet), Stop(rc, out),
         rc # "NO_ERROR",
         cAdded > 0 => rc \in MayStop,
         rc = "ERROR_NO_MORE_FILES" => pIsoNext > Len(Entries),
         rc = "ERROR_EAS_DIDNT_FIT"
           => /\ pIsoNext <= Len(Entries) /\ Matches(pIsoNext)
              /\ Here \in Place /\ IsRecord(out, rq, rc, Here)
  PROVE  \E c, n, fields : Ends(c, n, fields)
  <1>1. /\ szDir \in DOMAIN Dirs /\ pIsoNext \in 1 .. Len(Entries) + 1
    BY DEF SearchInv, Begun
  <1>2. Len(Entries) \in Nat /\ Meant \in SUBSET Nat
    BY <1>1, MeantIs
  <1>3. /\ cAdded \in Nat /\ pData \in Seq(FieldSet)
        /\ pIsoNext \in Nat \ {0} /\ from \in Nat \ {0}
        /\ iNext \in 0 .. Positions - 1
        /\ rq \in Requests /\ rq.usLevel \in 1 .. 3 /\ rq.getpos \in BOOLEAN
    BY RequestsAssumption DEF SearchInv, Typed, Busy
  <1>4. /\ Len(pData) = cAdded * Len(Kinds(rq, "NO_ERROR"))
        /\ from <= pIsoNext /\ Listing(Rd, Meant, from, pIsoNext)
    BY DEF SearchInv, During
  <1>5. PICK b \in Nat : Counts(b, pIsoNext, iNext, seen) /\ Tells(Rd, b)
    BY DEF SearchInv, Counted
  <1>6. pIsoNext \in pIsoNext .. Len(Entries) + 1
    BY <1>1, <1>2, <1>3
  <1>7. CASE cAdded > 0
    <2>1. /\ Return("NO_ERROR", cAdded, pData \o out)
          /\ UNCHANGED <<pIsoNext, iNext>>
      BY <1>7 DEF Stop
    <2>2. RecordsRead(pData \o out, rq, "NO_ERROR", cAdded) = Rd
      BY <1>3, <1>4, RecordsKept DEF Rd
    <2>3. Ends("NO_ERROR", cAdded, pData \o out)
      BY <1>3, <1>4, <1>5, <1>6, <1>7, <2>1, <2>2 DEF Ends
    <2> QED BY <2>3
  <1>8. CASE ~(cAdded > 0) /\ rc = "ERROR_EAS_DIDNT_FIT"
    <2> DEFINE rec == RecordsRead(pData \o out, rq, rc, 1)
    <2>1. Return(rc, 1, pData \o out) /\ advanceSearch
      BY <1>8 DEF Stop
    <2>2. cAdded = 0 /\ Rd = <<>>
      BY <1>3, <1>8, NothingRead DEF Rd
    <2>3. rec = Append(<<>>, Here)
      <3>1. Len(pData) = 0 * Len(Kinds(rq, rc))
        <4>1. /\ Len(Kinds(rq, rc)) \in {2, 3, 4}
              /\ Len(Kinds(rq, "NO_ERROR")) \in {2, 3, 4}
          BY <1>3, KindsLength
        <4> QED BY <1>4, <2>2, <4>1
      <3>2. RecordsRead(pData \o out, rq, rc, 0 + 1)
              = Append(RecordsRead(pData, rq, rc, 0), Here)
        <4>1. 0 \in Nat /\ Here \in Place /\ IsRecord(out, rq, rc, Here)
          BY <1>8
        <4> DEFINE z == 0
        <4>2. z \in Nat /\ Len(pData) = z * Len(Kinds(rq, rc))
          BY <3>1
        <4> HIDE DEF rec, z
        <4>3. RecordsRead(pData \o out, rq, rc, z + 1)
                = Append(RecordsRead(pData, rq, rc, z), Here)
          BY <1>3, <4>1, <4>2, RecordsGrow
        <4> QED BY <4>3 DEF z
      <3>3. 0 + 1 = 1
        OBVIOUS
      <3> QED BY <3>2, <3>3, NothingRead
    <2> HIDE DEF rec
    <2>4. /\ pIsoNext' = pIsoNext + 1 /\ iNext' \in 0 .. Positions - 1
          /\ \A c \in Nat : \A s : Counts(c, pIsoNext, iNext, s)
                                     => Counts(c, pIsoNext', iNext', s)
      BY <2>1, AdvanceCounts
    <2>5. <<>> \in Seq(Place)
      OBVIOUS
    <2>6. Listing(rec, Meant, from, pIsoNext')
      <3>1. pIsoNext \in Meant
        BY <1>2, <1>3, <1>8 DEF Meant
      <3>2. Here.entry = pIsoNext
        BY DEF Here
      <3> QED BY <1>2, <1>3, <1>4, <1>8, <2>2, <2>3, <2>4, <3>1, <3>2,
                 ListingGrow
    <2>7. Tells(rec, b)
      <3>1. Here.pos = (b + Here.entry - 1) % Positions
        BY <1>5 DEF Here, Counts
      <3> QED BY <1>8, <2>3, <2>5, <3>1, TellsNothing, TellsMore
    <2>8. pIsoNext' \in pIsoNext .. Len(Entries) + 1
      BY <1>1, <1>2, <1>3, <1>8, <2>4
    <2>9. Counts(b, pIsoNext', iNext', seen)
      BY <1>5, <2>4
    <2>10. Ends(rc, 1, pData \o out)
      BY <1>8, <2>1, <2>4, <2>6, <2>7, <2>8, <2>9 DEF Ends, rec
    <2> QED BY <2>10
  <1>9. CASE ~(cAdded > 0) /\ rc # "ERROR_EAS_DIDNT_FIT"
    <2>1. Return(rc, 0, pData \o out) /\ UNCHANGED <<pIsoNext, iNext>>
      BY <1>9 DEF Stop
    <2>2. Rd = <<>> /\ RecordsRead(pData \o out, rq, rc, 0) = <<>>
      <3>1. cAdded = 0
        BY <1>3, <1>9
      <3> QED BY <3>1, NothingRead DEF Rd
    <2>3. Ends(rc, 0, pData \o out)
      BY <1>3, <1>4, <1>5, <1>6, <1>9, <2>1, <2>2 DEF Ends
    <2> QED BY <2>3
  <1> QED BY <1>7, <1>8, <1>9

LEMMA DoesNotFitEnds ==
  ASSUME SearchInv, NamesFit, DoesNotFit
  PROVE  \E c, n, fields : Ends(c, n, fields)
  <1>1. /\ Busy /\ pIsoNext <= Len(Entries) /\ Matches(pIsoNext)
        /\ Stored.rc # "NO_ERROR" /\ Stop(Stored.rc, Stored.out)
    BY DEF DoesNotFit
  <1>2. /\ Here \in Place /\ Stored.out \in Seq(FieldSet) /\ Stored.rc \in Codes
        /\ Stored.rc = "ERROR_EAS_DIDNT_FIT"
             => IsRecord(Stored.out, rq, Stored.rc, Here)
        /\ Stored.rc # "ERROR_FILENAME_EXCED_RANGE"
        /\ cAdded > 0 => Stored.rc # "ERROR_EA_LIST_INCONSISTENT"
    BY <1>1, StoredIs
  <1> DEFINE rc  == Stored.rc
             out == Stored.out
  <1>3. rc # "ERROR_NO_MORE_FILES" /\ (cAdded > 0 => rc \in MayStop)
    BY <1>1, <1>2 DEF Codes, MayStop
  <1>4. /\ out \in Seq(FieldSet) /\ rc # "NO_ERROR" /\ Stop(rc, out)
        /\ rc = "ERROR_EAS_DIDNT_FIT" => IsRecord(out, rq, rc, Here)
    BY <1>1, <1>2
  <1> HIDE DEF rc, out
  <1> QED BY <1>1, <1>2, <1>3, <1>4, StopEnds

LEMMA DirectoryEnds ==
  ASSUME SearchInv, EndOfDirectory
  PROVE  \E c, n, fields : Ends(c, n, fields)
  <1>1. /\ Busy /\ pIsoNext > Len(Entries)
        /\ Stop("ERROR_NO_MORE_FILES", <<>>)
    BY DEF EndOfDirectory
  <1>2. <<>> \in Seq(FieldSet) /\ "ERROR_NO_MORE_FILES" \in MayStop
    BY DEF MayStop
  <1> QED BY <1>1, <1>2, StopEnds

\* The end of a request leaves a search as it is between two calls.
LEMMA EndHolds ==
  ASSUME SearchInv, NEW rc, NEW n, NEW fields, Ends(rc, n, fields)
  PROVE  SearchInv'
  <1> DEFINE rec == RecordsRead(fields, rq, rc, n)
  <1>1. /\ Busy /\ Return(rc, n, fields)
        /\ pIsoNext' \in pIsoNext .. Len(Entries) + 1
        /\ iNext' \in 0 .. Positions - 1
        /\ Listing(rec, Meant, from, pIsoNext')
    BY DEF Ends
  <1>2. PICK b \in Nat : Counts(b, pIsoNext', iNext', seen) /\ Tells(rec, b)
    BY DEF Ends
  <1>3. /\ rq' = NoRequest /\ first' = FALSE /\ cAdded' = 0 /\ pData' = <<>>
        /\ from' = from
    BY <1>1 DEF Return
  <1>4. ~Busy' /\ Rd' = <<>>
    BY <1>3, NothingRead DEF Busy, Rd
  <1>5. /\ params \in Searches /\ szDir \in DOMAIN Dirs
        /\ pIsoNext \in Nat \ {0} /\ from \in Nat \ {0} /\ from <= pIsoNext
        /\ Listing(seen, Meant, 1, from) /\ seen \in Seq(Place)
    BY <1>1 DEF SearchInv, Typed, Begun, During
  <1>6. Len(Entries) \in Nat /\ Meant \in SUBSET Nat
    BY <1>5, MeantIs
  <1>7. /\ pIsoNext' \in Nat \ {0} /\ from <= pIsoNext' /\ 1 <= from
        /\ pIsoNext' \in 1 .. Len(Entries) + 1
    BY <1>1, <1>5, <1>6
  <1>8. rec \in Seq(Place)
    BY <1>1 DEF Listing
  <1> HIDE DEF rec
  <1>9. CASE open' = FALSE /\ seen' = <<>>
    <2>1. <<>> \in Seq(Place) /\ <<>> \in Seq(FieldSet)
      OBVIOUS
    <2>2. Typed'
      BY <1>1, <1>3, <1>5, <1>7, <1>9, <2>1 DEF Typed
    <2>3. Begun' /\ Between' /\ Closed' /\ During'
      BY <1>3, <1>4, <1>9 DEF Begun, Between, Closed, During
    <2>4. Counted'
      BY <1>2, <1>4, <1>9, TellsNothing DEF Counted, Counts
    <2> QED BY <2>2, <2>3, <2>4 DEF SearchInv
  <1>10. CASE open' = TRUE /\ seen' = seen \o rec /\ params' = params
    <2>1. seen' \in Seq(Place) /\ <<>> \in Seq(FieldSet)
      BY <1>5, <1>8, <1>10
    <2>2. Typed'
      BY <1>1, <1>3, <1>5, <1>7, <1>10, <2>1 DEF Typed
    <2>3. Meant' = Meant /\ Entries' = Entries /\ szDir' = szDir
      BY <1>10, SameSearch
    <2>4. Begun'
      BY <1>5, <1>7, <1>10, <2>3 DEF Begun
    <2>5. Listing(seen', Meant', 1, pIsoNext')
      BY <1>1, <1>5, <1>6, <1>7, <1>10, <2>3, ListingJoin
    <2>6. Between' /\ Closed' /\ During'
      BY <1>3, <1>4, <1>10, <2>5 DEF Between, Closed, During
    <2>7. Tells(seen', b)
      BY <1>2, <1>5, <1>8, <1>10, TellsJoined DEF Counts
    <2>8. Counted'
      BY <1>2, <1>4, <2>7, TellsNothing DEF Counted, Counts
    <2> QED BY <2>2, <2>4, <2>6, <2>8 DEF SearchInv
  <1>11. \/ open' = FALSE /\ seen' = <<>>
         \/ open' = TRUE /\ seen' = seen \o rec /\ params' = params
    BY <1>1 DEF Return, rec
  <1> QED BY <1>9, <1>10, <1>11

\* What does not touch the search does not matter.
LEMMA OthersHold ==
  ASSUME SearchInv, UNCHANGED <<open, params, rq, first, loopvars, from, seen>>,
         Busy => UNCHANGED answer
  PROVE  SearchInv'
  <1>1. UNCHANGED <<open, params, rq, first, pIsoNext, iNext, cbData, cAdded,
                    pData, from, seen>>
    BY DEF loopvars
  <1>2. Meant' = Meant /\ Entries' = Entries /\ szDir' = szDir
    BY <1>1, SameSearch
  <1>3. Busy' = Busy /\ Rd' = Rd
    BY <1>1 DEF Busy, Rd
  <1>4. Typed'
    BY <1>1 DEF SearchInv, Typed
  <1>5. Begun'
    BY <1>1, <1>2, <1>3 DEF SearchInv, Begun
  <1>6. Between' /\ Closed'
    BY <1>1, <1>2, <1>3 DEF SearchInv, Between, Closed
  <1>7. During'
    BY <1>1, <1>2, <1>3 DEF SearchInv, During
  <1>8. Counted'
    BY <1>1, <1>3 DEF SearchInv, Counted
  <1> QED BY <1>4, <1>5, <1>6, <1>7, <1>8 DEF SearchInv

LEMMA FindFirstHolds ==
  ASSUME SearchInv, NEW s \in Searches, NEW r \in Requests, FindFirst(s, r)
  PROVE  SearchInv'
  <1>1. /\ ~open /\ ~Busy /\ splitPath(s.path).prefix \in DOMAIN Dirs
        /\ r.cMatch > 0 /\ params' = s /\ first' = TRUE
        /\ pIsoNext' = 1 /\ from' = 1 /\ iNext' \in Firsts
        /\ BeginRequest(r) /\ UNCHANGED <<open, seen>>
    BY DEF FindFirst
  <1>2. szDir' \in DOMAIN Dirs
    BY <1>1 DEF szDir
  <1>3. Entries' \in Seq(EntryRecord)
    BY <1>2, DirsAssumption DEF Entries, EntryRecord
  <1>4. Len(Entries') \in Nat /\ Meant' \in SUBSET Nat
    BY <1>3 DEF Meant
  <1>5. iNext' \in 0 .. Positions - 1
    BY <1>1, FirstsAssumption
  <1>6. pIsoNext' \in 1 .. Len(Entries') + 1
    BY <1>1, <1>4
  <1>7. from' = pIsoNext' /\ (first' = ~open)
    BY <1>1, Zenon
  <1> QED BY <1>1, <1>2, <1>4, <1>5, <1>6, <1>7, BeginHolds

LEMMA FindNextHolds ==
  ASSUME SearchInv, NEW r \in Requests, FindNext(r)
  PROVE  SearchInv'
  <1>1. /\ open /\ ~Busy /\ UNCHANGED <<open, params, first, seen>>
    BY DEF FindNext
  <1>2. CASE r.cMatch > 0 /\ BeginRequest(r) /\ from' = pIsoNext
             /\ UNCHANGED <<pIsoNext, iNext>>
    <2>1. Meant' = Meant /\ Entries' = Entries /\ szDir' = szDir
      BY <1>1, SameSearch
    <2>2. /\ params \in Searches /\ szDir \in DOMAIN Dirs
          /\ pIsoNext \in 1 .. Len(Entries) + 1
      BY <1>1 DEF SearchInv, Begun
    <2>3. Len(Entries) \in Nat /\ Meant \in SUBSET Nat
      BY <2>2, MeantIs
    <2>4. ~first
      BY <1>1 DEF SearchInv, Between
    <2>5. first' = ~open
      <3>1. first' = first /\ first \in BOOLEAN
        BY <1>1 DEF SearchInv, Typed
      <3> QED BY <1>1, <2>4, <3>1, Zenon
    <2> QED BY <1>1, <1>2, <2>1, <2>2, <2>3, <2>5, BeginHolds
  <1>3. CASE UNCHANGED <<rq, loopvars, from>>
    BY <1>1, <1>3, OthersHold
  <1> QED BY <1>2, <1>3 DEF FindNext

LEMMA FindCloseHolds ==
  ASSUME SearchInv, FindClose
  PROVE  SearchInv'
  <1>1. /\ ~Busy /\ open' = FALSE /\ seen' = <<>>
        /\ UNCHANGED <<rq, first, pIsoNext, iNext, cbData, cAdded, pData, from>>
    BY DEF FindClose, loopvars
  <1>2. ~Busy' /\ cAdded' = 0 /\ ~first' /\ pData' = <<>>
    BY <1>1 DEF SearchInv, Between, Busy
  <1>3. Rd' = <<>>
    BY <1>2, NothingRead DEF Rd
  <1>4. <<>> \in Seq(Place)
    OBVIOUS
  <1>5. Typed'
    BY <1>1, <1>4 DEF SearchInv, Typed
  <1>6. Begun' /\ Between' /\ Closed' /\ During'
    BY <1>1, <1>2 DEF Begun, Between, Closed, During
  <1>7. Counted'
    BY <1>1, <1>3, TellsNothing DEF SearchInv, Counted, Counts
  <1> QED BY <1>5, <1>6, <1>7 DEF SearchInv

\* A turn of the loop goes on or ends the request.
LEMMA LoopGoesOn ==
  ASSUME SearchInv, NamesFit, Loop
  PROVE  \/ Skip
         \/ Store /\ cAdded + 1 < rq.cMatch
         \/ \E c, n, fields : Ends(c, n, fields)
  <1>1. CASE Skip
    BY <1>1
  <1>2. CASE Store /\ ~(cAdded + 1 < rq.cMatch)
    BY <1>2, StoreEnds
  <1>3. CASE DoesNotFit
    BY <1>3, DoesNotFitEnds
  <1>4. CASE EndOfDirectory
    BY <1>4, DirectoryEnds
  <1> QED BY <1>1, <1>2, <1>3, <1>4 DEF Loop

LEMMA SearchKept ==
  ASSUME NamesFit, SearchInv, [Next]_vars
  PROVE  SearchInv'
  <1>1. CASE \E s \in Searches, r \in Requests : FindFirst(s, r)
    BY <1>1, FindFirstHolds
  <1>2. CASE \E r \in Requests : FindNext(r)
    BY <1>2, FindNextHolds
  <1>3. CASE Loop
    <2>1. CASE Skip
      BY <2>1, SkipHolds
    <2>2. CASE Store /\ cAdded + 1 < rq.cMatch
      BY <2>2, StoreHolds
    <2>3. CASE \E c, n, fields : Ends(c, n, fields)
      BY <2>3, EndHolds
    <2> QED BY <1>3, <2>1, <2>2, <2>3, LoopGoesOn
  <1>4. CASE FindClose
    BY <1>4, FindCloseHolds
  <1>5. CASE \E q \in EAQueries : QueryFileInfo(q)
    <2>1. /\ UNCHANGED <<open, params, rq, first, loopvars, from, seen>>
          /\ UNCHANGED answer
      BY <1>5 DEF QueryFileInfo
    <2> QED BY <2>1, OthersHold
  <1>6. CASE UNCHANGED vars
    <2>1. /\ UNCHANGED <<open, params, rq, first, loopvars, from, seen>>
          /\ UNCHANGED answer
      BY <1>6 DEF vars
    <2> QED BY <2>1, OthersHold
  <1> QED BY <1>1, <1>2, <1>3, <1>4, <1>5, <1>6 DEF Next

\* Whatever is asked for in whatever portions, and however they fit: a search
\* has shown just what is meant before the place where it stands, and what it
\* holds for the program continues that (storeDirContents, storeNextFileInfo).
THEOREM SearchHeld == ASSUME NamesFit PROVE Spec => []SearchInv
  <1>1. SearchInv /\ [Next]_vars => SearchInv'
    BY SearchKept
  <1> QED BY InitHolds, <1>1, PTL DEF Spec

-----------------------------------------------------------------------------
(* What the code means is what the rules want *)

\* What is looked for is a name.
LEMMA Sought ==
  ASSUME params \in Searches
  PROVE  szName \in Seq(Nat)
  BY SearchesAssumption, LastIsName DEF szName

LEMMA MeantIsWanted ==
  ASSUME params \in Searches, szDir \in DOMAIN Dirs,
         NEW i \in 1 .. Len(Entries)
  PROVE  Wanted(i) <=> Matches(i)
  <1> DEFINE e == Entries[i]
  <1>3. /\ hasNon83Name(e.name) <=> ~IsShort(e.name)
        /\ \/ LetterAfterQuestion(szName)
           \/ nameMatches(szName, e.name) <=> MatchesByRule(szName, e.name)
    <2>1. Entries[i] \in EntryRecord
      BY EntriesAre
    <2>2. e.name \in Seq(Nat)
      BY <2>1 DEF EntryRecord
    <2>3. szName \in Seq(Nat)
      BY Sought
    <2> HIDE DEF e
    <2> QED BY <2>2, <2>3, Non83ByRule, NameMatchesByRule
  <1>4. Entries[i] = e
    OBVIOUS
  <1> HIDE DEF e
  <1>5. /\ (flFlags(e) \ {"READONLY"} \subseteq params.may)
             <=> ("DIRECTORY" \in flFlags(e) => "DIRECTORY" \in params.may)
        /\ (params.must \cap Attributes \subseteq flFlags(e))
             <=> /\ "HIDDEN" \notin params.must /\ "SYSTEM" \notin params.must
                 /\ "ARCHIVED" \notin params.must
                 /\ "DIRECTORY" \in params.must => "DIRECTORY" \in flFlags(e)
    BY DEF flFlags, Attributes
  <1>6. /\ "HIDDEN" \notin flFlags(e) /\ "SYSTEM" \notin flFlags(e)
        /\ "WRITABLE" \notin flFlags(e) /\ "MODIFIED" \notin flFlags(e)
    BY DEF flFlags
  <1>7. fileMatches2(e)
          <=> /\ "DIRECTORY" \in flFlags(e) => "DIRECTORY" \in params.may
              /\ "DIRECTORY" \in params.must => "DIRECTORY" \in flFlags(e)
              /\ "SYSTEM" \notin params.must /\ "ARCHIVED" \notin params.must
    BY <1>6 DEF fileMatches2
  <1>8. entryMatches(e)
          <=> /\ "HIDDEN" \notin params.must
              /\ IsShort(e.name) \/ "NON83" \in params.may
              /\ nameMatches(szName, e.name)
    BY <1>3, <1>6 DEF entryMatches
  <1>9. Wanted(i)
          <=> /\ flFlags(e) \ {"READONLY"} \subseteq params.may
              /\ params.must \cap Attributes \subseteq flFlags(e)
              /\ IsShort(e.name) \/ "NON83" \in params.may
              /\ nameMatches(szName, e.name)
    <2>1. Wanted(i)
            <=> /\ flFlags(e) \ {"READONLY"} \subseteq params.may
                /\ params.must \cap Attributes \subseteq flFlags(e)
                /\ IsShort(e.name) \/ "NON83" \in params.may
                /\ IF LetterAfterQuestion(szName)
                   THEN nameMatches(szName, e.name)
                   ELSE MatchesByRule(szName, e.name)
      BY <1>4 DEF Wanted
    <2> QED BY <1>3, <2>1
  <1> QED BY <1>4, <1>5, <1>7, <1>8, <1>9 DEF Matches

\* What is wanted from n on is what is meant from n on.
LEMMA WantedIs ==
  ASSUME params \in Searches, szDir \in DOMAIN Dirs,
         NEW n \in Nat \ {0}
  PROVE  WantedFrom(n) = {i \in Meant : n <= i}
  <1>1. Len(Entries) \in Nat /\ Meant \in SUBSET Nat
    BY MeantIs
  <1>2. ASSUME NEW i
        PROVE  i \in n .. Len(Entries) /\ Wanted(i)
                 <=> i \in 1 .. Len(Entries) /\ Matches(i) /\ n <= i
    <2>1. i \in n .. Len(Entries) <=> i \in 1 .. Len(Entries) /\ n <= i
      BY <1>1
    <2>2. i \in 1 .. Len(Entries) => (Wanted(i) <=> Matches(i))
      BY MeantIsWanted
    <2> QED BY <2>1, <2>2, Zenon
  <1> QED BY <1>2, Zenon DEF WantedFrom, Meant

\* What comes before the place where a search stands
LEMMA SeenAre ==
  ASSUME params \in Searches, szDir \in DOMAIN Dirs,
         NEW n \in Nat \ {0}
  PROVE  {i \in Meant : 1 <= i /\ i < n} = WantedFrom(1) \ WantedFrom(n)
  <1>1. /\ WantedFrom(1) = {i \in Meant : 1 <= i}
        /\ WantedFrom(n) = {i \in Meant : n <= i}
    BY WantedIs
  <1>2. \A i \in Meant : i \in Nat
    BY MeantIs
  <1>3. \A i \in Meant : i < n <=> ~(n <= i)
    BY <1>2
  <1> QED BY <1>1, <1>3

\* EachOnceInOrder: a program has seen just the entries that are wanted up to
\* where its search stands, each once and in order, for all directories,
\* searches, requests and rooms for them (storeDirContents, storeNextFileInfo,
\* storeFileInfo, fileMatches2, entryMatches).
THEOREM GivesEachOnceInOrder ==
  ASSUME NamesFit PROVE Spec => []EachOnceInOrder
  <1>1. SearchInv => EachOnceInOrder
    <2> SUFFICES ASSUME SearchInv, open, ~Busy PROVE EachOnceInOrder
      BY DEF EachOnceInOrder
    <2>1. /\ params \in Searches /\ szDir \in DOMAIN Dirs
          /\ pIsoNext \in Nat \ {0}
          /\ Listing(seen, Meant, 1, pIsoNext)
      BY DEF SearchInv, Typed, Begun, Between
    <2>2. {i \in Meant : 1 <= i /\ i < pIsoNext}
            = WantedFrom(1) \ WantedFrom(pIsoNext)
      BY <2>1, SeenAre
    <2> QED BY <2>1, <2>2 DEF Listing, EachOnceInOrder
  <1> QED BY <1>1, SearchHeld, PTL

\* PositionsTell: positions tell entries apart and keep their distances, for
\* every first position and wherever they wrap around (advanceSearch).
THEOREM PositionsAlwaysTell ==
  ASSUME NamesFit PROVE Spec => []PositionsTell
  <1>1. SearchInv => PositionsTell
    <2> SUFFICES ASSUME SearchInv, NEW k \in DOMAIN seen, NEW l \in DOMAIN seen
                 PROVE  (seen[l].pos - seen[k].pos) % Positions
                          = (seen[l].entry - seen[k].entry) % Positions
      BY DEF PositionsTell
    <2>1. PICK b \in Nat : Tells(seen, b)
      BY DEF SearchInv, Counted, Counts
    <2>2. seen[k] \in Place /\ seen[l] \in Place
      BY DEF SearchInv, Typed
    <2> DEFINE x == b + seen[l].entry - 1
               y == b + seen[k].entry - 1
    <2>3. /\ seen[l].pos = x % Positions /\ seen[k].pos = y % Positions
      BY <2>1 DEF Tells
    <2>4. x \in Int /\ y \in Int
      BY <2>2 DEF Place
    <2>5. x - y = seen[l].entry - seen[k].entry
      BY <2>2 DEF Place
    <2> HIDE DEF x, y
    <2>6. ((x % Positions) - (y % Positions)) % Positions = (x - y) % Positions
      BY <2>4, PositionsAssumption, Distance
    <2> QED BY <2>3, <2>5, <2>6
  <1> QED BY <1>1, SearchHeld, PTL

-----------------------------------------------------------------------------
(* The search as DirCursor has it *)

\* What the program is told by its last request
Told == [given |-> LastSeen, end |-> answer.rc = "ERROR_NO_MORE_FILES"]

LEMMA NoneLast ==
  ASSUME NEW s \in Seq(Place)
  PROVE  {s[k].entry : k \in Len(s) - 0 + 1 .. Len(s)} = {}
  <1> DEFINE m == Len(s)
  <1>1. m \in Nat
    OBVIOUS
  <1> HIDE DEF m
  <1>2. m - 0 + 1 .. m = {}
    BY <1>1
  <1> QED BY <1>2 DEF m

\* An answer that gives nothing
LEMMA ToldNothing ==
  ASSUME answer'.cMatch = 0, seen' \in Seq(Place)
  PROVE  Told' = [given |-> {},
                  end |-> (answer.rc = "ERROR_NO_MORE_FILES")']
  <1>1. {seen'[k].entry : k \in Len(seen') - 0 + 1 .. Len(seen')} = {}
    BY NoneLast
  <1>2. LastSeen' = {}
    BY <1>1 DEF LastSeen
  <1> QED BY <1>2 DEF Told

LEMMA SameWanted ==
  ASSUME params' = params
  PROVE  /\ Entries' = Entries
         /\ \A i : Wanted(i)' = Wanted(i)
  <1>1. szDir' = szDir /\ szName' = szName
    BY DEF szDir, szName
  <1>2. Entries' = Entries
    BY <1>1 DEF Entries
  <1> QED BY <1>1, <1>2 DEF Wanted

\* What is to come
LEMMA TodoIs ==
  ASSUME SearchInv, open
  PROVE  Todo = {i \in Meant : (IF Busy THEN from ELSE pIsoNext) <= i}
  <1> DEFINE n == IF Busy THEN from ELSE pIsoNext
  <1>1. n \in Nat \ {0} /\ params \in Searches /\ szDir \in DOMAIN Dirs
    BY DEF SearchInv, Typed, Begun
  <1>2. Todo = WantedFrom(n)
    BY DEF Todo
  <1> HIDE DEF n
  <1>3. Todo = {i \in Meant : n <= i}
    BY <1>1, <1>2, WantedIs
  <1> QED BY <1>3 DEF n

LEMMA TodoNext ==
  ASSUME params \in Searches, szDir \in DOMAIN Dirs,
         params' = params, open' = TRUE, ~Busy', pIsoNext' \in Nat \ {0}
  PROVE  Todo' = {i \in Meant : pIsoNext' <= i}
  <1>1. /\ Entries' = Entries
        /\ \A i : Wanted(i)' = Wanted(i)
    BY SameWanted
  <1>2. Todo' = {i \in pIsoNext' .. Len(Entries') : Wanted(i)'}
    BY DEF Todo, WantedFrom
  <1>3. Todo' = {i \in pIsoNext' .. Len(Entries) : Wanted(i)}
    BY <1>1, <1>2
  <1>4. WantedFrom(pIsoNext') = {i \in Meant : pIsoNext' <= i}
    BY WantedIs
  <1> QED BY <1>3, <1>4 DEF WantedFrom

\* Nothing changes for the program.
LEMMA TodoSame ==
  ASSUME UNCHANGED <<open, params, rq, from, pIsoNext>>
  PROVE  Todo' = Todo
  <1>1. /\ Entries' = Entries /\ Busy' = Busy
        /\ \A i : Wanted(i)' = Wanted(i)
    BY SameWanted DEF Busy
  <1> QED BY <1>1 DEF Todo, WantedFrom

\* While a request is carried out, what is to come is counted from its start.
LEMMA TodoBusy ==
  ASSUME Busy, UNCHANGED <<open, params, rq, from>>
  PROVE  Todo' = Todo
  <1>1. /\ Entries' = Entries /\ Busy' = Busy
        /\ \A i : Wanted(i)' = Wanted(i)
    BY SameWanted DEF Busy
  <1> QED BY <1>1 DEF Todo, WantedFrom

\* The end of a request gives something, or refuses, or tells the end.
LEMMA EndImplements ==
  ASSUME SearchInv, NEW rc, NEW n, NEW fields, Ends(rc, n, fields)
  PROVE  Cursor!Next
  <1> DEFINE rec == RecordsRead(fields, rq, rc, n)
             D   == {i \in Meant : from <= i /\ i < pIsoNext'}
             W   == {i \in Meant : pIsoNext' <= i}
  <1>1. /\ Busy /\ Return(rc, n, fields) /\ n \in Nat
        /\ rc \in {"NO_ERROR", "ERROR_EAS_DIDNT_FIT"} <=> n > 0
        /\ rc = "ERROR_NO_MORE_FILES" => pIsoNext' > Len(Entries)
        /\ pIsoNext' \in pIsoNext .. Len(Entries) + 1
        /\ Listing(rec, Meant, from, pIsoNext')
    BY DEF Ends
  <1>2. /\ params \in Searches /\ szDir \in DOMAIN Dirs
        /\ pIsoNext \in Nat \ {0} /\ from \in Nat \ {0} /\ from <= pIsoNext
        /\ seen \in Seq(Place) /\ open \in BOOLEAN /\ (first <=> ~open)
    BY <1>1 DEF SearchInv, Typed, Begun, During
  <1>3. /\ Meant \in SUBSET Nat /\ Len(Entries) \in Nat
        /\ \A i \in Meant : i \in 1 .. Len(Entries)
    BY <1>2, MeantIs
  <1>4. pIsoNext' \in Nat \ {0} /\ from <= pIsoNext'
    BY <1>1, <1>2, <1>3
  <1>5. /\ rec \in Seq(Place) /\ Len(rec) = n
        /\ {rec[k].entry : k \in DOMAIN rec} = D
    <2>1. DOMAIN rec = 1 .. n
      BY DEF RecordsRead
    <2>2. rec \in Seq(Place) /\ {rec[k].entry : k \in DOMAIN rec} = D
      BY <1>1 DEF Listing
    <2> HIDE DEF rec
    <2>3. Len(rec) \in Nat /\ DOMAIN rec = 1 .. Len(rec)
      BY <2>2
    <2> DEFINE m == Len(rec)
    <2>4. m \in Nat /\ 1 .. m = 1 .. n
      BY <2>1, <2>3
    <2> HIDE DEF m
    <2>5. m = n
      BY <1>1, <2>4
    <2> QED BY <2>2, <2>5 DEF m
  <1>6. /\ answer' = [rc |-> rc, cMatch |-> n] /\ rq' = NoRequest /\ ~Busy'
    BY <1>1 DEF Return, Busy
  <1>7. (answer.rc = "ERROR_NO_MORE_FILES")' = (rc = "ERROR_NO_MORE_FILES")
    BY <1>6
  <1>8. /\ D \subseteq Nat /\ W \subseteq Nat /\ Cursor!Before(D, W)
    <2>1. \A i \in Meant : i \in Nat
      BY <1>3
    <2>2. \A i \in D : i \in Nat /\ i < pIsoNext'
      BY <2>1
    <2>3. \A i \in W : i \in Nat /\ pIsoNext' <= i
      BY <2>1
    <2> HIDE DEF D, W
    <2>4. \A i \in D, j \in W : i < j /\ i # j
      BY <1>4, <2>2, <2>3
    <2> QED BY <2>2, <2>3, <2>4 DEF Cursor!Before
  <1>9. D \cup W = {i \in Meant : from <= i}
    <2>1. \A i \in Meant : i \in Nat
      BY <1>3
    <2>2. \A i \in Meant : from <= i <=> (from <= i /\ i < pIsoNext')
                                         \/ pIsoNext' <= i
      BY <1>2, <1>4, <2>1
    <2> QED BY <2>2
  <1>10. open => Todo = {i \in Meant : from <= i}
    BY <1>1, TodoIs
  <1>11. ~open => Todo = {}
    BY DEF Todo
  <1>12. n = 0 => D = {}
    <2> HIDE DEF rec, D
    <2> QED BY <1>5
  <1>13. n > 0 => D # {}
    <2> HIDE DEF rec, D
    <2>1. ASSUME n > 0 PROVE 1 \in DOMAIN rec
      BY <1>1, <1>5, <2>1
    <2> QED BY <1>5, <2>1
  <1> HIDE DEF rec, D, W
  <1>14. CASE first /\ rc \notin {"NO_ERROR", "ERROR_EAS_DIDNT_FIT"}
    <2>1. ~open /\ open' = FALSE /\ seen' = <<>> /\ n = 0
      BY <1>1, <1>2, <1>14 DEF Return
    <2>2. Todo' = {}
      BY <2>1 DEF Todo
    <2>3. Told' = [given |-> {}, end |-> rc = "ERROR_NO_MORE_FILES"]
      <3>1. answer'.cMatch = 0 /\ seen' \in Seq(Place)
        BY <1>6, <2>1
      <3> QED BY <1>7, <3>1, ToldNothing
    <2>4. open' = open
      BY <1>2, <2>1
    <2>5. CASE rc = "ERROR_NO_MORE_FILES"
      BY <1>11, <2>1, <2>2, <2>3, <2>4, <2>5
         DEF Cursor!Next, Cursor!NothingFound, Cursor!TheEnd, Told
    <2>6. CASE rc # "ERROR_NO_MORE_FILES"
      BY <1>11, <2>1, <2>2, <2>3, <2>4, <2>6
         DEF Cursor!Next, Cursor!Refuse, Cursor!Nothing, Told
    <2> QED BY <2>5, <2>6
  <1>15. CASE ~(first /\ rc \notin {"NO_ERROR", "ERROR_EAS_DIDNT_FIT"})
    <2>1. open' = TRUE /\ params' = params /\ seen' = seen \o rec
      BY <1>1, <1>15 DEF Return, rec
    <2>2. Todo' = W
      BY <1>2, <1>4, <1>6, <2>1, TodoNext DEF W
    <2>3. Told' = [given |-> D, end |-> rc = "ERROR_NO_MORE_FILES"]
      <3>1. {(seen \o rec)[k].entry :
               k \in Len(seen \o rec) - n + 1 .. Len(seen \o rec)} = D
        BY <1>2, <1>5, LastOf
      <3>2. LastSeen' = D
        BY <1>6, <2>1, <3>1 DEF LastSeen
      <3> QED BY <1>7, <3>2 DEF Told
    <2>4. CASE n > 0
      <3>1. rc # "ERROR_NO_MORE_FILES"
        BY <1>1, <2>4
      <3>2. /\ Told' = [given |-> D, end |-> FALSE] /\ D # {}
        BY <1>13, <2>3, <2>4, <3>1
      <3>3. Cursor!GivesNext
        BY <1>8, <2>2, <3>2 DEF Cursor!GivesNext, Cursor!Given, Told
      <3>4. CASE open
        <4>1. D \cup Todo' = Todo
          BY <1>9, <1>10, <2>2, <3>4
        <4>2. open' = open
          BY <1>2, <2>1, <3>4
        <4> QED BY <3>2, <3>3, <3>4, <4>1, <4>2
                DEF Cursor!Next, Cursor!Give, Told
      <3>5. CASE ~open
        BY <1>8, <2>1, <2>2, <3>2, <3>3, <3>5
           DEF Cursor!Next, Cursor!Begin, Told
      <3> QED BY <3>4, <3>5
    <2>5. CASE ~(n > 0)
      <3>1. n = 0 /\ open /\ D = {}
        BY <1>1, <1>2, <1>12, <1>15, <2>5
      <3>2. Todo' = Todo /\ Todo = W
        BY <1>9, <1>10, <2>2, <3>1
      <3>3. open' = open
        BY <1>2, <2>1, <3>1
      <3>4. CASE rc = "ERROR_NO_MORE_FILES"
        <4>1. W = {}
          <5>1. \A i \in Meant : i \in Nat /\ i <= Len(Entries)
            BY <1>3
          <5>2. \A i \in Meant : ~(pIsoNext' <= i)
            BY <1>1, <1>3, <1>4, <3>4, <5>1
          <5> QED BY <5>2 DEF W
        <4>2. Todo = {}
          BY <3>2, <4>1
        <4> QED BY <2>3, <3>1, <3>2, <3>3, <3>4, <4>2
                DEF Cursor!Next, Cursor!NoMore, Cursor!TheEnd, Told
      <3>5. CASE rc # "ERROR_NO_MORE_FILES"
        BY <2>3, <3>1, <3>2, <3>3, <3>5
           DEF Cursor!Next, Cursor!Refuse, Cursor!Nothing, Told
      <3> QED BY <3>4, <3>5
    <2> QED BY <2>4, <2>5
  <1> QED BY <1>14, <1>15

LEMMA FindFirstImplements ==
  ASSUME SearchInv, NEW s \in Searches, NEW r \in Requests, FindFirst(s, r)
  PROVE  Cursor!Next
  <1>1. /\ ~open /\ open' = open /\ seen' = seen /\ answer' = NoAnswer
    BY DEF FindFirst, BeginRequest
  <1>2. Todo = {} /\ Todo' = {}
    BY <1>1 DEF Todo
  <1>3. seen' \in Seq(Place) /\ answer'.cMatch = 0
        /\ (answer.rc = "ERROR_NO_MORE_FILES")' = FALSE
    BY <1>1 DEF SearchInv, Typed, NoAnswer
  <1>4. Told' = [given |-> {}, end |-> FALSE]
    BY <1>3, ToldNothing
  <1> QED BY <1>1, <1>2, <1>4 DEF Cursor!Next, Cursor!Refuse, Cursor!Nothing, Told

LEMMA FindNextImplements ==
  ASSUME SearchInv, NEW r \in Requests, FindNext(r)
  PROVE  Cursor!Next
  <1>1. /\ open /\ ~Busy /\ UNCHANGED <<open, params, first, seen>>
    BY DEF FindNext
  <1>2. \/ r.cMatch > 0 /\ BeginRequest(r) /\ from' = pIsoNext
           /\ UNCHANGED <<pIsoNext, iNext>>
        \/ /\ answer' = [rc |-> "ERROR_INVALID_PARAMETER", cMatch |-> 0]
           /\ UNCHANGED <<rq, loopvars, from>>
    BY DEF FindNext
  <1>3. seen' \in Seq(Place) /\ answer'.cMatch = 0
        /\ (answer.rc = "ERROR_NO_MORE_FILES")' = FALSE
    BY <1>1, <1>2 DEF SearchInv, Typed, NoAnswer, BeginRequest
  <1>4. Told' = [given |-> {}, end |-> FALSE]
    BY <1>3, ToldNothing
  <1>5. Todo' = Todo
    <2>1. CASE r.cMatch > 0 /\ BeginRequest(r) /\ from' = pIsoNext
               /\ UNCHANGED <<pIsoNext, iNext>>
      <3>1. Busy'
        <4>1. r # NoRequest
          BY <2>1 DEF NoRequest
        <4> QED BY <2>1, <4>1 DEF BeginRequest, Busy
      <3>2. /\ Entries' = Entries
            /\ \A i : Wanted(i)' = Wanted(i)
        BY <1>1, SameWanted
      <3> QED BY <1>1, <2>1, <3>1, <3>2 DEF Todo, WantedFrom
    <2>2. CASE UNCHANGED <<rq, loopvars, from>>
      BY <1>1, <2>2, TodoSame DEF loopvars
    <2> QED BY <1>2, <2>1, <2>2
  <1> QED BY <1>1, <1>4, <1>5 DEF Cursor!Next, Cursor!Refuse, Cursor!Nothing, Told

LEMMA FindCloseImplements ==
  ASSUME SearchInv, FindClose
  PROVE  Cursor!Next
  <1>1. /\ open /\ open' = FALSE /\ seen' = <<>> /\ answer' = NoAnswer
    BY DEF FindClose
  <1>2. Todo' = {}
    BY <1>1 DEF Todo
  <1>3. seen' \in Seq(Place) /\ answer'.cMatch = 0
        /\ (answer.rc = "ERROR_NO_MORE_FILES")' = FALSE
    BY <1>1 DEF NoAnswer
  <1>4. Told' = [given |-> {}, end |-> FALSE]
    BY <1>3, ToldNothing
  <1> QED BY <1>1, <1>2, <1>4 DEF Cursor!Next, Cursor!Close, Cursor!Nothing, Told

LEMMA StepImplements ==
  ASSUME NamesFit, SearchInv, [Next]_vars
  PROVE  Cursor!Next \/ UNCHANGED Cursor!cvars
  <1>1. ASSUME UNCHANGED <<open, answer, seen>>, Todo' = Todo
        PROVE  UNCHANGED Cursor!cvars
    BY <1>1 DEF Cursor!cvars, LastSeen
  <1>2. CASE \E s \in Searches, r \in Requests : FindFirst(s, r)
    BY <1>2, FindFirstImplements
  <1>3. CASE \E r \in Requests : FindNext(r)
    BY <1>3, FindNextImplements
  <1>4. CASE Loop
    <2>1. CASE Skip
      BY <1>1, <2>1, TodoBusy DEF Skip
    <2>2. CASE Store /\ cAdded + 1 < rq.cMatch
      BY <1>1, <2>2, TodoBusy DEF Store
    <2>3. CASE \E c, n, fields : Ends(c, n, fields)
      BY <2>3, EndImplements
    <2> QED BY <1>4, <2>1, <2>2, <2>3, LoopGoesOn
  <1>5. CASE FindClose
    BY <1>5, FindCloseImplements
  <1>6. CASE \E q \in EAQueries : QueryFileInfo(q)
    BY <1>1, <1>6, TodoSame DEF QueryFileInfo, loopvars
  <1>7. CASE UNCHANGED vars
    BY <1>1, <1>7, TodoSame DEF vars, loopvars
  <1> QED BY <1>2, <1>3, <1>4, <1>5, <1>6, <1>7 DEF Next

\* ImplementsCursor: a search gives, call by call, the first ones of what is
\* wanted and left, refuses without losing any, and tells the end when nothing
\* is left and then only, for all directories, searches, requests and rooms
\* (fsFindFirst, fsFindNext, fsFindClose).
THEOREM SearchImplementsCursor ==
  ASSUME NamesFit PROVE Spec => ImplementsCursor
  <1>1. Init => Cursor!Init
    <2> SUFFICES ASSUME Init PROVE Cursor!Init
      OBVIOUS
    <2>1. Todo = {} /\ open = FALSE
      BY DEF Init, Todo
    <2>2. LastSeen = {}
      <3>1. <<>> \in Seq(Place)
        OBVIOUS
      <3> QED BY <3>1, NoneLast DEF Init, LastSeen, NoAnswer
    <2> QED BY <2>1, <2>2 DEF Cursor!Init, Cursor!Nothing, Init, NoAnswer
  <1>2. SearchInv /\ [Next]_vars => [Cursor!Next]_(Cursor!cvars)
    BY StepImplements
  <1> QED BY <1>1, <1>2, SearchHeld, PTL DEF Spec, ImplementsCursor, Cursor!Spec

-----------------------------------------------------------------------------
(* Types, the room that is left, and queries of one file *)

\* What of the request's room is not left is in the buffer; without a handle
\* and a request there is no search.
RoomInv ==
  /\ cbData \in Nat
  /\ Busy => cbData + Bytes(pData) = rq.cbData
  /\ ~open /\ ~Busy => params = NoParams

LEMMA StoredFits ==
  ASSUME SearchInv, NamesFit, Busy, pIsoNext <= Len(Entries), cbData \in Nat
  PROVE  Room(Stored, cbData)
  <1>1. rq \in Requests
    BY DEF SearchInv, Typed, Busy
  <1>2. Here \in Place
    BY StoredIs
  <1> DEFINE n == Len(Entries[pIsoNext].name)
  <1>3. n \in Nat
    <2>1. szDir \in DOMAIN Dirs /\ pIsoNext \in 1 .. Len(Entries) + 1
      BY DEF SearchInv, Begun
    <2>2. pIsoNext \in 1 .. Len(Entries)
      BY <2>1, EntriesAre
    <2>3. n \in 0 .. 255
      BY <2>1, <2>2, EntriesAre
    <2> QED BY <2>3
  <1>4. Stored = storeFileInfo(rq.pgeas, Here, n, cbData, rq.usLevel, rq.getpos)
    BY DEF Stored, Here
  <1> HIDE DEF n
  <1> QED BY <1>1, <1>2, <1>3, <1>4, StoredRoom

\* A request that ends
LEMMA ReturnRoom ==
  ASSUME NEW rc, NEW n, NEW fields, Return(rc, n, fields)
  PROVE  RoomInv'
  <1>1. cbData' = 0 /\ ~Busy'
    BY DEF Return, Busy
  <1>2. ~open' => params' = NoParams
    BY DEF Return
  <1> QED BY <1>1, <1>2 DEF RoomInv

LEMMA RoomKept ==
  ASSUME NamesFit, SearchInv, RoomInv, [Next]_vars
  PROVE  RoomInv'
  <1>1. ASSUME NEW r \in Requests, BeginRequest(r) PROVE RoomInv'
    <2>1. cbData' = r.cbData /\ pData' = <<>> /\ rq' = r
      BY <1>1 DEF BeginRequest
    <2>2. r.cbData \in Nat /\ r # NoRequest
      BY RequestsAssumption DEF NoRequest
    <2>3. Busy'
      BY <2>1, <2>2 DEF Busy
    <2>4. cbData' + Bytes(pData') = rq'.cbData
      BY <2>1, <2>2, BytesEmpty
    <2> QED BY <2>1, <2>2, <2>3, <2>4 DEF RoomInv
  <1>2. ASSUME UNCHANGED <<open, params, rq, cbData, pData>> PROVE RoomInv'
    BY <1>2 DEF RoomInv, Busy
  <1>3. CASE \E s \in Searches, r \in Requests : FindFirst(s, r)
    BY <1>1, <1>3 DEF FindFirst
  <1>4. CASE \E r \in Requests : FindNext(r)
    <2>1. PICK r \in Requests : FindNext(r)
      BY <1>4
    <2>2. CASE BeginRequest(r)
      BY <1>1, <2>2
    <2>3. CASE UNCHANGED <<rq, loopvars, from>>
      <3>1. UNCHANGED <<open, params>>
        BY <2>1 DEF FindNext
      <3> QED BY <1>2, <2>3, <3>1 DEF loopvars
    <2> QED BY <2>1, <2>2, <2>3 DEF FindNext
  <1>5. CASE Skip
    BY <1>2, <1>5 DEF Skip
  <1>6. CASE Store /\ cAdded + 1 < rq.cMatch
    <2>1. /\ Busy /\ pIsoNext <= Len(Entries)
          /\ cbData' = Stored.cb /\ pData' = pData \o Stored.out
          /\ UNCHANGED <<open, params, rq>>
      BY <1>6 DEF Store
    <2>2. Room(Stored, cbData)
      BY <2>1, StoredFits DEF RoomInv
    <2> DEFINE o == Stored.out
               c == Stored.cb
    <2>3. o \in Seq(FieldSet) /\ c \in Nat /\ c + Bytes(o) = cbData
      BY <2>2 DEF Room
    <2>4. pData \in Seq(FieldSet)
      BY DEF SearchInv, Typed
    <2> HIDE DEF o, c
    <2>5. Bytes(pData \o o) = Bytes(pData) + Bytes(o)
      BY <2>3, <2>4, BytesJoined
    <2>6. Bytes(pData) \in Nat /\ Bytes(o) \in Nat
      <3>1. [kind |-> "pos", of |-> [entry |-> 0, pos |-> 0], size |-> 0]
              \in FieldSet
        BY DEF FieldSet, Place
      <3> QED BY <2>3, <2>4, <3>1, BytesGrow
    <2>7. cbData + Bytes(pData) = rq.cbData
      BY <2>1 DEF RoomInv
    <2>8. c + Bytes(pData \o o) = rq.cbData
      BY <2>3, <2>5, <2>6, <2>7
    <2>9. Busy' /\ cbData' = c /\ pData' = pData \o o /\ rq' = rq
      BY <2>1 DEF Busy, o, c
    <2>10. cbData' + Bytes(pData') = rq'.cbData
      BY <2>8, <2>9
    <2> QED BY <2>3, <2>9, <2>10 DEF RoomInv
  <1>7. CASE \E c, n, fields : Ends(c, n, fields)
    BY <1>7, ReturnRoom DEF Ends
  <1>8. CASE Loop
    BY <1>5, <1>6, <1>7, <1>8, LoopGoesOn
  <1>9. CASE FindClose
    <2>1. ~Busy /\ params' = NoParams /\ UNCHANGED <<rq, cbData>>
      BY <1>9 DEF FindClose, loopvars
    <2> QED BY <2>1 DEF RoomInv, Busy
  <1>10. CASE \E q \in EAQueries : QueryFileInfo(q)
    BY <1>2, <1>10 DEF QueryFileInfo, loopvars
  <1>11. CASE UNCHANGED vars
    BY <1>2, <1>11 DEF vars, loopvars
  <1> QED BY <1>3, <1>4, <1>8, <1>9, <1>10, <1>11 DEF Next

\* TypeOK: every value is of its kind, a search stands within its directory or
\* at its end, and what the request has not used of its room is what is left.
THEOREM SearchTypes == ASSUME NamesFit PROVE Spec => []TypeOK
  <1>1. Init => RoomInv
    BY DEF Init, RoomInv, Busy
  <1>2. SearchInv /\ RoomInv /\ [Next]_vars => RoomInv'
    BY RoomKept
  <1>3. SearchInv /\ RoomInv => TypeOK
    <2> SUFFICES ASSUME SearchInv, RoomInv PROVE TypeOK
      OBVIOUS
    <2>1. params \in Searches \cup {NoParams}
      BY DEF SearchInv, Begun, RoomInv
    <2>2. params # NoParams => pIsoNext \in 1 .. Len(Entries) + 1
      BY DEF SearchInv, Begun, RoomInv
    <2>3. Busy => cAdded < rq.cMatch
      <3> SUFFICES ASSUME Busy PROVE cAdded < rq.cMatch
        OBVIOUS
      <3>1. rq \in Requests /\ cAdded \in Nat /\ rq.cMatch > cAdded
        BY DEF SearchInv, Typed, During, Busy
      <3>2. rq.cMatch \in Nat
        BY <3>1, RequestsAssumption
      <3> QED BY <3>1, <3>2
    <2>4. ASSUME NEW i \in DOMAIN seen PROVE seen[i].entry \in 1 .. Len(Entries)
      <3>1. PICK n \in Nat : Listing(seen, Meant, 1, n)
        <4>1. CASE Busy
          BY <4>1 DEF SearchInv, Typed, During
        <4>2. CASE ~Busy /\ open
          BY <4>2 DEF SearchInv, Typed, Between
        <4>3. CASE ~open
          <5>1. DOMAIN seen = {}
            BY <4>3 DEF SearchInv, Closed
          <5> QED BY <5>1
        <4> QED BY <4>1, <4>2, <4>3
      <3>2. seen[i].entry \in Meant
        BY <3>1 DEF Listing
      <3> QED BY <3>2 DEF Meant
    <2> QED BY <2>1, <2>2, <2>3, <2>4 DEF SearchInv, Typed, RoomInv, TypeOK
  <1> QED BY <1>1, <1>2, <1>3, SearchHeld, PTL DEF Spec

\* Running totals never fall.
LEMMA TotalsGrow ==
  ASSUME NEW N \in Nat, NEW a \in Nat, NEW t \in [1 .. N -> Nat],
         NEW f \in Totals(N, a, t)
  PROVE  \A k \in 0 .. N : f[k] <= f[N]
  <1> DEFINE T == {n \in 0 .. N : \A k \in 0 .. n : f[k] <= f[n]}
  <1>1. f \in [0 .. N -> Nat] /\ \A n \in 1 .. N : f[n] = f[n - 1] + t[n]
    BY DEF Totals
  <1>2. 0 \in T
    BY <1>1
  <1>3. \A n \in 0 .. N - 1 : n \in T => n + 1 \in T
    <2>1. SUFFICES ASSUME NEW n \in 0 .. N - 1, n \in T PROVE n + 1 \in T
      OBVIOUS
    <2>2. n + 1 \in 1 .. N /\ n + 1 - 1 = n
      OBVIOUS
    <2>3. f[n + 1] = f[n] + t[n + 1] /\ f[n] \in Nat /\ t[n + 1] \in Nat
      BY <1>1, <2>2
    <2>4. ASSUME NEW k \in 0 .. n + 1 PROVE f[k] <= f[n + 1]
      <3>1. CASE k = n + 1
        BY <2>3, <3>1
      <3>2. CASE k # n + 1
        <4>1. k \in 0 .. n /\ k \in 0 .. N
          BY <3>2
        <4>2. f[k] <= f[n] /\ f[k] \in Nat
          BY <1>1, <2>1, <4>1
        <4> QED BY <2>3, <4>2
      <3> QED BY <3>1, <3>2
    <2> QED BY <2>2, <2>4
  <1>4. \A n \in 0 .. N : n \in T
    <2> HIDE DEF T
    <2> QED BY <1>2, <1>3, BoundedInduction
  <1> QED BY <1>4

\* No element of a list ends after the last one.
LEMMA EndsGrow ==
  ASSUME NEW names \in Seq(Nat), NEW more \in Nat
  PROVE  /\ EndOf(names, more, 0) = 4
         /\ \A k \in 0 .. Len(names) :
              /\ EndOf(names, more, k) \in Nat
              /\ EndOf(names, more, k) <= EndOf(names, more, Len(names))
  <1> DEFINE L == Len(names)
             t == Elements(names, more)
  <1>1. L \in Nat /\ 4 \in Nat /\ 0 \in 0 .. L /\ L \in 0 .. L
    OBVIOUS
  <1>2. t \in [1 .. L -> Nat]
    <2>1. \A n \in 1 .. L : names[n] \in Nat
      OBVIOUS
    <2> QED BY <2>1 DEF Elements
  <1>3. \A k \in 0 .. L : EndOf(names, more, k) \in Nat
                          /\ \A f \in Totals(L, 4, t) : EndOf(names, more, k) = f[k]
    BY EndOfIs
  <1> HIDE DEF t, L
  <1>4. PICK f : f \in Totals(L, 4, t)
    BY <1>1, <1>2, TotalsExist
  <1>5. \A k \in 0 .. L : f[k] <= f[L]
    BY <1>1, <1>2, <1>4, TotalsGrow
  <1>6. f[0] = 4
    BY <1>4 DEF Totals
  <1>7. \A k \in 0 .. L : EndOf(names, more, k) = f[k]
    BY <1>3, <1>4
  <1> QED BY <1>1, <1>3, <1>5, <1>6, <1>7 DEF L

\* The daemon's answer to a list that is taken and whose names are all there:
\* no error if it ends with a name and its EAs fit in 64 KB, and then all of them
LEMMA ListTold ==
  ASSUME NEW names \in Seq(Nat), NEW cbList \in Int, cbList >= 4,
         \A k \in 1 .. Len(names) : EndOf(names, GEABytes, k - 1) < cbList,
         EndOf(names, GEABytes, Len(names)) >= cbList
  PROVE  LET eas == storeEAsInFEAList([cbList |-> cbList, names |-> names],
                                      MaxList)
             all == EndOf(names, EABytes, Len(names))
         IN  /\ eas.rc = "NO_ERROR" <=>
                  /\ EndOf(names, GEABytes, Len(names)) = cbList
                  /\ all <= MaxList
             /\ eas.cbList = IF eas.rc = "NO_ERROR" THEN all ELSE 0
             /\ all \in Nat
  <1> DEFINE geas  == [cbList |-> cbList, names |-> names]
             L     == Len(names)
             G(k)  == EndOf(names, GEABytes, k)
             E(k)  == EndOf(names, EABytes, k)
             taken == {k \in DOMAIN names : G(k - 1) < cbList}
             torn  == {k \in taken : G(k) > cbList}
             tooMuch == {k \in taken : E(k) > MaxList}
             inconsistent == \/ cbList < 4
                             \/ \E k \in torn : \A j \in tooMuch : k <= j
             eas   == storeEAsInFEAList(geas, MaxList)
  <1>1. eas = IF MaxList < 4 THEN [rc |-> "ERROR_BUFFER_OVERFLOW", cbList |-> 0]
              ELSE IF geas = NoGeas THEN [rc |-> "NO_ERROR", cbList |-> 4]
              ELSE IF inconsistent
              THEN [rc |-> "ERROR_EA_LIST_INCONSISTENT", cbList |-> 0]
              ELSE IF tooMuch # {}
              THEN [rc |-> "ERROR_BUFFER_OVERFLOW", cbList |-> 0]
              ELSE [rc |-> "NO_ERROR", cbList |-> E(Cardinality(taken))]
    BY DEF storeEAsInFEAList
  <1>2. geas # NoGeas /\ ~(MaxList < 4) /\ ~(cbList < 4)
    BY DEF NoGeas, MaxList
  <1>3. /\ L \in Nat /\ DOMAIN names = 1 .. L
        /\ \A k \in 1 .. L : G(k - 1) < cbList
        /\ G(L) >= cbList
    OBVIOUS
  <1>4. /\ G(0) = 4 /\ E(0) = 4
        /\ \A k \in 0 .. L : G(k) \in Nat /\ G(k) <= G(L)
        /\ \A k \in 0 .. L : E(k) \in Nat /\ E(k) <= E(L)
    <2>1. GEABytes \in Nat /\ EABytes \in Nat
      BY DEF GEABytes, EABytes, FEASize
    <2> QED BY <2>1, EndsGrow
  <1>5. taken = 1 .. L
    <2> HIDE DEF G, L
    <2> QED BY <1>3
  <1>6. Cardinality(taken) = L
    <2> HIDE DEF L, taken
    <2>1. Cardinality(1 .. L) = L
      BY <1>3, FS_Interval
    <2> QED BY <1>5, <2>1
  <1>7. torn = {} <=> G(L) = cbList
    <2> HIDE DEF G, L, taken
    <2>1. ASSUME G(L) = cbList PROVE torn = {}
      <3>1. \A k \in taken : ~(G(k) > cbList)
        <4>1. \A k \in 1 .. L : k \in 0 .. L
          OBVIOUS
        <4>2. \A k \in 1 .. L : G(k) \in Nat /\ G(k) <= G(L)
          BY <1>4, <4>1
        <4> QED BY <1>5, <2>1, <4>2
      <3> QED BY <3>1
    <2>2. ASSUME torn = {} PROVE G(L) = cbList
      <3>1. CASE L = 0
        BY <1>3, <1>4, <3>1
      <3>2. CASE L # 0
        <4>1. L \in taken
          BY <1>3, <1>5, <3>2
        <4>2. ~(G(L) > cbList)
          BY <2>2, <4>1
        <4>3. G(L) \in Nat
          BY <1>3, <1>4
        <4> QED BY <1>3, <4>2, <4>3
      <3> QED BY <3>1, <3>2
    <2> QED BY <2>1, <2>2
  <1>8. tooMuch = {} <=> E(L) <= MaxList
    <2>0. MaxList \in Nat /\ MaxList >= 4
      BY DEF MaxList
    <2> HIDE DEF E, L, taken
    <2>1. ASSUME E(L) <= MaxList PROVE tooMuch = {}
      <3>1. \A k \in taken : ~(E(k) > MaxList)
        <4>1. \A k \in 1 .. L : k \in 0 .. L
          OBVIOUS
        <4>2. \A k \in 1 .. L : E(k) \in Nat /\ E(k) <= E(L)
          BY <1>4, <4>1
        <4>3. E(L) \in Nat
          BY <1>3, <1>4
        <4> QED BY <1>5, <2>0, <2>1, <4>2, <4>3
      <3> QED BY <3>1
    <2>2. ASSUME tooMuch = {} PROVE E(L) <= MaxList
      <3>1. CASE L = 0
        BY <1>4, <2>0, <3>1
      <3>2. CASE L # 0
        <4>1. L \in taken
          BY <1>3, <1>5, <3>2
        <4>2. ~(E(L) > MaxList)
          BY <2>2, <4>1
        <4>3. E(L) \in Nat
          BY <1>3, <1>4
        <4> QED BY <2>0, <4>2, <4>3
      <3> QED BY <3>1, <3>2
    <2> QED BY <2>1, <2>2
  <1>9. E(L) \in Nat
    BY <1>3, <1>4
  <1> HIDE DEF geas, G, E, L, taken, torn, tooMuch, eas
  <1>10. CASE torn = {} /\ tooMuch = {}
    <2>1. ~inconsistent
      BY <1>2, <1>10
    <2> HIDE DEF inconsistent
    <2>2. eas = [rc |-> "NO_ERROR", cbList |-> E(L)]
      BY <1>1, <1>2, <1>6, <1>10, <2>1
    <2>3. eas.rc = "NO_ERROR" /\ eas.cbList = E(L)
      BY <2>2
    <2> QED BY <1>7, <1>8, <1>9, <1>10, <2>3 DEF eas, geas, G, E, L
  <1>11. CASE ~(torn = {} /\ tooMuch = {})
    <2>1. inconsistent \/ tooMuch # {}
      BY <1>11
    <2> HIDE DEF inconsistent
    <2>2. \/ eas = [rc |-> "ERROR_EA_LIST_INCONSISTENT", cbList |-> 0]
          \/ eas = [rc |-> "ERROR_BUFFER_OVERFLOW", cbList |-> 0]
      BY <1>1, <1>2, <2>1
    <2>3. eas.rc # "NO_ERROR" /\ eas.cbList = 0
      BY <2>2
    <2> QED BY <1>7, <1>8, <1>9, <1>11, <2>3 DEF eas, geas, G, E, L
  <1> QED BY <1>10, <1>11

\* The size of all EAs asked for, as EAListsTold adds it up
LEMMA SizeTold ==
  ASSUME NEW names \in Seq(Nat)
  PROVE  LET size[k \in 0 .. Len(names)] ==
               IF k = 0 THEN 4 ELSE size[k - 1] + (FEASize + names[k] + 1)
         IN  size[Len(names)] = EndOf(names, EABytes, Len(names))
  <1> DEFINE L == Len(names)
             Body(f) == [k \in 0 .. L |->
                           IF k = 0 THEN 4
                           ELSE f[k - 1] + (FEASize + names[k] + 1)]
             size == CHOOSE f : f = Body(f)
             t == Elements(names, EABytes)
  <1>1. L \in Nat /\ 4 \in Nat /\ EABytes \in Nat /\ L \in 0 .. L
        /\ \A n \in 1 .. L : names[n] \in Nat
    BY DEF EABytes, FEASize
  <1>2. \A k \in 1 .. L : t[k] = FEASize + names[k] + 1
    BY <1>1 DEF Elements, EABytes, FEASize
  <1>3. t \in [1 .. L -> Nat]
    BY <1>1 DEF Elements
  <1>4. EndOf(names, EABytes, L) \in Nat
        /\ \A f \in Totals(L, 4, t) : EndOf(names, EABytes, L) = f[L]
    BY <1>1, EndOfIs
  <1> HIDE DEF t, L
  <1>5. PICK g : g \in Totals(L, 4, t)
    BY <1>1, <1>3, TotalsExist
  <1>6. g = Body(g)
    BY <1>2, <1>5 DEF Totals
  <1>7. size = Body(size)
    <2> HIDE DEF Body
    <2> QED BY <1>6
  <1> HIDE DEF size
  <1>8. size = [k \in 0 .. L |-> IF k = 0 THEN 4 ELSE size[k - 1] + t[k]]
    <2>1. \A k \in 0 .. L : k # 0 => k \in 1 .. L
      BY <1>1
    <2> QED BY <1>2, <1>7, <2>1
  <1>9. size \in Totals(L, 4, t)
    BY <1>1, <1>3, <1>8, TotalsMeet
  <1>10. size[L] = EndOf(names, EABytes, L)
    BY <1>4, <1>9
  <1> QED BY <1>10 DEF size, L

\* What EAListsTold says of an answer, with the size of all EAs added up
EAsTold(level, room, cbList, names, rc, told, copied, all) ==
  LET whole == level = 3 => EndOf(names, GEABytes, Len(names)) = cbList
  IN  /\ rc = "NO_ERROR" <=> whole /\ all <= MaxList
      /\ rc = "NO_ERROR" => told = all
      /\ rc = "NO_ERROR" /\ all <= room => copied = all
      /\ copied <= room

\* What is copied of a list of some size
LEMMA CopiedIs ==
  ASSUME NEW cbList \in Nat, NEW room \in Nat
  PROVE  /\ CopiedBytes(cbList, room) <= room
         /\ cbList <= MaxList /\ cbList <= room
              => CopiedBytes(cbList, room) = cbList
  BY DEF CopiedBytes, MaxList

\* What the daemon and the driver answer to a query of all EAs
LEMMA AllTold ==
  ASSUME NEW room \in Nat, NEW pgeas, NEW held, NEW cbList
  PROVE  LET a == FileInfoAnswer(4, room, pgeas, held)
         IN  EAsTold(4, room, cbList, <<>>, a.rc, a.cbList, a.copied, 4)
  <1> DEFINE a == FileInfoAnswer(4, room, pgeas, held)
  <1>1. storeEAsInFEAList(NoGeas, MaxList) = [rc |-> "NO_ERROR", cbList |-> 4]
    BY DEF storeEAsInFEAList, MaxList
  <1>2. a = [rc |-> "NO_ERROR", cbList |-> 4, copied |-> CopiedBytes(4, room)]
    BY <1>1 DEF FileInfoAnswer
  <1> HIDE DEF a
  <1>3. a.rc = "NO_ERROR" /\ a.cbList = 4 /\ a.copied = CopiedBytes(4, room)
    BY <1>2
  <1>4. /\ CopiedBytes(4, room) <= room
        /\ 4 <= MaxList /\ 4 <= room => CopiedBytes(4, room) = 4
    BY CopiedIs
  <1>5. 4 <= MaxList /\ 4 # 3
    BY DEF MaxList
  <1> QED BY <1>3, <1>4, <1>5 DEF EAsTold, a

\* and of the EAs in a list
LEMMA NamedTold ==
  ASSUME NEW q \in EAQueries, q.level = 3, Taken(q.pgeas)
  PROVE  LET a == FileInfoAnswer(3, q.room, q.pgeas, q.held)
             names == q.pgeas.names
         IN  /\ names \in Seq(Nat)
             /\ EAsTold(3, q.room, q.pgeas.cbList, names, a.rc, a.cbList, a.copied,
                     EndOf(names, EABytes, Len(names)))
  <1> DEFINE a      == FileInfoAnswer(3, q.room, q.pgeas, q.held)
             geas   == q.pgeas
             cbList == geas.cbList
             names  == geas.names
             eas    == storeEAsInFEAList(geas, MaxList)
             all    == EndOf(names, EABytes, Len(names))
             whole  == EndOf(names, GEABytes, Len(names)) = cbList
  <1>1. /\ q.room \in Nat /\ geas \in [cbList : Int, names : Seq(Nat)]
        /\ \A k \in DOMAIN names : EndOf(names, GEABytes, k - 1) < cbList
        /\ EndOf(names, GEABytes, Len(names)) >= cbList
    BY EAQueriesAssumption
  <1>2. a = [rc |-> eas.rc, cbList |-> eas.cbList,
             copied |-> CopiedBytes(eas.cbList, q.room)]
    BY DEF FileInfoAnswer
  <1>3. cbList >= 4
    <2>1. q.pgeas.cbList \in 4 .. MaxList
      BY DEF Taken
    <2>2. \A c \in 4 .. MaxList : c >= 4
      BY DEF MaxList
    <2> QED BY <2>1, <2>2
  <1> HIDE DEF geas
  <1>4. /\ names \in Seq(Nat) /\ cbList \in Int
        /\ geas = [cbList |-> cbList, names |-> names]
    BY <1>1
  <1> HIDE DEF a, eas, cbList
  <1>5. DOMAIN names = 1 .. Len(names)
    BY <1>4
  <1> HIDE DEF names
  <1>6. /\ eas.rc = "NO_ERROR" <=> whole /\ all <= MaxList
        /\ eas.cbList = IF eas.rc = "NO_ERROR" THEN all ELSE 0
        /\ all \in Nat
    <2>1. \A k \in 1 .. Len(names) : EndOf(names, GEABytes, k - 1) < cbList
      BY <1>1, <1>5
    <2> QED BY <1>1, <1>3, <1>4, <2>1, ListTold DEF eas
  <1> HIDE DEF all, whole
  <1>7. eas.cbList \in Nat
    BY <1>6
  <1>8. /\ CopiedBytes(eas.cbList, q.room) <= q.room
        /\ eas.cbList <= MaxList /\ eas.cbList <= q.room
             => CopiedBytes(eas.cbList, q.room) = eas.cbList
    BY <1>1, <1>7, CopiedIs
  <1>9. /\ a.rc = eas.rc /\ a.cbList = eas.cbList
        /\ a.copied = CopiedBytes(eas.cbList, q.room)
    BY <1>2
  <1>10. EAsTold(3, q.room, cbList, names, a.rc, a.cbList, a.copied, all)
    BY <1>6, <1>8, <1>9 DEF EAsTold, whole
  <1> QED BY <1>4, <1>10 DEF a, cbList, names, geas, all

\* EAListsTold with the sizes added up by EndOf
LEMMA EAsToldIs ==
  ASSUME NEW names \in Seq(Nat), NEW level, NEW room, NEW cbList, NEW rc,
         NEW told, NEW copied,
         EAsTold(level, room, cbList, names, rc, told, copied,
              EndOf(names, EABytes, Len(names)))
  PROVE  LET size[k \in 0 .. Len(names)] ==
               IF k = 0 THEN 4 ELSE size[k - 1] + (FEASize + names[k] + 1)
         IN  EAsTold(level, room, cbList, names, rc, told, copied,
                  size[Len(names)])
  <1> DEFINE all == LET size[k \in 0 .. Len(names)] ==
                          IF k = 0 THEN 4
                          ELSE size[k - 1] + (FEASize + names[k] + 1)
                    IN  size[Len(names)]
  <1>1. all = EndOf(names, EABytes, Len(names))
    BY SizeTold
  <1> HIDE DEF all
  <1>2. EAsTold(level, room, cbList, names, rc, told, copied, all)
    BY <1>1
  <1> QED BY <1>2 DEF all

\* What is known of a query once it has been answered
LEMMA QueryTold ==
  ASSUME NEW q \in EAQueries, QueryFileInfo(q)
  PROVE  EAListsTold'
  <1> DEFINE a == FileInfoAnswer(q.level, q.room, q.pgeas, q.held)
             names == IF q.level = 3 THEN q.pgeas.names ELSE <<>>
             all == LET size[k \in 0 .. Len(names)] ==
                          IF k = 0 THEN 4
                          ELSE size[k - 1] + (FEASize + names[k] + 1)
                    IN  size[Len(names)]
  <1>1. info' = [level |-> q.level, room |-> q.room, pgeas |-> q.pgeas,
                 rc |-> a.rc, cbList |-> a.cbList, copied |-> a.copied]
    BY DEF QueryFileInfo
  <1> HIDE DEF a
  <1>2. /\ info'.level = q.level /\ info'.room = q.room
        /\ info'.pgeas = q.pgeas /\ info'.rc = a.rc
        /\ info'.cbList = a.cbList /\ info'.copied = a.copied
    BY <1>1
  <1>3. q.room \in Nat
    BY EAQueriesAssumption
  <1>4. ASSUME q.level = 4 \/ (q.level = 3 /\ Taken(q.pgeas))
        PROVE  EAsTold(q.level, q.room, q.pgeas.cbList, names, a.rc, a.cbList,
                    a.copied, all)
    <2>1. /\ names \in Seq(Nat)
          /\ EAsTold(q.level, q.room, q.pgeas.cbList, names, a.rc, a.cbList,
                  a.copied, EndOf(names, EABytes, Len(names)))
      <3>1. CASE q.level = 4
        <4>1. names = <<>> /\ <<>> \in Seq(Nat) /\ Len(<<>>) = 0
          BY <3>1
        <4>2. EABytes \in Nat
          BY DEF EABytes, FEASize
        <4>3. EndOf(<<>>, EABytes, 0) = 4
          BY <4>1, <4>2, EndsGrow
        <4>4. EAsTold(4, q.room, q.pgeas.cbList, <<>>, a.rc, a.cbList, a.copied, 4)
          BY <1>3, <3>1, AllTold DEF a
        <4> HIDE DEF names
        <4> QED BY <3>1, <4>1, <4>3, <4>4
      <3>2. CASE q.level = 3 /\ Taken(q.pgeas)
        <4>1. names = q.pgeas.names
          BY <3>2
        <4>2. a = FileInfoAnswer(3, q.room, q.pgeas, q.held)
          BY <3>2 DEF a
        <4> HIDE DEF names
        <4> QED BY <3>2, <4>1, <4>2, NamedTold
      <3> QED BY <1>4, <3>1, <3>2
    <2> HIDE DEF names
    <2> QED BY <2>1, EAsToldIs
  <1> DEFINE nms == IF info'.level = 3 THEN info'.pgeas.names ELSE <<>>
             sum == LET size[k \in 0 .. Len(nms)] ==
                          IF k = 0 THEN 4
                          ELSE size[k - 1] + (FEASize + nms[k] + 1)
                    IN  size[Len(nms)]
  <1>5. EAListsTold'
          <=> (info'.level = 4 \/ (info'.level = 3 /\ Taken(info'.pgeas)) =>
                 EAsTold(info'.level, info'.room, info'.pgeas.cbList, nms,
                      info'.rc, info'.cbList, info'.copied, sum))
    BY DEF EAListsTold, EAsTold
  <1>6. nms = names
    BY <1>2
  <1>7. sum = all
    <2> HIDE DEF nms, names
    <2> QED BY <1>6
  <1> HIDE DEF nms, names, all, sum
  <1> QED BY <1>2, <1>4, <1>5, <1>6, <1>7

\* EAListsTold: a program that asks for EAs by name, with a list the driver
\* takes, is refused if the list is torn or the EAs are too many, and is given
\* them all if it has room, never more than that; for every list of names and
\* all rooms (storeEAsInFEAList, copyEAOP).
THEOREM EAListsAlwaysTold == Spec => []EAListsTold
  <1>1. Init => EAListsTold
    BY DEF Init, EAListsTold, NoInfo
  <1>2. EAListsTold /\ [Next]_vars => EAListsTold'
    <2> SUFFICES ASSUME EAListsTold, [Next]_vars PROVE EAListsTold'
      OBVIOUS
    <2>1. ASSUME UNCHANGED info PROVE EAListsTold'
      BY <2>1 DEF EAListsTold
    <2>2. CASE \E s \in Searches, r \in Requests : FindFirst(s, r)
      BY <2>2 DEF FindFirst, EAListsTold, NoInfo
    <2>3. CASE \E r \in Requests : FindNext(r)
      BY <2>1, <2>3 DEF FindNext
    <2>4. CASE Loop
      BY <2>1, <2>4 DEF Loop, Skip, Store, DoesNotFit, EndOfDirectory, Stop,
                        Return
    <2>5. CASE FindClose
      BY <2>1, <2>5 DEF FindClose
    <2>6. CASE \E q \in EAQueries : QueryFileInfo(q)
      BY <2>6, QueryTold
    <2>7. CASE UNCHANGED vars
      BY <2>1, <2>7 DEF vars
    <2> QED BY <2>2, <2>3, <2>4, <2>5, <2>6, <2>7 DEF Next
  <1> QED BY <1>1, <1>2, PTL DEF Spec
=============================================================================
