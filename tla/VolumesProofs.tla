--------------------------- MODULE VolumesProofs ---------------------------
(***************************************************************************)
(* Theorems about drives, volumes and handles, for any number of daemon    *)
(* processes, drive letters, volumes and handles.                          *)
(***************************************************************************)
EXTENDS Volumes, FiniteSetTheorems, TLAPS

\* The registered daemon, and no other process, is in its loop or leaves it.
Registered == \A g \in Daemons : pid = g <=> dpc[g] \in {"running", "leaving"}

\* The loops over letters and over the list are where they can be.
Positions ==
  \A g \in Daemons :
    /\ dpc[g] \in {"query", "detaching"} => pos[g] >= 1
    /\ dpc[g] = "detach" => pos[g] \in Letters

\* A process has no volumes before it is registered.
Before == {"off", "query", "detach", "tell", "announce"}
NothingYet == \A g \in Daemons : dpc[g] \in Before => \A v \in Vols : owner[v] # g

\* The volumes of a list are its process's, and each is in it once.
Chained ==
  \A g \in Daemons :
    /\ \A i \in DOMAIN list[g] : owner[list[g][i]] = g
    /\ \A i, j \in DOMAIN list[g] : list[g][i] = list[g][j] => i = j

Placed == \A v \in Vols : owner[v] # None => at[v] \in Letters

\* The kernel's drives and handles lead to records that have been allocated.
Allocated ==
  /\ \A l \in Letters : drive[l] # None => owner[drive[l]] # None /\ at[drive[l]] = l
  /\ \A h \in Handles :
       IF handle[h].kind = "none" THEN handle[h] = NoHandle
       ELSE handle[h].vol # None /\ owner[handle[h].vol] # None /\ handle[h].refs # 0

Files(v)    == {h \in Using(v) : handle[h].kind = "file"}
Searches(v) == {h \in Using(v) : handle[h].kind = "search"}

Fresh ==
  \A v \in Vols :
    owner[v] = None => /\ cOpenFiles[v] = 0 /\ lostFiles[v] = 0
                       /\ cSearches[v] = 0 /\ lostSearches[v] = 0

\* A count is of the handles on the volume and of what was lost.
CountOk(v) ==
  /\ cOpenFiles[v] = Cardinality(Files(v)) + lostFiles[v]
  /\ cSearches[v] = Cardinality(Searches(v)) + lostSearches[v]
Counted == pid # None => \A v \in Listed(pid) : CountOk(v)

\* The registered daemon's list has the volumes behind its drives and no
\* others, and what handles lead to is in it or was detached by force.
Matched ==
  pid # None =>
    /\ \A v \in Listed(pid) : drive[at[v]] = v
    /\ \A l \in Letters : drive[l] # None /\ owner[drive[l]] = pid => drive[l] \in Listed(pid)
    /\ \A h \in Handles :
         handle[h].vol # None /\ owner[handle[h].vol] = pid =>
           handle[h].vol \in Listed(pid) \cup forced

ProcessInv == Registered /\ Positions
VolumeInv ==
  /\ Chained /\ Placed /\ Allocated /\ Fresh /\ Counted /\ Matched
  /\ FreedUsedOnlyAfterForce
VolInv == TypeOK /\ ProcessInv /\ NothingYet /\ VolumeInv

\* A daemon that is alone finds every drive, and what it has passed is gone.
Cleared(g, l) ==
  \/ dpc[g] \in {"query", "detach"} /\ l < pos[g]
  \/ dpc[g] \in {"tell", "announce"}

Loner(g) ==
  /\ dpc[g] \in Before \ {"off"} =>
       /\ pid = None
       /\ \A x \in Daemons \ {g} : ~Live(x)
       /\ \A l \in Letters : Cleared(g, l) => drive[l] = None
  /\ pid = g => \A l \in Letters : drive[l] # None => owner[drive[l]] = g
  /\ dpc[g] # "off"

LonerInv == \A g \in alone : Loner(g)

-----------------------------------------------------------------------------
(* The operations on the list and on the counters.                         *)

\* Taking a volume out of a list leaves the others, each once.
LEMMA Removed ==
  ASSUME TypeOK, Chained, NEW g \in Daemons, NEW v \in Listed(g),
         list' = Remove(g, v), UNCHANGED owner
  PROVE  /\ list' \in [Daemons -> Seq(Vols)]
         /\ Listed(g)' = Listed(g) \ {v}
         /\ \A x \in Daemons : x # g => list'[x] = list[x]
         /\ Chained'
<1> DEFINE s == list[g]
           i == CHOOSE k \in DOMAIN s : s[k] = v
           t == [k \in 1 .. Len(s) - 1 |-> IF k < i THEN s[k] ELSE s[k + 1]]
<1>1. s \in Seq(Vols) /\ Len(s) \in Nat /\ DOMAIN s = 1 .. Len(s)
  BY DEF TypeOK
<1>2. i \in 1 .. Len(s) /\ s[i] = v
  <2>1. \E k \in DOMAIN s : s[k] = v
    BY <1>1 DEF Listed
  <2> QED BY <1>1, <2>1
<1> HIDE DEF i
<1>3. t \in Seq(Vols) /\ Len(t) = Len(s) - 1 /\ DOMAIN t = 1 .. Len(s) - 1
  <2>1. \A k \in 1 .. Len(s) - 1 : t[k] \in Vols
    BY <1>1
  <2>2. t \in [1 .. Len(s) - 1 -> Vols] /\ Len(s) - 1 \in Nat
    BY <1>1, <1>2, <2>1
  <2> QED BY <2>2
<1>4. list' = [list EXCEPT ![g] = t]
  BY DEF Remove, i
<1>5. \A k \in 1 .. Len(s) - 1 : t[k] = IF k < i THEN s[k] ELSE s[k + 1]
  BY DEF t
<1>6. \A j, k \in 1 .. Len(s) : s[j] = s[k] => j = k
  BY <1>1 DEF Chained
<1> HIDE DEF t, s
<1>7. Listed(g)' = Listed(g) \ {v}
  <2>1. list'[g] = t
    BY <1>4 DEF TypeOK
  <2>2. ASSUME NEW x \in Listed(g) \ {v} PROVE \E k \in 1 .. Len(t) : t[k] = x
    <3>1. PICK k \in 1 .. Len(s) : s[k] = x
      BY DEF Listed, s
    <3>2. CASE k < i
      BY <1>1, <1>2, <1>3, <1>5, <3>1, <3>2
    <3>3. CASE k > i
      <4>1. k - 1 \in 1 .. Len(s) - 1 /\ ~(k - 1 < i) /\ (k - 1) + 1 = k
        BY <1>1, <1>2, <3>3
      <4>2. t[k - 1] = x
        BY <1>5, <3>1, <4>1
      <4> QED BY <1>3, <4>1, <4>2
    <3>4. k # i
      BY <1>2, <3>1
    <3> QED BY <1>1, <1>2, <3>2, <3>3, <3>4
  <2>3. ASSUME NEW k \in 1 .. Len(t) PROVE t[k] \in Listed(g) \ {v}
    <3>1. k \in 1 .. Len(s) - 1 /\ k + 1 \in 1 .. Len(s) /\ k \in 1 .. Len(s)
      BY <1>1, <1>3
    <3>2. \A j \in 1 .. Len(s) : s[j] \in Listed(g)
      BY DEF Listed, s
    <3> QED BY <1>1, <1>2, <1>5, <1>6, <3>1, <3>2
  <2>4. Listed(g)' = {t[k] : k \in 1 .. Len(t)}
    BY <2>1 DEF Listed
  <2> QED BY <2>2, <2>3, <2>4
<1>8. Chained'
  <2>1. \A j, k \in 1 .. Len(s) - 1 : t[j] = t[k] => j = k
    BY <1>1, <1>2, <1>5, <1>6
  <2>2. \A k \in 1 .. Len(s) - 1 : owner[t[k]] = g
    BY <1>1, <1>2, <1>5 DEF Chained, s
  <2> QED BY <1>3, <1>4, <2>1, <2>2 DEF Chained, TypeOK
<1> QED BY <1>3, <1>4, <1>7, <1>8 DEF TypeOK

\* The types of what is not about processes
DataTypes ==
  /\ list \in [Daemons -> Seq(Vols)]
  /\ owner \in [Vols -> Daemons \cup {None}]
  /\ at \in [Vols -> 0 .. LastDrive]
  /\ cOpenFiles \in [Vols -> Nat] /\ cSearches \in [Vols -> Nat]
  /\ lostFiles \in [Vols -> Nat] /\ lostSearches \in [Vols -> Nat]
  /\ drive \in [Letters -> Vols \cup {None}]
  /\ handle \in [Handles -> [kind : {"none", "file", "search"},
                             vol : Vols \cup {None}, refs : 0 .. MaxRefs]]
  /\ forced \subseteq Vols /\ dangling \subseteq Vols
  /\ foreign \subseteq Daemons

\* A volume whose counters say so is used by no handle.
LEMMA Unused ==
  ASSUME TypeOK, Allocated, NEW v \in Vols, CountOk(v),
         cOpenFiles[v] = 0, cSearches[v] = 0
  PROVE  Using(v) = {}
<1>1. IsFiniteSet(Files(v)) /\ IsFiniteSet(Searches(v))
  BY HandlesAssumption, FS_Subset DEF Files, Searches, Using
<1>2. Files(v) = {} /\ Searches(v) = {}
  <2>1. Cardinality(Files(v)) \in Nat /\ Cardinality(Searches(v)) \in Nat
    BY <1>1, FS_CardinalityType
  <2>2. lostFiles[v] \in Nat /\ lostSearches[v] \in Nat
    BY DEF TypeOK
  <2>3. Cardinality(Files(v)) = 0 /\ Cardinality(Searches(v)) = 0
    BY <2>1, <2>2 DEF CountOk
  <2> QED BY <1>1, <2>3, FS_EmptySet
<1>3. ASSUME NEW h \in Using(v) PROVE FALSE
  <2>1. handle[h].kind \in {"none", "file", "search"} /\ handle[h].vol = v /\ h \in Handles
    BY DEF Using, TypeOK
  <2>2. handle[h].kind # "none"
    BY <2>1, NoneAssumption DEF Allocated, NoHandle
  <2> QED BY <1>2, <2>1, <2>2 DEF Files, Searches
<1> QED BY <1>3

\* The records behind drives are the registered daemon's own or another
\* process's, but not freed ones.
LEMMA FollowDrive ==
  ASSUME TypeOK, Matched, pid # None, NEW l \in Letters, drive[l] # None,
         Follow(drive[l])
  PROVE  dangling' = dangling /\ foreign' \subseteq Daemons
BY DEF TypeOK, Matched, Follow

\* Behind a handle there may be a freed one, if it was detached by force.
LEMMA FollowHandle ==
  ASSUME TypeOK, Matched, FreedUsedOnlyAfterForce, pid # None,
         NEW h \in Handles, handle[h].vol # None, Follow(handle[h].vol)
  PROVE  dangling' \subseteq forced /\ foreign' \subseteq Daemons
BY DEF TypeOK, Matched, Follow, FreedUsedOnlyAfterForce

\* What sets are made of
LEMMA SameUsers ==
  ASSUME UNCHANGED handle
  PROVE  \A v : Files(v)' = Files(v) /\ Searches(v)' = Searches(v)
BY DEF Files, Searches, Using

LEMMA SameLists == ASSUME UNCHANGED list PROVE \A g : Listed(g)' = Listed(g)
BY DEF Listed

LEMMA ListedAre ==
  ASSUME TypeOK, Chained, NEW g \in Daemons, NEW v \in Listed(g)
  PROVE  v \in Vols /\ owner[v] = g
BY DEF TypeOK, Chained, Listed

\* The turn of DetachDrives is at a volume of the process.
LEMMA WalkIsAt ==
  ASSUME TypeOK, Chained, Positions, NEW g \in Daemons,
         dpc[g] = "detaching", pos[g] <= Len(list[g])
  PROVE  list[g][pos[g]] \in Vols /\ owner[list[g][pos[g]]] = g
<1>1. pos[g] \in 1 .. Len(list[g]) /\ list[g] \in Seq(Vols)
  <2>1. pos[g] \in Nat /\ pos[g] >= 1 /\ list[g] \in Seq(Vols)
    BY DEF TypeOK, Positions
  <2> QED BY <2>1
<1>2. DOMAIN list[g] = 1 .. Len(list[g])
  BY <1>1
<1> QED BY <1>1, <1>2 DEF Chained

\* Steps that keep volumes and handles keep what is said about them.  A drive
\* may go if it is not one of the registered daemon's.
LEMMA DrivesGo ==
  ASSUME TypeOK, VolumeInv, NEW l \in Letters,
         UNCHANGED <<volumes, handle, forced>>, pid' \in {pid, None},
         drive' \in {drive, [drive EXCEPT ![l] = None]},
         drive' = drive \/ pid' = None \/ drive[l] \notin Listed(pid),
         dangling' \subseteq forced, foreign' \subseteq Daemons
  PROVE  DataTypes' /\ VolumeInv'
<1> USE DEF TypeOK, VolumeInv, volumes
<1>1. DataTypes'
  BY DEF DataTypes
<1>2. Chained' /\ Placed' /\ Fresh' /\ FreedUsedOnlyAfterForce'
  BY DEF Chained, Placed, Fresh, FreedUsedOnlyAfterForce
<1>3. Allocated'
  BY DEF Allocated
<1>4. Counted'
  BY SameUsers, SameLists DEF Counted, CountOk
<1>5. Matched'
  <2> SUFFICES ASSUME pid' # None PROVE Matched'
    BY DEF Matched
  <2>1. pid' = pid /\ Listed(pid)' = Listed(pid)
    BY SameLists
  <2>2. \A v \in Listed(pid) : v \in Vols /\ at[v] \in Letters /\ drive[at[v]] = v
    BY <2>1, ListedAre, NoneAssumption DEF Matched, Placed
  <2>3. \A v \in Listed(pid) : drive'[at[v]] = v
    BY <2>1, <2>2
  <2>4. \A k \in Letters : drive'[k] # None => drive'[k] = drive[k]
    OBVIOUS
  <2> QED BY <2>1, <2>3, <2>4 DEF Matched
<1> QED BY <1>1, <1>2, <1>3, <1>4, <1>5

\* Detaching a drive, whoever asks for it
LEMMA DetachKeeps ==
  ASSUME TypeOK, VolumeInv, NEW l \in Letters, NEW force \in BOOLEAN,
         FsDetach(l, force), UNCHANGED <<pid, handle>>
  PROVE  DataTypes' /\ VolumeInv'
<1>1. CASE /\ UNCHANGED <<volumes, forced, dangling, foreign>>
           /\ drive' = drive \/ (pid = None /\ drive' = [drive EXCEPT ![l] = None])
  BY <1>1, DrivesGo DEF TypeOK, VolumeInv, FreedUsedOnlyAfterForce
<1>2. CASE /\ drive[l] # None /\ Serving /\ ~Valid(drive[l]) /\ Follow(drive[l])
           /\ drive' \in {drive, [drive EXCEPT ![l] = None]}
           /\ UNCHANGED <<volumes, forced>>
  <2>1. drive[l] \notin Listed(pid)
    BY <1>2, ListedAre DEF TypeOK, VolumeInv, Valid, Serving
  <2>2. dangling' = dangling /\ foreign' \subseteq Daemons
    BY <1>2, FollowDrive DEF VolumeInv, Serving
  <2> QED BY <1>2, <2>1, <2>2, DrivesGo DEF VolumeInv, FreedUsedOnlyAfterForce
<1>3. CASE /\ drive[l] # None /\ Serving /\ Valid(drive[l])
           /\ InUse(drive[l]) => force
           /\ list' = Remove(pid, drive[l])
           /\ Forget({drive[l]})
           /\ drive' = [drive EXCEPT ![l] = None]
           /\ forced' = IF InUse(drive[l]) THEN forced \cup {drive[l]} ELSE forced
           /\ UNCHANGED <<owner, at, dangling, foreign>>
  <2> DEFINE v == drive[l]
  <2>1. /\ pid \in Daemons /\ v \in Vols /\ v \in Listed(pid) /\ owner[v] = pid
        /\ pid # None /\ at[v] = l
    BY <1>3, NoneAssumption DEF TypeOK, VolumeInv, Valid, Serving, Allocated
  <2>2. /\ list' \in [Daemons -> Seq(Vols)] /\ Chained'
        /\ Listed(pid)' = Listed(pid) \ {v}
    BY <1>3, <2>1, Removed DEF VolumeInv
  <2>3. DataTypes'
    <3>1. /\ cOpenFiles' \in [Vols -> Nat] /\ cSearches' \in [Vols -> Nat]
          /\ lostFiles' \in [Vols -> Nat] /\ lostSearches' \in [Vols -> Nat]
      BY <1>3 DEF Forget, TypeOK
    <3>2. drive' \in [Letters -> Vols \cup {None}] /\ forced' \subseteq Vols
      BY <1>3, <2>1 DEF TypeOK
    <3> QED BY <1>3, <2>2, <3>1, <3>2 DEF DataTypes, TypeOK
  <2>4. Placed' /\ Allocated'
    BY <1>3 DEF TypeOK, VolumeInv, Placed, Allocated
  <2>5. FreedUsedOnlyAfterForce'
    BY <1>3 DEF VolumeInv, FreedUsedOnlyAfterForce
  <2>6. /\ \A w \in Vols : w # v =>
             /\ cOpenFiles'[w] = cOpenFiles[w] /\ lostFiles'[w] = lostFiles[w]
             /\ cSearches'[w] = cSearches[w] /\ lostSearches'[w] = lostSearches[w]
        /\ Fresh'
    BY <1>3 DEF Forget, TypeOK, VolumeInv, Fresh
  <2>7. Counted'
    <3>1. \A w : Files(w)' = Files(w) /\ Searches(w)' = Searches(w)
      BY SameUsers
    <3>2. \A w \in Listed(pid) \ {v} : w \in Vols /\ CountOk(w)
      BY <2>1, ListedAre DEF VolumeInv, Counted
    <3>3. \A w \in Listed(pid) \ {v} : CountOk(w)'
      BY <2>6, <3>1, <3>2 DEF CountOk
    <3> QED BY <1>3, <2>1, <2>2, <3>3 DEF Counted
  <2>8. Using(v) = {} \/ v \in forced'
    <3>1. CASE InUse(v)
      BY <1>3, <3>1
    <3>2. CASE ~InUse(v)
      BY <2>1, <3>2, Unused DEF InUse, VolumeInv, Counted
    <3> QED BY <3>1, <3>2
  <2>9. Matched'
    <3>1. \A w \in Listed(pid) \ {v} : w \in Vols /\ at[w] \in Letters /\ drive[at[w]] = w
      BY <2>1, ListedAre DEF VolumeInv, Matched, Placed
    <3>2. \A w \in Listed(pid)' : drive'[at'[w]] = w
      <4>1. \A w \in Listed(pid) \ {v} : at[w] # l
        BY <2>1, <3>1
      <4> QED BY <1>3, <2>2, <3>1, <4>1 DEF TypeOK
    <3>3. \A k \in Letters : drive'[k] # None /\ owner'[drive'[k]] = pid =>
            drive'[k] \in Listed(pid)'
      <4>1. \A k \in Letters : drive'[k] # None => k # l /\ drive'[k] = drive[k]
        BY <1>3 DEF TypeOK
      <4>2. \A k \in Letters : k # l /\ drive[k] # None => drive[k] # v
        BY <2>1 DEF VolumeInv, Allocated
      <4> QED BY <1>3, <2>1, <2>2, <4>1, <4>2 DEF VolumeInv, Matched
    <3>4. \A h \in Handles :
            handle'[h].vol # None /\ owner'[handle'[h].vol] = pid =>
              handle'[h].vol \in Listed(pid)' \cup forced'
      <4>1. \A h \in Handles : handle[h].vol = v => v \in forced'
        BY <2>8 DEF Using
      <4>2. forced \subseteq forced'
        BY <1>3
      <4> QED BY <1>3, <2>1, <2>2, <4>1, <4>2 DEF VolumeInv, Matched
    <3> QED BY <3>2, <3>3, <3>4 DEF Matched
  <2> QED BY <2>2, <2>3, <2>4, <2>5, <2>6, <2>7, <2>9 DEF VolumeInv
<1> QED BY <1>1, <1>2, <1>3 DEF FsDetach, harm

\* The end of a process that is not registered, or not any more
LEMMA EndKeeps ==
  ASSUME TypeOK, VolumeInv, NEW g \in Daemons, EndOfProcess(g),
         pid' = None \/ (pid' = pid /\ pid # g), UNCHANGED <<drive, handle>>
  PROVE  DataTypes' /\ VolumeInv'
<1> USE DEF EndOfProcess
<1>1. DataTypes'
  <2>1. list' \in [Daemons -> Seq(Vols)]
    BY DEF TypeOK
  <2>2. /\ cOpenFiles' \in [Vols -> Nat] /\ cSearches' \in [Vols -> Nat]
        /\ lostFiles' \in [Vols -> Nat] /\ lostSearches' \in [Vols -> Nat]
    BY DEF TypeOK, Forget
  <2> QED BY <2>1, <2>2 DEF TypeOK, DataTypes
<1>2. Chained' /\ Placed' /\ Allocated'
  BY DEF TypeOK, VolumeInv, Chained, Placed, Allocated
<1>3. Fresh' /\ FreedUsedOnlyAfterForce'
  BY DEF TypeOK, VolumeInv, Fresh, FreedUsedOnlyAfterForce, Forget
<1>4. ASSUME pid' = pid, pid # g, pid # None
      PROVE  /\ Listed(pid)' = Listed(pid)
             /\ \A v \in Listed(pid) : /\ v \in Vols /\ v \notin Listed(g)
                                       /\ cOpenFiles'[v] = cOpenFiles[v]
                                       /\ lostFiles'[v] = lostFiles[v]
                                       /\ cSearches'[v] = cSearches[v]
                                       /\ lostSearches'[v] = lostSearches[v]
  <2>1. pid \in Daemons /\ list'[pid] = list[pid]
    BY <1>4 DEF TypeOK
  <2>2. \A v \in Listed(pid) : v \in Vols /\ owner[v] = pid
    BY <2>1, ListedAre DEF VolumeInv
  <2>3. \A v \in Listed(g) : owner[v] = g
    BY ListedAre DEF VolumeInv
  <2> QED BY <1>4, <2>1, <2>2, <2>3 DEF Listed, Forget
<1>5. Counted'
  BY <1>4, SameUsers DEF VolumeInv, Counted, CountOk
<1>6. Matched'
  BY <1>4 DEF VolumeInv, Matched, TypeOK
<1> QED BY <1>1, <1>2, <1>3, <1>5, <1>6 DEF VolumeInv

\* A new volume
LEMMA AttachKeeps ==
  ASSUME TypeOK, VolumeInv, NEW l \in Letters, Attach(l)
  PROVE  DataTypes' /\ VolumeInv'
<1>1. pid \in Daemons /\ pid # None /\ drive[l] = None
  BY DEF Attach, Serving, TypeOK
<1>2. PICK v \in Vols :
        /\ owner[v] = None
        /\ owner' = [owner EXCEPT ![v] = pid]
        /\ at' = [at EXCEPT ![v] = l]
        /\ list' = [list EXCEPT ![pid] = <<v>> \o @]
        /\ drive' = [drive EXCEPT ![l] = v]
        /\ UNCHANGED <<pid, cOpenFiles, cSearches, lostFiles, lostSearches, handle>>
        /\ UNCHANGED <<forced, dangling, foreign>>
  BY DEF Attach, Link, harm
<1>3. list[pid] \in Seq(Vols) /\ Len(list[pid]) \in Nat
  BY <1>1 DEF TypeOK
<1>4. /\ list'[pid] = <<v>> \o list[pid] /\ list'[pid] \in Seq(Vols)
      /\ Len(list'[pid]) = Len(list[pid]) + 1
      /\ list'[pid][1] = v
      /\ \A i \in 1 .. Len(list[pid]) : list'[pid][i + 1] = list[pid][i]
      /\ \A i \in 2 .. Len(list[pid]) + 1 : list'[pid][i] = list[pid][i - 1]
  BY <1>1, <1>2, <1>3 DEF TypeOK
<1>5. \A g \in Daemons : g # pid => list'[g] = list[g]
  BY <1>2 DEF TypeOK
<1>6. \A g \in Daemons : \A i \in 1 .. Len(list[g]) : owner[list[g][i]] = g
  BY DEF VolumeInv, Chained, TypeOK
<1>7. v \notin Listed(pid) /\ Listed(pid)' = Listed(pid) \cup {v}
  <2>1. v \notin Listed(pid)
    BY <1>1, <1>2, ListedAre DEF VolumeInv
  <2>2. ASSUME NEW i \in 1 .. Len(list'[pid])
        PROVE  list'[pid][i] \in Listed(pid) \cup {v}
    <3>1. CASE i = 1
      BY <1>4, <3>1
    <3>2. CASE i # 1
      <4>1. i \in 2 .. Len(list[pid]) + 1 /\ i - 1 \in 1 .. Len(list[pid])
        BY <1>3, <1>4, <3>2
      <4>2. list[pid][i - 1] \in Listed(pid)
        BY <4>1 DEF Listed
      <4> QED BY <1>4, <4>1, <4>2
    <3> QED BY <3>1, <3>2
  <2>3. \A w \in Listed(pid) \cup {v} : \E i \in 1 .. Len(list'[pid]) : list'[pid][i] = w
    <3>1. ASSUME NEW w \in Listed(pid) PROVE \E i \in 1 .. Len(list'[pid]) : list'[pid][i] = w
      <4>1. PICK i \in 1 .. Len(list[pid]) : list[pid][i] = w
        BY DEF Listed
      <4>2. i + 1 \in 1 .. Len(list'[pid]) /\ list'[pid][i + 1] = w
        BY <1>3, <1>4, <4>1
      <4> QED BY <4>2
    <3>2. 1 \in 1 .. Len(list'[pid]) /\ list'[pid][1] = v
      BY <1>3, <1>4
    <3> QED BY <3>1, <3>2
  <2>4. pid' = pid
    BY <1>2
  <2> QED BY <2>1, <2>2, <2>3, <2>4 DEF Listed
<1>8. DataTypes'
  <2>1. list' \in [Daemons -> Seq(Vols)]
    BY <1>2, <1>4, <1>5 DEF TypeOK
  <2>2. owner' \in [Vols -> Daemons \cup {None}] /\ at' \in [Vols -> 0 .. LastDrive]
    BY <1>1, <1>2, LastDriveAssumption DEF TypeOK, Letters
  <2>3. drive' \in [Letters -> Vols \cup {None}]
    BY <1>2 DEF TypeOK
  <2> QED BY <1>2, <2>1, <2>2, <2>3 DEF TypeOK, DataTypes
<1>9. Chained'
  <2>1. ASSUME NEW g \in Daemons, g # pid
        PROVE  /\ \A i \in DOMAIN list'[g] : owner'[list'[g][i]] = g
               /\ \A i, j \in DOMAIN list'[g] : list'[g][i] = list'[g][j] => i = j
    <3>1. \A i \in DOMAIN list[g] : list[g][i] \in Vols /\ owner[list[g][i]] = g
      BY DEF VolumeInv, Chained, TypeOK
    <3>2. \A i \in DOMAIN list[g] : owner'[list[g][i]] = g
      BY <1>2, <2>1, <3>1, NoneAssumption DEF TypeOK
    <3> QED BY <1>5, <2>1, <3>2 DEF VolumeInv, Chained
  <2>2. \A i \in 1 .. Len(list'[pid]) : owner'[list'[pid][i]] = pid
    <3>1. \A w \in Listed(pid) : w \in Vols /\ owner[w] = pid
      BY <1>1, ListedAre DEF VolumeInv
    <3>2. \A w \in Listed(pid) \cup {v} : owner'[w] = pid
      BY <1>1, <1>2, <1>7, <3>1 DEF TypeOK
    <3>3. \A i \in 1 .. Len(list'[pid]) : list'[pid][i] \in Listed(pid)'
      BY <1>2 DEF Listed
    <3> QED BY <1>7, <3>2, <3>3
  <2>3. ASSUME NEW i \in 1 .. Len(list'[pid]), NEW j \in 1 .. Len(list'[pid]),
               list'[pid][i] = list'[pid][j]
        PROVE  i = j
    <3>1. \A k, m \in 1 .. Len(list[pid]) : list[pid][k] = list[pid][m] => k = m
      BY <1>1, <1>3 DEF VolumeInv, Chained
    <3>2. \A k \in 1 .. Len(list[pid]) : list[pid][k] # v
      BY <1>7 DEF Listed
    <3>3. ASSUME NEW k \in 1 .. Len(list'[pid]), k # 1
          PROVE  /\ k \in 2 .. Len(list[pid]) + 1 /\ k - 1 \in 1 .. Len(list[pid])
                 /\ list'[pid][k] = list[pid][k - 1]
      BY <1>3, <1>4, <3>3
    <3>4. CASE i = 1 \/ j = 1
      BY <1>4, <2>3, <3>2, <3>3, <3>4
    <3>5. CASE i # 1 /\ j # 1
      <4>1. /\ i - 1 \in 1 .. Len(list[pid]) /\ list'[pid][i] = list[pid][i - 1]
            /\ j - 1 \in 1 .. Len(list[pid]) /\ list'[pid][j] = list[pid][j - 1]
        BY <3>3, <3>5
      <4>2. i - 1 = j - 1
        BY <2>3, <3>1, <4>1
      <4>3. i \in Int /\ j \in Int
        BY <3>3, <3>5
      <4> QED BY <4>2, <4>3
    <3> QED BY <3>4, <3>5
  <2>4. DOMAIN list'[pid] = 1 .. Len(list'[pid])
    BY <1>4
  <2> QED BY <2>1, <2>2, <2>3, <2>4 DEF Chained
<1>10. Placed' /\ Fresh' /\ FreedUsedOnlyAfterForce'
  BY <1>1, <1>2 DEF TypeOK, VolumeInv, Placed, Fresh, FreedUsedOnlyAfterForce
<1>11. Allocated'
  <2>1. \A k \in Letters : drive[k] # v
    BY <1>2, NoneAssumption DEF VolumeInv, Allocated
  <2>2. \A h \in Handles : handle[h].vol # v
    BY <1>2, NoneAssumption DEF VolumeInv, Allocated, NoHandle
  <2>3. \A k \in Letters : drive'[k] # None => owner'[drive'[k]] # None /\ at'[drive'[k]] = k
    BY <1>1, <1>2, <2>1 DEF TypeOK, VolumeInv, Allocated
  <2>4. \A h \in Handles :
          IF handle'[h].kind = "none" THEN handle'[h] = NoHandle
          ELSE /\ handle'[h].vol # None /\ owner'[handle'[h].vol] # None
               /\ handle'[h].refs # 0
    BY <1>2, <2>2 DEF TypeOK, VolumeInv, Allocated
  <2> QED BY <2>3, <2>4 DEF Allocated
<1>12. /\ Files(v) = {} /\ cOpenFiles[v] = 0 /\ lostFiles[v] = 0
       /\ Searches(v) = {} /\ cSearches[v] = 0 /\ lostSearches[v] = 0
  <2>1. \A h \in Handles : handle[h].vol # v
    BY <1>2, NoneAssumption DEF VolumeInv, Allocated, NoHandle
  <2>2. Using(v) = {}
    BY <2>1 DEF Using
  <2> QED BY <1>2, <2>2 DEF Files, Searches, VolumeInv, Fresh
<1>13. Counted'
  <2>1. \A w : Files(w)' = Files(w) /\ Searches(w)' = Searches(w)
    BY <1>2, SameUsers
  <2>2. Cardinality({}) = 0
    BY FS_EmptySet
  <2>3. \A w \in Listed(pid) : CountOk(w)'
    BY <1>1, <1>2, <2>1 DEF VolumeInv, Counted, CountOk
  <2>4. CountOk(v)'
    <3>1. Files(v)' = {} /\ Searches(v)' = {}
      BY <1>12, <2>1
    <3>2. /\ cOpenFiles'[v] = 0 /\ lostFiles'[v] = 0
          /\ cSearches'[v] = 0 /\ lostSearches'[v] = 0
      BY <1>2, <1>12
    <3> QED BY <2>2, <3>1, <3>2 DEF CountOk
  <2> QED BY <1>1, <1>2, <1>7, <2>3, <2>4 DEF Counted
<1>14. Matched'
  <2>1. \A w \in Listed(pid) : w \in Vols /\ w # v /\ at[w] \in Letters /\ drive[at[w]] = w
    BY <1>1, <1>2, <1>7, ListedAre DEF VolumeInv, Matched, Placed
  <2>2. \A w \in Listed(pid) : at[w] # l
    BY <1>1, <1>2, <2>1, NoneAssumption
  <2>3. \A w \in Listed(pid)' : drive'[at'[w]] = w
    BY <1>2, <1>7, <2>1, <2>2 DEF TypeOK
  <2>4. \A k \in Letters : drive'[k] # None /\ owner'[drive'[k]] = pid =>
          drive'[k] \in Listed(pid)'
    BY <1>1, <1>2, <1>7 DEF VolumeInv, Matched, TypeOK
  <2>5. \A h \in Handles : handle[h].vol # v
    BY <1>2, NoneAssumption DEF VolumeInv, Allocated, NoHandle
  <2>6. \A h \in Handles :
          handle'[h].vol # None /\ owner'[handle'[h].vol] = pid =>
            handle'[h].vol \in Listed(pid)' \cup forced'
    BY <1>1, <1>2, <1>7, <2>5 DEF VolumeInv, Matched, TypeOK
  <2> QED BY <1>2, <2>3, <2>4, <2>6 DEF Matched
<1> QED BY <1>8, <1>9, <1>10, <1>11, <1>13, <1>14 DEF VolumeInv

\* A handle that comes or goes changes one set of users by one.
LEMMA OneMore ==
  ASSUME NEW S, IsFiniteSet(S), NEW h, h \notin S
  PROVE  Cardinality(S \cup {h}) = Cardinality(S) + 1
BY FS_AddElement

LEMMA OneLess ==
  ASSUME NEW S, IsFiniteSet(S), NEW h \in S
  PROVE  /\ Cardinality(S) \in Nat \ {0}
         /\ Cardinality(S \ {h}) = Cardinality(S) - 1
<1>1. Cardinality(S \ {h}) = Cardinality(S) - 1
  BY FS_RemoveElement
<1>2. Cardinality(S) \in Nat /\ Cardinality(S) # 0
  BY FS_CardinalityType, FS_EmptySet
<1> QED BY <1>1, <1>2

LEMMA UsersFinite ==
  \A v : IsFiniteSet(Files(v)) /\ IsFiniteSet(Searches(v))
<1>1. \A v : Files(v) \subseteq Handles /\ Searches(v) \subseteq Handles
  BY DEF Files, Searches, Using
<1>2. IsFiniteSet(Handles)
  BY HandlesAssumption
<1> QED BY <1>1, <1>2, FS_Subset

\* Opening a file or beginning a search: the counter goes up with the handle.
LEMMA HandleComes ==
  ASSUME TypeOK, VolumeInv, NEW l \in Letters, NEW h \in Handles,
         pid # None, drive[l] # None, FirstFree(h), Valid(drive[l]), Follow(drive[l]),
         NEW kind \in {"file", "search"},
         handle' = [handle EXCEPT ![h] = [kind |-> kind, vol |-> drive[l], refs |-> 1]],
         cOpenFiles' = IF kind = "file"
                       THEN [cOpenFiles EXCEPT ![drive[l]] = @ + 1] ELSE cOpenFiles,
         cSearches' = IF kind = "search"
                      THEN [cSearches EXCEPT ![drive[l]] = @ + 1] ELSE cSearches,
         UNCHANGED <<pid, list, owner, at, lostFiles, lostSearches, drive, forced>>
  PROVE  DataTypes' /\ VolumeInv'
<1> DEFINE v == drive[l]
<1>1. pid \in Daemons /\ v \in Vols /\ v \in Listed(pid) /\ owner[v] = pid
  BY DEF TypeOK, Valid
<1>2. handle[h] = NoHandle /\ handle[h].vol # v /\ \A w \in Vols : handle[h].vol # w
  BY NoneAssumption, <1>1 DEF FirstFree, NoHandle
<1>3. dangling' = dangling /\ foreign' \subseteq Daemons
  BY FollowDrive DEF VolumeInv
<1>4. DataTypes'
  <2>1. [kind |-> kind, vol |-> v, refs |-> 1]
          \in [kind : {"none", "file", "search"}, vol : Vols \cup {None}, refs : 0 .. MaxRefs]
    BY <1>1, MaxRefsAssumption
  <2>2. handle' \in [Handles -> [kind : {"none", "file", "search"},
                                 vol : Vols \cup {None}, refs : 0 .. MaxRefs]]
    BY <2>1 DEF TypeOK
  <2>3. cOpenFiles' \in [Vols -> Nat] /\ cSearches' \in [Vols -> Nat]
    BY <1>1 DEF TypeOK
  <2> QED BY <1>3, <2>2, <2>3 DEF TypeOK, DataTypes
<1>5. Chained' /\ Placed' /\ FreedUsedOnlyAfterForce'
  BY <1>3 DEF VolumeInv, Chained, Placed, FreedUsedOnlyAfterForce
<1>6. Allocated' /\ Fresh'
  BY <1>1, NoneAssumption DEF TypeOK, VolumeInv, Allocated, Fresh
<1>7. Counted'
  <2>1. Listed(pid)' = Listed(pid)
    BY SameLists
  <2>2. \A w \in Vols : /\ Files(w)' = IF w = v /\ kind = "file"
                                       THEN Files(w) \cup {h} ELSE Files(w)
                        /\ Searches(w)' = IF w = v /\ kind = "search"
                                          THEN Searches(w) \cup {h} ELSE Searches(w)
    <3>1. \A x \in Handles : handle'[x] = IF x = h THEN [kind |-> kind, vol |-> v, refs |-> 1]
                                          ELSE handle[x]
      BY DEF TypeOK
    <3> QED BY <1>2, <3>1 DEF Files, Searches, Using
  <2>3. h \notin Files(v) /\ h \notin Searches(v)
    BY <1>2 DEF Files, Searches, Using
  <2>4. /\ Cardinality(Files(v) \cup {h}) = Cardinality(Files(v)) + 1
        /\ Cardinality(Searches(v) \cup {h}) = Cardinality(Searches(v)) + 1
    BY <2>3, OneMore, UsersFinite
  <2>5. \A w \in Listed(pid) : /\ w \in Vols
                               /\ cOpenFiles[w] = Cardinality(Files(w)) + lostFiles[w]
                               /\ cSearches[w] = Cardinality(Searches(w)) + lostSearches[w]
    BY <1>1, ListedAre DEF VolumeInv, Counted, CountOk
  <2>6. \A w \in Vols : /\ cOpenFiles'[w] = IF w = v /\ kind = "file"
                                            THEN cOpenFiles[w] + 1 ELSE cOpenFiles[w]
                        /\ cSearches'[w] = IF w = v /\ kind = "search"
                                           THEN cSearches[w] + 1 ELSE cSearches[w]
    BY <1>1 DEF TypeOK
  <2>7. \A w \in Vols : /\ Cardinality(Files(w)) \in Nat /\ lostFiles[w] \in Nat
                        /\ Cardinality(Searches(w)) \in Nat /\ lostSearches[w] \in Nat
    BY UsersFinite, FS_CardinalityType DEF TypeOK
  <2>8. ASSUME NEW w \in Listed(pid)
        PROVE  /\ cOpenFiles'[w] = Cardinality(Files(w)') + lostFiles[w]
               /\ cSearches'[w] = Cardinality(Searches(w)') + lostSearches[w]
    <3> DEFINE F == Cardinality(Files(w))
               S == Cardinality(Searches(w))
    <3>1. F \in Nat /\ lostFiles[w] \in Nat /\ S \in Nat /\ lostSearches[w] \in Nat
      BY <2>5, <2>7
    <3>2. cOpenFiles[w] = F + lostFiles[w] /\ cSearches[w] = S + lostSearches[w]
      BY <2>5
    <3>3. /\ Cardinality(Files(w)') = IF w = v /\ kind = "file" THEN F + 1 ELSE F
          /\ Cardinality(Searches(w)') = IF w = v /\ kind = "search" THEN S + 1 ELSE S
      BY <2>2, <2>4, <2>5
    <3>4. /\ cOpenFiles'[w] = IF w = v /\ kind = "file" THEN cOpenFiles[w] + 1 ELSE cOpenFiles[w]
          /\ cSearches'[w] = IF w = v /\ kind = "search" THEN cSearches[w] + 1 ELSE cSearches[w]
      BY <2>5, <2>6
    <3> HIDE DEF F, S, v
    <3> QED BY <3>1, <3>2, <3>3, <3>4
  <2> QED BY <2>1, <2>8 DEF Counted, CountOk
<1>8. Matched'
  <2>1. Listed(pid)' = Listed(pid)
    BY SameLists
  <2>2. \A x \in Handles : handle'[x].vol = IF x = h THEN v ELSE handle[x].vol
    BY DEF TypeOK
  <2> QED BY <1>1, <2>1, <2>2 DEF VolumeInv, Matched
<1> QED BY <1>4, <1>5, <1>6, <1>7, <1>8 DEF VolumeInv

\* The same without a handle: an open or a search that is answered with an
\* error after it has been counted
LEMMA CountLost ==
  ASSUME TypeOK, VolumeInv, NEW l \in Letters,
         pid # None, drive[l] # None, Valid(drive[l]), Follow(drive[l]),
         NEW n \in {0, 1}, NEW m \in {0, 1},
         cOpenFiles' = [cOpenFiles EXCEPT ![drive[l]] = @ + n],
         lostFiles' = [lostFiles EXCEPT ![drive[l]] = @ + n],
         cSearches' = [cSearches EXCEPT ![drive[l]] = @ + m],
         lostSearches' = [lostSearches EXCEPT ![drive[l]] = @ + m],
         UNCHANGED <<pid, list, owner, at, handle, drive, forced>>
  PROVE  DataTypes' /\ VolumeInv'
<1> DEFINE v == drive[l]
<1>1. pid \in Daemons /\ v \in Vols /\ v \in Listed(pid) /\ owner[v] = pid
  BY DEF TypeOK, Valid
<1>2. dangling' = dangling /\ foreign' \subseteq Daemons
  BY FollowDrive DEF VolumeInv
<1>3. /\ cOpenFiles' \in [Vols -> Nat] /\ cSearches' \in [Vols -> Nat]
      /\ lostFiles' \in [Vols -> Nat] /\ lostSearches' \in [Vols -> Nat]
  <2>1. ASSUME NEW f \in [Vols -> Nat], NEW k \in {0, 1}
        PROVE  [f EXCEPT ![v] = @ + k] \in [Vols -> Nat]
    BY <1>1
  <2>2. /\ cOpenFiles \in [Vols -> Nat] /\ cSearches \in [Vols -> Nat]
        /\ lostFiles \in [Vols -> Nat] /\ lostSearches \in [Vols -> Nat]
    BY DEF TypeOK
  <2> HIDE DEF v
  <2> QED BY <2>1, <2>2 DEF v
<1>4. DataTypes' /\ Chained' /\ Placed' /\ FreedUsedOnlyAfterForce' /\ Allocated'
  BY <1>2, <1>3 DEF TypeOK, DataTypes, VolumeInv, Chained, Placed, FreedUsedOnlyAfterForce,
     Allocated
<1>5. Fresh'
  BY <1>1, NoneAssumption DEF TypeOK, VolumeInv, Fresh
<1>6. Counted'
  <2> SUFFICES ASSUME NEW w \in Listed(pid) PROVE CountOk(w)'
    BY SameLists DEF Counted
  <2>1. w \in Vols /\ CountOk(w)
    BY <1>1, ListedAre DEF VolumeInv, Counted
  <2>2. Files(w)' = Files(w) /\ Searches(w)' = Searches(w)
    BY SameUsers
  <2>3. Cardinality(Files(w)) \in Nat /\ Cardinality(Searches(w)) \in Nat
    BY UsersFinite, FS_CardinalityType
  <2>4. /\ cOpenFiles[w] \in Nat /\ lostFiles[w] \in Nat
        /\ cSearches[w] \in Nat /\ lostSearches[w] \in Nat
    BY <2>1 DEF TypeOK
  <2>5. /\ cOpenFiles'[w] = IF w = v THEN cOpenFiles[w] + n ELSE cOpenFiles[w]
        /\ lostFiles'[w] = IF w = v THEN lostFiles[w] + n ELSE lostFiles[w]
        /\ cSearches'[w] = IF w = v THEN cSearches[w] + m ELSE cSearches[w]
        /\ lostSearches'[w] = IF w = v THEN lostSearches[w] + m ELSE lostSearches[w]
    BY <2>1 DEF TypeOK
  <2> QED BY <2>1, <2>2, <2>3, <2>4, <2>5 DEF CountOk
<1>7. Matched'
  BY SameLists DEF VolumeInv, Matched
<1> QED BY <1>4, <1>5, <1>6, <1>7 DEF VolumeInv

\* Closing a file for the last time, or ending a search: the counter goes down
\* with the handle, if the registered daemon has the volume.
LEMMA HandleGoes ==
  ASSUME TypeOK, VolumeInv, NEW h \in Handles,
         NEW kind \in {"file", "search"}, handle[h].kind = kind,
         handle' = [handle EXCEPT ![h] = NoHandle],
         IF pid # None
         THEN /\ Follow(handle[h].vol)
              /\ cOpenFiles' = IF Valid(handle[h].vol) /\ kind = "file"
                               THEN [cOpenFiles EXCEPT ![handle[h].vol] = @ - 1]
                               ELSE cOpenFiles
              /\ cSearches' = IF Valid(handle[h].vol) /\ kind = "search"
                              THEN [cSearches EXCEPT ![handle[h].vol] = @ - 1]
                              ELSE cSearches
         ELSE UNCHANGED <<cOpenFiles, cSearches, dangling, foreign>>,
         UNCHANGED <<pid, list, owner, at, lostFiles, lostSearches, drive, forced>>
  PROVE  DataTypes' /\ VolumeInv'
<1> DEFINE v == handle[h].vol
<1>1. v \in Vols /\ v # None
  BY DEF TypeOK, VolumeInv, Allocated
<1>2. dangling' \subseteq forced /\ foreign' \subseteq Daemons
  BY <1>1, FollowHandle DEF TypeOK, VolumeInv, FreedUsedOnlyAfterForce
<1>3. ASSUME pid # None, Valid(v)
      PROVE  /\ CountOk(v)
             /\ kind = "file" => h \in Files(v)
             /\ kind = "search" => h \in Searches(v)
  BY <1>3 DEF VolumeInv, Counted, Valid, Files, Searches, Using
<1>0. \A w \in Vols : /\ Cardinality(Files(w)) \in Nat /\ lostFiles[w] \in Nat
                      /\ Cardinality(Searches(w)) \in Nat /\ lostSearches[w] \in Nat
  BY UsersFinite, FS_CardinalityType DEF TypeOK
<1>4. ASSUME pid # None, Valid(v)
      PROVE  /\ kind = "file" => /\ cOpenFiles[v] \in Nat \ {0}
                                 /\ Cardinality(Files(v) \ {h}) + lostFiles[v] = cOpenFiles[v] - 1
             /\ kind = "search" => /\ cSearches[v] \in Nat \ {0}
                                   /\ Cardinality(Searches(v) \ {h}) + lostSearches[v]
                                        = cSearches[v] - 1
  <2>1. CASE kind = "file"
    <3>1. /\ Cardinality(Files(v)) \in Nat \ {0}
          /\ Cardinality(Files(v) \ {h}) = Cardinality(Files(v)) - 1
      BY <1>3, <1>4, <2>1, OneLess, UsersFinite
    <3>2. cOpenFiles[v] = Cardinality(Files(v)) + lostFiles[v] /\ lostFiles[v] \in Nat
      BY <1>0, <1>1, <1>3, <1>4 DEF CountOk
    <3> QED BY <2>1, <3>1, <3>2
  <2>2. CASE kind = "search"
    <3>1. /\ Cardinality(Searches(v)) \in Nat \ {0}
          /\ Cardinality(Searches(v) \ {h}) = Cardinality(Searches(v)) - 1
      BY <1>3, <1>4, <2>2, OneLess, UsersFinite
    <3>2. cSearches[v] = Cardinality(Searches(v)) + lostSearches[v] /\ lostSearches[v] \in Nat
      BY <1>0, <1>1, <1>3, <1>4 DEF CountOk
    <3> QED BY <2>2, <3>1, <3>2
  <2> QED BY <2>1, <2>2
<1>5. DataTypes'
  <2>1. cOpenFiles' \in [Vols -> Nat] /\ cSearches' \in [Vols -> Nat]
    <3>1. CASE pid # None /\ Valid(v) /\ kind = "file"
      <4>1. cOpenFiles[v] - 1 \in Nat
        BY <1>4, <3>1
      <4>2. cSearches' = cSearches /\ cOpenFiles' = [cOpenFiles EXCEPT ![v] = @ - 1]
        BY <3>1
      <4> QED BY <4>1, <4>2 DEF TypeOK
    <3>2. CASE pid # None /\ Valid(v) /\ kind = "search"
      <4>1. cSearches[v] - 1 \in Nat
        BY <1>4, <3>2
      <4>2. cOpenFiles' = cOpenFiles /\ cSearches' = [cSearches EXCEPT ![v] = @ - 1]
        BY <3>2
      <4> QED BY <4>1, <4>2 DEF TypeOK
    <3>3. CASE pid = None \/ ~Valid(v)
      <4>1. cOpenFiles' = cOpenFiles /\ cSearches' = cSearches
        BY <3>3
      <4> QED BY <4>1 DEF TypeOK
    <3> QED BY <3>1, <3>2, <3>3
  <2>2. NoHandle \in [kind : {"none", "file", "search"}, vol : Vols \cup {None},
                      refs : 0 .. MaxRefs]
    BY MaxRefsAssumption DEF NoHandle
  <2>3. handle' \in [Handles -> [kind : {"none", "file", "search"},
                                 vol : Vols \cup {None}, refs : 0 .. MaxRefs]]
    BY <2>2 DEF TypeOK
  <2> QED BY <1>2, <2>1, <2>3 DEF TypeOK, DataTypes, VolumeInv, FreedUsedOnlyAfterForce
<1>6. Chained' /\ Placed' /\ FreedUsedOnlyAfterForce'
  BY <1>2 DEF VolumeInv, Chained, Placed, FreedUsedOnlyAfterForce
<1>7. Allocated'
  BY DEF TypeOK, VolumeInv, Allocated, NoHandle
<1>8. Fresh'
  <2>1. Valid(v) /\ pid # None => owner[v] # None
    BY DEF Valid
  <2> QED BY <1>1, <2>1 DEF TypeOK, VolumeInv, Fresh
<1>9. Counted'
  <2> SUFFICES ASSUME pid # None, NEW w \in Listed(pid)
               PROVE  /\ cOpenFiles'[w] = Cardinality(Files(w)') + lostFiles[w]
                      /\ cSearches'[w] = Cardinality(Searches(w)') + lostSearches[w]
    BY SameLists DEF Counted, CountOk
  <2>1. /\ pid \in Daemons /\ w \in Vols /\ owner[w] = pid
        /\ cOpenFiles[w] = Cardinality(Files(w)) + lostFiles[w]
        /\ cSearches[w] = Cardinality(Searches(w)) + lostSearches[w]
    BY ListedAre DEF TypeOK, VolumeInv, Counted, CountOk
  <2>2. \A x \in Handles : handle'[x] = IF x = h THEN NoHandle ELSE handle[x]
    BY DEF TypeOK
  <2>3. None # w /\ NoHandle.vol = None
    BY <2>1, NoneAssumption DEF NoHandle
  <2>4. Files(w)' = Files(w) \ {h} /\ Searches(w)' = Searches(w) \ {h}
    BY <2>2, <2>3 DEF Files, Searches, Using
  <2>5. CASE w = v
    <3>1. Valid(v)
      BY <2>1, <2>5 DEF Valid
    <3>2. CASE kind = "file"
      <4>1. h \notin Searches(w)
        BY <3>2 DEF Searches
      <4>2. Searches(w) \ {h} = Searches(w)
        BY <4>1
      <4>3. cOpenFiles'[w] = cOpenFiles[w] - 1 /\ cSearches'[w] = cSearches[w]
        BY <1>1, <2>5, <3>1, <3>2 DEF TypeOK
      <4> QED BY <1>4, <2>1, <2>4, <2>5, <3>1, <3>2, <4>2, <4>3
    <3>3. CASE kind = "search"
      <4>1. h \notin Files(w)
        BY <3>3 DEF Files
      <4>2. Files(w) \ {h} = Files(w)
        BY <4>1
      <4>3. cSearches'[w] = cSearches[w] - 1 /\ cOpenFiles'[w] = cOpenFiles[w]
        BY <1>1, <2>5, <3>1, <3>3 DEF TypeOK
      <4> QED BY <1>4, <2>1, <2>4, <2>5, <3>1, <3>3, <4>2, <4>3
    <3> QED BY <3>2, <3>3
  <2>6. CASE w # v
    <3>1. h \notin Files(w) /\ h \notin Searches(w)
      BY <2>6 DEF Files, Searches, Using
    <3>2. Files(w) \ {h} = Files(w) /\ Searches(w) \ {h} = Searches(w)
      BY <3>1
    <3>3. cOpenFiles'[w] = cOpenFiles[w] /\ cSearches'[w] = cSearches[w]
      BY <1>1, <2>1, <2>6 DEF TypeOK
    <3> QED BY <2>1, <2>4, <3>2, <3>3
  <2> QED BY <2>5, <2>6
<1>10. Matched'
  <2>1. pid # None => Listed(pid)' = Listed(pid)
    BY SameLists
  <2>2. \A x \in Handles : handle'[x].vol # None => handle'[x] = handle[x]
    BY DEF TypeOK, NoHandle
  <2> QED BY <2>1, <2>2 DEF VolumeInv, Matched
<1> QED BY <1>5, <1>6, <1>7, <1>8, <1>9, <1>10 DEF VolumeInv

\* One reference more or less, of several, is the kernel's affair only.
LEMMA ReferenceChanges ==
  ASSUME TypeOK, VolumeInv, NEW h \in Handles, handle[h].kind = "file",
         NEW n \in 1 .. MaxRefs, handle' = [handle EXCEPT ![h].refs = n],
         UNCHANGED <<pid, volumes, drive, harm>>
  PROVE  DataTypes' /\ VolumeInv'
<1> USE DEF volumes, harm
<1>1. \A x \in Handles : handle'[x].vol = handle[x].vol /\ handle'[x].kind = handle[x].kind
  BY DEF TypeOK
<1>2. DataTypes'
  <2> DEFINE H == [kind : {"none", "file", "search"}, vol : Vols \cup {None}, refs : 0 .. MaxRefs]
  <2>1. handle[h] \in H /\ n \in 0 .. MaxRefs
    BY MaxRefsAssumption DEF TypeOK
  <2>2. [handle[h] EXCEPT !.refs = n] \in H
    BY <2>1
  <2> HIDE DEF H
  <2>3. handle \in [Handles -> H]
    BY DEF TypeOK, H
  <2>4. handle' = [handle EXCEPT ![h] = [handle[h] EXCEPT !.refs = n]]
    OBVIOUS
  <2>5. handle' \in [Handles -> H]
    BY <2>2, <2>3, <2>4
  <2> QED BY <2>5 DEF TypeOK, DataTypes, H
<1>3. Allocated'
  <2>1. handle'[h].kind = "file" /\ handle'[h].vol = handle[h].vol /\ handle'[h].refs = n /\ n # 0
    BY DEF TypeOK
  <2>2. \A x \in Handles : x # h => handle'[x] = handle[x]
    BY DEF TypeOK
  <2>3. \A x \in Handles : IF handle[x].kind = "none" THEN handle[x] = NoHandle
          ELSE handle[x].vol # None /\ owner[handle[x].vol] # None /\ handle[x].refs # 0
    BY DEF VolumeInv, Allocated
  <2>4. \A x \in Handles : IF handle'[x].kind = "none" THEN handle'[x] = NoHandle
          ELSE handle'[x].vol # None /\ owner[handle'[x].vol] # None /\ handle'[x].refs # 0
    <3> SUFFICES ASSUME NEW x \in Handles
                 PROVE  IF handle'[x].kind = "none" THEN handle'[x] = NoHandle
                        ELSE handle'[x].vol # None /\ owner[handle'[x].vol] # None /\ handle'[x].refs # 0
      OBVIOUS
    <3>1. CASE x = h
      BY <2>1, <2>3, <3>1
    <3>2. CASE x # h
      BY <2>2, <2>3, <3>2
    <3> QED BY <3>1, <3>2
  <2> QED BY <2>4 DEF VolumeInv, Allocated
<1>4. \A w : Files(w)' = Files(w) /\ Searches(w)' = Searches(w)
  BY <1>1 DEF Files, Searches, Using
<1>5. Chained' /\ Placed' /\ Fresh' /\ FreedUsedOnlyAfterForce'
  BY DEF VolumeInv, Chained, Placed, Fresh, FreedUsedOnlyAfterForce
<1>6. Counted'
  BY <1>4, SameLists DEF VolumeInv, Counted, CountOk
<1>7. Matched'
  BY <1>1, SameLists DEF VolumeInv, Matched
<1> QED BY <1>2, <1>3, <1>5, <1>6, <1>7 DEF VolumeInv

-----------------------------------------------------------------------------
(* Every step                                                              *)

ProcessTypes ==
  /\ pid \in Daemons \cup {None}
  /\ dpc \in [Daemons -> {"off", "query", "detach", "tell", "announce",
                          "running", "leaving", "detaching", "gone", "killed"}]
  /\ pos \in [Daemons -> Nat]
  /\ alone \subseteq Daemons

LEMMA ProcessStep ==
  ASSUME TypeOK, ProcessInv, NothingYet, [Next]_vars
  PROVE  ProcessTypes' /\ ProcessInv' /\ NothingYet'
<1>0. ProcessTypes
  BY DEF TypeOK, ProcessTypes
<1> USE <1>0, NoneAssumption, LastDriveAssumption
    DEF ProcessInv, ProcessTypes, Registered, Positions, NothingYet, Before, Letters
<1>1. ASSUME NEW g \in Daemons, DaemonStep(g) PROVE ProcessTypes' /\ ProcessInv' /\ NothingYet'
  <2> USE DEF Goto
  <2>0. DetachLost(g) \/ DetachOwn(g) => UNCHANGED owner
    BY DEF DetachLost, DetachOwn, FsDetach, volumes
  <2>1. CASE QueryDrive(g)
    BY <2>1 DEF QueryDrive, AfterLast, volumes
  <2>2. CASE DetachLost(g)
    BY <2>0, <2>2 DEF DetachLost
  <2>3. CASE ProcessArgs(g)
    BY <2>3 DEF ProcessArgs, volumes
  <2>4. CASE TellToQuit(g)
    BY <2>4 DEF TellToQuit, Serving, volumes
  <2>5. CASE Announce(g)
    BY <2>5 DEF Announce, volumes
  <2>6. CASE Stop(g)
    BY <2>6 DEF Stop, volumes
  <2>7. CASE DetachOwn(g)
    <3>1. /\ dpc[g] = "detaching" /\ dpc' = [dpc EXCEPT ![g] = "detaching"]
          /\ pos' = [pos EXCEPT ![g] = pos[g] + 1] /\ UNCHANGED <<pid, alone, owner>>
      BY <2>0, <2>7 DEF DetachOwn
    <3> HIDE DEF Goto
    <3> QED BY <3>1
  <2>8. CASE Exit(g)
    BY <2>8 DEF Exit, EndOfProcess
  <2> QED BY <1>1, <2>1, <2>2, <2>3, <2>4, <2>5, <2>6, <2>7, <2>8 DEF DaemonStep
<1>2. ASSUME NEW g \in Daemons, Begin(g) PROVE ProcessTypes' /\ ProcessInv' /\ NothingYet'
  BY <1>2 DEF Begin, Goto, volumes
<1>3. ASSUME NEW g \in Daemons, Signal(g) PROVE ProcessTypes' /\ ProcessInv' /\ NothingYet'
  BY <1>3 DEF Signal, volumes
<1>4. ASSUME NEW g \in Daemons, Kill(g) PROVE ProcessTypes' /\ ProcessInv' /\ NothingYet'
  BY <1>4 DEF Kill, Live, Goto, EndOfProcess
<1>5. ASSUME NEW l \in Letters, Attach(l) PROVE ProcessTypes' /\ ProcessInv' /\ NothingYet'
  <2>1. UNCHANGED <<pid, dpc, pos, alone>> /\ pid # None /\ dpc[pid] = "running"
    BY <1>5 DEF Attach, Serving, processes
  <2>2. \A v \in Vols : owner'[v] \in {owner[v], pid}
    BY <1>5 DEF Attach, TypeOK
  <2> QED BY <2>1, <2>2
<1>6. ASSUME UNCHANGED <<pid, processes, owner>> PROVE ProcessTypes' /\ ProcessInv' /\ NothingYet'
  BY <1>6 DEF processes
<1>7. ASSUME NEW l \in Letters, NEW force \in BOOLEAN, Detach(l, force)
      PROVE  UNCHANGED <<pid, processes, owner>>
  BY <1>7 DEF Detach, FsDetach, volumes
<1>8. ASSUME NEW l \in Letters, NEW h \in Handles, OpenFile(l, h) \/ FindFirst(l, h)
      PROVE  UNCHANGED <<pid, processes, owner>>
  BY <1>8 DEF OpenFile, FindFirst
<1>9. ASSUME NEW h \in Handles, Share(h) \/ CloseFile(h) \/ FindClose(h)
      PROVE  UNCHANGED <<pid, processes, owner>>
  BY <1>9 DEF Share, CloseFile, FindClose, volumes
<1>10. CASE UNCHANGED vars
  BY <1>6, <1>10 DEF vars, volumes
<1> QED BY <1>1, <1>2, <1>3, <1>4, <1>5, <1>6, <1>7, <1>8, <1>9, <1>10 DEF Next

LEMMA DaemonDataStep ==
  ASSUME VolInv, NEW g \in Daemons, DaemonStep(g)
  PROVE  DataTypes' /\ VolumeInv'
<1> USE DEF VolInv
\* Only processes change, and perhaps nobody is registered any more.
<1>0. ASSUME UNCHANGED <<volumes, drive, handle, forced, dangling>>,
             foreign' \subseteq Daemons, pid' \in {pid, None}
      PROVE  DataTypes' /\ VolumeInv'
  <2>1. CASE Letters # {}
    <3>1. PICK l \in Letters : TRUE
      BY <2>1
    <3> QED BY <1>0, DrivesGo DEF VolumeInv, FreedUsedOnlyAfterForce
  <2>2. CASE Letters = {}
    <3>1. DataTypes' /\ Chained' /\ Placed' /\ Allocated' /\ Fresh' /\ FreedUsedOnlyAfterForce'
      BY <1>0 DEF TypeOK, DataTypes, VolumeInv, volumes, Chained, Placed, Allocated, Fresh,
         FreedUsedOnlyAfterForce
    <3>2. Counted' /\ Matched'
      BY <1>0, <2>2, SameUsers, SameLists DEF VolumeInv, volumes, Counted, CountOk, Matched
    <3> QED BY <3>1, <3>2 DEF VolumeInv
  <2> QED BY <2>1, <2>2
<1>1. CASE QueryDrive(g)
  <2>1. pos[g] \in Letters
    BY <1>1, LastDriveAssumption
       DEF QueryDrive, AfterLast, Letters, TypeOK, ProcessInv, Positions
  <2>2. dangling' = dangling /\ foreign' \subseteq Daemons
    BY <1>1, <2>1, FollowDrive DEF QueryDrive, VolumeInv, harm, TypeOK, Serving
  <2> QED BY <1>0, <1>1, <2>2 DEF QueryDrive, harm
<1>2. CASE DetachLost(g)
  <2>1. pos[g] \in Letters
    BY <1>2 DEF DetachLost, ProcessInv, Positions
  <2> QED BY <1>2, <2>1, DetachKeeps DEF DetachLost
<1>3. CASE ProcessArgs(g) \/ TellToQuit(g) \/ Stop(g)
  BY <1>0, <1>3 DEF ProcessArgs, TellToQuit, Stop, harm, TypeOK
<1>4. CASE Announce(g) /\ pid' = pid
  BY <1>0, <1>4 DEF Announce, harm, TypeOK
<1>5. CASE Announce(g) /\ pid' = g
  <2>1. \A v \in Vols : owner[v] # g
    BY <1>5 DEF Announce, NothingYet, Before
  <2>2. Listed(g) = {}
    BY <2>1, ListedAre DEF VolumeInv
  <2>3. UNCHANGED <<volumes, drive, handle, harm>>
    BY <1>5 DEF Announce
  <2>4. DataTypes' /\ Chained' /\ Placed' /\ Allocated' /\ Fresh' /\ FreedUsedOnlyAfterForce'
    BY <2>3 DEF TypeOK, DataTypes, VolumeInv, volumes, harm, Chained, Placed, Allocated, Fresh,
       FreedUsedOnlyAfterForce
  <2>5. Listed(g)' = {}
    BY <2>2, <2>3, SameLists DEF volumes
  <2>6. Counted' /\ Matched'
    BY <1>5, <2>1, <2>3, <2>5 DEF TypeOK, volumes, Counted, Matched
  <2> QED BY <2>4, <2>6 DEF VolumeInv
<1>6. CASE DetachOwn(g)
  <2>1. list[g][pos[g]] \in Vols /\ owner[list[g][pos[g]]] = g
    BY <1>6, WalkIsAt DEF DetachOwn, VolumeInv, ProcessInv
  <2>2. at[list[g][pos[g]]] \in Letters
    BY <2>1, NoneAssumption DEF VolumeInv, Placed
  <2> QED BY <1>6, <2>2, DetachKeeps DEF DetachOwn
<1>7. CASE Exit(g)
  <2>1. pid # g
    BY <1>7 DEF Exit, ProcessInv, Registered
  <2> QED BY <1>7, <2>1, EndKeeps DEF Exit
<1>8. Announce(g) => pid' \in {pid, g}
  BY DEF Announce
<1> QED BY <1>1, <1>2, <1>3, <1>4, <1>5, <1>6, <1>7, <1>8 DEF DaemonStep

LEMMA DataStep ==
  ASSUME VolInv, [Next]_vars
  PROVE  DataTypes' /\ VolumeInv'
<1> USE DEF VolInv
<1>0. ASSUME UNCHANGED <<pid, volumes, drive, handle, harm>>
      PROVE  DataTypes' /\ VolumeInv'
  <2>1. DataTypes' /\ Chained' /\ Placed' /\ Allocated' /\ Fresh' /\ FreedUsedOnlyAfterForce'
    BY <1>0 DEF TypeOK, DataTypes, VolumeInv, volumes, harm, Chained, Placed, Allocated, Fresh,
       FreedUsedOnlyAfterForce
  <2>2. Counted' /\ Matched'
    BY <1>0, SameUsers, SameLists DEF VolumeInv, volumes, harm, Counted, CountOk, Matched
  <2> QED BY <2>1, <2>2 DEF VolumeInv
<1>1. ASSUME NEW g \in Daemons, Begin(g) \/ Signal(g) PROVE DataTypes' /\ VolumeInv'
  BY <1>0, <1>1 DEF Begin, Signal
<1>2. ASSUME NEW g \in Daemons, Kill(g) PROVE DataTypes' /\ VolumeInv'
  BY <1>2, EndKeeps DEF Kill
<1>3. ASSUME NEW l \in Letters, NEW force \in BOOLEAN, Detach(l, force)
      PROVE  DataTypes' /\ VolumeInv'
  BY <1>3, DetachKeeps DEF Detach
<1>4. ASSUME NEW l \in Letters, NEW h \in Handles, OpenFile(l, h)
      PROVE  DataTypes' /\ VolumeInv'
  <2>1. drive[l] # None /\ pid # None /\ FirstFree(h) /\ Follow(drive[l])
    BY <1>4 DEF OpenFile, Serving
  <2>2. CASE Valid(drive[l])
    <3>1. CASE /\ handle' = [handle EXCEPT ![h] =
                                 [kind |-> "file", vol |-> drive[l], refs |-> 1]]
               /\ UNCHANGED lostFiles
      BY <1>4, <2>1, <2>2, <3>1, HandleComes DEF OpenFile
    <3>2. CASE /\ lostFiles' = [lostFiles EXCEPT ![drive[l]] = @ + 1]
               /\ UNCHANGED handle
      <4>1. /\ cOpenFiles' = [cOpenFiles EXCEPT ![drive[l]] = @ + 1]
            /\ UNCHANGED <<pid, list, owner, at, cSearches, lostSearches, handle, drive, forced>>
        BY <1>4, <2>2, <3>2 DEF OpenFile
      <4>2. /\ cSearches' = [cSearches EXCEPT ![drive[l]] = @ + 0]
            /\ lostSearches' = [lostSearches EXCEPT ![drive[l]] = @ + 0]
        BY <2>2, <4>1 DEF TypeOK, Valid
      <4> QED BY <2>1, <2>2, <3>2, <4>1, <4>2, CountLost
    <3> QED BY <1>4, <2>2, <3>1, <3>2 DEF OpenFile
  <2>3. CASE ~Valid(drive[l])
    <3>1. dangling' \subseteq forced /\ foreign' \subseteq Daemons
      BY <2>1, FollowDrive DEF VolumeInv, FreedUsedOnlyAfterForce
    <3> QED BY <1>4, <2>3, <3>1, DrivesGo DEF OpenFile, volumes
  <2> QED BY <2>2, <2>3
<1>5. ASSUME NEW l \in Letters, NEW h \in Handles, FindFirst(l, h)
      PROVE  DataTypes' /\ VolumeInv'
  <2>1. drive[l] # None /\ pid # None /\ FirstFree(h) /\ Follow(drive[l])
    BY <1>5 DEF FindFirst, Serving
  <2>2. CASE Valid(drive[l])
    <3>1. CASE /\ handle' = [handle EXCEPT ![h] =
                                 [kind |-> "search", vol |-> drive[l], refs |-> 1]]
               /\ UNCHANGED lostSearches
      BY <1>5, <2>1, <2>2, <3>1, HandleComes DEF FindFirst
    <3>2. CASE /\ lostSearches' = [lostSearches EXCEPT ![drive[l]] = @ + 1]
               /\ UNCHANGED handle
      <4>1. /\ cSearches' = [cSearches EXCEPT ![drive[l]] = @ + 1]
            /\ UNCHANGED <<pid, list, owner, at, cOpenFiles, lostFiles, handle, drive, forced>>
        BY <1>5, <2>2, <3>2 DEF FindFirst
      <4>2. /\ cOpenFiles' = [cOpenFiles EXCEPT ![drive[l]] = @ + 0]
            /\ lostFiles' = [lostFiles EXCEPT ![drive[l]] = @ + 0]
        BY <2>2, <4>1 DEF TypeOK, Valid
      <4> QED BY <2>1, <2>2, <3>2, <4>1, <4>2, CountLost
    <3> QED BY <1>5, <2>2, <3>1, <3>2 DEF FindFirst
  <2>3. CASE ~Valid(drive[l])
    <3>1. dangling' \subseteq forced /\ foreign' \subseteq Daemons
      BY <2>1, FollowDrive DEF VolumeInv, FreedUsedOnlyAfterForce
    <3> QED BY <1>5, <2>3, <3>1, DrivesGo DEF FindFirst, volumes
  <2> QED BY <2>2, <2>3
<1>6. ASSUME NEW h \in Handles, Share(h) PROVE DataTypes' /\ VolumeInv'
  <2>1. handle[h].refs + 1 \in 1 .. MaxRefs
    BY <1>6, MaxRefsAssumption DEF Share, TypeOK
  <2> QED BY <1>6, <2>1, ReferenceChanges DEF Share
<1>7. ASSUME NEW h \in Handles, CloseFile(h) PROVE DataTypes' /\ VolumeInv'
  <2>1. CASE handle[h].refs = 1
    BY <1>7, <2>1, HandleGoes DEF CloseFile, FinalClose
  <2>2. CASE handle[h].refs # 1
    <3>1. handle[h].refs \in 1 .. MaxRefs /\ handle[h].kind = "file"
      BY <1>7, MaxRefsAssumption DEF CloseFile, TypeOK, VolumeInv, Allocated
    <3>2. handle[h].refs - 1 \in 1 .. MaxRefs
      BY <2>2, <3>1, MaxRefsAssumption
    <3>3. handle' = [handle EXCEPT ![h].refs = handle[h].refs - 1]
      BY <1>7, <2>2 DEF CloseFile, TypeOK
    <3>4. UNCHANGED <<pid, volumes, drive, harm>>
      BY <1>7, <2>2 DEF CloseFile, FinalClose, volumes, harm
    <3> QED BY <3>1, <3>2, <3>3, <3>4, ReferenceChanges
  <2> QED BY <2>1, <2>2
<1>8. ASSUME NEW h \in Handles, FindClose(h) PROVE DataTypes' /\ VolumeInv'
  BY <1>8, HandleGoes DEF FindClose
<1>9. CASE UNCHANGED vars
  BY <1>0, <1>9 DEF vars
<1> QED
  BY <1>1, <1>2, <1>3, <1>4, <1>5, <1>6, <1>7, <1>8, <1>9, AttachKeeps, DaemonDataStep DEF Next

\* A request to detach takes drives away and gives none.
DrivesFewer == \A l \in Letters : drive'[l] \in {drive[l], None}

LEMMA DetachTakes ==
  ASSUME TypeOK, NEW l \in Letters, NEW force \in BOOLEAN, FsDetach(l, force)
  PROVE  /\ DrivesFewer /\ UNCHANGED owner
         /\ pid = None => drive'[l] = None
BY DEF TypeOK, FsDetach, volumes, DrivesFewer, Serving

\* While a process is alive, another one is alone only if it is past its
\* announcement; what the first does takes none of the other's drives.
LEMMA OthersKept ==
  ASSUME TypeOK, LonerInv, NEW x \in Daemons, Live(x), NEW g \in alone, g # x,
         pid' \in {pid, None, x}, dpc'[g] \in {dpc[g], "leaving"},
         DrivesFewer, UNCHANGED owner
  PROVE  Loner(g)'
<1>1. g \in Daemons /\ Loner(g)
  BY DEF LonerInv, TypeOK
<1>2. dpc[g] \notin Before \ {"off"} /\ dpc[g] # "off"
  BY <1>1 DEF Loner
<1>3. dpc'[g] \notin Before
  BY <1>2 DEF Before
<1>4. pid' = g => pid = g
  BY <1>1, NoneAssumption
<1>5. pid' = g => \A l \in Letters : drive'[l] # None => owner'[drive'[l]] = g
  BY <1>1, <1>4 DEF Loner, DrivesFewer
<1> QED BY <1>3, <1>5 DEF Loner, Before

\* What processes do keeps what is said about processes that are alone.
LEMMA LonerDaemonStep ==
  ASSUME VolInv, LonerInv, NEW x \in Daemons, DaemonStep(x) \/ Signal(x) \/ Kill(x)
  PROVE  LonerInv'
<1> USE DEF VolInv, ProcessInv
<1>1. Live(x)
  BY DEF DaemonStep, QueryDrive, DetachLost, ProcessArgs, TellToQuit, Announce, Stop, DetachOwn,
     Exit, Signal, Kill, Live
<1>2. alone' \subseteq alone /\ alone \subseteq Daemons
  BY DEF DaemonStep, QueryDrive, DetachLost, ProcessArgs, TellToQuit, Announce, Stop, DetachOwn,
     Exit, Signal, Kill, EndOfProcess, TypeOK
<1>3. DrivesFewer /\ UNCHANGED owner
  <2>1. CASE DetachLost(x)
    BY <2>1, DetachTakes DEF DetachLost, Positions
  <2>2. CASE DetachOwn(x)
    <3>1. list[x][pos[x]] \in Vols /\ owner[list[x][pos[x]]] = x
      BY <2>2, WalkIsAt DEF DetachOwn, VolumeInv
    <3>2. at[list[x][pos[x]]] \in Letters
      BY <3>1, NoneAssumption DEF VolumeInv, Placed
    <3> QED BY <2>2, <3>2, DetachTakes DEF DetachOwn
  <2>3. CASE QueryDrive(x) \/ ProcessArgs(x) \/ TellToQuit(x) \/ Announce(x) \/ Stop(x) \/ Signal(x)
    BY <2>3 DEF QueryDrive, ProcessArgs, TellToQuit, Announce, Stop, Signal, volumes, DrivesFewer
  <2>4. CASE Exit(x) \/ Kill(x)
    BY <2>4 DEF Exit, Kill, EndOfProcess, DrivesFewer
  <2> QED BY <2>1, <2>2, <2>3, <2>4 DEF DaemonStep
<1>4. pid' \in {pid, None, x}
  BY DEF DaemonStep, QueryDrive, DetachLost, ProcessArgs, TellToQuit, Announce, Stop, DetachOwn,
     Exit, Signal, Kill
<1>5. \A g \in Daemons : g # x => dpc'[g] \in {dpc[g], "leaving"}
  <2>1. CASE TellToQuit(x)
    BY <2>1 DEF TellToQuit, TypeOK
  <2>2. CASE Announce(x)
    BY <2>2 DEF Announce, Goto, TypeOK
  <2>3. CASE Signal(x)
    BY <2>3 DEF Signal, TypeOK
  <2>4. CASE \E place, n : Goto(x, place, n)
    BY <2>4 DEF Goto, TypeOK
  <2>5. QueryDrive(x) \/ DetachLost(x) \/ ProcessArgs(x) \/ Stop(x) \/ DetachOwn(x) \/ Exit(x)
          \/ Kill(x) => \E place, n : Goto(x, place, n)
    BY DEF QueryDrive, DetachLost, ProcessArgs, Stop, DetachOwn, Exit, Kill
  <2> QED BY <2>1, <2>2, <2>3, <2>4, <2>5 DEF DaemonStep
<1>6. ASSUME x \in alone' PROVE Loner(x)'
  <2> USE NoneAssumption, LastDriveAssumption DEF Loner, Before, Cleared, Letters, Goto
  <2>0. x \in alone /\ Loner(x)
    BY <1>2, <1>6 DEF LonerInv
  <2>1. CASE QueryDrive(x)
    <3>1. /\ dpc[x] = "query" /\ pid = None /\ \A y \in Daemons \ {x} : ~Live(y)
          /\ pos[x] \in Nat /\ UNCHANGED <<pid, drive>>
      BY <2>0, <2>1 DEF QueryDrive, TypeOK
    <3>2. \/ drive[pos[x]] = None /\ dpc'[x] = "query" /\ pos'[x] = pos[x] + 1
          \/ dpc'[x] = "detach" /\ pos'[x] = pos[x]
      BY <2>1, <3>1 DEF QueryDrive, Serving, TypeOK
    <3>3. \A y \in Daemons \ {x} : ~Live(y)'
      BY <2>1, <3>1 DEF QueryDrive, Live, TypeOK
    <3>4. \A l \in Letters : l < pos[x] => drive[l] = None
      BY <2>0, <3>1
    <3> QED BY <3>1, <3>2, <3>3, <3>4
  <2>2. CASE DetachLost(x)
    <3>1. /\ dpc[x] = "detach" /\ pid = None /\ \A y \in Daemons \ {x} : ~Live(y)
          /\ pos[x] \in Letters /\ UNCHANGED pid
      BY <2>0, <2>2 DEF DetachLost, Positions
    <3>2. drive'[pos[x]] = None /\ dpc'[x] = "query" /\ pos'[x] = pos[x] + 1
      BY <2>2, <3>1, DetachTakes DEF DetachLost, TypeOK
    <3>3. \A y \in Daemons \ {x} : ~Live(y)'
      BY <2>2, <3>1 DEF DetachLost, Live, TypeOK
    <3>4. \A l \in Letters : l < pos[x] => drive'[l] = None
      BY <1>3, <2>0, <3>1 DEF DrivesFewer
    <3> QED BY <3>1, <3>2, <3>3, <3>4
  <2>3. CASE ProcessArgs(x)
    BY <2>0, <2>3 DEF ProcessArgs, AfterLast, TypeOK, Live, volumes
  <2>4. CASE TellToQuit(x)
    BY <2>0, <2>4 DEF TellToQuit, TypeOK, Live, volumes
  <2>5. CASE Announce(x)
    BY <2>0, <2>5 DEF Announce, TypeOK, Live, volumes
  <2>6. CASE Signal(x) \/ Stop(x)
    BY <1>3, <2>0, <2>6 DEF Signal, Stop, TypeOK, DrivesFewer
  <2>7. CASE DetachOwn(x)
    BY <1>3, <2>0, <2>7 DEF DetachOwn, TypeOK, DrivesFewer
  <2>8. CASE Exit(x) \/ Kill(x)
    BY <1>6, <2>8 DEF Exit, Kill, EndOfProcess
  <2> QED BY <2>1, <2>2, <2>3, <2>4, <2>5, <2>6, <2>7, <2>8 DEF DaemonStep
<1>7. ASSUME NEW g \in alone', g # x PROVE Loner(g)'
  BY <1>1, <1>2, <1>3, <1>4, <1>5, <1>7, OthersKept
<1> QED BY <1>6, <1>7 DEF LonerInv

LEMMA LonerStep ==
  ASSUME VolInv, LonerInv, [Next]_vars
  PROVE  LonerInv'
<1> USE DEF VolInv, ProcessInv
\* What users do leaves processes as they are.
<1>1. ASSUME UNCHANGED <<pid, processes>>,
             DrivesFewer, UNCHANGED owner
      PROVE  LonerInv'
  <2>1. ASSUME NEW g \in alone PROVE Loner(g)'
    BY <1>1, <2>1 DEF LonerInv, Loner, DrivesFewer, processes, Live, Cleared
  <2> QED BY <1>1, <2>1 DEF LonerInv, processes
<1>2. ASSUME NEW l \in Letters, Attach(l) PROVE LonerInv'
  <2>1. /\ pid \in Daemons /\ pid # None /\ UNCHANGED <<pid, dpc, pos, alone>>
        /\ dpc[pid] = "running"
    BY <1>2, NoneAssumption DEF Attach, Serving, processes, TypeOK
  <2>2. PICK v \in Vols : /\ owner[v] = None /\ owner' = [owner EXCEPT ![v] = pid]
                          /\ drive' = [drive EXCEPT ![l] = v]
    BY <1>2 DEF Attach
  <2>3. \A k \in Letters : drive[k] # None => drive[k] \in Vols /\ owner'[drive[k]] = owner[drive[k]]
    BY <2>2 DEF TypeOK, VolumeInv, Allocated
  <2>4. ASSUME NEW k \in Letters, drive'[k] # None
        PROVE  owner'[drive'[k]] = pid \/ (drive[k] # None /\ owner'[drive'[k]] = owner[drive[k]])
    BY <2>2, <2>3, <2>4 DEF TypeOK
  <2>5. ASSUME NEW g \in alone PROVE Loner(g)'
    <3>1. Loner(g)
      BY <2>5 DEF LonerInv
    <3>2. dpc[g] \notin Before \ {"off"}
      BY <2>1, <3>1 DEF Loner
    <3>3. pid = g => \A k \in Letters : drive'[k] # None => owner'[drive'[k]] = g
      BY <2>4, <3>1 DEF Loner
    <3> QED BY <2>1, <3>1, <3>2, <3>3 DEF Loner
  <2> QED BY <2>1, <2>5 DEF LonerInv
<1>3. ASSUME NEW x \in Daemons, Begin(x) PROVE LonerInv'
  <2> DEFINE others == {y \in Daemons \ {x} : Live(y)}
  <2>1. /\ dpc[x] = "off" /\ dpc' = [dpc EXCEPT ![x] = "query"] /\ pos' = [pos EXCEPT ![x] = 1]
        /\ alone' = (alone \ {y \in others : pid # y}) \cup (IF others = {} THEN {x} ELSE {})
        /\ UNCHANGED <<pid, drive, owner>>
    BY <1>3 DEF Begin, Goto, volumes
  <2>2. pid # x
    BY <2>1 DEF Registered
  <2>3. pid # None => pid \in others
    BY <2>2 DEF TypeOK, Registered, Live
  <2>4. ASSUME NEW g \in alone', g # x PROVE Loner(g)'
    <3>1. g \in alone /\ g \in Daemons /\ Loner(g) /\ (Live(g) => pid = g)
      BY <2>1, <2>4 DEF LonerInv, TypeOK
    <3>2. dpc'[g] = dpc[g] /\ dpc[g] \notin Before
      BY <2>1, <2>4, <3>1 DEF TypeOK, Loner, Live, Registered, Before
    <3> QED BY <2>1, <3>1, <3>2 DEF Loner, Before
  <2>5. ASSUME x \in alone' PROVE Loner(x)'
    <3>1. others = {}
      BY <2>1, <2>5 DEF LonerInv, Loner
    <3>2. pid' = None /\ \A y \in Daemons \ {x} : ~Live(y)'
      BY <2>1, <2>3, <3>1 DEF Live, TypeOK
    <3>3. dpc'[x] = "query" /\ pos'[x] = 1
      BY <2>1 DEF TypeOK
    <3>4. \A l \in Letters : ~Cleared(x, l)'
      BY <3>3, LastDriveAssumption DEF Cleared, Letters
    <3> QED BY <3>2, <3>3, <3>4, NoneAssumption DEF Loner
  <2> QED BY <2>4, <2>5 DEF LonerInv
<1>4. ASSUME NEW l \in Letters, NEW force \in BOOLEAN, Detach(l, force) PROVE LonerInv'
  BY <1>1, <1>4, DetachTakes DEF Detach
<1>5. ASSUME NEW l \in Letters, NEW h \in Handles, OpenFile(l, h) \/ FindFirst(l, h)
      PROVE  LonerInv'
  BY <1>1, <1>5 DEF OpenFile, FindFirst, DrivesFewer
<1>6. ASSUME NEW h \in Handles, Share(h) \/ CloseFile(h) \/ FindClose(h) PROVE LonerInv'
  BY <1>1, <1>6 DEF Share, CloseFile, FindClose, DrivesFewer, volumes
<1>7. CASE UNCHANGED vars
  BY <1>1, <1>7 DEF vars, volumes, DrivesFewer
<1> QED BY <1>2, <1>3, <1>4, <1>5, <1>6, <1>7, LonerDaemonStep DEF Next

-----------------------------------------------------------------------------
(* The theorems                                                            *)

LEMMA VolumesBegin == ASSUME Init PROVE VolInv /\ LonerInv
<1>1. \A g \in Daemons : list[g] = <<>> /\ Listed(g) = {}
  BY DEF Init, Listed
<1>2. NoHandle \in [kind : {"none", "file", "search"}, vol : Vols \cup {None}, refs : 0 .. MaxRefs]
  BY MaxRefsAssumption DEF NoHandle
<1>3. TypeOK
  BY <1>2, LastDriveAssumption DEF Init, TypeOK, Letters
<1>4. ProcessInv /\ NothingYet
  BY NoneAssumption DEF Init, ProcessInv, Registered, Positions, NothingYet
<1>5. Chained
  BY <1>1 DEF Chained
<1>6. Placed /\ Allocated /\ Fresh /\ Counted /\ Matched /\ FreedUsedOnlyAfterForce
  BY DEF Init, Placed, Allocated, NoHandle, Fresh, Counted, Matched, FreedUsedOnlyAfterForce
<1> QED BY <1>3, <1>4, <1>5, <1>6 DEF Init, VolInv, VolumeInv, LonerInv

\* What is said about processes, volumes, drives and handles is kept by every
\* step of daemons, users and the kernel (attach.c, openclos.c, find.c,
\* isofsdmn.c:570-604).
THEOREM VolumesHeld == Spec => [](VolInv /\ LonerInv)
<1>1. Init => VolInv /\ LonerInv
  BY VolumesBegin
<1>2. VolInv /\ LonerInv /\ [Next]_vars => (VolInv /\ LonerInv)'
  <2> SUFFICES ASSUME VolInv, LonerInv, [Next]_vars PROVE (VolInv /\ LonerInv)'
    OBVIOUS
  <2>1. ProcessTypes' /\ ProcessInv' /\ NothingYet'
    BY ProcessStep DEF VolInv
  <2>2. DataTypes' /\ VolumeInv'
    BY DataStep
  <2>3. TypeOK'
    BY <2>1, <2>2 DEF TypeOK, ProcessTypes, DataTypes, Letters
  <2> QED BY <2>1, <2>2, <2>3, LonerStep DEF VolInv
<1> QED BY <1>1, <1>2, PTL DEF Spec

\* The state has the types of the driver's and the daemons' variables.
THEOREM VolumesTyped == Spec => []TypeOK
<1>1. VolInv => TypeOK
  BY DEF VolInv
<1> QED BY <1>1, VolumesHeld, PTL

\* The counters that decide whether a volume may go are those of the handles
\* the kernel has on it, and of the opens and searches answered with an error
\* after they had been counted (attach.c:345-355, stubfsd.c:164, 868-871).
THEOREM CountersAreExact == Spec => []CountsExact
<1>1. VolInv => CountsExact
  BY DEF VolInv, VolumeInv, Counted, CountOk, CountsExact, Files, Searches, Serving
<1> QED BY <1>1, VolumesHeld, PTL

\* The daemon's list and the kernel's drives agree (attach.c:322-327, 358-362).
THEOREM ListAndDrivesAgree == Spec => []ListMatchesDrives
<1>1. VolInv => ListMatchesDrives
  BY DEF VolInv, VolumeInv, Matched, Allocated, ListMatchesDrives, Serving
<1> QED BY <1>1, VolumesHeld, PTL

\* Only a forced detach leaves freed volumes in use (attach.c:345-355,
\* find.c:527).
THEOREM OrderlyDetachIsSafe == Spec => []FreedUsedOnlyAfterForce
<1>1. VolInv => FreedUsedOnlyAfterForce
  BY DEF VolInv, VolumeInv
<1> QED BY <1>1, VolumesHeld, PTL

\* A daemon that was alone inherits no drive (isofsdmn.c:70-88, 601).
THEOREM LonerStartsClean == Spec => []LonerInheritsNoDrive
<1>1. LonerInv => LonerInheritsNoDrive
  BY DEF LonerInv, Loner, LonerInheritsNoDrive
<1> QED BY <1>1, VolumesHeld, PTL
=============================================================================
