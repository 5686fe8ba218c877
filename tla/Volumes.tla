------------------------------ MODULE Volumes ------------------------------
(***************************************************************************)
(* The drives the kernel keeps, the volumes the daemons keep, and what     *)
(* becomes of both when daemons come, quit and die (daemon/isofsdmn.c,     *)
(* attach.c, openclos.c, find.c; driver/stubfsd.c).                        *)
(*                                                                         *)
(* The kernel stores, per drive letter, the address of the VolData that    *)
(* the daemon returned from FS_ATTACH, and per open file and search the    *)
(* address of the volume and of the daemon's record; it hands them to      *)
(* whichever daemon is registered.  A request is one step here: that the   *)
(* exchange carries out requests one at a time is what StubFsd is about.   *)
(*                                                                         *)
(* An open or a search may fail in the driver after the daemon has counted *)
(* it.  An interrupted attach or detach, and an interrupted call whose     *)
(* request or answer gets mixed up with the next call's, are not here:     *)
(* that nothing holds after those is shown by StubFsd's run of interrupts. *)
(***************************************************************************)
EXTENDS Integers, Sequences, FiniteSets

CONSTANTS
  Daemons,    \* processes that run isofsdmn.exe, numbered as they start
  LastDrive,  \* drive letters are 1 .. LastDrive, 'C' being 1
  Vols,       \* VolData structures, numbered as they are allocated
  Handles,    \* open files and searches in the kernel, the first free one first
  MaxRefs,    \* bound on the references of one open file
  MaxLost,    \* bound on the opens and searches a volume counts for nobody
  None

ASSUME DaemonsAssumption   == Daemons \subseteq Nat
ASSUME VolsAssumption      == Vols \subseteq Nat
ASSUME HandlesAssumption   == Handles \subseteq Nat /\ IsFiniteSet(Handles)
ASSUME LastDriveAssumption == LastDrive \in Nat
ASSUME MaxRefsAssumption   == MaxRefs \in Nat \ {0}
ASSUME MaxLostAssumption   == MaxLost \in Nat
ASSUME NoneAssumption      == None \notin Daemons \cup Vols

VARIABLES
  pid,       \* pidDaemon of the driver
  dpc,       \* where each process is
  pos,       \* the letter or the list position a loop of a process is at
  list,      \* pFirstVolume of each process, as a sequence
  owner,     \* the process that allocated a volume, or None
  at,        \* chDrive
  cOpenFiles, cSearches,
  lostFiles, lostSearches,  \* what of these counts the kernel has no handle
             \* for (history variables: the program does not know)
  drive,     \* the volume the kernel holds for each letter, or None
  handle,    \* what the kernel knows of each handle
  forced,    \* volumes detached by force while files or searches were open
  dangling,  \* volumes used after they were freed
  foreign,   \* processes that were given another process's pointer
  alone      \* processes that were the only ones from start to announcement

volumes   == <<list, owner, at, cOpenFiles, cSearches, lostFiles, lostSearches>>
processes == <<dpc, pos, alone>>
harm      == <<forced, dangling, foreign>>
vars == <<pid, processes, volumes, drive, handle, harm>>

Letters  == 1 .. LastDrive
NoHandle == [kind |-> "none", vol |-> None, refs |-> 0]

\* A process that has been started and is neither at its end nor dead.
Live(g) == dpc[g] \notin {"off", "gone", "killed"}

\* Requests are answered by a daemon in its loop.  With no daemon they fail
\* in the driver; between the end of the loop and DAEMON_STOPPED they wait.
Serving == pid # None /\ dpc[pid] = "running"

Listed(g) == {list[g][i] : i \in 1 .. Len(list[g])}
Using(v)  == {h \in Handles : handle[h].vol = v}

TypeOK ==
  /\ pid \in Daemons \cup {None}
  /\ dpc \in [Daemons -> {"off", "query", "detach", "tell", "announce",
                          "running", "leaving", "detaching", "gone", "killed"}]
  /\ pos \in [Daemons -> Nat]
  /\ list \in [Daemons -> Seq(Vols)]
  /\ owner \in [Vols -> Daemons \cup {None}]
  /\ at \in [Vols -> 0 .. LastDrive]
  /\ cOpenFiles \in [Vols -> Nat] /\ cSearches \in [Vols -> Nat]
  /\ lostFiles \in [Vols -> Nat] /\ lostSearches \in [Vols -> Nat]
  /\ drive \in [Letters -> Vols \cup {None}]
  /\ handle \in [Handles -> [kind : {"none", "file", "search"},
                             vol : Vols \cup {None}, refs : 0 .. MaxRefs]]
  /\ forced \subseteq Vols /\ dangling \subseteq Vols
  /\ foreign \subseteq Daemons /\ alone \subseteq Daemons

Init ==
  /\ pid = None
  /\ dpc = [g \in Daemons |-> "off"]
  /\ pos = [g \in Daemons |-> 0]
  /\ list = [g \in Daemons |-> <<>>]
  /\ owner = [v \in Vols |-> None]
  /\ at = [v \in Vols |-> 0]
  /\ cOpenFiles = [v \in Vols |-> 0] /\ cSearches = [v \in Vols |-> 0]
  /\ lostFiles = [v \in Vols |-> 0] /\ lostSearches = [v \in Vols |-> 0]
  /\ drive = [l \in Letters |-> None]
  /\ handle = [h \in Handles |-> NoHandle]
  /\ forced = {} /\ dangling = {} /\ foreign = {} /\ alone = {}

-----------------------------------------------------------------------------
(* What a request does to the volume whose address comes with it.          *)

\* The daemon follows the pointer to volume v: it is its own and allocated,
\* or its own and freed, or an address in a process that is gone.
Follow(v) ==
  /\ foreign' = IF owner[v] # pid THEN foreign \cup {pid} ELSE foreign
  /\ dangling' = IF owner[v] = pid /\ v \notin Listed(pid)
                 THEN dangling \cup {v} ELSE dangling
Valid(v) == owner[v] = pid /\ v \in Listed(pid)

\* Mutation: open searches do not count.
InUseByFiles(v) == cOpenFiles[v] # 0

\* The tests at the beginning of detachVolume
InUse(v) == cOpenFiles[v] # 0 \/ cSearches[v] # 0

\* The counters of volumes whose memory is no more
Forget(freed) ==
  LET zeroed(f) == [v \in Vols |-> IF v \in freed THEN 0 ELSE f[v]]
  IN  /\ cOpenFiles' = zeroed(cOpenFiles) /\ lostFiles' = zeroed(lostFiles)
      /\ cSearches' = zeroed(cSearches) /\ lostSearches' = zeroed(lostSearches)

\* The volume is taken out of the chain.
Remove(g, v) ==
  LET i == CHOOSE k \in DOMAIN list[g] : list[g][k] = v
  IN  [list EXCEPT ![g] = [k \in 1 .. Len(list[g]) - 1 |->
                             IF k < i THEN list[g][k] ELSE list[g][k + 1]]]

\* DosFSAttach(FS_DETACH), through FS_ATTACH of the driver and detachVolume
FsDetach(l, force) ==
  \/ /\ drive[l] = None
     /\ UNCHANGED <<volumes, drive, harm>>
  \/ /\ drive[l] # None /\ pid = None      \* "now the kernel can proceed"
     /\ drive' = [drive EXCEPT ![l] = None]
     /\ UNCHANGED <<volumes, harm>>
  \/ /\ drive[l] # None /\ Serving /\ Valid(drive[l])
     /\ InUse(drive[l]) /\ ~force          \* ERROR_DRIVE_LOCKED
     /\ UNCHANGED <<volumes, drive, harm>>
  \/ /\ drive[l] # None /\ Serving /\ Valid(drive[l])
     /\ InUse(drive[l]) => force
     /\ list' = Remove(pid, drive[l])
     /\ Forget({drive[l]})
     /\ drive' = [drive EXCEPT ![l] = None]
     /\ forced' = IF InUse(drive[l]) THEN forced \cup {drive[l]} ELSE forced
     /\ UNCHANGED <<owner, at, dangling, foreign>>
  \/ /\ drive[l] # None /\ Serving /\ ~Valid(drive[l])
     /\ Follow(drive[l])
     /\ drive' \in {drive, [drive EXCEPT ![l] = None]}
     /\ UNCHANGED <<volumes, forced>>

-----------------------------------------------------------------------------
(* The life of a daemon process.                                           *)

\* The memory of a process goes with it, and so does what is wrong in it.
EndOfProcess(g) ==
  /\ list' = [list EXCEPT ![g] = <<>>]
  /\ Forget(Listed(g))
  /\ alone' = alone \ {g}
  /\ foreign' = foreign \ {g}
  /\ forced' = {v \in forced : owner[v] # g}
  /\ dangling' = {v \in dangling : owner[v] # g}
  /\ UNCHANGED <<owner, at>>

Goto(g, place, n) ==
  /\ dpc' = [dpc EXCEPT ![g] = place]
  /\ pos' = [pos EXCEPT ![g] = n]

\* The process starts; DetachLostDrives begins.
Begin(g) ==
  /\ dpc[g] = "off" /\ \A x \in Daemons : x < g => dpc[x] # "off"
  /\ Goto(g, "query", 1)
  /\ LET others == {x \in Daemons \ {g} : Live(x)}
     IN  alone' = (alone \ {x \in others : pid # x})
                  \cup (IF others = {} THEN {g} ELSE {})
  /\ UNCHANGED <<pid, volumes, drive, handle, harm>>

\* Mutation: the last letter is left out.
AfterLastButOne(g) == pos[g] >= LastDrive

AfterLast(g) == pos[g] > LastDrive

\* DosQueryFSAttach(FSAIL_QUERYNAME): without a daemon the driver answers
\* ERROR_STUBFSD_DAEMON_NOT_RUN, and the drive is taken for lost.
QueryDrive(g) ==
  /\ dpc[g] = "query" /\ ~AfterLast(g)
  /\ LET v == drive[pos[g]]
     IN \/ /\ v = None
           /\ Goto(g, "query", pos[g] + 1)
           /\ UNCHANGED harm
        \/ /\ v # None /\ pid = None
           /\ Goto(g, "detach", pos[g])
           /\ UNCHANGED harm
        \/ /\ v # None /\ Serving
           /\ Follow(v)
           /\ Goto(g, "query", pos[g] + 1)
           /\ UNCHANGED forced
  /\ UNCHANGED <<pid, alone, volumes, drive, handle>>

DetachLost(g) ==
  /\ dpc[g] = "detach"
  /\ FsDetach(pos[g], FALSE)
  /\ Goto(g, "query", pos[g] + 1)
  /\ UNCHANGED <<pid, alone, handle>>

\* processArgs, in the new process: with -q or without
ProcessArgs(g) ==
  /\ dpc[g] = "query" /\ AfterLast(g)
  /\ \E place \in {"tell", "announce"} : Goto(g, place, 0)
  /\ UNCHANGED <<pid, alone, volumes, drive, handle, harm>>

\* setDaemonParams("-q"): the running daemon sets fQuit and leaves its loop
\* after this request; this process ends.
TellToQuit(g) ==
  /\ dpc[g] = "tell"
  /\ \/ pid = None /\ dpc' = [dpc EXCEPT ![g] = "gone"]
     \/ Serving /\ dpc' = [dpc EXCEPT ![g] = "gone", ![pid] = "leaving"]
  /\ UNCHANGED <<pid, pos, alone, volumes, drive, handle, harm>>

\* initDaemon: announceDaemon succeeds if no daemon is registered; after it
\* init_nls may fail, and the daemon withdraws.
Announce(g) ==
  /\ dpc[g] = "announce"
  /\ \/ pid = None /\ pid' = g /\ Goto(g, "running", 0)
     \/ UNCHANGED pid /\ Goto(g, "gone", 0)
  /\ UNCHANGED <<alone, volumes, drive, handle, harm>>

\* A signal ends the wait for a request, and with it the loop.
Signal(g) ==
  /\ dpc[g] = "running"
  /\ dpc' = [dpc EXCEPT ![g] = "leaving"]
  /\ UNCHANGED <<pid, pos, alone, volumes, drive, handle, harm>>

\* Mutation: the walk over the volumes begins behind the first one.
StopSkippingFirst(g) ==
  /\ dpc[g] = "leaving"
  /\ pid' = None
  /\ Goto(g, "detaching", 2)
  /\ UNCHANGED <<alone, volumes, drive, handle, harm>>

\* doneDaemon, and the beginning of DetachDrives
Stop(g) ==
  /\ dpc[g] = "leaving"
  /\ pid' = None
  /\ Goto(g, "detaching", 1)
  /\ UNCHANGED <<alone, volumes, drive, handle, harm>>

\* One turn of DetachDrives.  The request goes to the driver like anybody's.
DetachOwn(g) ==
  /\ dpc[g] = "detaching" /\ pos[g] <= Len(list[g])
  /\ FsDetach(at[list[g][pos[g]]], FALSE)
  /\ Goto(g, "detaching", pos[g] + 1)
  /\ UNCHANGED <<pid, alone, handle>>

Exit(g) ==
  /\ dpc[g] = "detaching" /\ pos[g] > Len(list[g])
  /\ Goto(g, "gone", 0)
  /\ EndOfProcess(g)
  /\ UNCHANGED <<pid, drive, handle>>

\* The process is killed or traps; FS_EXIT clears pidDaemon.
Kill(g) ==
  /\ Live(g)
  /\ Goto(g, "killed", 0)
  /\ pid' = IF pid = g THEN None ELSE pid
  /\ EndOfProcess(g)
  /\ UNCHANGED <<drive, handle>>

-----------------------------------------------------------------------------
(* What other processes ask for.                                           *)

\* As a bound, a second reference or a count without a handle takes the place
\* of the last handle.
OnePerHandle ==
  /\ \A v \in Vols : lostFiles[v] + lostSearches[v] = 0
  /\ \A h \in Handles : handle[h].refs <= 1
Room(S) == \E x \in S : handle[x] = NoHandle

FirstFree(h) ==
  /\ handle[h] = NoHandle /\ \A x \in Handles : x < h => handle[x] # NoHandle
  /\ OnePerHandle \/ Room(Handles \ {h})

\* Mutation: pNext of the new volume is not set.
LinkAlone(g, v) == list' = [list EXCEPT ![g] = <<v>>]

\* The end of attachVolume
Link(g, v) == list' = [list EXCEPT ![g] = <<v>> \o @]

\* DosFSAttach(FS_ATTACH) of an image that is in order
Attach(l) ==
  /\ drive[l] = None /\ Serving
  /\ \E v \in Vols :
       /\ owner[v] = None /\ \A x \in Vols : x < v => owner[x] # None
       /\ owner' = [owner EXCEPT ![v] = pid]
       /\ at' = [at EXCEPT ![v] = l]
       /\ Link(pid, v)
       /\ drive' = [drive EXCEPT ![l] = v]
  /\ UNCHANGED <<pid, processes, cOpenFiles, cSearches, lostFiles, lostSearches,
                 handle, harm>>

Detach(l, force) ==
  /\ drive[l] # None
  /\ FsDetach(l, force)
  /\ UNCHANGED <<pid, processes, handle>>

MayBeLost == \A v \in Vols : lostFiles[v] + lostSearches[v] < MaxLost

\* finalizeOpen counts the file.  After it FS_OPENCREATE may fail: its wait is
\* interrupted, or copyEAOP cannot write oError.  Then the kernel has no file,
\* and nobody tells the daemon.
OpenFile(l, h) ==
  /\ drive[l] # None /\ Serving /\ FirstFree(h)
  /\ Follow(drive[l])
  /\ LET v == drive[l]
     IN IF Valid(v)
        THEN /\ cOpenFiles' = [cOpenFiles EXCEPT ![v] = @ + 1]
             /\ \/ /\ handle' = [handle EXCEPT ![h] =
                                    [kind |-> "file", vol |-> v, refs |-> 1]]
                   /\ UNCHANGED lostFiles
                \/ /\ MayBeLost
                   /\ lostFiles' = [lostFiles EXCEPT ![v] = @ + 1]
                   /\ UNCHANGED handle
        ELSE UNCHANGED <<cOpenFiles, lostFiles, handle>>
  /\ UNCHANGED <<pid, processes, list, owner, at, cSearches, lostSearches,
                 drive, forced>>

\* Another reference to an open file: the daemon is not asked.
Share(h) ==
  /\ handle[h].kind = "file" /\ handle[h].refs < MaxRefs
  /\ OnePerHandle /\ Room(Handles)
  /\ handle' = [handle EXCEPT ![h].refs = @ + 1]
  /\ UNCHANGED <<pid, processes, volumes, drive, harm>>

\* Mutation: every close counts, not only the last one.
EveryClose(h) == TRUE

\* usType == FS_CL_FORSYS
FinalClose(h) == handle[h].refs = 1

\* fsClose.  With no daemon the driver fails the call; the kernel drops the
\* reference all the same.
CloseFile(h) ==
  /\ handle[h].kind = "file"
  /\ pid = None \/ Serving
  /\ handle' = IF handle[h].refs = 1 THEN [handle EXCEPT ![h] = NoHandle]
                ELSE [handle EXCEPT ![h].refs = @ - 1]
  /\ IF pid # None /\ FinalClose(h)
     THEN /\ Follow(handle[h].vol)
          /\ cOpenFiles' = IF Valid(handle[h].vol)
                           THEN [cOpenFiles EXCEPT ![handle[h].vol] = @ - 1]
                           ELSE cOpenFiles
     ELSE UNCHANGED <<cOpenFiles, dangling, foreign>>
  /\ UNCHANGED <<pid, processes, list, owner, at, cSearches, lostFiles, lostSearches,
                 drive, forced>>

\* fsFindFirst that finds something.  If FS_FINDFIRST fails after it, it undoes
\* the search, but not when its wait or that of undoFindFirst is interrupted.
FindFirst(l, h) ==
  /\ drive[l] # None /\ Serving /\ FirstFree(h)
  /\ Follow(drive[l])
  /\ LET v == drive[l]
     IN IF Valid(v)
        THEN /\ cSearches' = [cSearches EXCEPT ![v] = @ + 1]
             /\ \/ /\ handle' = [handle EXCEPT ![h] =
                                    [kind |-> "search", vol |-> v, refs |-> 1]]
                   /\ UNCHANGED lostSearches
                \/ /\ MayBeLost
                   /\ lostSearches' = [lostSearches EXCEPT ![v] = @ + 1]
                   /\ UNCHANGED handle
        ELSE UNCHANGED <<cSearches, lostSearches, handle>>
  /\ UNCHANGED <<pid, processes, list, owner, at, cOpenFiles, lostFiles,
                 drive, forced>>

\* fsFindClose
FindClose(h) ==
  /\ handle[h].kind = "search"
  /\ pid = None \/ Serving
  /\ handle' = [handle EXCEPT ![h] = NoHandle]
  /\ IF pid # None
     THEN /\ Follow(handle[h].vol)
          /\ cSearches' = IF Valid(handle[h].vol)
                          THEN [cSearches EXCEPT ![handle[h].vol] = @ - 1]
                          ELSE cSearches
     ELSE UNCHANGED <<cSearches, dangling, foreign>>
  /\ UNCHANGED <<pid, processes, list, owner, at, cOpenFiles, lostFiles, lostSearches,
                 drive, forced>>

-----------------------------------------------------------------------------
DaemonStep(g) ==
  \/ QueryDrive(g) \/ DetachLost(g) \/ ProcessArgs(g)
  \/ TellToQuit(g) \/ Announce(g)
  \/ Stop(g) \/ DetachOwn(g) \/ Exit(g)

Next ==
  \/ \E g \in Daemons : Begin(g) \/ DaemonStep(g) \/ Signal(g) \/ Kill(g)
  \/ \E l \in Letters :
       \/ Attach(l)
       \/ \E force \in BOOLEAN : Detach(l, force)
       \/ \E h \in Handles : OpenFile(l, h) \/ FindFirst(l, h)
  \/ \E h \in Handles : Share(h) \/ CloseFile(h) \/ FindClose(h)

Spec == Init /\ [][Next]_vars

\* A process that has left its loop and can go on does.  Nothing makes anybody
\* start a daemon, attach a drive, close a file or send a signal.
Leave(g) ==
  dpc[g] \in {"leaving", "detaching"} /\ (Stop(g) \/ DetachOwn(g) \/ Exit(g))
Fairness == \A g \in Daemons : WF_vars(Leave(g))

FairSpec == Spec /\ Fairness

-----------------------------------------------------------------------------
(* Properties.                                                             *)

\* The process has used no memory but its own allocated records, so that
\* what it does is what its source says.
Sound(g) ==
  /\ g \notin foreign
  /\ \A v \in dangling : owner[v] # g

\* The counters that decide whether a volume may go (attach.c:345-355) are those
\* of the handles the kernel has on it, and of the opens and searches that were
\* answered with an error after they had been counted (stubfsd.c:164, 868-871):
\* no sequence of opens, closes, references, attaches, forced detaches and
\* changes of daemon makes a count too small, nor too large in any other way.
CountsExact ==
  LET onIt(v, kind) == Cardinality({h \in Using(v) : handle[h].kind = kind})
  IN  Serving /\ Sound(pid) =>
        \A v \in Listed(pid) :
          /\ cOpenFiles[v] = onIt(v, "file") + lostFiles[v]
          /\ cSearches[v] = onIt(v, "search") + lostSearches[v]

\* The daemon's list and the kernel's table of drives say the same about the
\* daemon's volumes: none is left allocated without a drive, no drive leads to
\* a freed one, and no two volumes share a letter (attach.c:322-327, 358-362).
ListMatchesDrives ==
  Serving /\ Sound(pid) =>
    /\ \A v \in Listed(pid) : drive[at[v]] = v
    /\ \A l \in Letters :
         drive[l] # None /\ owner[drive[l]] = pid =>
           drive[l] \in Listed(pid) /\ at[drive[l]] = l

\* A volume that was detached in the ordinary way is never used again: only
\* DP_FORCE leaves files and searches behind (attach.c:345-355, find.c:527).
FreedUsedOnlyAfterForce == dangling \subseteq forced

\* A daemon that had the machine to itself from its start to its announcement
\* inherits no drive: DetachLostDrives found them all, and no dead daemon's
\* volume is behind a drive letter (isofsdmn.c:70-88, 601).
LonerInheritsNoDrive ==
  \A g \in alone :
    pid = g => \A l \in Letters : drive[l] # None => owner[drive[l]] = g

\* A daemon that quits takes its drives with it, in spite of open files,
\* unless it is killed or another daemon is registered before it has finished
\* (isofsdmn.c:570-581; "-q ... will also detach any mapped drives").
QuitDetaches ==
  \A g \in Daemons :
    dpc[g] = "leaving" ~>
      \/ dpc[g] = "killed"
      \/ pid \notin {g, None}
      \/ \A l \in Letters : drive[l] # None => owner[drive[l]] # g
=============================================================================
