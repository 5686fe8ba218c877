# ISOFS: models and proofs

ISOFS lets OS/2 attach ISO9660 images as drives. This directory holds TLA+
models of it, the TLC configurations that check them and proofs for TLAPS.
Source paths are relative to the root of the repository.

## The system

| Part | Source | State | Operations |
|---|---|---|---|
| Stub driver | `src/driver/stubfsd.c` | `pidDaemon`, three semaphores, the mapped exchange buffers and their lock handles | the `FS_xxx` entry points, the `FSCTL_STUBFSD_*` functions, `FS_EXIT` |
| Daemon, main loop | `src/daemon/isofsdmn.c` | `ServerData`: buffers, list of volumes, `fRunning`, `fQuit` | start, get request, handle, done, stop; detaching of lost and of own drives |
| Volumes | `src/daemon/attach.c` | `VolData`: image file, descriptors, `cOpenFiles`, `cSearches`, list links | attach, detach (also by force), query, volume information |
| Open files | `src/daemon/openclos.c`, `fileio.c` | `OpenFileData`, position in `sffsi` (the kernel's) | open, close, read, seek |
| Searches | `src/daemon/find.c` | `SearchData`: list of entries, next entry | first, next, from name, close |
| File information, EAs, directories | `src/daemon/fileinfo.c`, `ea.c`, `dir.c`, `fileop.c` | none | queries; everything that writes is refused |
| ISO9660 access | `src/daemon/isoacces.c` | none kept | directory entries, path resolution |
| `mapiso`, `isodrive` | `src/daemon/mapiso.c`, `isodrive.c` | drive list of the dialog, event semaphores, notify thread | start the daemon, attach, detach, refresh |
| `isoinfo` | `src/daemon/isoinfo.c` | globals about the image, list of directories to do | list and extract an image's files, without the driver |
| `libunls` | `src/libunls/` | list of tables | register, load, unload; each table in two directions |

How they interact:

* A thread of any process makes a file system call. The kernel calls an
  `FS_xxx` entry point in the context of that thread. The entry point takes the
  *exchange* (`semSerialize`), writes a request into memory that belongs to the
  daemon, posts `semRqAvail`, waits for `semRqDone`, copies results out and
  gives the exchange back.
* The daemon blocks in `FSCTL_STUBFSD_GET_REQUEST`, handles the request in the
  buffers and issues `FSCTL_STUBFSD_DONE_REQUEST`.
* The daemon comes with `..._DAEMON_STARTED` and goes with
  `..._DAEMON_STOPPED`, or with `FS_EXIT` when it is killed. Going means: no
  daemon, wake up whoever waits, wait for the exchange, unlock the buffers.
* `mapiso` and `isodrive` start the daemon, attach and detach drives; the daemon
  posts a named event semaphore when drives come or go, and a thread of
  `isodrive` waits for it.

What is hard: one pair of buffers for all threads of the system; a daemon that
can go at any point of a call; kernel threads that block while they touch a
caller's memory; signals that end waits; errors half way through a call; handles
the kernel keeps for volumes, files and searches the daemon has freed, or of a
daemon that is dead; a directory listing cut into pieces by the size of a
buffer; events that come while nobody looks. `PROJECT.json` lists each at its
line ("hazards").

What makes each part correct:

* Exchange: mutual exclusion; every reply goes to the call that asked; buffers
  touched only while locked; no lost wake-up; a daemon can always stop.
* Daemon life: one registered daemon; no drive of a dead daemon reaches a new one.
* Volumes: freed only when nothing refers to them; counts equal the open handles.
* Searches: each entry delivered exactly once over all calls.
* Reading: the bytes between position and end of file, and the position after.
* Path resolution: the entry whose path it is.
* Character sets: every name shows the characters its author gave it.
* Programs: what they report is what the kernel did; after the last event the
  window shows the drives there are; each handle is closed once.

## Modules

| Part | Modules | Composition |
|---|---|---|
| Exchange | `FsHandlers`, `StubFsd`, `RemoteCall`; `MCStubFsd` | driver, client threads and daemon processes together; `StubFsd` implements `RemoteCall` |
| Drives, volumes, handles | `Volumes`; `MCVolumes` | the kernel's tables, the driver's `pidDaemon` and the daemons' lists together |
| Images | `NlsTables`, `NlsDos`, `NlsIso`, `NlsInit`, `NlsBase`, `IsoAccess`, `IsoVolume`, `Isoinfo`, `IsoContents`; `MCIsoVolume` | the daemon's view of an image, and `isoinfo`'s, against what the author of the image wrote |
| Searches | `DosNames`, `FileInfo`, `DirSearch`, `DirListing`, `DirCursor`; `MCDirSearch` | `DirListing` has the properties; `DirSearch` implements `DirCursor` |
| Programs | `MountRequests`, `Isodrive`, `MountTools`; `MCMountTools` | kernel, driver and daemon as programs see them; the window and its thread; the commands of both programs |
| Proofs | `StubFsdProofs`, `VolumesProofs`, `Recursion`, `DosNamesProofs`, `DirSearchProofs`, `MountToolsProofs`, `IsoVolumeProofs`, `IsoPathProofs` | |

The parts are cut where the code makes them independent. `StubFsd` shows that
requests are carried out one at a time; therefore a request is one step in
`Volumes` and `MountRequests`. `Volumes` shows which records a request reaches;
therefore `IsoVolume` and `DirSearch` have one volume, one open file, one search.

### StubFsd and the code

| Variable | Code |
|---|---|
| `pidDaemon` | `pidDaemon` |
| `semSerialize` | TRUE: the mutex semaphore is owned |
| `semRqAvail`, `semRqDone` | FALSE: posted ("clear"), as `FSH_SEMCLEAR` leaves them |
| `xchg` | the process whose memory `pRequest`, `pFSData` are mapped to and `ahvmlock` stands for |
| `vmlocked` | processes with a `DevHelp_VMLock` that has not been undone |
| `rq`, `reply` | request in the buffers, request whose results are in them |
| `cpc`, `op`, `ret` | place of each thread in its entry point, its call, how the last call ended |
| `dpc`, `handling` | place of each daemon process in its main loop, the request it took |

**Grain of the steps.** OS/2 does not preempt a thread in kernel mode. A step of
the model is what a thread does between two points where it can block:
`FSH_SEMREQUEST`, `FSH_SEMWAIT`, `DevHelp_VMLock`, and accesses to the caller's
memory, which may have to be read in. So an entry point that touches no caller
memory before its signal goes from the exchange to the wait in one step
(`Acquire`), and another one stops in `"fill"` on the way. A wait on one of the
driver's semaphores returns when the semaphore is clear at the time the thread
runs again (`FSH_SEMWAIT` on a RAM semaphore tests the level, not the edge).

**Requests** are tagged with the thread that made them and with whether they are
the call or the undoing of a search; two successive calls of one thread share a
tag. Fields of requests and error codes are abstracted: a call ends "ok" (with
results of its own), "stale" (with those of another request) or "failed".

**The daemon** may fail to load its character tables (`EndStart` to
`"exiting"`), quit on request or lose its registration (`Done` to `"exiting"`),
be interrupted while it waits (`GetInterrupted`), be killed in user mode or in
its wait (`Kill`), call the file system itself while it handles a request
(`NestedCall`). `daemonStarted` has no `return` at its end; its value is whatever
is in the register, which `announceDaemon` may take for an error: the daemon then
frees its buffers and exits, as in `EndStart`'s second branch. A lock that fails
half way is abstracted to "something stays locked or nothing does"
(`StartFails`).

**Faults** are switched on by the constant `Faults`: a signal ends a client's
wait for its reply; a signal ends the wait of a stopping daemon for the
exchange; somebody issues `FSCTL_STUBFSD_RESET`.

`copyFileInfoBufPost` gives the exchange back on a bad buffer and so does its
caller; nothing between the two can block, so they are one release in the model.

### Volumes and the code

| Variable | Code |
|---|---|
| `pid` | `pidDaemon` of the driver |
| `dpc`, `pos` | place of each process in `main`, `DetachLostDrives`, `initDaemon`, the loop, `doneDaemon`, `DetachDrives`, and the letter or volume its loop is at |
| `list` | `pFirstVolume` and the `pNext` chain of each process |
| `owner`, `at`, `cOpenFiles`, `cSearches` | the `VolData` records: whose memory they are in, `chDrive`, the counters |
| `drive` | what the kernel keeps for each letter: the address `fsAttach` returned |
| `handle` | what the kernel keeps for each open file and search: its volume, its references |
| `lostFiles`, `lostSearches` | history: what of the counters stands for no handle of the kernel |
| `forced`, `dangling`, `foreign`, `alone` | history: volumes detached by force while in use, volumes used after they were freed, processes that were given an address of another process, processes that had the machine to themselves |

The kernel gives the addresses it keeps to whichever daemon is registered
(`Follow`). What a daemon does with another's address is undefined; it is noted in
`foreign`, and the properties speak of daemons to which it has not happened
(`Sound`). A detach through a bad address may succeed or fail. The kernel, which
is not in the repository, is taken to count references of open files, to send
`FS_CL_FORSYS` with the last one, and to drop a handle when the driver fails the
close.

An open may fail after `finalizeOpen` has counted it: its wait is interrupted
(`stubfsd.c:164`), or `copyEAOP` cannot write `oError` (`stubfsd.c:868-871`); so may a
search, when its wait or that of `undoFindFirst` is interrupted. Then the kernel has no
handle, and nobody undoes the count. `OpenFile` and `FindFirst` have this as an
alternative, and `CountsExact` says that the counters are the handles and these,
nothing else. What an interrupted wait does to the *next* call, and an interrupted
attach or detach, are left to `StubFsd` (`interrupted_wait`): in `Volumes` every other
request is answered to its caller.

### The image modules and the code

An image is what its sectors are as descriptors, as directory records and as
bytes. `IsoContents` makes images from *masters*: what an author meant, with the
names a reader should see. The properties compare what the code finds in the image
with the master, so they are not about the code's own idea of a path or name.
What a well made image is, `WrittenForPaths`, `WrittenForNames` and, of images that
`isoinfo` is used on, `WrittenForIsoinfo` say; `MCIsoVolume` assumes it of all images it
has (`MastersWrittenWell`), so TLC evaluates it, and the theorems about names, paths and
listings take it for granted. That the tables of the character
sets are right (`TablesExact`) is not assumed of the runs: `NamesExact` checks it.

`IsoAccess` has `getDirEntries`, the rules for names and both path resolutions of
`isoacces.c`; `IsoVolume` has `attachVolume` with its search for a Joliet
descriptor, one turn per step, then open, close, `fsRead` with its three parts,
and `fsChgFilePtr` in integers of 32 bits, or of as many as `HighBit` says. `Isoinfo` has the
same for `isoinfo.c`: its own search for descriptors, its own walk over
directories, the extraction of files. `main` frees the directories it has listed and
leaves `todo_idr` at the first of them (`isoinfo.c:1068-1077`), and `parse_dir` appends
by walking from there (635-640). So a directory found in any but the root and the first
in it is appended through freed memory: `ParseDirAstray` has its outcomes (appended as
if nothing had happened, lost, the program gone), `idr` says when, and `astray` notes
it. `NlsBase` has the list of
tables, `NlsDos` and `NlsIso` all 29 tables in both directions as the source has
them, written as stretches of consecutive numbers (`NlsTables`); `NlsInit` has the
order in which `init_nls` registers them.

Buffers are not cleared between reads (`ReadDesc`, `ReadBytes`): beyond the end of
a truncated image the code goes on with what the last read left, and so does the
model.

### The search modules and the code

| Variable of `DirSearch` | Code |
|---|---|
| `open`, `params` | the `SearchData` the program's handle stands for, with name and attributes |
| `pIsoNext`, `iNext` | the next entry and the position it has |
| `rq`, `first` | the request that is being carried out |
| `cbData`, `cAdded`, `pData` | locals of `storeDirContents`: room left, entries stored, what has been written |
| `from`, `answer`, `seen`, `info` | what the program knows: where its request began, the answer, everything it has read from its buffers, the answer of the last query of a file |

A step is one turn of the loop of `storeNextFileInfo` (`Skip`, `Store`), or what
`storeDirContents` does when that loop ends (`DoesNotFit`, `EndOfDirectory`). A
buffer is a sequence of fields with their sizes; `storeFileInfo` of `FileInfo`
writes them as the code does, leaves what has been written of an entry that does
not fit, and the program reads its buffer by the format it asked for
(`RecordsRead`), so that an entry written in part, or in the wrong format, is seen
as what it would be. The memory of a new `SearchData` is not cleared: `iNext`
begins with any of `Firsts`. `DosNames` has `nameMatches`, `hasNon83Name` and
`splitPath`, and the rules they are compared with (`MatchesByRule`, `IsShort`).

### The program modules and the code

`MountRequests` has `DosFSAttach` as a program sees it: the kernel's test of the
letter, the exchange (one call inside, as `StubFsd` shows), `fsAttach` with the
event it posts *before* the kernel notes the drive, and daemons that come, quit
and die at any point. `Isodrive` has the main thread of the window
(`GetMountList`, `QueryFSAttach`, `InitMainList`, `WM_CLOSE`, `EndSem`) and the
thread that waits (`NotifyThread`), each step being what happens between two
system calls that let the other thread or another process see something.
`MountTools` has the commands: `StartDaemon` with its waiting, attach, the
detach-and-attach-again of both programs when the drive letter is in use, the
second try of ISODrive.

`missed`, `did`, `lastBy` and `closes` are history variables: an event nobody has
looked after yet, what the kernel did last for each program, who changed each
drive last, how often each handle has been closed.

## Runs

| Run | Instance | Shows |
|---|---|---|
| `exchange_safety` | 3 threads, 1 daemon process, all calls that keep the exchange; 488,338 states | `TypeOK`, `MutualExclusion`, `OwnReply`, `ServesWaitingCaller`, `BuffersValid`; refinement of `RemoteCall` |
| `exchange_liveness` | 3 threads, 1 daemon process, calls that signal promptly, fairness; 94,684 states | `SerializeExact`, `NoLostWakeup`, `NoLostRequest`, `ExchangeIsLeft`, `StopEnds`, `ServingEnds` |
| `exchange_faults` | 2 threads, 2 daemon processes, all faults, the calls that lose the exchange; 1,582,102 states | `RegisteredIsAlive` |
| `daemon_life` | 2 processes, 2 letters, 2 volumes, 2 handles, 2 references, one count for nobody, fairness; 662,943 states | `TypeOK`, `CountsExact`, `ListMatchesDrives`, `FreedUsedOnlyAfterForce`, `LonerInheritsNoDrive`, `QuitDetaches` |
| `iso_image` | 9 images, 28 character sets, fairness; 6,589 states | `TypeOK`, `PathsResolve`, `DirectoriesResolve`, `NamesExact`, `JolietPreferred`, `ReadsAreContent`, `SeeksLand`, `ScanEnds`, `IsoinfoAgrees`, `ExtractsContent` |
| `dir_search` | 2 directories, 14 searches, 8 requests, 42 queries, fairness; 4,161 states | `TypeOK`, `EachOnceInOrder`, `PositionsTell`, `EAListsTold`, `SearchEnds`; refinement of `DirCursor` |
| `mount_tools` | 1 letter, an image and a file that is none, one `mapiso`, ISODrive, fairness; 483,111 states | `TypeOK`, `ReportsTrue`, `ClosedOnce`, `EventReaches`, `OwnMountShown` |
| `lost_wakeup` | 2 threads, `FS_WRITE`, fairness | `StopEnds` fails |
| `leaked_exchange` | 2 threads, `FS_IOCTL` | `SerializeExact` fails |
| `unlocked_exchange` | 2 threads, `FS_FILEINFO`, `FS_CLOSE` | `MutualExclusion` fails |
| `interrupted_wait` | 2 threads, `FS_READ`, interrupted waits | `OwnReply` fails |
| `wrong_page` | the image with every character, iso8859-14 | `NamesExact` fails |

**Bounds.**

* *Exchange.* Three threads: one that holds the exchange, one that waits for it,
  and one that comes after the holder has left; the deepest stories (a reply meant
  for a caller that has gone, a request withdrawn by a restart) need no more. One
  daemon process that can start again any number of times, or two where
  overlapping ones matter. All variables range over finite sets by themselves, so
  no counter is cut off. `exchange_safety` and `exchange_faults` use symmetry of
  threads and processes; the run with liveness uses none. These runs check for
  deadlock.
* `daemon_life`: a process that goes while another comes; a volume in use while a
  second one is attached, detached or taken over; two handles on one volume or on
  two. A volume record is used once, so a run ends when both have been used and
  both processes are gone: there the system may rest, and deadlock is not checked.
  `MaxRefs` bounds the references of one open file; with two, a close that is the
  last differs from one that is not. `MaxLost = 1` bounds the opens and searches a
  volume counts for nobody: one is enough to keep it from being detached. A second
  reference or such a count takes the place of the last handle (`OnePerHandle`,
  `Room`), so the run has at most two of these at a time.
* `iso_image`: sectors of 4 bytes and positions of 6 bits, so that files begin,
  end and cross sectors, and positions reach both halves of their range. The
  images: plain with three levels of directories and a directory of more than one
  sector, truncated after its first file, without a last descriptor, Joliet beside
  a plain root, High Sierra, two sessions, no image, one whose directories lead `isoinfo` through
  freed memory (`Deep`), and one Joliet directory with
  a file for every code point some character set knows and for others near them.
  Every table in use is applied to that one; iso8859-14, which is not exact, has
  the run `wrong_page`.
* `dir_search`: requests for 0, 1, 2, 3 and 9 entries; buffers that hold nothing,
  part of an entry, one entry, one entry but not its EAs, all entries; an EA list
  that ends within a name, one of no names, one too short and one too long to be taken,
  each with two lists that the exchange buffer may have held before, and with rooms
  below, at and above what the shorter list's EAs take; four positions, so that they wrap around; first
  positions 0 and 3. All lists are cut into pieces in every way the requests
  allow, as they may follow each other in any order.
* `mount_tools`: one letter is enough for two programs to get in each other's way.
  `MaxCommands = 1` command of ISODrive's user beside any number of `mapiso` runs,
  one at a time; `MaxMessages = 1`: further `UM_REFRESH` messages while one waits
  change nothing, as one refresh reads all drives. When the user has closed the
  window and does nothing more, the system rests, and deadlock is not checked.

**Fairness.**

* *Exchange.* Weak fairness on every step that a thread takes by itself once it
  can run: the kernel schedules ready threads, and the daemon's handlers end. None
  on calls being made, on daemons being started, killed or interrupted, on a nested
  call, or on failing probes. Which of several waiting threads gets the exchange is
  left open, so a thread may starve there; no property says otherwise.
* `Volumes`: weak fairness on what a process does once it has left its loop
  (`Leave`). Nobody has to start a daemon, close a file or send a signal.
* `IsoContents`: weak fairness on the turns of the search for descriptors.
* `DirSearch`: weak fairness on the daemon's loop. `SearchEnds` speaks of a
  program that goes on: strong fairness of `GoesOn`, because between two calls with
  roomy buffers it may make others that are refused; without one it could ask for
  ever with a buffer that holds nothing, and the code would be right to refuse.
* `MountTools`: weak fairness on programs in the middle of a command, on the
  kernel, driver and daemon that carry out a call, and on both threads of ISODrive.
  None on users, on daemons that come, on other clients of the event, or on waits
  that fail.

**Where the code departs from its comments.**

1. `lost_wakeup`: a thread in `"fill"` when the daemon stops. `daemonStopped`
   clears `semRqDone`; the thread then sets it again and waits for ever, holding
   the exchange the daemon waits for (comment at `stubfsd.c:251-258`). It
   happens to every entry point that touches the caller's memory before it
   signals, and to the undoing of a search.
2. `leaked_exchange`: the early returns of `FS_IOCTL` and of the three search
   calls with an EA list keep the exchange.
3. `unlocked_exchange`: `copyFileInfoBufPre` gives the exchange back and its
   callers go on.
4. `interrupted_wait`: a caller that leaves early lets the next one take its
   results.
5. `wrong_page`: `page01` of `nls_iso8859-14.c` is a copy of `page1e`, so on a
   Joliet volume in that character set U+0102 and U+0103 (A with breve) and U+010A
   and U+010B (C with a dot) show as letters they are not (comment at
   `nls_iso8859-14.c:34`: "The Unicode to charset table has only exact mappings.").

Each of the first four breaks one assumption of the theorems about the exchange,
which is why the passing runs and the theorems are stated for classes of calls
(`KeepsExchange`, `ReturnsExchange`, `Prompt`) and not for all of them.


## Proofs

`tlapm StubFsdProofs.tla`, and the same for `VolumesProofs`, `MountToolsProofs`,
`Recursion`, `DosNamesProofs`, `DirSearchProofs`, `IsoVolumeProofs` and
`IsoPathProofs`. All theorems are for any values of the constants that meet the
modules' assumptions (`None` is none of the things it stands beside, sizes are
numbers, `Ops` are profiles, and the like) and what the second column adds.

| Theorem | Assumes | Establishes |
|---|---|---|
| `TypeCorrect` | nothing | `[]TypeOK` of `StubFsd` |
| `DriverKnowsDaemon` | nothing: any daemons, any faults | `[]RegisteredIsAlive` |
| `WakeupNotLost` | `PromptCalls`; any daemons, any faults | `[]NoLostWakeup` |
| `ExchangeIsExclusive` | `OneDaemon`, `KeepingCalls`, `OrderlyFaults` | `[]MutualExclusion` |
| `BuffersStayValid` | the same | `[]BuffersValid` |
| `ExchangeReturned` | the same and `ReturningCalls` | `[]SerializeExact` |
| `RepliesAreOwn` | `OneDaemon`, `KeepingCalls`, no faults | `[]OwnReply` |
| `CallersWait` | the same | `[]ServesWaitingCaller` |
| `RequestNotLost` | the same | `[]NoLostRequest` |
| `ExchangeImplementsRemoteCall` | the same | `StubFsd` implements `RemoteCall` |
| `VolumesTyped` | nothing | `[]TypeOK` of `Volumes` |
| `CountersAreExact` | nothing; opens and searches that fail included | `[]CountsExact` |
| `ListAndDrivesAgree` | nothing | `[]ListMatchesDrives` |
| `OrderlyDetachIsSafe` | nothing | `[]FreedUsedOnlyAfterForce` |
| `LonerStartsClean` | nothing | `[]LonerInheritsNoDrive` |
| `HandlesClosedOnce` | nothing | `[]ClosedOnce` |
| `ReportsAreTrue` | nothing | `[]ReportsTrue` |
| `MountTypes` | nothing | `[]TypeOK` of `MountTools` |
| `GivesEachOnceInOrder` | `NamesFit` | `[]EachOnceInOrder` |
| `SearchImplementsCursor` | the same | `DirSearch` implements `DirCursor` |
| `PositionsAlwaysTell` | `NamesFit` | `[]PositionsTell` |
| `SearchTypes` | `NamesFit` | `[]TypeOK` of `DirListing` |
| `EAListsAlwaysTold` | nothing | `[]EAListsTold` |
| `NameMatchesByRule` | no letter behind a `?` in the pattern | `nameMatches` is the rule of wildcards |
| `Non83ByRule` | nothing | `hasNon83Name` is false of the short names only |
| `VolumeTypes` | nothing | `[]TypeOK` of `IsoContents` |
| `JolietIsPreferred` | nothing: any descriptors | `[]JolietPreferred` |
| `ReadsShowContent` | nothing: any images and requests | `[]ReadsAreContent` |
| `SeeksDoLand` | nothing: any width of a ULONG | `SeeksLand` |
| `PathsLead` | `WrittenForPaths(Attachments)`, `TablesExact(Attachments)` | `[]PathsResolve` |
| `DirectoriesLead` | the same | `[]DirectoriesResolve` |
| `NamesAreExact` | `WrittenForNames(Attachments)`, `TablesExact(Attachments)` | `[]NamesExact` |
| `IsoinfoInvariant` | `WrittenForIsoinfo(Attachments, Commands)`, `TablesExact(Attachments)` | `[]IsoinfoInv` |
| `IsoinfoShowsTheSame` | the same | `[]IsoinfoAgrees` |
| `IsoinfoWritesContent` | the same | `[]ExtractsContent` |

### The exchange

*First part* (`ExchangeInv`). Mutual exclusion is not inductive: `EndStart` sets
the exchange free whatever it was. It may do so because nobody is inside when no
daemon process is there (`NobodyLeftInside`), which holds because `EndStop`
waited for the exchange, which every call inside has (`Held`), and because a call
enters only while a daemon is registered, that is, beyond `EndStart` and before
its stop (`Attached`). The same chain keeps the buffers valid (`Mapped`).
`OneDaemon` is needed at exactly this place: a second process may run `EndStart`
while the first is still stopping.

*Second part* (`RequestInv`), on top of the first. The request in the buffers is
that of the call inside (`OwnRequest`). While the daemon serves, that request is
the one it took, somebody waits, and neither semaphore is posted (`Turn`); when
it has answered, the results are that request's (`Answered`). A posted request is
waited for (`Posted`). Hence, when `semRqDone` ends a wait and a daemon is there,
the results are the waiting call's (`Replied`), and stay so until they are copied
(`Delivered`).

`WakeupNotLost` needs only that nobody is between taking the exchange and the
signal, or in an undoing: then each setting of `semRqDone` comes right after a
test of `pidDaemon`.

*Third part.* A waiting thread is in exactly one of four
places: its request is posted, being served, answered, or its daemon is going;
each step that ends one of these begins the next (`RequestNotLost`). For the
refinement a call's stage in `RemoteCall` is read off its place and off what the
daemon is doing (`Stage`, and `UndoStage` for a search that takes its request
back). A step of one thread leaves the stages of the others alone, because at
most one of them is inside (first part), and a step of the daemon moves only the
one whose request it has (second part): every step moves one call or none.

### Drives and volumes

`VolInv` relates four things that are kept by different parties: the process the
driver has registered, the daemons' lists, the records' counters, and what the
kernel keeps. A process has no volume before it is registered; the list of a
process has its own volumes and each once; the list of the registered process is
what its drives lead to, and its handles lead into that list or to volumes that
were taken away by force; the counters are the numbers of those handles and of what
was counted for nobody. Each
holds only of daemons that never got an address of another (`Sound`), and this
is why the invariant says for each of its parts to which daemons it applies.
`LonerStartsClean` needs another invariant (`LonerInv`): while a process that is
alone looks for lost drives, the letters it has passed have none, and no process
is left that could attach one behind its back.

### Programs

`HandlesClosedOnce`: both threads of ISODrive run `EndSem`, the waiting thread
when a wait fails and the main thread when the window is closed. `SemInv` says
that there is one closer at a time, and that a handle that has been closed is no
longer kept, or its closer is just about to clear it.

`ReportsAreTrue`: `ReportInv` says at each place of a command what the kernel did
last for this program; a command is carried out within one message of the
window's only thread with a message queue, so the window, whose dialogs are
modeless, has one at a time (`OneCommand`).

`MountTypes` has to bound the daemons that are being started. Every command starts
one at most: those that are starting, the processes of `mapiso` that may yet start
one (`Yet`) and the window's command, if it may (`Gate`), are never more than there
are processes and commands of the window together (`StartInv`). The other parts say
which semaphores ISODrive's thread holds at each place (`ThreadHolds`), and that
only images are drives and the kernel carries out one call at a time (`DriveInv`).

### Searches

`SearchInv` says that what the program has read lists all wanted entries before
the one its request began at; that the buffer, read with the program's format,
lists the wanted ones from there to the entry the loop is at; that the number of
fields in it is the number of records times the fields of one record, so that one
entry written in part, or in a different format, would shift all that follow; and
that positions count from one first position modulo `Positions`. Behind it are
lemmas about what `storeFileInfo` writes and what `RecordsRead` reads from it, one
about each way a request ends (`Ends`), and that a program's EA list is torn for
every entry or for none: a request that has stored something cannot then fail for
its list. In the refinement each end of a request is one step of `DirCursor`, and
every turn of the loop a stutter.

`SearchTypes` adds to this that the room a request has left and the bytes it has
stored are together the room the program gave (`RoomInv`), so the room never falls
below nothing. `NamesFit` says that no name is longer than 255, which the length byte
of a directory record guarantees; TLC evaluates it on the instance of `dir_search`
(`NamesAssumption`). `EAListsAlwaysTold` compares the size that
`storeEAsInFEAList` counts up with the sum over the names that were asked for; that
sum is what `storeEAsInFEAList`'s loop and `copyEAOP`'s have in common. It claims the
refusal of torn lists and of more than 64 KB (which the run does not reach: a list of so
many names is beyond TLC's stack), the size told, all of the EAs if there is room,
and never more than the room. It does not claim the overflow error of the comment at
`stubfsd.c:772-773` for a program with less room, as the code gives none.

### Names and recursion

`nameMatches`, `hasNon83Name` and the sizes of lists go over data recursively. The
library's induction theorems take an operator, which the provers cannot instantiate,
so `Recursion` has induction over sets of numbers, from the well-foundedness of `<`
(`LeastNumber`, `BoundedInduction`), and that a recursive function over `0 .. n` is
there (`PrimitiveRecursion`). `NameMatchesByRule` uses them twice: once to know that
the function `nameMatches` defines for the pairs of places has the values its body
says, once from the ends of pattern and name backwards.

### Images and reading

`VolumeInv` is the invariant of one volume. While the search for a Joliet
descriptor runs, every sector from the primary descriptor to the one before the
search's is a descriptor that lets it go on and is not Joliet (`Scanned`); so what
ends the search also decides it. Beyond the end of the image the buffer keeps the
last descriptor, which let the search go on, so it never ends there: that is why
`Mount` finds the search within the image.

`ReadsShowContent` is about the loop of `fsRead`. `Progress` says how far the loop
is after block `k`: what has been copied and what is left are together what was to
be copied; unless nothing is left, the copied bytes end where block `k` ends; and
they are the bytes of the file from the position on, if the bytes asked for lie in
the image (`Fits`). The loop is a recursion over blocks, so the proof first shows
that it has a function (`PrimitiveRecursion`) and then the progress by
`BoundedInduction` (`CopiedBytes`). The sizes come from directory records through
the resolution of paths: `DirEntriesTyped`, `ComponentsTyped` and `QueryTyped` say
what these recursions return.

`SeeksDoLand` needs that sizes and positions are ULONGs, which is part of
`VolumeTypes`; the rest is `TargetIsPosition`, arithmetic modulo twice `HighBit`.

### Names and paths

The three theorems are about images that an author wrote properly; on others the code
has nothing to find. `WrittenFor` and `TablesExact` say what that takes, and each part
is needed:

* the directories of an image share no sectors (`DirsApart`);
* from the root on (`IsTree`), the size a directory's record gives covers just the
  sectors its records are in and lies within the image, its extent is not zero, and
  what is no directory has no sector of one: a file in the middle of a path is read
  as a directory (`isoacces.c:275`);
* an identifier is the name with nothing behind it, a dot, a version, or both
  (`Identifies`), and a name neither is empty nor ends in a dot, as the code would
  take the dot off (`isoacces.c:174`);
* on a Joliet volume, the table from Unicode has the characters the table to it has,
  for the characters of these identifiers (`TablesExact`). Whether they do is a
  matter of the tables' data: `iso_image` finds it so of all but iso8859-14, by
  `NamesExact` on the image with every character, and `wrong_page` of that one not.

For paths, `Unambiguous` adds that the names in one directory differ by more than
their case and that no component of a path is `.`, `..` or what a file's bytes might
look like. Nothing bounds the sizes, the depth or the sector size.

The proof goes from the sectors up. `SectorsHoldRecords`: the runs of `per` records in
the sectors of a directory are all its records and no others. `DirEntriesAre`: the
loop of `getDirEntries` over these sectors collects just their entries.
`NameOfIdentifier` and `NodeEntry`: an entry has the name, extent, size and flag of its
node, whichever of the three branches of "Build name" copied the name, with the flag
of High Sierra where it is. `TreeEntries`: a directory is read as its two special
entries and those of its nodes; with it `NamesExact` is a matter of the root, because
no name looks like a special one.

For paths the invariant of the walk is `Together`: entry and node are both missing, or
the same place of the tree. One component keeps it (`OneComponent`): in a directory the
first entry that matches is that of the only node that does (`InDirectory`), in a file
nothing is found (`InFile`). The other resolution has `Stands` in its place: its extent
of zero is the root, as no directory begins at sector zero, and once a component was no
directory the walk of the author is outside too and never comes back.

### isoinfo beside the daemon

`IsoinfoAgrees` and `ExtractsContent` compare two programs that have nothing in common
but the image: `isoinfo` goes through the directories in the order it met them, the
daemon goes down from the root for each path. On top of what paths need
(`WrittenFor`), an image that is listed must be so that (`WrittenToList`)

* a directory is in one directory and the root in none (`EachInOne`); otherwise
  `isoinfo` lists it twice, or for ever (`isoinfo.c:1069`);
* the names in one directory differ by more than their case, and no identifier has a
  separator in it (`NamesTold`), as a line is read as a path again;
* files lie within the image (`FilesWithin`).

Both are about runs that have not gone through freed memory (`~astray`), so they cover
every run on images in which only the root and the first directory in it have
directories; of others they say nothing once such a directory has been found.

`IsoProgress` says that nothing is listed before the search ends and nothing is left to
list when all is done; the two other parts of `IsoinfoInv` carry the proof. `IsoScanned` says of `isoinfo`'s search for a Joliet
descriptor what `Scanned` says of the daemon's, of the same sectors; so both begin with
the same root (`RootIsOpened`), if the options ask for what the daemon chose
(`SameView`). `IsoListed` says that there are (`Listing`) a path `B[e]` to each
directory `e` that has been met and a set `W` of places, each a directory and a number
in it, for which:

* what has been met is the root, and of the others only what some place in `W` leads
  to; none is outside a set that has the root and is closed (`DirsMet`, `PlacesTaken`);
* the list of directories has each once, under its path and with its length
  (`Waiting`);
* a place is in `W` if its directory has been met and does not wait, and, in the
  directory being listed, only up to the record that has been taken (`Listed`);
* there is a line for every place, and as many lines as places (`LinesAre`);
* the output is the bytes of the file among the places whose line is asked for, or
  nothing, also for 2^31 bytes or more (`BytesAre`).

One record adds one place (`ListingWith`, `NodeTaken`), and with a directory its path;
that it was not met before is what `EachInOne` is for (`NotMet`). `ParseDirLists` takes
this through the records of a directory. `RecordsAre` and `FileBytes` say before that
what the two loops over sectors return: the records of the directory, and the bytes of
the file without what the last block has behind it. At the end nothing waits, so the
directories met are closed, and `W` is all that is below the root (`AllPlaces`). That a
line leads the daemon to its extent (`LinesLead`) goes along the path of the directory
(`PathsKnown`), with `OneWanted` for what -x asks for.

The path a line becomes (`Shown`) and the loops are recursive functions; what they
return is shown with `PrimitiveRecursion` and `BoundedInduction`, as above.

### Only model-checked

* Liveness and fairness: `StopEnds`, `ServingEnds`, `ExchangeIsLeft`,
  `QuitDetaches`, `ScanEnds`, `SearchEnds`, `EventReaches`, `OwnMountShown`.
* That the conversion tables are exact for the names of an image: a matter of the
  tables' data, which `NamesExact` looks at character by character in `iso_image`.

Every other invariant and action property of the passing runs is stated by a theorem
above.

## Not modelled

* The platform layer (`os2.c`, `posix.c`), GNU `getopt`, the installation
  scripts and resources: wrappers without state, vendored code, packaging.
* `FS_INIT`, `FS_MOUNT`, `FS_FILEIO`, `FS_SHUTDOWN`, the pipe calls and
  `FS_SETSWAP`: they answer without the daemon and change nothing.
* In `utils.c` the verification of strings, the conversion of dates and the log;
  in `isoinfo` the long listing, the descriptor fields, the path table and
  Rock Ridge; in `mapiso` and `isodrive` the options, the message files,
  `AutoMount` and the questions asked on the command line: these print, convert,
  or ask before a command the model lets the user give at any time.
* Memory that cannot be had, and the letter case of delivered names (`strupr`).
* `DosFSAttach` calls are taken to be one at a time in the kernel.

### What the code does, and the models show or leave out

Noticed in the code; where the models have it, the properties are stated so that
they speak of the rest.

* A drive letter that is in use is replaced (`mapiso`, ISODrive): the old drive is
  detached first; when the new file then turns out to be no image, the old drive
  is gone.
* After a daemon has died its drives stay attached, and requests for them go to
  the next daemon, which takes the addresses for its own (`foreign` in `Volumes`).
  A daemon's own search for lost drives finds them only when nobody attaches
  meanwhile.
* `isodrive`: the mount event is posted before the kernel has noted the drive, and
  the list is read before `StartSem` creates the semaphores, so the window can miss
  drives of other programs; two clients can take each other's event; a daemon
  that dies or quits posts none. `OwnMountShown` and `EventReaches` say what is
  left. `MountCmd` returns TRUE whatever `DoAttach` returned.
* The option string of `isodrive` has neither `a` nor `q` (`isodrive.c:470`): of the
  readme's `-a, --auto` only the long form works.
* Images: a truncated image gives what the buffer held before; a file in the middle
  of a path is read as a directory (`isoacces.c:275`); a name that becomes empty is
  looked at one place before its beginning (`isoacces.c:173`); the session offset
  moves the descriptors, not the directories they name.
* `isoinfo` walks through directories it has freed to append the next one
  (`isoinfo.c:635-640`, `1068-1077`), as soon as a directory other than the root and the
  first in it has directories: what it lists then is a matter of the memory. It takes
  lengths for ints, so it lists no directory and extracts no file of 2 GB or more. It
  goes round for ever on directories that contain each other (`isoinfo.c:1069`); `-j default` finds no table, as `init_nls` registers none of
  that name. ISO8859-6 has no ASCII digits in its table from Unicode, so digits in
  Joliet names become `_`.
* Searches: a `?` at the end of a name matches what is left of the pattern
  (`find.c:62-64`); `hasNon83Name` takes a name that begins with a dot for a short
  one; a must-have bit for long names is not looked at; `iNext` is never
  initialised, which is why `PositionsTell` speaks of distances.
* EA lists: a comment promises to "copy as much as possible and return an overflow
  error" (`stubfsd.c:772-773`); `copyEAOP` notes that error in `rcfinal` and returns `rc`
  (`stubfsd.c:776`, `811`), so a program with too little room has a cut list and
  NO_ERROR. `FS_FILEINFO` and `FS_PATHINFO` do not look at the result of
  `copyFileInfoBufPre` (`stubfsd.c:1212`, `1288`): when a list of names is refused, the
  daemon goes by what the exchange buffer held, and the program gets an answer to that.
  The model has both; `EAListsTold` claims neither.
* Counters: an open that fails in the driver after the daemon has counted it is never
  undone, nor is a search whose wait is interrupted. `cOpenFiles` or `cSearches` stays
  one too high, and the drive can then only be detached by force until the daemon ends.

## Plan

What the first plan named is done: the exchange with its refinement, drives and
volumes with the life of daemons, searches with their refinement, images, reading,
names, character sets, EA lists, the programs, and the proofs about them. What
would come next:

1. Two daemons whose lives overlap, in `StubFsdProofs`: which part of
   `ExchangeInv` survives without `OneDaemon`. `exchange_faults` checks the one
   property that does not need it.
2. `isoinfo -l` and `-R` as further readers of the same images.
3. `isodrive`'s command line with its questions, as a second kind of user in
   `MountTools`.
