--------------------------- MODULE MountRequests ---------------------------
(***************************************************************************)
(* DosFSAttach as programs call it: the kernel's test of the drive letter, *)
(* FS_ATTACH of the driver (driver/stubfsd.c), fsAttach of the daemon      *)
(* (daemon/attach.c) with the event it posts, and the kernel's note of the *)
(* result.  What a daemon does with its volumes is in Volumes; here it     *)
(* comes, serves, goes and dies.                                           *)
(***************************************************************************)
EXTENDS Integers, FiniteSets

CONSTANTS
  Drives,      \* drive letters
  Files,       \* names of files
  Images,      \* those that are ISO images
  Tools,       \* processes of mapiso
  Gui,         \* the process of ISODrive
  None

ASSUME ImagesAssumption == Images \subseteq Files
ASSUME GuiAssumption    == Gui \notin Tools
ASSUME NoneAssumption   == None \notin Files \cup Tools \cup {Gui}

Programs == Tools \cup {Gui}

VARIABLES
  drives,     \* the kernel's drives: the image behind each, or None
  running,    \* a daemon is registered
  starting,   \* daemon processes that are not registered yet
  call,       \* each program's call of DosFSAttach
  did,        \* what the kernel did last for each program, and
  lastBy,     \* which program changed each drive last
  posted,     \* the state of the event semaphore, and
  listening,  \* whether it exists, as ISODrive has opened it
  missed      \* it has been posted since ISODrive looked at the drives, and no
              \* other client has reset it

rvars == <<drives, running, starting, call, did, lastBy>>
evars == <<posted, listening, missed>>

NoCall == [kind |-> "none", drive |-> None, file |-> None, at |-> "none",
           rc |-> "none"]

Init_Requests ==
  /\ drives = [d \in Drives |-> None] /\ running = FALSE
  /\ starting = 0
  /\ call = [p \in Programs |-> NoCall]
  /\ did = [p \in Programs |-> "nothing"]
  /\ lastBy = [d \in Drives |-> None]
  /\ posted = FALSE /\ listening = FALSE /\ missed = FALSE

\* The kernel carries out one DosFSAttach at a time.
Inside(p)      == call[p].at \in {"asked", "notified", "answered"}
KernelFree     == \A p \in Programs : ~Inside(p)
ExchangeFree   == \A p \in Programs : call[p].at \notin {"asked", "notified"}

Call(p, kind, d, f) ==
  call' = [call EXCEPT ![p] =
             [kind |-> kind, drive |-> d, file |-> f, at |-> "called",
              rc |-> "none"]]

Moves(p, at, rc) == call' = [call EXCEPT ![p].at = at, ![p].rc = rc]

Idle(p) == ~Inside(p) /\ call[p].at # "called"

\* The kernel looks at the letter, and FS_ATTACH at the daemon.
Enter(p) ==
  LET c == call[p]
  IN  /\ c.at = "called" /\ KernelFree
      /\ \/ /\ c.kind = "attach" /\ drives[c.drive] # None
            /\ Moves(p, "done", "ERROR_ALREADY_ASSIGNED")
         \/ /\ c.kind = "detach" /\ drives[c.drive] = None
            /\ Moves(p, "done", "ERROR_INVALID_DRIVE")
         \/ /\ c.kind = "attach" /\ drives[c.drive] = None /\ ~running
            /\ Moves(p, "done", "ERROR_STUBFSD_DAEMON_NOT_RUN")
         \/ /\ c.kind = "detach" /\ drives[c.drive] # None /\ ~running
            /\ Moves(p, "answered", "NO_ERROR")
         \/ /\ (c.kind = "attach") = (drives[c.drive] = None) /\ running
            /\ Moves(p, "asked", "none")
      /\ UNCHANGED <<drives, running, starting, did, lastBy, evars>>

\* Mutation: any file is attached.
AnyFile(c) == TRUE

\* attachVolume takes images only.
Attachable(c) == c.kind = "attach" => c.file \in Images

\* attachVolume or detachVolume, and the event if it succeeds.  A volume with
\* open files is not detached; that there are some is the programs' choice.
fsAttach(p) ==
  LET c == call[p]
  IN  /\ c.at = "asked"
      /\ \/ /\ Attachable(c)
            /\ Moves(p, "notified", "NO_ERROR")
            /\ posted' = (posted \/ listening)
            /\ missed' = (missed \/ listening)
            /\ UNCHANGED listening
         \/ /\ ~Attachable(c)
            /\ Moves(p, "answered", "ERROR_ISOFS_NOTISO")
            /\ UNCHANGED evars
         \/ /\ c.kind = "detach"
            /\ Moves(p, "answered", "ERROR_DRIVE_LOCKED")
            /\ UNCHANGED evars
      /\ UNCHANGED <<drives, running, starting, did, lastBy>>

\* signalRequestDone, and the end of FS_ATTACH
RequestDone(p) ==
  /\ call[p].at = "notified"
  /\ Moves(p, "answered", call[p].rc)
  /\ UNCHANGED <<drives, running, starting, did, lastBy, evars>>

\* The kernel notes what has been done.
Note(p) ==
  LET c == call[p]
  IN  /\ c.at = "answered"
      /\ Moves(p, "done", c.rc)
      /\ IF c.rc = "NO_ERROR"
         THEN /\ drives' = [drives EXCEPT ![c.drive] =
                              IF c.kind = "attach" THEN c.file ELSE None]
              /\ did' = [did EXCEPT ![p] = c.kind]
              /\ lastBy' = [lastBy EXCEPT ![c.drive] = p]
         ELSE UNCHANGED <<drives, did, lastBy>>
      /\ UNCHANGED <<running, starting, evars>>

Serve(p) == Enter(p) \/ fsAttach(p) \/ RequestDone(p) \/ Note(p)

-----------------------------------------------------------------------------
(* Daemon processes                                                        *)

NoDrives ==
  /\ drives' = [d \in Drives |-> None]
  /\ lastBy' = [d \in Drives |-> None]

\* DetachLostDrives and announceDaemon; a second daemon ends.
Announce ==
  /\ starting > 0 /\ KernelFree
  /\ starting' = starting - 1
  /\ \/ ~running /\ running' = TRUE /\ NoDrives
     \/ running /\ UNCHANGED <<running, drives, lastBy>>
  /\ UNCHANGED <<call, did, evars>>

\* It is told to quit, and detaches its drives.
Quit ==
  /\ running /\ KernelFree
  /\ running' = FALSE /\ NoDrives
  /\ UNCHANGED <<starting, call, did, evars>>

\* It dies; a call it was at fails, and its drives stay.
Die ==
  /\ running /\ running' = FALSE
  /\ call' = [p \in Programs |->
                IF call[p].at \in {"asked", "notified"}
                THEN [call[p] EXCEPT !.at = "answered",
                                     !.rc = "ERROR_STUBFSD_DAEMON_NOT_RUN"]
                ELSE call[p]]
  /\ lastBy' = [d \in Drives |-> None]
  /\ UNCHANGED <<drives, starting, did, evars>>

\* Another client of the event semaphore resets it, as it should.
OtherClient ==
  /\ posted /\ posted' = FALSE /\ missed' = FALSE
  /\ UNCHANGED <<rvars, listening>>

DaemonNext == Announce \/ Quit \/ Die
=============================================================================
