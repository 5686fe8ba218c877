----------------------------- MODULE MountTools -----------------------------
(***************************************************************************)
(* mapiso (daemon/mapiso.c) and the commands of ISODrive                   *)
(* (daemon/isodrive.c), with the kernel, the driver and daemons that come  *)
(* and go: what the programs report, and what ISODrive's window shows.     *)
(***************************************************************************)
EXTENDS Isodrive

CONSTANTS
  Commands,       \* function: program |-> [kind, drive, file, start] it may do
  MaxCommands     \* bound: commands of ISODrive's user

ASSUME CommandsAssumption ==
  \A p \in Programs : \A w \in Commands[p] :
    /\ w \in [kind : {"attach", "detach"}, drive : Drives,
              file : Files \cup {None}, start : BOOLEAN]
    /\ w.start => w.kind = "attach"

ASSUME ToolsAssumption ==
  IsFiniteSet(Tools) /\ MaxCommands \in Nat /\ MaxMessages \in Nat

VARIABLES
  pc,        \* where each program is with its command
  want,      \* the command: [kind, drive, file, start]
  delay,     \* ISODrive has just started the daemon
  rc,        \* what the program reports
  commands

cvars == <<pc, want, delay, rc, commands>>
vars  == <<rvars, evars, wvars, svars, cvars>>

NoWant == [kind |-> "none", drive |-> None, file |-> None, start |-> FALSE]

Init ==
  /\ Init_Requests /\ Init_Isodrive
  /\ pc = [p \in Programs |-> "idle"]
  /\ want = [p \in Programs |-> NoWant]
  /\ delay = FALSE /\ rc = [p \in Programs |-> "none"] /\ commands = 0

Goto(p, place) == pc' = [pc EXCEPT ![p] = place]

\* The command is done, and its result is reported.
Report(p, result) == Goto(p, "done") /\ rc' = [rc EXCEPT ![p] = result]

-----------------------------------------------------------------------------
(* Commands: main of mapiso, DoAttach and DoDetach of ISODrive             *)

\* A command is begun; an attachment looks for the daemon first if it is to
\* start it, as ISODrive's always are.
Begin(p, w) ==
  /\ want' = [want EXCEPT ![p] = w]
  /\ Goto(p, IF w.start THEN "look" ELSE w.kind)
  /\ rc' = [rc EXCEPT ![p] = "none"]
  /\ did' = [did EXCEPT ![p] = "nothing"]
  /\ UNCHANGED <<drives, running, starting, call, lastBy>>

\* mapiso is started once.
Mapiso(p) ==
  /\ p \in Tools /\ pc[p] = "idle"
  /\ \E w \in Commands[p] : Begin(p, w)
  /\ UNCHANGED <<evars, wvars, svars, delay, commands>>

\* The dialogs of ISODrive: a drive of the list is unmounted, or a file mounted.
MountDialog ==
  /\ ui = "loop" /\ commands < MaxCommands
  /\ ui' = "command" /\ commands' = commands + 1
  /\ \E w \in Commands[Gui] :
       /\ w.kind = "detach" => shown[w.drive] # None
       /\ Begin(Gui, w)
  /\ UNCHANGED <<evars, fInUI, shown, todo, messages, svars, delay>>

\* Mutation: the list is only refreshed after an unmount.
CloseAfterMount ==
  IF want[Gui].kind = "attach" THEN PostNothing ELSE PostRefresh

\* The dialog closes, and asks the window to refresh its list.
WmCloseDialog == PostRefresh

DialogDone ==
  /\ ui = "command" /\ pc[Gui] = "done"
  /\ ui' = "loop" /\ Goto(Gui, "idle")
  /\ WmCloseDialog
  /\ want' = [want EXCEPT ![Gui] = NoWant]
  /\ rc' = [rc EXCEPT ![Gui] = "none"] /\ delay' = FALSE
  /\ did' = [did EXCEPT ![Gui] = "nothing"]
  /\ UNCHANGED <<drives, running, starting, call, lastBy, evars, fInUI, shown,
                 todo, svars, commands>>

\* StartDaemon: the daemon is there, or a process is started that may become it.
\* Only ISODrive waits when it has started it.
Look(p) ==
  /\ pc[p] = "look" /\ (ExchangeFree \/ ~running)
  /\ \/ running /\ Goto(p, "attach") /\ UNCHANGED <<starting, delay>>
     \/ /\ ~running /\ starting' = starting + 1
        /\ Goto(p, "poll") /\ delay' = (delay \/ p = Gui)
  /\ UNCHANGED <<drives, running, call, did, lastBy, evars, wvars, svars, want,
                 rc, commands>>

\* The process cannot be started.  ISODrive tries to attach nevertheless.
CannotStart(p) ==
  /\ pc[p] = "look" /\ ~running
  /\ IF p = Gui THEN Goto(p, "attach") /\ delay' = TRUE /\ UNCHANGED rc
     ELSE Report(p, "ERROR_FILE_NOT_FOUND") /\ UNCHANGED delay
  /\ UNCHANGED <<rvars, evars, wvars, svars, want, commands>>

\* The daemon answers in time, or three seconds are over.
Poll(p) ==
  /\ pc[p] = "poll" /\ (ExchangeFree \/ ~running)
  /\ \/ running /\ Goto(p, "attach") /\ UNCHANGED rc
     \/ ~running /\ p = Gui /\ Goto(p, "attach") /\ UNCHANGED rc
     \/ ~running /\ p # Gui /\ Report(p, "ERROR_STUBFSD_DAEMON_NOT_RUN")
  /\ UNCHANGED <<rvars, evars, wvars, svars, want, delay, commands>>

\* DosFSAttach
Send(p) ==
  /\ pc[p] \in {"attach", "detach", "replace", "again"}
  /\ Call(p, IF pc[p] \in {"detach", "replace"} THEN "detach" ELSE "attach",
          want[p].drive, want[p].file)
  /\ Goto(p, CASE pc[p] = "attach"  -> "attached"
               [] pc[p] = "replace" -> "replaced"
               [] OTHER             -> "last")
  /\ UNCHANGED <<drives, running, starting, did, lastBy, evars, wvars,
                 svars, want, delay, rc, commands>>

\* Mutation: a drive that has been replaced counts as attached.
AfterReplacing(p) == Report(p, call[p].rc)

\* Whatever becomes of the old volume, the new one is attached next.
Replaced(p) == Goto(p, "again") /\ UNCHANGED rc

\* What DosFSAttach has returned.  A drive that is in use is detached and
\* attached again; ISODrive tries once more if it has started the daemon.
Receive(p) ==
  /\ call[p].at = "done"
  /\ call' = [call EXCEPT ![p] = NoCall]
  /\ LET result == call[p].rc
     IN  \/ /\ pc[p] = "attached" /\ result = "ERROR_ALREADY_ASSIGNED"
            /\ Goto(p, "replace") /\ UNCHANGED rc
         \/ /\ pc[p] = "attached"
            /\ result \notin {"NO_ERROR", "ERROR_ALREADY_ASSIGNED"}
            /\ p = Gui /\ delay
            /\ Goto(p, "again") /\ UNCHANGED rc
         \/ /\ pc[p] = "attached" /\ result # "ERROR_ALREADY_ASSIGNED"
            /\ result = "NO_ERROR" \/ p # Gui \/ ~delay
            /\ Report(p, result)
         \/ pc[p] = "replaced" /\ Replaced(p)
         \/ pc[p] = "last" /\ Report(p, result)
  /\ UNCHANGED <<drives, running, starting, did, lastBy, evars, wvars,
                 svars, want, delay, commands>>

Program(p) ==
  Look(p) \/ CannotStart(p) \/ Poll(p) \/ Send(p) \/ Receive(p)

Next ==
  \/ \E p \in Programs :
       \/ Program(p)
       \/ Mapiso(p)
       \/ Serve(p) /\ UNCHANGED <<wvars, svars, cvars>>
  \/ (DaemonNext \/ OtherClient) /\ UNCHANGED <<wvars, svars, cvars>>
  \/ (MainThread \/ NotifyThread \/ NotifyError \/ WmClose) /\ UNCHANGED cvars
  \/ MountDialog \/ DialogDone

\* Programs, the kernel, the driver and the daemon go on with what they have
\* begun, and so do both threads of ISODrive.  No user has to do anything, no
\* daemon has to come, and no wait has to fail.
Fairness ==
  /\ \A p \in Programs :
       WF_vars(Program(p)) /\ WF_vars(Serve(p) /\ UNCHANGED <<wvars, svars, cvars>>)
  /\ WF_vars((MainThread /\ UNCHANGED cvars) \/ DialogDone)
  /\ WF_vars(NotifyThread /\ UNCHANGED cvars)

Spec     == Init /\ [][Next]_vars
FairSpec == Spec /\ Fairness

-----------------------------------------------------------------------------
(* Properties                                                              *)

\* Only images are drives or in the list, the kernel carries out one call at a
\* time, every command starts one daemon at most, and the thread has all handles
\* while it waits for events.
TypeOK ==
  /\ drives \in [Drives -> Files \cup {None}]
  /\ \A d \in Drives : drives[d] # None => drives[d] \in Images
  /\ starting \in 0 .. Cardinality(Tools) + commands
  /\ Cardinality({p \in Programs : Inside(p)}) <= 1
  /\ \A p \in Programs : Inside(p) => pc[p] \in {"attached", "replaced", "last"}
  /\ \A d \in Drives : shown[d] \in Images \cup {None}
  /\ messages \in 0 .. MaxMessages
  /\ nt \in {"wait", "event", "then"} => is = Handles

\* A program reports success just if the last thing that the kernel did for it
\* is what was wanted: through the search for a daemon, the replacement of a
\* drive and the second try, with daemons that start late or die
\* (main of mapiso.c, DoAttach).
ReportsTrue ==
  \A p \in Programs :
    pc[p] = "done" => (rc[p] = "NO_ERROR" <=> did[p] = want[p].kind)

\* No handle of ISOSEM is closed twice, whatever ends the thread and whenever
\* the window is closed (EndSem, NotifyThread).
ClosedOnce == \A h \in Handles : closes[h] <= 1

\* After a mount event, the window looks at the drives anew, unless another
\* client has taken the event: no event is lost between the thread's reset and
\* its message, however many come and whatever the main thread is doing.
EventReaches ==
  missed ~> (~missed \/ ui = "ended" \/ nt \notin {"wait", "event", "then"})

\* What ISODrive has done itself to a drive shows in its list, with events or
\* without, unless somebody changes the drive again, or the daemon goes: then
\* the list is empty (WM_CLOSE of the dialogs).
OwnMountShown ==
  \A d \in Drives :
    lastBy[d] = Gui ~> (\/ shown[d] = drives[d] \/ lastBy[d] # Gui
                        \/ ~running \/ ui = "ended")
=============================================================================
