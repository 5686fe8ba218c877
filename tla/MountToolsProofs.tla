-------------------------- MODULE MountToolsProofs --------------------------
(***************************************************************************)
(* Theorems about mapiso and ISODrive, for any number of drives, files and *)
(* processes of mapiso.                                                    *)
(***************************************************************************)
EXTENDS MountTools, FiniteSetTheorems, TLAPS

-----------------------------------------------------------------------------
(* The handles of ISODrive                                                 *)

Closers == {"main", "thread"}

SemTypes ==
  /\ is \subseteq Handles
  /\ closes \in [Handles -> Nat]
  /\ clearing \in [Closers -> Handles \cup {None}]

\* Before StartSem there is nothing, and the thread begins after it.
Beginnings ==
  /\ ~fInUI => /\ nt = "none" /\ is = {} /\ tid = "zero"
               /\ \A h \in Handles : closes[h] = 0
  /\ ui = "StartSem" => ~fInUI
  /\ ui \in {"_beginthread", "is.tid ="} => fInUI
  /\ ui = "_beginthread" => nt = "none" /\ tid = "zero"

\* The main thread cleans up only when there is no other thread.
OneCloser ==
  /\ tid = "minus" => nt \in {"none", "ended"}
  /\ ui = "cleanup" => nt \in {"none", "ended"}
  /\ nt = "ended" => is = {}
  /\ nt # "cleanup" => clearing["thread"] = None
  /\ ui # "cleanup" => clearing["main"] = None

\* A handle that has been closed is no member any more, or is the one that
\* its closer is about to clear.
ClosedAreCleared ==
  \A h \in Handles :
    /\ closes[h] \in {0, 1}
    /\ closes[h] = 1 /\ h \in is => \E who \in Closers : clearing[who] = h

SemInv == SemTypes /\ Beginnings /\ OneCloser /\ ClosedAreCleared

\* One closer at a time closes a handle it has not closed yet.
LEMMA CloserKeeps ==
  ASSUME SemInv, NEW who \in Closers, CloseHandle(who),
         \A other \in Closers \ {who} : clearing[other] = None,
         nt # "ended"
         \/ (who = "main" /\ nt \in {"none", "ended"} /\ ui = "cleanup"),
         who = "thread" => nt = "cleanup", who = "main" => ui = "cleanup", fInUI
  PROVE  SemInv'
<1> USE HandlesAssumption DEF SemInv, Closers
<1>0. UNCHANGED <<ui, fInUI, nt, tid>>
  BY DEF CloseHandle, wvars
<1>1. CASE clearing[who] # None
  <2>1. is' = is \ {clearing[who]} /\ clearing' = [clearing EXCEPT ![who] = None] /\ closes' = closes
    BY <1>1 DEF CloseHandle
  <2>2. SemTypes'
    BY <2>1 DEF SemTypes
  <2>3. Beginnings' /\ OneCloser'
    BY <1>0, <2>1 DEF SemTypes, Beginnings, OneCloser
  <2>4. ClosedAreCleared'
    BY <2>1 DEF SemTypes, ClosedAreCleared
  <2> QED BY <2>2, <2>3, <2>4
<1>2. CASE clearing[who] = None
  <2>1. PICK k \in DOMAIN Order : /\ Order[k] \in is
                                 /\ closes' = [closes EXCEPT ![Order[k]] = @ + 1]
                                 /\ clearing' = [clearing EXCEPT ![who] = Order[k]]
                                 /\ is' = is
    BY <1>2 DEF CloseHandle
  <2>2. Order[k] \in Handles /\ closes[Order[k]] = 0
    <3>1. Order[k] \in Handles
      BY <2>1 DEF SemTypes
    <3>2. \A x \in Closers : clearing[x] # Order[k]
      BY <1>2, <3>1
    <3> QED BY <2>1, <3>1, <3>2 DEF ClosedAreCleared
  <2> DEFINE c == Order[k]
  <2>3. /\ c \in Handles /\ c \in is /\ closes[c] = 0 /\ is' = is
        /\ closes' = [closes EXCEPT ![c] = closes[c] + 1] /\ clearing' = [clearing EXCEPT ![who] = c]
    BY <2>1, <2>2
  <2> HIDE DEF c
  <2>4. SemTypes'
    BY <2>3 DEF SemTypes
  <2>5. Beginnings' /\ OneCloser'
    BY <1>0, <2>3 DEF SemTypes, Beginnings, OneCloser
  <2>6. ClosedAreCleared'
    BY <1>2, <2>3 DEF SemTypes, ClosedAreCleared
  <2> QED BY <2>4, <2>5, <2>6
<1> QED BY <1>1, <1>2

\* Steps of the main thread that have nothing to do with handles
LEMMA WindowGoesOn ==
  ASSUME SemInv, UNCHANGED <<svars, fInUI>>, ui # "cleanup",
         ui' \notin {"_beginthread", "is.tid =", "cleanup"}, ui' = "StartSem" => ~fInUI
  PROVE  SemInv'
BY DEF SemInv, SemTypes, Beginnings, OneCloser, ClosedAreCleared, svars

\* What the main thread and the thread that waits for events do
LEMMA IsodriveStep ==
  ASSUME SemInv, MainThread \/ NotifyThread \/ NotifyError \/ WmClose
  PROVE  SemInv'
<1> USE HandlesAssumption
        DEF SemInv, Closers, SemTypes, Beginnings, OneCloser, svars
<1>1. CASE QueryCurrentDisk \/ IsDaemonRunning \/ QueryFSAttach \/ InitMainList \/ Refresh \/ WmClose
  <2>1. /\ UNCHANGED <<svars, fInUI>> /\ ui # "cleanup"
        /\ ui' \notin {"_beginthread", "is.tid =", "cleanup"} /\ (ui' = "StartSem" => ~fInUI)
    BY <1>1 DEF QueryCurrentDisk, IsDaemonRunning, QueryFSAttach, InitMainList, Refresh, WmClose
  <2> QED BY <2>1, WindowGoesOn
<1>2. CASE StartSem
  <2>1. is' \subseteq Handles
    BY <1>2 DEF StartSem, Handles
  <2> QED BY <1>2, <2>1 DEF StartSem, ClosedAreCleared
<1>3. CASE BeginThread
  BY <1>3 DEF BeginThread, ClosedAreCleared
<1>4. CASE StoreTid \/ PostTerm
  BY <1>4 DEF StoreTid, PostTerm, ClosedAreCleared
<1>5. CASE TestTid
  BY <1>5 DEF TestTid, ClosedAreCleared
<1>6. CASE EndCleanup
  <2>1. CASE ui = "cleanup" /\ CloseHandle("main")
    <3>1. CASE fInUI
      BY <2>1, <3>1, CloserKeeps
    <3>2. CASE ~fInUI
      BY <2>1, <3>2 DEF CloseHandle, Order, wvars, ClosedAreCleared
    <3> QED BY <3>1, <3>2
  <2>2. CASE ~(ui = "cleanup" /\ CloseHandle("main"))
    BY <1>6, <2>2 DEF EndCleanup, AllClosed, ClosedAreCleared
  <2> QED BY <2>1, <2>2
<1>7. CASE Exit
  <2>1. is' = {} /\ closes' = [h \in Handles |-> 0] /\ clearing' = [who \in Closers |-> None]
    BY <1>7 DEF Exit
  <2> QED BY <1>7, <2>1 DEF Exit, ClosedAreCleared
<1>8. CASE NotifyWait \/ NotifyError
  BY <1>8 DEF NotifyWait, NotifyError, Leave, wvars, ClosedAreCleared
<1>9. CASE NotifyEvent
  BY <1>9 DEF NotifyEvent, ClosedAreCleared
<1>10. CASE NotifyCleanup
  <2>1. CASE nt = "cleanup" /\ CloseHandle("thread")
    BY <2>1, CloserKeeps
  <2>2. CASE ~(nt = "cleanup" /\ CloseHandle("thread"))
    BY <1>10, <2>2 DEF NotifyCleanup, AllClosed, wvars, ClosedAreCleared
  <2> QED BY <2>1, <2>2
<1> QED
  BY <1>1, <1>2, <1>3, <1>4, <1>5, <1>6, <1>7, <1>8, <1>9, <1>10 DEF MainThread, NotifyThread

LEMMA SemStep == ASSUME SemInv, [Next]_vars PROVE SemInv'
<1>1. CASE UNCHANGED <<ui, fInUI, svars>>
  BY <1>1 DEF SemInv, SemTypes, Beginnings, OneCloser, ClosedAreCleared, svars
<1>2. CASE MountDialog \/ DialogDone
  <2>1. /\ UNCHANGED <<svars, fInUI>> /\ ui # "cleanup"
        /\ ui' \notin {"_beginthread", "is.tid =", "cleanup", "StartSem"}
    BY <1>2 DEF MountDialog, DialogDone
  <2> QED BY <2>1, WindowGoesOn
<1>3. ASSUME NEW p \in Programs, Program(p) \/ Mapiso(p) PROVE UNCHANGED <<ui, fInUI, svars>>
  BY <1>3 DEF Program, Mapiso, Look, CannotStart, Poll, Send, Receive, wvars
<1>4. CASE MainThread \/ NotifyThread \/ NotifyError \/ WmClose
  BY <1>4, IsodriveStep
<1>5. UNCHANGED wvars /\ UNCHANGED svars => UNCHANGED <<ui, fInUI, svars>>
  BY DEF wvars
<1>6. UNCHANGED vars => UNCHANGED <<ui, fInUI, svars>>
  BY DEF vars, wvars
<1> QED BY <1>1, <1>2, <1>3, <1>4, <1>5, <1>6 DEF Next

\* No handle is closed twice, whatever ends the thread and whenever the window
\* is closed (EndSem, NotifyThread).
THEOREM HandlesClosedOnce == Spec => []ClosedOnce
<1>1. Init => SemInv
  BY HandlesAssumption DEF Init, Init_Isodrive, SemInv, SemTypes, Beginnings, OneCloser,
     ClosedAreCleared, Closers
<1>2. SemInv /\ [Next]_vars => SemInv'
  BY SemStep
<1>3. SemInv => ClosedOnce
  BY DEF SemInv, SemTypes, ClosedAreCleared, ClosedOnce
<1> QED BY <1>1, <1>2, <1>3, PTL DEF Spec

-----------------------------------------------------------------------------
(* What programs report                                                    *)

Kinds    == {"attach", "detach"}
Places   == {"none", "called", "asked", "notified", "answered", "done"}
Resting  == {"idle", "look", "poll", "attach", "detach", "replace", "again", "done"}
Waiting  == {"attached", "replaced", "last"}

Results  == {"none", "NO_ERROR", "ERROR_ALREADY_ASSIGNED", "ERROR_INVALID_DRIVE",
             "ERROR_STUBFSD_DAEMON_NOT_RUN", "ERROR_ISOFS_NOTISO", "ERROR_DRIVE_LOCKED",
             "ERROR_FILE_NOT_FOUND"}

CallRecords == [kind : Kinds \cup {"none"}, drive : Drives \cup {None},
                file : Files \cup {None}, at : Places, rc : Results]

ReportTypes ==
  /\ call \in [Programs -> CallRecords]
  /\ did \in [Programs -> Kinds \cup {"nothing"}]
  /\ want \in [Programs -> [kind : Kinds \cup {"none"}, drive : Drives \cup {None},
                            file : Files \cup {None}, start : BOOLEAN]]
  /\ pc \in [Programs -> Resting \cup Waiting]
  /\ rc \in [Programs -> Results]

\* The call of a program has come back.
Back(p) == call[p].at = "done"

\* What has been done for a program, and what it waits for, at each place.
Told(p) ==
  /\ pc[p] \in Resting => call[p].at = "none"
  /\ pc[p] \in {"look", "poll", "attach", "detach", "replace"} => did[p] = "nothing"
  /\ pc[p] \in {"look", "poll", "attach", "attached", "replace", "replaced", "again"} =>
       want[p].kind = "attach"
  /\ pc[p] = "detach" => want[p].kind = "detach"
  /\ pc[p] = "again" => did[p] # "attach"
  /\ pc[p] = "attached" =>
       /\ call[p].kind = "attach"
       /\ did[p] = IF Back(p) /\ call[p].rc = "NO_ERROR" THEN "attach" ELSE "nothing"
  /\ pc[p] = "replaced" => call[p].kind = "detach" /\ did[p] # "attach"
  /\ pc[p] = "last" =>
       /\ want[p].kind \in Kinds /\ call[p].kind = want[p].kind
       /\ did[p] = want[p].kind <=> Back(p) /\ call[p].rc = "NO_ERROR"
  /\ pc[p] = "done" => (rc[p] = "NO_ERROR" <=> did[p] = want[p].kind)

ReportInv == ReportTypes /\ \A p \in Programs : Told(p)

\* A call that has got to another place
Moved(c, at, r) == [c EXCEPT !.at = at, !.rc = r]

LEMMA MovedIs ==
  ASSUME NEW c \in CallRecords, NEW at \in Places, NEW r \in Results
  PROVE  /\ Moved(c, at, r) \in CallRecords /\ Moved(c, at, r).at = at
         /\ Moved(c, at, r).rc = r /\ Moved(c, at, r).kind = c.kind
BY DEF CallRecords, Moved

\* A step of one program, or of the kernel and the daemon for it
LEMMA OneReports ==
  ASSUME ReportInv, NEW p \in Programs, ReportTypes', Told(p)',
         \A q \in Programs \ {p} : /\ call'[q] = call[q] /\ did'[q] = did[q]
                                  /\ want'[q] = want[q] /\ pc'[q] = pc[q] /\ rc'[q] = rc[q]
  PROVE  ReportInv'
<1>1. ASSUME NEW q \in Programs \ {p} PROVE Told(q)'
  BY <1>1 DEF ReportInv, Told, Back
<1> QED BY <1>1 DEF ReportInv

\* What DosFSAttach does
LEMMA ServeReports ==
  ASSUME ReportInv, NEW p \in Programs, Serve(p), UNCHANGED cvars
  PROVE  ReportInv'
<1> USE DEF cvars
<1>0. ReportTypes /\ Told(p) /\ call[p] \in CallRecords
  BY DEF ReportInv, ReportTypes
<1>1. ASSUME NEW at \in Places \ {"none"}, NEW r \in Results, Moves(p, at, r)
      PROVE  /\ call' \in [Programs -> CallRecords] /\ call'[p].at = at /\ call'[p].rc = r
             /\ call'[p].kind = call[p].kind
             /\ \A q \in Programs \ {p} : call'[q] = call[q]
  <2>1. call' = [call EXCEPT ![p] = Moved(call[p], at, r)]
    BY <1>0, <1>1 DEF Moves, ReportTypes, Moved
  <2> QED BY <1>0, <2>1, MovedIs DEF ReportTypes
<1>2. ASSUME NEW at \in Places \ {"none"}, NEW r \in Results, Moves(p, at, r), UNCHANGED did,
             call[p].at # "none", ~Back(p), at = "done" => r # "NO_ERROR"
      PROVE  ReportInv'
  <2>1. ReportTypes'
    BY <1>0, <1>1, <1>2 DEF ReportTypes
  <2>2. Told(p)'
    BY <1>0, <1>1, <1>2 DEF Told, Back
  <2> QED BY <1>1, <1>2, <2>1, <2>2, OneReports
<1>3. CASE Enter(p)
  <2>1. \E at \in Places \ {"none"}, r \in Results :
          Moves(p, at, r) /\ (at = "done" => r # "NO_ERROR")
    BY <1>3 DEF Enter, Places, Results
  <2> QED BY <1>2, <1>3, <2>1 DEF Enter, Back
<1>4. CASE fsAttach(p)
  <2>1. \E at \in Places \ {"none"}, r \in Results : Moves(p, at, r) /\ at # "done"
    BY <1>4 DEF fsAttach, Places, Results
  <2> QED BY <1>2, <1>4, <2>1 DEF fsAttach, Back
<1>5. CASE RequestDone(p)
  <2>1. call[p].rc \in Results
    BY <1>0 DEF CallRecords
  <2> QED BY <1>2, <1>5, <2>1 DEF RequestDone, Back, Places
<1>6. CASE Note(p)
  <2>1. call[p].rc \in Results /\ call[p].at = "answered" /\ Moves(p, "done", call[p].rc)
    BY <1>0, <1>6 DEF CallRecords, Note
  <2>2. CASE call[p].rc # "NO_ERROR"
    BY <1>2, <1>6, <2>1, <2>2 DEF Note, Back, Places
  <2>3. CASE call[p].rc = "NO_ERROR"
    <3>1. did' = [did EXCEPT ![p] = call[p].kind]
      BY <1>6, <2>3 DEF Note
    <3>2. pc[p] \in Waiting
      BY <1>0, <2>1 DEF ReportTypes, Told
    <3>3. call[p].kind \in Kinds
      BY <1>0, <3>2 DEF Told, Waiting, Kinds
    <3>4. /\ did' \in [Programs -> Kinds \cup {"nothing"}] /\ did'[p] = call[p].kind
          /\ \A q \in Programs \ {p} : did'[q] = did[q]
      BY <1>0, <3>1, <3>3 DEF ReportTypes
    <3>5. /\ call' \in [Programs -> CallRecords] /\ call'[p].at = "done"
          /\ call'[p].rc = "NO_ERROR" /\ call'[p].kind = call[p].kind
          /\ \A q \in Programs \ {p} : call'[q] = call[q]
      BY <1>1, <2>1, <2>3 DEF Places
    <3>6. ReportTypes'
      BY <1>0, <3>4, <3>5 DEF ReportTypes
    <3>7. Told(p)'
      BY <1>0, <3>2, <3>4, <3>5 DEF Told, Back, Waiting, Resting
    <3> QED BY <3>4, <3>5, <3>6, <3>7, OneReports
  <2> QED BY <2>2, <2>3
<1> QED BY <1>3, <1>4, <1>5, <1>6 DEF Serve

\* A daemon that dies fails the calls it was at.
LEMMA DeathReports ==
  ASSUME ReportInv, Die, UNCHANGED cvars
  PROVE  ReportInv'
<1> DEFINE Failed(q) == Moved(call[q], "answered", "ERROR_STUBFSD_DAEMON_NOT_RUN")
<1>1. \A q \in Programs : call[q] \in CallRecords
  BY DEF ReportInv, ReportTypes
<1>2. \A q \in Programs : /\ Failed(q) \in CallRecords /\ Failed(q).at = "answered"
                          /\ Failed(q).kind = call[q].kind
  BY <1>1, MovedIs DEF Places, Results
<1>3. call' = [q \in Programs |-> IF call[q].at \in {"asked", "notified"} THEN Failed(q) ELSE call[q]]
  BY DEF Die, Moved
<1> HIDE DEF Failed
<1>4. /\ call' \in [Programs -> CallRecords]
      /\ \A q \in Programs : \/ call'[q] = call[q]
                             \/ /\ call[q].at \in {"asked", "notified"}
                                /\ call'[q].at = "answered" /\ call'[q].kind = call[q].kind
  BY <1>1, <1>2, <1>3
<1>5. UNCHANGED <<did, pc, want, rc>>
  BY DEF Die, cvars
<1>6. ReportTypes'
  BY <1>4, <1>5 DEF ReportInv, ReportTypes
<1>7. ASSUME NEW q \in Programs PROVE Told(q)'
  <2>1. Told(q)
    BY DEF ReportInv
  <2>2. CASE call'[q] = call[q]
    BY <1>5, <2>1, <2>2 DEF Told, Back
  <2>3. CASE /\ call[q].at \in {"asked", "notified"}
             /\ call'[q].at = "answered" /\ call'[q].kind = call[q].kind
    BY <1>5, <2>1, <2>3 DEF Told, Back
  <2> QED BY <1>4, <2>2, <2>3
<1> QED BY <1>6, <1>7 DEF ReportInv

\* What the programs do with their commands
LEMMA ProgramReports ==
  ASSUME ReportInv, NEW p \in Programs, Program(p)
  PROVE  ReportInv'
<1>0. ReportTypes /\ Told(p) /\ call[p] \in CallRecords
  BY DEF ReportInv, ReportTypes
<1> USE DEF Resting, Waiting, Kinds, Results
\* Between two calls: the program goes on, or reports.
<1>1. ASSUME NEW place \in {"poll", "attach", "done"}, Goto(p, place),
             pc[p] \in {"look", "poll"}, UNCHANGED <<call, did, want>>,
             IF place = "done"
             THEN \E result \in Results \ {"NO_ERROR"} : rc' = [rc EXCEPT ![p] = result]
             ELSE rc' = rc
      PROVE  ReportInv'
  <2>1. /\ pc' = [pc EXCEPT ![p] = place] /\ rc' \in [Programs -> Results]
        /\ place = "done" => rc'[p] # "NO_ERROR"
        /\ \A q \in Programs \ {p} : rc'[q] = rc[q]
    BY <1>0, <1>1 DEF Goto, ReportTypes
  <2>2. ReportTypes' /\ \A q \in Programs \ {p} : pc'[q] = pc[q]
    BY <1>0, <1>1, <2>1 DEF ReportTypes
  <2>3. Told(p)'
    BY <1>0, <1>1, <2>1 DEF Told, ReportTypes
  <2> QED BY <1>1, <2>1, <2>2, <2>3, OneReports
<1>2. CASE Look(p)
  BY <1>1, <1>2 DEF Look
<1>3. CASE CannotStart(p)
  BY <1>1, <1>3 DEF CannotStart, Report, rvars
<1>4. CASE Poll(p)
  BY <1>1, <1>4 DEF Poll, Report, rvars
<1>5. CASE Send(p)
  <2> DEFINE kind  == IF pc[p] \in {"detach", "replace"} THEN "detach" ELSE "attach"
             place == CASE pc[p] = "attach"  -> "attached"
                        [] pc[p] = "replace" -> "replaced"
                        [] OTHER             -> "last"
             c     == [kind |-> kind, drive |-> want[p].drive, file |-> want[p].file,
                       at |-> "called", rc |-> "none"]
  <2>1. /\ pc[p] \in {"attach", "detach", "replace", "again"} /\ call' = [call EXCEPT ![p] = c]
        /\ pc' = [pc EXCEPT ![p] = place] /\ UNCHANGED <<did, want, rc>>
    BY <1>5 DEF Send, Call, Goto
  <2>2. c \in CallRecords
    BY <1>0 DEF ReportTypes, CallRecords, Places
  <2>3. ReportTypes'
    BY <1>0, <2>1, <2>2 DEF ReportTypes
  <2>4. /\ call'[p] = c /\ pc'[p] = place
        /\ \A q \in Programs \ {p} : call'[q] = call[q] /\ pc'[q] = pc[q]
    BY <1>0, <2>1 DEF ReportTypes
  <2>5. Told(p)'
    <3>1. call'[p].at = "called" /\ call'[p].kind = kind
      BY <2>4
    <3>2. CASE pc[p] = "attach"
      BY <1>0, <2>1, <2>4, <3>1, <3>2 DEF Told, Back
    <3>3. CASE pc[p] = "replace"
      BY <1>0, <2>1, <2>4, <3>1, <3>3 DEF Told, Back
    <3>4. CASE pc[p] = "detach"
      BY <1>0, <2>1, <2>4, <3>1, <3>4 DEF Told, Back
    <3>5. CASE pc[p] = "again"
      BY <1>0, <2>1, <2>4, <3>1, <3>5 DEF Told, Back
    <3> QED BY <2>1, <3>2, <3>3, <3>4, <3>5
  <2> HIDE DEF c, place
  <2> QED BY <2>1, <2>3, <2>4, <2>5, OneReports
<1>6. CASE Receive(p)
  <2> DEFINE result == call[p].rc
  <2>1. /\ call[p].at = "done" /\ call' = [call EXCEPT ![p] = NoCall] /\ result \in Results
        /\ UNCHANGED <<did, want>>
    BY <1>0, <1>6 DEF Receive, CallRecords
  <2>2. NoCall \in CallRecords /\ NoCall.at = "none"
    BY DEF NoCall, CallRecords, Places
  <2>3. /\ call' \in [Programs -> CallRecords] /\ call'[p].at = "none"
        /\ \A q \in Programs \ {p} : call'[q] = call[q]
    BY <1>0, <2>1, <2>2 DEF ReportTypes
  <2>4. CASE /\ UNCHANGED rc
             /\ \/ pc[p] = "attached" /\ result # "NO_ERROR" /\ Goto(p, "replace")
                \/ pc[p] = "attached" /\ result # "NO_ERROR" /\ Goto(p, "again")
                \/ pc[p] = "replaced" /\ Goto(p, "again")
    <3>1. PICK place \in {"replace", "again"} : pc' = [pc EXCEPT ![p] = place]
      BY <2>4 DEF Goto
    <3>2. ReportTypes' /\ pc'[p] = place /\ \A q \in Programs \ {p} : pc'[q] = pc[q]
      BY <1>0, <2>1, <2>3, <2>4, <3>1 DEF ReportTypes
    <3>3. place = "replace" => pc[p] = "attached" /\ result # "NO_ERROR"
      BY <1>0, <2>4, <3>1 DEF Goto, ReportTypes
    <3>4. Told(p)'
      BY <1>0, <2>1, <2>3, <2>4, <3>2, <3>3 DEF Told, Back
    <3> QED BY <2>1, <2>3, <2>4, <3>2, <3>4, OneReports
  <2>5. CASE pc[p] \in {"attached", "last"} /\ Report(p, result)
    <3>1. /\ pc' = [pc EXCEPT ![p] = "done"] /\ rc' = [rc EXCEPT ![p] = result]
      BY <2>5 DEF Report, Goto
    <3>2. ReportTypes' /\ \A q \in Programs \ {p} : pc'[q] = pc[q] /\ rc'[q] = rc[q]
      BY <1>0, <2>1, <2>3, <3>1 DEF ReportTypes
    <3>3. pc'[p] = "done" /\ rc'[p] = result
      BY <1>0, <3>1 DEF ReportTypes
    <3>4. Told(p)'
      BY <1>0, <2>1, <2>3, <2>5, <3>3 DEF Told, Back
    <3> QED BY <2>1, <2>3, <3>2, <3>4, OneReports
  <2> QED BY <1>6, <2>4, <2>5 DEF Receive, Replaced
<1> QED BY <1>2, <1>3, <1>4, <1>5, <1>6 DEF Program

\* A user begins a command of mapiso or of ISODrive.
LEMMA BeginReports ==
  ASSUME ReportInv, NEW p \in Programs, NEW w \in Commands[p], Begin(p, w), pc[p] \in Resting
  PROVE  ReportInv'
<1>0. ReportTypes /\ Told(p)
  BY DEF ReportInv
<1>1. /\ w \in [kind : Kinds, drive : Drives, file : Files \cup {None}, start : BOOLEAN]
      /\ w.start => w.kind = "attach"
  BY CommandsAssumption DEF Kinds
<1> DEFINE place == IF w.start THEN "look" ELSE w.kind
<1>2. /\ want' = [want EXCEPT ![p] = w] /\ pc' = [pc EXCEPT ![p] = place]
      /\ rc' = [rc EXCEPT ![p] = "none"] /\ did' = [did EXCEPT ![p] = "nothing"]
      /\ UNCHANGED call
  BY DEF Begin, Goto
<1>3. /\ place \in {"look", "attach", "detach"}
      /\ place = "look" => w.kind = "attach"
      /\ place # "look" => place = w.kind
  BY <1>1 DEF Kinds
<1> HIDE DEF place
<1>4. ReportTypes'
  BY <1>0, <1>1, <1>2, <1>3 DEF ReportTypes, Kinds, Resting, Results
<1>5. /\ want'[p] = w /\ pc'[p] = place /\ did'[p] = "nothing"
      /\ \A q \in Programs \ {p} : /\ want'[q] = want[q] /\ pc'[q] = pc[q] /\ rc'[q] = rc[q]
                                 /\ did'[q] = did[q]
  BY <1>0, <1>2 DEF ReportTypes
<1>6. Told(p)'
  <2>1. call'[p].at = "none" /\ want'[p].kind = w.kind
    BY <1>0, <1>2, <1>5 DEF Told
  <2>2. place = "attach" \/ place = "look" => w.kind = "attach"
    BY <1>3
  <2>3. place = "detach" => w.kind = "detach"
    BY <1>3
  <2> QED BY <1>3, <1>5, <2>1, <2>2, <2>3 DEF Told
<1> QED BY <1>2, <1>4, <1>5, <1>6, OneReports

\* ISODrive carries out a command within one message of its main thread.
OneCommand == ui # "command" => pc[Gui] = "idle"

LEMMA OneCommandStep == ASSUME ReportInv, OneCommand, [Next]_vars PROVE OneCommand'
<1> USE GuiAssumption DEF OneCommand, Programs, ReportInv, ReportTypes
<1>1. ASSUME NEW p \in Programs, Program(p) PROVE OneCommand'
  <2>1. UNCHANGED ui /\ pc[p] # "idle" /\ \E place : pc' = [pc EXCEPT ![p] = place]
    <3>1. UNCHANGED ui
      BY <1>1 DEF Program, Look, CannotStart, Poll, Send, Receive, wvars
    <3>2. \E place : pc' = [pc EXCEPT ![p] = place]
      <4>1. CASE \E place : Goto(p, place)
        BY <4>1 DEF Goto
      <4>2. Program(p) => \E place : Goto(p, place)
        BY DEF Program, Look, CannotStart, Poll, Send, Receive, Report, Replaced
      <4> QED BY <1>1, <4>1, <4>2
    <3>3. pc[p] # "idle"
      <4>1. Told(p)
        OBVIOUS
      <4> QED BY <1>1, <4>1 DEF Program, Look, CannotStart, Poll, Send, Receive, Told, Resting
    <3> QED BY <3>1, <3>2, <3>3
  <2> QED BY <2>1
<1>2. ASSUME NEW p \in Programs, Mapiso(p) PROVE OneCommand'
  <2>1. p \in Tools /\ UNCHANGED ui /\ \E place : pc' = [pc EXCEPT ![p] = place]
    BY <1>2 DEF Mapiso, Begin, Goto, wvars
  <2> QED BY <2>1
<1>3. CASE MountDialog
  BY <1>3 DEF MountDialog
<1>4. CASE DialogDone
  BY <1>4 DEF DialogDone, Goto
<1>5. CASE UNCHANGED <<wvars, cvars>>
  BY <1>5 DEF wvars, cvars
<1>6. CASE (MainThread \/ WmClose) /\ UNCHANGED cvars
  <2>1. ui # "command"
    BY <1>6 DEF MainThread, WmClose, QueryCurrentDisk, IsDaemonRunning, QueryFSAttach, InitMainList,
       StartSem, BeginThread, StoreTid, Refresh, PostTerm, TestTid, EndCleanup, Exit
  <2> QED BY <1>6, <2>1 DEF cvars
<1>7. CASE (NotifyThread \/ NotifyError) /\ UNCHANGED cvars
  <2>1. UNCHANGED ui
    BY <1>7 DEF NotifyThread, NotifyError, NotifyWait, NotifyEvent, NotifyCleanup, CloseHandle, wvars
  <2> QED BY <1>7, <2>1 DEF cvars
<1> QED BY <1>1, <1>2, <1>3, <1>4, <1>5, <1>6, <1>7 DEF Next, vars

LEMMA ReportStep == ASSUME ReportInv, OneCommand, [Next]_vars PROVE ReportInv'
<1>1. CASE UNCHANGED <<call, did, want, pc, rc>>
  BY <1>1 DEF ReportInv, ReportTypes, Told, Back
<1>2. ASSUME NEW p \in Programs, Mapiso(p) PROVE ReportInv'
  <2>1. pc[p] \in Resting /\ \E w \in Commands[p] : Begin(p, w)
    BY <1>2 DEF Mapiso, Resting
  <2> QED BY <2>1, BeginReports
<1>3. CASE MountDialog
  <2>1. PICK w \in Commands[Gui] : Begin(Gui, w)
    BY <1>3 DEF MountDialog
  <2>2. pc[Gui] \in Resting /\ Gui \in Programs
    BY <1>3 DEF MountDialog, OneCommand, Resting, Programs
  <2> QED BY <2>1, <2>2, BeginReports
<1>4. CASE DialogDone
  <2>1. /\ pc[Gui] = "done" /\ pc' = [pc EXCEPT ![Gui] = "idle"] /\ UNCHANGED call
        /\ want' = [want EXCEPT ![Gui] = NoWant] /\ rc' = [rc EXCEPT ![Gui] = "none"]
        /\ did' = [did EXCEPT ![Gui] = "nothing"]
    BY <1>4 DEF DialogDone, Goto
  <2>2. Gui \in Programs /\ ReportTypes /\ Told(Gui)
    BY DEF Programs, ReportInv
  <2>3. NoWant \in [kind : Kinds \cup {"none"}, drive : Drives \cup {None},
                    file : Files \cup {None}, start : BOOLEAN]
    BY DEF NoWant
  <2>4. ReportTypes'
    BY <2>1, <2>2, <2>3 DEF ReportTypes, Kinds, Resting, Results
  <2>5. /\ pc'[Gui] = "idle" /\ call'[Gui].at = "none"
        /\ \A q \in Programs \ {Gui} : /\ want'[q] = want[q] /\ pc'[q] = pc[q] /\ rc'[q] = rc[q]
                                     /\ did'[q] = did[q]
    BY <2>1, <2>2 DEF ReportTypes, Told, Resting
  <2>6. Told(Gui)'
    BY <2>5 DEF Told
  <2> QED BY <2>1, <2>2, <2>4, <2>5, <2>6, OneReports
<1>5. CASE (DaemonNext \/ OtherClient) /\ UNCHANGED <<wvars, svars, cvars>>
  <2>1. CASE Die
    BY <1>5, <2>1, DeathReports
  <2>2. CASE Announce \/ Quit \/ OtherClient
    BY <1>1, <1>5, <2>2 DEF Announce, Quit, OtherClient, rvars, cvars
  <2> QED BY <1>5, <2>1, <2>2 DEF DaemonNext
<1>6. CASE (MainThread \/ NotifyThread \/ NotifyError \/ WmClose) /\ UNCHANGED cvars
  <2>1. UNCHANGED <<call, did>>
    BY <1>6 DEF MainThread, NotifyThread, NotifyError, WmClose, QueryCurrentDisk, IsDaemonRunning,
       QueryFSAttach, InitMainList, StartSem, BeginThread, StoreTid, Refresh, PostTerm, TestTid,
       EndCleanup, Exit, NotifyWait, NotifyEvent, NotifyCleanup, CloseHandle, rvars
  <2> QED BY <1>1, <1>6, <2>1 DEF cvars
<1>7. CASE UNCHANGED vars
  BY <1>1, <1>7 DEF vars, rvars, cvars
<1> QED
  BY <1>2, <1>3, <1>4, <1>5, <1>6, <1>7, ProgramReports, ServeReports DEF Next

\* Programs report success just if the last thing the kernel did for them is
\* what was wanted (main of mapiso.c, DoAttach).
THEOREM ReportsAreTrue == Spec => []ReportsTrue
<1>1. Init => ReportInv /\ OneCommand
  BY DEF OneCommand, Programs, Init, Init_Requests, NoCall, NoWant, ReportInv, ReportTypes, CallRecords, Told, Back, Kinds,
     Places, Resting, Results
<1>2. ReportInv /\ OneCommand /\ [Next]_vars => (ReportInv /\ OneCommand)'
  BY ReportStep, OneCommandStep
<1>3. ReportInv => ReportsTrue
  BY DEF ReportInv, Told, ReportsTrue
<1> QED BY <1>1, <1>2, <1>3, PTL DEF Spec

-----------------------------------------------------------------------------
(* Drives, the list in the window, daemons that start, and the thread      *)

\* The thread that waits for events begins with all handles, and only its own
\* end or the end of the process takes them away.
ThreadHolds ==
  /\ ui = "_beginthread" => is = Handles
  /\ nt \in {"wait", "event", "then"} => is = Handles

LEMMA ThreadStep == ASSUME SemInv, ThreadHolds, [Next]_vars PROVE ThreadHolds'
<1> USE DEF ThreadHolds
<1>1. CASE UNCHANGED <<ui, is, nt>>
  BY <1>1
<1>2. CASE MountDialog \/ DialogDone
  BY <1>2 DEF MountDialog, DialogDone, svars
<1>3. ASSUME NEW p \in Programs, Program(p) \/ Mapiso(p) PROVE UNCHANGED <<ui, is, nt>>
  BY <1>3 DEF Program, Mapiso, Look, CannotStart, Poll, Send, Receive, wvars, svars
<1>4. CASE MainThread \/ WmClose
  <2>1. CASE QueryCurrentDisk \/ IsDaemonRunning \/ QueryFSAttach \/ InitMainList \/ Refresh \/ WmClose
             \/ StoreTid \/ PostTerm \/ TestTid
    BY <2>1 DEF QueryCurrentDisk, IsDaemonRunning, QueryFSAttach, InitMainList, Refresh, WmClose,
       StoreTid, PostTerm, TestTid, svars
  <2>2. CASE StartSem
    <3>1. nt = "none"
      BY <2>2 DEF StartSem, SemInv, Beginnings
    <3> QED BY <2>2, <3>1 DEF StartSem
  <2>3. CASE BeginThread
    BY <2>3 DEF BeginThread
  <2>4. CASE EndCleanup
    <3>1. ui = "cleanup" /\ nt \in {"none", "ended"}
      BY <2>4 DEF EndCleanup, SemInv, OneCloser
    <3>2. nt' = nt /\ ui' \in {"cleanup", "exit"}
      BY <2>4 DEF EndCleanup, CloseHandle, svars, wvars
    <3> QED BY <3>1, <3>2
  <2>5. CASE Exit
    BY <2>5 DEF Exit
  <2> QED BY <1>4, <2>1, <2>2, <2>3, <2>4, <2>5 DEF MainThread
<1>5. CASE NotifyThread \/ NotifyError
  <2>1. CASE NotifyWait \/ NotifyError \/ NotifyEvent
    BY <2>1 DEF NotifyWait, NotifyError, NotifyEvent, Leave, wvars
  <2>2. CASE NotifyCleanup
    <3>1. nt = "cleanup" /\ ui' = ui /\ nt' \in {"cleanup", "ended"}
      BY <2>2 DEF NotifyCleanup, CloseHandle, wvars
    <3>2. ui # "_beginthread"
      BY <3>1 DEF SemInv, Beginnings
    <3> QED BY <3>1, <3>2
  <2> QED BY <1>5, <2>1, <2>2 DEF NotifyThread
<1>6. UNCHANGED wvars /\ UNCHANGED svars => UNCHANGED <<ui, is, nt>>
  BY DEF wvars, svars
<1>7. UNCHANGED vars => UNCHANGED <<ui, is, nt>>
  BY DEF vars, wvars, svars
<1> QED BY <1>1, <1>2, <1>3, <1>4, <1>5, <1>6, <1>7 DEF Next

\* The processes of mapiso that may yet start a daemon
Yet  == {p \in Tools : pc[p] \in {"idle", "look"}}
Gate == IF pc[Gui] = "look" THEN 1 ELSE 0

\* Every command starts one daemon at most.
StartInv ==
  /\ starting \in Nat /\ commands \in Nat
  /\ starting + Cardinality(Yet) + Gate <= Cardinality(Tools) + commands

LEMMA YetIsFinite == IsFiniteSet(Yet) /\ Cardinality(Yet) \in Nat /\ Cardinality(Tools) \in Nat
<1>1. Yet \subseteq Tools /\ IsFiniteSet(Tools)
  BY ToolsAssumption DEF Yet
<1>2. IsFiniteSet(Yet)
  BY <1>1, FS_Subset
<1>3. Cardinality(Yet) \in Nat
  BY <1>2, FS_CardinalityType
<1>4. Cardinality(Tools) \in Nat
  BY <1>1, FS_CardinalityType
<1> QED BY <1>2, <1>3, <1>4

\* A step that starts no daemon
LEMMA NoneStarted ==
  ASSUME StartInv, Yet' \subseteq Yet, Gate' \in Nat, starting' \in Nat, commands' \in Nat,
         Gate' + starting' + commands <= Gate + starting + commands'
  PROVE  StartInv'
<1>1. IsFiniteSet(Yet) /\ Cardinality(Yet) \in Nat /\ Cardinality(Tools) \in Nat
  BY YetIsFinite
<1>2. Cardinality(Yet') <= Cardinality(Yet) /\ Cardinality(Yet') \in Nat
  <2>1. IsFiniteSet(Yet')
    BY <1>1, FS_Subset
  <2>2. Cardinality(Yet') <= Cardinality(Yet)
    BY <1>1, FS_Subset
  <2>3. Cardinality(Yet') \in Nat
    BY <2>1, FS_CardinalityType
  <2> QED BY <2>2, <2>3
<1> DEFINE y == Cardinality(Yet)
           z == Cardinality(Yet')
<1>3. /\ y \in Nat /\ z \in Nat /\ z <= y /\ Cardinality(Tools) \in Nat /\ Gate \in Nat
      /\ starting + y + Gate <= Cardinality(Tools) + commands
  BY <1>1, <1>2 DEF StartInv, Gate
<1>4. /\ starting \in Nat /\ commands \in Nat /\ starting' \in Nat /\ commands' \in Nat
      /\ Gate' \in Nat /\ Gate' + starting' + commands <= Gate + starting + commands'
  BY DEF StartInv
<1>5. ASSUME NEW t \in Nat, NEW k \in Nat, NEW l \in Nat, NEW g \in Nat, NEW h \in Nat,
             NEW c \in Nat, NEW d \in Nat, NEW s \in Nat, NEW r \in Nat,
             s + k + g <= t + c, l <= k, h + r + c <= g + s + d
      PROVE  r + l + h <= t + d
  BY <1>5
<1>6. starting' + z + Gate' <= Cardinality(Tools) + commands'
  <2> HIDE DEF y, z
  <2> QED BY <1>3, <1>4, <1>5
<1> QED BY <1>4, <1>6 DEF StartInv

\* What a step may change
LEMMA Weigh ==
  ASSUME NEW g \in Nat, NEW h \in Nat, NEW s \in Nat, NEW r \in Nat, NEW c \in Nat, NEW d \in Nat,
         \/ h <= g /\ r <= s /\ d = c
         \/ h <= g + 1 /\ r = s /\ d = c + 1
  PROVE  h + r + c <= g + s + d
OBVIOUS

LEMMA StartStep == ASSUME ReportInv, OneCommand, StartInv, [Next]_vars PROVE StartInv'
<1> USE GuiAssumption DEF Programs
<1>0. pc \in [Programs -> Resting \cup Waiting] /\ starting \in Nat /\ commands \in Nat
  BY DEF ReportInv, ReportTypes, StartInv
<1>1. CASE UNCHANGED <<pc, commands>> /\ starting' \in Nat /\ starting' <= starting
  <2>1. Yet' \subseteq Yet /\ Gate' = Gate /\ Gate \in Nat
    BY <1>1 DEF Yet, Gate
  <2>2. Gate' + starting' + commands <= Gate + starting + commands'
    <3>1. commands' = commands /\ commands' \in Nat /\ Gate' \in Nat /\ Gate' <= Gate
      BY <1>0, <1>1, <2>1
    <3> QED BY <1>0, <1>1, <2>1, <3>1, Weigh
  <2> QED BY <1>0, <1>1, <2>1, <2>2, NoneStarted
\* A program goes on.
<1>2. ASSUME NEW p \in Programs, NEW place, pc' = [pc EXCEPT ![p] = place],
             place \notin {"idle", "look"}, UNCHANGED <<starting, commands>>
      PROVE  StartInv'
  <2>1. Yet' \subseteq Yet
    BY <1>0, <1>2 DEF Yet
  <2>2. Gate' <= Gate /\ Gate \in Nat /\ Gate' \in Nat
    BY <1>0, <1>2 DEF Gate
  <2>3. Gate' + starting' + commands <= Gate + starting + commands'
    <3>1. starting' = starting /\ commands' = commands
      BY <1>2
    <3>2. starting' <= starting
      BY <1>0, <3>1
    <3> QED BY <1>0, <2>2, <3>1, <3>2, Weigh
  <2> QED BY <1>0, <1>2, <2>1, <2>2, <2>3, NoneStarted
<1>3. ASSUME NEW p \in Programs, Look(p) PROVE StartInv'
  <2>1. CASE running
    <3>1. pc' = [pc EXCEPT ![p] = "attach"] /\ UNCHANGED <<starting, commands>>
      BY <1>3, <2>1 DEF Look, Goto
    <3>2. "attach" \notin {"idle", "look"}
      OBVIOUS
    <3> HIDE DEF Programs
    <3> QED BY <1>2, <1>3, <3>1, <3>2
  <2>2. CASE ~running
    <3>1. /\ pc[p] = "look" /\ pc' = [pc EXCEPT ![p] = "poll"] /\ starting' = starting + 1
          /\ commands' = commands
      BY <1>3, <2>2 DEF Look, Goto
    <3>2. IsFiniteSet(Yet) /\ Cardinality(Yet) \in Nat /\ Cardinality(Tools) \in Nat
      BY YetIsFinite
    <3>3. CASE p \in Tools
      <4>1. p \in Yet /\ Yet' = Yet \ {p} /\ Gate' = Gate
        BY <1>0, <3>1, <3>3 DEF Yet, Gate
      <4>2. Cardinality(Yet \ {p}) = Cardinality(Yet) - 1
        BY <3>2, <4>1, FS_RemoveElement
      <4>3. Gate \in Nat
        BY DEF Gate
      <4> QED BY <1>0, <3>1, <3>2, <4>1, <4>2, <4>3 DEF StartInv
    <3>4. CASE p = Gui
      <4>1. Yet' = Yet /\ Gate = 1 /\ Gate' = 0
        BY <1>0, <3>1, <3>4 DEF Yet, Gate
      <4> QED BY <1>0, <3>1, <3>2, <4>1 DEF StartInv
    <3> QED BY <3>3, <3>4
  <2> QED BY <2>1, <2>2
<1>4. ASSUME NEW p \in Programs, Program(p) PROVE StartInv'
  <2>1. CASE CannotStart(p) \/ Poll(p) \/ Send(p) \/ Receive(p)
    <3>1. UNCHANGED <<starting, commands>>
      BY <2>1 DEF CannotStart, Poll, Send, Receive, rvars
    <3>2. \E place \in {"attach", "done", "attached", "replaced", "last", "replace", "again"} :
            Goto(p, place)
      BY <2>1 DEF CannotStart, Poll, Send, Receive, Report, Replaced
    <3> QED BY <1>2, <3>1, <3>2 DEF Goto
  <2> QED BY <1>3, <1>4, <2>1 DEF Program
<1>5. ASSUME NEW p \in Programs, Mapiso(p) PROVE StartInv'
  <2>1. /\ p \in Tools /\ pc[p] = "idle" /\ UNCHANGED <<starting, commands>>
        /\ \E place : pc' = [pc EXCEPT ![p] = place]
    BY <1>5 DEF Mapiso, Begin, Goto
  <2>2. Yet' \subseteq Yet /\ Gate' = Gate /\ Gate \in Nat
    BY <1>0, <2>1 DEF Yet, Gate
  <2> QED BY <1>0, <2>1, <2>2, NoneStarted
<1>6. CASE MountDialog
  <2>1. /\ commands' = commands + 1 /\ starting' = starting
        /\ \E place : pc' = [pc EXCEPT ![Gui] = place]
    BY <1>6 DEF MountDialog, Begin, Goto
  <2>2. Yet' \subseteq Yet /\ Gate' \in {0, 1} /\ Gate \in Nat
    BY <1>0, <2>1 DEF Yet, Gate
  <2>3. commands' \in Nat /\ Gate' \in Nat /\ Gate' <= Gate + 1
    BY <1>0, <2>1, <2>2
  <2>4. Gate' + starting' + commands <= Gate + starting + commands'
    BY <1>0, <2>1, <2>2, <2>3, Weigh
  <2> QED BY <1>0, <2>1, <2>2, <2>3, <2>4, NoneStarted
<1>7. CASE DialogDone
  <2>1. pc' = [pc EXCEPT ![Gui] = "idle"] /\ UNCHANGED <<starting, commands>>
    BY <1>7 DEF DialogDone, Goto
  <2>2. Yet' \subseteq Yet /\ Gate' = 0 /\ Gate \in Nat
    BY <1>0, <2>1 DEF Yet, Gate
  <2> QED BY <1>0, <2>1, <2>2, NoneStarted
<1>8. CASE (DaemonNext \/ OtherClient) /\ UNCHANGED <<wvars, svars, cvars>>
  <2>1. starting' = starting \/ (starting > 0 /\ starting' = starting - 1)
    BY <1>8 DEF DaemonNext, Announce, Quit, Die, OtherClient, rvars
  <2>2. starting' \in Nat /\ starting' <= starting
    BY <1>0, <2>1
  <2>3. UNCHANGED <<pc, commands>>
    BY <1>8 DEF cvars
  <2> QED BY <1>1, <2>2, <2>3
<1>9. CASE (MainThread \/ NotifyThread \/ NotifyError \/ WmClose) /\ UNCHANGED cvars
  <2>1. UNCHANGED starting
    BY <1>9 DEF MainThread, NotifyThread, NotifyError, WmClose, QueryCurrentDisk, IsDaemonRunning,
       QueryFSAttach, InitMainList, StartSem, BeginThread, StoreTid, Refresh, PostTerm, TestTid,
       EndCleanup, Exit, NotifyWait, NotifyEvent, NotifyCleanup, CloseHandle, rvars
  <2> QED BY <1>0, <1>1, <1>9, <2>1 DEF cvars
<1>10. ASSUME NEW p \in Programs, Serve(p), UNCHANGED cvars PROVE StartInv'
  <2>1. UNCHANGED starting
    BY <1>10 DEF Serve, Enter, fsAttach, RequestDone, Note
  <2> QED BY <1>0, <1>1, <1>10, <2>1 DEF cvars
<1>11. CASE UNCHANGED vars
  BY <1>0, <1>1, <1>11 DEF vars, rvars, cvars
<1> QED BY <1>4, <1>5, <1>6, <1>7, <1>8, <1>9, <1>10, <1>11 DEF Next

\* What is attached is an image.
Accepted(c) ==
  c.kind = "attach" /\ (c.at = "notified" \/ (c.at = "answered" /\ c.rc = "NO_ERROR")) =>
    c.file \in Images

\* Only images are drives, the list shows drives, and the kernel carries out
\* one call at a time.
DriveInv ==
  /\ drives \in [Drives -> Images \cup {None}]
  /\ shown \in [Drives -> Images \cup {None}]
  /\ messages \in 0 .. MaxMessages
  /\ \A p \in Programs :
       /\ want[p].kind \in Kinds => want[p].drive \in Drives
       /\ call[p].at # "none" => call[p].drive \in Drives
       /\ Accepted(call[p])
  /\ \A p, q \in Programs : Inside(p) /\ Inside(q) => p = q

\* The kernel and the daemon go on with one call.
LEMMA ServeDrives ==
  ASSUME ReportInv, DriveInv, NEW p \in Programs, Serve(p), UNCHANGED <<wvars, cvars>>
  PROVE  DriveInv'
<1> USE DEF DriveInv
<1>0. /\ call[p] \in CallRecords /\ call \in [Programs -> CallRecords]
      /\ UNCHANGED <<shown, messages, want>>
  BY DEF ReportInv, ReportTypes, wvars, cvars
\* The call moves on, and is inside if nobody else is.
<1>1. ASSUME NEW at \in Places \ {"none"}, NEW r, Moves(p, at, r), call[p].at # "none",
             drives' \in [Drives -> Images \cup {None}],
             at \in {"asked", "notified", "answered"} => KernelFree \/ Inside(p),
             call[p].kind = "attach" /\ (at = "notified" \/ (at = "answered" /\ r = "NO_ERROR")) =>
               call[p].file \in Images
      PROVE  DriveInv'
  <2>1. /\ call'[p] = Moved(call[p], at, r)
        /\ \A q \in Programs \ {p} : call'[q] = call[q]
    BY <1>0, <1>1 DEF Moves, Moved
  <2>2. /\ call'[p].at = at /\ call'[p].rc = r /\ call'[p].kind = call[p].kind
        /\ call'[p].drive = call[p].drive /\ call'[p].file = call[p].file
    BY <1>0, <2>1 DEF CallRecords, Moved
  <2> QED BY <1>0, <1>1, <2>1, <2>2 DEF Accepted, Inside, KernelFree
<1>2. /\ call[p].at # "none" => call[p].drive \in Drives
      /\ Accepted(call[p]) /\ drives \in [Drives -> Images \cup {None}]
  OBVIOUS
<1> HIDE DEF DriveInv
<1>3. CASE Enter(p)
  <2>1. call[p].at # "none" /\ KernelFree /\ drives' = drives
    BY <1>3 DEF Enter
  <2>2. PICK at \in Places \ {"none"}, r \in Results :
          /\ Moves(p, at, r) /\ at # "notified"
          /\ at = "answered" /\ r = "NO_ERROR" => call[p].kind = "detach"
    BY <1>3 DEF Enter, Places, Results
  <2> QED BY <1>1, <1>2, <2>1, <2>2
<1>4. CASE fsAttach(p)
  <2>1. call[p].at # "none" /\ Inside(p) /\ drives' = drives
    BY <1>4 DEF fsAttach, Inside
  <2>2. PICK at \in Places \ {"none"}, r \in Results :
          /\ Moves(p, at, r)
          /\ at = "notified" => Attachable(call[p])
          /\ at = "answered" => r # "NO_ERROR"
    BY <1>4 DEF fsAttach, Places, Results
  <2> QED BY <1>1, <1>2, <2>1, <2>2 DEF Attachable
<1>5. CASE RequestDone(p)
  <2>1. /\ call[p].at = "notified" /\ Inside(p) /\ drives' = drives
        /\ Moves(p, "answered", call[p].rc)
    BY <1>5 DEF RequestDone, Inside
  <2>2. "answered" \in Places \ {"none"}
    BY DEF Places
  <2> QED BY <1>1, <1>2, <2>1, <2>2 DEF Accepted
<1>6. CASE Note(p)
  <2>1. call[p].at = "answered" /\ Moves(p, "done", call[p].rc)
    BY <1>6 DEF Note
  <2>2. drives' \in [Drives -> Images \cup {None}]
    <3>1. CASE call[p].rc # "NO_ERROR"
      BY <1>2, <1>6, <3>1 DEF Note
    <3>2. CASE call[p].rc = "NO_ERROR"
      <4>1. (IF call[p].kind = "attach" THEN call[p].file ELSE None) \in Images \cup {None}
        BY <1>2, <2>1, <3>2 DEF Accepted
      <4>2. drives' = [drives EXCEPT ![call[p].drive] =
                         IF call[p].kind = "attach" THEN call[p].file ELSE None]
        BY <1>6, <3>2 DEF Note
      <4> QED BY <1>2, <4>1, <4>2
    <3> QED BY <3>1, <3>2
  <2>3. "done" \in Places \ {"none"}
    BY DEF Places
  <2> QED BY <1>1, <2>1, <2>2, <2>3
<1> QED BY <1>3, <1>4, <1>5, <1>6 DEF Serve

\* A program calls DosFSAttach, or takes what it has returned.
LEMMA ProgramDrives ==
  ASSUME ReportInv, DriveInv, NEW p \in Programs, Program(p)
  PROVE  DriveInv'
<1> USE DEF DriveInv
<1>0. /\ call[p] \in CallRecords /\ call \in [Programs -> CallRecords] /\ Told(p)
      /\ want[p] \in [kind : Kinds \cup {"none"}, drive : Drives \cup {None},
                      file : Files \cup {None}, start : BOOLEAN]
  BY DEF ReportInv, ReportTypes
<1>1. UNCHANGED <<drives, shown, messages, want>>
  BY DEF Program, Look, CannotStart, Poll, Send, Receive, rvars, wvars
<1>2. ASSUME NEW c, call' = [call EXCEPT ![p] = c], c.at \in {"none", "called"},
             c.at # "none" => c.drive \in Drives
      PROVE  DriveInv'
  <2>1. call'[p] = c /\ \A q \in Programs \ {p} : call'[q] = call[q]
    BY <1>0, <1>2
  <2> QED BY <1>1, <1>2, <2>1 DEF Accepted, Inside
<1>3. CASE Look(p) \/ CannotStart(p) \/ Poll(p)
  <2>1. call' = call
    BY <1>3 DEF Look, CannotStart, Poll, rvars
  <2> QED BY <1>1, <2>1 DEF Inside, Accepted
<1>4. CASE Send(p)
  <2> DEFINE c == [kind |-> IF pc[p] \in {"detach", "replace"} THEN "detach" ELSE "attach",
                   drive |-> want[p].drive, file |-> want[p].file, at |-> "called", rc |-> "none"]
  <2>1. call' = [call EXCEPT ![p] = c] /\ pc[p] \in {"attach", "detach", "replace", "again"}
    BY <1>4 DEF Send, Call
  <2>2. want[p].kind \in Kinds
    BY <1>0, <2>1 DEF Told, Kinds
  <2>3. c.at = "called" /\ c.drive \in Drives
    BY <2>2
  <2> HIDE DEF c
  <2> QED BY <1>2, <2>1, <2>3
<1>5. CASE Receive(p)
  <2>1. call' = [call EXCEPT ![p] = NoCall] /\ NoCall.at = "none"
    BY <1>5 DEF Receive, NoCall
  <2> QED BY <1>2, <2>1
<1> QED BY <1>3, <1>4, <1>5 DEF Program

\* A command begins, or its dialog ends.
LEMMA WantDrives ==
  ASSUME ReportInv, DriveInv, NEW p \in Programs, NEW w, want' = [want EXCEPT ![p] = w],
         w.kind \in Kinds => w.drive \in Drives, UNCHANGED <<drives, call, shown>>,
         messages' \in 0 .. MaxMessages
  PROVE  DriveInv'
<1>1. want'[p] = w /\ \A q \in Programs \ {p} : want'[q] = want[q]
  BY DEF ReportInv, ReportTypes
<1> QED BY <1>1 DEF DriveInv, Accepted, Inside

LEMMA DriveStep ==
  ASSUME ReportInv, DriveInv, [Next]_vars PROVE DriveInv'
<1> USE ToolsAssumption DEF DriveInv
<1>0. messages \in Nat
  OBVIOUS
<1>1. ASSUME NEW w, w \in [kind : Kinds, drive : Drives, file : Files \cup {None}, start : BOOLEAN]
      PROVE  w.kind \in Kinds => w.drive \in Drives
  BY <1>1
<1>2. ASSUME NEW p \in Programs, Mapiso(p) PROVE DriveInv'
  <2>1. PICK w \in Commands[p] : want' = [want EXCEPT ![p] = w]
    BY <1>2 DEF Mapiso, Begin
  <2>2. w.drive \in Drives
    BY CommandsAssumption
  <2>3. UNCHANGED <<drives, call, shown, messages>>
    BY <1>2 DEF Mapiso, Begin, wvars
  <2> QED BY <2>1, <2>2, <2>3, WantDrives
<1>3. CASE MountDialog
  <2>1. PICK w \in Commands[Gui] : want' = [want EXCEPT ![Gui] = w]
    BY <1>3 DEF MountDialog, Begin
  <2>2. w.drive \in Drives /\ Gui \in Programs
    BY CommandsAssumption DEF Programs
  <2>3. UNCHANGED <<drives, call, shown, messages>>
    BY <1>3 DEF MountDialog, Begin
  <2> QED BY <2>1, <2>2, <2>3, WantDrives
<1>4. CASE DialogDone
  <2>1. want' = [want EXCEPT ![Gui] = NoWant] /\ NoWant.kind \notin Kinds /\ Gui \in Programs
    BY <1>4 DEF DialogDone, NoWant, Kinds, Programs
  <2>2. UNCHANGED <<drives, call, shown>> /\ messages' \in 0 .. MaxMessages
    BY <1>0, <1>4 DEF DialogDone, WmCloseDialog, PostRefresh
  <2> QED BY <2>1, <2>2, WantDrives
\* The calls are as they were.
<1>5. CASE /\ UNCHANGED <<want, call>> /\ messages' \in 0 .. MaxMessages
           /\ drives' \in [Drives -> Images \cup {None}] /\ shown' \in [Drives -> Images \cup {None}]
  BY <1>5 DEF Accepted, Inside
<1>6. CASE (DaemonNext \/ OtherClient) /\ UNCHANGED <<wvars, svars, cvars>>
  <2>1. UNCHANGED <<want, shown, messages>>
    BY <1>6 DEF wvars, cvars
  <2>2. CASE Announce \/ Quit \/ OtherClient
    <3>1. call' = call /\ drives' \in [Drives -> Images \cup {None}]
      BY <2>2 DEF Announce, Quit, OtherClient, NoDrives, rvars
    <3> QED BY <1>5, <2>1, <3>1
  <2>3. CASE Die
    <3>1. drives' = drives
      BY <2>3 DEF Die
    <3>2. \A q \in Programs :
            \/ call'[q] = call[q]
            \/ /\ call[q].at \in {"asked", "notified"}
               /\ call'[q] = Moved(call[q], "answered", "ERROR_STUBFSD_DAEMON_NOT_RUN")
      BY <2>3 DEF Die, Moved
    <3>3. \A q \in Programs :
            \/ call'[q] = call[q]
            \/ /\ call[q].at \in {"asked", "notified"}
               /\ call'[q].at = "answered" /\ call'[q].rc = "ERROR_STUBFSD_DAEMON_NOT_RUN"
               /\ call'[q].kind = call[q].kind /\ call'[q].drive = call[q].drive
      <4>1. \A q \in Programs : call[q] \in CallRecords
        BY DEF ReportInv, ReportTypes
      <4>2. \A c \in CallRecords :
              LET m == Moved(c, "answered", "ERROR_STUBFSD_DAEMON_NOT_RUN")
              IN  /\ m.at = "answered" /\ m.rc = "ERROR_STUBFSD_DAEMON_NOT_RUN"
                  /\ m.kind = c.kind /\ m.drive = c.drive
        BY DEF CallRecords, Moved
      <4> QED BY <3>2, <4>1, <4>2
    <3> QED BY <2>1, <3>1, <3>3 DEF Accepted, Inside
  <2> QED BY <1>6, <2>2, <2>3 DEF DaemonNext
<1>7. CASE (MainThread \/ NotifyThread \/ NotifyError \/ WmClose) /\ UNCHANGED cvars
  <2>1. UNCHANGED <<call, drives, want>>
    BY <1>7 DEF MainThread, NotifyThread, NotifyError, WmClose, QueryCurrentDisk, IsDaemonRunning,
       QueryFSAttach, InitMainList, StartSem, BeginThread, StoreTid, Refresh, PostTerm, TestTid,
       EndCleanup, Exit, NotifyWait, NotifyEvent, NotifyCleanup, CloseHandle, rvars, cvars
  <2>2. shown' \in [Drives -> Images \cup {None}]
    <3>1. CASE QueryFSAttach
      BY <3>1 DEF QueryFSAttach
    <3>2. CASE ~QueryFSAttach
      <4>1. shown' = shown \/ shown' = [d \in Drives |-> None]
        BY <1>7, <3>2 DEF MainThread, NotifyThread, NotifyError, WmClose, QueryCurrentDisk, IsDaemonRunning,
           InitMainList, StartSem, BeginThread, StoreTid, Refresh, PostTerm, TestTid,
           EndCleanup, Exit, NotifyWait, NotifyEvent, NotifyCleanup, CloseHandle, wvars
      <4> QED BY <4>1
    <3> QED BY <3>1, <3>2
  <2>3. messages' \in 0 .. MaxMessages
    <3>1. \/ messages' = messages \/ messages' = 0 \/ PostRefresh
          \/ (messages > 0 /\ messages' = messages - 1)
      BY <1>7 DEF MainThread, NotifyThread, NotifyError, WmClose, QueryCurrentDisk, IsDaemonRunning,
         QueryFSAttach, InitMainList, StartSem, BeginThread, StoreTid, Refresh, PostTerm, TestTid,
         EndCleanup, Exit, NotifyWait, NotifyEvent, NotifyCleanup, CloseHandle, wvars,
         OnEvent, ResetEvent, PostMessage
    <3> QED BY <1>0, <3>1 DEF PostRefresh
  <2> QED BY <1>5, <2>1, <2>2, <2>3
<1>8. ASSUME NEW p \in Programs, Serve(p), UNCHANGED <<wvars, svars, cvars>> PROVE DriveInv'
  BY <1>8, ServeDrives
<1>9. CASE UNCHANGED vars
  BY <1>5, <1>9 DEF vars, rvars, wvars, cvars
<1> QED
  BY <1>2, <1>3, <1>4, <1>6, <1>7, <1>8, <1>9, ProgramDrives DEF Next

\* TypeOK: only images become drives or come into the list, the kernel carries
\* out one call at a time, every command starts one daemon at most (StartDaemon)
\* and the thread that waits for events has all its handles; for any drives,
\* files and processes, with daemons that come late or die.
THEOREM MountTypes == Spec => []TypeOK
<1>1. Init => SemInv /\ ThreadHolds /\ ReportInv /\ OneCommand /\ StartInv /\ DriveInv
  <2> SUFFICES ASSUME Init PROVE SemInv /\ ThreadHolds /\ ReportInv /\ OneCommand /\ StartInv /\ DriveInv
    OBVIOUS
  <2> USE DEF Init, Init_Requests, Init_Isodrive
  <2>1. SemInv
    BY HandlesAssumption DEF SemInv, SemTypes, Beginnings, OneCloser, ClosedAreCleared, Closers
  <2>2. ThreadHolds
    BY DEF ThreadHolds
  <2>3. ReportInv /\ OneCommand
    BY DEF OneCommand, Programs, NoCall, NoWant, ReportInv, ReportTypes, CallRecords, Told, Back, Kinds,
       Places, Resting, Results
  <2>4. StartInv
    <3>1. Yet \subseteq Tools /\ IsFiniteSet(Tools) /\ Gate = 0
      BY ToolsAssumption DEF Yet, Gate, Programs
    <3>2. Cardinality(Yet) <= Cardinality(Tools)
      BY <3>1, FS_Subset
    <3> QED BY <3>1, <3>2, YetIsFinite DEF StartInv
  <2>5. DriveInv
    BY ToolsAssumption DEF DriveInv, NoCall, NoWant, Kinds, Accepted, Inside
  <2> QED BY <2>1, <2>2, <2>3, <2>4, <2>5
<1>2. /\ SemInv /\ ThreadHolds /\ ReportInv /\ OneCommand /\ StartInv /\ DriveInv /\ [Next]_vars
      => (SemInv /\ ThreadHolds /\ ReportInv /\ OneCommand /\ StartInv /\ DriveInv)'
  BY SemStep, ThreadStep, ReportStep, OneCommandStep, StartStep, DriveStep
<1>3. ThreadHolds /\ ReportInv /\ StartInv /\ DriveInv => TypeOK
  <2> SUFFICES ASSUME ThreadHolds, ReportInv, StartInv, DriveInv PROVE TypeOK
    OBVIOUS
  <2>1. starting \in 0 .. Cardinality(Tools) + commands
    <3>1. Gate \in Nat
      BY DEF Gate
    <3> QED BY <3>1, YetIsFinite DEF StartInv
  <2>2. Cardinality({p \in Programs : Inside(p)}) <= 1
    <3> DEFINE I == {p \in Programs : Inside(p)}
    <3>1. CASE I = {}
      BY <3>1, FS_EmptySet
    <3>2. CASE I # {}
      <4>1. PICK p \in I : I = {p}
        BY <3>2 DEF DriveInv
      <4>2. Cardinality({p}) = 1
        BY FS_Singleton
      <4>3. Cardinality(I) <= 1
        BY <4>1, <4>2
      <4> QED BY <4>3
    <3> QED BY <3>1, <3>2
  <2>3. \A p \in Programs : Inside(p) => pc[p] \in {"attached", "replaced", "last"}
    <3> SUFFICES ASSUME NEW p \in Programs, Inside(p) PROVE pc[p] \in Waiting
      BY DEF Waiting
    <3>1. Told(p) /\ pc[p] \in Resting \cup Waiting
      BY DEF ReportInv, ReportTypes
    <3> QED BY <3>1 DEF Told, Inside
  <2>4. /\ drives \in [Drives -> Files \cup {None}]
        /\ \A d \in Drives : drives[d] # None => drives[d] \in Images
        /\ \A d \in Drives : shown[d] \in Images \cup {None}
        /\ messages \in 0 .. MaxMessages
    BY ImagesAssumption DEF DriveInv
  <2> QED BY <2>1, <2>2, <2>3, <2>4 DEF TypeOK, ThreadHolds
<1> QED BY <1>1, <1>2, <1>3, PTL DEF Spec
=============================================================================
