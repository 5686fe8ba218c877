------------------------------ MODULE Isodrive ------------------------------
(***************************************************************************)
(* ISODrive (daemon/isodrive.c): its window with the list of drives, and   *)
(* the thread that waits for mount events.  What the window's buttons do   *)
(* to drives is in MountTools.                                             *)
(***************************************************************************)
EXTENDS MountRequests

CONSTANT MaxMessages    \* bound: UM_REFRESH messages that are told apart

Order   == <<"mux", "ev", "term">>     \* in which the handles are closed
Handles == {"mux", "ev", "term"}

ASSUME HandlesAssumption == None \notin Handles

VARIABLES
  ui,        \* where the main thread is
  fInUI,     \* the window is there
  shown,     \* the list in the window
  todo,      \* drives that GetMountList has yet to query
  messages,  \* UM_REFRESH messages
  is,        \* which members of ISOSEM hold a handle,
  tid,       \* and its thread id: "zero", "id" or "minus"
  termPosted,
  nt,        \* where NotifyThread is
  clearing,  \* the handle that the main thread or NotifyThread has just closed
  closes     \* how often each handle has been closed

wvars == <<ui, fInUI, shown, todo, messages>>
svars == <<is, tid, termPosted, nt, clearing, closes>>

Init_Isodrive ==
  /\ ui = "GetMountList" /\ fInUI = FALSE
  /\ shown = [d \in Drives |-> None] /\ todo = {} /\ messages = 0
  /\ is = {} /\ tid = "zero" /\ termPosted = FALSE /\ nt = "none"
  /\ clearing = [who \in {"main", "thread"} |-> None]
  /\ closes = [h \in Handles |-> 0]

PostNothing == UNCHANGED messages

PostRefresh ==
  messages' = IF messages < MaxMessages THEN messages + 1 ELSE messages

-----------------------------------------------------------------------------
(* GetMountList: the map of drives, then the daemon, then every drive      *)

QueryCurrentDisk ==
  /\ ui = "GetMountList" /\ ui' = "IsDaemonRunning"
  /\ shown' = [d \in Drives |-> None]
  /\ todo' = {d \in Drives : drives[d] # None}
  /\ missed' = FALSE
  /\ UNCHANGED <<rvars, posted, listening, fInUI, messages, svars>>

\* The question goes to the daemon, once the exchange is free.
IsDaemonRunning ==
  /\ ui = "IsDaemonRunning" /\ (ExchangeFree \/ ~running)
  /\ ui' = "query"
  /\ todo' = IF running THEN todo ELSE {}
  /\ UNCHANGED <<rvars, evars, fInUI, shown, messages, svars>>

QueryFSAttach ==
  /\ ui = "query" /\ (ExchangeFree \/ ~running)
  /\ \E d \in todo :
       /\ todo' = todo \ {d}
       /\ shown' = [shown EXCEPT ![d] = IF running THEN drives[d] ELSE None]
  /\ UNCHANGED <<rvars, evars, ui, fInUI, messages, svars>>

\* The list is complete; main goes on, or the window shows it.
InitMainList ==
  /\ ui = "query" /\ todo = {}
  /\ ui' = IF fInUI THEN "loop" ELSE "StartSem"
  /\ UNCHANGED <<rvars, evars, fInUI, shown, todo, messages, svars>>

-----------------------------------------------------------------------------
(* The semaphores and the thread                                           *)

\* StartSem up to _beginthread.  The second or the third semaphore that cannot
\* be had ends it; without the first one it ends in the same way.
StartSem ==
  /\ ui = "StartSem" /\ fInUI' = TRUE
  /\ \/ is' = Handles /\ ui' = "_beginthread"
     \/ is' \in {{"term"}, {"term", "ev"}} /\ ui' = "loop"
  /\ listening' = ("ev" \in is')
  /\ UNCHANGED <<rvars, posted, missed, shown, todo, messages, tid,
                 termPosted, nt, clearing, closes>>

BeginThread ==
  /\ ui = "_beginthread"
  /\ \/ nt' = "wait" /\ ui' = "is.tid =" /\ UNCHANGED tid
     \/ tid' = "minus" /\ ui' = "loop" /\ UNCHANGED nt
  /\ UNCHANGED <<rvars, evars, fInUI, shown, todo, messages, is, termPosted,
                 clearing, closes>>

\* The thread runs before its id is stored.
StoreTid ==
  /\ ui = "is.tid =" /\ ui' = "loop" /\ tid' = "id"
  /\ UNCHANGED <<rvars, evars, fInUI, shown, todo, messages, is, termPosted, nt,
                 clearing, closes>>

\* Mutation: the thread says at once that it has ended.
LeaveEarly == nt' = "cleanup" /\ tid' = "minus"

\* NotifyThread leaves its loop.
Leave == nt' = "cleanup" /\ UNCHANGED tid

\* DosWaitMuxWaitSem returns: a mount event or the end.
NotifyWait ==
  /\ nt = "wait"
  /\ \/ posted /\ nt' = "event" /\ UNCHANGED tid
     \/ termPosted /\ Leave
  /\ UNCHANGED <<rvars, evars, wvars, is, termPosted, clearing, closes>>

\* It returns an error, at any time.
NotifyError ==
  /\ nt = "wait" /\ Leave
  /\ UNCHANGED <<rvars, evars, wvars, is, termPosted, clearing, closes>>

ResetEvent  == posted' = FALSE /\ UNCHANGED messages
PostMessage == PostRefresh /\ UNCHANGED posted

\* Mutation: the semaphore is reset when the message has been posted.
ResetLast(place) ==
  CASE place = "event" -> PostMessage [] place = "then" -> ResetEvent

\* First the semaphore is reset, then the message is posted.
OnEvent(place) ==
  CASE place = "event" -> ResetEvent [] place = "then" -> PostMessage

NotifyEvent ==
  /\ nt \in {"event", "then"}
  /\ OnEvent(nt)
  /\ nt' = IF nt = "event" THEN "then" ELSE "wait"
  /\ UNCHANGED <<rvars, listening, missed, ui, fInUI, shown, todo, is,
                 tid, termPosted, clearing, closes>>

\* The first member that holds a handle: the handle is closed, and then the
\* member is cleared.
CloseHandle(who) ==
  \/ /\ clearing[who] = None
     /\ \E k \in DOMAIN Order :
          /\ Order[k] \in is /\ \A j \in 1 .. k - 1 : Order[j] \notin is
          /\ closes' = [closes EXCEPT ![Order[k]] = @ + 1]
          /\ clearing' = [clearing EXCEPT ![who] = Order[k]]
          /\ listening' = (listening /\ Order[k] # "ev")
     /\ UNCHANGED <<rvars, posted, missed, wvars, is, tid, termPosted, nt>>
  \/ /\ clearing[who] # None
     /\ is' = is \ {clearing[who]}
     /\ clearing' = [clearing EXCEPT ![who] = None]
     /\ UNCHANGED <<rvars, evars, wvars, tid, termPosted, nt, closes>>

AllClosed(who) == is = {} /\ clearing[who] = None

NotifyCleanup ==
  \/ nt = "cleanup" /\ CloseHandle("thread")
  \/ /\ nt = "cleanup" /\ AllClosed("thread")
     /\ nt' = "ended" /\ tid' = "minus"
     /\ UNCHANGED <<rvars, evars, wvars, is, termPosted, clearing, closes>>

NotifyThread == NotifyWait \/ NotifyEvent \/ NotifyCleanup

-----------------------------------------------------------------------------
(* The end of the window                                                   *)

\* The user closes the window, which ends in WM_DESTROY.
WmClose ==
  /\ ui = "loop" /\ ui' = "EndSem"
  /\ UNCHANGED <<rvars, evars, fInUI, shown, todo, messages, svars>>

PostTerm ==
  /\ ui = "EndSem" /\ ui' = "is.tid"
  /\ termPosted' = (termPosted \/ "term" \in is)
  /\ UNCHANGED <<rvars, evars, fInUI, shown, todo, messages, is, tid, nt,
                 clearing, closes>>

\* The clean-up is left to the thread if there is one.
TestTid ==
  /\ ui = "is.tid"
  /\ ui' = IF tid = "minus" THEN "cleanup" ELSE "exit"
  /\ UNCHANGED <<rvars, evars, fInUI, shown, todo, messages, svars>>

EndCleanup ==
  \/ ui = "cleanup" /\ CloseHandle("main")
  \/ /\ ui = "cleanup" /\ AllClosed("main") /\ ui' = "exit"
     /\ UNCHANGED <<rvars, evars, fInUI, shown, todo, messages, svars>>

\* The process ends: its thread, its handles and its memory are gone.
Exit ==
  /\ ui = "exit" /\ ui' = "ended"
  /\ shown' = [d \in Drives |-> None] /\ messages' = 0
  /\ nt' = "none" /\ is' = {} /\ tid' = "zero" /\ termPosted' = FALSE
  /\ clearing' = [who \in {"main", "thread"} |-> None]
  /\ closes' = [h \in Handles |-> 0]
  /\ posted' = FALSE /\ listening' = FALSE /\ missed' = FALSE
  /\ UNCHANGED <<rvars, fInUI, todo>>

\* The next message is UM_REFRESH.
Refresh ==
  /\ ui = "loop" /\ messages > 0
  /\ messages' = messages - 1 /\ ui' = "GetMountList"
  /\ UNCHANGED <<rvars, evars, fInUI, shown, todo, svars>>

MainThread ==
  \/ QueryCurrentDisk \/ IsDaemonRunning \/ QueryFSAttach \/ InitMainList
  \/ StartSem \/ BeginThread \/ StoreTid
  \/ Refresh \/ PostTerm \/ TestTid \/ EndCleanup \/ Exit
=============================================================================
