------------------------------ MODULE StubFsd ------------------------------
(***************************************************************************)
(* The exchange between the ring-0 stub driver (driver/stubfsd.c) and the  *)
(* ring-3 daemon (daemon/isofsdmn.c).  Threads of any process call the     *)
(* driver's FS_xxx entry points; each call is passed to the daemon through *)
(* one pair of buffers in the daemon's memory, under three semaphores.     *)
(*                                                                         *)
(* A step is what a thread does between two points where it can block.     *)
(* The OS/2 kernel does not preempt a thread in kernel mode: it gives up   *)
(* the processor only in FSH_SEMREQUEST and FSH_SEMWAIT, in                *)
(* DevHelp_VMLock (which may have to read pages in) and when it touches a  *)
(* caller's memory (FSH_PROBEBUF and the copies).  A wait returns when the *)
(* semaphore is clear at the time the thread runs again.                   *)
(***************************************************************************)
EXTENDS FsHandlers, FiniteSets

CONSTANTS
  Clients,   \* threads that call the file system
  Daemons,   \* processes that run isofsdmn.exe, one after another or at once
  Ops,       \* the calls the clients make: profiles of FsHandlers
  Faults,    \* which of FaultKinds may happen
  None       \* no process, no thread

FaultKinds ==
  {"wait_interrupted",  \* a signal ends a client's wait for its reply
   "stop_interrupted",  \* a signal ends the wait of a stopping daemon
   "reset"}             \* somebody issues FSCTL_STUBFSD_RESET

ASSUME ClientsAssumption == None \notin Clients
ASSUME DaemonsAssumption == None \notin Daemons
ASSUME OpsAssumption     == Ops \subseteq Profiles
ASSUME FaultsAssumption  == Faults \subseteq FaultKinds

VARIABLES
  pidDaemon,     \* the process the driver takes its requests to, or None
  semSerialize,  \* TRUE: the exchange is taken
  semRqAvail,    \* FALSE (posted): a request is in the buffers
  semRqDone,     \* FALSE (posted): the request has been dealt with
  xchg,          \* whose buffers pRequest, pFSData and ahvmlock stand for
  vmlocked,      \* the processes whose buffers are locked in memory
  rq,            \* the request in the buffers
  reply,         \* the request whose results are in the buffers
  cpc,           \* where each client is
  op,            \* the call each client is making
  ret,           \* how the last call of each client ended
  dpc,           \* where each daemon process is
  handling       \* the request each daemon last took

semaphores == <<semSerialize, semRqAvail, semRqDone>>
buffers    == <<xchg, vmlocked, rq, reply>>
clients    == <<cpc, op, ret>>
daemons    == <<dpc, handling>>
vars == <<pidDaemon, semaphores, buffers, clients, daemons>>

(***************************************************************************)
(* A request is known by its caller and by whether it is the call itself   *)
(* or the FINDCLOSE that undoes a FINDFIRST.                               *)
(***************************************************************************)
Requests  == [by : Clients, undo : BOOLEAN]
NoRq      == [by |-> None, undo |-> FALSE]
Call(c)   == [by |-> c, undo |-> FALSE]

\* Mutation: the volume is stored before the search handle is read from the
\* union both live in, and the request names nobody's search.
UndoingNobody(c) == [by |-> None, undo |-> TRUE]

Undoing(c) == [by |-> c, undo |-> TRUE]

NoOp == Handler(FALSE, "none", "none")

(***************************************************************************)
(* Clients: "request" blocked in FSH_SEMREQUEST, "fill" before the signal, *)
(* "wait" in FSH_SEMWAIT, "copyout" after it, "undowait" waiting for the   *)
(* undoing of a search, "reset" in daemonStopped on behalf of              *)
(* FSCTL_STUBFSD_RESET.                                                    *)
(* Daemons: "locking" in daemonStarted, "loop" about to ask for a request, *)
(* "getting" blocked in FSCTL_STUBFSD_GET_REQUEST, "working" in            *)
(* handleRequest, "refused" and "blocked" after a file system call of its  *)
(* own while it handles a request, "answered" about to issue               *)
(* FSCTL_STUBFSD_DONE_REQUEST, "exiting" about to issue                    *)
(* FSCTL_STUBFSD_DAEMON_STOPPED, "stopping" in daemonStopped, "off".       *)
(***************************************************************************)
ClientPCs == {"idle", "request", "fill", "wait", "copyout", "undowait", "reset"}
DaemonPCs == {"off", "locking", "loop", "getting", "working", "refused",
              "blocked", "answered", "exiting", "stopping"}

\* The client is between requestExchangeXS and its return from the driver.
Exchanging(c) == cpc[c] \in {"fill", "wait", "copyout", "undowait"}

\* The daemon has taken a request and not yet declared it done.
Serving(d) == dpc[d] \in {"working", "refused", "blocked", "answered"}

Results == {"none", "ok", "failed", "stale"}

TypeOK ==
  /\ pidDaemon \in Daemons \cup {None}
  /\ semSerialize \in BOOLEAN /\ semRqAvail \in BOOLEAN /\ semRqDone \in BOOLEAN
  /\ xchg \in Daemons \cup {None}
  /\ vmlocked \subseteq Daemons
  /\ rq \in Requests \cup {NoRq}
  /\ reply \in Requests \cup {NoRq}
  /\ cpc \in [Clients -> ClientPCs]
  /\ op \in [Clients -> Ops \cup {NoOp}]
  /\ ret \in [Clients -> Results]
  /\ dpc \in [Daemons -> DaemonPCs]
  /\ handling \in [Daemons -> Requests \cup {NoRq}]

\* The driver's data segment is zero when it is loaded, and a zero semaphore
\* is clear.
Init ==
  /\ pidDaemon = None
  /\ semSerialize = FALSE /\ semRqAvail = FALSE /\ semRqDone = FALSE
  /\ xchg = None
  /\ vmlocked = {}
  /\ rq = NoRq /\ reply = NoRq
  /\ cpc = [c \in Clients |-> "idle"]
  /\ op = [c \in Clients |-> NoOp]
  /\ ret = [c \in Clients |-> "none"]
  /\ dpc = [d \in Daemons |-> "off"]
  /\ handling = [d \in Daemons |-> NoRq]

-----------------------------------------------------------------------------
(* The calls of the clients.                                               *)

\* Mutation: the daemon is let in like anybody else.
AdmittedAnyone(p) == pidDaemon # None

\* The first two tests of requestExchangeXS: there is a daemon, and the
\* caller is not that daemon.
Admitted(p) == pidDaemon # None /\ p # pidDaemon

\* The call of client c ends with result r.
Return(c, r) ==
  /\ cpc' = [cpc EXCEPT ![c] = "idle"]
  /\ op' = [op EXCEPT ![c] = NoOp]
  /\ ret' = [ret EXCEPT ![c] = r]

\* requestExchangeXS returns ERROR_STUBFSD_DAEMON_NOT_RUN; FS_ATTACH does
\* not get that far when it detaches.
CallRefused(c) ==
  /\ cpc[c] = "idle"
  /\ pidDaemon = None
  /\ \E o \in Ops : ret' = [ret EXCEPT ![c] = IF o.alone THEN "ok" ELSE "failed"]
  /\ UNCHANGED <<pidDaemon, semaphores, buffers, cpc, op, daemons>>

Enter(c) ==
  /\ cpc[c] = "idle"
  /\ Admitted(c)
  /\ \E o \in Ops : op' = [op EXCEPT ![c] = o]
  /\ cpc' = [cpc EXCEPT ![c] = "request"]
  /\ ret' = [ret EXCEPT ![c] = "none"]
  /\ UNCHANGED <<pidDaemon, semaphores, buffers, daemons>>

\* Mutations: one of the two semaphores is forgotten.
SignalWithoutReset == semRqDone' = semRqDone /\ semRqAvail' = FALSE
SignalNobody == semRqDone' = TRUE /\ semRqAvail' = semRqAvail

\* The two semaphores of signalDaemonAndWait, up to its FSH_SEMWAIT.
SignalDaemon ==
  /\ semRqDone' = TRUE
  /\ semRqAvail' = FALSE

\* The request replaces what the buffers held, results included.
PutRequest(r) ==
  /\ rq' = r
  /\ reply' = NoRq
  /\ UNCHANGED <<xchg, vmlocked>>

\* Mutation: the daemon is not looked for again.
NoSecondLook == TRUE

\* The second test of requestExchangeXS, with the exchange held.
DaemonStillThere == pidDaemon # None

\* The daemon died while the thread waited for the exchange.
AcquireRefused(c) ==
  /\ cpc[c] = "request"
  /\ ~semSerialize
  /\ ~DaemonStillThere
  /\ Return(c, "failed")
  /\ UNCHANGED <<pidDaemon, semaphores, buffers, daemons>>

\* A signal ends FSH_SEMREQUEST.
AcquireInterrupted(c) ==
  /\ cpc[c] = "request"
  /\ semSerialize
  /\ Return(c, "failed")
  /\ UNCHANGED <<pidDaemon, semaphores, buffers, daemons>>

\* The thread gets the exchange and fills in the request.  A call that does
\* not touch the caller's memory goes on to signal the daemon.
Acquire(c) ==
  /\ cpc[c] = "request"
  /\ ~semSerialize
  /\ DaemonStillThere
  /\ PutRequest(Call(c))
  /\ \/ /\ op[c].name
        /\ Return(c, "failed")
        /\ UNCHANGED semaphores
     \/ /\ op[c].in = "none"
        /\ semSerialize' = TRUE
        /\ SignalDaemon
        /\ cpc' = [cpc EXCEPT ![c] = "wait"]
        /\ UNCHANGED <<op, ret>>
     \/ /\ op[c].in # "none"
        /\ semSerialize' = TRUE
        /\ cpc' = [cpc EXCEPT ![c] = "fill"]
        /\ UNCHANGED <<semRqAvail, semRqDone, op, ret>>
  /\ UNCHANGED <<pidDaemon, daemons>>

\* The caller's memory was fine (or the probe's result is not looked at).
Fill(c) ==
  /\ cpc[c] = "fill"
  /\ SignalDaemon
  /\ cpc' = [cpc EXCEPT ![c] = "wait"]
  /\ UNCHANGED <<pidDaemon, semSerialize, buffers, op, ret, daemons>>

\* The caller's memory was not readable.
FillFails(c) ==
  /\ cpc[c] = "fill"
  /\ \/ /\ op[c].in = "probe"
        /\ semSerialize' = FALSE
        /\ Return(c, "failed")
        /\ UNCHANGED <<semRqAvail, semRqDone>>
     \/ /\ op[c].in = "leak"
        /\ Return(c, "failed")
        /\ UNCHANGED semaphores
     \/ /\ op[c].in = "unlocked"
        /\ semSerialize' = FALSE
        /\ SignalDaemon
        /\ cpc' = [cpc EXCEPT ![c] = "wait"]
        /\ UNCHANGED <<op, ret>>
  /\ UNCHANGED <<pidDaemon, buffers, daemons>>

\* Mutation: the exchange is not released.
ExitOnly(c, r) ==
  /\ Return(c, r)
  /\ UNCHANGED semaphores

\* RELEASE_AND_EXIT
ReleaseAndExit(c, r) ==
  /\ semSerialize' = FALSE
  /\ Return(c, r)
  /\ UNCHANGED <<semRqAvail, semRqDone>>

\* pRequest->rc, as far as whose result it is.
Outcome(c) == IF reply = Call(c) THEN "ok" ELSE "stale"

\* FSH_SEMWAIT returns in signalDaemonAndWait.
Wake(c) ==
  /\ cpc[c] = "wait"
  /\ ~semRqDone
  /\ \/ pidDaemon = None /\ ReleaseAndExit(c, "failed")
     \/ pidDaemon # None /\ op[c].out = "none" /\ ReleaseAndExit(c, Outcome(c))
     \/ /\ pidDaemon # None /\ op[c].out # "none"
        /\ cpc' = [cpc EXCEPT ![c] = "copyout"]
        /\ UNCHANGED <<semaphores, op, ret>>
  /\ UNCHANGED <<pidDaemon, buffers, daemons>>

CopyOut(c) ==
  /\ cpc[c] = "copyout"
  /\ ReleaseAndExit(c, Outcome(c))
  /\ UNCHANGED <<pidDaemon, buffers, daemons>>

CopyOutFails(c) ==
  /\ cpc[c] = "copyout"
  /\ op[c].out = "probe"
  /\ ReleaseAndExit(c, "failed")
  /\ UNCHANGED <<pidDaemon, buffers, daemons>>

\* undoFindFirst, up to its wait
UndoFindFirst(c) ==
  /\ cpc[c] = "copyout"
  /\ op[c].out = "undo"
  /\ PutRequest(Undoing(c))
  /\ SignalDaemon
  /\ cpc' = [cpc EXCEPT ![c] = "undowait"]
  /\ UNCHANGED <<pidDaemon, semSerialize, op, ret, daemons>>

UndoWake(c) ==
  /\ cpc[c] = "undowait"
  /\ ~semRqDone
  /\ ReleaseAndExit(c, "failed")
  /\ UNCHANGED <<pidDaemon, buffers, daemons>>

\* A signal ends the wait for the reply: signalDaemonAndWait returns the
\* error and its caller releases the exchange.
WaitInterrupted(c) ==
  /\ "wait_interrupted" \in Faults
  /\ cpc[c] \in {"wait", "undowait"}
  /\ semRqDone
  /\ ReleaseAndExit(c, "failed")
  /\ UNCHANGED <<pidDaemon, buffers, daemons>>

-----------------------------------------------------------------------------
(* The coming and going of daemons.                                        *)

\* Mutation: the thread that waits for a reply is not woken up.
BeginStopQuietly ==
  /\ pidDaemon' = None
  /\ UNCHANGED semaphores

\* daemonStopped, up to its FSH_SEMREQUEST
BeginStop ==
  /\ pidDaemon' = None
  /\ semRqDone' = FALSE
  /\ UNCHANGED <<semSerialize, semRqAvail>>

\* Mutation: the buffers are unlocked without waiting for the exchange.
EndStopAtOnce ==
  /\ vmlocked' = vmlocked \ {xchg}
  /\ UNCHANGED <<pidDaemon, semaphores, xchg, rq, reply>>

\* daemonStopped, once it has the exchange
EndStop ==
  /\ ~semSerialize
  /\ vmlocked' = vmlocked \ {xchg}
  /\ UNCHANGED <<pidDaemon, semaphores, xchg, rq, reply>>

Goto(d, place) == dpc' = [dpc EXCEPT ![d] = place]

\* FSCTL_STUBFSD_DAEMON_STARTED: no daemon is attached, and the locking of
\* the buffers begins.
BeginStart(d) ==
  /\ dpc[d] = "off"
  /\ pidDaemon = None
  /\ Goto(d, "locking")
  /\ UNCHANGED <<pidDaemon, semaphores, buffers, clients, handling>>

\* Mutation: a request meant for an earlier daemon is not withdrawn.
OpenExchangeOnly == semRqAvail' = semRqAvail /\ semSerialize' = FALSE

\* "Set up the semaphores"
SetUpSemaphores == semRqAvail' = TRUE /\ semSerialize' = FALSE

\* The rest of daemonStarted.  The daemon goes on to its loop, or gives up
\* because its tables of character sets do not load.
EndStart(d) ==
  /\ dpc[d] = "locking"
  /\ pidDaemon' = d
  /\ xchg' = d
  /\ vmlocked' = vmlocked \cup {d}
  /\ rq' = NoRq /\ reply' = NoRq
  /\ SetUpSemaphores
  /\ \E place \in {"loop", "exiting"} : Goto(d, place)
  /\ UNCHANGED <<semRqDone, clients, handling>>

\* A step of daemonStarted fails; what was locked stays locked.
StartFails(d) ==
  /\ dpc[d] = "locking"
  /\ \/ UNCHANGED <<xchg, vmlocked>>
     \/ xchg' = d /\ vmlocked' = vmlocked \cup {d}
  /\ Goto(d, "off")
  /\ UNCHANGED <<pidDaemon, semaphores, rq, reply, clients, handling>>

\* FSCTL_STUBFSD_GET_REQUEST, up to its FSH_SEMWAIT
GetRequest(d) ==
  /\ dpc[d] = "loop"
  /\ Goto(d, IF pidDaemon = d THEN "getting" ELSE "exiting")
  /\ UNCHANGED <<pidDaemon, semaphores, buffers, clients, handling>>

\* Mutation: the request stays available.
TakeWithoutReset(d) ==
  /\ dpc[d] = "getting"
  /\ ~semRqAvail
  /\ handling' = [handling EXCEPT ![d] = IF xchg = d THEN rq ELSE NoRq]
  /\ Goto(d, "working")
  /\ UNCHANGED <<pidDaemon, semaphores, buffers, clients>>

\* FSCTL_STUBFSD_GET_REQUEST returns and handleRequest reads the request
\* from the daemon's own buffers.
TakeRequest(d) ==
  /\ dpc[d] = "getting"
  /\ ~semRqAvail
  /\ semRqAvail' = TRUE
  /\ handling' = [handling EXCEPT ![d] = IF xchg = d THEN rq ELSE NoRq]
  /\ Goto(d, "working")
  /\ UNCHANGED <<pidDaemon, semSerialize, semRqDone, buffers, clients>>

\* A signal ends the wait for a request, and with it the daemon's loop.
GetInterrupted(d) ==
  /\ dpc[d] = "getting"
  /\ Goto(d, "exiting")
  /\ UNCHANGED <<pidDaemon, semaphores, buffers, clients, handling>>

\* While it handles a request the registered daemon uses a file that is on
\* an ISOFS drive itself: the image of another drive, say.
NestedCall(d) ==
  /\ dpc[d] = "working"
  /\ pidDaemon = d
  /\ Goto(d, IF Admitted(d) THEN "blocked" ELSE "refused")
  /\ UNCHANGED <<pidDaemon, semaphores, buffers, clients, handling>>

\* handleRequest ends: pRequest->rc and the results are in the buffers.
Answer(d) ==
  /\ dpc[d] \in {"working", "refused"}
  /\ reply' = IF xchg = d THEN handling[d] ELSE reply
  /\ Goto(d, "answered")
  /\ UNCHANGED <<pidDaemon, semaphores, xchg, vmlocked, rq, clients, handling>>

\* Mutation: the caller is not told.
DoneQuietly(d) ==
  /\ dpc[d] = "answered"
  /\ \E place \in {"loop", "exiting"} : Goto(d, place)
  /\ UNCHANGED <<pidDaemon, semaphores, buffers, clients, handling>>

\* FSCTL_STUBFSD_DONE_REQUEST.  The daemon leaves its loop if the request
\* told it to quit or if it is not the daemon any more.
Done(d) ==
  /\ dpc[d] = "answered"
  /\ \/ /\ pidDaemon = d
        /\ semRqDone' = FALSE
        /\ \E place \in {"loop", "exiting"} : Goto(d, place)
     \/ /\ pidDaemon # d
        /\ Goto(d, "exiting")
        /\ UNCHANGED semRqDone
  /\ UNCHANGED <<pidDaemon, semSerialize, semRqAvail, buffers, clients, handling>>

\* FSCTL_STUBFSD_DAEMON_STOPPED and FS_EXIT do the same for the registered
\* daemon, and nothing for another process.
Detach(d) ==
  /\ \/ pidDaemon = d /\ BeginStop /\ Goto(d, "stopping")
     \/ pidDaemon # d /\ Goto(d, "off") /\ UNCHANGED <<pidDaemon, semaphores>>
  /\ UNCHANGED <<buffers, clients, handling>>

Exit(d) == dpc[d] = "exiting" /\ Detach(d)

\* Mutation: FS_EXIT does not look at the process.
KillUnnoticed(d) ==
  /\ dpc[d] \in {"loop", "getting", "working", "refused", "answered", "exiting"}
  /\ Goto(d, "off")
  /\ UNCHANGED <<pidDaemon, semaphores, buffers, clients, handling>>

\* The daemon process is killed, or traps; the kernel calls FS_EXIT.
Kill(d) ==
  /\ dpc[d] \in {"loop", "getting", "working", "refused", "answered", "exiting"}
  /\ Detach(d)

StopFinish(d) ==
  /\ dpc[d] = "stopping"
  /\ EndStop
  /\ Goto(d, "off")
  /\ UNCHANGED <<clients, handling>>

\* A signal ends FSH_SEMREQUEST in daemonStopped; nothing is unlocked and
\* the process goes on to free its buffers.
StopInterrupted(d) ==
  /\ "stop_interrupted" \in Faults
  /\ dpc[d] = "stopping"
  /\ semSerialize
  /\ Goto(d, "off")
  /\ UNCHANGED <<pidDaemon, semaphores, buffers, clients, handling>>

\* FSCTL_STUBFSD_RESET, by anyone
Reset(c) ==
  /\ "reset" \in Faults
  /\ cpc[c] = "idle"
  /\ BeginStop
  /\ cpc' = [cpc EXCEPT ![c] = "reset"]
  /\ UNCHANGED <<buffers, op, ret, daemons>>

ResetFinish(c) ==
  /\ cpc[c] = "reset"
  /\ EndStop
  /\ cpc' = [cpc EXCEPT ![c] = "idle"]
  /\ UNCHANGED <<op, ret, daemons>>

-----------------------------------------------------------------------------
ClientStep(c) ==
  \/ CallRefused(c) \/ Enter(c)
  \/ AcquireRefused(c) \/ AcquireInterrupted(c) \/ Acquire(c)
  \/ Fill(c) \/ FillFails(c)
  \/ Wake(c) \/ CopyOut(c) \/ CopyOutFails(c)
  \/ UndoFindFirst(c) \/ UndoWake(c)
  \/ WaitInterrupted(c)
  \/ Reset(c) \/ ResetFinish(c)

DaemonStep(d) ==
  \/ BeginStart(d) \/ EndStart(d) \/ StartFails(d)
  \/ GetRequest(d) \/ TakeRequest(d) \/ GetInterrupted(d)
  \/ NestedCall(d) \/ Answer(d) \/ Done(d)
  \/ Exit(d) \/ Kill(d) \/ StopFinish(d) \/ StopInterrupted(d)

Next ==
  \/ \E c \in Clients : ClientStep(c)
  \/ \E d \in Daemons : DaemonStep(d)

Spec == Init /\ [][Next]_vars

-----------------------------------------------------------------------------
(***************************************************************************)
(* Fairness.  A thread that can run does run: the kernel never blocks one  *)
(* for ever that is ready, and the daemon's handlers end.  Nobody has to   *)
(* make a call, to start or kill a daemon, or to send a signal, and which  *)
(* of several waiting threads gets the exchange is left open (weak         *)
(* fairness on Acquire).                                                   *)
(***************************************************************************)
ClientFairness(c) ==
  /\ WF_vars(Acquire(c)) /\ WF_vars(AcquireRefused(c))
  /\ WF_vars(Fill(c)) /\ WF_vars(Wake(c))
  /\ WF_vars(CopyOut(c)) /\ WF_vars(UndoWake(c))

DaemonFairness(d) ==
  /\ WF_vars(EndStart(d)) /\ WF_vars(GetRequest(d)) /\ WF_vars(TakeRequest(d))
  /\ WF_vars(Answer(d)) /\ WF_vars(Done(d))
  /\ WF_vars(Exit(d)) /\ WF_vars(StopFinish(d))

FairSpec ==
  /\ Spec
  /\ \A c \in Clients : ClientFairness(c)
  /\ \A d \in Daemons : DaemonFairness(d)

-----------------------------------------------------------------------------
(* Safety.                                                                 *)

\* "This mutex semaphore serializes access to the exchange buffers"
\* (stubfsd.c:50): no two calls are between requestExchangeXS and their
\* return at once, whatever daemons die and whatever memory turns out bad.
MutualExclusion ==
  \A b, c \in Clients : Exchanging(b) /\ Exchanging(c) => b = c

\* No call returns as its own the results of another call, of an earlier
\* daemon, or of a request that was never carried out.
OwnReply == \A c \in Clients : ret[c] # "stale"

\* While a daemon carries out a request, the request is still the one in the
\* buffers and the thread that made it is still waiting: nobody rewrites the
\* parameters under the daemon's hands and no work is done for a caller that
\* has left.
ServesWaitingCaller ==
  \A d \in Daemons : Serving(d) =>
    /\ rq = handling[d]
    /\ \E c \in Clients : \/ cpc[c] = "wait" /\ rq = Call(c)
                          \/ cpc[c] = "undowait" /\ rq = Undoing(c)

\* The process the driver takes its requests to is alive and at work: the
\* driver learns of every way a daemon can go before the process is gone, so
\* no call is ever left with a dead one (stubfsd.c:702-711).
RegisteredIsAlive ==
  pidDaemon # None => dpc[pidDaemon] \notin {"off", "locking", "stopping"}

\* A thread that is about to touch the exchange buffers finds them locked in
\* memory and their owner alive (stubfsd.c:261-265): a call that waits will
\* touch them only if a daemon is attached when it wakes up.
BuffersValid ==
  \A c \in Clients :
    \/ cpc[c] \in {"fill", "copyout"}
    \/ cpc[c] = "wait" /\ pidDaemon # None
    => xchg \in vmlocked /\ dpc[xchg] # "off"

\* The exchange is taken exactly while some call is inside: it is neither
\* left taken by a call that has returned nor given back early.
SerializeExact == semSerialize <=> \E c \in Clients : Exchanging(c)

\* When there is no daemon, every waiting call has been told so: its wake-up
\* is not lost, whenever the daemon went (stubfsd.c:250-258).
NoLostWakeup ==
  \A c \in Clients : cpc[c] \in {"wait", "undowait"} /\ pidDaemon = None => ~semRqDone

\* As long as a call waits and a daemon is attached, the request is on its
\* way: not yet taken, being served by that daemon, or dealt with.
NoLostRequest ==
  \A c \in Clients : cpc[c] \in {"wait", "undowait"} /\ pidDaemon # None =>
    \/ ~semRqAvail
    \/ Serving(pidDaemon)
    \/ ~semRqDone

-----------------------------------------------------------------------------
(* Liveness.                                                               *)

\* A call that has got the exchange leaves it again, whether the daemon
\* answers or dies.
ExchangeIsLeft == \A c \in Clients : Exchanging(c) ~> ~Exchanging(c)

\* "Thus, all blocked threads will unblock and return" (stubfsd.c:257): a
\* daemon that stops or dies gets the exchange and unlocks its buffers.
StopEnds == \A d \in Daemons : dpc[d] = "stopping" ~> dpc[d] # "stopping"

\* A daemon that has taken a request gets done with it, also when it uses an
\* ISOFS drive itself on the way: the driver refuses that call instead of
\* letting the daemon wait for itself (stubfsd.c:129).
ServingEnds == \A d \in Daemons : Serving(d) ~> ~Serving(d)

-----------------------------------------------------------------------------
(***************************************************************************)
(* The exchange implements RemoteCall: where each call is in the abstract. *)
(***************************************************************************)
Stage(r) ==
  IF reply = r THEN "executed"
  ELSE IF \E d \in Daemons : Serving(d) /\ handling[d] = r THEN "executing"
  ELSE IF ~semRqAvail /\ rq = r THEN "pending"
  ELSE "lost"

UndoStage(stage) ==
  CASE stage = "executed"  -> "undo_executed"
    [] stage = "executing" -> "undo_executing"
    [] stage = "pending"   -> "undo_pending"
    [] stage = "lost"      -> "undo_lost"

AbstractCall(c) ==
  CASE cpc[c] \in {"idle", "reset"}   -> "idle"
    [] cpc[c] \in {"request", "fill"} -> "pending"
    [] cpc[c] = "wait"                -> Stage(Call(c))
    [] cpc[c] = "copyout"             -> "executed"
    [] cpc[c] = "undowait"            -> UndoStage(Stage(Undoing(c)))

AbstractCalls == [c \in Clients |-> AbstractCall(c)]

RC == INSTANCE RemoteCall WITH
        call <- AbstractCalls,
        result <- ret

\* Every call is carried out at most once, one at a time, succeeds only if it
\* was carried out, and never returns while the daemon is still at it.
ImplementsRemoteCall == RC!Spec
=============================================================================
