--------------------------- MODULE StubFsdProofs ---------------------------
(***************************************************************************)
(* Theorems about the exchange, for any threads, any daemon processes and  *)
(* any calls.  TypeCorrect and DriverKnowsDaemon hold whatever happens;    *)
(* the others say what they rely on.  First what holds of any daemons and  *)
(* any faults, then the invariant about who holds the exchange, then that  *)
(* the exchange implements RemoteCall.                                     *)
(***************************************************************************)
EXTENDS StubFsd, TLAPS

(***************************************************************************)
(* The variables always have their types, in every configuration: any      *)
(* faults, any number of daemons.                                          *)
(***************************************************************************)
LEMMA TypeNext == TypeOK /\ [Next]_vars => TypeOK'
<1> SUFFICES ASSUME TypeOK, [Next]_vars PROVE TypeOK'
  OBVIOUS
<1> USE DEF TypeOK
<1>a. ASSUME NEW c \in Clients, NEW r \in Results, Return(c, r)
      PROVE  /\ cpc' \in [Clients -> ClientPCs]
             /\ op' \in [Clients -> Ops \cup {NoOp}]
             /\ ret' \in [Clients -> Results]
  BY <1>a DEF Return, ClientPCs
<1>b. ASSUME NEW c \in Clients, ClientStep(c) PROVE TypeOK'
  <2> USE DEF semaphores, buffers, clients, daemons
  <2>1. CASE CallRefused(c)
    BY <2>1 DEF CallRefused, Results
  <2>2. CASE Enter(c)
    BY <2>2 DEF Enter, ClientPCs, Results
  <2>3. CASE AcquireRefused(c) \/ AcquireInterrupted(c)
    BY <2>3, <1>a DEF AcquireRefused, AcquireInterrupted, Results
  <2>4. CASE Acquire(c)
    <3>1. /\ rq' \in Requests \cup {NoRq} /\ reply' \in Requests \cup {NoRq}
          /\ xchg' = xchg /\ vmlocked' = vmlocked
      BY <2>4 DEF Acquire, PutRequest, Call, Requests
    <3>2. /\ cpc' \in [Clients -> ClientPCs] /\ op' \in [Clients -> Ops \cup {NoOp}]
          /\ ret' \in [Clients -> Results]
      BY <2>4, <1>a DEF Acquire, ClientPCs, Results
    <3>3. /\ semSerialize' \in BOOLEAN /\ semRqAvail' \in BOOLEAN /\ semRqDone' \in BOOLEAN
      BY <2>4 DEF Acquire, SignalDaemon
    <3> QED BY <2>4, <3>1, <3>2, <3>3 DEF Acquire
  <2>5. CASE Fill(c)
    BY <2>5 DEF Fill, SignalDaemon, ClientPCs
  <2>6. CASE FillFails(c)
    <3>1. /\ cpc' \in [Clients -> ClientPCs] /\ op' \in [Clients -> Ops \cup {NoOp}]
          /\ ret' \in [Clients -> Results]
      BY <2>6, <1>a DEF FillFails, ClientPCs, Results
    <3>2. /\ semSerialize' \in BOOLEAN /\ semRqAvail' \in BOOLEAN /\ semRqDone' \in BOOLEAN
      BY <2>6 DEF FillFails, SignalDaemon
    <3> QED BY <2>6, <3>1, <3>2 DEF FillFails
  <2>7. ASSUME NEW r \in Results, ReleaseAndExit(c, r),
               UNCHANGED <<pidDaemon, buffers, daemons>>
        PROVE  TypeOK'
    BY <2>7, <1>a DEF ReleaseAndExit
  <2>8. Outcome(c) \in Results /\ "failed" \in Results
    BY DEF Outcome, Results
  <2>9. CASE Wake(c)
    <3>1. CASE cpc' = [cpc EXCEPT ![c] = "copyout"] /\ UNCHANGED <<semaphores, op, ret>>
      BY <3>1, <2>9 DEF Wake, ClientPCs
    <3> QED BY <2>9, <2>7, <2>8, <3>1 DEF Wake
  <2>10. CASE CopyOut(c) \/ CopyOutFails(c) \/ UndoWake(c) \/ WaitInterrupted(c)
    BY <2>10, <2>7, <2>8 DEF CopyOut, CopyOutFails, UndoWake, WaitInterrupted
  <2>11. CASE UndoFindFirst(c)
    BY <2>11 DEF UndoFindFirst, PutRequest, SignalDaemon, Undoing, Requests, ClientPCs
  <2>12. CASE Reset(c)
    BY <2>12 DEF Reset, BeginStop, ClientPCs
  <2>13. CASE ResetFinish(c)
    BY <2>13 DEF ResetFinish, EndStop, ClientPCs
  <2> QED
    BY <1>b, <2>1, <2>2, <2>3, <2>4, <2>5, <2>6, <2>9, <2>10, <2>11, <2>12, <2>13
       DEF ClientStep
<1>c. ASSUME NEW d \in Daemons, DaemonStep(d) PROVE TypeOK'
  <2> USE DEF semaphores, buffers, clients, daemons
  <2>a. ASSUME NEW place \in DaemonPCs, Goto(d, place)
        PROVE  dpc' \in [Daemons -> DaemonPCs]
    BY <2>a DEF Goto
  <2>1. CASE BeginStart(d)
    BY <2>1, <2>a DEF BeginStart, DaemonPCs
  <2>2. CASE EndStart(d)
    BY <2>2, <2>a DEF EndStart, SetUpSemaphores, DaemonPCs
  <2>3. CASE StartFails(d)
    BY <2>3, <2>a DEF StartFails, DaemonPCs
  <2>4. CASE GetRequest(d) \/ GetInterrupted(d) \/ NestedCall(d)
    BY <2>4, <2>a DEF GetRequest, GetInterrupted, NestedCall, DaemonPCs
  <2>5. CASE TakeRequest(d)
    BY <2>5, <2>a DEF TakeRequest, DaemonPCs
  <2>6. CASE Answer(d)
    BY <2>6, <2>a DEF Answer, DaemonPCs
  <2>7. CASE Done(d)
    BY <2>7, <2>a DEF Done, DaemonPCs
  <2>8. CASE Exit(d) \/ Kill(d)
    BY <2>8, <2>a DEF Exit, Kill, Detach, BeginStop, DaemonPCs
  <2>9. CASE StopFinish(d)
    BY <2>9, <2>a DEF StopFinish, EndStop, DaemonPCs
  <2>10. CASE StopInterrupted(d)
    BY <2>10, <2>a DEF StopInterrupted, DaemonPCs
  <2> QED
    BY <1>c, <2>1, <2>2, <2>3, <2>4, <2>5, <2>6, <2>7, <2>8, <2>9, <2>10 DEF DaemonStep
<1>d. CASE UNCHANGED vars
  BY <1>d DEF vars, semaphores, buffers, clients, daemons
<1> QED BY <1>b, <1>c, <1>d DEF Next

THEOREM TypeCorrect == Spec => []TypeOK
<1>1. Init => TypeOK
  BY DEF Init, TypeOK, ClientPCs, DaemonPCs, Results
<1> QED BY <1>1, TypeNext, PTL DEF Spec

-----------------------------------------------------------------------------
(***************************************************************************)
(* The driver never takes a request to a process that is gone or that has  *)
(* begun to stop, whatever the faults and however many daemons are started *)
(* at once.                                                                *)
(***************************************************************************)
THEOREM DriverKnowsDaemon == Spec => []RegisteredIsAlive
<1>1. Init => RegisteredIsAlive
  BY DaemonsAssumption DEF Init, RegisteredIsAlive
<1>2. TypeOK /\ RegisteredIsAlive /\ [Next]_vars => RegisteredIsAlive'
  <2> SUFFICES ASSUME TypeOK, RegisteredIsAlive, [Next]_vars PROVE RegisteredIsAlive'
    OBVIOUS
  <2> USE DaemonsAssumption DEF TypeOK, RegisteredIsAlive
  <2>1. ASSUME NEW c \in Clients, ClientStep(c) PROVE RegisteredIsAlive'
    <3>1. pidDaemon' \in {pidDaemon, None} /\ dpc' = dpc
      BY <2>1 DEF ClientStep, CallRefused, Enter, AcquireRefused, AcquireInterrupted,
         Acquire, Fill, FillFails, Wake, CopyOut, CopyOutFails, UndoFindFirst,
         UndoWake, WaitInterrupted, Reset, BeginStop, ResetFinish, EndStop, daemons
    <3> QED BY <3>1
  <2>2. ASSUME NEW d \in Daemons, DaemonStep(d) PROVE RegisteredIsAlive'
    <3>1. CASE BeginStart(d) \/ EndStart(d) \/ StartFails(d)
      BY <3>1 DEF BeginStart, EndStart, StartFails, Goto
    <3>2. CASE GetRequest(d) \/ TakeRequest(d) \/ GetInterrupted(d)
      BY <3>2 DEF GetRequest, TakeRequest, GetInterrupted, Goto
    <3>3. CASE NestedCall(d) \/ Answer(d) \/ Done(d)
      BY <3>3 DEF NestedCall, Answer, Done, Goto
    <3>4. CASE Exit(d) \/ Kill(d)
      BY <3>4 DEF Exit, Kill, Detach, BeginStop, Goto
    <3>5. CASE StopFinish(d) \/ StopInterrupted(d)
      BY <3>5 DEF StopFinish, EndStop, StopInterrupted, Goto
    <3> QED BY <2>2, <3>1, <3>2, <3>3, <3>4, <3>5 DEF DaemonStep
  <2>3. CASE UNCHANGED vars
    BY <2>3 DEF vars, daemons
  <2> QED BY <2>1, <2>2, <2>3 DEF Next
<1> QED BY <1>1, <1>2, TypeCorrect, PTL DEF Spec

-----------------------------------------------------------------------------
(***************************************************************************)
(* A call whose daemon goes away is woken up, provided that the calls      *)
(* signal promptly: then the only way to set the semaphore it waits for is *)
(* to find a daemon first, and every way for a daemon to go clears it.     *)
(* This needs no other assumption: any faults, any number of daemons.      *)
(***************************************************************************)
PromptCalls == \A o \in Ops : Prompt(o)

PromptInv ==
  /\ \A c \in Clients : cpc[c] \notin {"fill", "undowait"}
  /\ NoLostWakeup

THEOREM WakeupNotLost == PromptCalls => (Spec => []NoLostWakeup)
<1> SUFFICES ASSUME PromptCalls PROVE Spec => []NoLostWakeup
  OBVIOUS
<1>1. Init => PromptInv
  BY DEF Init, PromptInv, NoLostWakeup
<1>2. TypeOK /\ PromptInv /\ [Next]_vars => PromptInv'
  <2> SUFFICES ASSUME TypeOK, PromptInv, [Next]_vars PROVE PromptInv'
    OBVIOUS
  <2> USE DaemonsAssumption DEF TypeOK, PromptInv, NoLostWakeup
  <2>0. \A c \in Clients : op[c].in = "none" /\ op[c].out # "undo"
    BY DEF PromptCalls, Prompt, NoOp, Handler
  <2>1. ASSUME NEW c \in Clients, ClientStep(c) PROVE PromptInv'
    <3> USE DEF Return, ReleaseAndExit, SignalDaemon
    <3>1. CASE CallRefused(c) \/ Enter(c) \/ AcquireRefused(c) \/ AcquireInterrupted(c)
      BY <3>1 DEF CallRefused, Enter, AcquireRefused, AcquireInterrupted, semaphores
    <3>2. CASE Acquire(c)
      BY <3>2, <2>0 DEF Acquire, DaemonStillThere, semaphores
    <3>3. CASE Fill(c) \/ FillFails(c) \/ UndoWake(c)
      BY <3>3 DEF Fill, FillFails, UndoWake
    <3>4. CASE Wake(c)
      BY <3>4 DEF Wake, semaphores
    <3>5. CASE CopyOut(c) \/ CopyOutFails(c) \/ WaitInterrupted(c)
      BY <3>5 DEF CopyOut, CopyOutFails, WaitInterrupted
    <3>6. CASE UndoFindFirst(c)
      BY <3>6, <2>0 DEF UndoFindFirst
    <3>7. CASE Reset(c) \/ ResetFinish(c)
      BY <3>7 DEF Reset, BeginStop, ResetFinish, EndStop, semaphores
    <3> QED BY <2>1, <3>1, <3>2, <3>3, <3>4, <3>5, <3>6, <3>7 DEF ClientStep
  <2>2. ASSUME NEW d \in Daemons, DaemonStep(d) PROVE PromptInv'
    <3>0. cpc' = cpc
      BY <2>2 DEF DaemonStep, BeginStart, EndStart, StartFails, GetRequest, TakeRequest,
         GetInterrupted, NestedCall, Answer, Done, Exit, Kill, Detach, StopFinish,
         StopInterrupted, clients
    <3>1. CASE EndStart(d)
      BY <3>0, <3>1 DEF EndStart
    <3>2. CASE Done(d)
      BY <3>0, <3>2 DEF Done
    <3>3. CASE Exit(d) \/ Kill(d)
      BY <3>0, <3>3 DEF Exit, Kill, Detach, BeginStop, semaphores
    <3>4. CASE ~(EndStart(d) \/ Done(d) \/ Exit(d) \/ Kill(d))
      <4>1. pidDaemon' = pidDaemon /\ semRqDone' = semRqDone
        BY <2>2, <3>4 DEF DaemonStep, BeginStart, StartFails, GetRequest, TakeRequest,
           GetInterrupted, NestedCall, Answer, StopFinish, EndStop, StopInterrupted,
           semaphores
      <4> QED BY <3>0, <4>1
    <3> QED BY <3>1, <3>2, <3>3, <3>4
  <2>3. CASE UNCHANGED vars
    BY <2>3 DEF vars, semaphores, clients
  <2> QED BY <2>1, <2>2, <2>3 DEF Next
<1>3. PromptInv => NoLostWakeup
  BY DEF PromptInv
<1> QED BY <1>1, <1>2, <1>3, TypeCorrect, PTL DEF Spec

-----------------------------------------------------------------------------
(***************************************************************************)
(* Who holds the exchange, and whose request and results are in it: the    *)
(* inductive invariant behind mutual exclusion, valid buffers, served      *)
(* callers and own replies, for any number of threads and any calls that   *)
(* never signal the daemon without holding the exchange.                   *)
(*                                                                         *)
(* All of it is about one daemon at a time.  A second process that starts  *)
(* while the first one is still stopping sets the exchange free under the  *)
(* feet of a thread that holds it ("Set up the semaphores" in              *)
(* daemonStarted), and a reset makes the registered process forget that it *)
(* has to wait.                                                            *)
(***************************************************************************)

\* What the theorems assume.
OneDaemon      == \A d, e \in Daemons : d = e
KeepingCalls   == \A o \in Ops : KeepsExchange(o)
ReturningCalls == \A o \in Ops : ReturnsExchange(o)
OrderlyFaults  == "stop_interrupted" \notin Faults /\ "reset" \notin Faults

\* The driver knows of the daemon from the end of daemonStarted until
\* daemonStopped begins.
Attached ==
  \A d \in Daemons :
    pidDaemon = d <=> dpc[d] \notin {"off", "locking", "stopping"}

\* A call inside has the mutex semaphore.
Held == \A c \in Clients : Exchanging(c) => semSerialize

\* The last daemon has waited for the last call before it went away.
NobodyLeftInside ==
  \A d \in Daemons : dpc[d] \in {"off", "locking"} => \A c \in Clients : ~Exchanging(c)

\* While a daemon is attached, or a call is inside, the buffers are those of
\* a process that exists, and they are locked in memory.
Mapped ==
  /\ pidDaemon # None => xchg = pidDaemon
  /\ pidDaemon # None \/ (\E c \in Clients : Exchanging(c))
       => xchg \in vmlocked /\ dpc[xchg] # "off"

\* No thread issues FSCTL_STUBFSD_RESET.
NoReset == \A c \in Clients : cpc[c] # "reset"

ExchangeInv ==
  /\ Attached
  /\ Held
  /\ MutualExclusion
  /\ NobodyLeftInside
  /\ Mapped
  /\ NoReset

-----------------------------------------------------------------------------
\* What the calls do to the exchange: a call keeps its place, enters, or
\* leaves, and none of them touches the daemon.
LEMMA ClientMoves ==
  ASSUME TypeOK, KeepingCalls, OrderlyFaults, NoReset,
         NEW c \in Clients, ClientStep(c)
  PROVE  /\ UNCHANGED <<pidDaemon, xchg, vmlocked, daemons>>
         /\ \A b \in Clients : b # c => cpc'[b] = cpc[b]
         /\ cpc'[c] # "reset"
         /\ \/ (Exchanging(c)' <=> Exchanging(c)) /\ semSerialize' = semSerialize
            \/ ~semSerialize /\ pidDaemon # None /\ semSerialize' /\ cpc[c] = "request"
            \/ Exchanging(c) /\ ~Exchanging(c)'
<1> USE DEF TypeOK, Exchanging, NoReset
<1>0. op[c].in # "unlocked"
  BY DEF KeepingCalls, KeepsExchange, NoOp, Handler
<1>1. CASE CallRefused(c) \/ Enter(c)
  BY <1>1 DEF CallRefused, Enter, semaphores, buffers
<1>2. CASE AcquireRefused(c) \/ AcquireInterrupted(c)
  BY <1>2 DEF AcquireRefused, AcquireInterrupted, Return, semaphores, buffers
<1>3. CASE Acquire(c)
  BY <1>3 DEF Acquire, Return, PutRequest, DaemonStillThere, semaphores
<1>4. CASE Fill(c)
  BY <1>4 DEF Fill, buffers
<1>5. CASE FillFails(c)
  BY <1>5, <1>0 DEF FillFails, Return, buffers
<1>6. CASE Wake(c)
  BY <1>6 DEF Wake, ReleaseAndExit, Return, semaphores, buffers
<1>7. CASE CopyOut(c) \/ CopyOutFails(c) \/ UndoWake(c) \/ WaitInterrupted(c)
  BY <1>7 DEF CopyOut, CopyOutFails, UndoWake, WaitInterrupted, ReleaseAndExit, Return, buffers
<1>8. CASE UndoFindFirst(c)
  BY <1>8 DEF UndoFindFirst, PutRequest
<1>9. CASE Reset(c) \/ ResetFinish(c)
  BY <1>9 DEF OrderlyFaults, Reset, ResetFinish
<1> QED BY <1>1, <1>2, <1>3, <1>4, <1>5, <1>6, <1>7, <1>8, <1>9 DEF ClientStep

\* A step of a client keeps the first part of the invariant.
LEMMA ClientKeepsExchange ==
  ASSUME TypeOK, OneDaemon, KeepingCalls, OrderlyFaults, ExchangeInv,
         NEW c \in Clients, ClientStep(c)
  PROVE  ExchangeInv'
<1> USE DEF TypeOK, ExchangeInv
<1> DEFINE Stays  == (Exchanging(c)' <=> Exchanging(c)) /\ semSerialize' = semSerialize
           Enters == ~semSerialize /\ pidDaemon # None /\ semSerialize' /\ cpc[c] = "request"
           Leaves == Exchanging(c) /\ ~Exchanging(c)'
<1>1. /\ UNCHANGED <<pidDaemon, xchg, vmlocked, dpc>>
      /\ \A b \in Clients : b # c => (Exchanging(b)' <=> Exchanging(b))
      /\ NoReset'
      /\ Stays \/ Enters \/ Leaves
  BY ClientMoves DEF Exchanging, NoReset, daemons
<1> HIDE DEF Stays, Enters, Leaves
<1>2. Attached'
  BY <1>1 DEF Attached
<1>3. Held' /\ MutualExclusion'
  <2>1. CASE Stays
    BY <1>1, <2>1 DEF Stays, Held, MutualExclusion
  <2>2. CASE Enters
    BY <1>1, <2>2 DEF Enters, Held, MutualExclusion
  <2>3. CASE Leaves
    BY <1>1, <2>3 DEF Leaves, Held, MutualExclusion
  <2> QED BY <1>1, <2>1, <2>2, <2>3
<1>4. NobodyLeftInside'
  <2>1. CASE Enters
    BY <1>1, <2>1 DEF Enters, NobodyLeftInside, Attached, OneDaemon
  <2>2. CASE Stays \/ Leaves
    BY <1>1, <2>2 DEF Stays, Leaves, NobodyLeftInside
  <2> QED BY <1>1, <2>1, <2>2
<1>5. Mapped'
  BY <1>1 DEF Stays, Enters, Leaves, Mapped
<1> QED BY <1>1, <1>2, <1>3, <1>4, <1>5

\* A step of the daemon keeps it.
LEMMA DaemonKeepsExchange ==
  ASSUME TypeOK, OneDaemon, OrderlyFaults, ExchangeInv,
         NEW d \in Daemons, DaemonStep(d)
  PROVE  ExchangeInv'
<1> USE DaemonsAssumption DEF TypeOK, ExchangeInv, OneDaemon, Goto
<1>1. cpc' = cpc /\ MutualExclusion' /\ NoReset'
  BY DEF DaemonStep, BeginStart, EndStart, StartFails, GetRequest, TakeRequest,
     GetInterrupted, NestedCall, Answer, Done, Exit, Kill, Detach, StopFinish,
     StopInterrupted, clients, MutualExclusion, NoReset, Exchanging
<1>2. \A c \in Clients : Exchanging(c)' <=> Exchanging(c)
  BY <1>1 DEF Exchanging
<1> USE <1>1, <1>2 DEF Attached, Held, NobodyLeftInside, Mapped
<1>3. CASE BeginStart(d)
  BY <1>3 DEF BeginStart, semaphores, buffers
<1>4. CASE EndStart(d)
  BY <1>4 DEF EndStart
<1>5. CASE StartFails(d)
  BY <1>5 DEF StartFails, semaphores
<1>6. CASE GetRequest(d)
  BY <1>6 DEF GetRequest, semaphores, buffers
<1>7. CASE TakeRequest(d) \/ GetInterrupted(d)
  BY <1>7 DEF TakeRequest, GetInterrupted, semaphores, buffers
<1>8. CASE NestedCall(d) \/ Answer(d)
  BY <1>8 DEF NestedCall, Answer, semaphores, buffers
<1>9. CASE Done(d)
  BY <1>9 DEF Done, buffers
<1>10. CASE Exit(d) \/ Kill(d)
  BY <1>10 DEF Exit, Kill, Detach, BeginStop, semaphores, buffers
<1>11. CASE StopFinish(d)
  BY <1>11 DEF StopFinish, EndStop, semaphores
<1>12. CASE StopInterrupted(d)
  BY <1>12 DEF StopInterrupted, OrderlyFaults
<1> QED
  BY <1>3, <1>4, <1>5, <1>6, <1>7, <1>8, <1>9, <1>10, <1>11, <1>12 DEF DaemonStep

\* The first part of the invariant holds throughout.
THEOREM ExchangeHeld ==
  OneDaemon /\ KeepingCalls /\ OrderlyFaults => (Spec => []ExchangeInv)
<1> SUFFICES ASSUME OneDaemon, KeepingCalls, OrderlyFaults PROVE Spec => []ExchangeInv
  OBVIOUS
<1>1. Init => ExchangeInv
  BY DaemonsAssumption
     DEF Init, ExchangeInv, Attached, Held, MutualExclusion, NobodyLeftInside, Mapped,
         NoReset, Exchanging
<1>2. TypeOK /\ ExchangeInv /\ [Next]_vars => ExchangeInv'
  <2> SUFFICES ASSUME TypeOK, ExchangeInv, [Next]_vars PROVE ExchangeInv'
    OBVIOUS
  <2>1. CASE UNCHANGED vars
    BY <2>1 DEF vars, semaphores, buffers, clients, daemons, ExchangeInv, Attached,
       Held, MutualExclusion, NobodyLeftInside, Mapped, NoReset, Exchanging
  <2> QED BY <2>1, ClientKeepsExchange, DaemonKeepsExchange DEF Next
<1> QED BY <1>1, <1>2, TypeCorrect, PTL DEF Spec

(***************************************************************************)
(* "This mutex semaphore serializes access to the exchange buffers"        *)
(* (stubfsd.c:50): no two calls are inside at once, for any number of      *)
(* threads, whenever the daemon stops, dies or comes back.                 *)
(***************************************************************************)
THEOREM ExchangeIsExclusive ==
  OneDaemon /\ KeepingCalls /\ OrderlyFaults => (Spec => []MutualExclusion)
<1>1. ExchangeInv => MutualExclusion
  BY DEF ExchangeInv
<1> QED BY <1>1, ExchangeHeld, PTL

(***************************************************************************)
(* A thread that is about to touch the exchange buffers finds them locked  *)
(* and their owner alive: daemonStopped waits for the exchange before it   *)
(* unlocks them (stubfsd.c:261-270).                                       *)
(***************************************************************************)
THEOREM BuffersStayValid ==
  OneDaemon /\ KeepingCalls /\ OrderlyFaults => (Spec => []BuffersValid)
<1>1. ExchangeInv => BuffersValid
  BY DEF ExchangeInv, Mapped, BuffersValid, Exchanging
<1> QED BY <1>1, ExchangeHeld, PTL

\* What the calls do to the mutex semaphore, when none of them keeps it.
LEMMA ClientReturns ==
  ASSUME TypeOK, KeepingCalls, ReturningCalls, OrderlyFaults, NoReset,
         NEW c \in Clients, ClientStep(c)
  PROVE  \/ semSerialize' = semSerialize /\ (Exchanging(c) => Exchanging(c)')
         \/ semSerialize' /\ Exchanging(c)'
         \/ ~semSerialize'
<1> USE DEF TypeOK, Exchanging, NoReset
<1>0. op[c].in \notin {"unlocked", "leak"}
  BY DEF KeepingCalls, KeepsExchange, ReturningCalls, ReturnsExchange, NoOp, Handler
<1>1. CASE CallRefused(c) \/ Enter(c) \/ AcquireRefused(c) \/ AcquireInterrupted(c)
  BY <1>1 DEF CallRefused, Enter, AcquireRefused, AcquireInterrupted, Return, semaphores
<1>2. CASE Acquire(c) \/ Fill(c)
  BY <1>2 DEF Acquire, Fill, Return, semaphores
<1>3. CASE FillFails(c)
  BY <1>0, <1>3 DEF FillFails
<1>4. CASE Wake(c) \/ CopyOut(c) \/ CopyOutFails(c) \/ UndoWake(c) \/ WaitInterrupted(c)
  BY <1>4 DEF Wake, CopyOut, CopyOutFails, UndoWake, WaitInterrupted, ReleaseAndExit,
     semaphores
<1>5. CASE UndoFindFirst(c)
  BY <1>5 DEF UndoFindFirst
<1>6. CASE Reset(c) \/ ResetFinish(c)
  BY <1>6 DEF OrderlyFaults, Reset, ResetFinish
<1> QED BY <1>1, <1>2, <1>3, <1>4, <1>5, <1>6 DEF ClientStep

(***************************************************************************)
(* The mutex semaphore is taken exactly while a call is inside, whatever   *)
(* errors the calls run into, when each of them gives it back on every     *)
(* path.  FS_IOCTL and the searches with a list of extended attributes do  *)
(* not (stubfsd.c:579-583, 1559, 1621, 1680).                              *)
(***************************************************************************)
THEOREM ExchangeReturned ==
  OneDaemon /\ KeepingCalls /\ ReturningCalls /\ OrderlyFaults => (Spec => []SerializeExact)
<1> SUFFICES ASSUME OneDaemon, KeepingCalls, ReturningCalls, OrderlyFaults
             PROVE  Spec => []SerializeExact
  OBVIOUS
<1>1. Init => SerializeExact
  BY DEF Init, SerializeExact, Exchanging
<1>2. TypeOK /\ ExchangeInv /\ ExchangeInv' /\ SerializeExact /\ [Next]_vars => SerializeExact'
  <2> SUFFICES ASSUME TypeOK, ExchangeInv, ExchangeInv', SerializeExact, [Next]_vars
               PROVE  SerializeExact'
    OBVIOUS
  <2>0. /\ \A c \in Clients : Exchanging(c)' => semSerialize'
        /\ NoReset
    BY DEF ExchangeInv, Held
  <2>1. ASSUME NEW c \in Clients, ClientStep(c) PROVE SerializeExact'
    <3>1. \A b \in Clients : b # c => (Exchanging(b)' <=> Exchanging(b))
      BY <2>0, <2>1, ClientMoves DEF Exchanging
    <3> QED BY <2>0, <2>1, <3>1, ClientReturns DEF SerializeExact
  <2>2. ASSUME NEW d \in Daemons, DaemonStep(d) PROVE SerializeExact'
    <3>1. cpc' = cpc /\ (semSerialize' = semSerialize \/ semSerialize' = FALSE)
      BY <2>2 DEF DaemonStep, BeginStart, EndStart, SetUpSemaphores, StartFails, GetRequest,
         TakeRequest, GetInterrupted, NestedCall, Answer, Done, Exit, Kill, Detach,
         BeginStop, StopFinish, EndStop, StopInterrupted, clients, semaphores
    <3> QED BY <2>0, <3>1 DEF SerializeExact, Exchanging
  <2>3. CASE UNCHANGED vars
    BY <2>3 DEF vars, semaphores, clients, SerializeExact, Exchanging
  <2> QED BY <2>1, <2>2, <2>3 DEF Next
<1> QED BY <1>1, <1>2, ExchangeHeld, TypeCorrect, PTL DEF Spec

-----------------------------------------------------------------------------
Waiting(c) == cpc[c] \in {"wait", "undowait"}

\* The request a waiting thread waits for.
Awaited(c) == IF cpc[c] = "undowait" THEN Undoing(c) ELSE Call(c)

\* The request in the buffers is that of the call inside, until it is done.
OwnRequest ==
  \A c \in Clients : cpc[c] = "fill" \/ Waiting(c) => rq = Awaited(c)

\* A daemon at work has the request in the buffers, somebody waits for it,
\* and neither semaphore is posted.
Turn ==
  \A d \in Daemons : Serving(d) =>
    /\ rq = handling[d]
    /\ \E c \in Clients : Waiting(c)
    /\ semRqAvail /\ semRqDone

Answered == \A d \in Daemons : dpc[d] = "answered" => reply = handling[d]

\* A posted request is one that is waited for and that nobody serves yet.
Posted ==
  pidDaemon # None /\ ~semRqAvail => semRqDone /\ \E c \in Clients : Waiting(c)

\* A wait that ends because of semRqDone ends with the results in place.
Replied ==
  \A c \in Clients :
    Waiting(c) /\ pidDaemon # None /\ ~semRqDone => reply = Awaited(c)

Delivered == \A c \in Clients : cpc[c] = "copyout" => reply = Call(c)

RequestInv ==
  /\ OwnRequest
  /\ Turn
  /\ Answered
  /\ Posted
  /\ Replied
  /\ Delivered
  /\ OwnReply

-----------------------------------------------------------------------------
\* A step of a client keeps the second part of the invariant, when no wait
\* for a reply is interrupted.
LEMMA ClientKeepsRequest ==
  ASSUME TypeOK, KeepingCalls, Faults = {}, ExchangeInv, ExchangeInv', RequestInv,
         NEW c \in Clients, ClientStep(c)
  PROVE  RequestInv'
<1> USE DEF TypeOK, ExchangeInv, RequestInv
<1>0. OrderlyFaults /\ NoReset
  BY DEF OrderlyFaults
<1>1. UNCHANGED <<pidDaemon, dpc, handling>> /\ op[c].in # "unlocked"
  BY <1>0, ClientMoves DEF daemons, KeepingCalls, KeepsExchange, NoOp, Handler
<1>2. \A d \in Daemons : Serving(d)' <=> Serving(d)
  BY <1>1 DEF Serving
<1>3. \A b \in Clients : b # c => cpc'[b] = cpc[b] /\ ret'[b] = ret[b]
  BY DEF ClientStep, CallRefused, Enter, AcquireRefused, AcquireInterrupted, Acquire, Fill,
     FillFails, Wake, CopyOut, CopyOutFails, UndoFindFirst, UndoWake, WaitInterrupted,
     Reset, ResetFinish, ReleaseAndExit, Return
\* The call neither enters nor leaves the wait, nor touches the buffers.
<1>4. ASSUME UNCHANGED <<rq, reply, semRqAvail, semRqDone>>,
             ~Waiting(c), cpc'[c] \in {"idle", "request"}, ret'[c] # "stale"
      PROVE  RequestInv'
  <2> USE <1>1, <1>3, <1>4 DEF Waiting, Awaited, Call, Undoing
  <2>1. OwnRequest' /\ Replied' /\ Delivered' /\ OwnReply'
    BY DEF OwnRequest, Replied, Delivered, OwnReply
  <2>2. Turn' /\ Answered'
    BY <1>2 DEF Turn, Answered
  <2>3. Posted'
    BY DEF Posted
  <2> QED BY <2>1, <2>2, <2>3
\* The call takes the exchange, or goes on with it, and nobody else is inside.
<1>5. ASSUME \A b \in Clients : b # c => ~Exchanging(b), ~Waiting(c),
             cpc'[c] # "copyout", ret'[c] # "stale",
             cpc'[c] = "fill" \/ Waiting(c)' => rq' = Awaited(c)',
             IF Waiting(c)' THEN SignalDaemon ELSE UNCHANGED <<semRqAvail, semRqDone>>
      PROVE  RequestInv'
  <2>1. \A b \in Clients : ~Waiting(b)
    BY <1>5 DEF Exchanging, Waiting
  <2>2. \A d \in Daemons : ~Serving(d)'
    BY <2>1, <1>2 DEF Turn
  <2>3. Turn' /\ Answered'
    BY <2>2 DEF Turn, Answered, Serving
  <2>4. \A b \in Clients : Waiting(b)' \/ cpc'[b] \in {"fill", "copyout"} => b = c
    BY <1>3, <1>5 DEF Exchanging, Waiting
  <2>5. OwnRequest' /\ Delivered' /\ Replied'
    BY <1>5, <2>4 DEF OwnRequest, Delivered, Replied, Waiting, SignalDaemon
  <2>6. Posted'
    BY <1>1, <1>5, <2>1 DEF Posted, SignalDaemon, Waiting
  <2>7. OwnReply'
    BY <1>3, <1>5 DEF OwnReply
  <2> QED BY <2>3, <2>5, <2>6, <2>7
\* The call leaves the wait for the reply, or the driver.
<1>6. ASSUME Exchanging(c), UNCHANGED <<rq, reply, semRqAvail, semRqDone>>,
             cpc'[c] \in {"idle", "copyout"}, ret'[c] # "stale",
             Waiting(c) => ~semRqDone,
             cpc'[c] = "copyout" => reply = Call(c)
      PROVE  RequestInv'
  <2>1. \A b \in Clients : b # c => ~Waiting(b) /\ cpc[b] \notin {"fill", "copyout"}
    BY <1>6 DEF MutualExclusion, Exchanging, Waiting
  <2>2. \A d \in Daemons : ~Serving(d)
    BY <1>6, <2>1 DEF Turn
  <2>3. Turn' /\ Answered'
    BY <1>2, <2>2 DEF Turn, Answered, Serving
  <2>4. \A b \in Clients : ~Waiting(b)' /\ cpc'[b] # "fill"
    BY <1>3, <1>6, <2>1 DEF Waiting
  <2>5. OwnRequest' /\ Replied'
    BY <2>4 DEF OwnRequest, Replied, Waiting
  <2>6. Delivered' /\ OwnReply'
    BY <1>3, <1>6, <2>1 DEF Delivered, OwnReply
  <2>7. Posted'
    BY <1>1, <1>6, <2>1 DEF Posted
  <2> QED BY <2>3, <2>5, <2>6, <2>7
<1>7. CASE CallRefused(c) \/ Enter(c)
  BY <1>7, <1>4 DEF CallRefused, Enter, OwnReply, Waiting, semaphores, buffers
<1>8. CASE AcquireRefused(c) \/ AcquireInterrupted(c)
  BY <1>8, <1>4 DEF AcquireRefused, AcquireInterrupted, Return, Waiting, semaphores, buffers
<1>9. CASE Acquire(c)
  <2>1. \A b \in Clients : ~Exchanging(b)
    BY <1>9 DEF Acquire, Held
  <2>2. ~Waiting(c) /\ cpc'[c] \in {"idle", "fill", "wait"}
    BY <1>9 DEF Acquire, Return, Waiting
  <2>3. rq' = Call(c) /\ ret'[c] # "stale"
    BY <1>9 DEF Acquire, Return, PutRequest, OwnReply
  <2>4. (cpc'[c] = "wait" => SignalDaemon) /\
        (cpc'[c] # "wait" => UNCHANGED <<semRqAvail, semRqDone>>)
    BY <1>9 DEF Acquire, Return, semaphores
  <2> QED BY <1>5, <2>1, <2>2, <2>3, <2>4 DEF Waiting, Awaited, Call
<1>10. CASE Fill(c)
  <2>1. Exchanging(c) /\ ~Waiting(c) /\ rq = Call(c)
    BY <1>10 DEF Fill, Exchanging, Waiting, OwnRequest, Awaited
  <2>2. \A b \in Clients : b # c => ~Exchanging(b)
    BY <2>1 DEF MutualExclusion
  <2>3. cpc'[c] = "wait" /\ rq' = rq /\ ret'[c] # "stale" /\ SignalDaemon
    BY <1>10 DEF Fill, OwnReply, buffers
  <2> QED BY <1>5, <2>1, <2>2, <2>3 DEF Waiting, Awaited, Call
<1>11. CASE FillFails(c)
  <2>1. Exchanging(c) /\ ~Waiting(c)
    BY <1>11 DEF FillFails, Exchanging, Waiting
  <2>2. \A b \in Clients : b # c => ~Exchanging(b)
    BY <2>1 DEF MutualExclusion
  <2>3. /\ cpc'[c] = "idle" /\ ret'[c] # "stale"
        /\ UNCHANGED <<semRqAvail, semRqDone>>
    BY <1>1, <1>11 DEF FillFails, Return, semaphores
  <2> QED BY <1>5, <2>1, <2>2, <2>3 DEF Waiting
<1>12. CASE Wake(c)
  <2>1. /\ Exchanging(c) /\ ~semRqDone
        /\ UNCHANGED <<rq, reply, semRqAvail, semRqDone>>
    BY <1>12 DEF Wake, ReleaseAndExit, Exchanging, semaphores, buffers
  <2>2. pidDaemon # None => reply = Call(c)
    BY <1>12 DEF Wake, Replied, Waiting, Awaited
  <2>3. /\ cpc'[c] \in {"idle", "copyout"} /\ ret'[c] # "stale"
        /\ cpc'[c] = "copyout" => pidDaemon # None
    BY <1>12, <2>2 DEF Wake, ReleaseAndExit, Return, Outcome, OwnReply
  <2> QED BY <1>6, <2>1, <2>2, <2>3
<1>13. CASE CopyOut(c) \/ CopyOutFails(c) \/ UndoWake(c)
  <2>1. /\ Exchanging(c) /\ cpc'[c] = "idle"
        /\ UNCHANGED <<rq, reply, semRqAvail, semRqDone>>
        /\ Waiting(c) => ~semRqDone
    BY <1>13 DEF CopyOut, CopyOutFails, UndoWake, ReleaseAndExit, Return, Exchanging,
       Waiting, buffers
  <2>2. ret'[c] # "stale"
    BY <1>13 DEF CopyOut, CopyOutFails, UndoWake, ReleaseAndExit, Return, Outcome, Delivered
  <2> QED BY <1>6, <2>1, <2>2
<1>14. CASE UndoFindFirst(c)
  <2>1. Exchanging(c) /\ ~Waiting(c)
    BY <1>14 DEF UndoFindFirst, Exchanging, Waiting
  <2>2. \A b \in Clients : b # c => ~Exchanging(b)
    BY <2>1 DEF MutualExclusion
  <2>3. /\ cpc'[c] = "undowait" /\ ret'[c] # "stale"
        /\ rq' = Undoing(c) /\ SignalDaemon
    BY <1>14 DEF UndoFindFirst, PutRequest, OwnReply
  <2> QED BY <1>5, <2>1, <2>2, <2>3 DEF Waiting, Awaited, Undoing
<1>15. CASE WaitInterrupted(c) \/ Reset(c) \/ ResetFinish(c)
  BY <1>0, <1>15 DEF WaitInterrupted, Reset, ResetFinish, NoReset
<1> QED
  BY <1>7, <1>8, <1>9, <1>10, <1>11, <1>12, <1>13, <1>14, <1>15 DEF ClientStep

\* A step of the daemon keeps it.
LEMMA DaemonKeepsRequest ==
  ASSUME TypeOK, OneDaemon, Faults = {}, ExchangeInv, RequestInv,
         NEW d \in Daemons, DaemonStep(d)
  PROVE  RequestInv'
<1> USE DaemonsAssumption
    DEF TypeOK, OneDaemon, RequestInv, Waiting, Awaited, Call, Undoing, Serving
<1>1. cpc' = cpc /\ ret' = ret
  BY DEF DaemonStep, BeginStart, EndStart, StartFails, GetRequest, TakeRequest,
     GetInterrupted, NestedCall, Answer, Done, Exit, Kill, Detach, StopFinish,
     StopInterrupted, clients
<1>2. OwnReply'
  BY <1>1 DEF OwnReply
<1>3. Attached /\ Mapped /\ NobodyLeftInside /\ MutualExclusion
  BY DEF ExchangeInv
<1>4. \A c \in Clients : Waiting(c) => Exchanging(c) /\ cpc[c] # "copyout"
  BY DEF Exchanging
\* The request, the results and the semaphores stay as they are.
<1>5. ASSUME UNCHANGED <<rq, reply, semRqAvail, semRqDone, handling>>,
             pidDaemon' \in {pidDaemon, None},
             Serving(d)' => Serving(d), dpc'[d] = "answered" => dpc[d] = "answered"
      PROVE  RequestInv'
  BY <1>1, <1>2, <1>5 DEF OwnRequest, Turn, Answered, Posted, Replied, Delivered
<1>6. CASE BeginStart(d) \/ GetRequest(d) \/ GetInterrupted(d) \/ NestedCall(d)
  BY <1>5, <1>6
     DEF BeginStart, GetRequest, GetInterrupted, NestedCall, Goto, semaphores, buffers
<1>7. CASE StartFails(d) \/ StopFinish(d) \/ StopInterrupted(d)
  BY <1>5, <1>7
     DEF StartFails, StopFinish, EndStop, StopInterrupted, Goto, semaphores, buffers
<1>8. CASE EndStart(d)
  <2>1. \A c \in Clients : ~Exchanging(c)
    BY <1>3, <1>8 DEF EndStart, NobodyLeftInside
  <2>2. semRqAvail' /\ \A e \in Daemons : ~Serving(e)'
    BY <1>8 DEF EndStart, SetUpSemaphores, Goto
  <2>3. \A c \in Clients : ~Waiting(c)' /\ cpc'[c] \notin {"fill", "copyout"}
    BY <1>1, <1>2, <1>4, <2>1 DEF Exchanging
  <2> QED
    BY <1>2, <2>2, <2>3
       DEF OwnRequest, Turn, Answered, Posted, Replied, Delivered
<1>9. CASE TakeRequest(d)
  <2>1. pidDaemon = d /\ xchg = d
    BY <1>3, <1>9 DEF TakeRequest, Attached, Mapped
  <2>2. /\ handling'[d] = rq /\ semRqAvail' /\ semRqDone' = semRqDone
        /\ UNCHANGED <<rq, reply, pidDaemon>> /\ dpc'[d] = "working"
    BY <1>9, <2>1 DEF TakeRequest, Goto, buffers
  <2>3. semRqDone /\ \E c \in Clients : Waiting(c)
    BY <1>9, <2>1 DEF TakeRequest, Posted
  <2>4. OwnRequest' /\ Replied' /\ Delivered' /\ Posted'
    BY <1>1, <1>2, <2>2 DEF OwnRequest, Replied, Delivered, Posted
  <2>5. Turn' /\ Answered'
    BY <1>1, <2>2, <2>3 DEF Turn, Answered
  <2> QED BY <1>2, <2>4, <2>5
<1>10. CASE Answer(d)
  <2>1. Serving(d) /\ pidDaemon = d /\ xchg = d
    BY <1>3, <1>10 DEF Answer, Attached, Mapped
  <2>2. /\ reply' = handling[d] /\ dpc'[d] = "answered"
        /\ UNCHANGED <<rq, semRqAvail, semRqDone, pidDaemon, handling>>
    BY <1>10, <2>1 DEF Answer, Goto, semaphores
  <2>3. semRqDone /\ \A c \in Clients : cpc[c] # "copyout"
    BY <1>3, <1>4, <2>1 DEF Turn, MutualExclusion, Exchanging
  <2>4. OwnRequest' /\ Replied' /\ Delivered' /\ Posted'
    BY <1>1, <1>2, <2>2, <2>3 DEF OwnRequest, Replied, Delivered, Posted
  <2>5. Turn' /\ Answered'
    BY <1>1, <2>1, <2>2 DEF Turn, Answered
  <2> QED BY <1>2, <2>4, <2>5
<1>11. CASE Done(d)
  <2>1. Serving(d) /\ pidDaemon = d
    BY <1>3, <1>11 DEF Done, Attached
  <2>2. /\ ~semRqDone' /\ ~Serving(d)'
        /\ UNCHANGED <<rq, reply, semRqAvail, pidDaemon, handling>>
    BY <1>11, <2>1 DEF Done, Goto, buffers
  <2>3. semRqAvail /\ reply = rq
    BY <1>11, <2>1 DEF Turn, Answered, Done
  <2>4. Replied'
    BY <1>1, <2>2, <2>3 DEF Replied, OwnRequest
  <2>5. OwnRequest' /\ Delivered' /\ Posted'
    BY <1>1, <1>2, <2>2, <2>3 DEF OwnRequest, Delivered, Posted
  <2>6. Turn' /\ Answered'
    BY <2>2 DEF Turn, Answered
  <2> QED BY <1>2, <2>4, <2>5, <2>6
<1>12. CASE Exit(d) \/ Kill(d)
  <2>1. pidDaemon = d
    BY <1>3, <1>12 DEF Exit, Kill, Attached
  <2>2. pidDaemon' = None /\ ~Serving(d)' /\ UNCHANGED <<rq, reply, handling>>
    BY <1>12, <2>1 DEF Exit, Kill, Detach, BeginStop, Goto, buffers
  <2> QED
    BY <1>1, <1>2, <2>2
       DEF OwnRequest, Turn, Answered, Posted, Replied, Delivered
<1> QED
  BY <1>6, <1>7, <1>8, <1>9, <1>10, <1>11, <1>12 DEF DaemonStep

\* The whole invariant holds throughout.
THEOREM RequestHeld ==
  OneDaemon /\ KeepingCalls /\ Faults = {} => (Spec => []RequestInv)
<1> SUFFICES ASSUME OneDaemon, KeepingCalls, Faults = {} PROVE Spec => []RequestInv
  OBVIOUS
<1>0. OrderlyFaults
  BY DEF OrderlyFaults
<1>1. Init => RequestInv
  BY DEF Init, RequestInv, OwnRequest, Turn, Answered, Posted, Replied, Delivered,
     OwnReply, Waiting, Serving
<1>2. TypeOK /\ ExchangeInv /\ ExchangeInv' /\ RequestInv /\ [Next]_vars => RequestInv'
  <2> SUFFICES ASSUME TypeOK, ExchangeInv, ExchangeInv', RequestInv, [Next]_vars
               PROVE  RequestInv'
    OBVIOUS
  <2>1. CASE UNCHANGED vars
    BY <2>1 DEF vars, semaphores, buffers, clients, daemons, RequestInv, OwnRequest, Turn,
       Answered, Posted, Replied, Delivered, OwnReply, Waiting, Awaited, Call, Undoing, Serving
  <2> QED BY <2>1, ClientKeepsRequest, DaemonKeepsRequest DEF Next
<1>3. Spec => []ExchangeInv
  BY <1>0, ExchangeHeld
<1> QED BY <1>1, <1>2, <1>3, TypeCorrect, PTL DEF Spec

(***************************************************************************)
(* No call returns the results of another call: when a wait for a reply    *)
(* ends and a daemon is attached, the results in the buffers are those of  *)
(* the request the thread sent, provided no signal ends the wait.          *)
(***************************************************************************)
THEOREM RepliesAreOwn ==
  OneDaemon /\ KeepingCalls /\ Faults = {} => (Spec => []OwnReply)
<1>1. RequestInv => OwnReply
  BY DEF RequestInv
<1> QED BY <1>1, RequestHeld, PTL

(***************************************************************************)
(* A request the daemon carries out stays in the buffers, and its caller   *)
(* waits, until the daemon is done with it.                                *)
(***************************************************************************)
THEOREM CallersWait ==
  OneDaemon /\ KeepingCalls /\ Faults = {} => (Spec => []ServesWaitingCaller)
<1>1. RequestInv => ServesWaitingCaller
  BY DEF RequestInv, Turn, OwnRequest, ServesWaitingCaller, Waiting, Awaited
<1> QED BY <1>1, RequestHeld, PTL

-----------------------------------------------------------------------------
(***************************************************************************)
(* The exchange implements RemoteCall, for any number of threads: on top   *)
(* of the invariant above, every step of a thread or of the daemon is a    *)
(* step of the abstract calls or changes nothing there.                    *)
(***************************************************************************)

(***************************************************************************)
(* A call that waits while a daemon is attached has its request on the     *)
(* way: posted, being served, or done (signalDaemonAndWait against         *)
(* FSCTL_STUBFSD_GET_REQUEST and DONE_REQUEST).  Signals that end waits    *)
(* for replies do no harm to this.                                         *)
(***************************************************************************)
THEOREM RequestNotLost ==
  OneDaemon /\ KeepingCalls /\ OrderlyFaults => (Spec => []NoLostRequest)
<1> SUFFICES ASSUME OneDaemon, KeepingCalls, OrderlyFaults PROVE Spec => []NoLostRequest
  OBVIOUS
<1>1. Init => NoLostRequest
  BY DEF Init, NoLostRequest
<1>2. TypeOK /\ ExchangeInv /\ NoLostRequest /\ [Next]_vars => NoLostRequest'
  <2> SUFFICES ASSUME TypeOK, ExchangeInv, NoLostRequest, [Next]_vars
               PROVE  NoLostRequest'
    OBVIOUS
  <2> USE DaemonsAssumption DEF TypeOK, NoLostRequest
  <2>1. ASSUME NEW c \in Clients, ClientStep(c) PROVE NoLostRequest'
    <3>1. /\ UNCHANGED <<pidDaemon, dpc>>
          /\ \A b \in Clients : b # c => cpc'[b] = cpc[b]
          /\ op[c].in # "unlocked" /\ cpc[c] # "reset"
      BY <2>1, ClientMoves
         DEF ExchangeInv, NoReset, daemons, KeepingCalls, KeepsExchange, NoOp, Handler
    <3>2. Serving(pidDaemon)' <=> Serving(pidDaemon)
      BY <3>1 DEF Serving
    <3>3. CASE SignalDaemon
      BY <3>3 DEF SignalDaemon
    <3>4. CASE UNCHANGED <<semRqAvail, semRqDone>> /\ cpc'[c] \notin {"wait", "undowait"}
      BY <3>1, <3>2, <3>4
    <3>5. SignalDaemon \/ (UNCHANGED <<semRqAvail, semRqDone>>
                           /\ cpc'[c] \notin {"wait", "undowait"})
      <4>1. CASE CallRefused(c) \/ Enter(c) \/ AcquireRefused(c) \/ AcquireInterrupted(c)
        BY <4>1 DEF CallRefused, Enter, AcquireRefused, AcquireInterrupted, Return, semaphores
      <4>2. CASE Acquire(c) \/ Fill(c) \/ UndoFindFirst(c)
        BY <4>2 DEF Acquire, Fill, UndoFindFirst, Return, semaphores
      <4>3. CASE FillFails(c)
        BY <3>1, <4>3 DEF FillFails, Return, semaphores
      <4>4. CASE Wake(c)
        BY <4>4 DEF Wake, ReleaseAndExit, Return, semaphores
      <4>5. CASE CopyOut(c) \/ CopyOutFails(c) \/ UndoWake(c) \/ WaitInterrupted(c)
        BY <4>5 DEF CopyOut, CopyOutFails, UndoWake, WaitInterrupted, ReleaseAndExit, Return
      <4>6. CASE Reset(c) \/ ResetFinish(c)
        BY <3>1, <4>6 DEF OrderlyFaults, Reset, ResetFinish
      <4> QED BY <2>1, <4>1, <4>2, <4>3, <4>4, <4>5, <4>6 DEF ClientStep
    <3> QED BY <3>3, <3>4, <3>5
  <2>2. ASSUME NEW d \in Daemons, DaemonStep(d) PROVE NoLostRequest'
    <3> USE DEF Goto, Serving
    <3>0. cpc' = cpc
      BY <2>2 DEF DaemonStep, BeginStart, EndStart, StartFails, GetRequest, TakeRequest,
         GetInterrupted, NestedCall, Answer, Done, Exit, Kill, Detach, StopFinish,
         StopInterrupted, clients
    <3>1. CASE BeginStart(d) \/ StartFails(d) \/ GetRequest(d) \/ GetInterrupted(d)
      BY <3>0, <3>1 DEF BeginStart, StartFails, GetRequest, GetInterrupted, semaphores
    <3>2. CASE EndStart(d)
      BY <3>0, <3>2 DEF EndStart, ExchangeInv, NobodyLeftInside, Exchanging
    <3>3. CASE TakeRequest(d)
      <4>1. pidDaemon = d
        BY <3>3 DEF TakeRequest, ExchangeInv, Attached
      <4> QED BY <3>0, <3>3, <4>1 DEF TakeRequest
    <3>4. CASE NestedCall(d) \/ Answer(d)
      BY <3>0, <3>4 DEF NestedCall, Answer, semaphores
    <3>5. CASE Done(d)
      <4>1. pidDaemon = d
        BY <3>5 DEF Done, ExchangeInv, Attached
      <4> QED BY <3>0, <3>5, <4>1 DEF Done
    <3>6. CASE Exit(d) \/ Kill(d)
      <4>1. pidDaemon = d
        BY <3>6 DEF Exit, Kill, ExchangeInv, Attached
      <4> QED BY <3>0, <3>6, <4>1 DEF Exit, Kill, Detach, BeginStop
    <3>7. CASE StopFinish(d) \/ StopInterrupted(d)
      BY <3>0, <3>7 DEF StopFinish, EndStop, StopInterrupted, semaphores
    <3> QED BY <2>2, <3>1, <3>2, <3>3, <3>4, <3>5, <3>6, <3>7 DEF DaemonStep
  <2>3. CASE UNCHANGED vars
    BY <2>3 DEF vars, semaphores, clients, daemons, Serving
  <2> QED BY <2>1, <2>2, <2>3 DEF Next
<1> QED BY <1>1, <1>2, ExchangeHeld, TypeCorrect, PTL DEF Spec

-----------------------------------------------------------------------------
\* There are no results in the buffers before the daemon has answered.
Fresh ==
  /\ \A c \in Clients : cpc[c] = "fill" => reply = NoRq
  /\ \A c \in Clients : Waiting(c) /\ ~semRqAvail => reply = NoRq
  /\ \A d \in Daemons : dpc[d] \in {"working", "refused", "blocked"} => reply = NoRq

AllInv == TypeOK /\ ExchangeInv /\ RequestInv /\ Fresh

LEMMA FreshNext ==
  ASSUME OneDaemon, KeepingCalls, Faults = {},
         TypeOK, ExchangeInv, RequestInv, Fresh, [Next]_vars
  PROVE  Fresh'
<1> USE DaemonsAssumption DEF TypeOK, Fresh, Waiting
<1>0. OrderlyFaults /\ NoReset
  BY DEF OrderlyFaults, ExchangeInv
<1>1. ASSUME NEW c \in Clients, ClientStep(c) PROVE Fresh'
  <2>1. /\ dpc' = dpc /\ op[c].in # "unlocked"
        /\ \A b \in Clients : b # c => cpc'[b] = cpc[b]
    BY <1>0, <1>1, ClientMoves DEF daemons, KeepingCalls, KeepsExchange, NoOp, Handler
  <2>2. CASE reply' = NoRq
    BY <2>2
  <2>3. CASE /\ UNCHANGED <<reply, semRqAvail>>
             /\ cpc'[c] \notin {"fill", "wait", "undowait"}
    BY <2>1, <2>3
  <2>4. CASE Acquire(c) \/ UndoFindFirst(c)
    BY <2>2, <2>4 DEF Acquire, UndoFindFirst, PutRequest
  <2>5. CASE Fill(c)
    BY <2>2, <2>5 DEF Fill, buffers
  <2>6. CASE CallRefused(c) \/ Enter(c) \/ AcquireRefused(c) \/ AcquireInterrupted(c)
    BY <2>3, <2>6 DEF CallRefused, Enter, AcquireRefused, AcquireInterrupted, Return,
       semaphores, buffers
  <2>7. CASE FillFails(c)
    BY <2>1, <2>3, <2>7 DEF FillFails, Return, semaphores, buffers
  <2>8. CASE Wake(c)
    BY <2>3, <2>8 DEF Wake, ReleaseAndExit, Return, semaphores, buffers
  <2>9. CASE CopyOut(c) \/ CopyOutFails(c) \/ UndoWake(c) \/ WaitInterrupted(c)
    BY <2>3, <2>9 DEF CopyOut, CopyOutFails, UndoWake, WaitInterrupted, ReleaseAndExit,
       Return, buffers
  <2>10. CASE Reset(c) \/ ResetFinish(c)
    BY <1>0, <2>10 DEF OrderlyFaults, Reset, ResetFinish, NoReset
  <2> QED
    BY <1>1, <2>4, <2>5, <2>6, <2>7, <2>8, <2>9, <2>10 DEF ClientStep
<1>2. ASSUME NEW d \in Daemons, DaemonStep(d) PROVE Fresh'
  <2> USE DEF Goto
  <2>0. cpc' = cpc
    BY <1>2 DEF DaemonStep, BeginStart, EndStart, StartFails, GetRequest, TakeRequest,
       GetInterrupted, NestedCall, Answer, Done, Exit, Kill, Detach, StopFinish,
       StopInterrupted, clients
  <2>1. CASE BeginStart(d) \/ StartFails(d) \/ GetRequest(d) \/ GetInterrupted(d)
    BY <2>0, <2>1 DEF BeginStart, StartFails, GetRequest, GetInterrupted, semaphores, buffers
  <2>2. CASE EndStart(d)
    BY <2>0, <2>2 DEF EndStart
  <2>3. CASE TakeRequest(d)
    <3>1. pidDaemon = d
      BY <2>3 DEF TakeRequest, ExchangeInv, Attached
    <3>2. reply = NoRq
      BY <2>3, <3>1 DEF TakeRequest, RequestInv, Posted
    <3> QED BY <2>0, <2>3, <3>2 DEF TakeRequest, buffers
  <2>4. CASE NestedCall(d)
    BY <2>0, <2>4 DEF NestedCall, semaphores, buffers
  <2>5. CASE Answer(d)
    <3>1. semRqAvail /\ \E c \in Clients : Waiting(c)
      BY <2>5 DEF Answer, Serving, RequestInv, Turn
    <3>2. \A c \in Clients : cpc[c] # "fill"
      BY <3>1 DEF ExchangeInv, MutualExclusion, Exchanging
    <3> QED BY <2>0, <2>5, <3>1, <3>2 DEF Answer, OneDaemon, semaphores
  <2>6. CASE Done(d)
    BY <2>0, <2>6 DEF Done, buffers
  <2>7. CASE Exit(d) \/ Kill(d)
    BY <2>0, <2>7 DEF Exit, Kill, Detach, BeginStop, semaphores, buffers
  <2>8. CASE StopFinish(d) \/ StopInterrupted(d)
    BY <2>0, <2>8 DEF StopFinish, EndStop, StopInterrupted, semaphores, buffers
  <2> QED BY <1>2, <2>1, <2>2, <2>3, <2>4, <2>5, <2>6, <2>7, <2>8 DEF DaemonStep
<1>3. CASE UNCHANGED vars
  BY <1>3 DEF vars, semaphores, buffers, clients, daemons
<1> QED BY <1>1, <1>2, <1>3 DEF Next

-----------------------------------------------------------------------------
\* One call moves in the abstract and the others stay.
LEMMA OneMoves ==
  ASSUME NEW c \in Clients, NEW from, NEW to,
         AbstractCall(c) = from, AbstractCall(c)' = to,
         \A b \in Clients : b # c => AbstractCall(b)' = AbstractCall(b)
  PROVE  RC!Move(c, from, to)
BY DEF RC!Move, AbstractCalls

LEMMA NoneMoves ==
  ASSUME \A b \in Clients : AbstractCall(b)' = AbstractCall(b)
  PROVE  AbstractCalls' = AbstractCalls
BY DEF AbstractCalls

\* A call that keeps its place keeps its stage, if it does not wait or if
\* neither the buffers nor the daemon change.
LEMMA SameStage ==
  ASSUME NEW b \in Clients, cpc'[b] = cpc[b],
         Waiting(b) => UNCHANGED <<rq, reply, semRqAvail, dpc, handling>>
  PROVE  AbstractCall(b)' = AbstractCall(b)
<1>1. CASE Waiting(b)
  BY <1>1 DEF AbstractCall, UndoStage, Stage, Serving, Waiting
<1>2. CASE ~Waiting(b)
  BY <1>2 DEF AbstractCall, Waiting
<1> QED BY <1>1, <1>2

\* Only the call that is inside can be executing.
LEMMA NotExecuting ==
  ASSUME TypeOK, NEW c \in Clients, ~Waiting(c) \/ \A d \in Daemons : ~Serving(d)
  PROVE  ~RC!Executing(c)
<1> USE DEF TypeOK, RC!Executing, AbstractCalls
<1>1. CASE ~Waiting(c)
  BY <1>1 DEF AbstractCall, Waiting, ClientPCs
<1>2. CASE Waiting(c) /\ \A d \in Daemons : ~Serving(d)
  BY <1>2 DEF AbstractCall, UndoStage, Stage, Waiting
<1> QED BY <1>1, <1>2

\* Every step of a thread is one of its abstract call, or none.
LEMMA ClientImplements ==
  ASSUME KeepingCalls, Faults = {}, AllInv,
         NEW c \in Clients, ClientStep(c)
  PROVE  RC!Next \/ UNCHANGED RC!rcvars
<1> USE DEF TypeOK, AllInv
<1>0. OrderlyFaults /\ NoReset
  BY DEF OrderlyFaults, ExchangeInv
<1>1. /\ UNCHANGED <<dpc, handling, pidDaemon>> /\ op[c].in # "unlocked"
      /\ \A b \in Clients : b # c => cpc'[b] = cpc[b]
  BY <1>0, ClientMoves DEF daemons, KeepingCalls, KeepsExchange, NoOp, Handler
\* The others, if the buffers stay or nobody else waits
<1>2. ASSUME \/ UNCHANGED <<rq, reply, semRqAvail>>
             \/ \A b \in Clients : b # c => ~Waiting(b)
      PROVE  \A b \in Clients : b # c => AbstractCall(b)' = AbstractCall(b)
  BY <1>1, <1>2, SameStage
<1>3. ASSUME Exchanging(c) PROVE \A b \in Clients : b # c => ~Waiting(b)
  BY <1>3 DEF ExchangeInv, MutualExclusion, Exchanging, Waiting
<1>4. ASSUME ~semSerialize PROVE \A b \in Clients : ~Waiting(b)
  BY <1>4 DEF ExchangeInv, Held, Exchanging, Waiting
<1>5. ASSUME ~semRqDone \/ \A b \in Clients : ~Waiting(b)
      PROVE  \A d \in Daemons : ~Serving(d)
  BY <1>5 DEF RequestInv, Turn
\* A call that fails
<1>6. ASSUME cpc[c] \notin {"idle", "reset"}, Return(c, "failed"),
             ~RC!Executing(c),
             \A b \in Clients : b # c => AbstractCall(b)' = AbstractCall(b)
      PROVE  RC!Fail(c)
  <2>1. AbstractCall(c)' = "idle"
    BY <1>6 DEF Return, AbstractCall
  <2>2. AbstractCalls[c] # "idle"
    BY <1>6 DEF AbstractCalls, AbstractCall, Stage, UndoStage, ClientPCs
  <2>3. AbstractCalls' = [AbstractCalls EXCEPT ![c] = "idle"]
    BY <1>6, <2>1 DEF AbstractCalls
  <2> QED BY <1>6, <2>2, <2>3 DEF RC!Fail, Return
\* A call that succeeds, with its results in the buffers
<1>7. ASSUME AbstractCall(c) = "executed", Return(c, "ok"),
             \A b \in Clients : b # c => AbstractCall(b)' = AbstractCall(b)
      PROVE  RC!Succeed(c)
  <2>1. AbstractCall(c)' = "idle"
    BY <1>7 DEF Return, AbstractCall
  <2> QED BY <1>7, <2>1, OneMoves DEF RC!Succeed, Return
\* A call that does neither
<1>8. ASSUME AbstractCall(c)' = AbstractCall(c), ret' = ret,
             \A b \in Clients : b # c => AbstractCall(b)' = AbstractCall(b)
      PROVE  UNCHANGED RC!rcvars
  BY <1>8, NoneMoves DEF RC!rcvars
<1>9. CASE CallRefused(c)
  <2>1. AbstractCall(c) = "idle" /\ AbstractCall(c)' = "idle"
    BY <1>9 DEF CallRefused, AbstractCall
  <2>2. AbstractCalls' = AbstractCalls
    BY <1>2, <1>9, <2>1, NoneMoves DEF CallRefused, buffers, semaphores
  <2>3. ret' \in {[ret EXCEPT ![c] = "failed"], [ret EXCEPT ![c] = "ok"]}
    BY <1>9 DEF CallRefused
  <2>4. RC!Unattended(c)
    BY <2>1, <2>2, <2>3 DEF RC!Unattended, AbstractCalls
  <2> QED BY <2>4 DEF RC!Next
<1>10. CASE Enter(c)
  <2>1. AbstractCall(c) = "idle" /\ AbstractCall(c)' = "pending"
    BY <1>10 DEF Enter, AbstractCall
  <2>2. RC!Issue(c)
    BY <1>2, <1>10, <2>1, OneMoves DEF Enter, RC!Issue, buffers, semaphores
  <2> QED BY <2>2 DEF RC!Next
<1>11. CASE AcquireRefused(c) \/ AcquireInterrupted(c)
  <2>1. ~RC!Executing(c)
    BY <1>11, NotExecuting DEF AcquireRefused, AcquireInterrupted, Waiting
  <2>2. \A b \in Clients : b # c => AbstractCall(b)' = AbstractCall(b)
    BY <1>2, <1>11 DEF AcquireRefused, AcquireInterrupted, buffers, semaphores
  <2>3. RC!Fail(c)
    BY <1>6, <1>11, <2>1, <2>2 DEF AcquireRefused, AcquireInterrupted
  <2> QED BY <2>3 DEF RC!Next
<1>12. CASE Acquire(c)
  <2>1. \A b \in Clients : ~Waiting(b)
    BY <1>4, <1>12 DEF Acquire
  <2>2. \A b \in Clients : b # c => AbstractCall(b)' = AbstractCall(b)
    BY <1>2, <2>1
  <2>3. CASE Return(c, "failed")
    <3>1. RC!Fail(c)
      BY <1>6, <1>12, <2>1, <2>2, <2>3, NotExecuting DEF Acquire
    <3> QED BY <3>1 DEF RC!Next
  <2>4. CASE cpc' = [cpc EXCEPT ![c] = "wait"] /\ SignalDaemon /\ ret' = ret
    <3>1. \A d \in Daemons : ~Serving(d)'
      BY <1>1, <1>5, <2>1 DEF Serving
    <3>2. reply' # Call(c)' /\ ~semRqAvail' /\ rq' = Call(c)'
      BY <1>12, <2>4, ClientsAssumption DEF Acquire, PutRequest, Call, NoRq, SignalDaemon
    <3>3. AbstractCall(c) = "pending"
      BY <1>12 DEF Acquire, AbstractCall
    <3>4. AbstractCall(c)' = "pending"
      BY <2>4, <3>1, <3>2 DEF AbstractCall, Stage
    <3> QED BY <1>8, <2>2, <2>4, <3>3, <3>4
  <2>5. CASE cpc' = [cpc EXCEPT ![c] = "fill"] /\ ret' = ret
    BY <1>8, <1>12, <2>2, <2>5 DEF Acquire, AbstractCall
  <2> QED BY <1>12, <2>3, <2>4, <2>5 DEF Acquire
<1>13. CASE Fill(c)
  <2>1. Exchanging(c) /\ ~Waiting(c)
    BY <1>13 DEF Fill, Exchanging, Waiting
  <2>2. \A b \in Clients : ~Waiting(b)
    BY <1>3, <2>1
  <2>3. \A d \in Daemons : ~Serving(d)'
    BY <1>1, <1>5, <2>2 DEF Serving
  <2>4. reply' # Call(c)' /\ ~semRqAvail' /\ rq' = Call(c)'
    BY <1>13, ClientsAssumption
       DEF Fill, SignalDaemon, buffers, Fresh, RequestInv, OwnRequest, Awaited, Call, NoRq
  <2>5. AbstractCall(c) = "pending"
    BY <1>13 DEF Fill, AbstractCall
  <2>6. AbstractCall(c)' = "pending"
    BY <1>13, <2>3, <2>4 DEF Fill, AbstractCall, Stage
  <2> QED BY <1>2, <1>8, <1>13, <2>2, <2>5, <2>6 DEF Fill
<1>14. CASE FillFails(c)
  <2>1. Exchanging(c) /\ ~Waiting(c)
    BY <1>14 DEF FillFails, Exchanging, Waiting
  <2>2. Return(c, "failed") /\ cpc[c] = "fill"
    BY <1>1, <1>14 DEF FillFails
  <2>3. RC!Fail(c)
    BY <1>2, <1>3, <1>6, <2>1, <2>2, NotExecuting
  <2> QED BY <2>3 DEF RC!Next
<1>15. CASE Wake(c)
  <2>1. Exchanging(c) /\ Waiting(c) /\ ~semRqDone
    BY <1>15 DEF Wake, Exchanging, Waiting
  <2>2. \A b \in Clients : b # c => AbstractCall(b)' = AbstractCall(b)
    BY <1>2, <1>3, <2>1
  <2>3. CASE Return(c, "failed")
    <3>1. RC!Fail(c)
      BY <1>5, <1>6, <1>15, <2>1, <2>2, <2>3, NotExecuting DEF Wake
    <3> QED BY <3>1 DEF RC!Next
  <2>4. ASSUME pidDaemon # None
        PROVE  AbstractCall(c) = "executed" /\ Outcome(c) = "ok"
    BY <1>15, <2>1, <2>4
       DEF Wake, AbstractCall, Stage, Outcome, RequestInv, Replied, Awaited
  <2>5. CASE pidDaemon # None /\ Return(c, Outcome(c))
    <3>1. RC!Succeed(c)
      BY <1>7, <2>2, <2>4, <2>5
    <3> QED BY <3>1 DEF RC!Next
  <2>6. CASE pidDaemon # None /\ cpc' = [cpc EXCEPT ![c] = "copyout"] /\ ret' = ret
    <3>1. AbstractCall(c)' = "executed"
      BY <2>6 DEF AbstractCall
    <3> QED BY <1>8, <2>2, <2>4, <2>6, <3>1
  <2> QED BY <1>15, <2>3, <2>5, <2>6 DEF Wake, ReleaseAndExit
<1>16. CASE CopyOut(c)
  <2>1. Exchanging(c) /\ AbstractCall(c) = "executed" /\ Outcome(c) = "ok"
    BY <1>16 DEF CopyOut, Exchanging, AbstractCall, Outcome, RequestInv, Delivered
  <2>2. RC!Succeed(c)
    BY <1>2, <1>3, <1>7, <1>16, <2>1 DEF CopyOut, ReleaseAndExit
  <2> QED BY <2>2 DEF RC!Next
<1>17. CASE CopyOutFails(c) \/ UndoWake(c)
  <2>1. Exchanging(c) /\ (~semRqDone \/ ~Waiting(c))
    BY <1>17 DEF CopyOutFails, UndoWake, Exchanging, Waiting
  <2>2. ~RC!Executing(c)
    BY <1>5, <2>1, NotExecuting
  <2>3. Return(c, "failed") /\ cpc[c] \notin {"idle", "reset"}
    BY <1>17 DEF CopyOutFails, UndoWake, ReleaseAndExit
  <2>4. RC!Fail(c)
    BY <1>2, <1>3, <1>6, <2>1, <2>2, <2>3
  <2> QED BY <2>4 DEF RC!Next
<1>18. CASE UndoFindFirst(c)
  <2>1. Exchanging(c) /\ ~Waiting(c)
    BY <1>18 DEF UndoFindFirst, Exchanging, Waiting
  <2>2. \A d \in Daemons : ~Serving(d)'
    BY <1>1, <1>3, <1>5, <2>1 DEF Serving
  <2>3. reply' # Undoing(c)' /\ ~semRqAvail' /\ rq' = Undoing(c)'
    BY <1>18, ClientsAssumption DEF UndoFindFirst, PutRequest, Undoing, NoRq, SignalDaemon
  <2>4. AbstractCall(c) = "executed"
    BY <1>18 DEF UndoFindFirst, AbstractCall
  <2>5. AbstractCall(c)' = "undo_pending"
    BY <1>18, <2>2, <2>3 DEF UndoFindFirst, AbstractCall, UndoStage, Stage
  <2>6. RC!Undo(c)
    BY <1>2, <1>3, <1>18, <2>1, <2>4, <2>5, OneMoves DEF UndoFindFirst, RC!Undo
  <2> QED BY <2>6 DEF RC!Next
<1>19. CASE WaitInterrupted(c) \/ Reset(c) \/ ResetFinish(c)
  BY <1>0, <1>19 DEF WaitInterrupted, Reset, ResetFinish, NoReset
<1> QED
  BY <1>9, <1>10, <1>11, <1>12, <1>13, <1>14, <1>15, <1>16, <1>17, <1>18, <1>19
     DEF ClientStep

\* Every step of the daemon is one of the call it serves, or none.
LEMMA DaemonImplements ==
  ASSUME OneDaemon, Faults = {}, AllInv,
         NEW d \in Daemons, DaemonStep(d)
  PROVE  RC!Next \/ UNCHANGED RC!rcvars
<1> USE DaemonsAssumption DEF TypeOK, AllInv, Goto, Serving, OneDaemon
<1>0. Attached /\ Mapped /\ MutualExclusion
  BY DEF ExchangeInv
<1>1. cpc' = cpc /\ ret' = ret
  BY DEF DaemonStep, BeginStart, EndStart, StartFails, GetRequest, TakeRequest,
     GetInterrupted, NestedCall, Answer, Done, Exit, Kill, Detach, StopFinish,
     StopInterrupted, clients
\* The stages stay as they are.
<1>2. ASSUME \A b \in Clients : Waiting(b) => AbstractCall(b)' = AbstractCall(b)
      PROVE  UNCHANGED RC!rcvars
  <2>1. \A b \in Clients : ~Waiting(b) => AbstractCall(b)' = AbstractCall(b)
    BY <1>1, SameStage
  <2> QED BY <1>1, <1>2, <2>1, NoneMoves DEF RC!rcvars
<1>3. ASSUME UNCHANGED <<rq, reply, semRqAvail, handling>>, Serving(d)' <=> Serving(d)
      PROVE  UNCHANGED RC!rcvars
  <2>1. \A b \in Clients : Waiting(b) => AbstractCall(b)' = AbstractCall(b)
    BY <1>1, <1>3 DEF AbstractCall, UndoStage, Stage, Waiting
  <2> QED BY <1>2, <2>1
<1>4. CASE BeginStart(d) \/ GetRequest(d) \/ GetInterrupted(d) \/ NestedCall(d)
  BY <1>3, <1>4 DEF BeginStart, GetRequest, GetInterrupted, NestedCall, semaphores, buffers
<1>5. CASE StartFails(d) \/ StopFinish(d) \/ StopInterrupted(d)
  BY <1>3, <1>5 DEF StartFails, StopFinish, EndStop, StopInterrupted, semaphores, buffers
<1>6. CASE EndStart(d)
  <2>1. \A b \in Clients : ~Waiting(b)
    BY <1>6 DEF EndStart, ExchangeInv, NobodyLeftInside, Exchanging, Waiting
  <2> QED BY <1>2, <2>1
\* One call waits, and it is that which the request in the buffers is of.
<1>7. ASSUME NEW c \in Clients, Waiting(c)
      PROVE  /\ rq = Awaited(c)
             /\ \A b \in Clients : b # c => ~Waiting(b)
             /\ \A b \in Clients : b # c => AbstractCall(b)' = AbstractCall(b)
  <2>1. \A b \in Clients : b # c => ~Waiting(b)
    BY <1>0, <1>7 DEF MutualExclusion, Exchanging, Waiting
  <2>2. rq = Awaited(c)
    BY <1>7 DEF RequestInv, OwnRequest
  <2> QED BY <1>1, <2>1, <2>2, SameStage
<1>8. CASE TakeRequest(d)
  <2>1. pidDaemon = d /\ xchg = d
    BY <1>0, <1>8 DEF TakeRequest, Attached, Mapped
  <2>2. PICK c \in Clients : Waiting(c)
    BY <1>8, <2>1 DEF TakeRequest, RequestInv, Posted
  <2>3. rq = Awaited(c) /\ reply # Awaited(c) /\ Awaited(c)' = Awaited(c)
    BY <1>1, <1>7, <1>8, <2>2, ClientsAssumption
       DEF TakeRequest, Fresh, Awaited, Call, Undoing, NoRq
  <2>4. /\ handling'[d] = rq /\ reply' = reply /\ dpc'[d] = "working"
        /\ ~Serving(d) /\ ~semRqAvail
    BY <1>8, <2>1 DEF TakeRequest, buffers
  <2>5. \A b \in Clients : ~RC!Executing(b)
    BY <2>4, NotExecuting
  <2>6. CASE cpc[c] = "wait"
    <3>1. AbstractCall(c) = "pending" /\ AbstractCall(c)' = "executing"
      BY <1>1, <2>3, <2>4, <2>6 DEF AbstractCall, Stage, Awaited
    <3>2. RC!Execute(c)
      BY <1>1, <1>7, <2>2, <2>5, <3>1, OneMoves DEF RC!Execute
    <3> QED BY <3>2 DEF RC!Next
  <2>7. CASE cpc[c] = "undowait"
    <3>1. AbstractCall(c) = "undo_pending" /\ AbstractCall(c)' = "undo_executing"
      BY <1>1, <2>3, <2>4, <2>7 DEF AbstractCall, UndoStage, Stage, Awaited
    <3>2. RC!Execute(c)
      BY <1>1, <1>7, <2>2, <2>5, <3>1, OneMoves DEF RC!Execute
    <3> QED BY <3>2 DEF RC!Next
  <2> QED BY <2>2, <2>6, <2>7 DEF Waiting
<1>9. CASE Answer(d)
  <2>1. Serving(d) /\ xchg = d
    BY <1>0, <1>9 DEF Answer, Attached, Mapped
  <2>2. PICK c \in Clients : Waiting(c)
    BY <2>1 DEF RequestInv, Turn
  <2>3. /\ handling[d] = Awaited(c) /\ reply # Awaited(c)
        /\ reply' = Awaited(c)' /\ Awaited(c)' = Awaited(c)
    BY <1>1, <1>7, <1>9, <2>1, <2>2, ClientsAssumption
       DEF Answer, RequestInv, Turn, Fresh, Awaited, Call, Undoing, NoRq
  <2>4. CASE cpc[c] = "wait"
    <3>1. AbstractCall(c) = "executing" /\ AbstractCall(c)' = "executed"
      BY <1>1, <2>1, <2>3, <2>4 DEF AbstractCall, Stage, Awaited
    <3>2. RC!Finish(c)
      BY <1>1, <1>7, <2>2, <3>1, OneMoves DEF RC!Finish
    <3> QED BY <3>2 DEF RC!Next
  <2>5. CASE cpc[c] = "undowait"
    <3>1. AbstractCall(c) = "undo_executing" /\ AbstractCall(c)' = "undo_executed"
      BY <1>1, <2>1, <2>3, <2>5 DEF AbstractCall, UndoStage, Stage, Awaited
    <3>2. RC!Finish(c)
      BY <1>1, <1>7, <2>2, <3>1, OneMoves DEF RC!Finish
    <3> QED BY <3>2 DEF RC!Next
  <2> QED BY <2>2, <2>4, <2>5 DEF Waiting
<1>10. CASE Done(d)
  <2>1. reply = handling[d] /\ rq = handling[d]
    BY <1>10 DEF Done, RequestInv, Turn, Answered
  <2>2. UNCHANGED <<rq, reply, semRqAvail, handling>>
    BY <1>10 DEF Done, buffers
  <2>3. \A b \in Clients : Waiting(b) => AbstractCall(b)' = AbstractCall(b)
    BY <1>1, <1>7, <2>1, <2>2 DEF AbstractCall, UndoStage, Stage, Waiting, Awaited
  <2> QED BY <1>2, <2>3
<1>11. CASE Exit(d) \/ Kill(d)
  <2>1. /\ UNCHANGED <<rq, reply, semRqAvail, handling>> /\ ~Serving(d)'
        /\ dpc[d] # "blocked"
    BY <1>11 DEF Exit, Kill, Detach, BeginStop, semaphores, buffers
  <2>2. CASE ~Serving(d)
    BY <1>3, <2>1, <2>2
  <2>3. CASE dpc[d] = "answered"
    <3>1. reply = handling[d] /\ rq = handling[d]
      BY <2>3 DEF RequestInv, Turn, Answered
    <3>2. \A b \in Clients : Waiting(b) => AbstractCall(b)' = AbstractCall(b)
      BY <1>1, <1>7, <2>1, <3>1 DEF AbstractCall, UndoStage, Stage, Waiting, Awaited
    <3> QED BY <1>2, <3>2
  <2>4. CASE dpc[d] \in {"working", "refused"}
    <3>1. PICK c \in Clients : Waiting(c)
      BY <2>4 DEF RequestInv, Turn
    <3>2. /\ handling[d] = Awaited(c) /\ reply # Awaited(c) /\ semRqAvail
          /\ Awaited(c)' = Awaited(c)
      BY <1>1, <1>7, <2>4, <3>1, ClientsAssumption
         DEF RequestInv, Turn, Fresh, Awaited, Call, Undoing, NoRq
    <3>3. CASE cpc[c] = "wait"
      <4>1. AbstractCall(c) = "executing" /\ AbstractCall(c)' = "lost"
        BY <1>1, <2>1, <2>4, <3>2, <3>3 DEF AbstractCall, Stage, Awaited
      <4>2. RC!Lose(c)
        BY <1>1, <1>7, <3>1, <4>1, OneMoves DEF RC!Lose
      <4> QED BY <4>2 DEF RC!Next
    <3>4. CASE cpc[c] = "undowait"
      <4>1. AbstractCall(c) = "undo_executing" /\ AbstractCall(c)' = "undo_lost"
        BY <1>1, <2>1, <2>4, <3>2, <3>4 DEF AbstractCall, UndoStage, Stage, Awaited
      <4>2. RC!Lose(c)
        BY <1>1, <1>7, <3>1, <4>1, OneMoves DEF RC!Lose
      <4> QED BY <4>2 DEF RC!Next
    <3> QED BY <3>1, <3>3, <3>4 DEF Waiting
  <2> QED BY <2>1, <2>2, <2>3, <2>4
<1> QED
  BY <1>4, <1>5, <1>6, <1>8, <1>9, <1>10, <1>11 DEF DaemonStep

(***************************************************************************)
(* The driver and the daemon keep what RemoteCall promises (stubfsd.c:117  *)
(* to 178, isofsdmn.c:583 to 594): for any number of threads, whenever the *)
(* daemon stops, dies or comes back.                                       *)
(***************************************************************************)
THEOREM ExchangeImplementsRemoteCall ==
  OneDaemon /\ KeepingCalls /\ Faults = {} => (Spec => ImplementsRemoteCall)
<1> SUFFICES ASSUME OneDaemon, KeepingCalls, Faults = {}
             PROVE  Spec => ImplementsRemoteCall
  OBVIOUS
<1>0. OrderlyFaults
  BY DEF OrderlyFaults
<1>1. Init => RC!Init
  BY DEF Init, RC!Init, AbstractCalls, AbstractCall
<1>2. Init => Fresh
  BY DEF Init, Fresh
<1>3. AllInv /\ [Next]_vars => [RC!Next]_(RC!rcvars)
  <2> SUFFICES ASSUME AllInv, [Next]_vars PROVE RC!Next \/ UNCHANGED RC!rcvars
    OBVIOUS
  <2>1. CASE UNCHANGED vars
    BY <2>1 DEF vars, semaphores, buffers, clients, daemons, RC!rcvars, AbstractCalls,
       AbstractCall, UndoStage, Stage, Serving
  <2> QED BY <2>1, ClientImplements, DaemonImplements DEF Next
<1>4. TypeOK /\ ExchangeInv /\ RequestInv /\ Fresh /\ [Next]_vars => Fresh'
  BY FreshNext
<1>5. Spec => []ExchangeInv
  BY <1>0, ExchangeHeld
<1>6. Spec => []RequestInv
  BY RequestHeld
<1>7. Spec => []TypeOK
  BY TypeCorrect
<1>8. TypeOK /\ ExchangeInv /\ RequestInv /\ Fresh => AllInv
  BY DEF AllInv
<1> QED
  BY <1>1, <1>2, <1>3, <1>4, <1>5, <1>6, <1>7, <1>8, PTL
     DEF Spec, ImplementsRemoteCall, RC!Spec
=============================================================================
