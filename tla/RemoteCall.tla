----------------------------- MODULE RemoteCall -----------------------------
(***************************************************************************)
(* What the driver and the daemon together promise the callers of the file *)
(* system: a call is executed by the daemon at most once, one call at a    *)
(* time, it succeeds only if it was executed, and it does not return while *)
(* the daemon is still executing it.  A call whose results cannot be       *)
(* delivered may send one more request, to be undone, and then fails.      *)
(*                                                                         *)
(* The one call that may succeed without being executed is the detaching   *)
(* of a drive when there is no daemon.                                     *)
(***************************************************************************)
CONSTANT Clients

VARIABLES call,    \* how far the call of each client has come
          result   \* how its last call ended

rcvars == <<call, result>>

(***************************************************************************)
(* "lost": the daemon died while it executed the call.  The undoing of a   *)
(* call goes through the same stages as the call itself.                   *)
(***************************************************************************)
CallStages == {"pending", "executing", "executed", "lost"}
UndoStages == {"undo_pending", "undo_executing", "undo_executed", "undo_lost"}

RCTypeOK ==
  /\ call \in [Clients -> {"idle"} \cup CallStages \cup UndoStages]
  /\ result \in [Clients -> {"none", "ok", "failed"}]

Executing(c) == call[c] \in {"executing", "undo_executing"}

Init ==
  /\ call = [c \in Clients |-> "idle"]
  /\ result = [c \in Clients |-> "none"]

Move(c, from, to) ==
  /\ call[c] = from
  /\ call' = [call EXCEPT ![c] = to]

Issue(c) == Move(c, "idle", "pending") /\ result' = [result EXCEPT ![c] = "none"]

Execute(c) ==
  /\ \A b \in Clients : ~Executing(b)
  /\ \/ Move(c, "pending", "executing")
     \/ Move(c, "undo_pending", "undo_executing")
  /\ UNCHANGED result

Finish(c) ==
  /\ \/ Move(c, "executing", "executed")
     \/ Move(c, "undo_executing", "undo_executed")
  /\ UNCHANGED result

Lose(c) ==
  /\ \/ Move(c, "executing", "lost")
     \/ Move(c, "undo_executing", "undo_lost")
  /\ UNCHANGED result

Undo(c) == Move(c, "executed", "undo_pending") /\ UNCHANGED result

Succeed(c) == Move(c, "executed", "idle") /\ result' = [result EXCEPT ![c] = "ok"]

Fail(c) ==
  /\ call[c] # "idle"
  /\ ~Executing(c)
  /\ call' = [call EXCEPT ![c] = "idle"]
  /\ result' = [result EXCEPT ![c] = "failed"]

\* A call refused, or satisfied, without the daemon.
Unattended(c) ==
  /\ call[c] = "idle"
  /\ result' \in {[result EXCEPT ![c] = "failed"], [result EXCEPT ![c] = "ok"]}
  /\ UNCHANGED call

Next ==
  \E c \in Clients :
    \/ Issue(c) \/ Execute(c) \/ Finish(c) \/ Lose(c)
    \/ Undo(c) \/ Succeed(c) \/ Fail(c) \/ Unattended(c)

Spec == Init /\ [][Next]_rcvars
=============================================================================
