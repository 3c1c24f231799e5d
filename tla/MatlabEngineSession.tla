------------------------ MODULE MatlabEngineSession ------------------------
(***************************************************************************)
(* One session wrapper around one MATLAB process, used by many threads: a  *)
(* lock that is never waited for, calls that may hang for ever, a          *)
(* simulation that is timed out or cancelled from outside, and a close     *)
(* that quits, gives up waiting, and kills what it owns.                   *)
(*                                                                         *)
(* The engine (matlab.engine) is external: it answers, raises, answers     *)
(* late or never.  No step here waits for it without saying so.            *)
(***************************************************************************)
EXTENDS Naturals

CONSTANTS
  Threads,    \* the threads that use the session
  NoThread    \* holder of a free call lock

ASSUME NobodyIsNoThread == NoThread \notin Threads

VARIABLES
  ownership,  \* "owned" or "attached", for the life of the wrapper
  state,      \* MatlabEngineState
  callLock,   \* who holds _call_lock
  pidKnown,   \* whether _matlab_process_id is not None
  matlab,     \* the MATLAB process
  future,     \* the FutureResult of the simulation in flight
  lateQuit,   \* a thread that quits outlived the grace it was given
  pc,         \* where each thread is
  op,         \* what it calls
  outcome     \* how its last call ended

sessionVars == <<ownership, state, callLock, pidKnown, matlab, future, lateQuit, pc, op, outcome>>

\* health_probe, probe_simulink_capability and share_as differ in what they ask of
\* the engine only, and are one operation here.
Ops == {"probe", "simulate", "close"}
Running == {"alive", "hung", "exiting"}

\* Steps that wait for the engine.
EngineCalls == {"probe", "capability", "submit", "wait", "verify", "late_probe"}
HoldingSteps == EngineCalls \cup {"check", "recover", "quit", "terminate", "leave"}

At(t, next) == pc' = [pc EXCEPT ![t] = next]
Result(t, o) == outcome' = [outcome EXCEPT ![t] = o]
Leaving(t, o) == At(t, "leave") /\ Result(t, o)
fixed == <<ownership, pidKnown>>

(***************************************************************************)
(* Entering and leaving a call                                             *)
(***************************************************************************)
Call(t, o) ==
  /\ pc[t] = "idle"
  /\ At(t, "ask") /\ Result(t, "none")
  /\ op' = [op EXCEPT ![t] = o]

\* Mutant: close does not respect the lock.
TakeLock_CloseAnyway(t) ==
  /\ pc[t] = "ask"
  /\ \/ /\ callLock = NoThread \/ op[t] = "close"
        /\ callLock' = t /\ At(t, "check") /\ UNCHANGED outcome
     \/ /\ callLock # NoThread /\ op[t] # "close"
        /\ At(t, "idle") /\ Result(t, "busy") /\ UNCHANGED callLock
  /\ UNCHANGED <<fixed, state, matlab, future, lateQuit, op>>

AlreadyClosed(t) == op[t] = "close" /\ state = "closed"

\* _enter_call and close: the lock is taken at once, or the session is busy.
TakeLock(t) ==
  /\ pc[t] = "ask"
  /\ \/ AlreadyClosed(t) /\ At(t, "idle") /\ Result(t, "ok") /\ UNCHANGED callLock
     \/ /\ ~AlreadyClosed(t) /\ callLock = NoThread
        /\ callLock' = t /\ At(t, "check") /\ UNCHANGED outcome
     \/ /\ ~AlreadyClosed(t) /\ callLock # NoThread
        /\ At(t, "idle") /\ Result(t, "busy") /\ UNCHANGED callLock
  /\ UNCHANGED <<fixed, state, matlab, future, lateQuit, op>>

\* A thread's first call of the engine.
First(o) == IF o = "simulate" THEN "capability" ELSE "probe"

\* _require_ready, or close's second look.
Check(t) ==
  /\ pc[t] = "check"
  /\ \/ AlreadyClosed(t) /\ Leaving(t, "ok") /\ UNCHANGED state
     \/ op[t] = "close" /\ state # "closed" /\ At(t, "quit") /\ UNCHANGED <<state, outcome>>
     \/ /\ op[t] # "close" /\ state = "ready"
        /\ state' = "busy" /\ At(t, First(op[t])) /\ UNCHANGED outcome
     \/ op[t] # "close" /\ state # "ready" /\ Leaving(t, "failed") /\ UNCHANGED state
  /\ UNCHANGED <<fixed, callLock, matlab, future, lateQuit, op>>

\* Mutant: the session is ready again whatever the call found.
Leave_AlwaysReady(t) ==
  /\ pc[t] = "leave"
  /\ state' = IF op[t] # "close" THEN "ready" ELSE state
  /\ callLock' = NoThread
  /\ At(t, "idle") /\ op' = [op EXCEPT ![t] = "none"]
  /\ UNCHANGED <<fixed, matlab, future, lateQuit, outcome>>

\* _leave_call: only a busy session becomes ready; the lock is released.
Leave(t) ==
  /\ pc[t] = "leave"
  /\ state' = IF state = "busy" THEN "ready" ELSE state
  /\ callLock' = NoThread
  /\ At(t, "idle") /\ op' = [op EXCEPT ![t] = "none"]
  /\ UNCHANGED <<fixed, matlab, future, lateQuit, outcome>>

(***************************************************************************)
(* Calls of the engine                                                     *)
(***************************************************************************)

\* A call outside a simulation, or the capability probe a simulation starts with: the
\* engine answers, or the call raises; a hung engine does neither.
EngineCall(t) ==
  /\ pc[t] \in {"probe", "capability"}
  /\ matlab # "hung"
  /\ \/ matlab = "alive" /\ pc[t] = "capability" /\ At(t, "submit") /\ UNCHANGED outcome
     \/ matlab = "alive" /\ pc[t] = "probe" /\ Leaving(t, "ok")
     \/ Leaving(t, "failed")
  /\ UNCHANGED <<fixed, state, callLock, matlab, future, lateQuit, op>>

\* addpath, then feval in the background.
Submit(t) ==
  /\ pc[t] = "submit"
  /\ matlab # "hung"
  /\ \/ matlab = "alive" /\ future' = "running" /\ At(t, "wait") /\ UNCHANGED outcome
     \/ Leaving(t, "failed") /\ UNCHANGED future
  /\ UNCHANGED <<fixed, state, callLock, matlab, lateQuit, op>>

\* _wait_for_future: a result, an error, somebody else's cancellation, or the
\* deadline or the caller's cancel event.
Wait(t) ==
  /\ pc[t] = "wait"
  /\ \/ future = "done" /\ (Leaving(t, "ok") \/ Leaving(t, "failed"))
     \/ future = "cancelled" /\ At(t, "late_probe") /\ UNCHANGED outcome
     \/ At(t, "recover") /\ UNCHANGED outcome
  /\ UNCHANGED <<fixed, state, callLock, matlab, future, lateQuit, op>>

\* The probe whose answer only goes into the error's metadata.
LateProbe(t) ==
  /\ pc[t] = "late_probe"
  /\ matlab # "hung"
  /\ Leaving(t, "failed")
  /\ UNCHANGED <<fixed, state, callLock, matlab, future, lateQuit, op>>

\* _recover_interrupted_future: a future that is done is consumed, one that can be
\* cancelled is waited for within the grace, any other breaks the session.
Recover(t) ==
  /\ pc[t] = "recover"
  /\ \/ future # "running" /\ At(t, "verify") /\ UNCHANGED <<state, future>>
     \/ future = "running" /\ At(t, "verify")
        /\ future' \in {"cancelled", "done", "running"} /\ UNCHANGED state
     \/ future = "running" /\ At(t, "quit") /\ state' = "broken" /\ UNCHANGED future
  /\ Result(t, "failed")
  /\ UNCHANGED <<fixed, callLock, matlab, lateQuit, op>>

\* The health probe that decides whether an interrupted session goes on.
Verify(t) ==
  /\ pc[t] = "verify"
  /\ matlab # "hung"
  /\ \/ matlab = "alive" /\ state' = "ready" /\ At(t, "leave")
     \/ state' = "broken" /\ At(t, "quit")
  /\ UNCHANGED <<fixed, callLock, matlab, future, lateQuit, op, outcome>>

(***************************************************************************)
(* Closing                                                                 *)
(***************************************************************************)
Closed(t) ==
  /\ state' = "closed"
  /\ At(t, "leave")
  /\ IF op[t] = "close" THEN Result(t, "ok") ELSE UNCHANGED outcome

\* What a quit does once MATLAB gets to it; a session somebody else owns is left.
Quits == matlab' = IF ownership = "owned" /\ matlab = "alive" THEN "exiting" ELSE matlab

\* Mutant: any session is killed by its process id.
Quit_KillAny(t) ==
  /\ pc[t] = "quit"
  /\ \/ matlab # "hung" /\ Quits /\ Closed(t) /\ UNCHANGED lateQuit
     \/ /\ (matlab # "hung" /\ UNCHANGED lateQuit) \/ lateQuit' = TRUE
        /\ \/ pidKnown /\ At(t, "terminate") /\ UNCHANGED <<state, outcome>>
           \/ ~pidKnown /\ state' = "broken" /\ Leaving(t, "failed")
        /\ UNCHANGED matlab
  /\ UNCHANGED <<fixed, callLock, future, op>>

\* _close_owned_unlocked and _close_attached_unlocked: the quit returns (MATLAB exits
\* some time later), or it raises, or its thread outlives the grace it is given.
Quit(t) ==
  /\ pc[t] = "quit"
  /\ \/ matlab # "hung" /\ Quits /\ Closed(t) /\ UNCHANGED lateQuit
     \/ /\ (matlab # "hung" /\ UNCHANGED lateQuit) \/ lateQuit' = TRUE
        /\ \/ ownership = "owned" /\ pidKnown /\ At(t, "terminate") /\ UNCHANGED <<state, outcome>>
           \/ ~(ownership = "owned" /\ pidKnown) /\ state' = "broken" /\ Leaving(t, "failed")
        /\ UNCHANGED matlab
  /\ UNCHANGED <<fixed, callLock, future, op>>

\* _terminate_process, of the process the session owns.
Terminate(t) ==
  /\ pc[t] = "terminate"
  /\ \/ /\ matlab' = IF matlab \in Running THEN "killed" ELSE matlab
        /\ Closed(t)
     \/ state' = "broken" /\ Leaving(t, "failed") /\ UNCHANGED matlab
  /\ UNCHANGED <<fixed, callLock, future, lateQuit, op>>

ThreadStep(t) ==
  \/ TakeLock(t) \/ Check(t) \/ Leave(t) \/ EngineCall(t) \/ Submit(t) \/ Wait(t)
  \/ LateProbe(t) \/ Recover(t) \/ Verify(t) \/ Quit(t) \/ Terminate(t)

(***************************************************************************)
(* MATLAB itself: it hangs and wakes, dies, and exits once it was told to; *)
(* the simulation ends; a quit that was given up takes effect after all.   *)
(***************************************************************************)
MatlabStep ==
  \/ /\ \/ matlab = "alive" /\ matlab' \in {"hung", "gone"}
        \/ matlab = "hung" /\ matlab' \in {"alive", "gone"}
        \/ matlab = "exiting" /\ matlab' = "gone"
     /\ UNCHANGED <<future, lateQuit>>
  \/ /\ future = "running" /\ matlab # "hung"
     /\ future' \in {"done", "cancelled"}
     /\ UNCHANGED <<matlab, lateQuit>>
  \/ /\ lateQuit /\ matlab # "hung"
     /\ Quits
     /\ lateQuit' = FALSE
     /\ UNCHANGED future
=============================================================================
