------------------------ MODULE MatlabEngineRuntime ------------------------
(***************************************************************************)
(* The MATLAB process a service owns: the bounded startup that launches,   *)
(* finds, connects and attests it, the health probe, the provider requests *)
(* may use, and the shutdown that closes the session or kills the process  *)
(* tree.  The service's steps and the session's threads run side by side:  *)
(* a probe or a close that was given up still runs in its thread.          *)
(*                                                                         *)
(* The session may also be used "alone", without the service: that is how  *)
(* start_owned and connect_shared are used, and simulations are run.       *)
(***************************************************************************)
EXTENDS MatlabEngineSession

CONSTANTS Prober, Closer    \* the threads of the startup probe (and of a request) and of the close

ASSUME ServiceThreads == Prober \in Threads /\ Closer \in Threads /\ Prober # Closer

VARIABLES
  lifespan,     \* where the service is, or "alone"
  launcher,     \* matlab.exe -wait, the root of the process tree
  provider,     \* whether app.state holds the provider
  treeKilled,   \* is_tree_terminated
  reported,     \* a failure to kill the tree was raised or logged
  blind         \* a list of processes failed and was read as "no such process"

vars == <<sessionVars, lifespan, launcher, provider, treeKilled, reported, blind>>

Lifespan == {"off", "find", "connect", "attest", "construct", "abort", "probing", "reap_probe",
             "serving", "closing", "await_close", "check_tree", "reap", "finally", "down"}

Init ==
  /\ callLock = NoThread
  /\ future = "none" /\ lateQuit = FALSE
  /\ pc = [t \in Threads |-> "idle"]
  /\ op = [t \in Threads |-> "none"]
  /\ outcome = [t \in Threads |-> "none"]
  /\ provider = FALSE /\ treeKilled = FALSE
  /\ reported = FALSE /\ blind = FALSE
  /\ \/ /\ lifespan = "off" /\ state = "new" /\ ownership = "owned" /\ pidKnown = TRUE
        /\ matlab = "none" /\ launcher = "none"
     \/ /\ lifespan = "alone" /\ state = "ready" /\ ownership \in {"owned", "attached"}
        /\ pidKnown \in BOOLEAN /\ matlab = "alive" /\ launcher = "none"

(***************************************************************************)
(* The process tree                                                        *)
(***************************************************************************)
TreeGone == launcher # "alive" /\ matlab \notin Running
serviceVars == <<provider, treeKilled>>
report == <<reported, blind>>

\* Whether the tree is gone, as the lists of processes tell it: a list that could
\* not be made counts as an empty one.
LooksGone == (TreeGone' /\ UNCHANGED blind) \/ (~TreeGone' /\ blind' = TRUE)

\* MATLAB comes up under its launcher; the launcher waits for it, or dies first.
TreeStep ==
  /\ launcher = "alive"
  /\ \/ matlab = "none" /\ matlab' = "alive" /\ UNCHANGED launcher
     \/ launcher' = "gone" /\ UNCHANGED matlab
  /\ UNCHANGED <<ownership, state, callLock, pidKnown, future, lateQuit, pc, op, outcome,
                 lifespan, serviceVars, report>>

\* Mutant: what the kill achieved is not verified.
TerminateTree_Unverified(next) ==
  /\ lifespan' = next
  /\ \/ launcher = "alive" /\ launcher' = "gone"
        /\ matlab' = IF matlab \in Running THEN "killed" ELSE matlab
     \/ UNCHANGED <<launcher, matlab>>
  /\ treeKilled' = TRUE
  /\ UNCHANGED <<ownership, state, callLock, pidKnown, future, lateQuit, pc, op, outcome,
                 provider, report>>

\* terminate_tree: taskkill of the launcher's tree, and a look whether each process
\* is gone.  taskkill fails, or kills, or finds no launcher and kills nothing.
TerminateTree(next) ==
  /\ lifespan' = next
  /\ \/ launcher = "alive" /\ launcher' = "gone"
        /\ matlab' = IF matlab \in Running THEN "killed" ELSE matlab
     \/ UNCHANGED <<launcher, matlab>>
  /\ \/ LooksGone /\ treeKilled' = TRUE /\ UNCHANGED reported
     \/ reported' = TRUE /\ UNCHANGED <<treeKilled, blind>>
  /\ UNCHANGED <<ownership, state, callLock, pidKnown, future, lateQuit, pc, op, outcome, provider>>

(***************************************************************************)
(* Startup: _attach_matlab_engine_runtime and start_owned_bounded          *)
(***************************************************************************)
Goes(from, to) == lifespan = from /\ lifespan' = to

\* The SDK comes first: where it is missing nothing was launched.
Launch ==
  /\ \/ Goes("off", "find") /\ launcher' = "alive"
     \/ Goes("off", "down") /\ UNCHANGED launcher
  /\ UNCHANGED <<sessionVars, serviceVars, report>>

\* The shared name is found, the deadline passes, or find_matlab raises.
Find ==
  /\ \/ matlab = "alive" /\ Goes("find", "connect")
     \/ Goes("find", "abort")
  /\ UNCHANGED <<sessionVars, launcher, serviceVars, report>>

\* Connecting and asking for the process id share what is left of the deadline.
Connect ==
  /\ \/ matlab = "alive" /\ Goes("connect", "attest")
     \/ Goes("connect", "abort")
  /\ UNCHANGED <<sessionVars, launcher, serviceVars, report>>

\* The process id belongs to the tree: a failed list of processes aborts, and so
\* does one that does not hold the process.
Attest ==
  /\ Goes("attest", "construct") \/ Goes("attest", "abort")
  /\ UNCHANGED <<sessionVars, launcher, serviceVars, report>>

\* from_connected_owned: the wrapper's constructor asks MATLAB for its process id
\* once more, this time without a deadline; then the probe's task starts.
Construct ==
  /\ matlab # "hung"
  /\ Goes("construct", "probing")
  /\ Call(Prober, "probe")
  /\ state' = "ready"
  /\ UNCHANGED <<callLock, matlab, future, lateQuit, fixed, launcher, serviceVars, report>>

Abort == lifespan = "abort" /\ TerminateTree("down")

\* asyncio.wait on the probe's task: the provider is set only if it succeeded.
Probed ==
  /\ \/ pc[Prober] = "idle" /\ outcome[Prober] = "ok"
        /\ Goes("probing", "serving") /\ provider' = TRUE
     \/ pc[Prober] = "idle" /\ outcome[Prober] # "ok"
        /\ Goes("probing", "closing") /\ UNCHANGED provider
     \/ pc[Prober] # "idle" /\ Goes("probing", "reap_probe") /\ UNCHANGED provider
  /\ UNCHANGED <<sessionVars, launcher, treeKilled, report>>

ReapProbe == lifespan = "reap_probe" /\ TerminateTree("closing")

(***************************************************************************)
(* Shutdown: _close_owned_runtime, also when a later part of startup fails *)
(***************************************************************************)
Shutdown ==
  /\ Goes("serving", "closing")
  /\ UNCHANGED <<sessionVars, launcher, serviceVars, report>>

Close ==
  /\ \/ treeKilled /\ Goes("closing", "finally") /\ UNCHANGED sessionVars
     \/ /\ ~treeKilled /\ Goes("closing", "await_close")
        /\ Call(Closer, "close")
        /\ UNCHANGED <<ownership, state, callLock, pidKnown, matlab, future, lateQuit>>
  /\ UNCHANGED <<launcher, serviceVars, report>>

\* asyncio.wait on the close's task: closed, refused or failed, or still not done.
AwaitClose ==
  /\ \/ pc[Closer] = "idle" /\ outcome[Closer] = "ok" /\ Goes("await_close", "check_tree")
     \/ pc[Closer] = "idle" /\ outcome[Closer] # "ok" /\ Goes("await_close", "reap")
     \/ pc[Closer] # "idle" /\ Goes("await_close", "reap")
  /\ UNCHANGED <<sessionVars, launcher, serviceVars, report>>

\* Mutant: the shutdown waits for MATLAB to exit without a limit.
CheckTree_Forever ==
  /\ TreeGone /\ Goes("check_tree", "finally")
  /\ UNCHANGED <<sessionVars, launcher, serviceVars, report>>

\* wait_tree_gone: a session that is closed may still exit, or not.
CheckTree ==
  /\ UNCHANGED <<sessionVars, launcher, serviceVars, reported>>
  /\ \/ Goes("check_tree", "finally") /\ LooksGone
     \/ Goes("check_tree", "reap") /\ ~TreeGone /\ UNCHANGED blind

Reap == lifespan = "reap" /\ TerminateTree("finally")

Finally ==
  /\ Goes("finally", "down")
  /\ provider' = FALSE
  /\ UNCHANGED <<sessionVars, launcher, treeKilled, report>>

(***************************************************************************)
(* The system                                                              *)
(***************************************************************************)
ServiceStep ==
  \/ Find \/ Connect \/ Attest \/ Construct \/ Abort \/ Probed \/ ReapProbe
  \/ Close \/ AwaitClose \/ CheckTree \/ Reap \/ Finally

\* Alone, threads call what they like; in the service, the provider's probe only.
Use(t) ==
  /\ \/ lifespan = "alone" /\ \E o \in Ops : Call(t, o)
     \/ provider /\ t # Closer /\ Call(t, "probe")
  /\ UNCHANGED <<ownership, state, callLock, pidKnown, matlab, future, lateQuit,
                 lifespan, launcher, serviceVars, report>>

outside == <<lifespan, launcher, serviceVars, report>>
SessionStep(t) == ThreadStep(t) /\ UNCHANGED outside
EngineStep == MatlabStep /\ UNCHANGED <<fixed, state, callLock, pc, op, outcome, outside>>

Next ==
  \/ Launch \/ Shutdown \/ ServiceStep \/ TreeStep \/ EngineStep
  \/ \E t \in Threads : Use(t) \/ SessionStep(t)

Spec == Init /\ [][Next]_vars

\* The event loop and the threads run; MATLAB may hang for ever.
FairSpec == Spec /\ WF_vars(ServiceStep) /\ \A t \in Threads : WF_vars(SessionStep(t))

(***************************************************************************)
(* Properties                                                              *)
(***************************************************************************)

\* Every variable has its type.
TypeOK ==
  /\ ownership \in {"owned", "attached"}
  /\ state \in {"new", "ready", "busy", "broken", "closed"}
  /\ callLock \in Threads \cup {NoThread}
  /\ pidKnown \in BOOLEAN
  /\ matlab \in {"none", "gone", "killed"} \cup Running
  /\ future \in {"none", "running", "done", "cancelled"}
  /\ lateQuit \in BOOLEAN
  /\ pc \in [Threads -> HoldingSteps \cup {"idle", "ask"}]
  /\ op \in [Threads -> Ops \cup {"none"}]
  /\ outcome \in [Threads -> {"none", "ok", "failed", "busy"}]
  /\ lifespan \in Lifespan \cup {"alone"}
  /\ launcher \in {"none", "alive", "gone"}
  /\ provider \in BOOLEAN /\ treeKilled \in BOOLEAN /\ reported \in BOOLEAN /\ blind \in BOOLEAN

\* At most one thread is in a call of the engine, and none while a thread that was
\* given up may still quit it: probe and close never work on one engine at once.
OneCallAtATime ==
  /\ \A t, u \in Threads : pc[t] \in HoldingSteps /\ pc[u] \in HoldingSteps => t = u
  /\ lateQuit => \A t \in Threads : pc[t] \notin EngineCalls

\* A session that broke or was closed is never ready again, whichever thread found
\* out and whichever was still waiting.
BrokenStaysBroken ==
  [][(state \in {"broken", "closed"}) => (state' \in {"closed", state})]_vars

\* MATLAB is killed only by a wrapper that owns it: a user's own session survives
\* every timeout, recovery and close.
AttachedSurvives == ownership = "attached" => matlab \notin {"exiting", "killed"}

\* When the service is down, after a startup that failed anywhere or after any
\* shutdown, no process of its tree is left unless killing it was reported to have
\* failed; only a list of processes that could not be made hides one.
NoSilentLeftover == lifespan = "down" => TreeGone \/ reported \/ blind

\* close() ends although MATLAB hangs.
CloseReturns ==
  \A t \in Threads : pc[t] = "ask" /\ op[t] = "close" ~> pc[t] = "idle"

\* Startup gets past MATLAB's hanging up to the constructor of the wrapper, and a
\* shutdown ends wherever MATLAB hangs.
LifespanEnds ==
  /\ lifespan = "find" ~> lifespan \in {"construct", "serving", "down"}
  /\ lifespan = "probing" ~> lifespan \in {"serving", "down"}
  /\ lifespan = "closing" ~> lifespan = "down"

\* Nothing waits for a MATLAB that hangs.
WaitsEnd == CloseReturns /\ LifespanEnds

\* What task-513 says of the startup: each of its stages ends by its deadline.
StartupEnds == lifespan = "find" ~> lifespan \in {"serving", "down"}
=============================================================================
