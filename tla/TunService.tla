----------------------------- MODULE TunService -----------------------------
(***************************************************************************)
(* What the controller can see of TunManager: one tunnel process with the  *)
(* stop protocol of ChildProcess, and an asynchronous start.  A start      *)
(* first runs a route job in a worker thread; the process is launched when *)
(* the job is done, provided the start has not been cancelled and no older *)
(* process is still alive.  Routes, addresses and the interface timer are  *)
(* left to module TunManager, which is shown to implement this one.        *)
(***************************************************************************)
EXTENDS ChildProcess

CONSTANT MaxJobs     \* bound: server-route jobs in flight that are told apart

VARIABLES
    async,    \* m_asyncStartInProgress
    jobs      \* server-route jobs whose result has not been delivered

tunVars == <<state, signal, timers, async, jobs>>

TunTypeOK ==
    /\ TypeOK
    /\ async \in BOOLEAN
    /\ jobs \in 0..MaxJobs

TunInit ==
    /\ Init
    /\ async = FALSE
    /\ jobs = 0

(* stop() emits stopped() inside the call when there is no process.        *)
StopEmitsAtOnce == ~isRunning

(* start(): cancel the previous start, stop the previous process and, if   *)
(* the configuration could be written and the binary exists, begin anew.   *)
TunStart(ok) ==
    /\ Stop(1)
    /\ async' = ok
    /\ jobs' = IF ok /\ jobs < MaxJobs THEN jobs + 1 ELSE jobs

TunStop(n) ==
    /\ Stop(n)
    /\ async' = FALSE
    /\ UNCHANGED jobs

(* The result of a route job arrives; a cancelled start ends here, and so  *)
(* does one that finds the older process still alive.                      *)
RouteReady ==
    /\ jobs > 0
    /\ jobs' = jobs - 1
    /\ IF async THEN Launch ELSE UNCHANGED procVars
    /\ UNCHANGED async

TunExec == Exec /\ UNCHANGED <<async, jobs>>
TunExecFails == ExecFails /\ async' = FALSE /\ UNCHANGED jobs
TunExit == Exit /\ UNCHANGED <<async, jobs>>
TunKillTimer == KillTimer /\ UNCHANGED <<async, jobs>>

(* The start is over: its routes are set up, or it was given up.           *)
AsyncEnds ==
    /\ async
    /\ async' = FALSE
    /\ UNCHANGED <<state, signal, timers, jobs>>

TunNext ==
    \/ \E ok \in BOOLEAN : TunStart(ok)
    \/ TunStop(1)
    \/ RouteReady
    \/ TunExec
    \/ TunExecFails
    \/ TunExit
    \/ TunKillTimer
    \/ AsyncEnds

TunSpec == TunInit /\ [][TunNext]_tunVars
=============================================================================
