------------------------------ MODULE TunManager ------------------------------
(***************************************************************************)
(* TunManager: the hev-socks5-tunnel process, its asynchronous start and   *)
(* the routes it needs.  A start runs setupServerRoute() in a worker       *)
(* thread, launches the process, waits 500 ms and runs setupTunRoutes() in *)
(* another worker; every stage looks at the one flag                       *)
(* m_asyncStartInProgress to learn whether it is still wanted.             *)
(*                                                                         *)
(* The workers and the main thread share m_originalGateway, which is read  *)
(* and written atomically here.  The routing table is the kernel's: a      *)
(* route through tun0 exists only while the tunnel process keeps tun0.     *)
(***************************************************************************)
EXTENDS Integers, FiniteSets

CONSTANTS
    Servers,      \* addresses of paqet servers
    MaxTimers,    \* bound: kill timers that are told apart
    MaxJobs,      \* bound: jobs of one kind, and 500 ms timers, in flight
    None          \* an empty address, no job

ASSUME ServersAssumption ==
    None \notin Servers \cup [server : Servers, phase : {"query", "add", "done"}]
ASSUME BoundsAssumption == MaxTimers \in Nat \ {0} /\ MaxJobs \in Nat \ {0}

VARIABLES
    state, signal, timers,   \* the process
    async,        \* m_asyncStartInProgress
    server,       \* m_serverAddr
    gateway,      \* m_originalGateway is known
    jobs,         \* setupServerRoute() jobs: the next thing each does, or None
    readyTimers,  \* single-shot 500 ms timers armed
    tunJobs,      \* setupTunRoutes() jobs
    routes,       \* kernel: servers with a route via the original gateway
    halves,       \* kernel: 0.0.0.0/1 and 128.0.0.0/1 go to tun0
    wanted,       \* history: the last call was a start() that returned true
    calm,         \* history: every start() came when nothing was left of the last one
    refused       \* history: the command that adds this start's server route failed

procVars == <<state, signal, timers>>
workVars == <<jobs, readyTimers, tunJobs>>
historyVars == <<wanted, calm, refused>>
vars == <<procVars, async, server, gateway, workVars, routes, halves, historyVars>>

Proc == INSTANCE ChildProcess

Slots == 1..MaxJobs
Job == [server : Servers, phase : {"query", "add", "done"}]

Busy == {j \in Slots : jobs[j] # None}
Service == INSTANCE TunService WITH jobs <- Cardinality(Busy)

TypeOK ==
    /\ Proc!TypeOK
    /\ async \in BOOLEAN
    /\ server \in Servers \cup {None}
    /\ gateway \in BOOLEAN
    /\ jobs \in [Slots -> Job \cup {None}]
    /\ readyTimers \in 0..MaxJobs
    /\ tunJobs \in [Slots -> {"idle", "add", "done"}]
    /\ routes \subseteq Servers
    /\ halves \in BOOLEAN
    /\ wanted \in BOOLEAN /\ calm \in BOOLEAN /\ refused \in BOOLEAN

Init ==
    /\ Proc!Init
    /\ async = FALSE
    /\ server = None
    /\ gateway = FALSE
    /\ jobs = [j \in Slots |-> None]
    /\ readyTimers = 0
    /\ tunJobs = [j \in Slots |-> "idle"]
    /\ routes = {}
    /\ halves = FALSE
    /\ wanted = FALSE /\ calm = TRUE /\ refused = FALSE

-----------------------------------------------------------------------------
(* cleanupRoutes(): without an address there is nothing to delete.  The    *)
(* routes through tun0 are gone with the process.                          *)
RemoveRoutes ==
    IF server = None
    THEN UNCHANGED <<gateway, routes>>
    ELSE routes' = routes \ {server} /\ gateway' = FALSE

CleanupRoutes == RemoveRoutes /\ server' = None

(* No tunnel and no job is left from an earlier start.                     *)
Idle ==
    /\ ~Proc!isRunning
    /\ Busy = {}
    /\ \A j \in Slots : tunJobs[j] = "idle"

(* start(): ok when the configuration could be written and the binary is   *)
(* there.                                                                  *)
Start(s, ok) ==
    /\ Proc!Stop(1)
    /\ IF Proc!isRunning THEN UNCHANGED <<gateway, routes>> ELSE RemoveRoutes
    /\ server' = s
    /\ async' = ok
    /\ wanted' = ok
    /\ calm' = (calm /\ Idle)
    /\ refused' = FALSE
    /\ IF ok
       THEN \E j \in Slots \ Busy :
               jobs' = [jobs EXCEPT ![j] = [server |-> s, phase |-> "query"]]
       ELSE UNCHANGED jobs
    /\ UNCHANGED <<readyTimers, tunJobs, halves>>

(* stop(): all callers make sure that the process is alive.                *)
Stop ==
    /\ Proc!isRunning
    /\ Proc!Stop(1)
    /\ async' = FALSE
    /\ wanted' = FALSE
    /\ UNCHANGED <<server, gateway, workVars, routes, halves, calm, refused>>

-----------------------------------------------------------------------------
(* The worker of setupServerRoute().                                       *)

(* It asks for the default route; without one it still tries a gateway an  *)
(* earlier job has left.                                                   *)
QueryGateway(j, found) ==
    /\ jobs[j] # None /\ jobs[j].phase = "query"
    /\ gateway' = (gateway \/ found)
    /\ jobs' = [jobs EXCEPT ![j].phase = IF gateway' THEN "add" ELSE "done"]
    /\ UNCHANGED <<procVars, async, server, readyTimers, tunJobs, routes, halves, historyVars>>

(* Mutant: the remembered server instead of the one of this job.           *)
AddServerRouteRemembered(j) ==
    /\ jobs[j] # None /\ jobs[j].phase = "add"
    /\ \E works \in {FALSE, gateway} :
           /\ routes' = IF works THEN routes \cup {server} ELSE routes
           /\ refused' = ~works
    /\ jobs' = [jobs EXCEPT ![j].phase = "done"]
    /\ UNCHANGED <<procVars, async, server, gateway, readyTimers, tunJobs, halves, wanted, calm>>

(* The command line is put together from the members as they are now.  It  *)
(* fails if the main thread has cleared them, and may fail anyhow, as for  *)
(* the name of a host: nobody asks for its exit status.                    *)
AddServerRoute(j) ==
    /\ jobs[j] # None /\ jobs[j].phase = "add"
    /\ \E works \in {FALSE, gateway} :
           /\ routes' = IF works THEN routes \cup {jobs[j].server} ELSE routes
           /\ refused' = ~works
    /\ jobs' = [jobs EXCEPT ![j].phase = "done"]
    /\ UNCHANGED <<procVars, async, server, gateway, readyTimers, tunJobs, halves, wanted, calm>>

(* Mutant: the flag is not looked at.                                      *)
RouteReadyAlways(j) ==
    /\ jobs[j] # None /\ jobs[j].phase = "done"
    /\ jobs' = [jobs EXCEPT ![j] = None]
    /\ Proc!Launch
    /\ UNCHANGED <<async, server, gateway, readyTimers, tunJobs, routes, halves, historyVars>>

(* Mutant: the tunnel does not wait for the route.                         *)
RouteReadyEarly(j) ==
    /\ jobs[j] # None /\ jobs[j].phase # "query"
    /\ jobs' = [jobs EXCEPT ![j] = None]
    /\ IF async THEN Proc!Launch ELSE UNCHANGED procVars
    /\ UNCHANGED <<async, server, gateway, readyTimers, tunJobs, routes, halves, historyVars>>

(* Its result arrives in the main thread: onServerRouteReady().            *)
RouteReady(j) ==
    /\ jobs[j] # None /\ jobs[j].phase = "done"
    /\ jobs' = [jobs EXCEPT ![j] = None]
    /\ IF async THEN Proc!Launch ELSE UNCHANGED procVars
    /\ UNCHANGED <<async, server, gateway, readyTimers, tunJobs, routes, halves, historyVars>>

-----------------------------------------------------------------------------
(* The process.                                                            *)

(* onProcessStartedForAsync(): a start that was not cancelled waits for    *)
(* the interface.                                                          *)
Exec ==
    /\ Proc!Exec
    /\ IF async
       THEN readyTimers < MaxJobs /\ readyTimers' = readyTimers + 1
       ELSE UNCHANGED readyTimers
    /\ UNCHANGED <<async, server, gateway, jobs, tunJobs, routes, halves, historyVars>>

(* Mutant: the start is not given up.                                      *)
ExecFailsAndWaits ==
    /\ Proc!ExecFails
    /\ CleanupRoutes
    /\ UNCHANGED <<async, workVars, halves, historyVars>>

ExecFails ==
    /\ Proc!ExecFails
    /\ CleanupRoutes
    /\ async' = FALSE
    /\ UNCHANGED <<workVars, halves, historyVars>>

(* Mutant: the routes are left.                                            *)
ExitWithoutCleanup ==
    /\ Proc!Exit
    /\ server' = None
    /\ halves' = FALSE
    /\ UNCHANGED <<async, gateway, workVars, routes, historyVars>>

Exit ==
    /\ Proc!Exit
    /\ CleanupRoutes
    /\ halves' = FALSE
    /\ UNCHANGED <<async, workVars, historyVars>>

KillTimer ==
    /\ Proc!KillTimer
    /\ UNCHANGED <<async, server, gateway, workVars, routes, halves, historyVars>>

-----------------------------------------------------------------------------
(* onTunInterfaceReady(), 500 ms after some process was up.                *)
InterfaceReady ==
    /\ readyTimers > 0
    /\ readyTimers' = readyTimers - 1
    /\ async' = (async /\ state = "Running")
    /\ IF async /\ state = "Running"
       THEN \E j \in Slots : tunJobs[j] = "idle" /\ tunJobs' = [tunJobs EXCEPT ![j] = "add"]
       ELSE UNCHANGED tunJobs
    /\ UNCHANGED <<procVars, server, gateway, jobs, routes, halves, historyVars>>

(* The worker of setupTunRoutes(): a route through tun0 can only be added  *)
(* while tun0 exists, and these commands may fail as well.                 *)
AddTunRoutes(j) ==
    /\ tunJobs[j] = "add"
    /\ tunJobs' = [tunJobs EXCEPT ![j] = "done"]
    /\ halves' \in {halves, halves \/ state = "Running"}
    /\ UNCHANGED <<procVars, async, server, gateway, jobs, readyTimers, routes, historyVars>>

(* Its result arrives in the main thread.                                  *)
TunRoutesReady(j) ==
    /\ tunJobs[j] = "done"
    /\ tunJobs' = [tunJobs EXCEPT ![j] = "idle"]
    /\ async' = FALSE
    /\ UNCHANGED <<procVars, server, gateway, jobs, readyTimers, routes, halves, historyVars>>

-----------------------------------------------------------------------------
ServerRouteWorks(j) ==
    \/ \E found \in BOOLEAN : QueryGateway(j, found)
    \/ AddServerRoute(j)
    \/ RouteReady(j)

TunRoutesWork(j) == AddTunRoutes(j) \/ TunRoutesReady(j)

Next ==
    \/ \E s \in Servers, ok \in BOOLEAN : Start(s, ok)
    \/ Stop
    \/ \E j \in Slots : ServerRouteWorks(j) \/ TunRoutesWork(j)
    \/ Exec
    \/ ExecFails
    \/ Exit
    \/ KillTimer
    \/ InterfaceReady

Spec == Init /\ [][Next]_vars

(* Workers end, because every command they run does; a launch has an       *)
(* outcome; SIGKILL works; due timers run.                                 *)
Fairness ==
    /\ \A j \in Slots : WF_vars(ServerRouteWorks(j)) /\ WF_vars(TunRoutesWork(j))
    /\ WF_vars(Exec \/ ExecFails)
    /\ WF_vars(signal = "kill" /\ Exit)
    /\ WF_vars(KillTimer)
    /\ WF_vars(InterfaceReady)

FairSpec == Spec /\ Fairness

-----------------------------------------------------------------------------
(* Properties.                                                             *)

(* TunManager is what the controller takes it for, whatever its workers,   *)
(* timers and routes do.                                                   *)
ImplementsTunService == Service!TunSpec

(* After stop() no tunnel is left alone: one that is alive, or that a late *)
(* job still brings to life, has been told to end.                         *)
NoTunnelAfterStop == ~wanted /\ Proc!isRunning => signal # "none"

(* If starts do not overlap, the only server route in the kernel's table   *)
(* is that of the remembered server, so the next cleanup removes it.       *)
RoutesAreTracked == calm => routes \subseteq {server}

(* If starts do not overlap and a gateway is known, the connection to the  *)
(* server itself is kept out of the tunnel that takes everything else, at  *)
(* every moment, unless the command for it was run and failed.             *)
TunnelSparesServer == calm /\ halves /\ gateway => server \in routes \/ refused

(* If starts do not overlap, a start does not stay in progress for ever:   *)
(* whichever stage fails or is overtaken, some later one clears the flag.  *)
StartEnds == async ~> ~async \/ ~calm

(* A tunnel asked to stop is gone after a while, even if it ignores        *)
(* SIGTERM, whatever is started meanwhile (the kill timer of stop()).      *)
TunnelStops == signal # "none" ~> state = "NotRunning"

(* What the documentation, the comments and the page say, and the code     *)
(* does not do: TLC finds a counterexample to each of these.               *)

(* The process is launched after the server route is ready: no job for the *)
(* server of this start is still under way.                                *)
LaunchAfterRoute ==
    [][state = "NotRunning" /\ state' = "Starting" =>
         \A j \in Slots : jobs'[j] = None \/ jobs'[j].server # server]_vars

(* setupServerRoute() adds the server's route "so it doesn't go through    *)
(* TUN".                                                                   *)
ServerAlwaysSpared == calm /\ halves => server \in routes
=============================================================================
