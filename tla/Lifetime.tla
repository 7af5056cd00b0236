------------------------------ MODULE Lifetime ------------------------------
(* The program from its start to its end, and what it leaves behind: the   *)
(* child processes, the desktop's proxy settings and the server's route    *)
(* outlive it unless somebody takes them back.  It ends by quitting, step  *)
(* by step as PaqetController::cleanup() and the destructors go, or at any *)
(* moment, by a crash or because it is killed.                             *)
EXTENDS SystemProxy, CrashTable, FiniteSets

CONSTANT MaxJobs   \* bound: workers, and timers, that are told apart
ASSUME JobsAssumption == MaxJobs \in Nat \ {0}

VARIABLES
    platform,   \* "linux", "mac" or "windows"
    stage,      \* "absent", "running", or the step of quitting that is next
    restarting, \* restartAsAdmin(): the new process waits for the lock
    child,      \* the two child processes
    strays,     \* children that outlived an earlier run of the program
    table,      \* s_childPids: the processes a crash kills
    job,        \* on Windows: the processes in the job object
    starting,   \* TunManager: m_asyncStartInProgress
    routeJobs,  \* workers that set up a server's route
    ready,      \* timers, and workers after them, that will clear starting
    route,      \* the server's route is set
    http        \* the HTTP proxy listens
programVars == <<stage, restarting, starting, routeJobs, ready, http>>
childVars == <<child, table, job>>

VARIABLES
    cancelled,  \* history: the tunnel's start lost its flag as it was launched
    spoiled,    \* history: the settings are still ours because something
                \* went wrong: see Spoils
    astray      \* history: the route may be one that nobody takes back
historyVars == <<cancelled, spoiled, astray>>
vars == <<platform, programVars, childVars, strays, route, proxyVars, historyVars>>

Children == {"paqet", "tunnel"}
Stages == {"absent", "running", "tun", "proxy", "http", "paqet", "destroy"}

TypeOK ==
    /\ ProxyTypeOK
    /\ platform \in {"linux", "mac", "windows"}
    /\ stage \in Stages
    /\ restarting \in BOOLEAN
    /\ child \in [Children -> {"off", "starting", "running"}]
    /\ strays \subseteq Children
    /\ table \in Seq(Children) /\ Len(table) <= MaxChildPids
    /\ job \subseteq Children
    /\ routeJobs \in 0..MaxJobs /\ ready \in 0..MaxJobs
    /\ {starting, route, http, cancelled, spoiled, astray} \subseteq BOOLEAN

Init ==
    /\ platform \in {"linux", "mac", "windows"}
    /\ desktop \in CASE platform = "windows" -> {"windows"}
                     [] platform = "linux" -> Desktops \ {"windows"}
                     [] platform = "mac" -> {"other"}
    /\ settings \in [mode : {"none", "auto", "manual"}, server : {"theirs"}]
    /\ enabled = FALSE
    /\ original = NothingSaved
    /\ stage = "absent"
    /\ restarting = FALSE
    /\ child = [c \in Children |-> "off"]
    /\ strays = {}
    /\ table = <<>>
    /\ job = {}
    /\ starting = FALSE
    /\ routeJobs = 0
    /\ ready = 0
    /\ route = FALSE
    /\ http = FALSE
    /\ cancelled = FALSE
    /\ spoiled = FALSE
    /\ astray = FALSE
-----------------------------------------------------------------------------
(* The children.                                                           *)

(* A process has started: what a crash, or Windows, will kill.             *)
Register(c) ==
    /\ table' = IF platform = "windows" THEN table ELSE Registered(table, c)
    /\ job' = IF platform = "windows" THEN job \cup {c} ELSE job

Unregister(c) ==
    /\ table' = Unregistered(table, c)
    /\ job' = job \ {c}

(* cleanupRoutes(): the route of the remembered server.                    *)
RemoveRoute == route' \in IF astray THEN {FALSE, route} ELSE {FALSE}

(* stateChanged to NotRunning; for the tunnel also cleanupRoutes().        *)
Gone(c) ==
    /\ child' = [child EXCEPT ![c] = "off"]
    /\ Unregister(c)
    /\ IF c = "tunnel" THEN RemoveRoute ELSE UNCHANGED route
    /\ cancelled' = IF c = "tunnel" THEN FALSE ELSE cancelled

StartPaqet ==
    /\ stage = "running" /\ child["paqet"] = "off"
    /\ child' = [child EXCEPT !["paqet"] = "starting"]
    /\ UNCHANGED <<platform, strays, programVars, table, job, route, proxyVars, historyVars>>

(* TunManager::start(): it stops the tunnel there is, which may take its   *)
(* time, and has a worker set the route if the configuration and the       *)
(* binary are there.  The server it remembers is the new one: the route of *)
(* a tunnel or of a worker from before may be forgotten.  If there is none *)
(* of them, and no route, nothing is astray.                               *)
StartsTun ==
    /\ starting' \in BOOLEAN
    /\ IF starting' THEN routeJobs < MaxJobs /\ routeJobs' = routeJobs + 1
                    ELSE UNCHANGED routeJobs
    /\ IF child["tunnel"] = "off" THEN RemoveRoute ELSE UNCHANGED route
    /\ cancelled' = (cancelled \/ (child["tunnel"] = "starting" /\ ~starting'))
    /\ astray' = ((astray /\ route) \/ child["tunnel"] # "off" \/ routeJobs > 0)

StartTun ==
    /\ stage = "running" /\ child["paqet"] # "off"
    /\ StartsTun
    /\ UNCHANGED <<platform, strays, stage, restarting, ready, http, childVars, proxyVars, spoiled>>

(* A worker is done: the tunnel is launched, unless its start is over.     *)
(* Then the route stays, without a tunnel.                                 *)
RouteJobDone ==
    /\ stage = "running" /\ routeJobs > 0
    /\ routeJobs' = routeJobs - 1
    /\ route' \in {route, TRUE}
    /\ child' = IF starting /\ child["tunnel"] = "off"
                THEN [child EXCEPT !["tunnel"] = "starting"] ELSE child
    /\ astray' = (astray \/ (route' /\ child'["tunnel"] = "off"))
    /\ UNCHANGED <<platform, strays, stage, restarting, starting, ready, http, table, job,
                   proxyVars, cancelled, spoiled>>

(* onTunInterfaceReady() and the worker behind it.  The timer runs, though *)
(* its start is over: it clears the flag of the start there is.            *)
TunReady ==
    /\ stage = "running" /\ ready > 0
    /\ ready' = ready - 1
    /\ starting' = FALSE
    /\ cancelled' = (cancelled \/ child["tunnel"] = "starting")
    /\ UNCHANGED <<platform, strays, stage, restarting, routeJobs, http, childVars, route, proxyVars,
                   spoiled, astray>>

(* TunManager::stop(), whose callers make sure that the process is there;  *)
(* it is told to end, and does (ChildExits).                               *)
StopTun ==
    /\ stage = "running" /\ child["tunnel"] # "off"
    /\ starting' = FALSE
    /\ cancelled' = (cancelled \/ child["tunnel"] = "starting")
    /\ UNCHANGED <<platform, strays, stage, restarting, routeJobs, ready, http, childVars, route,
                   proxyVars, spoiled, astray>>

(* A process runs: paqet is registered, the tunnel only if its start is    *)
(* still in progress, which then waits for the interface.                  *)
ChildUp(c) ==
    /\ stage = "running" /\ child[c] = "starting"
    /\ child' = [child EXCEPT ![c] = "running"]
    /\ IF c = "paqet" \/ starting THEN Register(c) ELSE UNCHANGED <<table, job>>
    /\ IF c = "tunnel" /\ starting THEN ready < MaxJobs /\ ready' = ready + 1
                                    ELSE UNCHANGED ready
    /\ UNCHANGED <<platform, strays, stage, restarting, starting, routeJobs, http, route, proxyVars,
                   historyVars>>

(* It could not be launched, or ended.                                     *)
ChildExits(c) ==
    /\ stage = "running" /\ child[c] # "off"
    /\ Gone(c)
    /\ starting' = (starting /\ ~(c = "tunnel" /\ child[c] = "starting"))
    /\ UNCHANGED <<platform, strays, stage, restarting, routeJobs, ready, http, proxyVars, spoiled,
                   astray>>

StrayExits(c) ==
    /\ c \in strays
    /\ strays' = strays \ {c}
    /\ UNCHANGED <<platform, programVars, childVars, route, proxyVars, historyVars>>

(* What leaves the settings pointing at the HTTP proxy for good: disable() *)
(* left settings s, not what it asked for; or what enable() saves is the   *)
(* mode of a manual proxy of GNOME, whose server is lost.  (A crash and    *)
(* a failing listener do it as well.)  It is over when they point          *)
(* elsewhere.                                                              *)
Spoils(s) ==
    \/ enabled /\ s # Target
    \/ enabled' /\ desktop = "gnome" /\ s.mode = "manual"

SpoiledBy(event) == spoiled' = (PointsAtUs(settings') /\ (spoiled \/ event))

(* The HTTP proxy is started, instead of one that listens, and if it does  *)
(* listen the system's proxy is set.  If it does not, the system's proxy   *)
(* stays as it is.  (When the controller does it: PaqetController.)        *)
SystemProxyOn ==
    \/ /\ http' = TRUE
       /\ \E s \in Restored : Enable(s) /\ SpoiledBy(Spoils(s))
    \/ /\ http' = FALSE
       /\ UNCHANGED proxyVars
       /\ SpoiledBy(enabled)

TurnOn ==
    /\ stage = "running" /\ child["paqet"] # "off"
    /\ SystemProxyOn
    /\ UNCHANGED <<platform, strays, stage, restarting, starting, routeJobs, ready, childVars, route,
                   cancelled, astray>>

TakesBack == Disable /\ SpoiledBy(Spoils(settings'))

TurnOff ==
    /\ stage = "running" /\ (http \/ enabled)
    /\ TakesBack
    /\ http' = FALSE
    /\ UNCHANGED <<platform, strays, stage, restarting, starting, routeJobs, ready, childVars, route,
                   cancelled, astray>>
-----------------------------------------------------------------------------
(* The program.                                                            *)

(* main(): the lock is free, or was held by a process that is dead.        *)
Launch ==
    /\ stage = "absent"
    /\ stage' = "running"
    /\ restarting' = FALSE
    /\ UNCHANGED <<platform, strays, starting, routeJobs, ready, http, childVars, route, proxyVars, historyVars>>

(* aboutToQuit: the user quits, or, on Windows, lets the program be        *)
(* restarted as administrator.                                             *)
Quit ==
    /\ stage = "running"
    /\ stage' = "tun"
    /\ restarting' \in {FALSE, platform = "windows"}
    /\ UNCHANGED <<platform, strays, starting, routeJobs, ready, http, childVars, route, proxyVars, historyVars>>

(* The new process has tried for 4 s to get the lock, and exits.           *)
GiveUp ==
    /\ restarting /\ stage # "absent"
    /\ restarting' = FALSE
    /\ UNCHANGED <<platform, strays, stage, starting, routeJobs, ready, http, childVars, route, proxyVars, historyVars>>

(* stopBlocking() of a child: it ends within the time it is given and its  *)
(* end is handled, or it is killed and its end is not waited for.          *)
Stopped(c) ==
    \/ child' = [child EXCEPT ![c] = "off"] /\ Unregister(c)
    \/ UNCHANGED childVars

(* Mutant: the route is left to the tunnel's end, which nobody waits for.  *)
CleanupTunLater ==
    /\ stage = "tun"
    /\ stage' = "proxy"
    /\ Stopped("tunnel")
    /\ IF child'["tunnel"] = child["tunnel"] THEN UNCHANGED route ELSE RemoveRoute
    /\ UNCHANGED <<platform, strays, restarting, starting, routeJobs, ready, http, proxyVars, historyVars>>

(* The tunnel first.  isRunning() is false while only the worker runs.     *)
CleanupTun ==
    /\ stage = "tun"
    /\ stage' = "proxy"
    /\ IF child["tunnel"] # "off"
       THEN Stopped("tunnel") /\ RemoveRoute
       ELSE UNCHANGED <<childVars, route>>
    /\ UNCHANGED <<platform, strays, restarting, starting, routeJobs, ready, http, proxyVars, historyVars>>

(* Mutant: the settings are left to SystemProxyManager's destructor.       *)
CleanupProxySkipped ==
    /\ stage = "proxy"
    /\ stage' = "http"
    /\ UNCHANGED <<platform, strays, restarting, starting, routeJobs, ready, http, childVars, route, proxyVars, historyVars>>

CleanupProxy ==
    /\ stage = "proxy"
    /\ stage' = "http"
    /\ TakesBack
    /\ UNCHANGED <<platform, strays, restarting, starting, routeJobs, ready, http, childVars, route,
                   cancelled, astray>>

CleanupHttp ==
    /\ stage = "http"
    /\ stage' = "paqet"
    /\ http' = FALSE
    /\ UNCHANGED <<platform, strays, restarting, starting, routeJobs, ready, childVars, route, proxyVars, historyVars>>

(* Waiting for the end of a paqet that is only being launched waits for    *)
(* its start first, and the connection comes up: the slot of started sets  *)
(* the system's proxy, or starts the tunnel, behind cleanup()'s back.      *)
ConnectionComesUp ==
    /\ child["paqet"] = "starting"
    /\ \/ SystemProxyOn /\ UNCHANGED <<starting, routeJobs, route, cancelled, astray>>
       \/ StartsTun /\ UNCHANGED <<http, proxyVars, spoiled>>

CleanupPaqet ==
    /\ stage = "paqet"
    /\ stage' = "destroy"
    /\ IF child["paqet"] # "off" THEN Stopped("paqet") ELSE UNCHANGED childVars
    /\ \/ ConnectionComesUp
       \/ UNCHANGED <<starting, routeJobs, http, route, proxyVars, historyVars>>
    /\ UNCHANGED <<platform, strays, restarting, ready>>

(* What is left at the end of the program's memory: nothing.               *)
Forgotten ==
    /\ stage' = "absent"
    /\ child' = [c \in Children |-> "off"]
    /\ starting' = FALSE
    /\ routeJobs' = 0
    /\ ready' = 0
    /\ http' = FALSE
    /\ table' = <<>>
    /\ job' = {}
    /\ cancelled' = FALSE
    /\ UNCHANGED <<platform, restarting>>

(* The destructors: QProcess kills what still runs and waits for it.  The  *)
(* log buffer is deleted before those that write to it: taking back        *)
(* settings that are still ours uses it, and what comes of that cannot be  *)
(* said.  So does a worker, whose TunManager is gone, too.                 *)
Destroy ==
    /\ stage = "destroy"
    /\ Forgotten
    /\ UNCHANGED strays
    /\ IF enabled THEN Disable \/ (settings' = settings /\ enabled' = FALSE
                                   /\ original' = NothingSaved /\ UNCHANGED desktop)
                  ELSE UNCHANGED proxyVars
    /\ SpoiledBy(enabled)
    /\ route' \in {route, route \/ routeJobs > 0}
    /\ astray' = (route' /\ (astray \/ routeJobs > 0))

(* Who is killed with the program: on Linux every child, as its parent     *)
(* died, on Windows those in the job; elsewhere those in the table, if the *)
(* program crashes and is not killed.                                      *)
Covered(crash) ==
    CASE platform = "linux" -> Children
      [] platform = "windows" -> job
      [] OTHER -> IF crash THEN ToSet(table) ELSE {}

Dies(crash) ==
    /\ stage # "absent"
    /\ Forgotten
    /\ strays' = strays \cup {c \in Children : child[c] # "off" /\ c \notin Covered(crash)}
    /\ enabled' = FALSE
    /\ original' = NothingSaved
    /\ UNCHANGED <<desktop, settings>>
    /\ SpoiledBy(enabled)
    /\ route' \in {route, route \/ routeJobs > 0}
    /\ astray' = route'

Crash == Dies(TRUE)
Killed == Dies(FALSE)

Next ==
    \/ StartPaqet
    \/ StartTun \/ RouteJobDone \/ TunReady \/ StopTun
    \/ \E c \in Children : ChildUp(c) \/ ChildExits(c) \/ StrayExits(c)
    \/ TurnOn \/ TurnOff
    \/ Launch \/ Quit \/ GiveUp
    \/ CleanupTun \/ CleanupProxy \/ CleanupHttp \/ CleanupPaqet
    \/ Destroy
    \/ Crash \/ Killed

Spec == Init /\ [][Next]_vars
-----------------------------------------------------------------------------
(* Properties.                                                             *)

(* The desktop's settings point at the HTTP proxy only while it listens,   *)
(* in every step of quitting too, unless a command, the listener or the    *)
(* program failed, or the desktop keeps less than its settings: see        *)
(* spoiled.  It holds again once they have pointed elsewhere.              *)
DesktopIsServed == PointsAtUs(settings) /\ ~http => spoiled

(* What a crash kills are the children that run, each of them once, but    *)
(* not a tunnel whose start was cancelled, or taken to be over because of  *)
(* a timer of an earlier start, as it was launched.                        *)
TableIsChildren ==
    /\ Cardinality(ToSet(table) \cup job) = Len(table) + Cardinality(job)
    /\ \A c \in Children :
          /\ c \in ToSet(table) \cup job => child[c] = "running"
          /\ child[c] = "running" => c \in ToSet(table) \cup job \/ (c = "tunnel" /\ cancelled)

(* Between two runs of the program the route is not there, unless it may   *)
(* be one that nobody takes back: starts overlapped, or a start was        *)
(* dropped when its worker had set the route, or a worker was left when    *)
(* the program ended, or it crashed.                                       *)
QuitRemovesRoute == stage = "absent" /\ route => astray

(* Not kept by the code: disable() says that it restores the settings the  *)
(* desktop had.                                                            *)
OriginalRestored ==
    [][enabled /\ ~enabled' /\ stage = "running" /\ stage' = "running"
        => settings'.mode = original.mode /\ settings'.server = "theirs"]_vars

(* Not kept by the code: a process that is being launched is not yet in    *)
(* the table, nor, on Windows, in the job.                                 *)
CrashLeavesNoChild == strays = {}

(* Not kept by the code: no command is asked whether it worked.            *)
EnabledIsSet == enabled => PointsAtUs(settings)

(* Not kept by the code: a tunnel that comes up while no start is in       *)
(* progress is not registered.                                             *)
TunnelIsRegistered == child["tunnel"] = "running" => "tunnel" \in ToSet(table) \cup job

(* Not kept by the code: if the HTTP proxy cannot listen the settings stay *)
(* on its port.                                                            *)
EnabledIsServed == stage = "running" /\ enabled => http

(* Not kept by the code: quitting passes over a TunManager whose process   *)
(* does not run, with the route its worker has set.                        *)
QuitLeavesNoRoute ==
    [][stage = "tun" /\ stage' = "proxy" => ~route']_vars
=============================================================================
