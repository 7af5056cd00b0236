--------------------------- MODULE TunManagerProofs ---------------------------
(***************************************************************************)
(* What TunManager guarantees for every set of servers and every bound,    *)
(* with starts that overlap or not, and, as long as none has overlapped,   *)
(* about the routes; and that a download leaves the program it starts.     *)
(***************************************************************************)
EXTENDS TunManager, TunAssets, FiniteSetTheorems, TLAPS

USE ServersAssumption, BoundsAssumption DEF historyVars

-----------------------------------------------------------------------------
(* Type correctness.                                                       *)

LEMMA ProcessType ==
    ASSUME Proc!TypeOK,
           \/ Proc!Stop(1) \/ Proc!Launch \/ Proc!Exec \/ Proc!ExecFails
           \/ Proc!Exit \/ Proc!KillTimer \/ UNCHANGED procVars
    PROVE  Proc!TypeOK'
BY DEF Proc!TypeOK, Proc!Stop, Proc!Launch, Proc!Exec, Proc!ExecFails, Proc!Exit,
       Proc!KillTimer, Proc!isRunning, Proc!procVars, procVars

LEMMA RoutesType ==
    ASSUME TypeOK, RemoveRoutes
    PROVE  gateway' \in BOOLEAN /\ routes' \subseteq Servers
<1>1. gateway' \in BOOLEAN
  BY Zenon DEF TypeOK, RemoveRoutes
<1>2. routes' \subseteq Servers
  BY DEF TypeOK, RemoveRoutes
<1> QED BY <1>1, <1>2

LEMMA StartType ==
    ASSUME TypeOK, NEW s \in Servers, NEW ok \in BOOLEAN, Start(s, ok)
    PROVE  TypeOK'
<1>1. Proc!TypeOK'
  BY ProcessType DEF TypeOK, Start
<1>2. gateway' \in BOOLEAN /\ routes' \subseteq Servers
  BY RoutesType DEF TypeOK, Start
<1>3. jobs' \in [Slots -> Job \cup {None}]
  BY DEF TypeOK, Start, Job
<1>4. /\ async' \in BOOLEAN /\ wanted' \in BOOLEAN /\ calm' \in BOOLEAN /\ refused' \in BOOLEAN
      /\ server' \in Servers \cup {None} /\ halves' \in BOOLEAN
  BY Zenon DEF TypeOK, Start
<1> QED BY <1>1, <1>2, <1>3, <1>4 DEF TypeOK, Start

LEMMA WorkerType ==
    ASSUME TypeOK, NEW j \in Slots, ServerRouteWorks(j)
    PROVE  TypeOK'
<1>1. CASE \E found \in BOOLEAN : QueryGateway(j, found)
  <2>1. gateway' \in BOOLEAN
    BY <1>1, Zenon DEF TypeOK, QueryGateway
  <2>2. Proc!TypeOK'
    BY <1>1, ProcessType DEF TypeOK, QueryGateway
  <2>3. jobs' \in [Slots -> Job \cup {None}]
    BY <1>1 DEF TypeOK, QueryGateway, Job
  <2> QED BY <1>1, <2>1, <2>2, <2>3 DEF TypeOK, QueryGateway
<1>2. CASE AddServerRoute(j)
  <2>1. Proc!TypeOK'
    BY <1>2, ProcessType DEF TypeOK, AddServerRoute
  <2>2. jobs' \in [Slots -> Job \cup {None}]
    BY <1>2 DEF TypeOK, AddServerRoute, Job
  <2>3. jobs[j].server \in Servers
    BY <1>2 DEF TypeOK, AddServerRoute, Job
  <2>4. PICK works \in {FALSE, gateway} :
          /\ routes' = IF works THEN routes \cup {jobs[j].server} ELSE routes
          /\ refused' = ~works
    BY <1>2 DEF AddServerRoute
  <2>5. refused' \in BOOLEAN
    BY <2>4, Zenon DEF TypeOK
  <2>6. routes' \subseteq Servers
    BY <2>3, <2>4 DEF TypeOK
  <2> QED BY <1>2, <2>1, <2>2, <2>5, <2>6 DEF TypeOK, AddServerRoute
<1>3. CASE RouteReady(j)
  <2>1. Proc!TypeOK'
    BY <1>3, ProcessType DEF TypeOK, RouteReady
  <2>2. jobs' \in [Slots -> Job \cup {None}]
    BY <1>3 DEF TypeOK, RouteReady
  <2> QED BY <1>3, <2>1, <2>2 DEF TypeOK, RouteReady
<1> QED BY <1>1, <1>2, <1>3 DEF ServerRouteWorks

LEMMA ProcessStepType ==
    ASSUME TypeOK, Stop \/ Exec \/ ExecFails \/ Exit \/ KillTimer
    PROVE  TypeOK'
<1>1. Proc!TypeOK'
  BY ProcessType DEF TypeOK, Stop, Exec, ExecFails, Exit, KillTimer
<1>2. /\ gateway' \in BOOLEAN
      /\ routes' \subseteq Servers
      /\ server' \in Servers \cup {None}
  <2>1. CASE ExecFails \/ Exit
    BY <2>1, RoutesType DEF TypeOK, ExecFails, Exit, CleanupRoutes
  <2>2. CASE Stop \/ Exec \/ KillTimer
    BY <2>2 DEF TypeOK, Stop, Exec, KillTimer
  <2> QED BY <2>1, <2>2
<1>3. /\ async' \in BOOLEAN /\ wanted' \in BOOLEAN /\ calm' \in BOOLEAN /\ refused' \in BOOLEAN
      /\ halves' \in BOOLEAN
  BY Zenon DEF TypeOK, Stop, Exec, ExecFails, Exit, KillTimer
<1>4. readyTimers' \in 0..MaxJobs
  BY DEF TypeOK, Stop, Exec, ExecFails, Exit, KillTimer, workVars
<1>5. jobs' = jobs /\ tunJobs' = tunJobs
  BY DEF Stop, Exec, ExecFails, Exit, KillTimer, workVars
<1> QED BY <1>1, <1>2, <1>3, <1>4, <1>5 DEF TypeOK

LEMMA TunRoutesType ==
    ASSUME TypeOK, InterfaceReady \/ \E j \in Slots : TunRoutesWork(j)
    PROVE  TypeOK'
<1>1. Proc!TypeOK'
  BY ProcessType DEF TypeOK, InterfaceReady, TunRoutesWork, AddTunRoutes, TunRoutesReady
<1>2. async' \in BOOLEAN
  BY DEF TypeOK, InterfaceReady, TunRoutesWork, AddTunRoutes, TunRoutesReady
<1>3. halves' \in BOOLEAN
  BY DEF TypeOK, InterfaceReady, TunRoutesWork, AddTunRoutes, TunRoutesReady
<1>4. tunJobs' \in [Slots -> {"idle", "add", "done"}]
  BY DEF TypeOK, InterfaceReady, TunRoutesWork, AddTunRoutes, TunRoutesReady
<1>5. readyTimers' \in 0..MaxJobs
  BY DEF TypeOK, InterfaceReady, TunRoutesWork, AddTunRoutes, TunRoutesReady
<1>6. UNCHANGED <<server, gateway, jobs, routes, historyVars>>
  BY DEF InterfaceReady, TunRoutesWork, AddTunRoutes, TunRoutesReady
<1> QED BY <1>1, <1>2, <1>3, <1>4, <1>5, <1>6 DEF TypeOK

(* TypeOK: what start(), stop(), the workers and the timers leave in the   *)
(* members of TunManager is of the right kind.                             *)
THEOREM TypeCorrect == Spec => []TypeOK
<1>1. Init => TypeOK
  <2> SUFFICES ASSUME Init PROVE TypeOK
    OBVIOUS
  <2>1. Proc!TypeOK /\ readyTimers \in 0..MaxJobs
    BY DEF Init, Proc!Init, Proc!TypeOK
  <2>2. /\ jobs \in [Slots -> Job \cup {None}]
        /\ tunJobs \in [Slots -> {"idle", "add", "done"}]
        /\ routes \subseteq Servers
        /\ server \in Servers \cup {None}
    BY Zenon DEF Init
  <2>3. /\ async \in BOOLEAN /\ gateway \in BOOLEAN /\ halves \in BOOLEAN
        /\ wanted \in BOOLEAN /\ calm \in BOOLEAN /\ refused \in BOOLEAN
    BY Zenon DEF Init
  <2> QED BY <2>1, <2>2, <2>3 DEF TypeOK
<1>2. TypeOK /\ [Next]_vars => TypeOK'
  <2> SUFFICES ASSUME TypeOK, [Next]_vars PROVE TypeOK'
    OBVIOUS
  <2>1. ASSUME NEW s \in Servers, NEW ok \in BOOLEAN, Start(s, ok) PROVE TypeOK'
    BY <2>1, StartType
  <2>2. ASSUME NEW j \in Slots, ServerRouteWorks(j) PROVE TypeOK'
    BY <2>2, WorkerType
  <2>3. CASE InterfaceReady \/ \E j \in Slots : TunRoutesWork(j)
    BY <2>3, TunRoutesType
  <2>4. CASE Stop \/ Exec \/ ExecFails \/ Exit \/ KillTimer
    BY <2>4, ProcessStepType
  <2>5. CASE UNCHANGED vars
    BY <2>5 DEF vars, procVars, workVars, TypeOK, Proc!TypeOK
  <2> QED BY <2>1, <2>2, <2>3, <2>4, <2>5 DEF Next
<1> QED BY <1>1, <1>2, PTL DEF Spec

-----------------------------------------------------------------------------
(* No tunnel is left alone after a stop.                                   *)

(* NoTunnelAfterStop is not inductive: a late route job might launch a     *)
(* tunnel.  It does not, because the flag it looks at is only set while    *)
(* the last call was a start.                                              *)
OnlyWantedStarts == (async => wanted) /\ NoTunnelAfterStop

LEMMA OnlyWantedStartsStep ==
    ASSUME TypeOK, OnlyWantedStarts, [Next]_vars
    PROVE  OnlyWantedStarts'
<1> USE DEF OnlyWantedStarts, NoTunnelAfterStop, Proc!isRunning
<1>1. ASSUME NEW s \in Servers, NEW ok \in BOOLEAN, Start(s, ok) PROVE OnlyWantedStarts'
  BY <1>1 DEF Start, Proc!Stop, Proc!procVars
<1>2. CASE Stop
  BY <1>2 DEF Stop, Proc!Stop
<1>3. ASSUME NEW j \in Slots, ServerRouteWorks(j) PROVE OnlyWantedStarts'
  BY <1>3 DEF ServerRouteWorks, QueryGateway, AddServerRoute, RouteReady, Proc!Launch,
              Proc!procVars, procVars
<1>4. ASSUME NEW j \in Slots, TunRoutesWork(j) PROVE OnlyWantedStarts'
  BY <1>4 DEF TunRoutesWork, AddTunRoutes, TunRoutesReady, procVars
<1>5. CASE Exec
  BY <1>5 DEF Exec, Proc!Exec
<1>6. CASE ExecFails
  BY <1>6 DEF ExecFails, Proc!ExecFails
<1>7. CASE Exit
  BY <1>7 DEF Exit, Proc!Exit
<1>8. CASE KillTimer
  BY <1>8 DEF KillTimer, Proc!KillTimer
<1>9. CASE InterfaceReady
  BY <1>9 DEF InterfaceReady, procVars
<1>10. CASE UNCHANGED vars
  BY <1>10 DEF vars, procVars
<1> QED BY <1>1, <1>2, <1>3, <1>4, <1>5, <1>6, <1>7, <1>8, <1>9, <1>10 DEF Next

(* After stop() every tunnel that is alive has been told to end, whichever *)
(* workers and timers of earlier starts are still under way.               *)
THEOREM StopsStay == Spec => []NoTunnelAfterStop
<1>1. Init => OnlyWantedStarts
  BY DEF Init, OnlyWantedStarts, NoTunnelAfterStop, Proc!Init, Proc!isRunning
<1>2. OnlyWantedStarts => NoTunnelAfterStop
  BY DEF OnlyWantedStarts
<1> QED BY <1>1, <1>2, TypeCorrect, OnlyWantedStartsStep, PTL DEF Spec

-----------------------------------------------------------------------------
(* The routes, as long as no start has overlapped with another.            *)

(* What a start that came to an idle TunManager relies on.  One job at     *)
(* most is under way, for the remembered server, and no process before it  *)
(* has ended; the process is launched when the job is done, so if a        *)
(* gateway is known by then the server's route is in the table, or the     *)
(* command that adds it has failed.                                        *)
OneJob == \A i, j \in Busy : i = j
JobBeforeProcess == \A j \in Busy : jobs[j].server = server /\ state = "NotRunning"
RouteWhenDone ==
    \A j \in Busy : jobs[j].phase = "done" /\ gateway => jobs[j].server \in routes \/ refused
RouteWhileRunning == state # "NotRunning" /\ gateway => server \in routes \/ refused

CalmRoutes ==
    /\ OneJob
    /\ JobBeforeProcess
    /\ RouteWhenDone
    /\ RouteWhileRunning
    /\ routes \subseteq {server}

RoutesInv == (halves => state = "Running") /\ (calm => CalmRoutes)

(* A step of the worker moves its job to the next phase or delivers it.    *)
LEMMA RoutesWorker ==
    ASSUME TypeOK, RoutesInv, NEW j \in Slots, ServerRouteWorks(j)
    PROVE  RoutesInv'
<1> USE DEF OneJob, JobBeforeProcess, RouteWhenDone, RouteWhileRunning, CalmRoutes, RoutesInv,
            procVars
<1>1. CASE \E found \in BOOLEAN : QueryGateway(j, found)
  <2>1. UNCHANGED <<state, calm, halves, server, routes, refused>> /\ j \in Busy
    BY <1>1 DEF QueryGateway, Busy
  <2>2. Busy' = Busy
    BY <1>1 DEF QueryGateway, Busy, TypeOK, Job
  <2>3. /\ \A i \in Busy : jobs'[i].server = jobs[i].server
        /\ jobs'[j].phase = "done" => ~gateway'
    BY <1>1 DEF QueryGateway, Busy, TypeOK, Job
  <2> QED BY <2>1, <2>2, <2>3
<1>2. CASE AddServerRoute(j)
  <2>1. /\ UNCHANGED <<state, calm, halves, server, gateway>> /\ j \in Busy
        /\ routes' \subseteq routes \cup {jobs[j].server}
        /\ jobs[j].server \in routes' \/ refused'
    BY <1>2 DEF AddServerRoute, Busy
  <2>2. Busy' = Busy
    BY <1>2 DEF AddServerRoute, Busy, TypeOK, Job
  <2>3. \A i \in Busy : jobs'[i].server = jobs[i].server
    BY <1>2 DEF AddServerRoute, Busy, TypeOK, Job
  <2> QED BY <2>1, <2>2, <2>3
<1>3. CASE RouteReady(j)
  <2>1. /\ UNCHANGED <<calm, halves, server, gateway, routes, refused>> /\ j \in Busy
        /\ jobs[j].phase = "done"
    BY <1>3 DEF RouteReady, Busy
  <2>2. Busy' = Busy \ {j} /\ \A i \in Busy' : jobs'[i] = jobs[i]
    BY <1>3 DEF RouteReady, Busy, TypeOK
  <2>3. state' = state \/ (state = "NotRunning" /\ state' = "Starting")
    BY <1>3 DEF RouteReady, Proc!Launch, Proc!isRunning, Proc!procVars
  <2>4. halves' => state' = "Running"
    BY <2>1, <2>3
  <2>5. CASE calm
    <3>1. Busy' = {}
      BY <2>1, <2>2, <2>5
    <3>2. gateway => server \in routes \/ refused
      BY <2>1, <2>5
    <3> QED BY <2>1, <2>4, <2>5, <3>1, <3>2
  <2> QED BY <2>1, <2>4, <2>5
<1> QED BY <1>1, <1>2, <1>3 DEF ServerRouteWorks

(* A start that finds nothing under way begins with no route left.         *)
LEMMA RoutesStart ==
    ASSUME TypeOK, RoutesInv, NEW s \in Servers, NEW ok \in BOOLEAN, Start(s, ok)
    PROVE  RoutesInv'
<1> USE DEF RoutesInv
<1>1. halves' = halves /\ state' = state /\ server' = s /\ calm' = (calm /\ Idle)
  BY DEF Start, Proc!Stop, Proc!procVars
<1>2. CASE calm'
  <2>1. calm /\ Busy = {} /\ state = "NotRunning"
    BY <1>1, <1>2 DEF Idle, Proc!isRunning
  <2>2. RemoveRoutes
    BY <2>1 DEF Start, Proc!isRunning
  <2>3. routes' = {}
    BY <2>1, <2>2 DEF RemoveRoutes, CalmRoutes, TypeOK
  <2>4. \/ Busy' = {}
        \/ \E j \in Slots : Busy' = {j} /\ jobs'[j] = [server |-> s, phase |-> "query"]
    <3>1. CASE ok
      <4>1. PICK j \in Slots \ Busy :
              jobs' = [jobs EXCEPT ![j] = [server |-> s, phase |-> "query"]]
        BY <3>1 DEF Start
      <4>2. Busy' = {j} /\ jobs'[j] = [server |-> s, phase |-> "query"]
        BY <2>1, <4>1 DEF Busy, TypeOK
      <4> QED BY <4>1, <4>2
    <3>2. CASE ~ok
      BY <2>1, <3>2 DEF Start, Busy
    <3> QED BY <3>1, <3>2
  <2> QED BY <1>1, <2>1, <2>3, <2>4
       DEF CalmRoutes, OneJob, JobBeforeProcess, RouteWhenDone, RouteWhileRunning
<1> QED BY <1>1, <1>2

LEMMA RoutesStep ==
    ASSUME TypeOK, RoutesInv, [Next]_vars
    PROVE  RoutesInv'
<1> USE DEF RoutesInv, CalmRoutes, OneJob, JobBeforeProcess, RouteWhenDone, RouteWhileRunning,
            procVars, workVars, Busy
<1>1. ASSUME NEW s \in Servers, NEW ok \in BOOLEAN, Start(s, ok) PROVE RoutesInv'
  BY <1>1, RoutesStart
<1>2. ASSUME NEW j \in Slots, ServerRouteWorks(j) PROVE RoutesInv'
  BY <1>2, RoutesWorker
<1>3. ASSUME NEW j \in Slots, TunRoutesWork(j) PROVE RoutesInv'
  <2>1. UNCHANGED <<state, server, gateway, jobs, routes, calm, refused>>
    BY <1>3 DEF TunRoutesWork, AddTunRoutes, TunRoutesReady
  <2>2. halves' => state = "Running"
    BY <1>3 DEF TunRoutesWork, AddTunRoutes, TunRoutesReady
  <2> QED BY <2>1, <2>2
<1>4. CASE Stop
  BY <1>4 DEF Stop, Proc!Stop, Proc!procVars
<1>5. CASE Exec
  BY <1>5 DEF Exec, Proc!Exec
<1>6. CASE ExecFails \/ Exit
  <2>1. state # "NotRunning" /\ state' = "NotRunning" /\ ~halves' /\ UNCHANGED <<jobs, calm>>
    BY <1>6 DEF ExecFails, Exit, Proc!ExecFails, Proc!Exit
  <2>2. calm => Busy = {}
    BY <2>1
  <2>3. calm => routes' = {}
    BY <1>6 DEF ExecFails, Exit, CleanupRoutes, RemoveRoutes, TypeOK
  <2> QED BY <2>1, <2>2, <2>3
<1>7. CASE KillTimer
  BY <1>7 DEF KillTimer, Proc!KillTimer
<1>8. CASE InterfaceReady
  BY <1>8 DEF InterfaceReady
<1>9. CASE UNCHANGED vars
  BY <1>9 DEF vars
<1> QED BY <1>1, <1>2, <1>3, <1>4, <1>5, <1>6, <1>7, <1>8, <1>9 DEF Next

LEMMA RoutesInvariant == Spec => []RoutesInv
<1>1. Init => RoutesInv
  BY DEF Init, Proc!Init, RoutesInv, CalmRoutes, OneJob, JobBeforeProcess, RouteWhenDone,
         RouteWhileRunning, Busy
<1> QED BY <1>1, TypeCorrect, RoutesStep, PTL DEF Spec

(* RoutesAreTracked: as long as no start has overlapped with another, the  *)
(* only route that can be left in the table is that of the server          *)
(* cleanupRoutes() will delete.                                            *)
THEOREM NoRouteIsLost == Spec => []RoutesAreTracked
<1>1. RoutesInv => RoutesAreTracked
  BY DEF RoutesInv, CalmRoutes, RoutesAreTracked
<1> QED BY <1>1, RoutesInvariant, PTL

(* TunnelSparesServer: as long as no start has overlapped with another, a  *)
(* gateway is known and the command that adds the server's route has not   *)
(* failed, everything is sent into the tunnel except what goes to the      *)
(* server itself.                                                          *)
THEOREM ServerIsSpared == Spec => []TunnelSparesServer
<1>1. RoutesInv => TunnelSparesServer
  BY DEF RoutesInv, CalmRoutes, RouteWhileRunning, TunnelSparesServer
<1> QED BY <1>1, RoutesInvariant, PTL

-----------------------------------------------------------------------------
(* TunManager implements TunService.                                       *)

LEMMA BusyFinite ==
    ASSUME TypeOK
    PROVE  /\ IsFiniteSet(Busy)
           /\ Cardinality(Busy) \in Nat
           /\ \A j \in Slots \ Busy : Cardinality(Busy) < MaxJobs
<1>1. IsFiniteSet(Slots) /\ Cardinality(Slots) = MaxJobs
  BY FS_Interval DEF Slots
<1>2. Busy \subseteq Slots
  BY DEF Busy
<1>3. IsFiniteSet(Busy) /\ Cardinality(Busy) \in Nat
  BY <1>1, <1>2, FS_Subset, FS_CardinalityType
<1>4. ASSUME NEW j \in Slots \ Busy PROVE Cardinality(Busy) < MaxJobs
  <2>1. Cardinality(Busy) <= Cardinality(Slots)
    BY <1>1, <1>2, FS_Subset
  <2>2. Cardinality(Busy) # Cardinality(Slots)
    BY <1>1, <1>2, <1>4, FS_Subset
  <2> QED BY <1>1, <1>3, <2>1, <2>2
<1> QED BY <1>3, <1>4

(* A new job makes the abstract count one larger, its result one smaller.  *)
LEMMA BusyChanges ==
    ASSUME TypeOK, NEW j \in Slots, NEW x,
           jobs' = [jobs EXCEPT ![j] = x]
    PROVE  /\ j \notin Busy /\ x # None => Cardinality(Busy)' = Cardinality(Busy) + 1
           /\ j \in Busy /\ x = None => Cardinality(Busy)' = Cardinality(Busy) - 1
           /\ j \in Busy /\ x # None => Cardinality(Busy)' = Cardinality(Busy)
<1>1. x # None => Busy' = Busy \cup {j}
  BY DEF Busy, TypeOK
<1>2. x = None => Busy' = Busy \ {j}
  BY DEF Busy, TypeOK
<1>3. IsFiniteSet(Busy)
  BY BusyFinite
<1>4. j \notin Busy => Cardinality(Busy \cup {j}) = Cardinality(Busy) + 1
  BY <1>3, FS_AddElement
<1>5. j \in Busy => Cardinality(Busy \ {j}) = Cardinality(Busy) - 1
  BY <1>3, FS_RemoveElement
<1>6. j \in Busy => Busy \cup {j} = Busy
  OBVIOUS
<1> QED BY <1>1, <1>2, <1>4, <1>5, <1>6

LEMMA StartImplements ==
    ASSUME TypeOK, NEW s \in Servers, NEW ok \in BOOLEAN, Start(s, ok)
    PROVE  Service!TunStart(ok)
<1>1. Service!Stop(1)
  BY DEF Start, Proc!Stop, Service!Stop, Proc!isRunning, Service!isRunning, Proc!procVars,
         Service!procVars
<1>2. CASE ok
  <2>1. PICK j \in Slots \ Busy :
          jobs' = [jobs EXCEPT ![j] = [server |-> s, phase |-> "query"]]
    BY <1>2 DEF Start
  <2>2. [server |-> s, phase |-> "query"] # None
    OBVIOUS
  <2>3. Cardinality(Busy)' = Cardinality(Busy) + 1
    BY <2>1, <2>2, BusyChanges
  <2>4. Cardinality(Busy) < MaxJobs
    BY <2>1, BusyFinite
  <2> QED BY <1>1, <1>2, <2>3, <2>4 DEF Start, Service!TunStart
<1>3. CASE ~ok
  BY <1>1, <1>3 DEF Start, Service!TunStart, Busy
<1> QED BY <1>2, <1>3

LEMMA WorkerImplements ==
    ASSUME TypeOK, NEW j \in Slots, ServerRouteWorks(j)
    PROVE  Service!RouteReady \/ UNCHANGED Service!tunVars
<1>1. CASE \E found \in BOOLEAN : QueryGateway(j, found)
  <2>1. Busy' = Busy
    BY <1>1 DEF QueryGateway, Busy, TypeOK, Job
  <2> QED BY <1>1, <2>1 DEF QueryGateway, procVars, Service!tunVars
<1>2. CASE AddServerRoute(j)
  <2>1. Busy' = Busy
    BY <1>2 DEF AddServerRoute, Busy, TypeOK, Job
  <2> QED BY <1>2, <2>1 DEF AddServerRoute, procVars, Service!tunVars
<1>3. CASE RouteReady(j)
  <2>1. j \in Busy /\ Cardinality(Busy)' = Cardinality(Busy) - 1
    BY <1>3, BusyChanges DEF RouteReady, Busy
  <2>2. Cardinality(Busy) > 0
    BY <2>1, BusyFinite, FS_EmptySet
  <2> QED BY <1>3, <2>1, <2>2 DEF RouteReady, Service!RouteReady, Proc!Launch,
             Service!Launch, Proc!isRunning, Service!isRunning, Proc!procVars, procVars,
             Service!procVars
<1> QED BY <1>1, <1>2, <1>3 DEF ServerRouteWorks

(* A step of TunManager is a step of TunService or leaves it unchanged.    *)
LEMMA StepImplements ==
    ASSUME TypeOK, [Next]_vars
    PROVE  [Service!TunNext]_(Service!tunVars)
<1> SUFFICES Service!TunNext \/ UNCHANGED Service!tunVars
  OBVIOUS
<1> USE DEF procVars, Proc!procVars, Service!procVars, Proc!isRunning, Service!isRunning
<1>1. ASSUME NEW s \in Servers, NEW ok \in BOOLEAN, Start(s, ok) PROVE Service!TunNext
  BY <1>1, StartImplements DEF Service!TunNext
<1>2. ASSUME NEW j \in Slots, ServerRouteWorks(j)
      PROVE  Service!TunNext \/ UNCHANGED Service!tunVars
  BY <1>2, WorkerImplements DEF Service!TunNext
<1>3. CASE Stop
  <2>1. Service!TunStop(1)
    BY <1>3 DEF Stop, Proc!Stop, Service!Stop, Service!TunStop, workVars, Busy
  <2> QED BY <2>1 DEF Service!TunNext
<1>4. CASE Exec
  <2>1. Service!TunExec
    BY <1>4 DEF Exec, Proc!Exec, Service!Exec, Service!TunExec, Busy
  <2> QED BY <2>1 DEF Service!TunNext
<1>5. CASE ExecFails
  <2>1. Service!TunExecFails
    BY <1>5 DEF ExecFails, Proc!ExecFails, Service!ExecFails, Service!TunExecFails, Busy, workVars
  <2> QED BY <2>1 DEF Service!TunNext
<1>6. CASE Exit
  <2>1. Service!TunExit
    BY <1>6 DEF Exit, Proc!Exit, Service!Exit, Service!TunExit, Busy, workVars
  <2> QED BY <2>1 DEF Service!TunNext
<1>7. CASE KillTimer
  <2>1. Service!TunKillTimer
    BY <1>7 DEF KillTimer, Proc!KillTimer, Service!KillTimer, Service!TunKillTimer, Busy, workVars
  <2> QED BY <2>1 DEF Service!TunNext
<1>8. CASE InterfaceReady
  <2>1. Service!AsyncEnds \/ UNCHANGED Service!tunVars
    BY <1>8 DEF InterfaceReady, Service!AsyncEnds, Service!tunVars, Busy, TypeOK
  <2> QED BY <2>1 DEF Service!TunNext
<1>9. ASSUME NEW j \in Slots, TunRoutesWork(j)
      PROVE  Service!TunNext \/ UNCHANGED Service!tunVars
  <2>1. Service!AsyncEnds \/ UNCHANGED Service!tunVars
    BY <1>9 DEF TunRoutesWork, AddTunRoutes, TunRoutesReady, Service!AsyncEnds,
                Service!tunVars, Busy, TypeOK
  <2> QED BY <2>1 DEF Service!TunNext
<1>10. CASE UNCHANGED vars
  BY <1>10 DEF vars, Busy, workVars, Service!tunVars
<1> QED BY <1>1, <1>2, <1>3, <1>4, <1>5, <1>6, <1>7, <1>8, <1>9, <1>10 DEF Next

(* TunManager behaves as TunService, with the jobs under way counted.      *)
THEOREM Implements == Spec => ImplementsTunService
<1>1. Init => Service!TunInit
  <2>1. ASSUME Init PROVE Busy = {}
    BY <2>1 DEF Init, Busy
  <2> QED BY <2>1, FS_EmptySet DEF Init, Proc!Init, Service!Init, Service!TunInit
<1>2. Spec => [][Service!TunNext]_(Service!tunVars)
  BY TypeCorrect, StepImplements, PTL DEF Spec
<1> QED BY <1>1, <1>2, PTL DEF ImplementsTunService, Service!TunSpec, Spec

-----------------------------------------------------------------------------
(* Where the tunnel's program comes from.  DownloadInstalls: elsewhere     *)
(* than on Windows no failure of the check, the download, the unpacking or *)
(* the copying ends the shown download without saying so, and what ended   *)
(* well has left the program where TunManager starts it from.              *)
THEOREM DownloadsInstall == AssetsSpec => DownloadInstalls
<1> DEFINE Installs == shownDownload /\ ~shownDownload' /\ ~shownFailure' /\ ~windows
                          => IsTunAssetsAvailable'
<1>1. ASSUME AssetsNext
      PROVE  Installs
  <2>1. ASSUME ChooseTun \/ LeaveTun \/ ConnectInTun \/ Later
        PROVE  Installs
    BY <2>1 DEF ChooseTun, LeaveTun, ConnectInTun, Later
  <2>2. ASSUME DownloadTunAssets
        PROVE  Installs
    BY <2>2 DEF DownloadTunAssets
  <2>3. ASSUME OnHevReleaseCheckFinished
        PROVE  Installs
    BY <2>3 DEF OnHevReleaseCheckFinished, Failed
  <2>4. ASSUME HevDownloadLost
        PROVE  Installs
    BY <2>4 DEF HevDownloadLost, Failed
  <2>5. ASSUME InstallUnix
        PROVE  Installs
    <3>1. CASE installed' = {Program} /\ UNCHANGED windows
      BY <3>1 DEF IsTunAssetsAvailable, Needed
    <3> QED BY <2>5, <3>1 DEF InstallUnix, Failed
  <2>6. ASSUME InstallWindows
        PROVE  Installs
    BY <2>6 DEF InstallWindows
  <2> QED BY <1>1, <2>1, <2>2, <2>3, <2>4, <2>5, <2>6 DEF AssetsNext, OnHevDownloadFinished
<1>2. [AssetsNext]_assetsVars => [Installs]_assetsVars
  BY <1>1
<1> QED BY <1>2, PTL DEF AssetsSpec, DownloadInstalls

LEMMA AssetsTypeStep ==
    ASSUME AssetsTypeOK, [AssetsNext]_assetsVars
    PROVE  AssetsTypeOK'
<1> USE DEF AssetsTypeOK, Needed, managerVars, pageVars, Failed, Finished, Cleanup,
            StartHevDownload
<1>1. CASE ChooseTun \/ LeaveTun \/ ConnectInTun \/ Later
  BY Zenon, <1>1 DEF ChooseTun, LeaveTun, ConnectInTun, Later
<1>2. CASE DownloadTunAssets
  BY ZenonT(30), <1>2 DEF DownloadTunAssets
<1>3. CASE OnHevReleaseCheckFinished
  BY ZenonT(30), <1>3 DEF OnHevReleaseCheckFinished
<1>4. CASE HevDownloadLost
  BY Zenon, <1>4 DEF HevDownloadLost
<1>5. CASE InstallUnix
  BY ZenonT(30), <1>5 DEF InstallUnix
<1>6. CASE InstallWindows
  BY ZenonT(30), <1>6 DEF InstallWindows
<1>7. CASE UNCHANGED assetsVars
  BY Zenon, <1>7 DEF assetsVars
<1> QED BY <1>1, <1>2, <1>3, <1>4, <1>5, <1>6, <1>7 DEF AssetsNext, OnHevDownloadFinished

(* AssetsTypeOK: the manager's step and flags are what they are declared   *)
(* to be, and no file is installed that the platform does not need.        *)
THEOREM AssetsTypeCorrect == AssetsSpec => []AssetsTypeOK
<1>1. AssetsInit => AssetsTypeOK
  <2> SUFFICES ASSUME AssetsInit PROVE AssetsTypeOK
    OBVIOUS
  <2>1. tunMode \in BOOLEAN
    BY Zenon DEF AssetsInit, IsTunAssetsAvailable
  <2> QED BY <2>1, Zenon DEF AssetsInit, AssetsTypeOK
<1> QED BY <1>1, AssetsTypeStep, PTL DEF AssetsSpec
=============================================================================
