------------------------ MODULE PaqetControllerProofs ------------------------
(***************************************************************************)
(* What PaqetController guarantees for every set of configurations, ports  *)
(* and modes and for every bound.                                          *)
(***************************************************************************)
EXTENDS PaqetController, SequenceTheorems, TLAPS

USE NoneAssumption, PortsAssumption, ModesAssumption, BoundsAssumption

-----------------------------------------------------------------------------
(* Type correctness.                                                       *)

(* The calls on one child process keep its type.                           *)
LEMMA RunnerCallsType ==
    ASSUME Runner!TypeOK, NEW n \in 1..2, Runner!Stop(n) \/ Runner!Launch
    PROVE  Runner!TypeOK'
BY DEF Runner!TypeOK, Runner!Stop, Runner!Launch, Runner!isRunning, Runner!procVars

LEMMA RunnerEventsType ==
    ASSUME Runner!TypeOK,
           \/ Runner!Exec \/ Runner!ExecFails \/ Runner!Exit \/ Runner!KillTimer
    PROVE  Runner!TypeOK'
BY DEF Runner!TypeOK, Runner!Exec, Runner!ExecFails, Runner!Exit, Runner!KillTimer,
       Runner!isRunning

LEMMA TunCallsType ==
    ASSUME Tun!TunTypeOK, NEW n \in 1..2, NEW ok \in BOOLEAN,
           Tun!TunStop(n) \/ Tun!TunStart(ok)
    PROVE  Tun!TunTypeOK'
<1>1. ASSUME NEW k \in 1..2, Tun!Stop(k)
      PROVE  Tun!TypeOK'
  BY <1>1 DEF Tun!TunTypeOK, Tun!TypeOK, Tun!Stop, Tun!isRunning, Tun!procVars
<1>2. Tun!TypeOK'
  BY <1>1 DEF Tun!TunStop, Tun!TunStart
<1>3. tjobs' \in 0..MaxJobs
  BY DEF Tun!TunTypeOK, Tun!TunStop, Tun!TunStart
<1>4. tasync' \in BOOLEAN
  BY Zenon DEF Tun!TunStop, Tun!TunStart
<1> QED BY <1>2, <1>3, <1>4 DEF Tun!TunTypeOK

LEMMA TunEventsType ==
    ASSUME Tun!TunTypeOK,
           \/ Tun!RouteReady \/ Tun!TunExec \/ Tun!TunExecFails
           \/ Tun!TunExit \/ Tun!TunKillTimer \/ Tun!AsyncEnds
    PROVE  Tun!TunTypeOK'
<1>1. Tun!TypeOK'
  BY DEF Tun!TunTypeOK, Tun!TypeOK, Tun!RouteReady, Tun!TunExec, Tun!TunExecFails,
         Tun!TunExit, Tun!TunKillTimer, Tun!AsyncEnds, Tun!Launch, Tun!Exec,
         Tun!ExecFails, Tun!Exit, Tun!KillTimer, Tun!isRunning, Tun!procVars
<1>2. tjobs' \in 0..MaxJobs
  BY DEF Tun!TunTypeOK, Tun!RouteReady, Tun!TunExec, Tun!TunExecFails, Tun!TunExit,
         Tun!TunKillTimer, Tun!AsyncEnds
<1>3. tasync' = FALSE \/ tasync' = tasync
  BY DEF Tun!RouteReady, Tun!TunExec, Tun!TunExecFails, Tun!TunExit, Tun!TunKillTimer,
         Tun!AsyncEnds
<1>4. tasync' \in BOOLEAN
  BY <1>3, Zenon DEF Tun!TunTypeOK
<1> QED BY <1>1, <1>2, <1>4 DEF Tun!TunTypeOK

LEMMA ConnectType ==
    ASSUME TypeOK, ConnectToSelected
    PROVE  detecting' \in Request \cup {None}
BY DEF TypeOK, ConnectToSelected, HasSelection, Request

LEMMA StoppedType ==
    ASSUME TypeOK, NEW hit \in SUBSET stops, NEW id \in Configs \cup {None},
           OnStopped(hit, id)
    PROVE  /\ stops' \in SUBSET Stop
           /\ connected' \in Configs \cup {None}
           /\ detecting' \in Request \cup {None}
<1> DEFINE fired == {s \in hit : s.left = 1}
<1>1. stops' \in SUBSET Stop
  <2>1. ASSUME NEW s \in hit \ fired
        PROVE  [s EXCEPT !.left = s.left - 1] \in Stop
    BY DEF TypeOK, Stop
  <2> QED BY <2>1 DEF OnStopped, TypeOK
<1>2. connected' \in Configs \cup {None}
  BY DEF OnStopped
<1>3. detecting' \in Request \cup {None}
  BY ConnectType DEF OnStopped, TypeOK
<1> QED BY <1>1, <1>2, <1>3

LEMMA DisconnectType ==
    ASSUME TypeOK, NEW n \in 1..2, NEW reconnects \in SUBSET BOOLEAN,
           DisconnectAsync(n, reconnects)
    PROVE  /\ stops' \in SUBSET Stop
           /\ connected' \in Configs \cup {None}
           /\ detecting' \in Request \cup {None}
           /\ Runner!TypeOK'
           /\ Tun!TunTypeOK'
           /\ http' \in Ports \cup {None}
           /\ sys' \in HttpPorts \cup {None}
<1>1. Runner!TypeOK'
  BY RunnerCallsType DEF DisconnectAsync, TypeOK
<1>2. Tun!TunTypeOK'
  BY TunCallsType DEF DisconnectAsync, TypeOK, tunVars, Tun!TunTypeOK, Tun!TypeOK
<1>3. stops' \in SUBSET Stop
  <2> DEFINE cont(r) == [left |-> IF Runner!isRunning /\ Tun!isRunning THEN 2 ELSE 1,
                         runner |-> Runner!isRunning,
                         tun |-> Tun!isRunning,
                         reconnect |-> r]
  <2>1. Runner!isRunning \in BOOLEAN /\ Tun!isRunning \in BOOLEAN
    BY DEF Runner!isRunning, Tun!isRunning
  <2>2. (IF Runner!isRunning /\ Tun!isRunning THEN 2 ELSE 1) \in 1..2
    OBVIOUS
  <2>3. ASSUME NEW r \in BOOLEAN
        PROVE  cont(r) \in Stop
    BY <2>1, <2>2, Zenon DEF Stop
  <2>4. stops' = stops \/ stops' = stops \cup {cont(r) : r \in reconnects}
    BY DEF DisconnectAsync
  <2> QED BY <2>3, <2>4 DEF TypeOK
<1>4. /\ connected' \in Configs \cup {None}
      /\ detecting' \in Request \cup {None}
  BY ConnectType DEF DisconnectAsync, TypeOK
<1> QED BY <1>1, <1>2, <1>3, <1>4 DEF DisconnectAsync

LEMMA StartTunType ==
    ASSUME TypeOK, NEW ok \in BOOLEAN, NEW id \in Configs \cup {None}, StartTun(ok, id)
    PROVE  /\ stops' \in SUBSET Stop
           /\ connected' \in Configs \cup {None}
           /\ detecting' \in Request \cup {None}
           /\ Tun!TunTypeOK'
<1> DEFINE hit == IF Tun!StopEmitsAtOnce THEN {s \in stops : s.tun} ELSE {}
<1>1. hit \in SUBSET stops
  OBVIOUS
<1>2. OnStopped(hit, id)
  BY DEF StartTun
<1>3. Tun!TunTypeOK'
  BY TunCallsType DEF StartTun, TypeOK
<1> QED BY <1>1, <1>2, <1>3, StoppedType

LEMMA SystemProxyType ==
    ASSUME TypeOK, NEW p \in Ports, NEW l \in BOOLEAN, NEW e \in BOOLEAN,
           StartSystemProxy(p, l, e)
    PROVE  /\ http' \in Ports \cup {None}
           /\ sys' \in HttpPorts \cup {None}
BY DEF StartSystemProxy, TypeOK, HttpPorts

LEMMA SwitchProfileType ==
    ASSUME TypeOK, NEW b \in BOOLEAN, SwitchProfile(b)
    PROVE  /\ stops' \in SUBSET Stop
           /\ connected' \in Configs \cup {None}
           /\ detecting' \in Request \cup {None}
           /\ Runner!TypeOK'
           /\ launched' \in Request \cup {None}
           /\ Tun!TunTypeOK'
           /\ http' \in Ports \cup {None}
           /\ sys' \in HttpPorts \cup {None}
<1>1. CASE b /\ Runner!isRunning
  <2>1. DisconnectAsync(1, {TRUE}) /\ UNCHANGED launched
    BY <1>1 DEF SwitchProfile
  <2>2. 1 \in 1..2 /\ {TRUE} \in SUBSET BOOLEAN
    OBVIOUS
  <2>3. launched' \in Request \cup {None}
    BY <2>1 DEF TypeOK
  <2> HIDE DEF Request, Stop
  <2> QED BY <2>1, <2>2, <2>3, DisconnectType
<1>2. CASE ~(b /\ Runner!isRunning)
  BY <1>2 DEF SwitchProfile, TypeOK, runnerVars, tunVars, proxyVars, Runner!TypeOK,
              Tun!TunTypeOK, Tun!TypeOK
<1> QED BY <1>1, <1>2

LEMMA InitType == Init => TypeOK
<1> SUFFICES ASSUME Init
             PROVE  TypeOK
  OBVIOUS
<1>1. Runner!TypeOK
  BY DEF Init, Runner!Init, Runner!TypeOK
<1>2. Tun!TunTypeOK
  <2>1. Tun!TypeOK /\ tjobs \in 0..MaxJobs
    BY DEF Init, Tun!TunInit, Tun!Init, Tun!TypeOK
  <2>2. tasync \in BOOLEAN
    BY Zenon DEF Init, Tun!TunInit
  <2> QED BY <2>1, <2>2 DEF Tun!TunTypeOK
<1>3. starts \in Seq(Start) /\ firing \in Seq(Start)
  BY DEF Init
<1> QED BY <1>1, <1>2, <1>3 DEF Init, TypeOK

(* Every action keeps the type.                                         *)
LEMMA NextType == TypeOK /\ [Next]_vars => TypeOK'
<1> SUFFICES ASSUME TypeOK, [Next]_vars
             PROVE  TypeOK'
  OBVIOUS
<1> USE DEF settingVars, linkVars, runnerVars, tunVars, proxyVars
<1>r. UNCHANGED <<rstate, rsignal, rtimers>> => Runner!TypeOK'
  BY DEF TypeOK, Runner!TypeOK
<1>t. UNCHANGED tunVars => Tun!TunTypeOK'
  BY DEF TypeOK, Tun!TunTypeOK, Tun!TypeOK
<1>c. 1 \in 1..2 /\ 2 \in 1..2 /\ {TRUE} \in SUBSET BOOLEAN
      /\ {FALSE} \in SUBSET BOOLEAN /\ BOOLEAN \in SUBSET BOOLEAN
  OBVIOUS
<1>1. ASSUME Restart
      PROVE  TypeOK'
  <2>1. CASE Runner!isRunning
    BY <1>1, <2>1, <1>c, DisconnectType DEF Restart, TypeOK
  <2>2. CASE ~Runner!isRunning
    BY <1>1, <2>2, <1>r, <1>t, ConnectType DEF Restart, TypeOK
  <2> QED BY <2>1, <2>2
<1>2. ASSUME NEW c \in Configs, NEW b \in BOOLEAN, SetSelectedConfigId(c, b)
      PROVE  TypeOK'
  BY <1>2, SwitchProfileType DEF SetSelectedConfigId, TypeOK
<1>3. ASSUME NEW c \in Configs, NEW b \in BOOLEAN, AddConfig(c, b)
      PROVE  TypeOK'
  BY <1>3, SwitchProfileType DEF AddConfig, TypeOK
<1>4. ASSUME UpdateConfig
      PROVE  TypeOK'
  BY <1>4, <1>c, DisconnectType DEF UpdateConfig, TypeOK
<1>5. ASSUME NEW c \in Configs, NEW b \in BOOLEAN, DeleteConfig(c, b)
      PROVE  TypeOK'
  <2> DEFINE disconnects == c = connected
             switches == c = selected /\ b /\ Runner!isRunning
  <2>1. CASE disconnects /\ switches
    <3>1. DisconnectAsync(2, BOOLEAN) /\ UNCHANGED launched
      BY <1>5, <2>1 DEF DeleteConfig
    <3> QED BY <3>1, <1>5, <1>c, DisconnectType DEF DeleteConfig, TypeOK
  <2>2. CASE disconnects /\ ~switches
    <3>1. DisconnectAsync(1, {FALSE}) /\ UNCHANGED launched
      BY <1>5, <2>2 DEF DeleteConfig
    <3> QED BY <3>1, <1>5, <1>c, DisconnectType DEF DeleteConfig, TypeOK
  <2>3. CASE ~disconnects
    <3>1. SwitchProfile(switches)
      BY <1>5, <2>3 DEF DeleteConfig
    <3>2. switches \in BOOLEAN
      BY DEF Runner!isRunning
    <3> QED BY <3>1, <3>2, <1>5, SwitchProfileType DEF DeleteConfig, TypeOK
  <2> QED BY <2>1, <2>2, <2>3
<1>6. ASSUME NEW p \in Ports, SetSocksPort(p)
      PROVE  TypeOK'
  <2>1. CASE Runner!isRunning
    BY <1>6, <2>1, <1>c, DisconnectType DEF SetSocksPort, TypeOK
  <2>2. CASE ~Runner!isRunning
    BY <1>6, <2>2, <1>r, <1>t DEF SetSocksPort, TypeOK
  <2> QED BY <2>1, <2>2
<1>7. ASSUME NEW m \in Modes, NEW l \in BOOLEAN, NEW e \in BOOLEAN, NEW t \in BOOLEAN,
             SetProxyMode(m, l, e, t)
      PROVE  TypeOK'
  <2>1. CASE ~Runner!isRunning \/ ~HasSelection
    BY <1>7, <2>1, <1>r, <1>t DEF SetProxyMode, TypeOK
  <2>2. CASE Runner!isRunning /\ HasSelection
    <3>1. /\ stops' \in SUBSET Stop
          /\ connected' \in Configs \cup {None}
          /\ detecting' \in Request \cup {None}
          /\ Tun!TunTypeOK'
      <4>1. CASE m = "tun"
        BY <1>7, <2>2, <4>1, StartTunType DEF SetProxyMode, TypeOK
      <4>2. CASE m # "tun" /\ mode = "tun" /\ Tun!isRunning
        BY <1>7, <2>2, <4>2, <1>c, TunCallsType DEF SetProxyMode, TypeOK
      <4>3. CASE m # "tun" /\ ~(mode = "tun" /\ Tun!isRunning)
        BY <1>7, <2>2, <4>3, <1>t DEF SetProxyMode, TypeOK
      <4> QED BY <4>1, <4>2, <4>3
    <3>2. /\ http' \in Ports \cup {None}
          /\ sys' \in HttpPorts \cup {None}
      <4>1. CASE m = "system"
        <5>1. StartSystemProxy(repo[selected], l, e)
          BY <1>7, <2>2, <4>1 DEF SetProxyMode
        <5>2. repo[selected] \in Ports
          BY <2>2 DEF HasSelection, TypeOK
        <5> QED BY <5>1, <5>2, SystemProxyType
      <4>2. CASE m # "system"
        BY <1>7, <2>2, <4>2 DEF SetProxyMode, TypeOK
      <4> QED BY <4>1, <4>2
    <3> QED BY <3>1, <3>2, <1>7, <1>r DEF SetProxyMode, TypeOK
  <2> QED BY <2>1, <2>2
<1>8. ASSUME AutoStart \/ PaqetInstalled
      PROVE  TypeOK'
  BY <1>8, <1>r, <1>t, ConnectType DEF AutoStart, PaqetInstalled, TypeOK
<1>9. ASSUME NEW r \in BOOLEAN, NEW l \in BOOLEAN, DetectionFinished(r, l)
      PROVE  TypeOK'
  <2>1. starts' \in Seq(Start)
    <3>1. detecting \in Request
      BY <1>9 DEF DetectionFinished, TypeOK
    <3>2. [id |-> detecting.id, port |-> detecting.port, mode |-> mode] \in Start
      BY <3>1 DEF Request, Start, TypeOK
    <3>3. \/ starts' = starts \/ starts' = <<>>
          \/ starts' = Append(starts, [id |-> detecting.id, port |-> detecting.port,
                                       mode |-> mode])
      BY <1>9 DEF DetectionFinished
    <3>4. starts \in Seq(Start) /\ <<>> \in Seq(Start)
      BY DEF TypeOK
    <3>5. Append(starts, [id |-> detecting.id, port |-> detecting.port, mode |-> mode])
          \in Seq(Start)
      BY <3>2, <3>4, AppendProperties, Zenon
    <3> QED BY <3>3, <3>4, <3>5, Zenon
  <2>2. Runner!TypeOK'
    BY <1>9, <1>c, <1>r, RunnerCallsType DEF DetectionFinished, TypeOK
  <2>3. launched' \in Request \cup {None}
    BY <1>9 DEF DetectionFinished, TypeOK
  <2> QED BY <1>9, <2>1, <2>2, <2>3, <1>t DEF DetectionFinished, TypeOK
<1>10. ASSUME RunnerStarted
       PROVE  TypeOK'
  BY <1>10, <1>t, RunnerEventsType DEF RunnerStarted, TypeOK
<1>11. ASSUME NEW l \in BOOLEAN, NEW e \in BOOLEAN, NEW t \in BOOLEAN, OnStarted(l, e, t)
       PROVE  TypeOK'
  <2> DEFINE s == Head(firing)
  <2>1. s \in Start /\ Tail(firing) \in Seq(Start)
    BY <1>11 DEF OnStarted, TypeOK
  <2>2. s.id \in Configs /\ s.port \in Ports
    BY <2>1 DEF Start
  <2>3. /\ stops' \in SUBSET Stop
        /\ connected' \in Configs \cup {None}
        /\ detecting' \in Request \cup {None}
        /\ Tun!TunTypeOK'
    BY <1>11, <2>2, <1>t, StartTunType DEF OnStarted, ConnectedBy, TypeOK
  <2>4. /\ http' \in Ports \cup {None}
        /\ sys' \in HttpPorts \cup {None}
    BY <1>11, <2>2, SystemProxyType DEF OnStarted, TypeOK
  <2> QED BY <1>11, <2>1, <2>3, <2>4, <1>r DEF OnStarted, TypeOK
<1>12. ASSUME RunnerStartFailed \/ RunnerExited
       PROVE  TypeOK'
  <2>1. OnStopped({s \in stops : s.runner}, connected) /\ launched' = None
    BY <1>12 DEF RunnerStartFailed, RunnerExited
  <2>2. /\ stops' \in SUBSET Stop
        /\ connected' \in Configs \cup {None}
        /\ detecting' \in Request \cup {None}
    BY <2>1, StoppedType DEF TypeOK
  <2>3. Runner!TypeOK'
    BY <1>12, RunnerEventsType DEF RunnerStartFailed, RunnerExited, TypeOK
  <2>4. starts' \in Seq(Start)
    <3>1. starts' = <<>> \/ starts' = starts
      BY <1>12 DEF RunnerStartFailed, RunnerExited
    <3>2. starts \in Seq(Start) /\ <<>> \in Seq(Start)
      BY DEF TypeOK
    <3> QED BY <3>1, <3>2, Zenon
  <2> QED BY <1>12, <2>1, <2>2, <2>3, <2>4, <1>t DEF RunnerStartFailed, RunnerExited, TypeOK
<1>13. ASSUME RunnerKillTimer
       PROVE  TypeOK'
  BY <1>13, <1>t, RunnerEventsType DEF RunnerKillTimer, TypeOK
<1>14. ASSUME TunWorks
       PROVE  TypeOK'
  BY <1>14, <1>r, TunEventsType DEF TunWorks, TypeOK
<1>15. ASSUME TunStopped
       PROVE  TypeOK'
  <2>1. /\ stops' \in SUBSET Stop
        /\ connected' \in Configs \cup {None}
        /\ detecting' \in Request \cup {None}
    BY <1>15, StoppedType DEF TunStopped, TypeOK
  <2> QED BY <1>15, <2>1, <1>r, TunEventsType DEF TunStopped, TypeOK
<1>16. CASE UNCHANGED vars
  BY <1>16, <1>r, <1>t DEF vars, TypeOK
<1> QED
  BY <1>1, <1>2, <1>3, <1>4, <1>5, <1>6, <1>7, <1>8, <1>9, <1>10, <1>11, <1>12,
     <1>13, <1>14, <1>15, <1>16
     DEF Next, UserCall, DetectionReturns, StartedSlot

(* The types of PaqetController are invariant.                             *)
THEOREM TypeCorrect == Spec => []TypeOK
BY InitType, NextType, PTL DEF Spec

-----------------------------------------------------------------------------
(* The continuations of disconnectAsync().                                 *)

(* Whoever waits is not disturbed while no process ends.                   *)
LEMMA WaitingKept ==
    ASSUME NoOrphanStop, UNCHANGED stops,
           Runner!isRunning => Runner!isRunning',
           Tun!isRunning => Tun!isRunning'
    PROVE  NoOrphanStop'
BY DEF NoOrphanStop

(* A new continuation counts exactly the processes that are alive.         *)
LEMMA DisconnectWaits ==
    ASSUME TypeOK, NoOrphanStop, NEW n \in 1..2, NEW reconnects \in SUBSET BOOLEAN,
           DisconnectAsync(n, reconnects)
    PROVE  NoOrphanStop'
<1>1. UNCHANGED <<rstate, tstate>>
  BY DEF DisconnectAsync, Runner!Stop, Runner!procVars, Tun!TunStop, Tun!Stop,
         Tun!procVars, tunVars
<1>2. ASSUME NEW s \in stops', s \notin stops
      PROVE  /\ s.left = 2 => s.runner /\ s.tun /\ Runner!isRunning /\ Tun!isRunning
             /\ \/ s.runner /\ Runner!isRunning
                \/ s.tun /\ Tun!isRunning
  <2>1. Runner!isRunning \/ Tun!isRunning
    BY <1>2 DEF DisconnectAsync
  <2>2. PICK r \in reconnects :
          s = [left |-> IF Runner!isRunning /\ Tun!isRunning THEN 2 ELSE 1,
               runner |-> Runner!isRunning, tun |-> Tun!isRunning, reconnect |-> r]
    BY <1>2, <2>1 DEF DisconnectAsync
  <2>3. /\ s.left = IF Runner!isRunning /\ Tun!isRunning THEN 2 ELSE 1
        /\ s.runner = Runner!isRunning
        /\ s.tun = Tun!isRunning
    BY <2>2, Zenon
  <2> QED BY <2>1, <2>3
<1> QED BY <1>1, <1>2 DEF NoOrphanStop, Runner!isRunning, Tun!isRunning

(* What a stopped signal leaves waiting expected a second signal before.   *)
LEMMA StoppedLeaves ==
    ASSUME TypeOK, NEW hit \in SUBSET stops, NEW id, OnStopped(hit, id),
           NEW s \in stops'
    PROVE  \/ s \in stops \ hit
           \/ \E q \in hit : /\ q.left = 2
                            /\ s.left = 1
                            /\ s.runner = q.runner
                            /\ s.tun = q.tun
<1> SUFFICES ASSUME s \notin stops \ hit
             PROVE  \E q \in hit : /\ q.left = 2
                                  /\ s.left = 1
                                  /\ s.runner = q.runner
                                  /\ s.tun = q.tun
  OBVIOUS
<1>1. PICK q \in hit : q.left # 1 /\ s = [q EXCEPT !.left = q.left - 1]
  BY DEF OnStopped
<1>2. q \in Stop
  BY DEF TypeOK
<1>3. q.left = 2
  BY <1>1, <1>2 DEF Stop
<1>4. s.left = 1 /\ s.runner = q.runner /\ s.tun = q.tun
  BY <1>1, <1>2, <1>3 DEF Stop
<1> QED BY <1>3, <1>4

LEMMA RunnerStoppedWaits ==
    ASSUME TypeOK, NoOrphanStop, UNCHANGED tstate,
           OnStopped({s \in stops : s.runner}, connected)
    PROVE  NoOrphanStop'
<1> SUFFICES ASSUME NEW s \in stops'
             PROVE  s.left # 2 /\ s.tun /\ Tun!isRunning
  BY DEF NoOrphanStop, Tun!isRunning
<1>1. CASE s \in stops /\ ~s.runner
  BY <1>1 DEF NoOrphanStop
<1>2. CASE \E q \in {x \in stops : x.runner} :
              q.left = 2 /\ s.left = 1 /\ s.runner = q.runner /\ s.tun = q.tun
  BY <1>2 DEF NoOrphanStop
<1> QED BY <1>1, <1>2, StoppedLeaves

(* The same for the tunnel, whether it just ended or was not running when  *)
(* its stop() emitted stopped.                                             *)
LEMMA TunStoppedWaits ==
    ASSUME TypeOK, NoOrphanStop, UNCHANGED rstate, NEW id,
           OnStopped({s \in stops : s.tun}, id)
    PROVE  NoOrphanStop'
<1> SUFFICES ASSUME NEW s \in stops'
             PROVE  s.left # 2 /\ s.runner /\ Runner!isRunning
  BY DEF NoOrphanStop, Runner!isRunning
<1>1. CASE s \in stops /\ ~s.tun
  BY <1>1 DEF NoOrphanStop
<1>2. CASE \E q \in {x \in stops : x.tun} :
              q.left = 2 /\ s.left = 1 /\ s.runner = q.runner /\ s.tun = q.tun
  BY <1>2 DEF NoOrphanStop
<1> QED BY <1>1, <1>2, StoppedLeaves

LEMMA StartTunWaits ==
    ASSUME TypeOK, NoOrphanStop, UNCHANGED rstate, NEW ok \in BOOLEAN, NEW id,
           StartTun(ok, id)
    PROVE  NoOrphanStop'
<1>1. CASE Tun!StopEmitsAtOnce
  BY <1>1, TunStoppedWaits DEF StartTun
<1>2. CASE ~Tun!StopEmitsAtOnce
  <2>1. UNCHANGED <<stops, tstate>>
    BY <1>2 DEF StartTun, OnStopped, Tun!TunStart, Tun!Stop, Tun!procVars,
                Tun!StopEmitsAtOnce
  <2> QED BY <2>1, WaitingKept DEF Runner!isRunning, Tun!isRunning
<1> QED BY <1>1, <1>2

LEMMA SwitchProfileWaits ==
    ASSUME TypeOK, NoOrphanStop, NEW b \in BOOLEAN, SwitchProfile(b)
    PROVE  NoOrphanStop'
<1>1. CASE b /\ Runner!isRunning
  BY <1>1, DisconnectWaits, 1 \in 1..2, {TRUE} \in SUBSET BOOLEAN DEF SwitchProfile
<1>2. CASE ~(b /\ Runner!isRunning)
  BY <1>2, WaitingKept
     DEF SwitchProfile, runnerVars, tunVars, Runner!isRunning, Tun!isRunning
<1> QED BY <1>1, <1>2

LEMMA NextWaits == TypeOK /\ NoOrphanStop /\ [Next]_vars => NoOrphanStop'
<1> SUFFICES ASSUME TypeOK, NoOrphanStop, [Next]_vars
             PROVE  NoOrphanStop'
  OBVIOUS
<1> USE DEF settingVars, linkVars, runnerVars, tunVars, proxyVars
<1>c. 1 \in 1..2 /\ 2 \in 1..2 /\ {TRUE} \in SUBSET BOOLEAN
      /\ {FALSE} \in SUBSET BOOLEAN /\ BOOLEAN \in SUBSET BOOLEAN
  OBVIOUS
<1>k. UNCHANGED <<stops, rstate, tstate>> => NoOrphanStop'
  BY WaitingKept DEF Runner!isRunning, Tun!isRunning
<1>1. ASSUME Restart
      PROVE  NoOrphanStop'
  BY <1>1, <1>c, <1>k, DisconnectWaits DEF Restart
<1>2. ASSUME NEW c \in Configs, NEW b \in BOOLEAN,
             SetSelectedConfigId(c, b) \/ AddConfig(c, b)
      PROVE  NoOrphanStop'
  BY <1>2, SwitchProfileWaits DEF SetSelectedConfigId, AddConfig
<1>3. ASSUME UpdateConfig
      PROVE  NoOrphanStop'
  BY <1>3, <1>c, DisconnectWaits DEF UpdateConfig
<1>4. ASSUME NEW c \in Configs, NEW b \in BOOLEAN, DeleteConfig(c, b)
      PROVE  NoOrphanStop'
  <2> DEFINE disconnects == c = connected
             switches == c = selected /\ b /\ Runner!isRunning
  <2>1. CASE disconnects /\ switches
    BY <1>4, <2>1, <1>c, DisconnectWaits DEF DeleteConfig
  <2>2. CASE disconnects /\ ~switches
    BY <1>4, <2>2, <1>c, DisconnectWaits DEF DeleteConfig
  <2>3. CASE ~disconnects
    <3>1. SwitchProfile(switches) /\ switches \in BOOLEAN
      BY <1>4, <2>3 DEF DeleteConfig, Runner!isRunning
    <3> QED BY <3>1, SwitchProfileWaits
  <2> QED BY <2>1, <2>2, <2>3
<1>5. ASSUME NEW p \in Ports, SetSocksPort(p)
      PROVE  NoOrphanStop'
  BY <1>5, <1>c, <1>k, DisconnectWaits DEF SetSocksPort
<1>6. ASSUME NEW m \in Modes, NEW l \in BOOLEAN, NEW e \in BOOLEAN, NEW t \in BOOLEAN,
             SetProxyMode(m, l, e, t)
      PROVE  NoOrphanStop'
  <2>1. UNCHANGED rstate
    BY <1>6 DEF SetProxyMode
  <2>2. CASE Runner!isRunning /\ HasSelection /\ m = "tun"
    BY <1>6, <2>1, <2>2, StartTunWaits DEF SetProxyMode
  <2>3. CASE ~(Runner!isRunning /\ HasSelection /\ m = "tun")
    BY <1>6, <2>1, <2>3, <1>k DEF SetProxyMode, Tun!TunStop, Tun!Stop, Tun!procVars
  <2> QED BY <2>2, <2>3
<1>7. ASSUME AutoStart \/ PaqetInstalled \/ RunnerKillTimer
      PROVE  NoOrphanStop'
  BY <1>7, <1>k DEF AutoStart, PaqetInstalled, RunnerKillTimer, Runner!KillTimer
<1>8. ASSUME NEW r \in BOOLEAN, NEW l \in BOOLEAN, DetectionFinished(r, l)
      PROVE  NoOrphanStop'
  <2>1. UNCHANGED <<stops, tstate>>
    BY <1>8 DEF DetectionFinished
  <2>2. Runner!isRunning => UNCHANGED rstate
    BY <1>8 DEF DetectionFinished, Runner!Stop, Runner!procVars
  <2> QED BY <2>1, <2>2, WaitingKept DEF Runner!isRunning, Tun!isRunning
<1>9. ASSUME RunnerStarted
      PROVE  NoOrphanStop'
  BY <1>9, WaitingKept DEF RunnerStarted, Runner!Exec, Runner!isRunning, Tun!isRunning
<1>10. ASSUME NEW l \in BOOLEAN, NEW e \in BOOLEAN, NEW t \in BOOLEAN, OnStarted(l, e, t)
       PROVE  NoOrphanStop'
  <2>1. CASE Head(firing).mode = "tun"
    BY <1>10, <2>1, StartTunWaits DEF OnStarted
  <2>2. CASE Head(firing).mode # "tun"
    BY <1>10, <2>2, <1>k DEF OnStarted
  <2> QED BY <2>1, <2>2
<1>11. ASSUME RunnerStartFailed \/ RunnerExited
       PROVE  NoOrphanStop'
  BY <1>11, RunnerStoppedWaits DEF RunnerStartFailed, RunnerExited
<1>12. ASSUME TunWorks
       PROVE  NoOrphanStop'
  <2>1. UNCHANGED <<stops, rstate>> /\ (Tun!isRunning => Tun!isRunning')
    BY <1>12 DEF TunWorks, Tun!RouteReady, Tun!TunExec, Tun!TunKillTimer, Tun!AsyncEnds,
                 Tun!Launch, Tun!Exec, Tun!KillTimer, Tun!isRunning, Tun!procVars
  <2> QED BY <2>1, WaitingKept DEF Runner!isRunning
<1>13. ASSUME TunStopped
       PROVE  NoOrphanStop'
  BY <1>13, TunStoppedWaits DEF TunStopped
<1>14. CASE UNCHANGED vars
  BY <1>14, <1>k DEF vars
<1> QED
  BY <1>1, <1>2, <1>3, <1>4, <1>5, <1>6, <1>7, <1>8, <1>9, <1>10, <1>11, <1>12,
     <1>13, <1>14
     DEF Next, UserCall, DetectionReturns, StartedSlot

(* No continuation of disconnectAsync() is ever left waiting for a process *)
(* that is not there: each one's counter matches the processes alive.      *)
THEOREM StopsNotOrphaned == Spec => []NoOrphanStop
<1>1. Init => NoOrphanStop
  BY DEF Init, NoOrphanStop
<1> QED BY <1>1, InitType, NextType, NextWaits, PTL DEF Spec

-----------------------------------------------------------------------------
(* The system proxy and the HTTP proxy.                                    *)

(* A system proxy never points at another port than the HTTP proxy's, as   *)
(* every handler that moves the one moves or stops the other.              *)
THEOREM SystemProxyFollows == Spec => []SystemProxyReachesHttp
<1>1. Init => SystemProxyReachesHttp
  BY DEF Init, SystemProxyReachesHttp
<1>2. SystemProxyReachesHttp /\ [Next]_vars => SystemProxyReachesHttp'
  <2> SUFFICES ASSUME SystemProxyReachesHttp, [Next]_vars
               PROVE  SystemProxyReachesHttp'
    OBVIOUS
  <2>1. UNCHANGED <<http, sys>> => SystemProxyReachesHttp'
    BY DEF SystemProxyReachesHttp
  <2>2. ASSUME NEW n, NEW reconnects, DisconnectAsync(n, reconnects)
        PROVE  SystemProxyReachesHttp'
    BY <2>2 DEF DisconnectAsync, SystemProxyReachesHttp
  <2>3. ASSUME NEW p, NEW l, NEW e, StartSystemProxy(p, l, e)
        PROVE  SystemProxyReachesHttp'
    BY <2>3 DEF StartSystemProxy, SystemProxyReachesHttp
  <2>4. ASSUME NEW b, SwitchProfile(b)
        PROVE  SystemProxyReachesHttp'
    BY <2>1, <2>2, <2>4 DEF SwitchProfile, proxyVars
  <2>5. ASSUME UserCall
        PROVE  SystemProxyReachesHttp'
    <3>1. CASE Restart \/ UpdateConfig \/ \E p \in Ports : SetSocksPort(p)
      BY <2>1, <2>2, <3>1 DEF Restart, UpdateConfig, SetSocksPort, proxyVars
    <3>2. CASE \E c \in Configs, b \in BOOLEAN : SetSelectedConfigId(c, b) \/ AddConfig(c, b)
      BY <2>4, <3>2 DEF SetSelectedConfigId, AddConfig
    <3>3. CASE \E c \in Configs, b \in BOOLEAN : DeleteConfig(c, b)
      BY <2>2, <2>4, <3>3 DEF DeleteConfig
    <3>4. CASE \E m \in Modes, l, e, t \in BOOLEAN : SetProxyMode(m, l, e, t)
      <4>1. PICK m \in Modes, l \in BOOLEAN, e \in BOOLEAN, t \in BOOLEAN :
              SetProxyMode(m, l, e, t)
        BY <3>4
      <4>2. \/ UNCHANGED <<http, sys>>
            \/ StartSystemProxy(repo[selected], l, e)
            \/ sys' = None
        BY <4>1 DEF SetProxyMode, proxyVars
      <4> QED BY <2>1, <2>3, <4>2 DEF SystemProxyReachesHttp
    <3> QED BY <2>5, <3>1, <3>2, <3>3, <3>4 DEF UserCall
  <2>6. ASSUME StartedSlot
        PROVE  SystemProxyReachesHttp'
    BY <2>1, <2>3, <2>6 DEF StartedSlot, OnStarted, proxyVars
  <2>7. CASE Next /\ ~UserCall /\ ~StartedSlot
    BY <2>1, <2>7
       DEF Next, AutoStart, PaqetInstalled, DetectionReturns, DetectionFinished,
           RunnerStarted, RunnerStartFailed, RunnerExited, RunnerKillTimer, TunWorks,
           TunStopped, proxyVars
  <2>8. CASE UNCHANGED vars
    BY <2>1, <2>8 DEF vars, proxyVars
  <2> QED BY <2>5, <2>6, <2>7, <2>8
<1> QED BY <1>1, <1>2, PTL DEF Spec

-----------------------------------------------------------------------------
(* Without TUN, requests, start requests and processes pair up.            *)

(* The inductive invariant: a process that is starting has exactly one     *)
(* start request, which becomes the one slot its started signal runs.      *)
OneStartEach ==
    /\ tstate = "NotRunning" /\ tjobs = 0
    /\ NoDoubleStart
    /\ StartIsForThisProcess
    /\ rstate = "Starting" => starts # <<>>
    /\ firing # <<>> =>
          /\ rstate = "Running"
          /\ Len(firing) = 1
          /\ launched = [id |-> firing[1].id, port |-> firing[1].port]
    /\ ConnectedIsLaunched

(* A handler that neither starts nor ends a process and leaves the record  *)
(* of a live one alone.                                                    *)
LEMMA OneStartKept ==
    ASSUME OneStartEach, UNCHANGED <<rstate, launched, starts, firing, tstate, tjobs>>,
           Runner!isRunning => UNCHANGED <<connected, detecting>>
    PROVE  OneStartEach'
BY DEF OneStartEach, NoDoubleStart, StartIsForThisProcess, ConnectedIsLaunched,
       Runner!isRunning

LEMMA DisconnectKeeps ==
    ASSUME OneStartEach, NEW n, NEW reconnects, DisconnectAsync(n, reconnects)
    PROVE  /\ UNCHANGED <<rstate, tstate, tjobs>>
           /\ Runner!isRunning => UNCHANGED <<connected, detecting>>
BY DEF OneStartEach, DisconnectAsync, Runner!Stop, Runner!procVars, Tun!isRunning, tunVars

LEMMA SwitchProfileKeeps ==
    ASSUME OneStartEach, NEW b, SwitchProfile(b)
    PROVE  /\ UNCHANGED <<rstate, tstate, tjobs, launched>>
           /\ Runner!isRunning => UNCHANGED <<connected, detecting>>
BY DisconnectKeeps DEF SwitchProfile, runnerVars, tunVars

LEMMA NextOneStart ==
    ASSUME "tun" \notin Modes, TypeOK, OneStartEach, [Next]_vars
    PROVE  OneStartEach'
<1> USE DEF settingVars, linkVars, runnerVars, tunVars, proxyVars
<1>1. ASSUME Restart \/ UpdateConfig \/ \E p \in Ports : SetSocksPort(p)
      PROVE  OneStartEach'
  <2>1. /\ UNCHANGED <<rstate, launched, starts, firing, tstate, tjobs>>
        /\ Runner!isRunning => UNCHANGED <<connected, detecting>>
    BY <1>1, DisconnectKeeps DEF Restart, UpdateConfig, SetSocksPort
  <2> QED BY <2>1, OneStartKept
<1>2. ASSUME NEW c \in Configs, NEW b \in BOOLEAN,
             SetSelectedConfigId(c, b) \/ AddConfig(c, b) \/ DeleteConfig(c, b)
      PROVE  OneStartEach'
  <2>1. /\ UNCHANGED <<rstate, launched, starts, firing, tstate, tjobs>>
        /\ Runner!isRunning => UNCHANGED <<connected, detecting>>
    BY <1>2, SwitchProfileKeeps, DisconnectKeeps
       DEF SetSelectedConfigId, AddConfig, DeleteConfig
  <2> QED BY <2>1, OneStartKept
<1>3. ASSUME NEW m \in Modes, NEW l \in BOOLEAN, NEW e \in BOOLEAN, NEW t \in BOOLEAN,
             SetProxyMode(m, l, e, t)
      PROVE  OneStartEach'
  <2>1. m # "tun" /\ ~Tun!isRunning
    BY DEF OneStartEach, Tun!isRunning
  <2>2. UNCHANGED <<rstate, launched, starts, firing, tstate, tjobs, connected, detecting>>
    BY <1>3, <2>1 DEF SetProxyMode
  <2> QED BY <2>2, OneStartKept
<1>4. ASSUME AutoStart \/ PaqetInstalled \/ RunnerKillTimer
      PROVE  OneStartEach'
  BY <1>4, OneStartKept DEF AutoStart, PaqetInstalled, RunnerKillTimer, Runner!KillTimer
<1>5. ASSUME NEW r \in BOOLEAN, NEW l \in BOOLEAN, DetectionFinished(r, l)
      PROVE  OneStartEach'
  <2>1. ~Runner!isRunning /\ rstate = "NotRunning" /\ starts = <<>> /\ firing' = <<>>
    BY <1>5 DEF DetectionFinished, OneStartEach, NoDoubleStart, StartIsForThisProcess,
                Runner!isRunning, LoopFree
  <2>2. CASE r /\ l
    <3>1. detecting \in Request
      BY <1>5 DEF DetectionFinished, TypeOK
    <3>2. /\ starts' = <<[id |-> detecting.id, port |-> detecting.port, mode |-> mode]>>
          /\ rstate' = "Starting"
          /\ launched' = detecting
          /\ detecting' = None
          /\ UNCHANGED <<tstate, tjobs>>
      BY <1>5, <2>1, <2>2 DEF DetectionFinished, Runner!Launch
    <3>3. detecting = [id |-> detecting.id, port |-> detecting.port]
      BY <3>1 DEF Request
    <3> QED BY <2>1, <3>2, <3>3
            DEF OneStartEach, NoDoubleStart, StartIsForThisProcess, ConnectedIsLaunched
  <2>3. CASE ~(r /\ l)
    <3>1. UNCHANGED <<rstate, launched, starts, firing, tstate, tjobs>>
      BY <1>5, <2>1, <2>3 DEF DetectionFinished, Runner!Stop, Runner!procVars
    <3> QED BY <2>1, <3>1, OneStartKept
  <2> QED BY <2>2, <2>3
<1>6. ASSUME RunnerStarted
      PROVE  OneStartEach'
  <2>1. /\ rstate = "Starting" /\ rstate' = "Running"
        /\ firing' = starts /\ starts' = <<>>
        /\ UNCHANGED <<launched, detecting, tstate, tjobs>>
    BY <1>6 DEF RunnerStarted, Runner!Exec
  <2> QED BY <2>1 DEF OneStartEach, NoDoubleStart, StartIsForThisProcess,
                      ConnectedIsLaunched, Runner!isRunning
<1>7. ASSUME NEW l \in BOOLEAN, NEW e \in BOOLEAN, NEW t \in BOOLEAN, OnStarted(l, e, t)
      PROVE  OneStartEach'
  <2>1. firing # <<>> /\ firing \in Seq(Start)
    BY <1>7 DEF OnStarted, TypeOK
  <2>2. Head(firing) = firing[1] /\ Head(firing) \in Start
    BY <2>1
  <2>3. Head(firing).mode # "tun"
    BY <2>2 DEF Start
  <2>4. Tail(firing) = <<>>
    <3>1. Len(Tail(firing)) = 0 /\ Tail(firing) \in Seq(Start)
      BY <2>1 DEF OneStartEach
    <3> QED BY <3>1, EmptySeq
  <2>5. /\ firing' = <<>>
        /\ connected' = firing[1].id
        /\ UNCHANGED <<rstate, launched, starts, detecting, tstate, tjobs>>
    BY <1>7, <2>2, <2>3, <2>4 DEF OnStarted, ConnectedBy
  <2>6. launched # None /\ launched.id = firing[1].id
    BY <2>1, <2>2 DEF OneStartEach, Start
  <2> QED BY <2>1, <2>5, <2>6 DEF OneStartEach, NoDoubleStart, StartIsForThisProcess,
                                  ConnectedIsLaunched, Runner!isRunning
<1>8. ASSUME RunnerStartFailed
      PROVE  OneStartEach'
  BY <1>8 DEF RunnerStartFailed, Runner!ExecFails, LoopFree, OneStartEach, NoDoubleStart,
              StartIsForThisProcess, ConnectedIsLaunched, Runner!isRunning
<1>9. ASSUME RunnerExited
      PROVE  OneStartEach'
  BY <1>9 DEF RunnerExited, Runner!Exit, LoopFree, OneStartEach, NoDoubleStart,
              StartIsForThisProcess, ConnectedIsLaunched, Runner!isRunning
<1>10. ASSUME TunWorks
       PROVE  OneStartEach'
  BY <1>10, OneStartKept
     DEF TunWorks, OneStartEach, Tun!RouteReady, Tun!TunExec, Tun!TunKillTimer,
         Tun!AsyncEnds, Tun!Exec, Tun!KillTimer
<1>11. ASSUME TunStopped
       PROVE  OneStartEach'
  BY <1>11 DEF TunStopped, OneStartEach, Tun!TunExit, Tun!TunExecFails, Tun!Exit,
               Tun!ExecFails
<1>12. CASE UNCHANGED vars
  BY <1>12, OneStartKept DEF vars
<1> QED
  BY <1>1, <1>2, <1>3, <1>4, <1>5, <1>6, <1>7, <1>8, <1>9, <1>10, <1>11, <1>12
     DEF Next, UserCall, DetectionReturns, StartedSlot

LEMMA OneStartCorrect ==
    ASSUME "tun" \notin Modes
    PROVE  Spec => [](TypeOK /\ OneStartEach)
<1>1. Init => OneStartEach
  BY DEF Init, OneStartEach, NoDoubleStart, StartIsForThisProcess, ConnectedIsLaunched,
         Runner!Init, Tun!TunInit, Tun!Init
<1>2. TypeOK /\ OneStartEach /\ [Next]_vars => OneStartEach'
  BY NextOneStart
<1> QED BY <1>1, <1>2, InitType, NextType, PTL DEF Spec

(* As long as TUN is not used, no detection ends while paqet runs, so      *)
(* paqet is never started twice.                                           *)
THEOREM StartsOnce ==
    ASSUME "tun" \notin Modes
    PROVE  Spec => []NoDoubleStart
<1>1. OneStartEach => NoDoubleStart
  BY DEF OneStartEach
<1> QED BY <1>1, OneStartCorrect, PTL

(* As long as TUN is not used, the slot a started signal runs belongs to   *)
(* the process that started.                                               *)
THEOREM StartsMatch ==
    ASSUME "tun" \notin Modes
    PROVE  Spec => []StartIsForThisProcess
<1>1. OneStartEach => StartIsForThisProcess
  BY DEF OneStartEach
<1> QED BY <1>1, OneStartCorrect, PTL

(* As long as TUN is not used, the connected configuration is the one the  *)
(* running process was launched with.                                      *)
THEOREM ConnectionMatches ==
    ASSUME "tun" \notin Modes
    PROVE  Spec => []ConnectedIsLaunched
<1>1. OneStartEach => ConnectedIsLaunched
  BY DEF OneStartEach
<1> QED BY <1>1, OneStartCorrect, PTL
=============================================================================
