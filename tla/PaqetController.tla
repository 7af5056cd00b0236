--------------------------- MODULE PaqetController ---------------------------
(***************************************************************************)
(* The connection lifecycle of paqetN: PaqetController with the paqet      *)
(* process (PaqetRunner), the HTTP-to-SOCKS proxy and the system proxy it  *)
(* switches, and TunManager as module TunService abstracts it.             *)
(*                                                                         *)
(* The controller lives in the main thread's event loop.  An action is one *)
(* handler run to completion: a call from the QML pages, a timer, the      *)
(* result of a worker thread, or a change of a child process together with *)
(* the slots its signals call directly.                                    *)
(***************************************************************************)
EXTENDS Integers, Sequences

CONSTANTS
    Configs,      \* configuration ids
    Ports,        \* SOCKS ports the settings page offers
    Modes,        \* proxy modes in use, among "none", "system" and "tun"
    PortSpace,    \* number of values of a quint16
    MaxTimers,    \* bound: armed kill timers per process
    MaxJobs,      \* bound: TUN server-route jobs in flight
    MaxStarts,    \* bound: start requests waiting for started or startFailed
    None          \* an empty id, an absent value

ASSUME NoneAssumption ==
    /\ None \notin Configs
    /\ None \notin Int
    /\ None \notin [id : Configs, port : Ports]
ASSUME PortsAssumption ==
    /\ PortSpace \in Nat \ {0}
    /\ Ports \subseteq 0..(PortSpace - 1)
ASSUME ModesAssumption == Modes \subseteq {"none", "system", "tun"}
ASSUME BoundsAssumption ==
    /\ MaxTimers \in Nat \ {0}
    /\ MaxJobs \in Nat \ {0}
    /\ MaxStarts \in Nat \ {0}

VARIABLES
    selected,     \* m_selectedConfigId
    repo,         \* stored socksListen port of each configuration, None if absent
    mode,         \* settings: proxyMode
    port,         \* settings: socksPort
    detecting,    \* connect request whose network detection is in flight, or None
    starts,       \* start requests connected to PaqetRunner's started/startFailed
    firing,       \* those of them a started signal is still to call
    connected,    \* m_connectedConfigId, None when empty
    stops,        \* continuations of disconnectAsync that wait for stopped signals
    autoStart,    \* the 800 ms start-up timer is armed
    rstate, rsignal, rtimers,                  \* PaqetRunner's process
    launched,     \* id and port the current paqet process was launched with
    tstate, tsignal, ttimers, tasync, tjobs,   \* TunManager
    http,         \* SOCKS port the running HTTP proxy forwards to, None if stopped
    sys           \* HTTP port the system proxy points at, None if disabled

Runner == INSTANCE ChildProcess
            WITH state <- rstate, signal <- rsignal, timers <- rtimers
Tun == INSTANCE TunService
            WITH state <- tstate, signal <- tsignal, timers <- ttimers,
                 async <- tasync, jobs <- tjobs

runnerVars == <<rstate, rsignal, rtimers, launched>>
tunVars == <<tstate, tsignal, ttimers, tasync, tjobs>>
proxyVars == <<http, sys>>
settingVars == <<repo, mode, port>>
linkVars == <<detecting, starts, firing, connected, stops>>
vars == <<selected, settingVars, linkVars, autoStart, runnerVars, tunVars, proxyVars>>

-----------------------------------------------------------------------------
Request == [id : Configs, port : Ports]
Start == [id : Configs, port : Ports, mode : Modes]
HttpPort(p) == (p + 1) % PortSpace      \* quint16 httpPort = socksPort + 1
HttpPorts == {HttpPort(p) : p \in Ports}

(* A continuation is connected to the stopped signal of each process that  *)
(* was alive, and counts the signals it still expects.                     *)
Stop == [left : 1..2, runner : BOOLEAN, tun : BOOLEAN, reconnect : BOOLEAN]

TypeOK ==
    /\ selected \in Configs \cup {None}
    /\ repo \in [Configs -> Ports \cup {None}]
    /\ mode \in Modes
    /\ port \in Ports
    /\ detecting \in Request \cup {None}
    /\ starts \in Seq(Start)
    /\ firing \in Seq(Start)
    /\ connected \in Configs \cup {None}
    /\ stops \in SUBSET Stop
    /\ autoStart \in BOOLEAN
    /\ Runner!TypeOK
    /\ launched \in Request \cup {None}
    /\ Tun!TunTypeOK
    /\ http \in Ports \cup {None}
    /\ sys \in HttpPorts \cup {None}

(* The application has just started: the stored data are arbitrary, nothing *)
(* runs and the start-up timer is armed.                                   *)
Init ==
    /\ repo \in [Configs -> Ports \cup {None}]
    /\ selected \in {c \in Configs : repo[c] # None} \cup {None}
    /\ mode \in Modes
    /\ port \in Ports
    /\ detecting = None
    /\ starts = <<>>
    /\ firing = <<>>
    /\ connected = None
    /\ stops = {}
    /\ autoStart = TRUE
    /\ Runner!Init
    /\ launched = None
    /\ Tun!TunInit
    /\ http = None
    /\ sys = None

-----------------------------------------------------------------------------
(* Pieces of handlers.                                                     *)

(* No slot of a started signal is still to run: the event loop may take    *)
(* the next event.                                                         *)
LoopFree == firing = <<>>

(* selectedConfig() finds an entry.                                        *)
HasSelection == selected # None /\ repo[selected] # None

(* connectToSelected(): the request keeps the configuration and the port   *)
(* of this moment and replaces one whose detection is still running.       *)
ConnectToSelected ==
    detecting' = IF HasSelection THEN [id |-> selected, port |-> port] ELSE detecting

(* Mutants: the counter is compared before it is decremented; the callback *)
(* is lost.                                                                *)
OnStoppedCountsLate(hit, id) ==
    /\ stops' = (stops \ hit) \cup {[s EXCEPT !.left = s.left - 1] : s \in hit}
    /\ connected' = id
    /\ UNCHANGED detecting
OnStoppedWithoutCallback(hit, id) ==
    LET fired == {s \in hit : s.left = 1} IN
    /\ stops' = (stops \ hit)
                \cup {[s EXCEPT !.left = s.left - 1] : s \in hit \ fired}
    /\ connected' = IF fired = {} THEN id ELSE None
    /\ UNCHANGED detecting

(* A process emitted stopped while m_connectedConfigId was id: hit are the  *)
(* continuations connected to that signal.                                 *)
OnStopped(hit, id) ==
    LET fired == {s \in hit : s.left = 1} IN
    /\ stops' = (stops \ hit)
                \cup {[s EXCEPT !.left = s.left - 1] : s \in hit \ fired}
    /\ connected' = IF fired = {} THEN id ELSE None
    /\ IF \E s \in fired : s.reconnect
       THEN ConnectToSelected
       ELSE UNCHANGED detecting

(* n calls of disconnectAsync() within one handler, one for each member of *)
(* reconnects, whose callback is connectToSelected() when it is TRUE.      *)
DisconnectAsync(n, reconnects) ==
    /\ sys' = None
    /\ http' = None
    /\ Runner!Stop(n)
    /\ IF Tun!isRunning THEN Tun!TunStop(n) ELSE UNCHANGED tunVars
    /\ IF Runner!isRunning \/ Tun!isRunning
       THEN /\ stops' = stops \cup
                 {[left |-> IF Runner!isRunning /\ Tun!isRunning THEN 2 ELSE 1,
                   runner |-> Runner!isRunning,
                   tun |-> Tun!isRunning,
                   reconnect |-> r] : r \in reconnects}
            /\ UNCHANGED <<connected, detecting>>
       ELSE /\ connected' = None
            /\ IF TRUE \in reconnects
               THEN ConnectToSelected
               ELSE UNCHANGED detecting
            /\ UNCHANGED stops

(* Mutant: enable() returns early when it is enabled already.              *)
StartSystemProxyOnce(p, listens, enables) ==
    /\ http' = IF listens THEN p ELSE None
    /\ sys' = IF listens /\ enables /\ sys = None THEN HttpPort(p) ELSE sys

(* HttpToSocksProxy::start() stops a running listener first; only when the *)
(* new one listens is the system proxy switched, and SystemProxyManager::  *)
(* enable() disables the old entry before it writes the new one.           *)
StartSystemProxy(p, listens, enables) ==
    /\ http' = IF listens THEN p ELSE None
    /\ sys' = IF listens THEN IF enables THEN HttpPort(p) ELSE None ELSE sys

(* TunManager::start() while m_connectedConfigId is id; when no tunnel     *)
(* process runs, its stop() emits stopped within the call.                 *)
StartTun(ok, id) ==
    /\ Tun!TunStart(ok)
    /\ OnStopped(IF Tun!StopEmitsAtOnce THEN {s \in stops : s.tun} ELSE {}, id)

-----------------------------------------------------------------------------
(* Calls from the QML pages.                                               *)

(* The Restart button, enabled while a configuration is selected: it also  *)
(* serves to connect.                                                      *)
Restart ==
    /\ LoopFree
    /\ selected # None
    /\ IF Runner!isRunning
       THEN /\ DisconnectAsync(1, {TRUE})
            /\ UNCHANGED launched
       ELSE /\ ConnectToSelected
            /\ UNCHANGED <<connected, stops, runnerVars, tunVars, proxyVars>>
    /\ UNCHANGED <<selected, settingVars, starts, firing, autoStart>>

(* The tail of setSelectedConfigId(): reconnect when paqet runs, unless    *)
(* its binary is missing.                                                  *)
SwitchProfile(binaryOk) ==
    IF binaryOk /\ Runner!isRunning
    THEN /\ DisconnectAsync(1, {TRUE})
         /\ UNCHANGED launched
    ELSE UNCHANGED <<connected, detecting, stops, runnerVars, tunVars, proxyVars>>

SetSelectedConfigId(c, binaryOk) ==
    /\ LoopFree
    /\ repo[c] # None
    /\ c # selected
    /\ selected' = c
    /\ SwitchProfile(binaryOk)
    /\ UNCHANGED <<settingVars, starts, firing, autoStart>>

(* saveConfig() without an id, or addConfigFromImport(): the new entry     *)
(* takes the port of the settings and is selected.                         *)
AddConfig(c, binaryOk) ==
    /\ LoopFree
    /\ repo[c] = None
    /\ repo' = [repo EXCEPT ![c] = port]
    /\ selected' = c
    /\ SwitchProfile(binaryOk)
    /\ UNCHANGED <<mode, port, starts, firing, autoStart>>

(* saveConfig() of an existing entry matters here when it is the connected *)
(* one: the process is restarted.                                          *)
UpdateConfig ==
    /\ LoopFree
    /\ connected # None
    /\ repo[connected] # None
    /\ Runner!isRunning
    /\ DisconnectAsync(1, {TRUE})
    /\ UNCHANGED <<selected, settingVars, starts, firing, autoStart, launched>>

(* deleteConfig(): disconnect from the connected entry, and clear a        *)
(* selection of the deleted one, which is itself a profile switch.         *)
DeleteConfig(c, binaryOk) ==
    LET disconnects == c = connected
        switches == c = selected /\ binaryOk /\ Runner!isRunning
    IN
    /\ LoopFree
    /\ repo[c] # None
    /\ repo' = [repo EXCEPT ![c] = None]
    /\ selected' = IF c = selected THEN None ELSE selected
    /\ CASE disconnects /\ switches ->
              DisconnectAsync(2, BOOLEAN) /\ UNCHANGED launched
         [] disconnects /\ ~switches ->
              DisconnectAsync(1, {FALSE}) /\ UNCHANGED launched
         [] OTHER -> SwitchProfile(switches)
    /\ UNCHANGED <<mode, port, starts, firing, autoStart>>

SetSocksPort(p) ==
    /\ LoopFree
    /\ p # port
    /\ port' = p
    /\ IF Runner!isRunning
       THEN DisconnectAsync(1, {TRUE}) /\ UNCHANGED launched
       ELSE \* restart() is not called
            UNCHANGED <<connected, detecting, stops, runnerVars, tunVars, proxyVars>>
    /\ UNCHANGED <<selected, repo, mode, starts, firing, autoStart>>

(* setProxyMode() while paqet runs: the old mode is stopped and the new one *)
(* started for the selected entry, with the port stored in that entry.     *)
SetProxyMode(m, listens, enables, tunOk) ==
    /\ LoopFree
    /\ m # mode
    /\ mode' = m
    /\ IF ~Runner!isRunning \/ ~HasSelection
       THEN UNCHANGED <<connected, detecting, stops, tunVars, proxyVars>>
       ELSE /\ CASE m = "tun" -> StartTun(tunOk, connected)
                 [] mode = "tun" /\ Tun!isRunning ->
                       Tun!TunStop(1) /\ UNCHANGED <<connected, detecting, stops>>
                 [] OTHER ->
                       UNCHANGED <<connected, detecting, stops, tunVars>>
            /\ CASE m = "system" -> StartSystemProxy(repo[selected], listens, enables)
                 [] mode = "system" -> sys' = None /\ http' = None
                 [] OTHER -> UNCHANGED proxyVars
    /\ UNCHANGED <<selected, repo, port, starts, firing, autoStart, runnerVars>>

-----------------------------------------------------------------------------
(* Timers, worker results and signals.                                     *)

(* The timer of the constructor, 800 ms after the start.                   *)
AutoStart ==
    /\ LoopFree
    /\ autoStart
    /\ autoStart' = FALSE
    /\ IF Runner!isRunning THEN UNCHANGED detecting ELSE ConnectToSelected
    /\ UNCHANGED <<selected, settingVars, starts, firing, connected, stops,
                   runnerVars, tunVars, proxyVars>>

(* Mutant: connects over a running process.                                *)
PaqetInstalledAnyway ==
    /\ LoopFree
    /\ ConnectToSelected
    /\ UNCHANGED <<selected, settingVars, starts, firing, connected, stops,
                   autoStart, runnerVars, tunVars, proxyVars>>

(* onPaqetDownloadFinished(): a paqet binary has just been installed.      *)
PaqetInstalled ==
    /\ LoopFree
    /\ ~Runner!isRunning
    /\ ConnectToSelected
    /\ UNCHANGED <<selected, settingVars, starts, firing, connected, stops,
                   autoStart, runnerVars, tunVars, proxyVars>>

(* The detection is done.  ready: the paqet binary, and for TUN its assets, *)
(* are there; launches: PaqetRunner::start() could write its file and hand  *)
(* the binary to QProcess, otherwise it emits startFailed within the call.  *)
DetectionFinished(ready, launches) ==
    /\ LoopFree
    /\ detecting # None
    /\ detecting' = None
    /\ IF ~ready
       THEN UNCHANGED <<starts, runnerVars>>
       ELSE IF launches
       THEN /\ Len(starts) < MaxStarts
            /\ starts' = Append(starts, [id |-> detecting.id,
                                         port |-> detecting.port,
                                         mode |-> mode])
            /\ IF Runner!isRunning
               THEN Runner!Stop(1) /\ UNCHANGED launched
               ELSE Runner!Launch /\ launched' = detecting
       ELSE /\ starts' = <<>>
            /\ Runner!Stop(1)
            /\ UNCHANGED launched
    /\ UNCHANGED <<selected, settingVars, firing, connected, stops, autoStart,
                   tunVars, proxyVars>>

(* The paqet process is up: started goes to every waiting start request.   *)
RunnerStarted ==
    /\ LoopFree
    /\ Runner!Exec
    /\ firing' = starts
    /\ starts' = <<>>
    /\ UNCHANGED <<selected, settingVars, detecting, connected, stops,
                   autoStart, launched, tunVars, proxyVars>>

(* m_connectedConfigId is set from the captured configuration.             *)
ConnectedBySelection(s) == selected    \* mutant: from the current selection
ConnectedBy(s) == s.id

(* The slot of one start request: record the connection, then bring up the *)
(* mode that was set when the request was made.                            *)
OnStarted(listens, enables, tunOk) ==
    LET s == Head(firing) IN
    /\ firing # <<>>
    /\ firing' = Tail(firing)
    /\ IF s.mode = "tun"
       THEN StartTun(tunOk, ConnectedBy(s))
       ELSE connected' = ConnectedBy(s) /\ UNCHANGED <<detecting, stops, tunVars>>
    /\ IF s.mode = "system"
       THEN StartSystemProxy(s.port, listens, enables)
       ELSE UNCHANGED proxyVars
    /\ UNCHANGED <<selected, settingVars, starts, autoStart, runnerVars>>

(* Mutant: the slots stay connected.                                       *)
RunnerStartFailedKeepsSlots ==
    /\ LoopFree
    /\ Runner!ExecFails
    /\ launched' = None
    /\ OnStopped({s \in stops : s.runner}, connected)
    /\ UNCHANGED <<selected, settingVars, starts, firing, autoStart, tunVars, proxyVars>>

(* exec() failed: stopped first, then startFailed to every waiting request. *)
RunnerStartFailed ==
    /\ LoopFree
    /\ Runner!ExecFails
    /\ launched' = None
    /\ OnStopped({s \in stops : s.runner}, connected)
    /\ starts' = <<>>
    /\ UNCHANGED <<selected, settingVars, firing, autoStart, tunVars, proxyVars>>

(* The paqet process ended; nothing but the continuations listens.         *)
RunnerExited ==
    /\ LoopFree
    /\ Runner!Exit
    /\ launched' = None
    /\ OnStopped({s \in stops : s.runner}, connected)
    /\ UNCHANGED <<selected, settingVars, starts, firing, autoStart, tunVars,
                   proxyVars>>

RunnerKillTimer ==
    /\ LoopFree
    /\ Runner!KillTimer
    /\ UNCHANGED <<selected, settingVars, linkVars, autoStart, launched, tunVars,
                   proxyVars>>

(* Steps of TunManager that emit nothing the controller listens to.        *)
TunWorks ==
    /\ LoopFree
    /\ Tun!RouteReady \/ Tun!TunExec \/ Tun!TunKillTimer \/ Tun!AsyncEnds
    /\ UNCHANGED <<selected, settingVars, linkVars, autoStart, runnerVars, proxyVars>>

(* Mutant: a tunnel that could not be started emits no stopped.            *)
TunStoppedByExit ==
    /\ LoopFree
    /\ \/ Tun!TunExit /\ OnStopped({s \in stops : s.tun}, connected)
       \/ Tun!TunExecFails /\ UNCHANGED <<detecting, connected, stops>>
    /\ UNCHANGED <<selected, settingVars, starts, firing, autoStart, runnerVars,
                   proxyVars>>

(* The TUN process ended, or could not be started.                         *)
TunStopped ==
    /\ LoopFree
    /\ Tun!TunExit \/ Tun!TunExecFails
    /\ OnStopped({s \in stops : s.tun}, connected)
    /\ UNCHANGED <<selected, settingVars, starts, firing, autoStart, runnerVars,
                   proxyVars>>
-----------------------------------------------------------------------------
UserCall ==
    \/ Restart
    \/ \E c \in Configs, b \in BOOLEAN : SetSelectedConfigId(c, b)
    \/ \E c \in Configs, b \in BOOLEAN : AddConfig(c, b)
    \/ UpdateConfig
    \/ \E c \in Configs, b \in BOOLEAN : DeleteConfig(c, b)
    \/ \E p \in Ports : SetSocksPort(p)
    \/ \E m \in Modes, l, e, t \in BOOLEAN : SetProxyMode(m, l, e, t)

DetectionReturns == \E r, l \in BOOLEAN : DetectionFinished(r, l)
StartedSlot == \E l, e, t \in BOOLEAN : OnStarted(l, e, t)

Next ==
    \/ UserCall
    \/ AutoStart
    \/ PaqetInstalled
    \/ DetectionReturns
    \/ RunnerStarted
    \/ StartedSlot
    \/ RunnerStartFailed
    \/ RunnerExited
    \/ RunnerKillTimer
    \/ TunWorks
    \/ TunStopped

Spec == Init /\ [][Next]_vars

(* The user owes nothing.  The detection ends, because every command it    *)
(* runs has a time-out; the operating system reports the outcome of a      *)
(* launch and the death of a killed process; the event loop delivers what  *)
(* is due, timers included.  A process need not react to SIGTERM.  What    *)
(* the tunnel owes is stated in TunManager.                                *)
Fairness ==
    /\ WF_vars(DetectionReturns)
    /\ WF_vars(StartedSlot)
    /\ WF_vars(RunnerStarted \/ RunnerStartFailed)
    /\ WF_vars(RunnerKillTimer)
    /\ WF_vars(rsignal = "kill" /\ RunnerExited)

FairSpec == Spec /\ Fairness
-----------------------------------------------------------------------------
(* Safety.                                                                 *)

(* No continuation of disconnectAsync() is orphaned: as long as it waits,  *)
(* a process whose stopped signal it is connected to is still alive, both  *)
(* of them while it expects two signals (the counter in State, the two     *)
(* connections and the stops they were made for).                          *)
NoOrphanStop ==
    \A s \in stops :
        /\ s.left = 2 => s.runner /\ s.tun /\ Runner!isRunning /\ Tun!isRunning
        /\ \/ s.runner /\ Runner!isRunning
           \/ s.tun /\ Tun!isRunning

(* A network detection is only in flight while no paqet process exists, so *)
(* its result never starts paqet over a running one (connectToSelected     *)
(* replaces the request, restart stops first).                             *)
NoDoubleStart == detecting # None => ~Runner!isRunning

(* A start request waits for started or startFailed only while the process *)
(* it launched is starting, alone, with the id and port it asked for: the  *)
(* slot of another request can never run on this process's signal.         *)
StartIsForThisProcess ==
    starts # <<>> => /\ rstate = "Starting"
                     /\ Len(starts) = 1
                     /\ launched = [id |-> starts[1].id, port |-> starts[1].port]

(* While paqet is up, m_connectedConfigId names the configuration the      *)
(* process was launched with, whatever was selected, saved or deleted in   *)
(* between; saveConfig and deleteConfig rely on it.                        *)
ConnectedIsLaunched ==
    rstate = "Running" /\ firing = <<>> => launched # None /\ connected = launched.id

(* When both are on, the system proxy points at the port the HTTP proxy    *)
(* listens on, although ports, modes and profiles change independently.    *)
SystemProxyReachesHttp == sys # None /\ http # None => sys = HttpPort(http)

-----------------------------------------------------------------------------
(* Liveness.                                                               *)

(* A process asked to stop is gone after a while, even one that ignores    *)
(* SIGTERM (the kill timer of PaqetRunner::stop).                          *)
PaqetStops == rsignal # "none" ~> rstate = "NotRunning"

(* Every start request is answered by started or startFailed.              *)
EveryStartAnswered == starts # <<>> ~> starts = <<>>

(* A reconnect that waits for the old process is not lost: a detection     *)
(* follows, unless the selection has been emptied.                         *)
RestartReconnects ==
    (\E s \in stops : s.reconnect) ~> (detecting # None \/ ~HasSelection)

-----------------------------------------------------------------------------
(* What the documentation and the comments say, and the code does not do:  *)
(* TLC finds a counterexample to each of these.                            *)

(* SIGKILL only goes to a process that was asked to stop before.           *)
GracefulShutdown == [][rsignal' = "kill" => rsignal # "none"]_vars

(* The HTTP proxy forwards to the port the running paqet listens on.       *)
HttpForwardsToPaqet ==
    rstate = "Running" /\ firing = <<>> /\ http # None => http = launched.port

(* The running configuration is the selected one, unless paqet is being    *)
(* stopped to change that.                                                 *)
RunningIsSelected ==
    rstate = "Running" /\ rsignal = "none" /\ firing = <<>> => connected = selected

(* The HTTP proxy listens on the port after the SOCKS port.                *)
HttpPortFollowsSocksPort == http # None => HttpPort(http) = http + 1

(* A TUN process that nobody is stopping only runs in TUN mode.            *)
TunOnlyInTunMode == tstate = "Running" /\ tsignal = "none" => mode = "tun"

(* In any other mode than "system" a connected paqet leaves the system     *)
(* proxy alone.                                                            *)
SystemProxyOnlyInSystemMode ==
    rstate = "Running" /\ rsignal = "none" /\ firing = <<>> /\ mode = "none" => sys = None
=============================================================================
