---------------------------- MODULE ChildProcess ----------------------------
(***************************************************************************)
(* A QProcess and the stop protocol that PaqetRunner and TunManager wrap   *)
(* around it: stop() asks politely (SIGTERM) and arms a single-shot timer  *)
(* whose slot kills whatever process runs when it fires.                   *)
(*                                                                         *)
(* The module declares no behaviour of its own.  Its actions constrain     *)
(* only the variables of one process; the modules that own a process       *)
(* conjoin them with what their slots do on the emitted signal.            *)
(***************************************************************************)
EXTENDS Integers

CONSTANT MaxTimers   \* bound: armed kill timers that are told apart

VARIABLES
    state,    \* QProcess::state()
    signal,   \* strongest signal sent to the current instance
    timers    \* armed single-shot kill timers, whichever instance armed them

procVars == <<state, signal, timers>>

TypeOK ==
    /\ state \in {"NotRunning", "Starting", "Running"}
    /\ signal \in {"none", "term", "kill"}
    /\ timers \in 0..MaxTimers

Init ==
    /\ state = "NotRunning"
    /\ signal = "none"
    /\ timers = 0

isRunning == state # "NotRunning"

(* Mutant: no kill timer.                                                  *)
StopPolitely(n) ==
    IF isRunning
    THEN /\ signal' = IF signal = "none" THEN "term" ELSE signal
         /\ UNCHANGED <<state, timers>>
    ELSE UNCHANGED procVars

(* stop(), called n times in one handler.  Every call on a live process     *)
(* sends SIGTERM and arms one more timer; a stopped process is left alone. *)
Stop(n) ==
    IF isRunning
    THEN /\ signal' = IF signal = "none" THEN "term" ELSE signal
         /\ timers' = IF timers + n <= MaxTimers THEN timers + n ELSE MaxTimers
         /\ UNCHANGED state
    ELSE UNCHANGED procVars

(* QProcess::start() on a live process only warns and keeps the instance.  *)
Launch ==
    IF isRunning
    THEN UNCHANGED procVars
    ELSE /\ state' = "Starting"
         /\ signal' = "none"
         /\ UNCHANGED timers

(* The child called exec(), or died of a signal before it could: either    *)
(* way the start-up pipe closes without an error and QProcess reports      *)
(* Running.                                                                *)
Exec ==
    /\ state = "Starting"
    /\ state' = "Running"
    /\ UNCHANGED <<signal, timers>>

(* exec() failed: NotRunning is reported before the FailedToStart error.   *)
ExecFails ==
    /\ state = "Starting"
    /\ state' = "NotRunning"
    /\ signal' = "none"
    /\ UNCHANGED timers

(* The process ends: on a signal, by itself or by a crash.                 *)
Exit ==
    /\ state = "Running"
    /\ state' = "NotRunning"
    /\ signal' = "none"
    /\ UNCHANGED timers

(* The slot of one timer armed by stop(): it kills the process that runs   *)
(* now, which need not be the one that was asked to stop.                  *)
KillTimer ==
    /\ timers > 0
    /\ timers' = timers - 1
    /\ signal' = IF isRunning THEN "kill" ELSE signal
    /\ UNCHANGED state
=============================================================================
