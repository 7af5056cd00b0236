---------------------------- MODULE LatencyCheck ----------------------------
(* LatencyChecker and PaqetController::testLatency(): a request through    *)
(* paqet's SOCKS port, timed.  Just after connecting it waits two seconds  *)
(* for the port to be served.                                              *)
EXTENDS Integers

CONSTANTS
    Configs,    \* configurations
    MaxTests,   \* bound: clicks on "Test latency"
    None        \* no configuration

ASSUME LatencyAssumption == None \notin Configs /\ MaxTests \in Nat

VARIABLES
    selected,     \* m_selectedConfigId, if it is in the list
    running,      \* isRunning(): paqet runs
    recent,       \* m_connectionEstablishedAt is less than 3 s ago
    timers,       \* the 2 s timers of testLatency() that have not fired
    reply,        \* m_reply: the configuration whose port is tried, or None
    testing,      \* m_latencyTesting: the page shows "Testing..."
    measured,     \* m_latencyMs >= 0
    abandoned,    \* history: a timer found nothing selected, and gave up
    tests         \* bound: clicks so far
latencyVars == <<selected, running, recent, timers, reply, testing, measured, abandoned, tests>>

LatencyTypeOK ==
    /\ selected \in Configs \cup {None}
    /\ running \in BOOLEAN
    /\ recent \in BOOLEAN
    /\ timers \in 0..MaxTests
    /\ reply \in Configs \cup {None}
    /\ testing \in BOOLEAN
    /\ measured \in BOOLEAN
    /\ abandoned \in BOOLEAN
    /\ tests \in 0..MaxTests

LatencyInit ==
    /\ selected \in Configs \cup {None}
    /\ running = FALSE
    /\ recent = FALSE
    /\ timers = 0
    /\ reply = None
    /\ testing = FALSE
    /\ measured = FALSE
    /\ abandoned = FALSE
    /\ tests = 0
-----------------------------------------------------------------------------
(* setSelectedConfigId(), and deleteConfig() with None; what they start,   *)
(* the next two actions show.                                              *)
Select(c) ==
    /\ selected # c
    /\ selected' = c
    /\ UNCHANGED <<running, recent, timers, reply, testing, measured, abandoned, tests>>

(* paqet's started signal.                                                 *)
Connected ==
    /\ ~running /\ selected # None
    /\ running' = TRUE
    /\ recent' = TRUE
    /\ UNCHANGED <<selected, timers, reply, testing, measured, abandoned, tests>>

RecentOver ==
    /\ recent
    /\ recent' = FALSE
    /\ UNCHANGED <<selected, running, timers, reply, testing, measured, abandoned, tests>>

(* The end of disconnectAsync().                                           *)
Disconnected ==
    /\ running
    /\ running' = FALSE
    /\ recent' = FALSE
    /\ measured' = FALSE
    /\ UNCHANGED <<selected, timers, reply, testing, abandoned, tests>>

(* paqet ended by itself: the time it was started stays.                   *)
Died ==
    /\ running
    /\ running' = FALSE
    /\ UNCHANGED <<selected, recent, timers, reply, testing, measured, abandoned, tests>>

(* LatencyChecker::check(): a request that is out is given up for the new  *)
(* one; started shows "Testing...".                                        *)
Check(c) ==
    /\ reply' = c
    /\ testing' = TRUE

(* The button, which is there while paqet runs and something is selected.  *)
TestLatency ==
    /\ running /\ selected # None
    /\ tests < MaxTests
    /\ tests' = tests + 1
    /\ IF recent
       THEN testing' = TRUE /\ timers' = timers + 1 /\ UNCHANGED reply
       ELSE Check(selected) /\ UNCHANGED timers
    /\ UNCHANGED <<selected, running, recent, measured, abandoned>>

(* Mutant: the timer, too, does nothing if the selected one is tried.      *)
DoCheckUnlessRunning ==
    /\ timers > 0
    /\ timers' = timers - 1
    /\ IF selected = None
       THEN abandoned' = TRUE /\ UNCHANGED <<reply, testing>>
       ELSE IF running THEN Check(selected) /\ UNCHANGED abandoned
                       ELSE UNCHANGED <<reply, testing, abandoned>>
    /\ UNCHANGED <<selected, running, recent, measured, tests>>

(* The timer: doCheck().                                                   *)
DoCheck ==
    /\ timers > 0
    /\ timers' = timers - 1
    /\ IF selected = None
       THEN abandoned' = TRUE /\ UNCHANGED <<reply, testing>>
       ELSE Check(selected) /\ UNCHANGED abandoned
    /\ UNCHANGED <<selected, running, recent, measured, tests>>

(* onFinished(): an answer, or an error or 4 s of silence.                 *)
OnFinished ==
    /\ reply # None
    /\ reply' = None
    /\ testing' = FALSE
    /\ measured' \in {FALSE, running}
    /\ UNCHANGED <<selected, running, recent, timers, abandoned, tests>>

LatencyNext ==
    \/ \E c \in Configs \cup {None} : Select(c)
    \/ Connected \/ RecentOver \/ Disconnected \/ Died
    \/ TestLatency \/ DoCheck \/ OnFinished
=============================================================================
