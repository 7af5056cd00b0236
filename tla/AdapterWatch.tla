---------------------------- MODULE AdapterWatch ----------------------------
(* PaqetController's network monitor: a timer has a worker list the        *)
(* adapters every five seconds, and the page is told to fetch the list     *)
(* anew if it has changed.  The page keeps its own copy of the list, and   *)
(* of the selection, which outlives the program in QSettings.              *)
EXTENDS AdapterChoice, FiniteSets

VARIABLES
    windows,   \* the system: GUIDs are empty elsewhere
    net,       \* the system's adapters
    known,     \* those PowerShell names, with their GUIDs
    answering, \* PowerShell and ipconfig end in time
    watching,  \* the page is complete and m_networkMonitorTimer runs
    last,      \* the list whose GUIDs are in m_lastAdapterGuids
    worker,    \* m_networkMonitorWatcher: idle, running, or done and not delivered
    found,     \* what it has found and not delivered
    shown,     \* the page's networkAdapters
    chosen,    \* the page's selectedNetworkInterface
    setting    \* selectedNetworkInterface in QSettings

pageVars == <<shown, chosen, setting>>
monitorVars == <<last, worker, found>>
systemVars == <<windows, net, known, answering>>
vars == <<systemVars, watching, monitorVars, pageVars>>

Guids == Ordinary \cup {None}

(* Elsewhere nothing names adapters, and Qt lists them without a tool.     *)
Namings == IF windows THEN SUBSET Ordinary ELSE {{}}
Answers == IF windows THEN BOOLEAN ELSE {TRUE}

TypeOK ==
    /\ windows \in BOOLEAN /\ watching \in BOOLEAN
    /\ net \in Nets
    /\ known \in Namings /\ answering \in Answers
    /\ {last, found, shown} \subseteq Lists
    /\ worker \in {"idle", "running", "done"}
    /\ {chosen, setting} \subseteq Guids

(* QSettings may name an adapter that was there long ago.                  *)
Init ==
    /\ windows \in BOOLEAN
    /\ net \in Nets
    /\ known \in Namings /\ answering \in Answers
    /\ watching = FALSE
    /\ last = NoList /\ found = NoList /\ shown = NoList
    /\ worker = "idle"
    /\ chosen = None
    /\ setting \in Guids

-----------------------------------------------------------------------------
(* Mutant: the page only takes over the list.                              *)
RefreshListOnly(list) == shown' = list /\ UNCHANGED <<chosen, setting>>

(* refreshNetworkAdapters() of the page, to which getAcceptableNetwork-    *)
(* Adapters() returns the list just cached: a selection that is gone is    *)
(* reset.                                                                  *)
Refresh(list) ==
    /\ shown' = list
    /\ chosen' = IF setting \in GuidsOf(list) THEN setting ELSE None
    /\ setting' = chosen'

(* Component.onCompleted: the list is filled by a detection that blocks,   *)
(* then startNetworkMonitoring() takes it from the cache.                  *)
StartNetworkMonitoring ==
    /\ ~watching
    /\ watching' = TRUE
    /\ last' = Detected(net, known, answering)
    /\ Refresh(Detected(net, known, answering))
    /\ UNCHANGED <<systemVars, worker, found>>

(* checkNetworkChanges(), every five seconds: a run that is over, but      *)
(* whose finished() was not delivered yet, is replaced and lost.           *)
CheckNetworkChanges ==
    /\ watching
    /\ worker # "running"
    /\ worker' = "running"
    /\ found' = NoList
    /\ UNCHANGED <<systemVars, watching, last, pageVars>>

(* fetchAcceptableNetworkAdaptersInThread(): what its tools and Qt tell of *)
(* the adapters is taken to be of one moment.                              *)
WorkerLists ==
    /\ worker = "running"
    /\ worker' = "done"
    /\ found' = Detected(net, known, answering)
    /\ UNCHANGED <<systemVars, watching, last, pageVars>>

(* Mutant: only a GUID that is new counts, not one that is gone.           *)
ChangedIfNew(list) == ~(GuidsOf(list) \subseteq GuidsOf(last))

(* Another number of GUIDs, or one that was not there.                     *)
Changed(list) ==
    \/ Cardinality(list.adapters) # Cardinality(last.adapters)
    \/ ~(GuidsOf(list) \subseteq GuidsOf(last))

(* onNetworkMonitorFinished(), and networkAdaptersChanged in the page.     *)
OnNetworkMonitorFinished ==
    /\ worker = "done"
    /\ worker' = "idle"
    /\ found' = NoList
    /\ IF Changed(found) THEN last' = found /\ Refresh(found)
       ELSE UNCHANGED <<last, pageVars>>
    /\ UNCHANGED <<systemVars, watching>>

(* The combo box offers "Auto" and what the page shows.                    *)
SetSelectedNetworkInterface(guid) ==
    /\ watching
    /\ guid \in GuidsOf(shown) \cup {None}
    /\ chosen' = guid
    /\ setting' = guid
    /\ UNCHANGED <<systemVars, watching, monitorVars, shown>>

(* A cable, an access point, a tunnel, an administrator.                   *)
NetChanges ==
    /\ \E a \in Adapters, link \in Links \cup {None} : net' = [net EXCEPT ![a] = link]
    /\ UNCHANGED <<windows, known, answering, watching, monitorVars, pageVars>>

(* A machine so busy that a tool is not done in time, and one that is not  *)
(* any more; PowerShell that does not name an adapter, or fails.           *)
ToolsChange ==
    /\ known' \in Namings /\ answering' \in Answers
    /\ UNCHANGED <<windows, net, watching, monitorVars, pageVars>>

Next ==
    \/ StartNetworkMonitoring
    \/ CheckNetworkChanges
    \/ WorkerLists
    \/ OnNetworkMonitorFinished
    \/ \E guid \in Guids : SetSelectedNetworkInterface(guid)
    \/ NetChanges
    \/ ToolsChange

Spec == Init /\ [][Next]_vars

(* The timer fires, the tools a worker runs end or time out, and           *)
(* finished() is not overtaken by a timer of five seconds for ever.        *)
Fairness ==
    /\ WF_vars(StartNetworkMonitoring)
    /\ WF_vars(CheckNetworkChanges)
    /\ WF_vars(WorkerLists)
    /\ SF_vars(OnNetworkMonitorFinished)

FairSpec == Spec /\ Fairness

-----------------------------------------------------------------------------
(* Properties.                                                             *)

(* What the page shows as selected, and what the next connection asks for, *)
(* is one adapter, and one the page lists, although lists and selections   *)
(* are changed by the monitor and by the user in any order.                *)
SelectionIsShown ==
    watching => /\ chosen = setting
                /\ chosen \in GuidsOf(shown) \cup {None}

(* Whatever the adapters are, and whichever of them have a GUID, the one a *)
(* connection is bound to is the one that was asked for, or else the best  *)
(* of those found (getAdapterByGuid(), getDefaultAdapter()).               *)
ChoiceIsGood ==
    \A guid \in Guids, routed \in SUBSET Adapters, resolved \in SUBSET Ordinary :
        LET list == Detected(net, known, answering)
            gateways == Gateways(net, routed, windows)
        IN  GoodChoice(ByGuid(guid, list, net, gateways, resolved),
                       guid, list, net, gateways, resolved)

(* The page shows as many adapters as there are, and every one that has a  *)
(* GUID: on a system that names them all, just those there are.            *)
PageIsCurrent ==
    /\ Cardinality(shown.adapters) = Cardinality(Acceptable(net))
    /\ Acceptable(net) \cap known \subseteq shown.named

(* Once the adapters stay as they are, and the tools answer in time, the   *)
(* page comes to show them, though ticks are skipped, results are lost,    *)
(* detections failed before and a worker may have looked before the last   *)
(* change (checkNetworkChanges(), onNetworkMonitorFinished()).             *)
PageFollowsNet ==
    <>[][FALSE]_<<net, known>> /\ <>[]answering => <>[]PageIsCurrent

(* What the names of these operations say, and the code does not do: TLC   *)
(* finds a counterexample to it.                                           *)

(* On Windows the page comes to show the adapters themselves, also when    *)
(* one without a GUID takes the place of another.                          *)
PageFollowsAdapters ==
    windows /\ <>[][FALSE]_<<net, known>> /\ <>[]answering
        => <>[](shown.adapters = Acceptable(net))
=============================================================================
