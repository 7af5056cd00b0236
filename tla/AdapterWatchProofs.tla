------------------------- MODULE AdapterWatchProofs -------------------------
(* For any number of adapters, whatever the system says of them: the       *)
(* selection the page shows is one it lists, and the adapter a connection  *)
(* is bound to is the best there is.                                       *)
EXTENDS AdapterWatch, WellFoundedInduction, TLAPS

USE AdaptersAssumption

-----------------------------------------------------------------------------
(* The choice of an adapter.                                               *)

LEMMA SmallestExists ==
    ASSUME NEW s \in SUBSET Nat, s # {}
    PROVE  \E n \in s : \A m \in s : n <= m
<1> DEFINE Less == OpToRel(<, Nat)
<1>1. IsWellFoundedOn(Less, Nat)
  BY NatLessThanWellFounded
<1>2. \A m, n \in Nat : <<m, n>> \notin Less => n <= m
  BY DEF OpToRel
<1> HIDE DEF Less
<1>3. \E n \in s : \A m \in s : <<m, n>> \notin Less
  BY <1>1, WFMin
<1> QED BY <1>2, <1>3, s \subseteq Nat

LEMMA ForemostIsIn ==
    ASSUME NEW s \in SUBSET Adapters, s # {}, NEW named
    PROVE  Foremost(s, named) \in s
<1> DEFINE t == IF s \cap named # {} THEN s \cap named ELSE s
<1>1. t # {} /\ t \subseteq s
  OBVIOUS
<1> HIDE DEF t
<1>2. \E n \in t : \A m \in t : n <= m
  BY <1>1, SmallestExists
<1>3. (CHOOSE n \in t : \A m \in t : n <= m) \in t
  BY <1>2
<1>4. Foremost(s, named) \in t
  BY <1>3 DEF Foremost, t
<1> QED BY <1>1, <1>4

LEMMA DetectedIsList ==
    ASSUME NEW n, NEW known0, NEW answering0
    PROVE  Detected(n, known0, answering0) \in Lists
BY DEF Detected, Acceptable, NoList, Lists

(* getDefaultAdapter(): its four passes over the adapters, each over what  *)
(* the one before has not found, leave the best there is.                  *)
LEMMA DefaultIsGood ==
    ASSUME NEW list \in Lists, NEW n, NEW gateways, NEW resolved
    PROVE  LET choice == Default(list, n, gateways, resolved)
               c == list.adapters
           IN  /\ choice = None <=> c = {}
               /\ choice # None => choice \in c
               /\ c \cap gateways # {} => choice \in gateways
               /\ c \cap gateways \cap resolved # {} => choice \in resolved
               /\ c \cap gateways = {} => \A a \in c : n[a].active => n[choice].active
<1> DEFINE c == list.adapters
           active == {a \in c : n[a].active}
           choice == Default(list, n, gateways, resolved)
           First(s) == Foremost(s, list.named)
<1>1. c \subseteq Adapters /\ None \notin c
  BY DEF Lists
<1>2. choice = IF c \cap gateways \cap resolved # {} THEN First(c \cap gateways \cap resolved)
               ELSE IF c \cap gateways # {} THEN First(c \cap gateways)
               ELSE IF active # {} THEN First(active)
               ELSE IF c # {} THEN First(c) ELSE None
  BY DEF Default
<1>3. \A s \in SUBSET c : s # {} => First(s) \in s
  BY <1>1, ForemostIsIn
<1> HIDE DEF c, choice, First
<1>4. CASE c \cap gateways \cap resolved # {}
  <2>1. choice \in c \cap gateways \cap resolved
    BY <1>2, <1>3, <1>4
  <2> QED BY <1>1, <1>4, <2>1 DEF c, choice
<1>5. CASE c \cap gateways \cap resolved = {} /\ c \cap gateways # {}
  <2>1. choice \in c \cap gateways
    BY <1>2, <1>3, <1>5
  <2> QED BY <1>1, <1>5, <2>1 DEF c, choice
<1>6. CASE c \cap gateways = {} /\ active # {}
  <2>1. choice \in active
    BY <1>2, <1>3, <1>6
  <2> QED BY <1>1, <1>6, <2>1 DEF c, choice
<1>7. CASE c \cap gateways = {} /\ active = {} /\ c # {}
  <2>1. choice \in c
    BY <1>2, <1>3, <1>7
  <2> QED BY <1>1, <1>7, <2>1 DEF c, choice
<1>8. CASE c = {}
  <2>1. choice = None
    BY <1>2, <1>8
  <2> QED BY <1>8, <2>1 DEF c, choice
<1> QED BY <1>4, <1>5, <1>6, <1>7, <1>8

(* getAdapterByGuid() finds the adapter that was asked for, or the best.   *)
LEMMA ByGuidIsGood ==
    ASSUME NEW list \in Lists, NEW n, NEW guid, NEW gateways, NEW resolved
    PROVE  GoodChoice(ByGuid(guid, list, n, gateways, resolved),
                      guid, list, n, gateways, resolved)
<1> DEFINE choice == ByGuid(guid, list, n, gateways, resolved)
<1>1. list.named \subseteq list.adapters /\ None \notin list.adapters
  BY DEF Lists
<1>2. CASE guid # None /\ guid \in list.named
  <2>1. choice = guid
    BY <1>2 DEF ByGuid
  <2>2. Guid(choice, list.named) = guid
    BY <1>2, <2>1 DEF Guid
  <2>3. guid \in GuidsOf(list) \ {None}
    BY <1>1, <1>2, <2>1, <2>2 DEF GuidsOf
  <2> QED BY <1>1, <1>2, <2>1, <2>2, <2>3 DEF GoodChoice
<1>3. CASE ~(guid # None /\ guid \in list.named)
  <2>1. choice = Default(list, n, gateways, resolved)
    BY <1>3 DEF ByGuid
  <2>2. guid \notin GuidsOf(list) \ {None}
    BY <1>3 DEF GuidsOf, Guid
  <2> QED BY <2>1, <2>2, DefaultIsGood DEF GoodChoice
<1> QED BY <1>2, <1>3

-----------------------------------------------------------------------------
(* The page and the monitor.                                               *)

LEMMA GuidsAreGuids ==
    ASSUME NEW list \in Lists
    PROVE  GuidsOf(list) \subseteq Guids
BY DEF Lists, GuidsOf, Guid, Guids

LEMMA RefreshShows ==
    ASSUME NEW list \in Lists, setting \in Guids, Refresh(list)
    PROVE  /\ shown' = list /\ chosen' = setting'
           /\ {chosen', setting'} \subseteq Guids
           /\ chosen' \in GuidsOf(shown') \cup {None}
BY DEF Refresh, Guids

LEMMA WatchStep ==
    ASSUME TypeOK, SelectionIsShown, [Next]_vars
    PROVE  TypeOK' /\ SelectionIsShown'
<1> USE DEF TypeOK, SelectionIsShown, Namings, Answers, systemVars, monitorVars, pageVars
<1>1. NoList \in Lists /\ Detected(net, known, answering) \in Lists
  BY DetectedIsList DEF NoList, Lists
<1>2. CASE StartNetworkMonitoring
  <2>1. Refresh(Detected(net, known, answering))
    BY <1>2 DEF StartNetworkMonitoring
  <2> QED BY <1>1, <1>2, <2>1, RefreshShows DEF StartNetworkMonitoring
<1>3. CASE CheckNetworkChanges
  BY <1>1, <1>3 DEF CheckNetworkChanges
<1>4. CASE WorkerLists
  BY <1>1, <1>4 DEF WorkerLists
<1>5. CASE OnNetworkMonitorFinished
  <2>1. CASE Refresh(found) /\ last' = found
    BY <1>1, <1>5, <2>1, RefreshShows DEF OnNetworkMonitorFinished
  <2>2. CASE UNCHANGED <<last, pageVars>>
    BY <1>1, <1>5, <2>2 DEF OnNetworkMonitorFinished
  <2> QED BY <1>5, <2>1, <2>2 DEF OnNetworkMonitorFinished
<1>6. ASSUME NEW guid \in Guids, SetSelectedNetworkInterface(guid)
      PROVE  TypeOK' /\ SelectionIsShown'
  BY <1>6 DEF SetSelectedNetworkInterface
<1>7. CASE NetChanges
  <2>1. net' \in Nets
    BY <1>7 DEF NetChanges, Nets
  <2> QED BY <1>7, <2>1 DEF NetChanges
<1>8. CASE ToolsChange
  BY <1>8 DEF ToolsChange
<1>9. CASE UNCHANGED vars
  BY <1>9 DEF vars
<1> QED BY <1>2, <1>3, <1>4, <1>5, <1>6, <1>7, <1>8, <1>9 DEF Next

LEMMA WatchInit == Init => TypeOK /\ SelectionIsShown
<1>1. NoList \in Lists
  BY DEF NoList, Lists
<1>2. Init => TypeOK
  BY <1>1 DEF Init, TypeOK, Guids
<1>3. Init => SelectionIsShown
  BY DEF Init, SelectionIsShown
<1> QED BY <1>2, <1>3

(* TypeOK: what the monitor found, the controller keeps and the page shows *)
(* are adapters of the system or nothing, and the worker is in one of its  *)
(* three states.                                                           *)
THEOREM TypeCorrect == Spec => []TypeOK
BY WatchInit, WatchStep, PTL DEF Spec

(* SelectionIsShown: the page, QSettings and the list agree whatever the   *)
(* monitor, the user and the system do, in whatever order.                 *)
THEOREM SelectionShown == Spec => []SelectionIsShown
BY WatchInit, WatchStep, PTL DEF Spec

(* ChoiceIsGood: whatever adapters there are, with or without GUIDs, with  *)
(* whatever routes and resolved gateways, a connection is bound to the     *)
(* best of those found.                                                    *)
THEOREM ChoiceGood == Spec => []ChoiceIsGood
<1>1. ChoiceIsGood
  BY DetectedIsList, ByGuidIsGood DEF ChoiceIsGood
<1> QED BY <1>1, PTL
=============================================================================
