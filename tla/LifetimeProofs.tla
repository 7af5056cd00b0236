--------------------------- MODULE LifetimeProofs ---------------------------
(* What the program leaves behind, on every platform and desktop and for   *)
(* every size of the table of a crash: the desktop's settings do not point *)
(* at a proxy that is gone and no route stays, unless the history          *)
(* variables say why; and what a crash kills are the children that run.    *)
EXTENDS Lifetime, SequenceTheorems, FiniteSetTheorems, TLAPS

-----------------------------------------------------------------------------
(* The desktop's settings.                                                 *)

ProxyTypes ==
    /\ desktop \in Desktops
    /\ settings \in Settings
    /\ original \in Saved
    /\ enabled \in BOOLEAN

(* How the settings were changed fits the desktop.                         *)
ChangedFits ==
    /\ enabled => CASE desktop = "windows" -> original.by \in {"wininet", "registry"}
                    [] desktop = "gnome" -> original.by = "gnome"
                    [] desktop = "kde" -> original.by = "kde"
                    [] OTHER -> FALSE
    /\ desktop = "other" => settings.server = "theirs"

(* Settings that are ours are known to be, and taking them back leads      *)
(* elsewhere, unless they are spoiled.                                     *)
Known ==
    /\ PointsAtUs(settings) /\ ~enabled => spoiled
    /\ enabled /\ PointsAtUs(Target) => PointsAtUs(settings) /\ spoiled

(* The settings are only ours with a listener behind them; when it closes  *)
(* as the program quits they have been taken back.                         *)
ProxyInv ==
    /\ ProxyTypes
    /\ ChangedFits
    /\ Known
    /\ DesktopIsServed
    /\ stage = "http" => ~enabled

(* What disable() may leave.                                               *)
LEMMA RestoredIsKnown ==
    ASSUME ProxyTypes, ChangedFits, Known, NEW s \in Restored
    PROVE  /\ s \in Settings
           /\ desktop = "other" => s.server = "theirs"
           /\ PointsAtUs(s) => spoiled \/ (enabled /\ s # Target)
<1>1. CASE ~enabled
  BY <1>1 DEF Restored, ProxyTypes, ChangedFits, Known
<1>2. CASE enabled
  <2>1. Target \in Settings
    <3>1. original.mode \in {"none", "auto", "manual"} /\ original.server \in {"theirs", "ours"}
      BY DEF ProxyTypes, Saved
    <3>2. RestoredOnWindows \in Settings
      BY <3>1 DEF RestoredOnWindows, Settings
    <3>3. RestoredOnLinux \in Settings
      BY <3>1 DEF RestoredOnLinux, ProxyTypes, Settings
    <3> QED BY <3>2, <3>3 DEF Target
  <2>2. s \in [mode : {settings.mode, Target.mode}, server : {settings.server, Target.server}]
    BY <1>2 DEF Restored, Partly
  <2>3. s \in Settings
    BY <2>1, <2>2 DEF ProxyTypes, Settings
  <2>4. desktop # "other"
    BY <1>2 DEF ChangedFits
  <2>5. PointsAtUs(Target) => spoiled
    BY <1>2 DEF Known
  <2> QED BY <1>2, <2>3, <2>4, <2>5
<1> QED BY <1>1, <1>2 DEF ProxyTypes

(* disable() leaves settings that are not ours, or says so.                *)
LEMMA DisableKeeps ==
    ASSUME ProxyTypes, ChangedFits, Known, TakesBack
    PROVE  /\ ProxyTypes' /\ ChangedFits' /\ ~enabled'
           /\ PointsAtUs(settings') => spoiled'
<1>1. settings' \in Restored /\ desktop' = desktop /\ enabled' = FALSE
  BY DEF TakesBack, Disable
<1>2. original' \in Saved
  <2>1. original' = NothingSaved \/ original' = original
    BY DEF TakesBack, Disable
  <2> QED BY <2>1 DEF NothingSaved, Saved, ProxyTypes
<1>3. /\ settings' \in Settings
      /\ desktop = "other" => settings'.server = "theirs"
      /\ PointsAtUs(settings') => spoiled \/ (enabled /\ settings' # Target)
  BY <1>1, RestoredIsKnown
<1>4. PointsAtUs(settings') => spoiled'
  BY <1>3 DEF TakesBack, SpoiledBy, Spoils
<1> QED BY <1>1, <1>2, <1>3, <1>4 DEF ProxyTypes, ChangedFits

(* enable() sets what disable() can take back, or says that it cannot.     *)
LEMMA EnableKeeps ==
    ASSUME ProxyTypes, ChangedFits, Known, NEW s \in Restored, Enable(s), SpoiledBy(Spoils(s))
    PROVE  ProxyTypes' /\ ChangedFits' /\ Known'
<1>1. /\ s \in Settings
      /\ desktop = "other" => s.server = "theirs"
      /\ PointsAtUs(s) => spoiled \/ (enabled /\ s # Target)
  BY RestoredIsKnown
<1>2. PICK saved \in SavedOf(s) :
        /\ original' = saved
        /\ settings' \in Changed(saved.by, s)
        /\ enabled' = (saved.by # "nothing")
        /\ UNCHANGED desktop
  BY DEF Enable
<1>3. PointsAtUs(settings') /\ (PointsAtUs(s) \/ (enabled' /\ desktop = "gnome" /\ s.mode = "manual"))
        => spoiled'
  BY <1>1 DEF SpoiledBy, Spoils
<1>4. settings' = s \/ settings' = Ours \/ settings' \in Partly(s, Ours)
  BY <1>2 DEF Changed
<1>5. /\ settings' \in Settings
      /\ settings'.mode \in {s.mode, "manual"}
      /\ settings'.server \in {s.server, "ours"}
  BY <1>1, <1>4 DEF Partly, Ours, Settings
<1> enabled' \in BOOLEAN
  BY <1>2, Zenon
<1>6. CASE desktop = "windows"
  <2>1. /\ saved \in Saved
        /\ saved.by \in {"wininet", "registry", "nothing"}
        /\ saved.by = "registry" => saved.mode = s.mode /\ saved.server = s.server
    BY <1>1, <1>2, <1>6 DEF SavedOf, SavedOnWindows, NothingSaved, Saved, Settings
  <2>2. ProxyTypes' /\ ChangedFits'
    BY <1>2, <1>5, <1>6, <2>1 DEF ProxyTypes, ChangedFits
  <2>3. PointsAtUs(settings') /\ ~enabled' => spoiled'
    <3>1. ~enabled' => settings' = s
      BY <1>2 DEF Changed
    <3> QED BY <1>3, <3>1
  <2>4. enabled' /\ PointsAtUs(Target') => PointsAtUs(settings') /\ spoiled'
    <3>1. Target' = RestoredOnWindows'
      BY <1>2, <1>6 DEF Target
    <3>2. SUFFICES ASSUME enabled', PointsAtUs(Target')
                   PROVE  PointsAtUs(s) /\ PointsAtUs(settings')
      BY <1>3
    <3>3. saved.by = "registry"
      BY <1>2, <3>1, <3>2 DEF RestoredOnWindows, PointsAtUs
    <3>4. Target' = [mode |-> saved.mode, server |-> saved.server]
      BY <1>2, <3>1, <3>3 DEF RestoredOnWindows
    <3>5. PointsAtUs(s)
      BY <2>1, <3>2, <3>3, <3>4 DEF PointsAtUs
    <3> QED BY <1>5, <3>5 DEF PointsAtUs
  <2> QED BY <2>2, <2>3, <2>4 DEF Known
<1>7. CASE desktop = "gnome"
  <2>1. saved \in Saved /\ saved.by = "gnome" /\ saved.mode \in {s.mode, "none"}
    BY ZenonT(30), <1>1, <1>2, <1>7 DEF SavedOf, SavedOnLinux, NothingSaved, Saved, Settings
  <2>2. ProxyTypes' /\ ChangedFits' /\ enabled'
    BY <1>2, <1>5, <1>7, <2>1 DEF ProxyTypes, ChangedFits
  <2>3. Target' = [settings' EXCEPT !.mode = saved.mode]
    BY <1>2, <1>7, <2>1 DEF Target, RestoredOnLinux
  <2>4. PointsAtUs(Target') => PointsAtUs(settings') /\ spoiled'
    <3>1. SUFFICES ASSUME PointsAtUs(Target')
                   PROVE  PointsAtUs(settings') /\ s.mode = "manual"
      BY <1>3, <1>7, <2>2
    <3>2. saved.mode = "manual" /\ settings'.server = "ours"
      BY <1>5, <2>3, <3>1 DEF PointsAtUs, Settings
    <3>3. s.mode = "manual"
      BY <2>1, <3>2
    <3> QED BY <1>5, <3>2, <3>3 DEF PointsAtUs
  <2> QED BY <2>2, <2>4 DEF Known
<1>8. CASE desktop \in {"kde", "other"}
  <2>1. /\ saved \in Saved
        /\ saved.by = IF desktop = "other" THEN "nothing" ELSE "kde"
    BY <1>2, <1>8 DEF SavedOf, SavedOnLinux, NothingSaved, Saved
  <2>2. desktop = "other" => settings' = s
    BY <1>2, <2>1 DEF Changed
  <2>3. ProxyTypes' /\ ChangedFits'
    BY <1>1, <1>2, <1>5, <1>8, <2>1, <2>2 DEF ProxyTypes, ChangedFits
  <2>4. enabled' => Target'.mode = "none"
    <3>1. enabled' => Target' = [settings' EXCEPT !.mode = "none"]
      BY <1>2, <1>8, <2>1 DEF Target, RestoredOnLinux
    <3> QED BY <1>5, <3>1 DEF Settings
  <2>5. PointsAtUs(settings') /\ ~enabled' => spoiled'
    BY <1>2, <1>3, <2>1, <2>2
  <2> QED BY <2>3, <2>4, <2>5 DEF Known, PointsAtUs
<1> QED BY <1>6, <1>7, <1>8 DEF ProxyTypes, Desktops

(* A program that ends without disable() forgets what it has saved.        *)
LEMMA ForgettingKeeps ==
    ASSUME ProxyTypes, ChangedFits, Known, settings' = settings, enabled' = FALSE,
           original' = NothingSaved, desktop' = desktop, SpoiledBy(enabled)
    PROVE  /\ ProxyTypes' /\ ChangedFits'
           /\ PointsAtUs(settings') => spoiled'
<1>1. original' \in Saved
  BY DEF NothingSaved, Saved
<1>2. PointsAtUs(settings') => spoiled'
  BY DEF Known, SpoiledBy
<1> QED BY <1>1, <1>2 DEF ProxyTypes, ChangedFits

(* The listener and the settings: however the slot of started goes.        *)
LEMMA ProxyOnKeeps ==
    ASSUME ProxyInv, SystemProxyOn
    PROVE  ProxyTypes' /\ ChangedFits' /\ Known' /\ DesktopIsServed'
<1>1. ASSUME NEW s \in Restored, Enable(s), SpoiledBy(Spoils(s)), http' = TRUE
      PROVE  ProxyTypes' /\ ChangedFits' /\ Known' /\ DesktopIsServed'
  BY <1>1, EnableKeeps DEF ProxyInv, DesktopIsServed
<1>2. CASE http' = FALSE /\ UNCHANGED proxyVars /\ SpoiledBy(enabled)
  <2>1. ProxyTypes' /\ ChangedFits'
    BY <1>2 DEF ProxyInv, ProxyTypes, ChangedFits, proxyVars
  <2>2. UNCHANGED <<settings, enabled, Target>>
    BY <1>2 DEF proxyVars, Target, RestoredOnWindows, RestoredOnLinux
  <2>3. PointsAtUs(settings') => spoiled'
    BY <1>2, <2>2 DEF SpoiledBy, ProxyInv, Known
  <2> QED BY <2>1, <2>2, <2>3 DEF ProxyInv, Known, DesktopIsServed
<1> QED BY <1>1, <1>2 DEF SystemProxyOn

LEMMA ProxyStep ==
    ASSUME ProxyInv, [Next]_vars
    PROVE  ProxyInv'
<1> USE DEF ProxyInv
<1>1. ASSUME UNCHANGED <<proxyVars, spoiled>>, (http' = http) \/ ~enabled, stage' = "http" => ~enabled
      PROVE  ProxyInv'
  <2>1. UNCHANGED <<settings, enabled, Target>>
    BY <1>1 DEF proxyVars, Target, RestoredOnWindows, RestoredOnLinux
  <2>2. ProxyTypes' /\ ChangedFits'
    BY <1>1 DEF proxyVars, ProxyTypes, ChangedFits
  <2> QED BY <1>1, <2>1, <2>2 DEF Known, DesktopIsServed
<1>2. CASE StartPaqet \/ StartTun \/ RouteJobDone \/ TunReady \/ StopTun
           \/ (\E c \in Children : ChildUp(c) \/ ChildExits(c) \/ StrayExits(c))
           \/ Launch \/ Quit \/ GiveUp
  BY <1>1, <1>2
     DEF StartPaqet, StartTun, RouteJobDone, TunReady, StopTun, ChildUp, ChildExits, StrayExits,
         Launch, Quit, GiveUp, programVars, historyVars
<1>3. CASE TurnOn
  BY <1>3, ProxyOnKeeps DEF TurnOn
<1>4. ASSUME TakesBack, stage' # "http" \/ ~enabled'
      PROVE  ProxyInv'
  BY <1>4, DisableKeeps DEF Known, DesktopIsServed
<1>5. CASE TurnOff \/ CleanupProxy
  <2>1. TakesBack
    BY <1>5 DEF TurnOff, CleanupProxy
  <2>2. ~enabled'
    BY <2>1 DEF TakesBack, Disable
  <2> QED BY <1>4, <2>1, <2>2
<1>6. CASE CleanupTun
  BY <1>1, <1>6 DEF CleanupTun, historyVars
<1>7. CASE CleanupHttp
  BY <1>1, <1>7 DEF CleanupHttp, historyVars
<1>8. CASE CleanupPaqet
  <2>1. stage' = "destroy"
    BY <1>8 DEF CleanupPaqet
  <2>2. CASE SystemProxyOn
    BY <2>1, <2>2, ProxyOnKeeps
  <2>3. CASE UNCHANGED <<http, proxyVars, spoiled>>
    BY <1>1, <2>1, <2>3
  <2> QED BY <1>8, <2>2, <2>3 DEF CleanupPaqet, ConnectionComesUp, historyVars
<1>9. CASE Destroy
  <2>1. stage' = "absent" /\ SpoiledBy(enabled)
    BY <1>9 DEF Destroy, Forgotten
  <2>2. CASE enabled /\ Disable
    <3>1. settings' \in Settings /\ original' \in Saved /\ enabled' = FALSE /\ desktop' = desktop
      BY <2>2, RestoredIsKnown DEF Disable, NothingSaved, Saved
    <3>2. desktop = "other" => settings'.server = "theirs"
      BY <2>2, RestoredIsKnown DEF Disable
    <3>3. PointsAtUs(settings') => spoiled'
      BY <2>1, <2>2 DEF SpoiledBy
    <3> QED BY <2>1, <3>1, <3>2, <3>3 DEF ProxyTypes, ChangedFits, Known, DesktopIsServed
  <2>3. CASE settings' = settings /\ enabled' = FALSE /\ original' = NothingSaved
             /\ UNCHANGED desktop
    BY <2>1, <2>3, ForgettingKeeps DEF Known, DesktopIsServed
  <2>4. CASE ~enabled /\ UNCHANGED proxyVars
    <3>1. UNCHANGED <<settings, enabled>>
      BY <2>4 DEF proxyVars
    <3>2. PointsAtUs(settings') => spoiled'
      BY <2>1, <2>4, <3>1 DEF SpoiledBy, Known
    <3>3. ProxyTypes' /\ ChangedFits'
      BY <2>4 DEF proxyVars, ProxyTypes, ChangedFits
    <3> QED BY <2>1, <2>4, <3>1, <3>2, <3>3 DEF Known, DesktopIsServed
  <2> QED BY <1>9, <2>2, <2>3, <2>4 DEF Destroy
<1>10. CASE Crash \/ Killed
  <2>1. /\ settings' = settings /\ enabled' = FALSE /\ original' = NothingSaved
        /\ desktop' = desktop /\ SpoiledBy(enabled) /\ stage' = "absent"
    BY <1>10 DEF Crash, Killed, Dies, Forgotten
  <2> QED BY <2>1, ForgettingKeeps DEF Known, DesktopIsServed
<1>11. CASE UNCHANGED vars
  BY <1>1, <1>11 DEF vars, programVars, historyVars
<1> QED BY <1>2, <1>3, <1>5, <1>6, <1>7, <1>8, <1>9, <1>10, <1>11 DEF Next

LEMMA ProxyInit == Init => ProxyInv
<1> SUFFICES ASSUME Init PROVE ProxyInv
  OBVIOUS
<1>1. desktop \in Desktops
  BY DEF Init, Desktops
<1>2. settings \in Settings /\ settings.server = "theirs" /\ original \in Saved
  BY DEF Init, Settings, Saved, NothingSaved
<1>3. ~enabled /\ enabled \in BOOLEAN /\ stage = "absent"
  BY Zenon DEF Init
<1> QED BY <1>1, <1>2, <1>3
        DEF ProxyInv, ProxyTypes, ChangedFits, Known, DesktopIsServed, PointsAtUs

(* DesktopIsServed: in every step of a run and between runs, the desktop's *)
(* settings point at the HTTP proxy only while it listens, unless they     *)
(* have been left there since something failed.                            *)
THEOREM DesktopServed == Spec => []DesktopIsServed
<1>1. ProxyInv => DesktopIsServed
  BY DEF ProxyInv
<1> QED BY <1>1, ProxyInit, ProxyStep, PTL DEF Spec

-----------------------------------------------------------------------------
(* The server's route.                                                     *)

(* QuitRemovesRoute is not inductive: a route is only taken back with the  *)
(* tunnel.  So as long as the program can still take it back there is a    *)
(* tunnel, which is launched in the step in which the route is set.        *)
RouteInv ==
    /\ child \in [Children -> {"off", "starting", "running"}]
    /\ route \in BOOLEAN
    /\ route => astray \/ (stage \in {"running", "tun"} /\ child["tunnel"] # "off")

(* The routes of a start that finds something before it may be astray.     *)
LEMMA StartsTunKeeps ==
    ASSUME RouteInv, StartsTun
    PROVE  route' \in BOOLEAN /\ (route' => astray')
<1>1. CASE child["tunnel"] = "off"
  <2>1. route' = FALSE \/ (astray /\ route' = route)
    BY <1>1 DEF StartsTun, RemoveRoute
  <2>2. (astray /\ route) => astray'
    BY DEF StartsTun
  <2>3. route' \in BOOLEAN
    BY <2>1, Zenon DEF RouteInv
  <2> QED BY <2>1, <2>2, <2>3
<1>2. CASE child["tunnel"] # "off"
  <2>1. route' = route
    BY <1>2 DEF StartsTun
  <2>2. astray'
    BY <1>2 DEF StartsTun
  <2> QED BY <2>1, <2>2 DEF RouteInv
<1> QED BY <1>1, <1>2

LEMMA RouteStep ==
    ASSUME RouteInv, [Next]_vars
    PROVE  RouteInv'
<1> USE DEF RouteInv, Children, childVars, programVars, historyVars
<1>1. CASE StartPaqet \/ TunReady \/ StopTun
  BY <1>1 DEF StartPaqet, TunReady, StopTun
<1>2. CASE StartTun
  BY <1>2, StartsTunKeeps DEF StartTun
<1>3. CASE RouteJobDone
  <2>1. /\ stage' = "running" /\ route' \in {route, TRUE}
        /\ child' \in [Children -> {"off", "starting", "running"}]
        /\ astray' = (astray \/ (route' /\ child'["tunnel"] = "off"))
    BY <1>3 DEF RouteJobDone
  <2>2. route' \in BOOLEAN
    BY <2>1, Zenon
  <2> QED BY <2>1, <2>2
<1>4. ASSUME NEW c \in Children, ChildUp(c) PROVE RouteInv'
  <2>1. /\ child' = [child EXCEPT ![c] = "running"] /\ child[c] # "off"
        /\ UNCHANGED <<route, stage, astray>>
    BY <1>4 DEF ChildUp
  <2> QED BY <2>1
<1>5. ASSUME NEW c \in Children, ChildExits(c) PROVE RouteInv'
  <2>1. /\ child' = [child EXCEPT ![c] = "off"] /\ child[c] # "off"
        /\ UNCHANGED <<stage, astray>>
    BY <1>5 DEF ChildExits, Gone
  <2>2. CASE c = "tunnel"
    <3>1. route' = FALSE \/ (astray /\ route' = route)
      BY <1>5, <2>2 DEF ChildExits, Gone, RemoveRoute
    <3> QED BY <2>1, <3>1
  <2>3. CASE c # "tunnel"
    <3>1. route' = route
      BY <1>5, <2>3 DEF ChildExits, Gone
    <3> QED BY <2>1, <2>3, <3>1
  <2> QED BY <2>2, <2>3
<1>6. ASSUME NEW c \in Children, StrayExits(c) PROVE RouteInv'
  BY <1>6 DEF StrayExits
<1>7. CASE TurnOn \/ TurnOff
  BY <1>7 DEF TurnOn, TurnOff
<1>8. CASE Launch \/ Quit \/ GiveUp
  <2>1. /\ UNCHANGED <<child, route, astray>>
        /\ stage = "absent" \/ (stage = "running" /\ stage' = "tun") \/ stage' = stage
    BY <1>8, Zenon DEF Launch, Quit, GiveUp
  <2> QED BY <2>1
<1>9. CASE CleanupTun
  <2>1. /\ child' \in [Children -> {"off", "starting", "running"}]
        /\ astray' = astray
    BY <1>9 DEF CleanupTun, Stopped
  <2>2. IF child["tunnel"] = "off" THEN route' = route
                                   ELSE route' = FALSE \/ (astray /\ route' = route)
    BY <1>9 DEF CleanupTun, RemoveRoute
  <2> QED BY <2>1, <2>2
<1>10. CASE CleanupProxy \/ CleanupHttp
  BY <1>10 DEF CleanupProxy, CleanupHttp
<1>11. CASE CleanupPaqet
  <2>1. /\ child' \in [Children -> {"off", "starting", "running"}]
        /\ stage = "paqet"
    BY <1>11 DEF CleanupPaqet, Stopped
  <2>2. StartsTun \/ UNCHANGED <<route, astray>>
    BY <1>11 DEF CleanupPaqet, ConnectionComesUp
  <2> QED BY <2>1, <2>2, StartsTunKeeps
<1>12. CASE Destroy
  <2>1. /\ stage = "destroy" /\ child' = [c \in Children |-> "off"]
        /\ route' = route \/ route' = (route \/ routeJobs > 0)
        /\ astray' = (route' /\ (astray \/ routeJobs > 0))
    BY <1>12 DEF Destroy, Forgotten
  <2>2. route' \in BOOLEAN
    BY <2>1, Zenon
  <2> QED BY <2>1, <2>2
<1>13. CASE Crash \/ Killed
  <2>1. /\ child' = [c \in Children |-> "off"]
        /\ route' = route \/ route' = (route \/ routeJobs > 0)
        /\ astray' = route'
    BY <1>13 DEF Crash, Killed, Dies, Forgotten
  <2>2. route' \in BOOLEAN
    BY <2>1, Zenon
  <2> QED BY <2>1, <2>2
<1>14. CASE UNCHANGED vars
  BY <1>14 DEF vars
<1> QED BY <1>1, <1>2, <1>3, <1>4, <1>5, <1>6, <1>7, <1>8, <1>9, <1>10, <1>11, <1>12, <1>13,
           <1>14 DEF Next

(* QuitRemovesRoute: a program that quits takes the server's route back,   *)
(* as long as its starts have not overlapped and none was dropped.         *)
THEOREM RouteRemoved == Spec => []QuitRemovesRoute
<1>1. Init => RouteInv
  BY DEF Init, RouteInv
<1>2. RouteInv => QuitRemovesRoute
  BY DEF RouteInv, QuitRemovesRoute
<1> QED BY <1>1, <1>2, RouteStep, PTL DEF Spec

-----------------------------------------------------------------------------
(* The table of a crash.                                                   *)

Distinct(t) == \A i, j \in DOMAIN t : t[i] = t[j] => i = j

(* A process that is new is appended, and nothing else changes.            *)
LEMMA RegisteredTable ==
    ASSUME NEW t \in Seq(Children), Distinct(t), NEW c \in Children, c \notin ToSet(t),
           Len(t) < MaxChildPids
    PROVE  /\ Registered(t, c) \in Seq(Children)
           /\ Distinct(Registered(t, c))
           /\ ToSet(Registered(t, c)) = ToSet(t) \cup {c}
<1>1. Registered(t, c) = Append(t, c)
  BY DEF Registered
<1>2. /\ Append(t, c) \in Seq(Children)
      /\ DOMAIN Append(t, c) = 1..(Len(t) + 1)
      /\ \A i \in 1..Len(t) : Append(t, c)[i] = t[i]
      /\ Append(t, c)[Len(t) + 1] = c
  BY AppendProperties, LenProperties
<1> QED BY <1>1, <1>2 DEF Distinct, ToSet

(* The last entry takes the place of the one that goes: all others stay.   *)
LEMMA UnregisteredTable ==
    ASSUME NEW t \in Seq(Children), Distinct(t), NEW c \in Children
    PROVE  /\ Unregistered(t, c) \in Seq(Children)
           /\ Distinct(Unregistered(t, c))
           /\ ToSet(Unregistered(t, c)) = ToSet(t) \ {c}
<1>1. CASE c \notin ToSet(t)
  BY <1>1 DEF Unregistered
<1>2. CASE c \in ToSet(t)
  <2> DEFINE n == Len(t)
             k == SelectInSeq(t, LAMBDA p : p = c)
             moved == [t EXCEPT ![k] = Last(t)]
  <2>1. PICK i \in 1..n : t[i] = c
    BY <1>2, LenProperties DEF ToSet
  <2>2. k = i
    <3>1. {j \in 1..n : t[j] = c} = {i}
      BY <2>1, LenProperties DEF Distinct
    <3>2. Min({i}) = i
      BY <2>1 DEF Min
    <3> QED BY <3>1, <3>2 DEF SelectInSeq
  <2>3. n \in Nat /\ n > 0 /\ Last(t) = t[n] /\ t[n] \in Children
    BY <2>1, LenProperties, ElementOfSeq DEF Last
  <2>4. /\ moved \in Seq(Children) /\ Len(moved) = n
        /\ \A j \in 1..n : moved[j] = IF j = i THEN t[n] ELSE t[j]
    <3>1. moved = [t EXCEPT ![i] = t[n]]
      BY <2>2, <2>3
    <3> HIDE DEF moved, k
    <3>2. /\ [t EXCEPT ![i] = t[n]] \in Seq(Children)
          /\ Len([t EXCEPT ![i] = t[n]]) = n
          /\ \A j \in 1..n : [t EXCEPT ![i] = t[n]][j] = IF j = i THEN t[n] ELSE t[j]
      BY <2>1, <2>3, ExceptSeq
    <3> QED BY <3>1, <3>2
  <2>5. Unregistered(t, c) = Front(moved)
    BY <1>2 DEF Unregistered
  <2> HIDE DEF moved, k
  <2>6. /\ Front(moved) \in Seq(Children)
        /\ DOMAIN Front(moved) = 1..(n - 1)
        /\ \A j \in 1..(n - 1) : Front(moved)[j] = IF j = i THEN t[n] ELSE t[j]
    <3>1. /\ SubSeq(moved, 1, n - 1) \in Seq(Children)
          /\ Len(SubSeq(moved, 1, n - 1)) = n - 1
          /\ \A j \in 1..(n - 1) : SubSeq(moved, 1, n - 1)[j] = moved[j]
      BY <2>3, <2>4
    <3>2. DOMAIN SubSeq(moved, 1, n - 1) = 1..(n - 1)
      BY <3>1, LenProperties
    <3> QED BY <2>3, <2>4, <3>1, <3>2 DEF Front
  <2>7. DOMAIN t = 1..n
    BY LenProperties
  <2>8. Distinct(Front(moved))
    BY <2>1, <2>3, <2>6, <2>7 DEF Distinct
  <2>9. ToSet(Front(moved)) = ToSet(t) \ {c}
    <3>1. ASSUME NEW x \in ToSet(Front(moved)) PROVE x \in ToSet(t) \ {c}
      BY <2>1, <2>3, <2>6, <2>7, <3>1 DEF ToSet, Distinct
    <3>2. ASSUME NEW x \in ToSet(t) \ {c} PROVE x \in ToSet(Front(moved))
      <4>1. PICK j \in 1..n : t[j] = x
        BY <2>7, <3>2 DEF ToSet
      <4>2. j # i
        BY <2>1, <3>2, <4>1
      <4>3. CASE j < n
        BY <2>3, <2>6, <4>1, <4>2, <4>3 DEF ToSet
      <4>4. CASE j = n
        <5>1. i \in 1..(n - 1) /\ Front(moved)[i] = x
          BY <2>1, <2>3, <2>6, <4>1, <4>2, <4>4
        <5> QED BY <2>6, <5>1 DEF ToSet
      <4> QED BY <2>3, <4>1, <4>3, <4>4
    <3> QED BY <3>1, <3>2
  <2> QED BY <2>6, <2>5, <2>8, <2>9
<1> QED BY <1>1, <1>2

LEMMA TableLength ==
    ASSUME NEW t \in Seq(Children), Distinct(t)
    PROVE  IsFiniteSet(ToSet(t)) /\ Cardinality(ToSet(t)) = Len(t) /\ Len(t) \in Nat
<1>1. /\ Len(t) \in Nat /\ DOMAIN t = 1..Len(t) /\ t \in [1..Len(t) -> Children]
  BY LenProperties
<1>2. t \in [1..Len(t) -> ToSet(t)]
  BY <1>1 DEF ToSet
<1>3. t \in Bijection(1..Len(t), ToSet(t))
  BY SMTT(30), <1>1, <1>2 DEF ToSet, Distinct, Bijection, Injection, Surjection, IsInjective
<1>4. ExistsBijection(1..Len(t), ToSet(t))
  BY <1>3 DEF ExistsBijection
<1>5. IsFiniteSet(1..Len(t)) /\ Cardinality(1..Len(t)) = Len(t)
  BY <1>1, FS_Interval
<1> QED BY <1>1, <1>4, <1>5, FS_Bijection

(* What a crash kills: TableIsChildren is strengthened by how the table is *)
(* filled, and by when a tunnel comes up that is not put into it.          *)
TableInv ==
    /\ child \in [Children -> {"off", "starting", "running"}]
    /\ table \in Seq(Children) /\ Distinct(table)
    /\ job \subseteq Children
    /\ IF platform = "windows" THEN table = <<>> ELSE job = {}
    /\ \A c \in Children :
          /\ c \in ToSet(table) \cup job => child[c] = "running"
          /\ child[c] = "running" => c \in ToSet(table) \cup job \/ (c = "tunnel" /\ cancelled)
    /\ child["tunnel"] = "starting" => starting \/ cancelled

(* Less than both children are in the table while one is not up.           *)
LEMMA TableHasRoom ==
    ASSUME TableInv, NEW c \in Children, c \notin ToSet(table)
    PROVE  Len(table) < MaxChildPids
<1>1. ToSet(table) \subseteq Children \ {c}
  BY LenProperties DEF TableInv, ToSet
<1>2. \E d \in Children : Children \ {c} = {d}
  BY DEF Children
<1>3. PICK d \in Children : ToSet(table) \subseteq {d}
  BY <1>1, <1>2
<1>4. IsFiniteSet({d}) /\ Cardinality({d}) = 1
  BY FS_Singleton
<1>5. Cardinality(ToSet(table)) <= 1
  BY <1>3, <1>4, FS_Subset
<1> QED BY <1>5, TableLength, TableAssumption DEF TableInv

LEMMA RegisterKeeps ==
    ASSUME TableInv, NEW c \in Children, child[c] = "starting", Register(c)
    PROVE  /\ table' \in Seq(Children) /\ Distinct(table')
           /\ job' \subseteq Children
           /\ IF platform = "windows" THEN table' = <<>> ELSE job' = {}
           /\ ToSet(table') \cup job' = ToSet(table) \cup job \cup {c}
<1>1. c \notin ToSet(table)
  BY DEF TableInv
<1>2. /\ Registered(table, c) \in Seq(Children)
      /\ Distinct(Registered(table, c))
      /\ ToSet(Registered(table, c)) = ToSet(table) \cup {c}
  BY <1>1, TableHasRoom, RegisteredTable DEF TableInv
<1> QED BY <1>2 DEF TableInv, Register

LEMMA UnregisterKeeps ==
    ASSUME TableInv, NEW c \in Children, Unregister(c)
    PROVE  /\ table' \in Seq(Children) /\ Distinct(table')
           /\ job' \subseteq Children
           /\ IF platform = "windows" THEN table' = <<>> ELSE job' = {}
           /\ ToSet(table') \cup job' = (ToSet(table) \cup job) \ {c}
<1>1. /\ Unregistered(table, c) \in Seq(Children)
      /\ Distinct(Unregistered(table, c))
      /\ ToSet(Unregistered(table, c)) = ToSet(table) \ {c}
  BY UnregisteredTable DEF TableInv
<1>2. ToSet(<<>>) = {} /\ Unregistered(<<>>, c) = <<>>
  BY DEF ToSet, Unregistered
<1> QED BY <1>1, <1>2 DEF TableInv, Unregister

(* A child that ends takes its entry with it.                              *)
LEMMA EndKeeps ==
    ASSUME TableInv, NEW c \in Children, child' = [child EXCEPT ![c] = "off"], Unregister(c),
           platform' = platform,
           c = "paqet" => (starting => starting') /\ cancelled' = cancelled,
           c = "tunnel" => cancelled' \in {cancelled, FALSE}
    PROVE  TableInv'
<1>1. /\ table' \in Seq(Children) /\ Distinct(table')
      /\ job' \subseteq Children
      /\ IF platform = "windows" THEN table' = <<>> ELSE job' = {}
      /\ ToSet(table') \cup job' = (ToSet(table) \cup job) \ {c}
  BY UnregisterKeeps
<1>2. child' \in [Children -> {"off", "starting", "running"}] /\ child'[c] = "off"
      /\ \A d \in Children \ {c} : child'[d] = child[d]
  BY DEF TableInv
<1>3. c = "paqet" \/ c = "tunnel"
  BY DEF Children
<1> QED BY <1>1, <1>2, <1>3 DEF TableInv, Children

LEMMA TableStep ==
    ASSUME TableInv, [Next]_vars
    PROVE  TableInv'
<1> USE DEF childVars, programVars, historyVars
<1>1. ASSUME UNCHANGED <<platform, child, table, job, cancelled>>,
             child["tunnel"] = "starting" => starting'  = starting
      PROVE  TableInv'
  BY <1>1 DEF TableInv
<1>2. CASE StartPaqet
  BY <1>2 DEF StartPaqet, TableInv, Children
<1>3. CASE TurnOn \/ TurnOff \/ Launch \/ GiveUp \/ CleanupProxy
           \/ CleanupHttp \/ (\E c \in Children : StrayExits(c))
  BY <1>1, <1>3
     DEF TurnOn, TurnOff, Launch, GiveUp, CleanupProxy, CleanupHttp, StrayExits
<1>4. CASE Quit
  <2>1. UNCHANGED <<platform, child, table, job, cancelled, starting>>
    BY <1>4, Zenon DEF Quit
  <2> QED BY <1>1, <2>1
<1>5. CASE RouteJobDone
  BY <1>5 DEF RouteJobDone, TableInv, Children
<1>6. CASE StopTun \/ StartTun \/ TunReady
  <2>1. /\ UNCHANGED <<platform, child, table, job>>
        /\ cancelled => cancelled'
        /\ child["tunnel"] = "starting" => starting' \/ cancelled'
    BY <1>6 DEF StopTun, StartTun, StartsTun, TunReady
  <2> QED BY <2>1 DEF TableInv
<1>7. ASSUME NEW c \in Children, ChildUp(c) PROVE TableInv'
  <2>1. /\ child[c] = "starting" /\ child' = [child EXCEPT ![c] = "running"]
        /\ UNCHANGED <<platform, starting, cancelled>>
    BY <1>7 DEF ChildUp
  <2>2. /\ child' \in [Children -> {"off", "starting", "running"}] /\ child'[c] = "running"
        /\ \A d \in Children \ {c} : child'[d] = child[d]
    BY <2>1 DEF TableInv
  <2>3. CASE Register(c)
    <3>1. /\ table' \in Seq(Children) /\ Distinct(table')
          /\ job' \subseteq Children
          /\ IF platform = "windows" THEN table' = <<>> ELSE job' = {}
          /\ ToSet(table') \cup job' = ToSet(table) \cup job \cup {c}
      BY <2>1, <2>3, RegisterKeeps
    <3> QED BY <2>1, <2>2, <3>1 DEF TableInv, Children
  <2>4. CASE c # "paqet" /\ ~starting /\ UNCHANGED <<table, job>>
    BY <2>1, <2>2, <2>4 DEF TableInv, Children
  <2> QED BY <1>7, <2>3, <2>4 DEF ChildUp
<1>8. ASSUME NEW c \in Children, ChildExits(c) PROVE TableInv'
  <2>1. c = "paqet" => (starting => starting') /\ cancelled' = cancelled
    BY <1>8 DEF ChildExits, Gone
  <2>2. c = "tunnel" => cancelled' \in {cancelled, FALSE}
    BY <1>8 DEF ChildExits, Gone
  <2>3. child' = [child EXCEPT ![c] = "off"] /\ Unregister(c) /\ platform' = platform
    BY <1>8 DEF ChildExits, Gone
  <2> QED BY <2>1, <2>2, <2>3, EndKeeps
<1>9. CASE CleanupTun
  <2>1. UNCHANGED <<platform, starting, cancelled>> /\ "tunnel" \in Children
    BY <1>9 DEF CleanupTun, Children
  <2>2. CASE child' = [child EXCEPT !["tunnel"] = "off"] /\ Unregister("tunnel")
    BY <2>1, <2>2, EndKeeps
  <2>3. CASE UNCHANGED <<child, table, job>>
    BY <1>1, <2>1, <2>3
  <2> QED BY <1>9, <2>2, <2>3 DEF CleanupTun, Stopped
<1>10. CASE CleanupPaqet
  <2>1. platform' = platform /\ "paqet" \in Children
    BY <1>10 DEF CleanupPaqet, Children
  <2>2. /\ cancelled => cancelled'
        /\ child["tunnel"] = "starting" /\ ~cancelled' => (starting => starting')
    <3>1. CASE StartsTun
      BY <3>1 DEF StartsTun
    <3>2. CASE UNCHANGED <<starting, cancelled>>
      BY <3>2
    <3> QED BY <1>10, <3>1, <3>2 DEF CleanupPaqet, ConnectionComesUp
  <2>3. CASE child' = [child EXCEPT !["paqet"] = "off"] /\ Unregister("paqet")
    <3>1. /\ table' \in Seq(Children) /\ Distinct(table')
          /\ job' \subseteq Children
          /\ IF platform = "windows" THEN table' = <<>> ELSE job' = {}
          /\ ToSet(table') \cup job' = (ToSet(table) \cup job) \ {"paqet"}
      BY <2>1, <2>3, UnregisterKeeps
    <3>2. /\ child' \in [Children -> {"off", "starting", "running"}]
          /\ child'["paqet"] = "off" /\ child'["tunnel"] = child["tunnel"]
      BY <2>3 DEF TableInv, Children
    <3> QED BY <2>1, <2>2, <3>1, <3>2 DEF TableInv, Children
  <2>4. CASE UNCHANGED <<child, table, job>>
    BY <2>1, <2>2, <2>4 DEF TableInv
  <2> QED BY <1>10, <2>3, <2>4 DEF CleanupPaqet, Stopped
<1>11. CASE Forgotten
  BY <1>11, EmptySeq DEF Forgotten, TableInv, Distinct, ToSet, Children
<1>12. CASE UNCHANGED vars
  BY <1>1, <1>12 DEF vars
<1> QED BY <1>2, <1>3, <1>4, <1>5, <1>6, <1>7, <1>8, <1>9, <1>10, <1>11, <1>12
        DEF Next, Destroy, Crash, Killed, Dies

LEMMA TableInit == Init => TableInv
BY EmptySeq DEF Init, TableInv, Distinct, ToSet, Children

(* TableIsChildren: a crash kills the children that run, and no process    *)
(* that has ended, whatever order they come and go in.                     *)
THEOREM TableCorrect == Spec => []TableIsChildren
<1>1. Init => TableInv
  BY TableInit
<1>2. TableInv => TableIsChildren
  <2> SUFFICES ASSUME TableInv PROVE TableIsChildren
    OBVIOUS
  <2>1. IsFiniteSet(ToSet(table)) /\ Cardinality(ToSet(table)) = Len(table) /\ Len(table) \in Nat
    BY TableLength DEF TableInv
  <2>2. IsFiniteSet(Children)
    <3>1. IsFiniteSet({"paqet"})
      BY FS_Singleton
    <3>2. IsFiniteSet({"paqet"} \cup {"tunnel"})
      BY <3>1, FS_AddElement
    <3>3. Children = {"paqet"} \cup {"tunnel"}
      BY DEF Children
    <3> QED BY <3>2, <3>3
  <2>3. IsFiniteSet(job) /\ Cardinality(job) \in Nat
    BY <2>2, FS_Subset, FS_CardinalityType DEF TableInv
  <2>4. CASE job = {}
    BY <2>1, <2>4, FS_EmptySet DEF TableInv, TableIsChildren
  <2>5. CASE table = <<>>
    <3>1. ToSet(table) = {} /\ Len(table) = 0
      BY <2>5 DEF ToSet
    <3> QED BY <2>3, <3>1 DEF TableInv, TableIsChildren
  <2> QED BY <2>4, <2>5 DEF TableInv
<1> QED BY <1>1, <1>2, TableStep, PTL DEF Spec

-----------------------------------------------------------------------------
(* Type correctness: the desktop's part is in ProxyInv, the table's in     *)
(* TableInv; the rest does not depend on them.                             *)

LEMMA TableFits ==
    ASSUME TableInv
    PROVE  Len(table) <= MaxChildPids
<1>1. CASE \A c \in Children : c \in ToSet(table)
  <2>1. Cardinality({"paqet", "tunnel"}) = 2 /\ IsFiniteSet({"paqet", "tunnel"})
    <3>1. IsFiniteSet({"paqet"}) /\ Cardinality({"paqet"}) = 1
      BY FS_Singleton
    <3>2. /\ IsFiniteSet({"paqet"} \cup {"tunnel"})
          /\ Cardinality({"paqet"} \cup {"tunnel"}) = 2
      BY <3>1, FS_AddElement
    <3>3. {"paqet"} \cup {"tunnel"} = {"paqet", "tunnel"}
      OBVIOUS
    <3> QED BY <3>2, <3>3
  <2>2. ToSet(table) \subseteq {"paqet", "tunnel"}
    BY LenProperties DEF TableInv, ToSet, Children
  <2>3. Cardinality(ToSet(table)) <= 2
    BY <2>1, <2>2, FS_Subset
  <2> QED BY <2>3, TableLength, TableAssumption DEF TableInv
<1>2. ASSUME NEW c \in Children, c \notin ToSet(table)
      PROVE  Len(table) <= MaxChildPids
  <2>1. Len(table) < MaxChildPids /\ Len(table) \in Nat
    BY <1>2, TableHasRoom, LenProperties DEF TableInv
  <2> QED BY <2>1, TableAssumption
<1> QED BY <1>1, <1>2

ProgramTypes ==
    /\ platform \in {"linux", "mac", "windows"}
    /\ stage \in Stages
    /\ restarting \in BOOLEAN
    /\ strays \subseteq Children

LEMMA ProgramStep ==
    ASSUME ProgramTypes, [Next]_vars
    PROVE  ProgramTypes'
<1> USE DEF ProgramTypes, Stages, programVars
<1>1. CASE StartPaqet \/ StartTun \/ RouteJobDone \/ TunReady \/ StopTun
  BY <1>1 DEF StartPaqet, StartTun, RouteJobDone, TunReady, StopTun
<1>2. ASSUME NEW c \in Children, ChildUp(c) \/ ChildExits(c) \/ StrayExits(c)
      PROVE  ProgramTypes'
  BY <1>2 DEF ChildUp, ChildExits, StrayExits
<1>3. CASE TurnOn \/ TurnOff \/ Launch \/ GiveUp
  BY <1>3 DEF TurnOn, TurnOff, Launch, GiveUp
<1>4. CASE Quit
  BY <1>4 DEF Quit
<1>5. CASE CleanupTun \/ CleanupProxy \/ CleanupHttp \/ CleanupPaqet
  BY <1>5 DEF CleanupTun, CleanupProxy, CleanupHttp, CleanupPaqet
<1>6. CASE Destroy \/ Crash \/ Killed
  BY <1>6 DEF Destroy, Crash, Killed, Dies, Forgotten
<1>7. CASE UNCHANGED vars
  BY <1>7 DEF vars
<1> QED BY <1>1, <1>2, <1>3, <1>4, <1>5, <1>6, <1>7 DEF Next

FlagTypes ==
    /\ starting \in BOOLEAN /\ http \in BOOLEAN /\ cancelled \in BOOLEAN
    /\ spoiled \in BOOLEAN /\ astray \in BOOLEAN

LEMMA FlagStep ==
    ASSUME FlagTypes, RouteInv, RouteInv', [Next]_vars
    PROVE  FlagTypes'
<1> USE DEF FlagTypes, programVars, historyVars, SpoiledBy
<1> route \in BOOLEAN /\ route' \in BOOLEAN
  BY DEF RouteInv
<1>1. CASE StartPaqet \/ TunReady
  BY Zenon, <1>1 DEF StartPaqet, TunReady
<1>2. CASE StartTun
  BY Zenon, <1>2 DEF StartTun, StartsTun
<1>3. CASE RouteJobDone \/ StopTun
  BY Zenon, <1>3 DEF RouteJobDone, StopTun
<1>4. ASSUME NEW c \in Children, ChildUp(c) \/ ChildExits(c) \/ StrayExits(c)
      PROVE  FlagTypes'
  BY Zenon, <1>4 DEF ChildUp, ChildExits, Gone, StrayExits
<1>5. CASE TurnOn
  BY Zenon, <1>5 DEF TurnOn, SystemProxyOn
<1>6. CASE TurnOff
  BY Zenon, <1>6 DEF TurnOff, TakesBack
<1>7. CASE Launch \/ Quit \/ GiveUp
  BY Zenon, <1>7 DEF Launch, Quit, GiveUp
<1>8. CASE CleanupTun
  BY Zenon, <1>8 DEF CleanupTun
<1>9. CASE CleanupProxy \/ CleanupHttp
  BY Zenon, <1>9 DEF CleanupProxy, CleanupHttp, TakesBack
<1>10. CASE CleanupPaqet
  <2>1. CASE SystemProxyOn /\ UNCHANGED <<starting, cancelled, astray>>
    BY Zenon, <2>1 DEF SystemProxyOn
  <2>2. CASE StartsTun /\ UNCHANGED <<http, spoiled>>
    BY Zenon, <2>2 DEF StartsTun
  <2>3. CASE UNCHANGED <<starting, http, cancelled, spoiled, astray>>
    BY Zenon, <2>3
  <2> QED BY <1>10, <2>1, <2>2, <2>3 DEF CleanupPaqet, ConnectionComesUp
<1>11. CASE Destroy
  BY Zenon, <1>11 DEF Destroy, Forgotten
<1>12. CASE Crash \/ Killed
  BY Zenon, <1>12 DEF Crash, Killed, Dies, Forgotten
<1>13. CASE UNCHANGED vars
  BY Zenon, <1>13 DEF vars
<1> QED BY <1>1, <1>2, <1>3, <1>4, <1>5, <1>6, <1>7, <1>8, <1>9, <1>10, <1>11, <1>12, <1>13
        DEF Next

(* The workers and timers that are told apart.                             *)
CountTypes == routeJobs \in 0..MaxJobs /\ ready \in 0..MaxJobs

LEMMA CountStep ==
    ASSUME CountTypes, [Next]_vars
    PROVE  CountTypes'
<1> USE JobsAssumption DEF CountTypes, programVars
<1>1. CASE StartTun
  BY <1>1 DEF StartTun, StartsTun
<1>2. CASE RouteJobDone \/ TunReady
  <2>1. \/ routeJobs > 0 /\ routeJobs' = routeJobs - 1 /\ ready' = ready
        \/ ready > 0 /\ ready' = ready - 1 /\ routeJobs' = routeJobs
    BY <1>2, Zenon DEF RouteJobDone, TunReady
  <2> QED BY <2>1
<1>3. ASSUME NEW c \in Children, ChildUp(c) PROVE CountTypes'
  BY <1>3 DEF ChildUp
<1>4. CASE CleanupPaqet
  <2>1. ready' = ready
    BY <1>4 DEF CleanupPaqet
  <2>2. StartsTun \/ UNCHANGED routeJobs
    BY <1>4 DEF CleanupPaqet, ConnectionComesUp
  <2> QED BY <2>1, <2>2 DEF StartsTun
<1>5. CASE Forgotten
  BY <1>5 DEF Forgotten
<1>6. ASSUME UNCHANGED <<routeJobs, ready>> PROVE CountTypes'
  BY <1>6
<1>7. CASE StartPaqet \/ StopTun \/ TurnOn \/ TurnOff \/ Launch \/ Quit \/ GiveUp \/ CleanupTun
           \/ CleanupProxy \/ CleanupHttp \/ (\E c \in Children : ChildExits(c) \/ StrayExits(c))
           \/ UNCHANGED vars
  BY <1>6, <1>7 DEF StartPaqet, StopTun, TurnOn, TurnOff, Launch, Quit, GiveUp, CleanupTun,
                    CleanupProxy, CleanupHttp, ChildExits, StrayExits, vars
<1> QED BY <1>1, <1>2, <1>3, <1>4, <1>5, <1>7 DEF Next, Destroy, Crash, Killed, Dies

(* TypeOK: the desktop, the program's stage, its children and the table    *)
(* are what they are declared to be, on every platform and for every size  *)
(* of the table; the table is never fuller than it is large.               *)
THEOREM TypeCorrect == Spec => []TypeOK
<1>1. Init => ProgramTypes /\ FlagTypes /\ CountTypes
  <2> SUFFICES ASSUME Init PROVE ProgramTypes /\ FlagTypes /\ CountTypes
    OBVIOUS
  <2>1. ProgramTypes
    BY DEF Init, ProgramTypes, Stages
  <2>2. FlagTypes
    BY Zenon DEF Init, FlagTypes
  <2>3. CountTypes
    BY JobsAssumption DEF Init, CountTypes
  <2> QED BY <2>1, <2>2, <2>3
<1>2. Init => RouteInv
  BY DEF Init, RouteInv
<1>3. ProxyInv /\ TableInv /\ ProgramTypes /\ FlagTypes /\ CountTypes /\ RouteInv => TypeOK
  BY TableFits DEF TypeOK, ProxyTypeOK, ProxyInv, ProxyTypes, TableInv, ProgramTypes, FlagTypes,
                   CountTypes, RouteInv
<1> QED BY <1>1, <1>2, <1>3, ProxyInit, ProxyStep, TableInit, TableStep, RouteStep,
           ProgramStep, FlagStep, CountStep, PTL DEF Spec
=============================================================================
