---------------------------- MODULE SystemProxy ----------------------------
(* SystemProxyManager: points the desktop's proxy settings at the HTTP     *)
(* proxy, and takes them back.  What is saved, and what taking them back   *)
(* means, is different for every desktop.                                  *)

VARIABLES
    desktop,    \* the desktop the program runs on
    settings,   \* the desktop's settings: proxy mode and manual server
    enabled,    \* m_enabled
    original    \* m_originalSettings
proxyVars == <<desktop, settings, enabled, original>>

(* "other" is any desktop that is not known.                               *)
Desktops == {"windows", "gnome", "kde", "other"}

(* The server of the settings is what they had before, or 127.0.0.1 and    *)
(* the port of the HTTP proxy.                                             *)
Settings == [mode : {"none", "auto", "manual"}, server : {"theirs", "ours"}]

(* How the settings were changed, and what they were as far as known.      *)
Saved == [by : {"nothing", "wininet", "registry", "gnome", "kde"},
          mode : {"none", "auto", "manual"}, server : {"theirs", "ours"}]
NothingSaved == [by |-> "nothing", mode |-> "none", server |-> "theirs"]

PointsAtUs(s) == s.mode = "manual" /\ s.server = "ours"
Ours == [mode |-> "manual", server |-> "ours"]

ProxyTypeOK ==
    /\ desktop \in Desktops
    /\ settings \in Settings
    /\ enabled \in BOOLEAN
    /\ original \in Saved
-----------------------------------------------------------------------------
(* Settings s on their way to t: the results of WinINet, of the registry   *)
(* and of the commands are not looked at, and each part may stay as it is. *)
Partly(s, t) == [mode : {s.mode, t.mode}, server : {s.server, t.server}]

(* disable_Windows(): WinINet is set to a direct connection, the registry  *)
(* gets back what it had.                                                  *)
RestoredOnWindows ==
    IF original.by = "registry"
    THEN [mode |-> original.mode, server |-> original.server]
    ELSE [mode |-> "none", server |-> "theirs"]

(* disable_Linux(): GNOME gets back its mode, but not the server; KDE is   *)
(* set to no proxy.                                                        *)
RestoredOnLinux ==
    CASE original.by = "gnome" -> [settings EXCEPT !.mode = original.mode]
      [] original.by = "kde" -> [settings EXCEPT !.mode = "none"]
      [] OTHER -> settings

(* What disable() asks for, and what may come of it.                       *)
Target == IF desktop = "windows" THEN RestoredOnWindows ELSE RestoredOnLinux
Restored == IF enabled THEN Partly(settings, Target) ELSE {settings}

(* disable()                                                               *)
Disable ==
    /\ settings' \in Restored
    /\ enabled' = FALSE
    /\ original' = IF enabled THEN NothingSaved ELSE original
    /\ UNCHANGED desktop

(* enable_Windows() and, if WinINet refuses, enableViaRegistry(): what is  *)
(* saved of settings s, or nothing if the registry cannot be opened.       *)
SavedOnWindows(s) ==
    {[NothingSaved EXCEPT !.by = "wininet"],
     [by |-> "registry", mode |-> s.mode, server |-> s.server],
     NothingSaved}

(* enable_Linux(): the mode GNOME had is asked for, and taken to be "none" *)
(* if no answer comes within 3 s.                                          *)
SavedOnLinux(s) ==
    CASE desktop = "gnome" ->
            {[NothingSaved EXCEPT !.by = "gnome", !.mode = m] : m \in {s.mode, "none"}}
      [] desktop = "kde" -> {[NothingSaved EXCEPT !.by = "kde"]}
      [] OTHER -> {NothingSaved}

SavedOf(s) == IF desktop = "windows" THEN SavedOnWindows(s) ELSE SavedOnLinux(s)

(* What may become of settings s that are changed that way: only WinINet   *)
(* is known to have done it.                                               *)
Changed(by, s) ==
    CASE by = "nothing" -> {s}
      [] by = "wininet" -> {Ours}
      [] OTHER -> Partly(s, Ours)

(* Mutant: enable() without taking back what was enabled before.           *)
EnableTwice(s) ==
    \E saved \in SavedOf(settings) :
        /\ original' = saved
        /\ settings' \in Changed(saved.by, settings)
        /\ enabled' = (enabled \/ saved.by # "nothing")
        /\ UNCHANGED desktop

(* enable(): first it takes back what was enabled before, which leaves the *)
(* settings s.                                                             *)
Enable(s) ==
    \E saved \in SavedOf(s) :
        /\ original' = saved
        /\ settings' \in Changed(saved.by, s)
        /\ enabled' = (saved.by # "nothing")
        /\ UNCHANGED desktop
=============================================================================
