----------------------------- MODULE BottomBar -----------------------------
(* What goes on in the background while the main window is used, as the    *)
(* bar at its bottom shows it: the download of the tunnel program and the  *)
(* latency test, each driven by its own answers from the network.          *)
EXTENDS TunAssets, LatencyCheck

vars == <<assetsVars, latencyVars>>

TypeOK == AssetsTypeOK /\ LatencyTypeOK

Init == AssetsInit /\ LatencyInit

Next ==
    \/ AssetsNext /\ UNCHANGED latencyVars
    \/ LatencyNext /\ UNCHANGED assetsVars

Spec == Init /\ [][Next]_vars

(* Requests have a transfer timeout and timers fire.                       *)
Fairness ==
    /\ WF_vars(OnHevReleaseCheckFinished /\ UNCHANGED latencyVars)
    /\ WF_vars(OnHevDownloadFinished /\ UNCHANGED latencyVars)
    /\ WF_vars(DoCheck /\ UNCHANGED assetsVars)
    /\ WF_vars(OnFinished /\ UNCHANGED assetsVars)

FairSpec == Spec /\ Fairness
-----------------------------------------------------------------------------
(* Properties.                                                             *)

(* The bar never shows for ever that something goes on: a download ends,   *)
(* and so does a latency test, unless the selection went away in the two   *)
(* seconds it waited.                                                      *)
ShownActivityEnds ==
    /\ shownDownload ~> ~shownDownload
    /\ testing ~> (~testing \/ abandoned)

(* Not kept by the code: doCheck() returns if nothing is selected any      *)
(* more, with "Testing..." shown.                                          *)
TestingEnds == testing ~> ~testing
=============================================================================
