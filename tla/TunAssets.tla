----------------------------- MODULE TunAssets -----------------------------
(* TunAssetsManager: fetches the tunnel program, in the controller's words *)
(* "TUN assets", when TUN mode is chosen and they are missing.  On Windows *)
(* one archive from a fixed address holds three files; elsewhere the        *)
(* releases are asked for first and the program itself is downloaded.       *)
EXTENDS FiniteSets

VARIABLES
    windows,             \* the platform the program was built for
    installed,           \* the files found beside the program
    downloadInProgress,  \* m_downloadInProgress of the manager
    step,                \* m_step
    request,             \* m_currentReply: is an answer awaited?
    downloadFile,        \* m_downloadFile: is there a temporary file?
    tunMode,             \* settings: was TUN chosen?
    prompt,              \* downloadTunAssetsPromptDialog is open
    shownDownload,       \* the controller's m_tunAssetsDownloadInProgress
    shownFailure         \* its m_downloadFailed
managerVars == <<downloadInProgress, step, request, downloadFile>>
pageVars == <<tunMode, prompt, shownDownload, shownFailure>>
assetsVars == <<windows, installed, managerVars, pageVars>>

Program == "hev-socks5-tunnel"
Libraries == {"wintun.dll", "msys-2.0.dll"}
Needed == {Program} \cup (IF windows THEN Libraries ELSE {})

(* isTunAssetsAvailable()                                                  *)
IsTunAssetsAvailable == Needed \subseteq installed

AssetsTypeOK ==
    /\ windows \in BOOLEAN
    /\ installed \subseteq Needed
    /\ downloadInProgress \in BOOLEAN
    /\ step \in {"None", "HevCheck", "HevDownload"}
    /\ request \in BOOLEAN
    /\ downloadFile \in BOOLEAN
    /\ tunMode \in BOOLEAN
    /\ prompt \in BOOLEAN
    /\ shownDownload \in BOOLEAN
    /\ shownFailure \in BOOLEAN

AssetsInit ==
    /\ windows \in BOOLEAN
    /\ installed \in SUBSET Needed
    /\ downloadInProgress = FALSE
    /\ step = "None"
    /\ request = FALSE
    /\ downloadFile = FALSE
    /\ tunMode \in {FALSE, IsTunAssetsAvailable}
    /\ prompt = FALSE
    /\ shownDownload = FALSE
    /\ shownFailure = FALSE
-----------------------------------------------------------------------------
(* The signals tunAssetsDownloadFinished and tunAssetsDownloadFailed, as   *)
(* the controller takes them.                                              *)
Finished == shownDownload' = FALSE /\ UNCHANGED shownFailure
Failed == shownDownload' = FALSE /\ shownFailure' = TRUE

(* cleanup(); it leaves m_downloadInProgress alone.                        *)
Cleanup == request' = FALSE /\ downloadFile' = FALSE /\ step' = "None"

(* The user chooses TUN: the mode is kept back and the page asks whether   *)
(* to download if something is missing.                                    *)
ChooseTun ==
    /\ ~tunMode
    /\ IF IsTunAssetsAvailable
       THEN tunMode' = TRUE /\ UNCHANGED prompt
       ELSE prompt' = TRUE /\ UNCHANGED tunMode
    /\ UNCHANGED <<windows, installed, managerVars, shownDownload, shownFailure>>

LeaveTun == tunMode /\ tunMode' = FALSE
         /\ UNCHANGED <<windows, installed, managerVars, prompt, shownDownload, shownFailure>>

(* Connecting in TUN mode asks as well.                                    *)
ConnectInTun ==
    /\ tunMode
    /\ ~IsTunAssetsAvailable
    /\ prompt' = TRUE
    /\ UNCHANGED <<windows, installed, managerVars, tunMode, shownDownload, shownFailure>>

Later ==
    /\ prompt
    /\ prompt' = FALSE
    /\ UNCHANGED <<windows, installed, managerVars, tunMode, shownDownload, shownFailure>>

(* startHevDownload(), which fails at once without a temporary file.       *)
StartHevDownload(opened) ==
    IF opened
    THEN /\ step' = "HevDownload"
         /\ downloadFile' = TRUE
         /\ request' = TRUE
    ELSE Cleanup

(* "Download" in the prompt: downloadTunAssets() does nothing, and says    *)
(* nothing, while m_downloadInProgress is set.                             *)
DownloadTunAssets ==
    /\ prompt
    /\ prompt' = FALSE
    /\ IF downloadInProgress
       THEN UNCHANGED <<managerVars, shownDownload, shownFailure>>
       ELSE /\ downloadInProgress' = TRUE
            /\ \/ /\ windows
                  /\ \E opened \in BOOLEAN :
                        /\ StartHevDownload(opened)
                        /\ shownDownload' = opened
                        /\ shownFailure' = ~opened
               \/ /\ ~windows
                  /\ step' = "HevCheck"
                  /\ request' = TRUE
                  /\ shownDownload' = TRUE
                  /\ shownFailure' = FALSE
                  /\ UNCHANGED downloadFile
    /\ UNCHANGED <<windows, installed, tunMode>>

(* Mutant: the failure of the check resets the manager but is not told.    *)
OnHevReleaseCheckFinishedSilently ==
    /\ request /\ step = "HevCheck"
    /\ \/ /\ request' = FALSE
          /\ downloadInProgress' = FALSE
          /\ UNCHANGED <<step, downloadFile, shownDownload, shownFailure>>
       \/ /\ StartHevDownload(TRUE)
          /\ UNCHANGED <<downloadInProgress, shownDownload, shownFailure>>
    /\ UNCHANGED <<windows, installed, tunMode, prompt>>

(* The releases were fetched, or not; they have the program for this       *)
(* platform, or not.                                                       *)
OnHevReleaseCheckFinished ==
    /\ request /\ step = "HevCheck"
    /\ \/ /\ request' = FALSE
          /\ downloadInProgress' = FALSE
          /\ Failed
          /\ UNCHANGED <<step, downloadFile>>
       \/ /\ StartHevDownload(TRUE)
          /\ UNCHANGED <<downloadInProgress, shownDownload, shownFailure>>
       \/ /\ StartHevDownload(FALSE)
          /\ Failed
          /\ UNCHANGED downloadInProgress
    /\ UNCHANGED <<windows, installed, tunMode, prompt>>

(* The download, or unpacking it, failed.                                  *)
HevDownloadLost ==
    /\ request /\ downloadFile /\ step = "HevDownload"
    /\ Cleanup
    /\ Failed
    /\ UNCHANGED <<windows, installed, downloadInProgress, tunMode, prompt>>

(* Mutant: "finished" is reported though the program could not be copied.  *)
InstallUnixUnchecked ==
    /\ request /\ downloadFile /\ step = "HevDownload"
    /\ ~windows
    /\ installed' \in {{}, {Program}}
    /\ request' = FALSE
    /\ downloadFile' = FALSE
    /\ downloadInProgress' = FALSE
    /\ Finished
    /\ UNCHANGED <<windows, step, tunMode, prompt>>

(* Elsewhere than on Windows: the old program is removed, the new copied.  *)
InstallUnix ==
    /\ request /\ downloadFile /\ step = "HevDownload"
    /\ ~windows
    /\ \/ /\ installed' = {Program}
          /\ request' = FALSE
          /\ downloadFile' = FALSE
          /\ downloadInProgress' = FALSE
          /\ Finished
          /\ UNCHANGED step
       \/ /\ installed' = {}
          /\ Cleanup
          /\ Failed
          /\ UNCHANGED downloadInProgress
    /\ UNCHANGED <<windows, tunMode, prompt>>

(* On Windows each file is copied by itself.  One that is not in the       *)
(* archive stays as it is, and only one that is in it and cannot be copied *)
(* is a failure: it is gone, or, if it is in use and cannot be removed,    *)
(* kept.                                                                   *)
InstallWindows ==
    /\ request /\ downloadFile /\ step = "HevDownload"
    /\ windows
    /\ \E copied, lost, kept \in SUBSET Needed :
          /\ copied \cap (lost \cup kept) = {} /\ lost \cap kept = {}
          /\ kept \subseteq installed
          /\ installed' = (installed \ lost) \cup copied
          /\ IF lost \cup kept = {} THEN Finished ELSE Failed
    /\ request' = FALSE
    /\ downloadFile' = FALSE
    /\ downloadInProgress' = FALSE
    /\ UNCHANGED <<windows, step, tunMode, prompt>>

OnHevDownloadFinished == HevDownloadLost \/ InstallUnix \/ InstallWindows

AssetsNext ==
    \/ ChooseTun \/ LeaveTun \/ ConnectInTun
    \/ Later \/ DownloadTunAssets
    \/ OnHevReleaseCheckFinished
    \/ OnHevDownloadFinished

AssetsSpec == AssetsInit /\ [][AssetsNext]_assetsVars
-----------------------------------------------------------------------------
(* Properties.                                                             *)

(* Elsewhere than on Windows, a download that is shown to have ended well  *)
(* has left the program where TUN mode looks for it.                       *)
DownloadInstalls ==
    [][shownDownload /\ ~shownDownload' /\ ~shownFailure' /\ ~windows
        => IsTunAssetsAvailable']_assetsVars

(* Not kept by the code: on Windows an archive that lacks a file is a      *)
(* warning in the log only.                                                *)
DownloadInstallsOnWindows ==
    [][shownDownload /\ ~shownDownload' /\ ~shownFailure' => IsTunAssetsAvailable']_assetsVars

(* Not kept by the code: cleanup() leaves m_downloadInProgress set, so      *)
(* after a failed download "Download" does nothing until the program is     *)
(* started again.                                                          *)
DownloadBusyIsShown == downloadInProgress => shownDownload
=============================================================================
