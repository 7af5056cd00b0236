---------------------------- MODULE UpdateManager ----------------------------
(***************************************************************************)
(* UpdateManager, which looks for releases and downloads the paqet binary, *)
(* together with the flags PaqetController derives from its signals and    *)
(* the calls the pages make.  One network reply, m_currentReply, serves    *)
(* all operations; a check for paqet goes on after its reply, in a worker  *)
(* that asks the installed binary for its version.                         *)
(*                                                                         *)
(* A version is a number, 0 stands for "Unknown" or no binary.  In the     *)
(* Linux build no release of PaqetN itself is ever compatible, so it is    *)
(* checked for, but never downloaded.                                      *)
(***************************************************************************)
EXTENDS Integers

CONSTANTS
    MaxVersion,  \* bound: versions of paqet that are released
    MaxFetches,  \* bound: version workers at a time
    None         \* no reply, no worker

ASSUME BoundsAssumption == MaxVersion \in Nat \ {0} /\ MaxFetches \in Nat \ {0}
ASSUME NoneAssumption ==
    /\ None \notin {"check", "checkN", "download"}
    /\ None \notin [latest : 1..MaxVersion, read : BOOLEAN, seen : 0..MaxVersion]

VARIABLES
    reply,       \* m_currentReply: what it was sent for, or None
    paqetN,      \* m_checkingPaqetN
    version,     \* m_downloadingVersion
    fetches,     \* version workers: the release found, what they have read
    known,       \* m_installedPaqetVersion
    installed,   \* the binary on disk
    crashed,     \* the program has crashed
    checking,    \* m_updateCheckInProgress
    checkingPaqet,   \* m_paqetUpdateCheckInProgress
    downloading, \* m_paqetDownloadInProgress
    failed,      \* m_downloadFailed
    autoMode,    \* m_autoDownloadMode
    setting,     \* SettingsRepository::autoDownloadPaqet()
    offered,     \* the version the page offers for download
    prompted     \* history: "Download" was clicked in the prompt, nothing came of it yet

managerVars == <<reply, paqetN, version, fetches, known, installed, crashed>>
flagVars == <<checking, checkingPaqet, downloading, failed>>
vars == <<managerVars, flagVars, autoMode, setting, offered, prompted>>

Versions == 1..MaxVersion
Slots == 1..MaxFetches
Fetch == [latest : Versions, read : BOOLEAN, seen : 0..MaxVersion]

TypeOK ==
    /\ reply \in {None, "check", "checkN", "download"}
    /\ paqetN \in BOOLEAN
    /\ version \in 0..MaxVersion
    /\ fetches \in [Slots -> Fetch \cup {None}]
    /\ known \in 0..MaxVersion /\ installed \in 0..MaxVersion
    /\ crashed \in BOOLEAN
    /\ checking \in BOOLEAN /\ checkingPaqet \in BOOLEAN
    /\ downloading \in BOOLEAN /\ failed \in BOOLEAN
    /\ autoMode \in BOOLEAN /\ setting \in BOOLEAN /\ prompted \in BOOLEAN
    /\ offered \in 0..MaxVersion

Init ==
    /\ reply = None
    /\ paqetN = FALSE
    /\ version = 0
    /\ fetches = [i \in Slots |-> None]
    /\ known = 0
    /\ installed \in 0..MaxVersion
    /\ crashed = FALSE
    /\ checking = FALSE /\ checkingPaqet = FALSE /\ downloading = FALSE /\ failed = FALSE
    /\ autoMode = FALSE
    /\ setting \in BOOLEAN
    /\ offered = 0
    /\ prompted = FALSE

-----------------------------------------------------------------------------
(* What a signal of UpdateManager does to the flags.                       *)

CheckFailed ==
    checking' = FALSE /\ checkingPaqet' = FALSE /\ failed' = TRUE /\ UNCHANGED downloading
CheckNFailed == checking' = FALSE /\ UNCHANGED <<checkingPaqet, failed, downloading>>
DownloadFailed ==
    downloading' = FALSE /\ failed' = TRUE /\ UNCHANGED <<checking, checkingPaqet>>

(* The prompt has been answered: by a download, a reported failure or a    *)
(* binary that is there.                                                   *)
Answers == prompted' = (prompted /\ ~downloading' /\ ~failed' /\ installed' = 0)

-----------------------------------------------------------------------------
(* Operations of UpdateManager.                                            *)

(* Mutant: what was checked before is not forgotten.                       *)
StartCheckKeepingKind ==
    IF reply # None
    THEN CheckFailed /\ UNCHANGED <<reply, paqetN>>
    ELSE /\ reply' = "check"
         /\ UNCHANGED paqetN
         /\ checking' = TRUE /\ checkingPaqet' = TRUE /\ failed' = FALSE
         /\ UNCHANGED downloading

(* checkPaqetUpdate()                                                      *)
StartCheck ==
    IF reply # None
    THEN CheckFailed /\ UNCHANGED <<reply, paqetN>>
    ELSE /\ reply' = "check"
         /\ paqetN' = FALSE
         /\ checking' = TRUE /\ checkingPaqet' = TRUE /\ failed' = FALSE
         /\ UNCHANGED downloading

(* downloadPaqet(): the temporary file may not be created.                 *)
StartDownload(v) ==
    \/ /\ reply # None
       /\ downloading' = FALSE /\ failed' = TRUE
       /\ UNCHANGED <<reply, version>>
    \/ /\ reply = None
       /\ reply' = "download" /\ version' = v
       /\ downloading' = TRUE /\ failed' = FALSE
    \/ /\ reply = None
       /\ version' = 0
       /\ downloading' = FALSE /\ failed' = TRUE
       /\ UNCHANGED reply

-----------------------------------------------------------------------------
(* Calls of the pages.                                                     *)

(* The updates page checks when it is opened, even while another operation *)
(* runs, or by its button; what it offered before is withdrawn.            *)
CheckPaqetUpdate ==
    /\ autoMode' = FALSE
    /\ StartCheck
    /\ offered' = 0
    /\ UNCHANGED <<version, fetches, known, installed, crashed, setting>>
    /\ Answers

CheckPaqetNUpdate ==
    /\ ~checking
    /\ IF reply # None
       THEN CheckNFailed /\ UNCHANGED <<reply, paqetN>>
       ELSE /\ reply' = "checkN"
            /\ paqetN' = TRUE
            /\ checking' = TRUE
            /\ UNCHANGED <<checkingPaqet, downloading, failed>>
    /\ UNCHANGED <<version, fetches, known, installed, crashed, autoMode, setting, offered,
                   prompted>>

(* The prompt for a missing binary was answered with "Download".           *)
AutoDownloadPaqetIfMissing ==
    /\ installed = 0
    /\ autoMode' = TRUE
    /\ StartCheck
    /\ prompted' = (reply' = "check" /\ ~failed')
    /\ UNCHANGED <<version, fetches, known, installed, crashed, setting, offered>>

DownloadPaqet ==
    /\ offered # 0 /\ ~downloading
    /\ StartDownload(offered)
    /\ UNCHANGED <<paqetN, fetches, known, installed, crashed, checking, checkingPaqet,
                   autoMode, setting, offered>>
    /\ Answers

SetAutoDownloadPaqet ==
    /\ setting' = ~setting
    /\ UNCHANGED <<managerVars, flagVars, autoMode, offered, prompted>>

(* The notice of a failure was closed.                                     *)
ClearDownloadFailed ==
    /\ failed
    /\ failed' = FALSE
    /\ UNCHANGED <<managerVars, checking, checkingPaqet, downloading, autoMode, setting, offered,
                   prompted>>

-----------------------------------------------------------------------------
(* Replies and workers.                                                    *)

(* Mutant: the flags are left when a check fails.                          *)
ReleaseCheckFailsQuietly ==
    /\ reply \in {"check", "checkN"}
    /\ reply' = None
    /\ UNCHANGED <<flagVars, paqetN, version, fetches, known, installed, crashed, autoMode,
                   setting, offered, prompted>>

(* onReleaseCheckFinished(): a network error, an unusable answer or no     *)
(* release for this platform.                                              *)
ReleaseCheckFails ==
    /\ reply \in {"check", "checkN"}
    /\ reply' = None
    /\ IF paqetN THEN CheckNFailed ELSE CheckFailed
    /\ UNCHANGED <<paqetN, version, fetches, known, installed, crashed, autoMode, setting,
                   offered>>
    /\ Answers

(* A release was found: a worker asks for the installed version.           *)
ReleaseFound(v) ==
    /\ reply \in {"check", "checkN"} /\ ~paqetN
    /\ reply' = None
    /\ \E i \in Slots :
          /\ fetches[i] = None
          /\ fetches' = [fetches EXCEPT ![i] = [latest |-> v, read |-> FALSE, seen |-> 0]]
    /\ UNCHANGED <<paqetN, version, known, installed, crashed, flagVars, autoMode, setting,
                   offered, prompted>>

(* The worker runs the binary, which may also fail to answer in time.      *)
FetchReads(i, answers) ==
    /\ fetches[i] # None /\ ~fetches[i].read
    /\ fetches' = [fetches EXCEPT ![i] = [latest |-> @.latest, read |-> TRUE,
                                          seen |-> IF answers THEN installed ELSE 0]]
    /\ UNCHANGED <<reply, paqetN, version, known, installed, crashed, flagVars, autoMode,
                   setting, offered, prompted>>

(* Its result: onPaqetUpdateCheckFinished(), which may begin the download. *)
FetchDone(i) ==
    /\ fetches[i] # None /\ fetches[i].read
    /\ LET latest == fetches[i].latest
           available == fetches[i].seen < latest
       IN  /\ offered' = IF available THEN latest ELSE offered
           /\ IF available /\ autoMode /\ setting /\ installed = 0
              THEN StartDownload(latest)
              ELSE UNCHANGED <<reply, version, downloading, failed>>
    /\ known' = fetches[i].seen
    /\ fetches' = [fetches EXCEPT ![i] = None]
    /\ checking' = FALSE /\ checkingPaqet' = FALSE
    /\ autoMode' = FALSE
    /\ UNCHANGED <<paqetN, installed, crashed, setting>>
    /\ Answers

(* onDownloadFinished(): an error, a short or a broken archive.            *)
DownloadFails ==
    /\ reply = "download"
    /\ reply' = None /\ version' = 0
    /\ DownloadFailed
    /\ UNCHANGED <<paqetN, fetches, known, installed, crashed, autoMode, setting, offered>>
    /\ Answers

(* Mutant: the flag is only reset when the binary is in its place.         *)
DownloadDoneIfKept(kept) ==
    /\ reply = "download"
    /\ reply' = None /\ version' = 0
    /\ installed' = IF kept THEN version ELSE 0
    /\ known' = version
    /\ downloading' = ~kept
    /\ offered' = 0
    /\ UNCHANGED <<paqetN, fetches, crashed, checking, checkingPaqet, failed, autoMode, setting>>
    /\ Answers

(* The archive was extracted.  The binary is looked for in the directory   *)
(* the archive was extracted to, where an old one lies, and renamed after  *)
(* the old one was removed: a file named for the platform takes its place. *)
(* If it is named "paqet" already, or the archive holds none, the file     *)
(* found is the one that is removed.  Either is only logged.               *)
DownloadDone(kept) ==
    /\ reply = "download"
    /\ reply' = None /\ version' = 0
    /\ installed' = IF kept THEN version ELSE 0
    /\ known' = version
    /\ downloading' = FALSE
    /\ offered' = 0
    /\ UNCHANGED <<paqetN, fetches, crashed, checking, checkingPaqet, failed, autoMode, setting>>
    /\ Answers

(* cancel(), from the page while a download is shown: abort() emits        *)
(* finished, whose slot clears m_currentReply; the next statement calls    *)
(* deleteLater() on it, which need not return.                             *)
CancelUpdate ==
    /\ downloading
    /\ IF reply = None
       THEN UNCHANGED <<reply, flagVars, crashed>>
       ELSE /\ reply' = None
            /\ IF reply = "download" THEN DownloadFailed
               ELSE IF paqetN THEN CheckNFailed ELSE CheckFailed
            /\ crashed' \in BOOLEAN
    /\ version' = 0
    /\ UNCHANGED <<paqetN, fetches, known, installed, autoMode, setting, offered>>
    /\ Answers

-----------------------------------------------------------------------------
Replies ==
    \/ ReleaseCheckFails
    \/ \E v \in Versions : ReleaseFound(v)
    \/ DownloadFails
    \/ \E kept \in BOOLEAN : DownloadDone(kept)

Workers(i) == (\E answers \in BOOLEAN : FetchReads(i, answers)) \/ FetchDone(i)

Next ==
    \/ /\ ~crashed
       /\ \/ CheckPaqetUpdate
          \/ CheckPaqetNUpdate
          \/ AutoDownloadPaqetIfMissing
          \/ DownloadPaqet
          \/ SetAutoDownloadPaqet
          \/ ClearDownloadFailed
          \/ CancelUpdate
          \/ Replies
          \/ \E i \in Slots : Workers(i)
    \/ crashed /\ UNCHANGED vars

Spec == Init /\ [][Next]_vars

(* Every reply ends, at the latest by its transfer timeout, and so does    *)
(* every worker.                                                           *)
Fairness ==
    /\ WF_vars(~crashed /\ Replies)
    /\ \A i \in Slots : WF_vars(~crashed /\ Workers(i))

FairSpec == Spec /\ Fairness

-----------------------------------------------------------------------------
(* Properties.                                                             *)

(* A version worker is at work.                                            *)
Fetching == \E i \in Slots : fetches[i] # None

(* Progress is only shown for an operation that is under way, so none is   *)
(* shown for ever, however operations overlap.                             *)
NoEndlessProgress ==
    /\ checkingPaqet => reply = "check" \/ Fetching
    /\ checking => reply \in {"check", "checkN"} \/ Fetching
    /\ downloading => reply = "download"

(* The answer of a check is taken for the program that was checked.        *)
AnswersAreForTheChecked == (reply = "check" => ~paqetN) /\ (reply = "checkN" => paqetN)

(* Every check and every download that is shown comes to an end, in a      *)
(* failure of its reply or in the worker that reads the version at last.   *)
OperationsEnd ==
    /\ checking ~> (~checking \/ crashed)
    /\ downloading ~> (~downloading \/ crashed)

(* What the documentation, the comments and the page say, and the code     *)
(* does not do: TLC finds a counterexample to each of these.               *)

(* Cancelling is survived.                                                 *)
CancelSurvives == ~crashed

(* While a check for paqet is under way the page shows it.                 *)
ProgressIsShown == reply = "check" => checkingPaqet

(* Who clicks "Download" in the prompt gets a download, a reported failure *)
(* or finds the binary there, at the latest when the check is over.        *)
PromptIsAnswered == prompted => reply = "check" \/ Fetching

(* The version shown as installed is the version of the binary on disk.    *)
KnownIsInstalled == known # 0 => known = installed
=============================================================================
