# Verification of paqetN

paqetN is a desktop front end (C++/Qt) for the `paqet` tunnel. It keeps a list of
server configurations, starts `paqet` as a child process with one of them and,
if asked to, points the desktop's system proxy at a local HTTP proxy in front of
it or sends all traffic through a TUN device that a second child process serves.
This directory holds TLA+ modules for the parts of it whose correctness depends
on the order of events, TLC configurations that check them on small instances,
and proofs of the main invariants that TLAPS checks.

Where a build for one platform differs from another, the models of the controller,
the tunnel and the updates follow Linux (the `#else` branches). The system
proxy, the tunnel's download, the choice of an adapter and the program's end differ most and are
modelled for all platforms: there the platform is a variable nothing changes.

## 1. The system

All C++ sources are in `src/src`. Everything runs in the Qt event loop of the
main thread except where a worker is named.

| Component | State | Operations | Interacts with |
|---|---|---|---|
| `PaqetController` | selected id, connected id, the watcher of the running network detection, many progress flags | connect, restart, disconnect, profile and mode switch, port change, save/delete/import, update and download glue, quit | everything below; called by QML |
| `PaqetRunner` | the `QProcess` of paqet, kill timers | `start`, `stop`, `stopBlocking` | emits `started`, `startFailed`, `stopped` |
| `TunManager` | the `QProcess` of hev-socks5-tunnel, `m_asyncStartInProgress`, server address, original gateway | `start` (route job in a worker, launch, 500 ms timer, second route job), `stop`, `stopBlocking` | emits `stopped`, `runningChanged`; shares routing data with its workers |
| `HttpToSocksProxy` | listener in a thread of its own, one `ClientConnection` per client | `start`, `stop`; per client: CONNECT or plain request, SOCKS5 handshake, relay | calls cross threads with blocking queued calls |
| `SystemProxyManager` | enabled flag, saved desktop settings | `enable`, `disable` | runs `gsettings`, `kwriteconfig` |
| `UpdateManager` | one `m_currentReply`, versions, pending names | release checks, downloads, self-update, cancel | network replies; signals become flags of the controller |
| `TunAssetsManager` | in-progress flag, reply, step | download hev-socks5-tunnel | network replies; its signals become the controller's flags and a prompt |
| `ConfigRepository`, `ConfigListModel`, `PaqetConfig` | `configs.json`, the last selected id in QSettings, a copy of the list for the pages | load, save, add, update, remove, rename group | the controller selects, saves, deletes and imports; `configsChanged` refreshes the list |
| `SettingsRepository` | settings | getters, clamping setters | QSettings |
| `LatencyChecker` | one reply | check | a request through paqet's SOCKS port; started and finished set and reset a flag of the controller |
| `NetworkInfoDetector` | none (stateless worker) | default adapter, adapter by guid, adapter list | system tools, in a worker thread; the controller's monitor compares the lists, the page keeps a copy |
| `CrashHandler`, `ChildProcessJob` | table of child pids | register, unregister, signal handler | runner and TUN |
| `SingleInstanceGuard`, `main` | lock file, local server | lock, raise the first instance | |
| `LogBuffer` | bounded list of lines | append, clear | QML |

### What is hard

* **Continuations.** `disconnectAsync()` connects a slot to the `stopped` signals
  of up to two processes and counts them. Meanwhile the user can disconnect
  again, delete the configuration, change the port or the mode, or quit; a
  `stopped` may be emitted inside a call (`TunManager::stop()` on an idle tunnel).
* **Values captured by slots.** The network detection runs for seconds in a
  worker. Its slot uses the configuration, port and mode of an earlier moment.
* **Timers without owner.** The kill timers of `stop()` and the 500 ms timer of
  the TUN start are never cancelled and act on whatever runs when they fire.
* **Workers.** The route jobs of `TunManager` read and write members that
  `stop()` clears in the main thread.
* **Two sources of one value.** The SOCKS port is stored in every configuration
  and in the settings; parts of the code use the one, parts the other.
* **One slot for many operations.** `UpdateManager` has one reply for checks and
  downloads of two programs.
* **Copies.** The page keeps a copy of the adapters and of the selection, the list one of
  the file; an entry exists as an object, as an address, as the fields of the editor.
* **What outlives the program.** The desktop's proxy settings, the children and a
  route stay behind unless somebody takes them back, in quitting, which waits
  for processes with the slots still connected, and in a crash.

### Properties that make it correct

* Controller: no continuation is orphaned; paqet is not started twice; a slot of
  `started` belongs to the process that started; the connected id is the launched
  one; the system proxy points at the HTTP proxy; what is asked to stop stops;
  a restart reconnects.
* TUN: no tunnel after a cancelled start; routes are removed after the tunnel
  ends; a worker of an old start does not disturb a new one.
* HTTP proxy: what is relayed is what was sent, in order, after a complete
  handshake; every client is answered or closed.
* System proxy, quit and crash: the desktop never points at a proxy that is gone; no
  route is left; what a crash kills are the children that run.
* Adapters: the selection is one of those shown, the page catches up with the system, the
  connection is bound to the best adapter there is.
* Background work: what is shown as going on ends; a download reported as done is installed.
* Forms of an entry: sharing, storing and rewriting it keep its tunnel.
* Updates: the progress flags follow the operation; an answer is taken for the
  program that was checked; updates never lead back to a version that was left.
* Store: the list shows the file, the selection follows its entry, a call leaves
  other entries alone.

## 2. Modules

| Module | Models | Kind |
|---|---|---|
| `ChildProcess` | a `QProcess` with the stop protocol of `PaqetRunner` and `TunManager` | actions of one process, instantiated by its owners |
| `PaqetController` | the controller, composing one `ChildProcess` (paqet), `TunService`, the HTTP proxy and the system proxy | component and composition |
| `TunService` | `TunManager` as the controller sees it | abstract specification |
| `TunManager` | start, stop, workers, routes and timers, on a `ChildProcess` | component, implements `TunService` |
| `ClientConnection` | one client of the HTTP proxy, with the client and paqet's SOCKS server around it | component and environment |
| `UpdateManager` | checks, downloads and version workers with the controller's flags | component and composition |
| `VersionOrder` | `compareVersions()` and the updates it leads to | algorithm |
| `ConfigStore` | `configs.json`, the remembered selection, the list and the selection in memory | component |
| `ConfigForms` | the forms of one entry: object, editor, address, file for paqet | algorithm, with the calls that convert |
| `AdapterChoice` | which adapters are offered, and which one is chosen | algorithm |
| `AdapterWatch` | the controller's monitor, the page's copies and the setting, with the system's adapters around them | component and composition |
| `TunAssets` | the download of the tunnel program, with its prompt | component |
| `LatencyCheck` | the latency test | component |
| `BottomBar` | `TunAssets` beside `LatencyCheck`, as the bar shows them | composition |
| `SystemProxy` | the desktop's settings: `enable()`, `disable()` | component |
| `CrashTable` | the table of child processes | algorithm |
| `Lifetime` | the program from start to end, composing `SystemProxy`, `CrashTable`, the children and the route | composition |
| `PaqetControllerProofs`, `TunManagerProofs`, `ClientConnectionProofs`, `UpdateManagerProofs`, `ConfigStoreProofs`, `ConfigFormsProofs`, `AdapterWatchProofs`, `LifetimeProofs` | theorems | proofs |
| `MC...` | sets, symmetries and small values for TLC | instances |

Operators commented *Mutant* are plausible bugs of the operator behind them.
No specification uses them: put in its place, each makes one of the checked
properties fail, which shows that the property depends on that code.

### PaqetController

One action is one handler of the event loop run to completion, including the
slots its signals call directly. `rstate`, `rsignal` and `rtimers` are the paqet
process (`ChildProcess`); `tstate` ... `tjobs` the tunnel (`TunService`);
`detecting` is the request captured by the slot of the running detection
(`m_connectWatcher`); `starts` are the slots connected to `started` and
`startFailed`; `firing` those of them a `started` signal is still to call: while
there are any, no other event is taken (`LoopFree`). `stops` are the heap
objects `State` of `disconnectAsync()`: how many signals are expected, from
which processes, and whether the callback is `connectToSelected()`.
`launched` is a history variable: what the running process was started with.

Only what the pages can call is enabled: the Restart button, selecting, saving,
importing and deleting a configuration, the port, and the mode.
A signal a process sends, a timer and the result of the detection are separate
actions, so TLC explores every order.

### TunManager and TunService

`TunService` is the interface the controller is composed with: a process, the
in-progress flag (`tasync`), the number of jobs in the air and the signals.
`TunManager` has what happens behind it. `server` and `gateway` are
`m_serverAddress` and whether `m_originalGateway` is known; `jobs` are the workers of
`setupServerRoute()`, each between its two commands or done, and `tunJobs` those of
`setupTunRoutes()`; `routes` and `halves` are the kernel's table: the routes to
servers and the two halves that send everything else into `tun0`; `wanted` is
a history variable: no `stop()` since the last `start()`.
The refinement maps the number of busy workers to the job counter of `TunService`.
A start may come while the previous tunnel or its workers are still there: the
controller allows that. The history variable `calm` says that none has so far;
what only holds then names it. A start counts as overlapping (`Idle`) only if a
process or a worker is left, so a forgotten 500 ms timer does not excuse anything.
Every command that adds a route may fail, and nobody looks at its exit status: the worker goes
on. `refused` is a history variable: the command for the route of the server of this start
has failed, so that the tunnel may take its own server's connection. A command that deletes a
route does delete it, if the route is there.

Abstractions: reads and writes of `m_originalGateway` by the worker are atomic; the
double `delete` of the start context, which the never disconnected
`errorOccurred` slot commits, is taken to go unnoticed.

### ClientConnection

The client and paqet's SOCKS server are the environment. What they send are
tokens: a request line with its host, the end of the headers, data pieces;
the SOCKS greeting, answer and denial. A read takes any number of tokens that
have arrived, so requests and answers are cut and joined in every way at the
borders the parser looks for. `toClient` and `toSocks` are the write buffers of
the sockets, which destroying a socket drops and closing it keeps until they are
flushed. `st` is `m_state`, `tunnel` is `m_tunnelEstablished`, `stage` how far paqet's
server has got. `ending` is the pending
`deleteLater()`, by the `finished` signal or by `stopListen()`.
`atClient`, `atPaqet`, `sent` are what has arrived and what was sent. The stream the client
should see is `Opening`, the answer to a CONNECT, and then `DataUpTo(MaxData)`, the target's data.

### UpdateManager

`reply` is `m_currentReply` and what it was sent for, `paqetN` the flag
`m_checkingPaqetN`; `fetches` are the workers that run `paqet version`, each with the
release it was started for and, once it has read it, the version. `checking`, `checkingPaqet`, `downloading`,
`failed`, `autoMode` are flags of the controller, `installed` the binary on
disk and `known` the version shown. `prompted` is a history variable: the user has
clicked Download in the prompt and got no answer yet.
`crashed` marks that `cancel()` has used a null pointer.
Extraction of the archive is a step that succeeds or not. The Linux build finds
no asset for its own update, so the installation of PaqetN itself is not reached.
That a binary may be found in `PATH` is left out.

### VersionOrder

An identifier is its value, if `toInt()` reads one, and its place in the order of
strings; a version is its list of numbers and its list of pre-release
identifiers. `Older(v, w)` is `compareVersions(v, w) < 0` without its loops: the first
position that differs decides. The assumption on the identifiers is that words do not begin
with a digit: without it the comparison has cycles (section 5). Splitting a
text at dots and hyphens is not modelled. `SemverOlder` is the order of Semantic Versioning,
written from its text and not from the code; `AgreesWithSemver` compares the two on what it
calls a version: three numbers, without leading zeros (`WrittenAlike`).

### ConfigStore

`file` is `configs.json`, `remembered` the value in QSettings (and its copy
`m_lastSelectedId`), `list` what `ConfigListModel` holds, `selected` is `m_selectedConfigId`.
An entry is its id and its group. Every call may fail to save; the program may
quit at any time, and be killed between the commit of the file and the write of
the selection (`KilledAfterSave`). A file that cannot be read is `None`.
`Others` is the loop of `std::remove_if()` in `remove()`, entry by entry, as a recursive
function; the properties use it too.

### ConfigForms

An entry is a record of its fields, each with a value for "missing". `Object` is what a file or
an import may hold, numbers being any integer; `Uri` the parameters of a
`paqet://` address. `WithDefaults`, `FromVariantMap`, `ToVariantMap`, `ToPaqetUri`
and `ParseFromImport` are the functions of `PaqetConfig` without the taking apart of
texts; of that there is what changes a value: blanks trimmed from a key, a flag
divided at its comma. `Tunnel` is what `toYaml()` writes for paqet about the tunnel.
The actions are the calls that convert: import, save by the editor (which
collects some of the fields only), rewriting the file for another entry's sake, and export.

### AdapterChoice and AdapterWatch

An adapter is a number, its place in the list of the system; its link says whether it is up, as
the list has it, and what kind of address it has. A detection (`Detected`) finds a list: adapters, and which
of them have a GUID (`named`). Only PowerShell knows GUIDs; on Windows the adapters it does not name
are appended from Qt's list with an empty one, and elsewhere all are empty (`Guid`). If PowerShell or
`ipconfig` does not end in time, no adapter is acceptable. `Default` and `ByGuid` are the loops of
`getDefaultAdapter()` and `getAdapterByGuid()`, each `Foremost` one of them.
`Gateways` says who gets a gateway: on Windows any may have one, elsewhere the
code gives the default route's to the first active adapter with an address.

In `AdapterWatch`, `net`, the adapters PowerShell names (`known`) and whether the tools end in time
(`answering`) change at any time. `worker` and `found` are the monitor's future, `last` the list behind
`m_lastAdapterGuids`, `shown`, `chosen` and `setting` the page's and the
stored one. `m_cachedAdapters` has no variable: the page asks for it only when it has just been set. A
worker that is done but whose result is not delivered may be replaced by the next tick, as in the code,
and its result is lost. A detection is taken to look at one moment, also the two that
`getAdapterByGuid()` makes when it falls back; the result of one that spans a
change is wrong only until the next tick.

### TunAssets, LatencyCheck and BottomBar

`downloadInProgress`, `step`, `request` and `downloadFile` are members of `TunAssetsManager`;
`shownDownload` and `shownFailure` the controller's flags; `installed` the files
in place. A failure is possible wherever the code has an error path. On Windows each
file may be copied, lost, or kept because it is in use.
`testing` is `m_latencyTesting`, `timers` the two-second timers of `testLatency()`, of
which several may be armed; `recent` says that paqet started less than three seconds ago.
`abandoned` is a history variable: a timer found the selection gone.

### SystemProxy, CrashTable and Lifetime

The desktop's settings are a mode and whose server they name. `Enable` saves
and changes them, `Disable` takes them back, each with what the desktop lets it know:
WinINet or the registry on Windows, the mode alone with GNOME, nothing with KDE. `Target` is what
`disable()` asks for. The exit statuses of `gsettings` and `kwriteconfig5`, and the results of
WinINet's and the registry's calls but for the one `enable_Windows()` tests, are not looked at: each part of the settings may
stay what it was (`Partly`), and `enabled` follows all the same.
`CrashTable` is the array of `CrashHandler`, filled and emptied as the code does.

`Lifetime` has one action per step of `cleanup()` (`stage` is the step that is next), then
the destructors, and `Crash` and `Killed` at any moment. The children are reduced to off, starting
and running, with the registration of their pids; who dies with the program differs by platform
(`Covered`). Of `TunManager` it has the flag (`starting`), the workers of `setupServerRoute()` (`routeJobs`) and the
timers that clear the flag with the workers behind them (`ready`), counted and not told apart: starts overlap freely, an older timer clears
the flag of a newer start, and an older worker launches its tunnel or leaves its route. `SystemProxyOn`
has the two ends of `HttpToSocksProxy::start()`: if the port cannot be listened on the old
listener is gone and the settings stay as they are. The waits of `stopBlocking()` run slots: a paqet that is coming up
while the program quits sets the proxy or starts the tunnel behind the back of `cleanup()`
(`ConnectionComesUp`).

Three history variables say what went wrong before; the properties except just that.

* `spoiled`: the settings are ours, and since they last pointed elsewhere the program died with them, the
  destructor had to take them back, a command of `disable()` failed, the HTTP proxy could not
  listen, or GNOME's mode was already manual when it was saved, whose server nobody saves. It
  clears as soon as the settings point elsewhere, after a crash too.
* `cancelled`: the tunnel's start lost its flag while it was launched, by `stop()`, by a start that
  came to nothing, or by the timer of an earlier start; the tunnel then runs unregistered.
* `astray`: a route may be one nobody takes back: starts overlapped, a start was dropped when its
  worker had set the route, a worker was left when the program ended, or it died with the route.

The ports of two configurations are not told apart here; `PaqetController` does that.

## 3. Runs

| Run | Question | Bounds | Distinct states |
|---|---|---|---|
| `controller` | Without TUN: do ids, ports, start requests and the system proxy match what runs, and does what is asked for happen? | 2 configurations, 2 ports, 1 kill timer, 2 waiting start requests | 381,000 |
| `controller_tun` | Is a continuation orphaned when it waits for two processes? | 1 configuration, 1 port, modes none and tun, 1 kill timer per process, 1 route job | 1,600,000 |
| `tun` | Is `TunManager` what the controller takes it for, does no tunnel outlive a stop, with starts at any moment; and if none overlap, are routes kept track of and do starts end? | 1 server, 2 workers of each kind, 1 timer of each kind | 104,000 |
| `http_relay` | Are both directions relayed in order, after a granted connection, and does everybody get an answer or an end? | 1 request, 2 pieces of data in each direction | 31,000 |
| `updates` | Do shown operations exist and end, and are answers taken for the right program? | 2 releases, 2 version workers | 74,000 |
| `versions` | Do updates never lead back, and are versions ordered as Semantic Versioning orders them? | 3 ways to write the main version and one greater, 2 identifiers out of 2 numbers and 2 words | 3,500 |
| `config_store` | Do list, file and selections agree through failing saves, repeated ids, restarts and kills? | 3 ids (symmetric), 2 groups, 4 entries | 10,000 |
| `forms` | Does an entry mean the same tunnel in all its forms? | one field changed at a time, to values on and next to each bound, in manual mode and out of it | 3,100 |
| `adapters` | Do list, selection and setting agree, does the page catch up, is the best adapter chosen? | 3 adapters, one of them a tunnel, 4 links, Windows and others; on Windows any of them with a GUID | 171,000 |
| `background` | Does what the bar shows end, and does a good download install? | 1 configuration, 2 latency tests, Windows and others | 29,000 |
| `lifetime` | What does the program leave behind, quitting, crashing or killed at any moment and started again, and after which events only? | 4 kinds of desktop on 3 platforms, 2 children, a table of 64, 2 workers and 2 timers of the tunnel | 1,300,000 |
| `upd_cancel` | Is cancelling survived? (No: section 5.) | as `updates` | |

Why the bounds are enough: two configurations for "another than the connected
one", two ports for "another than the stored one". One kill timer is one older
than the process it hits; a further one only kills what is killed already. Two workers
of a kind for "an older worker's result". One server: with two, the properties of `tun` hold
as well (991,000 states, ten minutes), and the proofs about the routes are for any number.
Two pieces of data are enough to see an order and a gap. Two
releases for "an older release", two version workers for results in either order. Three ids and
four entries for one id that occurs twice, with another entry on either side. Three
adapters for one chosen, one to prefer to it and one that is not offered but first in the
list; 1-field changes because no conversion of `ConfigForms` looks at two fields, but for the mode, which is
varied with each. Two latency tests for a timer of one that fires into the reply of the
other. The table has room for 64 processes in the code and there are two. Two workers and two timers of the
tunnel in `lifetime` for one that belongs to an older start. For `adapters` the choice is also proved.

Deadlock is checked in all of them. `upd_cancel` expects a violation: it shows a finding
listed in `PROJECT.json`.

### Fairness

The user, the client and the servers owe nothing unless said here.

* `PaqetController`: the detection ends (each command it runs has a time-out), the
  event loop runs due timers and pending slots, the operating system reports the
  outcome of a launch and the death of a process that got SIGKILL. A process need not
  react to SIGTERM. The liveness of the tunnel is checked in `TunManager`.
* `TunManager`: workers end, because every command they run does; the same holds for
  launches, SIGKILL and timers.
* `ClientConnection`: the event loop handles what has arrived and flushes writable
  sockets; paqet answers or closes.
* `UpdateManager`: a reply ends, at the latest by its transfer timeout, and a worker
  ends, because `waitForFinished()` has a limit.
* `BottomBar`: replies end, at the latest by their transfer timeouts, and timers fire.
* `AdapterWatch`: the timer of the monitor fires and its worker ends, because each tool it runs has a
  time-out. That from some time on the tools answer before it is not fairness: `PageFollowsNet` supposes it. That a finished worker is delivered is strong fairness: the
  next tick may overtake the delivery and replace the result, but a tick comes every five
  seconds and a queued delivery does not lose to it for ever.

All the rest is weak fairness: each of these steps, once possible, stays possible until it is taken.
`ConfigStore`, `ConfigForms`, `VersionOrder` and `Lifetime` have no liveness: the user
owes nothing there.

## 4. Proofs

All theorems hold for all constants that satisfy the named assumptions of
their modules; TLC evaluates the assumptions in the runs.

`PaqetControllerProofs`:

* `TypeCorrect`: the type invariant, one lemma per piece of a handler, then one
  step per action.
* `StopsNotOrphaned`: `NoOrphanStop` is inductive relative to the types. New
  continuations count exactly the processes alive (`DisconnectWaits`); what a
  `stopped` leaves waiting expected two signals before (`StoppedLeaves`), so the
  other process is alive.
* `SystemProxyFollows`: inductive on its own.
* `StartsOnce`, `StartsMatch`, `ConnectionMatches`: for mode sets without TUN.
  None of the three is inductive; `OneStartEach` strengthens them with "a process
  that is starting has a start request", "pending slots belong to the running
  process" and "the tunnel is idle". With TUN the three are false (section 5).

`TunManagerProofs`:

* `TypeCorrect`.
* `StopsStay`: `NoTunnelAfterStop`. It is strengthened with `OnlyWantedStarts`: a start
  that is in progress is a wanted one, so a late worker whose start was
  cancelled launches nothing.
* `Implements`: every step of `TunManager` is a step of `TunService` or a stutter. The
  job counter is the cardinality of the set of busy workers; the lemmas about
  it say that taking or freeing a slot changes it by one.
* `NoRouteIsLost`, `ServerIsSpared`: `RoutesAreTracked` and `TunnelSparesServer`, from `RoutesInv`.
  As long as the starts are calm, at most one worker of `setupServerRoute()` is under way, for
  the remembered server, and no process runs before it is done; when it is done, or the process is there, a
  known gateway means that the server's route is set, or was refused (`CalmRoutes`).

`UpdateManagerProofs`: `TypeCorrect`, and `ProgressEnds` and `AnswersMatch` from one
invariant, strengthened with `ChecksApart`: the controller's flag for a check of paqet
is only set while the flag for any check is, and not while PaqetN is checked.
Of `VersionOrder` the same module has two theorems about `OrderSpec`, for any set `Releases`:

* `NeverBack`: identifiers are ordered (`IdentifierOrder`), so are lists
  of equal length (`ListOrder`, from where two lists first differ) and pre-releases of any length
  (`PreReleaseOrder`); so the installed version is the first one or newer.
* `OrderIsSemver`: `AgreesWithSemver`. Where numbers are written in one way, neither identifier comes
  first only if they are the same (`IdentifiersAgree`); so "alike so far" is "the same
  beginning" (`SameBeginning`), and the first difference decides in both orders (`ListsAgree`).

`ClientConnectionProofs`: `TypeCorrect`, `GrantComesFirst`, `UpstreamOrder` and `ClientOrder`. The
inductive invariant `Relayed` says what of a request is read (`RequestRead`) and parsed
(`RequestParsed`) and which tokens of the handshake are written at which state
(`HandshakeKept`); `GrantedFirst` follows. `UpstreamInOrder` needs `OrderKept` in addition: what
the proxy still holds of the client's stream continues, without a gap, what it has written.
The other direction needs `AnswersFit` and `StreamKept`, inductive with `Relayed`. `AnswersFit`: what
paqet has said and nobody has handled (`Left`) is what the state of the handshake waits for, however
it is cut, and behind a granted reply it is all the data so far. `StreamKept`: with the tunnel up and the
client there, nothing waits in the buffer and what the client has got or will get (`Answers`), with
what paqet has said, is `Opening` and the data so far; without a tunnel the
client has got errors only, and once it is not open any more what it got is a beginning of the
stream with errors behind it. That a client that got a 502 before the tunnel was up can see
no success behind it, although the other socket may still deliver, is the last
conjunct of `AnswersFit`: then paqet's side has failed or refused.
The lemmas are about concatenations and the pieces a read takes off a sequence.

`ConfigStoreProofs`, for files of any length with any ids, repeated or not: `TypeCorrect`, `ListIsFile` and
`SelectionsAgree` from `Agree`, which is these three together; `SelectionNeverDangles` and
`OthersAreKept` because every step from a state of `Agree` keeps both (`EveryStep`).
What `Others` is for every sequence needs induction over its length, and the library's induction
theorems cannot be used; `NumberInduction` and `SequenceInduction` say the same of a *set* of numbers or
sequences that holds the first one and with each the next, from the well-foundedness of the
numbers. `OthersIs` opens the recursive function (there is exactly one
function with those equations: `KeptExists`, `KeptIsUnique`); `OthersOfAppended` then is the
step of all inductions: of `OthersProperties`, and of `SimilarHaveTheSameOthers`,
which says that a change of one id's entries in their places leaves the others as they are.

`ConfigFormsProofs`: `AddressCarriesTunnel` and `RewritingIsHarmless`, for every
integer. Both rest on one fact: what is read is settled, that is, `WithDefaults`
leaves it as it is; and on settled configurations what one form leaves out is what the other fills in.

`AdapterWatchProofs`: `TypeCorrect`, and `SelectionShown`, which is inductive with the types. `ChoiceGood` is about the
operators alone, for any list a detection finds: `Foremost` of a set is in it, because the numbers are well-founded, and each case
of `Default` gives what `GoodChoice` asks for (`ByGuidIsGood`).

`LifetimeProofs`: `DesktopServed` from `ProxyInv`: what changed the settings fits the desktop,
settings that are ours are known to be or spoiled, what `disable()` asks for leads elsewhere or they are spoiled (`Known`),
they are only ours with a listener behind them, and when it closes as the program quits they
have been taken back. `RouteRemoved` from
`RouteInv`: a route has a tunnel that is not yet cleaned up, or a reason (`astray`). `TableCorrect` from `TableInv`: the
table has no process twice, so removing one by moving the last into its place removes
just that one; for every size of the table. `TypeCorrect` takes the desktop's types from `ProxyInv` and
the table's from `TableInv`: that it never holds more than its size needs that no process is in it twice (`TableFits`).

`TunManagerProofs` also has `DownloadsInstall`, about `AssetsSpec` of `TunAssets`, the half of
`BottomBar` that downloads the program which `TunManager` starts: case by case, a step that takes
back the shown download without showing a failure is the one that installed the program.
`AssetsTypeCorrect` says that its flags and steps keep their types.

Only model-checked is liveness: `PaqetStops`, `EveryStartAnswered`, `RestartReconnects`, `StartEnds`,
`TunnelStops`, `EveryClientAnswered`, `EveryConnectionEnds`, `OperationsEnd`, `PageFollowsNet` and
`ShownActivityEnds`. They rest on fairness, which the prover cannot treat. Of the safety
properties, `StartsOnce`, `StartsMatch` and `ConnectionMatches` are proved for modes
without TUN only, as they are false with it; the routes as long as starts do not overlap.

## 5. Deviations

Where the code does not do what a comment, a page or a document of the
repository says. The definitions stand at the end of their modules; TLC finds a
counterexample to each.

| Definition | What the code does |
|---|---|
| `NoDoubleStart` with TUN | A callback of `disconnectAsync()` waiting for the tunnel runs while a new paqet is up and detects for a second start, because the counter takes a `stopped` of either process (`PaqetController.cpp:559`); `PaqetRunner::start()` over a live process stops it. The comment at line 383 says that a double start is avoided. |
| `GracefulShutdown` | The kill timer of `stop()` is not bound to its process: paqet restarted within two seconds is killed without SIGTERM. |
| `HttpForwardsToPaqet` | `setProxyMode()` forwards to the port stored in the entry, paqet listens on that of the settings. |
| `RunningIsSelected` | A configuration switched or deleted while its detection runs is connected all the same. |
| `HttpPortFollowsSocksPort` | `quint16` wraps: SOCKS port 65535 gives HTTP port 0. |
| `TunOnlyInTunMode` | Leaving TUN mode while the server-route worker runs stops nothing; the tunnel comes up in the new mode. |
| `SystemProxyOnlyInSystemMode` | The slot of `started` applies the mode captured earlier, whatever was chosen since. |
| `LaunchAfterRoute` (`TunManager`) | The worker of a cancelled start launches the next start's process before that one's server route is set. |
| `ServerAlwaysSpared` (`TunManager`) | The exit status of the command that adds the server's route is not looked at (`TunManager.cpp:440`). With a host name (`docs/ARCHITECTURE.md:302`; the editor's hint is "host:port", `ConfigEditorDialog.qml:178`) it fails, and the halves take the connection to the server into the tunnel. The comment at line 409 says "so it doesn't go through TUN". |
| `StartEnds` with overlapping starts | A route that is ready while the old tunnel is still dying drops the start, its flag left set. |
| `TunnelOnlyForwards` | When the target closes, a 502 is written behind its data: `onSocksError()` also runs for a remote close. The comment at `HttpToSocksProxy.cpp:56` says "just forward data". |
| `OnlyFailuresAreErrors` | A request body in a second segment before the tunnel is up makes a second `connectToHost()`, whose error is answered with 502. |
| `RequestsReachTheirHost` | A second request on a kept-alive connection goes to the first host. |
| `AllDeliveredBeforeEnd` | What the client's socket has not flushed is dropped when the target closes. |
| `CancelSurvives` (run `upd_cancel`) | `abort()` runs the slot that clears `m_currentReply`; `cancel()` then uses it. |
| `ProgressIsShown` | The failure of a refused check resets the flags of the one under way. |
| `PromptIsAnswered` | Download clicked in the prompt does nothing if automatic downloads are off or another check resets the mode. |
| `KnownIsInstalled` | A binary that is found under its final name is removed, and reported as installed; a worker that read the version before a download reports it afterwards. |
| `NoWayBack` without the assumption on identifiers | `9 < 10` as numbers, `"10" < "1a" < "9"` as strings: a cycle of pre-releases. |
| `PageFollowsAdapters` (`AdapterWatch`) | Lists are compared by their GUIDs (`PaqetController.cpp:1038`). On Windows an adapter that PowerShell does not name has an empty one (`NetworkInfoDetector.cpp:514`): that it took the place of another such adapter is not noticed. Elsewhere all are empty: only the number of adapters is noticed, and none can be selected. |
| `EmptyFlagsAreKept` (`ConfigForms`) | Comments in `PaqetConfig.cpp:214` and `ConfigRepository.cpp:89` say that an empty list of flags is preserved; `withDefaults()` has filled it before it gets there. |
| `EditorKeepsTheRest` | The editor does not collect the parameters of manual mode and the port: saving an entry unchanged resets them. |
| `DownloadBusyIsShown` (`TunAssets`) | `cleanup()` leaves `m_downloadInProgress` set: after some failures Download does nothing, and says nothing, until the program is restarted. |
| `DownloadInstallsOnWindows` | A file that is missing in the archive is a warning in the log; the download counts as finished. |
| `TestingEnds` (`BottomBar`) | If nothing is selected any more when the two seconds are over, nothing resets `m_latencyTesting`. |
| `OriginalRestored` (`Lifetime`) | `disable()` says "Restoring original proxy settings": GNOME gets back its mode but not the server, KDE no proxy at all, and after a crash the original is our own proxy. |
| `EnabledIsSet` | Commands and calls are not asked whether they worked: without `kwriteconfig5` nothing is set and `enable()` succeeds; `disable()` may leave the settings as they are (`SystemProxyManager.cpp:268`, 379 to 386). |
| `EnabledIsServed` | If the HTTP proxy cannot listen on its new port the old listener is gone (`HttpToSocksProxy.cpp:429`) and the settings stay on its port (`PaqetController.cpp:492`). |
| `TunnelIsRegistered` | A 500 ms timer of an earlier start clears the flag of one whose process is being launched (`TunManager.cpp:316`); that process is then not registered (line 260), and a crash leaves it. |
| `QuitLeavesNoRoute` | `cleanup()` stops a `TunManager` only if its process runs (`PaqetController.cpp:211`): the route of a worker whose start was dropped stays. |
| `CrashLeavesNoChild` | A process that is just being launched is neither in the table nor in the job; on macOS a killed program leaves all. |
| `IdsAreUnique` (`ConfigStore`) | `docs/ARCHITECTURE.md:300` calls the id a unique uuid; an import keeps the id it carries. |

Further ones are not stated: `add()` over an unreadable `configs.json` replaces it;
`docs/ARCHITECTURE.md` shows the file as an object while `load()` only takes an array;
`README.md:30` names YAML among the formats of an import, `parseFromImport()` reads addresses and JSON only;
the loop at `NetworkInfoDetector.cpp:262` ends an entry at the first brace, which is that of its GUID, so
that a `Status` behind it counts for the next adapter; a detection that timed out empties the page's list
and so resets the stored selection (`Main.qml:195`); and `NetworkInfoDetector.cpp:665` gives the gateway to the first active adapter, which may be a
tunnel or another card than the one the default route goes through.

## 6. Not modelled

* The server side of the HTTP proxy: the blocking calls between the listener's thread and the main thread.
* What is taken apart or put together character by character: the output of system tools
  (`NetworkInfoDetector`), addresses and JSON beyond what `ConfigForms` says, the YAML files, HTTP headers.
* Platform I/O: the report of a crash, unpacking of archives (a step that succeeds or
  not), the start as administrator but for the lock it waits for.
* The update of PaqetN itself, which is Windows only, and the Windows branches of the routes.
* `LogBuffer`: display only. Workers append to it beside the main thread without a lock, which is
  undefined; the outcomes cannot be enumerated.
* `TunAssetsManager.cpp:267` to 355 (wintun): no path leads there.
* The layout of the pages; settings that are only passed through.

## 7. Plan

Done: controller, TUN and its routes, HTTP relay, updates, version order, store and forms
of an entry, adapters and monitor, the tunnel's download, latency test, system proxy, quit and
crash; proofs for the safety properties the runs check.

Left:

1. The server side of the HTTP proxy: `start()` and `stop()` call into the other thread
   and wait.
2. Theorems about `LatencyCheck`, whose types are only declared, and about `BottomBar` as a
   whole instead of its half `AssetsSpec`.
3. `PaqetController` with TUN and two configurations, for which TLC needs longer than the
   five minutes the other runs stay under.
4. The update of PaqetN itself on Windows: the script that replaces the program while it runs.
