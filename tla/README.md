# Verification of the AVAA antivirus service

TLA+ specifications of the Windows service in `src/src/service.cpp` and of the
tray application that uses it, the configurations that model-check them with TLC,
and proofs checked by TLAPS. The repository builds three programs: the service
(AVAAService), the tray application (AVAA: `main.cpp`, `rpc_client.cpp`) that talks
to it over local RPC, and a mock license server. Nearly all shared state and all
concurrency live in the service; the application keeps a copy of a part of it that
it renews every second, and the HTTP server decides on sessions and licenses.

## 1. Inventory

| component | state it keeps | operations |
|---|---|---|
| signature database storage | `AVAA_avdb.bin`, `AVAA_avdb.bak`, `g_av_database` (under `g_av_lock`; nothing protects the files) | load with recovery, update with backup and rollback, default database, lazy load from `EnsureAvReady` |
| scanning engine | the automaton in `g_av_database`, one node index per scan | `BuildAhoCorasickAutomaton`, `ScanBytes` |
| file and directory scan | counters and report of one walk | `ScanSingleFile`, `ScanDirectoryRecursive`, `ScanPathDirectory`, `ScanAllFixedDrivesInternal` |
| scheduled scanning | `g_schedule` (under `g_schedule_lock`) | `ScheduleThreadProc`, `ConfigureScheduleScan`, `GetScheduledScanResult` |
| directory monitoring | `g_monitor_path`, `g_monitor_last_result` (same lock) | `MonitorThreadProc`, `ConfigureDirectoryMonitoring`, `GetDirectoryMonitoringResult` |
| session and license | `g_auth` (under `g_auth_lock`) | `Login`, `Logout`, `GetLicenseStatus`, `ActivateProduct`, `RefreshThreadProc` |
| service lifecycle, tray launch | `g_status`, two events, four worker threads, `g_tray_processes` (under `g_process_lock`) | `ServiceMain`, `ServiceControlHandlerEx`, `StopService` |
| codecs | none (pure) | `JsonEscape`, `ExtractJsonString`, `ExtractJsonLong`, `SerializeAvDatabase`, `DelayFromSeconds` |
| tray application | `g_authenticated`, `g_has_license`, the login and the database on display | `RefreshApplicationState`, every second and after some buttons; login, logout, activation, scans, schedule, monitor, exit |
| RPC client | the binding `hAVAA_ControlBinding`, kept between calls | `EnsureBinding`, `DropBinding` in the exception handler of every call |
| mock license server | one account, in memory | login, refresh, status, activate |
| HTTP client, process protection | none between calls | I/O |

They interact as follows. RPC calls arrive on threads of the RPC runtime and
share everything above. A scan, wherever it comes from, first asks
`EnsureAvReady`: a license in `g_auth`, then a loaded database. A license
obtained by the session code loads the database too. The update thread replaces
file and automaton every minute, at any point of a scan. `StopService` and the
monitor's own event end the threads; `ServiceMain` waits three seconds for each
and then frees what they use. The window of the application has one thread, which
waits for each call to return; its refresh is up to five calls (the user, the
license, the database and two reports), between which other clients, the refresh
thread or the end of the service may come.

What is hard is nearly always the same pattern: a lock is taken, something is
copied, the lock is released, something slow happens (an HTTP request, a file
operation, one byte of a scan, a walk over a disk), and the lock is taken again
to write a result that may be out of date. Besides that: crashes between file
operations, failing I/O, timed waits, a wait without timeout, and two threads
that launch processes. `PROJECT.json` lists each such place with its line under
`hazards`, and the properties aimed at it.

What makes each component correct:

- storage: a load always ends with a database in memory; one good copy survives
  a kill; what is in memory after an update is what a restart would load;
- engine: what it reports is there, and what is in every release is found,
  even when the database is replaced during the scan;
- scan, schedule, monitor: a report belongs to the path it is shown for and is exact
  for every file that did not escape the walk; due scans start, not more often than asked; a change
  leads to a scan; the threads stop;
- session: one account's data, complete, with a deadline for every token and
  license in force; lost licenses are noticed; to a client, it begins and ends
  without a license;
- codecs: what is extracted from a reply is what the server said, in whatever
  order it writes the members; deadlines lie before the end of the lives;
- tray application: it acts for the account it shows, catches up with the session,
  and takes input again whatever becomes of the service;
- lifecycle: the stop completes, every session is served, no application is
  left behind, no waiting thread is left with closed handles.

## 2. Modules

| module | models | built on |
|---|---|---|
| `DbContract` | the promise of the database to those who ask for it (abstract specification) | |
| `AvStorage` | files, memory and the steps of load, recovery and update; `Contract` is the refinement mapping | `DbContract` (INSTANCE) |
| `SignatureScan` | automaton construction and `ScanBytes` | |
| `DirectoryScan` | one scan of a path, as operators on a record | |
| `ScanSchedule`, `DirectoryMonitor` | the two threads that scan, composed with `DirectoryScan`, the file system, the license and the clients | `DirectoryScan` (EXTENDS) |
| `LicenseSession` | who is logged in, and whose token and license are in force, as an RPC client meets them (abstract specification) | |
| `AuthSession` | `g_auth` and everything that writes it; `Session` is the refinement mapping | `LicenseSession` (INSTANCE) |
| `JsonCodec` | `ExtractJsonString`, `ExtractJsonLong`, `DelayFromSeconds` | |
| `WireSession` | the session composed with the server's replies as texts | `AuthSession`, `JsonCodec` (EXTENDS) |
| `TrayApplication` | windows, their RPC bindings and calls, composed with the session and with end and restart of the service | `LicenseSession` (EXTENDS) |
| `ServiceLifecycle` | start, stop, calls in progress, launch of tray applications | |
| `MC*` | values of the constants for TLC | the module of that name |
| `DirectoryScanProofs` | lemmas on one walk | `DirectoryScan` |
| `AvStorageProofs`, `SignatureScanProofs`, `ScanScheduleProofs`, `DirectoryMonitorProofs`, `TrayApplicationProofs`, `ServiceLifecycleProofs` | theorems and proofs | the module of that name |
| `AuthSessionProofs` | theorems and proofs about the session, alone and on the wire | `WireSession` |

The session appears at three levels. `AuthSession` has every field and every
critical section, and lets the server answer or fail. `WireSession` adds what is on
the wire and implements it. `LicenseSession` keeps the account of the login, that of
the access token, that of the license, and whether a session began or ended
while a request was in flight. `AuthSession` implements it, and `TrayApplication`
relies on it alone: what is shown about the window holds for any service that keeps
that promise. The promise is weak on purpose: after an overlap token and license may
be anybody's.

Definitions called `X_Suffix`, with a comment that begins "Mutant", are
deliberately wrong variants of `X`. No specification uses them; each of them put
in place of `X` breaks the property it was written for, which shows that the
property depends on the code.

### AvStorage

`bin`, `bak`: content of the two files (`absent`, `cut`: unreadable or
truncated, `forged`: parses but has a wrong manifest signature, or a release).
`memory`: the release in `g_av_database`. `job[t]`: where thread `t` is; `stage`
says which of the nested calls (load, backup, download, rollback, restore,
default) the file operation belongs to. `LoadFailed`, `Loaded`, `Written`,
`Copied` and `UpdateFailed` say what follows each outcome, in the order of the
code's calls and returns. `OpenFile`/`FlushFile` are the two halves of
`WriteAllBytes` (truncate, then bytes that reach the disk when the stream is
closed), `CopyBegin`/`CopyEnd` those of `CopyFileW`. Records whose own signature
is wrong are skipped by the loader; that filtering is abstracted to the release.
`Crash` is the end of the process (a kill or a stop) at any point followed by a
start; the loss of written data in a power failure is not modelled.

### LicenseSession, AuthSession

Tokens, logins and tickets are abstracted to the account they belong to,
deadlines to off, later and due. The flag `hasLicense` is abstracted the same way:
to the account whose license was answered or activated, `Nobody` where the flag is
FALSE. An operation that asks the server is three
steps (copy the token, the server's answer, the write). Login reads nothing of
`g_auth` beforehand and is one step. `Answer` is the server's side: an activation
may take effect although its answer lacks the ticket or is lost. `overlap` is a
history variable: a session began or ended while another thread was between copy
and write.

### JsonCodec, WireSession

The service does not parse JSON but searches it: from the quoted key to the next
colon, from there to the next quoted text or to a number. A text is the sequence
of tokens at which these searches stop (quoted texts, colons, numbers); escapes
inside a quoted text are not modelled. `Receive` takes the place of every answer
of `AuthSession` but the failed ones: the server picks an object as
`mock_license_server.cpp` writes it, with its members in any of the given orders
(`Arrangements`) and with or without the ticket, and the service goes on with what
it extracts. The lives of access tokens are a constant too (`Lives`). `reply`
holds the object until the operation returns. `WireImplementsSession` says that the
result is a behaviour of `AuthSession`: no license is read that was not granted,
none is missed.

### TrayApplication

`window[c]` is the place of the window's thread with the locals of the calls
(`asked`, `ok`) and what is on display. `RefreshApplicationState` is one step per
call: `AskUser`, `AskLicense` with the query of the service and the second critical
section of `GetLicenseStatus` (`QueryLicense`, `ReadLicense`), `AskDatabase`. An
activation goes out with the account of the access token, whoever is logged in
(`CopyToken`). Each
call is `Served` or `Raises`; a binding to a process that has ended may do either,
and an exception drops it. A query of the session by the service is a `Decide` at any
time, and other clients and the refresh thread are `OtherStep`. `ServiceExits` ends
the calls in progress with an exception and terminates any set of windows (those
the service launched). `moved` is a history variable: the session got another user
since the window was last told who it is. `ActsForShownUser` excuses that, and the
`overlap` of the session: then the window may activate or unlock for another account
than it shows, and does in the code.

### DirectoryScan, ScanSchedule, DirectoryMonitor

The recursion over sub-folders is abstracted to the set of files below the
path, visited in any order; `ListingFails` leaves any of those to come out, as a
folder does that cannot be listed or whose listing breaks off. `disk[f]` is what a
scan of the file would find, by its bytes and the database in force:
`DatabaseReplaced` turns it around for any files, and if a file is being read at
that moment its verdict may be that of neither database. Of the history variables,
`doubtful` holds the files whose entry in the report may be wrong: those passed over
for want of a license or left out, those that changed after their visit, the one
that was read during a replacement. A change before the visit puts no file in doubt,
nor does the loss of the license after it. `late` (the report was stored after its
path had been replaced) and `since` (minutes since the last scan started or the
schedule was configured) are history variables too. `left` is the time until
`next_scan_tick`, in minutes. In `DirectoryMonitor` a notification arrives only
while the thread is in its wait: changes between two handles are lost, and one
may complete without bytes. The paths of the monitor name folders: for any
other path the handle is opened or armed without success.

### SignatureScan

Nodes keep the number of their insertion, from 1 where the code counts from 0.
A node is its word, the bytes that lead to it; `Insert` adds the nodes of one
signature, `Nodes` those of all records. The breadth-first construction becomes
recursive functions over words, each word resting on shorter ones, as the queue
has it: `Failures` and `Outputs`. As in the code, the nodes below the root are given
none of the root's outputs. The hash of a signature is the signature. `ScanByte` is
one turn of the loop, `ApplyAvRecords` the replacement of records and automaton by
another thread between two turns. An index outside the automaton is undefined
behaviour: the model stops that scan there. `shrunk` is a history variable.

One more undefined behaviour is resolved as the release build resolves it: the
iterator of `service.cpp:760` is read (764) after `push_back` may have moved the
nodes. Where the container copies them, as that of Visual Studio does, the memory
it points to is freed but not yet used again, and the number stored is read.

### ServiceLifecycle

`at` is the step of `ServiceMain`. A worker waits for its event or is busy. The
handler and `ServiceMain` launch with the same four steps, or not at all when the
sessions cannot be enumerated. `StopPending` reports the stop and `StopListening`
ends the acceptance of calls, so that a call may begin in between. `crossed` (the handler
was launching at or after `TerminateTrayProcesses`), `overdue` (busy for all of its
three seconds) and `excused` (the enumeration or the launch failed or the application
ended by itself) are history variables. Two simplifications: of two tray processes in one
session the earlier one takes the mutex of the application, the other ends at
once; and of the RPC calls in progress, for which nothing waits, one is modelled
(`call`). It may last for ever: the stop completes all the same. That it then meets
deleted locks is what the code does, and no property denies it.

## 3. Runs

| run | result |
|---|---|
| `storage` | main thread, update thread and one caller, all 36 contents of the two files, one I/O failure, one kill: types, `ReadyMeansLoaded`, refinement of `DbContract`, every load and update ends |
| `storage_crash` | two kills, no I/O failure: one good copy survives, memory and file agree between updates |
| `session_safety` | two RPC threads, the refresh thread, two users: sessions complete, licenses armed, state coherent unless sessions overlap, refinement of `LicenseSession` |
| `session_live` | `WireSession` with one RPC thread and one user: refinement of `AuthSession`, deadlines within the lives, due tokens handled, lost licenses noticed |
| `tray` | one window, two accounts, a changing session, overlapping requests, end of the service at any step and restart: without overlap it acts for the user it shows; it catches up and responds |
| `monitor` | folder and sub-folder with two files, one failure: reports belong and are exact for the files not in doubt, delivered changes are taken up, the thread stops |
| `schedule` | a folder and a file in it, intervals up to two minutes: reports belong and are exact for the files not in doubt, scans are an interval apart, due scans start until the stop, a late report is replaced |
| `scan` | every pair of a three-byte and a two- or three-byte signature over two letters, the second confined to offset 1, empty texts and all texts of four bytes |
| `lifecycle` | one session, four workers, one RPC call, one failed enumeration, failed launch or ended application: the stop completes, workers are joined unless busy, every session is served, no application is left |
| `storage_doc_restore`, `session_doc_locked`, `monitor_doc` | the three disagreements of section 6; `session_doc_locked` is restricted to logins that the server accepts and to status requests, so that the answer in flight is one of the server |

Bounds, and why they are enough. One I/O failure takes the storage through every
error path, and the initial files already combine all damages, so that failures
come in sequences too; a second kill makes a recovery be interrupted. Two RPC
threads with the refresh thread make every pair of overlapping requests, two
users a stale answer for another account; RPC threads and users are
interchangeable (symmetry, in the safety run only). Two nested folders cut a
scan in two and separate watched changes from unwatched ones; longer walks
repeat the same step. Signatures of up to three bytes over two letters have all
relations of prefix, suffix and overlap, including chains of two failure links,
and texts of four bytes let an occurrence begin before and end after a swap.
One session suffices for the launch, which treats sessions one by one. One window
suffices because windows meet only in the session, which `OtherStep` changes in
every way another window could (the proofs take any number of them). On the wire,
the three orders (as written, reversed, rotated) let the ticket come first, in the
middle and last, before and after the flag (the proofs take any orders); lives lie on both sides of the margin
of 30 s. Two runs switch the deadlock check off: a scan ends (`scan`), and so does
the process (`lifecycle`).

Fairness. Weak fairness of each thread's own steps: Windows schedules threads
that can run, the waits have timeouts, and an HTTP request is answered or times
out. Time passes (`MinutePasses`, `TokenExpires`, `LicenseExpires`). No fairness
for clients, files or licenses. `session_live` adds strong fairness of a usable
answer to the license query of the refresh thread: without it the service may
be refused for ever and keep a license that ended, which is what the code does.
In `tray` the window's own steps, the calls inside the service and the end of a
service that was asked to stop are weakly fair. The timer is strongly fair: Windows
posts it whenever the queue is empty, but button presses in between disable it again
and again. License queries do not fail for ever (strong fairness of their success).
In `lifecycle` nothing makes busy workers or a call finish, so `StopCompletes` holds
because of the three-second timeouts and because no call is waited for.

## 4. Proofs

For every value of the constants, under the named assumptions of the modules
(threads are distinct, bounds are natural numbers, principals are distinct, the
server writes each member of a reply once, signatures have bytes).

- `AvStorageProofs`: `TypeCorrect`, `LoadCorrect` (`ReadyMeansLoaded`). The
  inductive invariant `LoadInv` adds to the property that a thread which can
  still end without loading (a plain return after a write or a rollback) already
  has a database in memory. `StorageImplementsContract`: initial states map to
  initial states, and each step to a step of `DbContract` or a stutter; the load
  that applies a release and returns in one step is `PublishAndAnswer`.
  `CrashSafety` and `UpdatesStick` hold under `QuietDisk` (no I/O failure, no
  further callers, initially one good copy and no forged file), by an invariant
  that says, for each stage, which of the files is good while the other is being
  written.
  `RecoveryEnds` is the part of `LoadsAndUpdatesEnd` that needs no fairness: the steps
  a thread has left (`StepsLeft`, at most 23) become fewer with each step it takes,
  so that the recovery, whose parts call each other, cannot go round.
- `AuthSessionProofs`: `TypeCorrect`, `SessionAlive` (`SessionComplete`),
  `LicenseStaysArmed`, `CoherentSession`. The invariant adds that both tokens always
  have the same owner, authenticated or not, and that, without overlap, the
  token a thread carries is that of the present session; without that part a
  write could bring in another account's data. `AuthImplementsLicenseSession`: each
  write of `g_auth` is a step of `LicenseSession` or a stutter, where login, access
  token and license keep their accounts.
  On the wire, a text is `Clear` if no two members have one key and no value reads
  like the key of another member; then the search for a key finds its own member,
  wherever it stands (`KeyFound`), and a key that nothing reads like is not found
  (`AbsentRead`). Permuting the members keeps a text clear, so that what is extracted
  does not depend on the order. All replies are clear, which gives what the
  service makes of each (`RefreshUnderstood`, `StatusUnderstood`,
  `ActivationUnderstood`), and with it `WireRefinesSession`: every reply received is
  an `Answer`. `WireSessionSafe` carries the invariants over; `DeadlinesInTime`
  (`AskedAgainInTime`) adds that the lives in a reply are numbers.
- `SignatureScanProofs`, for any bytes, signatures, releases and files. The
  automaton: whatever links longer words have, `Follow` ends at the longest node
  that ends the bytes read (`FollowIsTarget`); the failure links are the longest
  proper suffixes that are nodes (`FailuresAreLinks`); a node's outputs are records
  that end its word, and all of them that have a signature (`OutputsFacts`); the
  checks accept a record exactly where it occurs (`PassesWhereItEnds`). The scan:
  `TypeCorrect`, `RangeKept` (`OutOfRangeOnlyAfterRollback`), `DetectionsReal`
  (`DetectionReal`), `SuffixesKept` (`SuffixKept`) and `KnownFound`
  (`KnownStillFound`). `KnownStillFound` alone is not inductive: that nothing was missed
  up to here does not say that the node stands for what was read. `SuffixKept` does
  say it, and it survives a replacement of the database because the updated
  release begins with the default records: the nodes of the smaller automaton are
  the first nodes of the larger one, with the same numbers. Assumed are that both
  releases have this form (`PairsAssumption`) and that no signature is empty
  (`NonemptyAssumption`), as `MakeAvRecord` and the two releases have it. What needs
  induction, on the length of a word or the number of records, is proved from the
  least counterexample (`LeastNatural`, from the well-foundedness of the naturals),
  and that the recursive functions exist from their finite approximations.
- `TrayApplicationProofs`: `TypeCorrect` and `ActionsMatchDisplay`
  (`ActsForShownUser`). The invariant `TrayInv` says what a window the session has
  not moved away from may show or keep in mind at each step of its refresh; the
  property alone is about single steps and is not inductive. `SessionOK` carries over
  what `LicenseSession` promises without overlap: token and license are those of the
  user, or nobody's. The theorem is about the accounts of the token and of the
  license, not about the login.
- `ServiceLifecycleProofs`: `TypeCorrect`, `WorkersJoined` (`JoinedUnlessBusy`) and
  `TraysTerminated` (`NoTrayLeft`). `LifeInv` has, beside types, `MainInv` (the status
  and the launchers at each step of `ServiceMain`), `JoinInv` (the threads already
  waited for) and `TrayInv`: every application that runs is remembered, or is about
  to be by exactly one launcher.
- `ScanScheduleProofs` and `DirectoryMonitorProofs`: `TypeCorrect`, `ReportOfOwnPath`
  and `ReportOfOwnFolder` (`ReportBelongs`), `ReportsExact`
  (`ReportExactUnlessDoubtful`), and for the schedule `ScansAtInterval` (`ScansApart`).
  The counter stays in its range because count and files to visit together never
  exceed the files (`Bounded`). Exactness is by `Faithful`, for every walk and at
  every visit: only visited files are in doubt; of the others visited so far those
  found are the ones infected at this moment, and the counter lies between the number
  of readable ones and that number with the doubtful files. A visit, a failing
  listing, a change of a file and a replacement of the database, in the middle of a
  file or not, keep it (`VisitFaithful`, `SkipFaithful`, `OutdateFaithful`,
  `TornFaithful`); the license needs no clause, since a file passed over without one is
  in doubt. Intervals are by
  `TickInv`: minutes since and minutes left make up the interval.
  `DirectoryScanProofs` has the lemmas both rest on.

Only model-checked: the liveness properties (temporal reasoning with fairness is not
for this prover), and absence of deadlock (`ENABLED`).

## 5. Plan

Done: storage, session, engine, the two scanning threads, lifecycle with an RPC
call in progress, the replies on the wire, the tray application, and the proofs of
every invariant, step property and refinement the runs check.

Next:
1. the walk with its explicit recursion and the fixed-drive scan with its limit of
   200 files per drive, shown to implement the visits of `DirectoryScan`; links
   between folders belong there;
2. the binary codec of the database (`SerializeAvDatabase` and its inverse), of which
   `AvStorage` takes the result as a kind of content;
3. the reports in the window (`main.cpp:203`), as the display of `ScanSchedule` and
   `DirectoryMonitor`;
4. measures like `StepsLeft` for the stop of the service and for the refresh of a
   window: the part of `StopCompletes` and `WindowResponds` that needs no fairness.

## 6. Where code and documents disagree

- A good backup does not always save a damaged primary file (`PRACTICE5_TESTING.md:126`):
  the forced update first copies the forged primary over it (`service.cpp:702`). The
  update is also tried only for a wrong manifest signature (729), not for any damage
  as the document says, and 128 promises a backup before each update whose
  failure the code ignores (702).
- Without a user the functions are not always locked (`main.cpp:157`): a license
  answer that arrives after the logout is written (`service.cpp:1455`). The run shows
  it for a status request; an activation (1515) does the same, and without the
  server a demo refresh after the logout (1391-1396), followed by an activation
  (1496-1501), does too.
- A folder chosen for monitoring is not monitored while the thread waits for
  the previous one (`PRACTICE4_TESTING.md:72`, `service.cpp:1152`).

Each of the three above is a run that TLC finds violated. Read while modelling, with
no run of their own:

- The demo account is not only for an unavailable server (`PRACTICE3_MOCK_SERVER.md:5`):
  any refused login reaches it (`service.cpp:1342`, action `LoginDemo`).
- The mock server's tokens equal the service's built-in demo tokens, so that after a
  login through it the service takes the session for the demo one and never calls
  the server's other endpoints.
- `PRACTICE3_MOCK_SERVER.md:41` sets `ZIOVPO_API_BASE_URL`; the service reads
  `AVAA_API_BASE_URL` (`service.cpp:1191`).
- `ExtractJsonString` reads `"ticket":null` as the name of the next key, which counts as
  a license (`service.cpp:263`); `WireSession` has only replies as the mock server
  writes them.
- A scan report does not say what it leaves out: files met without a license, files
  that cannot be read and folders that cannot be listed (`service.cpp:996`, 975).
- An access token that lives 30 s or less is refreshed after the fallback of ten
  minutes (`service.cpp:306`); `AskedAgainInTime` is stated for longer lives.

## 7. Not modelled

The fixed-drive scan with its limit of 200 files per drive, a sequence of directory
walks, and links between the folders of a walk (see 5); `JsonEscape`, escapes in
replies and the binary codec; the HTTP transport (its outcomes are the choices of
`Answer`); the socket loop of the mock server; the report texts, the icon and the
layout of the window; process access rights, which are calls without state; a single
worker thread that cannot be created and a tray process that resists termination;
the overflow of the tick count for huge intervals; allocation failures in the replies of
RPCs; the installer and the build; and the sources that `CMakeLists.txt` does not build
(`auth.cpp`, `gui_auth.cpp`, `rpc_server.cpp` and others, an earlier version of the program).
