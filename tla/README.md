# FileDrop in TLA+

FileDrop sends files between devices of a local network. A Rust core
(`src/rust/filedrop-core`) has the transfer server and client, discovery,
pairing and storage; `src/rust/filedrop-ffi` owns the engine and exposes it to
Dart; a Flutter application (`src/flutter`) drives it and, on Android, creates a
Wi-Fi Direct group when there is no network. This directory models that program
in TLA+, checks small instances of it with TLC and proves theorems about it with
TLAPS. Paths below are relative to `src/rust/filedrop-core/src` unless they say
`api/mod.rs`, `runtime.rs` or `events.rs` (`src/rust/filedrop-ffi/src`), or end
in `.dart` or `.kt`.

Run a check with `tlc -config Receiver_serial.cfg MCReceiver`, a proof with
`tlapm ReceiverProofs.tla`. `PROJECT.json` lists the runs, the mutants that show
each property can fail, the source lines of every definition, the findings, the
hazards and the theorems.

## 1. Inventory

| Component | State | Operations | Meets |
|---|---|---|---|
| Transfer server (`transfer/server.rs`, `session.rs`, `storage/paths.rs`) | session map, `.part` files, received files, one future per request | `POST /transfer/:id`, `GET .../status`, pause/resume/cancel of a session | the sender over HTTP, the disk, the HTTP library that drops futures |
| Send queue and sender (`transfer/queue.rs`, `client.rs`, `api/mod.rs`) | pending and active entries, permits, sessions, one task per file | `send_files`, `next`, `mark_finished`, `send_file`, pause/resume/cancel, status | the server of the peer, the event channel |
| History (`storage/history.rs`) | map in memory, `history.json`, `history.json.tmp` | `load`, `add`, `clear`, `persist` | the disk; no caller of `add` and `clear` yet |
| Pairing (`pairing/state.rs`, `token.rs`, `qr.rs`, `api/mod.rs`) | request per peer, with token, state and expiry | `pair_device`, `present_token`, `confirm`, `sweep_expired` | the clock, the user's decision |
| Discovery (`discovery/*`, `api/mod.rs`) | the slot of the running service, its flag and sockets, its tasks, the device cache | `start_discovery`, `stop_discovery`, the announcer, listener, browser and forwarder tasks | the network, the event channel, the Home tab |
| Server lifecycle (`networking/resolve.rs`, `api/mod.rs`, `runtime.rs`, `filedrop_ffi_service.dart`) | the engine, the shutdown sender, bound ports, what Dart believes of them | `init_engine`, `start_server`, `stop_server`, `ensureServerRunning`, the port scan | other processes on the same ports; discovery advertises its port |
| Home tab and Wi-Fi Direct (`filedrop_providers.dart`, `home_screen.dart`, `wifi_direct_service.dart`, `WifiDirectHandler.kt`) | stage, receive state, whether a group is recorded, calls that are out | `startSend`..`reset`, `back`, `startReceive`, `createWifiDirectGroup`, `retryWifiDirect` | discovery, the platform's group |
| Events and UI state (`events.rs`, `runtime.rs`, `c_abi.rs`, `filedrop_providers.dart`, `main.dart`, the two widgets with buttons) | a broadcast ring of 1024 events, a receiver's position, the cards, the list of pairing requests and its sheet | `emit`, `subscribe_events`, `filedrop_poll_event`, the notifiers, the buttons | everything that emits; the queue and the pairing calls |
| Filename and path safety (`security/filename.rs`, `path.rs`) | none | `sanitize_filename`, `safe_join`, the header checks | the server, the sender's headers |
| Interfaces and modes (`networking/local_iface.rs`, `mode.rs`) | none | enumerate interfaces; text per platform | receive mode |
| DTOs, C ABI, widgets, screens, nginx example, web page | none of their own | copies and layout | |

What is hard in each:

* **Server.** Handlers of several requests interleave at every await; the HTTP
  library drops a handler's future when its connection closes; a chunk for which
  `write_all` returned is on disk only later, through a file that may have been
  renamed meanwhile; every error path leaves something else behind. It is right
  when what reaches the received-files directory is whole and verified and is
  never written to again, when a faithful resume always succeeds, and when every
  request ends.
* **Send queue.** A task takes the entry at the head of the queue, not its own.
  Permits, entries and tasks must nevertheless stay in step, and each file must
  be announced completed or failed.
* **History.** The lock is released before the list is written and all writers
  share one temporary file. An acknowledged record must survive a crash.
* **Pairing.** Calls overlap, tokens are replaced, the clock moves. The state
  machine must open a request only for its own token, in time, and a peer must
  be paired only by a decision on its present request. (The app does not wait
  for a token: it asks the user as soon as `pair_device` has emitted its event.)
* **Discovery.** Dart awaits neither start nor stop, a stop only clears a flag,
  tasks outlive the service. A running service must be stoppable, and a stopped
  one must wind down.
* **Server lifecycle.** The port is probed, let go and bound again, and calls
  overlap. No server may run that nothing can stop, each must have the port it
  returned, and Dart's flag must follow.
* **Events and UI state.** An event channel that never waits loses events, two
  parties emit about one transfer, a user decides while requests are replaced. A
  card must end as its own transfer did, a request must not wait unseen, and a
  peer must not inherit a decision.
* **Filename and path safety.** The sanitizer and `safe_join` are written apart,
  and the cut to 255 bytes comes last. Every name must end up as one file of the
  received-files directory.
* **Home tab.** What follows an `await` runs in whatever stage the user has gone
  to. The app must not take down a group it has recorded, discovery must be on
  where a destination is chosen and off where none is shown, and no spinner may
  turn for ever.

The full list of hazards, each at its line, is in `PROJECT.json`.

## 2. Modules

| Module | Models |
|---|---|
| `Receiver` | the handler of `POST /transfer/:id`, await by await |
| `Inbox` | what the received-files directory promises; `Receiver` implements it |
| `SendQueue` | `send_files`, `TransferQueue`, `run_queued_send`, `send_file`, the control calls |
| `TransferPool` | a pool of bounded parallelism; `SendQueue` implements it |
| `HistoryStore` | `add`, `clear`, `persist`, `load` |
| `EventFeed` | `emit`, the broadcast ring, a receiver that lags, `subscribe_events` and `filedrop_poll_event` |
| `TransferBoard` | `SendQueue` + `EventFeed` + the cards of `ActiveTransfersNotifier` and their buttons |
| `Pairing` | the pairing state machine, its callers and the clock |
| `PairingSheet` | `Pairing` + `EventFeed` + the list of requests, the sheet and its buttons |
| `ServerLifecycle` | `init_engine`, `start_server`, `stop_server`, the port scan, Dart's view of them |
| `Admission` | header checks, `sanitize_filename`, `safe_join`, the headers of `send_file` |
| `Discovery` | start and stop, the slot, the tasks, cache and events |
| `HomeFlow` | `HomeFlowNotifier`, its views, the platform's group calls |
| `MC*` | the constants and symmetries of the instances TLC checks |
| `*Proofs` | the theorems and proofs of `Receiver`, `SendQueue` (with `TransferBoard`), `HistoryStore`, `Pairing` (with `PairingSheet`), `Discovery`, `HomeFlow`, `ServerLifecycle`, `Admission` |

**Receiver.** `pc[h]` is the await handler `h` stands at; an action is what it
does from there to the next. `idle` → `Open` (headers accepted, `.part` opened
and, at offset 0, truncated) → `opened` → `Register` (session in the map) →
`stream` → `TakeChunk` → `hold` (the pause loop) → `WriteChunk` → `stream` …
→ `BodyEnd` → `flushed` → `SizeMatches` → `verify` → `VerifyMatches` → `rename` →
`Rename` → `commit` → `Complete`; each error path is an action that leaves from
its await. The write `write_all` queues is in `inflight` until `Land`, which
needs no live handler. `Drop` ends one future, `Crash` all of them. A file is a
sequence of cells, one per chunk, each naming the version of the source file it
came from; a digest is the sequence it stands for (SHA-256 is taken to be
collision-free). `GET /status` reads `bytes` of the session in the map and has
no action. `Pause`, `Resume` and `Cancel` are what the session's methods allow:
no code in the repository calls them on a receiving session (`api/mod.rs:322-354`
looks in the send queue), and only `GET /status` reads the map. Inodes are named
by the handler whose open created them, because a rename keeps the inode and an
open handle keeps writing to it.

**SendQueue.** `pc[t]` is where task `t` is in `run_queued_send`; `popped[t]` is
the entry (and session) it got, `t` the file it sends. `shown[t]` is the last
event emitted for `t`. The answer of the receiver is an environment choice.
`pause_transfer` is two steps, `PauseFinds` and `Pause`, because it waits for the
lock in `find_session` and other tasks go on before it sets the flag and emits.

**EventFeed.** The ring as one receiver sees it: `ring` is what it has not read,
`lagged` that something was overwritten since, which it is told once, by an error
in place of an event. `inbox` is what was handed to Dart and not handled yet.

**TransferBoard.** Every step of the queue that emits is joined with `Emit`
(`Announces`, `Reports`, `ConfirmsPause`), every other one leaves the board alone
(`Quietly`). `card[t]` is the status on the card; `Handle` is one event folded by
`_handle`, `Tap` a button, which calls back into the queue. `lost` and `late` only
observe: an event of the transfer was overwritten, its pause came after its end.

**HistoryStore.** `Insert`, `Snapshot`, `OpenTmp`, `Fill`, `Rename` are one
mutation cut where another one or the end of the process can come in.
`tokio::fs::write` is two steps, the truncation and the bytes. `{Torn}` is a
file that does not parse, which makes `load`, and so `init_engine`, fail.

**Pairing.** A token is named by the call that generated it. The three methods
that hold the write lock throughout are one step each; `pair_device` is three,
because it reads the clock, waits for the lock, and reads the clock again.
`present_token` and `sweep_expired` have no caller in the repository yet: they
are actions because they are the state machine's operations.

**PairingSheet.** Dart runs one callback at a time and a provider's listener runs
within the assignment, so `SetRequests` sets the list and opens a sheet in one
step. `sheets` is the navigator above the shell; `closing` the sheets that were
popped and whose `whenComplete` has not run. `Tap` is what a button does before
its `await`, `Decide` the call it waits for, `PopAfterDecision` what follows:
`pop()` takes the route on top, and with no sheet left that is the shell. What
the navigator does with an empty stack is not modelled: the shell is gone then
and the properties say nothing.

**ServerLifecycle.** A call is cut where a thread, a process or the server's task
can come in: `Probe`, `LetGo`, `Bind`, `Store`, `Spawn`, and `StartReturns` when
Dart's continuation runs. `holder[p]` is who has port `p` bound, `signal[s]`
whether server `s` was sent to, or had its sender dropped by a later start.
`FileDropEngine::init` is one step: what it reads and creates on disk is in
`Receiver`, `HistoryStore` and `Discovery`.

**Admission.** A name is a sequence of characters, one for each class the code
tells apart. `Stripped`, `Trimmed`, `Usable`, `Cut` are the stages of
`sanitize_filename` in their order; `SafeJoin` gives the joined components or
none. A behaviour is one request, made by `send_file` or by any peer, and the
verdict on it. There is no second definition of the sanitizer to compare with:
the properties say what the receiver needs of it. What is filtered or split is
described by its positions: `At(s, S)` is `s` at the positions `S` in their order.

**Discovery.** A service is named by the `start_discovery` call that makes it.
`port` is the service whose listener has UDP port 53318; `listener[s]` is
`check` when it is about to look at `running` and `recv` while it waits for a
datagram. `stop_discovery` is `TakeService`, `ClearRunning`, `ClearDevices` under
the slot's lock. `StartFails` is any failure of `service.start`; the mDNS tasks
it has spawned go on. `forwarder[s][m]` holds the device on its way from a
mechanism to the cache and to the event. The channels' 32 slots are abstracted:
they only shift the moment a producer waits. The UDP listener drops this
device's own announcements; the mDNS task does not, so `Self` is among what it
resolves (`Devices`). `stop_browse` may fail, which the code ignores: the mDNS
task then goes on. `reports` bounds how many devices are reported.

**HomeFlow.** One Dart callback is one step. `visit[v]`, `create[c]` and
`send[s]` are where each call of `startReceive`, `createWifiDirectGroup` and the
body's `_send` waits. `calls` is the platform's queue of group calls, `group`
whether the device owns a group. `Shows` is the condition under which a view,
and so its buttons, is on the screen. Discovery appears only as the last call
made (`asked`), the files and the device not at all. The server is running
before the first view (`main.dart:52-57`) and nothing calls `stopServer`. A group
goes down by `removeGroup` (`DropGroup`) or by itself (`LoseGroup`: Wi-Fi is
switched off, the framework removes it). Nothing in `WifiDirectHandler.kt` or in
Dart listens for the latter; `lost` observes that it has happened.

## 3. Runs

| Run | Instance | What it shows |
|---|---|---|
| `receiver_serial` | 2 requests of one transfer, 2 versions of 1 and 2 chunks, offsets 0 and 1, any digest or none, any body | `ReceivedVerified`, `HonestNeverRejected`, `ControlReachesHandler`, `TypeOK` |
| `receiver_names` | 2 transfers of one file name, faithful requests of a 2-chunk file, fair | `DeliversWhole` (refines `Inbox`), `ReceivedImmutable`, `EventuallyAnswered` |
| `receiver_overlap` | 2 requests of one transfer that may overlap, faithful to one of 2 versions each, offsets 0 and 1 | violation of `ReceivedVerified` |
| `sendqueue_pool` | `TransferBoard`: 2 files, one of them empty, in one call, 1 permit, a ring of 1 event, taps on one card, fair | `ImplementsPool`, `EventuallySettled`, `CardSettles`, `NeverReopened`, `CardsAreAttributed`, `PermitsBalanced`, `EntriesConserved`, `NoneStranded`, `TypeOK` |
| `sendqueue_progress` | `SendQueue` alone, 2 permits | violation of `ProgressIsOwn` |
| `history_serial` | 3 additions and a clear, one after the other | `StoreLoadable`, `AckedDurable`, `TypeOK` |
| `pairing_tokens` | `PairingSheet`: 2 peers, 2 calls, 2 taps, time 0..1 with `Ttl` 1, a ring of 1 event | `OpenedByOwnToken`, `PairedByDecision`, `NothingWaitsUnseen`, `FlagIsTrue` |
| `discovery_restart` | 2 starts, 1 stop, this device and another, 2 reports, a network that may be silent, fair | `NoOrphan`, `AnnouncedIsListed`, `StopWindsDown`, `TypeOK` |
| `homeflow_tabs` | 2 visits, 2 creations, 2 sends, fair | `RecordedGroupIsUp`, `DiscoveryFollowsStage`, `SpinnersEnd` |
| `homeflow_group` | 1 visit, 1 creation | violation of `GroupTornDown` |
| `server_lifecycle` | 2 inits, 2 starts, 1 stop, 2 ports, another process, fair | `NoOrphanServer`, `EndpointIsLive`, `StoppedLetsGo`, `DartKnows`, `EngineIsTheirs` |
| `admission` | every name of at most 5 characters and every form of the headers from any peer, every file of at most 3 characters from `send_file`, `MaxLen` 3 | `AlwaysDirectlyReceived`, `NameKeeps`, `JoinContained`, `SendArrives` |

**Why the bounds are enough.** The first wrong state of each hazard needs two
actors and one repetition: two requests, of which one resumes what the other
left, with a source file that changed in between (2 versions, 2 chunks make a
prefix, a hole, a mix and a tail); two tasks that pop each other's entry; two
mutations on one temporary file, three so that a third starts from the debris; a
token that was replaced, and another peer's; a service that is stopped while the
next one starts; a continuation of one visit that runs in the next, with a
second creation out; an event too many for the ring; a second start while the
first server runs, a port taken between its probe and its bind, and a second port
to go on to; a name longer than the limit with an extension, a separator and a
dot. `MaxTime` bounds the clock: with `Ttl` 1 a request is stored at 0 or 1 and
its expiry is before, at or after the present time, which may be set back.
`MaxReports` 2 lets this device and the other, or one of them twice, come up by
either mechanism. `MaxInbox` bounds how far Dart's event loop is behind, `Tappable` whose card is
tapped: the other file's sender is the one that takes its entry. `MaxU64` stands
for the largest `u64`, so that a numeral too large to parse is an input. A device
name and `unnamed_file` count as one character, which makes `MaxLen` 3 reach each
case of the cut. The theorems of section 5 have no bounds.

**Serial and overlapping requests.** `Receiver!SerialSpec` and
`HistoryStore!SerialSpec` add one assumption on the environment, written as
`Unattended` and `Quiet`: requests of one transfer, and mutations of the history,
do not overlap. Requests of different transfers interleave freely. Nothing in
the code enforces it (see the findings), and the sender of this repository
respects it, since it gives every file a fresh id and never retries. `Spec` is
the code without it.

**Deadlock.** `CHECK_DEADLOCK FALSE` is set where calls are members of finite
sets: once all requests, tasks, mutations, starts or presses are used up the
system rests, as it does with nobody using it (an `Admission` behaviour is one
request). `PairingSheet`'s clock never stops, so
its run checks deadlock.

## 4. Fairness

* `Receiver!FairSerialSpec`: every handler that can go on is polled, and every
  queued write lands (tokio, its blocking pool). A body is delivered, ended or
  broken by its peer: hyper reports one of the three. Pausing, cancelling,
  dropping and crashing are never obliged; a paused request is exempt from
  `EventuallyAnswered`.
* `TransferBoard!BoardSpec`: every task is polled, the loop of `subscribe_events`
  among them, Dart's event loop turns, and a request is answered or its
  connection breaks. `reqwest::Client::new()` sets no timeout, so the latter is
  an assumption on the peer; `EventuallyAnswered` is what backs it when the peer
  is a FileDrop. Weak fairness of `Acquire` suffices: tokio's semaphore is fair
  and the number of tasks is finite. Nobody is obliged to tap.
* `ServerLifecycle!Fairness`: a call that was made goes on, and a server's task is
  polled when its receiver resolves. Nobody is obliged to call, or to leave a
  port alone.
* `Discovery!TasksFair`: calls that were made go on, and the announcers,
  listeners and browsers are polled. Nothing is assumed of the network: a
  datagram may never come.
* `HomeFlow!FairSpec`: calls into Rust and into the platform, and the permission
  dialog, are answered. The user may stop pressing buttons at any time, and the
  platform need not lose a group.

## 5. Proofs

All theorems hold for every value of the constants that the modules' `ASSUME`s
allow: any number of requests, files, calls, devices, any file size, any ttl.

* **ReceiverProofs.** `TypeCorrect` for `Spec`; `ReceivedAreVerified`,
  `ReceivedNeverWritten` and `ReceiverDelivers` for `SerialSpec`.
  `ReceivedVerified` is not inductive: the digest of a fresh upload is computed
  over what was streamed, so one needs that this is what is on disk but for the
  write in flight (`HashFollowsDisk`), which needs that nobody else writes to
  the inode (`SoleWriter`), which needs that no inode has two names (`OneName`)
  and that a request still to come has none (`Untouched`); from the check to the
  rename the content stays (`CheckedStaysChecked`). The proof first shows that
  the actions that touch neither files nor the handler's data keep all of it
  (`TameKeeps`), then takes `WriteChunk`, `Land`, `Unlink`, `Rename` and `Open`
  one at a time. `ControlReaches` is the same invariant seen from the session
  map: a handler that has registered keeps its place there until it ends
  (`InService`), since no other handler of its id is at work.
  `HonestAreAccepted` rests on `PartInv` beside it, per handler: the `.part`
  reaches as far as was written but for the write in flight, and under an honest
  upload has only cells of its version (`PartHolds`); what is verified has the
  announced size (`Sized`); a 422 was deserved (`Deserved`). A step leaves all
  handlers but one as they were (`Same`), so each action is looked at for the
  one that moves.
  `ReceiverDelivers` maps `Rename` to `Inbox!Deliver` and every other step to a
  stutter.
* **SendQueueProofs.** `TypeCorrect`, `PermitsAreBalanced`, `NobodyIsStranded`,
  `EntriesAreConserved` and `QueueIsPool` for `Spec`. The strengthening is
  `Counts` (`SendQueueProofs`): permits balance, and the pending entries are as
  many as the tasks still to pop one, so a task with a permit finds the queue
  non-empty although it may take another's entry. `EntriesAreConserved` adds
  that a task that has yet to pop has nothing (`NoneEarly`). The board's
  theorems are in the same module: `BoardIsPool`, `CardsAreTheirOwn`,
  `CardsStayShut` for `BoardSpec`, whose steps are steps of `SendQueue!Next` or
  leave its variables alone, so what is proved of the queue holds under the app.
  A card is its transfer's own because every event on its way is (`Told`), and
  stays so because a transfer that is over keeps its reply (`HistoryIsKept`). The
  theorem is about whose outcome a card shows; that 206 counts as completed is
  what the code does (section 6). It is not
  reopened because each `TransferStarted` on its way is there once, in the ring
  or the inbox, and its transfer has no card (`OnceInv`).
* **HistoryProofs.** `TypeCorrect`, `StoreStaysLoadable` and
  `AckedRecordsSurvive` for `SerialSpec`, from `IInv`: the one mutation that is
  busy writes to an inode that is not the history (`SoleWriter`), and memory
  never has less than what was acknowledged (`AckedInMemory`).
* **PairingProofs.** `OpenedByItsToken` for `Spec`, from `IInv`: a token
  belongs to one peer and one request (`TokenOfItsOwn`) and is accepted only
  before it expires (`PresentedInTime`), which survives a clock set back because
  both are relations between stored values. It is a fact about the state machine,
  not about the app, which asks the user without it (section 6). Every step of
  `SheetSpec` is one of `Pairing` or none;
  `PairingIsDecided` adds that a token becomes current in `Store`, which leaves
  no peer paired, and that only `Decide` pairs one. `NoRequestWaitsUnseen` and
  `SheetFlagIsTrue` come from `SheetInv`: there is one sheet, shown or closing,
  or none (`OneSheet`), the flag says which while the shell is there, and the
  list is set only together with the sheet (`SetRequestsShows`).
* **DiscoveryProofs.** `TypeCorrect`, `RunningCanBeStopped` and
  `AnnouncedAreListed` for `Spec`. The types say that the UDP path never carries
  this device; they do not say so of mDNS, the cache and the events. A second start may replace the first one's
  handle in the slot; `NoOrphan` holds because the port admits one service:
  `IInv` relates the port to the listener that has it (`PortHeld`), a bound
  service to its flag (`BoundRuns`, `UnboundSilent`) and the slot to a start
  that is over (`SlotIsDone`). `AnnouncedAreListed` needs that a service lists
  what it announced, and what it is about to announce, until a stop takes it
  (`ListedUntilStopped`), and that what a stop took never comes back to the slot
  (`TakenIsGone`).
* **HomeFlowProofs.** `TypeCorrect`, `DiscoveryFollows` and
  `RecordedGroupStands` for `Spec`. The last has the premise that the platform has
  lost no group by itself (`~lost`), and so have the parts of its invariant but
  for the last: what is shown is that no call of the app, of this visit or an
  earlier one, takes down a recorded group. That needs that no
  removal is on its way to it (`OwnedIsSafe`), that a group has one owner
  (`OneOwner`), that there is at most one removal and it is for the group that
  is up (`RemovalOfOwn`), and that leaving receive mode forgets the group
  (`RecordedInReceive`).
* **ServerLifecycleProofs.** `TypeCorrect`, `NoServerIsOrphaned`,
  `EndpointsAreLive`, `EnginesAreTheirs` and `DartKnowsServer` for `Spec`.
  `ServerInv`: a task runs only once it was spawned (`ServingIsSpawned`), and
  whoever has a listener open holds its port, told to stop or not
  (`ListenerHolds`). The proof rests on each step moving one call only
  (`WhoMoves`, `OthersMove`). `DartKnows` speaks of rest after calls that did
  not overlap; `DartInv` says what holds on the way: such calls come one at a
  time (`OneAtATime`), the slot has a server that stands (`SlotStands`), and
  Dart's flag and port follow the slot but for the call that has just changed it
  (`DartFollows`, `DartKnowsItself`).
* **AdmissionProofs.** `AlwaysReceived`, `NamesKeep`, `JoinsAreContained` and
  `SendsArrive` for `Spec`, for names of any length where TLC looks at five
  characters, and for every limit and size. The invariant is simple, the verdict
  is the one the headers call for (`AdmissionInv`); the work is in the lemmas on
  the stages of the sanitizer: `StrippedIs`, `TrimmedIs`, `UsableIs`, `CutIs`
  say what each leaves and which names it leaves alone, `SanitizedIs` and
  `SanitizedKeeps` join them. A name that was cut still has a character that is
  neither dot nor blank, its last if it has an extension and its first if not,
  so it is one component (`ComponentsOfOne`) that `safe_join` takes
  (`JoinsOne`). No induction on sequences is needed: the model picks positions
  (`Nth`, `At`, `Trim`) instead of recursing, and the lemmas speak of their
  first and last.

The assumptions on the constants say that `None` and the other markers are not
among the values they stand beside, that the sets of calls are disjoint, that
sizes, limits and ttls are numbers, that there are finitely many tasks, and that
the event channel has a place.

**Only model-checked.** All liveness (`EventuallyAnswered`, `EventuallySettled`,
`CardSettles`, `StopWindsDown`, `StoppedLetsGo`, `SpinnersEnd`): liveness and
fairness are outside the prover. Every invariant, action property and refinement
that a passing run checks is also a theorem; those of the receiver and of the
history that need requests or mutations not to overlap are proved, as they are
checked, for `SerialSpec`.

## 6. Findings

Each is the behaviour TLC reports for its violation run.

* `receiver_overlap`: between the last write of one request and its rename,
  another request of the same id opens the `.part` and truncates it. The digest
  is compared with what was streamed, not with what is on disk (`server.rs:229`),
  so an emptied file is renamed into the received-files directory as verified.
* `sendqueue_progress`: a task counts its bytes in the session of the entry it
  popped, so `get_transfer_status` reports another file's progress
  (`api/mod.rs:273`).
* `homeflow_group`: a user who leaves receive mode while the group is being
  created leaves it up, unrecorded, and nothing removes it
  (`filedrop_providers.dart:177`).

Other divergences between text and code, and behaviours of the models a user
would notice, for which no run is kept:

* A stopped service does not close its socket. The listener sits in `recv_from`
  and keeps port 53318 until one more datagram arrives, which on a silent network
  is never, and a restart fails to bind it (`udp_broadcast.rs:100`);
  `api/mod.rs:164-165` and `FFI_INTERFACE.md:41` say that stop tears the sockets
  down. `StopWindsDown` says what does hold.
* This device's own mDNS registration is resolved, listed and announced as a
  nearby device (`mdns.rs:69-98`); only the UDP path compares ids
  (`udp_broadcast.rs:107`). A failure of `stop_browse` is ignored
  (`mdns.rs:106`), and the mDNS task then goes on reporting to a stopped service.
* `/status` may report an offset beyond the end of the `.part`. A failed flush
  (`server.rs:206-208`) leaves the session in the map with the lost chunk
  counted; an open that truncates, dropped before the new session is registered,
  leaves the old count beside an empty file; so does a future dropped after the
  rename, with no file at all. A resume from such an offset leaves a hole of
  zeros, the size matches, and only the digest, if one was sent, rejects it
  (`ReceivedVerified` is about those).
* A group that the platform takes down by itself stays recorded: receive mode
  goes on showing the address of a group that is gone, as nothing listens for it
  (`WifiDirectHandler.kt`, `filedrop_providers.dart:158-195`).
* The app asks the user about a pairing request as soon as `pair_device` has
  emitted `PairingRequested` (`api/mod.rs:195`, `filedrop_providers.dart:429`),
  with no token presented; `present_token` has no caller and no view reads
  `AwaitingConfirmation`.
* Under `HistoryStore!Spec`, where mutations overlap, `StoreLoadable` fails: two of
  them share `history.json.tmp`, one renames what the other is writing, and a
  crash leaves a history that does not load (`history.rs:94`, against `:37-39`).
  Nothing calls `add` or `clear` yet.
* A card that ended may be set to paused for good by a pause that found the
  session before the end (`api/mod.rs:325-327`), and one whose last event was
  overwritten shows it as running for good; `CardSettles` names both. Nothing
  takes a card away, so Home shows the cards and never the flow again.
* A button of the sheet tapped twice pops twice; the second `pop()` may take the
  next request's sheet, or the shell (`incoming_transfer_sheet.dart:51, :64`). A
  tap dismisses every request of the peer and decides on the peer's current one,
  which the user may not have seen (`api/mod.rs:310-320`).
* A request dismissed with its sheet, by a swipe, takes with it a newer request
  of the same peer, which then is never shown (`main.dart:146`).
* Two `ensureServerRunning` at once both find the flag unset and start; the second
  start stops the first server (`filedrop_ffi_service.dart:117-120`,
  `api/mod.rs:106`). `DartKnows` is stated for calls that do not overlap.
* The QR code carries `DEFAULT_PORT`, also when the scan went on to another
  (`api/mod.rs:212`).
* `sanitize_filename` is said to strip `..` sequences (`filename.rs:15`,
  `PROTOCOL.md:176-177`); one in the middle of a name stays, harmlessly. The cut
  may leave a trailing dot or blank, or a reserved stem, and a name whose
  extension alone exceeds the limit stays too long (`filename.rs:50-59`).
* A file whose name is not ASCII is answered 400 "missing X-FileDrop-Filename"
  (`server.rs:103-109`); a `Content-Range` that cannot be parsed starts the upload
  again and is not refused (`server.rs:139`).
* A cancel after a pause is not seen until a resume: the flag is looked at before
  the pause loop (`server.rs:188-195`), while `session.rs:18-22` describes both
  flags as looked at between chunks.
* `/status` answers 404 after a body broke, because the session is removed
  (`server.rs:184`), while the resume flow of `PROTOCOL.md:147-150` asks it then.
* The sender's reader looks at neither flag (`client.rs:126`), while
  `FFI_INTERFACE.md:49` says the chunk loop aborts.
* 206 (partial, to be resumed: `PROTOCOL.md:139`) is a success to the sender and
  is announced as `TransferCompleted` (`client.rs:107`), which `FFI_INTERFACE.md:67`
  says means finished and verified. So is a transfer the user cancelled when its
  request is answered with a success.
* `mark_finished` runs for the task's own id before the entry may have been
  pushed by the task that popped it, and so leaves a finished transfer active
  (`queue.rs:67`, `api/mod.rs:307`).
* A snapshot of the history taken earlier may be renamed later: an acknowledged
  record is lost when two additions overlap (`history.rs:91`).
* `confirm` accepts from any state, expired included (`state.rs:110` against
  `:22` and `:102-103`), and `present_token` accepts a used token again
  (`state.rs:98` against `PROTOCOL.md:59-60`).
* `expires_at` of a QR code is a second reading of the clock (`api/mod.rs:214`).
* "mDNS is preferred" (`discovery/mod.rs:24-26`), but a UDP announcement
  overwrites the entry; and the mDNS advertisement is never unregistered.
* "discovery was never stopped between deviceSelectSend and confirmSend"
  (`filedrop_providers.dart:262-264`), but `:233` stops it. `DiscoveryFollowsStage`
  leaves that stage open.
* A permission refused after the user left writes `wifiDirectError` without a
  look at the stage, and a LAN answer of an earlier visit may prompt over a
  group that is recorded.
* `NO_GROUP_INFO` is answered with the group up (`WifiDirectHandler.kt:107`);
  Dart takes it for a failure and the group stays.

## 7. Not modelled, and the plan

In this order:

1. **Compositions**: `HomeFlow` with `Discovery` (while devices are shown,
   discovery is on or coming on; the calls may overtake each other), and the
   sender with `Receiver` through a lossy connection (a completed transfer is in
   the peer's inbox), over an abstract specification of one delivery per transfer.
2. **Proofs**: those of the compositions; every safety property there is now has
   its theorem.
3. **Two receivers of one feed**: the app uses `subscribe_events` only;
   `filedrop_poll_event`, which reads the same ring from its own position, is in
   `EventFeed` and in no instance.

`NearbyDevicesNotifier` copies `DeviceDiscovered` into a map, `Discovery` has what
is announced; `TransferProgress` is never emitted; the history screen makes a
query when it is opened.

Left out altogether: interface enumeration and connection-mode text (no state),
DTO copies and the C ABI's JSON envelopes, widgets and screens beyond the
conditions under which they call the notifiers, the nginx example and the web
page. A power loss is not modelled: nothing in the code calls `fsync`, and a
crash here is the end of the process.
