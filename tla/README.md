# WEFT OS: formal models

WEFT OS is a Linux desktop whose applications are WebAssembly components with an
HTML user interface. This directory holds TLA+ models of its core, the TLC
configurations that check them on small instances, and proofs that the TLA+
proof system (TLAPS) checks for every value of the constants.

* [Inventory](#inventory): the system's parts and what makes each correct
* [Modules](#modules): which module models which part, and how
* [Runs](#runs): what each TLC run checks, its bounds, what it shows
* [Theorems](#theorems): what is proved, along which argument
* [Findings](#findings): where the code does not do what it says
* [Not modelled](#not-modelled)
* [Plan](#plan): the modules, runs and theorems still to come

To check a run, `tlc -config MCAppdSession_session.cfg MCAppdSession.tla`; to
check the proofs, `tlapm AppdSessionProofs.tla`. `PROJECT.json` maps every
definition to the source lines it models and lists runs, mutants, hazards and
theorems.

## Inventory

Paths are relative to `crates/` unless they begin otherwise.

### Sessions: weft-appd

**Registry and dispatch** (`weft-appd/src/main.rs`). State: `SessionRegistry`
behind one mutex: `next_id`, the sessions with their states, the stop senders,
the relay senders, and a broadcast channel of notifications. Operations:
`LaunchApp`, `TerminateApp` (a close, which the application may decline, or a
forced stop), `IpcForward`, two queries, and `shutdown_all` on SIGTERM.
A request is handled on the task of the client's connection and takes the lock
several times, so requests interleave with each other and with the supervisors.
Correct when: what is broadcast and what a query answers agree; a forced stop is
never lost in the bounded stop channel; a launch forgets no session that is live or still
settles; a reply of "stopped" is true.

**Supervisor** (`weft-appd/src/runtime.rs`). One task for each session owns two
child processes (weft-runtime and weft-app-shell), the IPC relay, the file portal,
the mounted image and the session's client connection in the compositor. It waits
for the READY lines with a timeout, publishes readiness, then waits for a child's
end, a stop request or a declined close; `settle` kills, reaps and releases.
Hard: seven exits, each with other things to release; a stop racing READY; closes
repeated while one is pending; the channel's two places. Correct when: every exit
releases everything; the image outlives the children; readiness is never published
after a stop; every startup, close and forced stop ends.

**Start, restore and save** (`main.rs`, `save_session`, `load_session`). The list
of running applications is written at shutdown, removed at the start and
restored once the compositor is there. Hard: a crash between removal and restore.

**Endpoints** (`ws.rs`, `ipc.rs`). WebSocket clients with roles and a Unix socket;
each has a receiver of the broadcast channel, which drops what a slow receiver
has not read. Correct when a client can tell, or does not need to.

**Compositor client** (`compositor_client.rs`). One task keeps a connection to
the compositor, queues frames with descriptors, and sends again the frame that
failed. Correct when a descriptor reaches the message it belongs to.

**Launch resolution, grants, mounts** (`launch.rs`, `grants.rs`, `mount.rs`).
Resolves the link of an application, pins the revision, checks the owner and the
approval, prepares the data directory, mounts a verified image. Everything it
read may have changed when it is used; the pin is the only lock a launch takes.

### Packages: weft-pack and weft-ipc-types

**Store, owner records, approvals** (`weft-pack/src/main.rs`,
`weft-ipc-types/src/{store,trust,approval,package}.rs`). A store holds revisions
named by their content's digest, a link to the active one and a link to the one
kept for a rollback. Two records in the data home name the publisher that owns an
ID and the capabilities the user approved. `install`, `rollback`, `uninstall` and
`approve` change them under a per-ID owner lock; a launch shares a `flock` of the
revision it pinned, a removal takes it exclusively. Hard: no transaction spans
the files, so each operation orders its renames around one commit point and
undoes what came before; it may be killed anywhere; launches interleave. Correct
when: the link always leads to a complete revision; what a session pinned stays; an
ID's owner is never replaced while something is installed or data remains; an
approval does not outlive what it was given for; a failed installation leaves
nothing behind.

**Application data** (`weft-ipc-types/src/package.rs`, `weft-appd/src/grants.rs`).
Data an earlier weft-appd kept inside the package directory is moved out by a launch or by
weft-pack, whichever comes first. Correct when it is never in both places or in none.

**Manifest and capability parsing** (`weft-ipc-types`): pure functions of text. What a
capability becomes (grants of the runtime, directories of the portal) passes through
four encodings; correct when a session may do exactly what its package declares.

### Windows: weft-compositor

**appd connection** (`appd_ipc.rs`): accepts weft-appd's connection, receives
descriptors beside messages and matches them by order, attaches and removes
clients. Correct when a client is removed exactly when its session ends and a
descriptor is not given to another session.
**Windows and input** (`windows.rs`, `state.rs`, `input.rs`): the window order,
activation and focus, panels with reserved strips, shortcuts that take presses away from
the focused window, swipes. Hard: windows of several clients map, close and lose their
session in any order. Correct when focus is on the window in front, a session takes
focus by mapping only once in a life of its client, and a release goes where its press went.
**Backends** (`backend/drm.rs`, `backend/winit.rs`): devices, connectors and outputs that
come and go. Correct when the layout's outputs are those that have a CRTC.

### Processes around a session

**weft-app-shell** (`embedder.rs`) shows one application's page. State: the window, the
latest frame, the close question with its deadline and answer. Correct when weft-appd is
told READY once the page is drawn and hears of every close it waits for.
**The relay** (`weft-appd/src/{runtime,ws}.rs`, `weft-runtime/src/ipc.rs`) carries
messages between page and component through a WebSocket, two channels and a socket
on which a message is a line. Correct when nothing is reordered, repeated or altered.
**weft-runtime** bounds the component's memories and the helper programs it calls.
**weft-file-portal** reads and replaces files of the granted directories; correct when a
file is always one whole content. **weft-mount-helper** is the privileged end of image
mounts; correct when what is mounted is what was asked for, whichever helpers run.

### The trusted shell

**weft-servo-shell** (`embedder.rs`, `shell_client.rs`) finds weft-appd by two files,
holds the panel and forwards the gestures it gets. The **system UI page**
(`infra/shell/system-ui.html`): the taskbar follows the broadcasts and queries
anew after a reconnection. Correct when it shows the sessions that run.

**weft-build-meta**, examples and test tools.

How they interact: clients send requests to weft-appd over WebSocket or a Unix
socket and hear broadcasts; weft-appd spawns the runtime and the shell, hears
READY and exits, relays messages between them, and tells the compositor which
Wayland connection belongs to which session; weft-pack and weft-appd meet only in
the file system, through links, locks and records.

## Modules

| Module | Models | Used by |
| --- | --- | --- |
| `SessionLifecycle` | what clients are promised about a session | `AppdSession` refines it |
| `AppdSession` | registry, dispatch, supervisor and children | `MCAppdSession`, `AppdSessionProofs` |
| `PackageStore` | one application's store, records and launches | `MCPackageStore`, `PackageStoreProofs` |
| `LossyFifo` | messages on their way, in order, some lost | `CompositorLink` and `AppRelay` refine it |
| `CompositorLink` | weft-appd's compositor client, the compositor's end, the clients bound to sessions | `MCCompositorLink`, `CompositorLinkProofs` |
| `WindowStack` | stacking, focus, panels and layout | `MCWindowStack`, `WindowStackProofs` |
| `ClientFeed` | broadcasts, their lag, the taskbar and a session's bridge | `MCClientFeed`, `ClientFeedProofs` |
| `Parts` | the eleven parts below, one of which moves | `MCParts` and the three modules of proofs about it |
| `ShellInput` | the compositor's shortcuts | `Parts`, `DevicePartsProofs` |
| `AppShell` | the event loop of weft-app-shell and the close question | `Parts`, `SessionPartsProofs` |
| `AppRelay` | page, bridge, relay task and component | `Parts`, `MCAppRelay` |
| `FilePortal` | connections, reads and writes of the file portal | `Parts`, `FilePartsProofs` |
| `ImageMounts` | mount helpers, devices and mountpoints | `Parts`, `FilePartsProofs` |
| `DrmOutputs` | devices, connectors and outputs | `Parts`, `DevicePartsProofs` |
| `SystemShell` | swipes, the panel, the endpoint files, forwarded gestures | `Parts`, `SessionPartsProofs` |
| `SessionRestore` | the saved list of open applications | `Parts`, `SessionPartsProofs` |
| `AppData` | the move of earlier application data | `Parts`, `FilePartsProofs` |
| `SessionGrants` | from declared capabilities to allowed calls | `Parts`, `DevicePartsProofs` |
| `RuntimeHost` | memory limits and helper programs of weft-runtime | `Parts`, `DevicePartsProofs` |
| `MC...` | TLC instances | the `.cfg` files |
| `...Proofs` | inductive invariants and theorems | |

The modules meet at named edges. `AppdSession` has a compositor connection that is up or
not; `CompositorLink` has what is on it. `CompositorLink` binds and releases the
clients of sessions; `WindowStack` has what their windows do (`Attach`, `Release`).
`AppdSession` broadcasts; `ClientFeed` has who hears it. A supervisor closes a session;
`AppShell` has how the application answers. `PackageStore` has the revision a launch
pins, `ImageMounts` what is mounted of it, `SessionGrants` what the session is given.

### AppdSession

A step is one critical section of the registry lock, or one stretch of a task
between two await points: what other tasks can see in between is a state.

| Variable | Code |
| --- | --- |
| `nextId`, `entry`, `sender`, `ipc` | `SessionRegistry`: `next_id`, `sessions`, `abort_senders`, `ipc_senders` |
| `stopq` | the stop channel (`STOP_QUEUE` places) of a session |
| `launch` | how far `dispatch` is with a `LaunchApp` |
| `sup` | the await point the supervisor is at |
| `proc`, `printed` | the children, and whether their READY line was printed |
| `declined` | the channel of declined-close reports |
| `image`, `relay`, `portal`, `client` | the fields of `OwnedSession` |
| `events`, `forced`, `disowned` | history: the broadcasts, the forced stops, the entries removed early |

`Launch` to `TellUnresolved` are `dispatch`'s `LaunchApp`, one action per
acquisition of the lock and per broadcast; `StopSupervised` and
`StopUnsupervised` are the two branches of `terminate`; `OpenRelay` to `Publish`
are `supervise` up to readiness; `RunEnds` to `CloseTimeout` its main loop and
`close`; `BeginSettle` to `FinishSettle` are `settle`, `StopUnstarted` is
`stop_unstarted`. Clients, children, the component and the compositor connection
act at any time. `ShutdownAll` drops the stop senders; the process exits 200 ms
later, and since `kill_on_drop` takes the children with it every behaviour may end
wherever it is.

Abstractions. The package image is always there and the file portal always
starts: without them there is one thing less to release. A repeat of the latest
broadcast is not recorded in `events`, which keeps the history finite; no
property counts repeats. A launch is refused without the compositor, but the check
precedes the session by a package resolution and an image mount, so the
connection may be gone when the session exists: the model starts with the connection
up and lets it change at any time. A session told to close that still runs at a
shutdown is saved as running, which is what `docs/architecture.md` says.

`SessionLifecycle` is the abstract specification: a session is absent, starting,
running, stopping, stopped or forgotten, moves only forward, and is stopped only
when no process of it lives. `AppdSession` maps its registry and its children to
it; sessions whose entry a stop request removed (finding `disowned`) are mapped to
a state of which nothing is promised.

### PackageStore

A step is one change another process can see: the rename of a link, the exchange
of two directories, a lock taken or dropped, a record written. A directory is
an inode, so it keeps its identity when it is renamed, as it does for a session
that has it open. A package is a content and a signature, a revision a digest of the
content.

| Variable | Code |
| --- | --- |
| `body`, `torn` | what a package directory holds; whether its removal was cut short |
| `name` | the entries of `.revisions/<app_id>/` |
| `active`, `previous` | the links `<store>/<app_id>` and `previous` |
| `claimed` | the exclusive locks of weft-pack (`Claim`) |
| `sess` | launches with their shared locks (`Pin`) |
| `owner`, `approved`, `data` | the owner record, the approval record, whether app data exists |
| `op` | the operation that holds the owner lock, with its local variables |
| `by`, `cut`, `consent` | history: who admitted a revision; whether an operation was cut short; what was approved for what is installed |

`BeginInstall` to `PlaceRefused` are `install_dir` and `place` up to the
placement; `KeepPrevious`, `Switch` and `ActivateFails` are `activate`; `CleanStaging` to
`DropRecord` undo a failed installation; `Unclaim` to `SettleFails` follow the
commit point; `BeginCollect` to `EndCollect` are `collect`, which install, rollback
and uninstall share; `BeginUninstall` to `ForgetFails` are
`uninstall_package_from` with both of its branches. `Resolve` to `Prepare` are a
launch: `resolve_in`, `pin`, `verify_owner`, `record_first_owner`,
`check_approval` and `derive`. `Crash` kills weft-pack at any step: its locks go,
what it wrote stays. With "error" in `Faults`, a step whose system call can fail
takes the code's error path.

Abstractions. One application in one store that starts empty, so the package
directories of stores older than revisions do not occur. One operation runs at a
time, which is what the owner lock enforces. A crash ends the process, not the
machine: the loss of unsynced writes is not modelled. The trust store is constant.
`--approve` and `--claim-data` are chosen where they are read, since nothing reads
them twice. What an interrupted operation left outside the revisions is removed
once it is an hour old; whether it is, is chosen at the collection.

### CompositorLink

Both ends of weft-appd's connection to the compositor, with several connections
after one another and restarts of either side. A frame crosses a socket in two
pieces, the first of which carries the descriptor of an `AttachClient`. On weft-appd's side
(`compositor_client.rs`): `queue` and `unsent` are the outbound channel and the message
whose write failed, `Connect` to `ReaderEnds` are `run_client`. On the compositor's side
(`appd_ipc.rs`): `Accept`, `ReadHead`, `ReadRest` and `Disconnect` are the event sources,
`fds` the descriptors received, `sessions`, `clients` and `reports` the Wayland
client of each session and the disconnections on their way through the loop's channel,
`outBuf` and `retry` the frames kept for weft-appd.

`LossyFifo` is the abstract specification: messages on their way form one sequence that
grows at the end only, from which messages leave in any place, never to come back.

Abstractions. Frames towards weft-appd are counted, since weft-appd only logs them. The
failures of `try_clone` and of a source's registration are not modelled.

### WindowStack

`stack` is the order of `Space`'s elements, `geo` what each window was last given,
`attached` and `focusedOnMap` the sessions of `WeftAppdIpc`. `MapWindow`,
`ToplevelDestroyed`, `RegisterPanel`, `SetZone` and `PanelDestroyed` are the clients'
requests with the calls of `windows.rs` they make; `Click`, `ActivatePanel` and
`ActivateSession` activate; `ConnectorConnected` to `Resized` are the backends'.

Abstractions. Geometry has one axis. `device_removed` lays nothing out, so `LaidOut` is
not claimed until the next layout. With two panels focus may stay beneath a window
(`FocusInFront` says what holds then); the shell registers one, which the run has.
Popups, subsurfaces and pointer focus are left out.

### ClientFeed

A behaviour follows one client, either the page or the bridge of one session: `chan` and
`bchan` are its receiver of the broadcast channel, of `Capacity` notifications, `toAppd`
and `toPage` its socket, `srv` the task of its connection. Sessions start and stop at any
time. `missed` records that notifications were lost: weft-appd does not send them
again, and the page queries only when it connects.

### Parts

Each is one module with one variable group. `Parts` declares all of them, instantiates each
module and lets one move at a time; `MCParts` is its TLC instance.

* `ShellInput`: `pressed`, `suppressed_keys`, `super_tap` and whose window has focus;
  presses and releases of several keyboards, buttons, touches and focus changes.
* `AppShell`: `embedder.rs` handler by handler, with the supervisor's `close` and the
  task that reads the app shell's output. The compositor sends no `window_closed` to an app
  shell, and the shell's own connection changes none of the modelled state.
* `AppRelay`: the bridge script's queue, the WebSocket, the relay task's channel and
  buffers, the socket in pieces, the component's buffer. `IpcForward` on the Unix socket
  takes the same way from the channel on, and has no check of its own for line breaks.
* `FilePortal`: `NEXT`, the entries of the directories and what of them is on disk, each
  connection's write step by step; processes killed, the machine stopped, names
  swapped for links. When the machine stops, a temporary name already renamed or removed
  may be back. A listing changes nothing; links in the directories above a file are
  left out.
* `ImageMounts`: the commands of `cmd_mount` and `cmd_umount` one by one, the device lock.
  A helper may be killed at any of them, also while it waits for a `veritysetup`: the
  lock is free then, and the command runs on (`leftOpen`, `leftClose`). What such a
  command opens is `orphaned` until it is closed. weft-appd makes a new mountpoint for each
  mount; the model allows any to be used again, which meets more.
* `DrmOutputs`: devices added and removed, scans, outputs created and destroyed, frames.
  The scanner is external. A paused session, rendering after an empty frame
  and the globals that outlive an output are left out.
* `SystemShell`: swipes (one touchpad, one axis) to the panel, batches of gestures, the
  thread that forwards them, both files weft-appd replaces when it starts; writing the port may fail before or after the
  old file was truncated. `WEFT_APPD_WS_PORT` is not set. Across batches
  no order is promised; a connection closed early may lose gestures.
* `SessionRestore`: a start, the restore task beside other launches, stops and kills. A
  session asked to close is running, and saved, until it has answered (`asked`); `open` is
  what the user had, through a kill as well, and `gone` whether it was not saved. That the
  old list cannot be removed is left out.
* `AppData`: launches that race and one weft-pack over one application's earlier data. A
  launch may be refused because another has just moved the data; it is started again.
* `SessionGrants`: `derive` with the failures of the host's directories and of the
  preparation of the data directory, the arguments, their parsers and the checks at each call.
  Text is parsed only as far as the separator `::` matters.
* `RuntimeHost`: `memory_growing`, and a helper's run with the thread that reads its
  output; the helper is killed when its time is over or its status cannot be had. A helper that leaves its output open to another process when it ends would
  keep `join` waiting; it is assumed not to.

## Runs

| Run | Instance | Shows |
| --- | --- | --- |
| `session` | one supervised session, or two in an appd that supervises none, 154,437 states | safety and liveness of the supervisor, refinement of `SessionLifecycle` |
| `store` | three packages, two revisions, three directories, one launch, crashes and errors, 1.1 million states up to symmetry | the store's safety |
| `link` | two sessions, two lives of weft-appd, two connections, one fault, 233,922 states | the connection's safety, refinement of `LossyFifo`, liveness |
| `windows` | four windows, one session, two outputs, one panel, 71,972 states | order, focus and layout |
| `feed` | two sessions, two lives of weft-appd, one drop, 257,554 states | what the taskbar and a bridge learn |
| `parts` | eleven modules, one at a time, 306,726 states | one property of each, of the shell two |
| `disowned`, `lateack`, `approval`, `orphandata`, `rollback`, `altered` | small ones of the same modules | a counterexample each, see Findings |

`session` checks, beside the type invariant: `ForcedStopPending` (an accepted forced
stop is queued as long as its supervisor listens, whatever closes came before),
`NoReadyAfterStop` (no client hears of readiness after a stop),
`BroadcastMatchesRegistry` (the latest broadcast is what a query answers),
`ReleasedWhenDone`, `ImageOutlivesChildren` and `ImplementsLifecycle`; and the
liveness properties `WaitsEnd` (every startup and every close ends) and `StopsEnd`
(a forced stop settles its session, and one shown as stopping stops). With a second
session a launch forgets stopped ones: forgetting one that is live, or stopped with its
supervisor not done, is no step of a life cycle.

`store` checks, beside the type invariant: `HeldIntact` (a session's revision keeps name
and content), `ActiveWhole` and `PreviousWhole` (the links lead to complete revisions),
`OwnerMatches` (what is installed or kept was admitted under the owner on record),
`ApprovalsAskedUncut` (unless an operation was cut short, what is approved of the
installed package was approved since it was installed) and `FailedInstallUndone`
(a failed installation leaves links and record as they were).

`link` checks `DescriptorsMatch` (the descriptors held are exactly the one of the
`AttachClient` that is arriving), `ClientsMatch` (a session and the client made for it
find each other, though the next weft-appd uses the same IDs), `OrderKept` (the
messages on their way implement `LossyFifo`: a message written again after a failure is
neither doubled nor moved), `GoneIsReleased` (sessions bound to applications that have
gone are all released) and `QueueDrains`.

`windows` checks `FocusInFront`, `FocusTakenOnce`, `LaidOut` and `StackingKept` (no window
comes over another but by being activated). `feed` checks `TaskbarCatchesUp`
(wherever it connected, reading what is underway leaves the taskbar with the sessions that
run), `BridgeSeesStop` and `TaskbarConverges`.

`parts` checks `ShortcutsAreWhole` (a release goes where its press went),
`ShellAnswers` (weft-appd hears from the app shell whenever it waits for it),
`RelayKeepsOrder`, `WritesAreWhole`, `MountsAreVerified`, `OutputsBacked`,
`ForwardingSound` (each gesture is broadcast at most once, and the token of a
weft-appd that wrote its port never goes to the port of an earlier life), `EndpointFound`
(the shell comes to hold the token and the port of the weft-appd that keeps serving, and
keeps them), `RestoresWhatWasOpen`, `DataIsWhole`, `AccessIsDeclared` and `CallsAreBounded`.
The eleven modules share no variable, so their product has no behaviour that
their union has not: `part` chooses one at the start, and only it moves.

**Bounds.** Sessions meet only in the pruning of a launch and in the shutdown, so
one supervised session has all of the supervisor's behaviours (`MCNext`): a second one is
launched only where no runtime is configured and no compositor connected, and there the
first is resolved, stopped, forgotten or still live when the launch prunes.
`StopQueue = 2` is the code's `STOP_QUEUE`: the forced stop
fits because a close is queued only into an empty queue, which three places would
not put to the test. `KeptStopped` stands for `KEPT_STOPPED`, which is 32; with none kept a
launch already forgets what it may and must keep what it may not, and the theorems hold for any
number. In the store two revisions give one active
and one kept, and a third directory is the staged copy or an abandoned one; two
packages of one content and different signatures make `same_revision` say no;
one of the packages declares a capability and the other application data. One launch
meets every step of every operation; two launches meet only in the
shared locks, and the theorems below hold for any number.

In `link` one fault is enough for each failed write and restart to meet every other step;
two sessions show descriptors of different messages in a row, and a queue of one place is
full at once. In `windows` the shell's window and another outside any session, with
two of one session, give every kind of pair; outputs of two heights and a strip of
two leave no work area at all on the smaller one. In `feed` a channel of two notifications lags at the third.
In `parts`: two keyboards and three keys; two payload kinds and rooms of one place, so
that every full buffer occurs; two files, one in two grants of different modes, two
writes in each of two processes; two helpers at two mountpoints with one device allowed, each with a command of its
own left behind when it is killed;
two devices with two connectors and one CRTC each, so that a CRTC changes hands;
two swipes over two lives of weft-appd; two applications with two instances;
three launches; two capabilities in any order; two memories that do not fit together and a helper
that writes more than its limit. `MCParts_parts.cfg` gives every bound its value.

Directories are interchangeable (`SYMMETRY`): the model compares them for equality
only, and the run has no liveness property.

**Fairness.** `AppdSession`'s `FairSpec` assumes weak fairness of each session's dispatch, of its
supervisor and of its two timers (`MCAppdSession` takes of it what can ever run): tokio runs a task that can go on, and a timer
that is due fires even while other branches of its `select!` are ready now and then,
because the deadline is fixed before the loop. Nothing is assumed of clients, children,
the component or the compositor: a child may neither print nor exit, a user may ask to
close for ever. After a kill, waiting for the child ends: SIGKILL cannot be refused.
`CompositorLink`'s assumes that weft-appd's client task goes on, which tries to connect
for ever, and that the compositor's event loop dispatches its listener and its sources.
`ClientFeed`'s assumes that the page, which connects again by a timer, and the tasks of
weft-appd go on; the number of drops and restarts is bounded, so that it is quiet in the
end. `MCParts` (`MCSpec`) assumes of `SystemShell` that the shell's event loop looks for the
endpoint again (`ENDPOINT_CHECK_INTERVAL`, for which it asks to be woken) and gets from the
first file to the second. No fairness is assumed of faults, users or applications, and the other
modules have no liveness property.

**Deadlock** is not checked: weft-appd stops after its shutdown, and a session with
nobody to ask anything of it rests, as a store or a desktop does.

Each property has a mutant: a plausible mistake in one mapped definition (a
forgotten release, an off-by-one, a missing check of the pinned path, a link left
behind) under which the run finds it violated. Mutants are the operators named
`Mutant...`, each beside the definition it would replace.

## Theorems

Each holds for every value of the constants that satisfies its module's assumption, which
the `MC` module checks for its instance. The invariants named here are inductive; what
they add to the property is what one must know of the steps before.

**Sessions.** `AppdSessionProofs`, for any number of sessions and any stop queue of at least
two places (`QueueAssumption`, `BoundAssumption`):

* `TypeCorrect`: `Spec => []TypeOK`, the bound of every stop channel included.
* `ForcedStopIsPending`: `Spec => []ForcedStopPending`. It must be known that a forced stop
  found room. `StopInv` adds that everything behind the head of a stop channel is a forced
  stop (`CloseOnlyFirst`), so that a full channel of two or more places already holds
  one, and that a stop is accepted only once the launch has registered its sender
  (`StopNeedsLaunch`).
* `ReleasedAtTheEnd` and `ImageOutlives`: `OwnedInv` says at each of the supervisor's steps
  which resources may exist. At the last step it must be known what the steps before it
  released.
* `NeverReadyAfterStop` and `BroadcastsMatch` from `LifeInv`: which steps of dispatch and supervisor occur together
  (`Launched`) and, unless the entry was removed early, which states the entry can have at
  each of them (`EntryFits`), what has been broadcast in each state (`Heard`) and in
  which order (`Ordered`). Readiness is published by a supervisor that read the entry
  one step earlier: `EntryFits` is why a stop in between is seen.
* `LifeImplemented`: `Spec => ImplementsLifecycle`, the refinement of `SessionLifecycle`.
  Each action maps to one abstract step or a stutter under `LifeInv` and `OwnedInv`.

**Packages.** `PackageStoreProofs`, for any packages, publishers, revisions, launches and any
set of directories (`PackageAssumption`, `DirAssumption`):

* `TypeCorrect`: `Spec => []TypeOK`, which includes that no directory is locked by
  weft-pack while a session pins it.
* `PinnedStays`: `Spec => []HeldIntact`. `HeldIntact` says nothing of the directories an
  operation is about to remove; `StoreInv` adds that a directory has one name and a named
  one is filled (`NamedOnce`, `NamedFilled`), that what an operation removes has lost
  its name or is locked (`StagedKnown`, `VictimKnown`, `CreatedKnown`), that what it will
  remove is named (`TodoKnown`), and which revision it is about (`TargetKnown`). Each step
  then changes only directories without a name (lemma `UnnamedStep`) or takes the name
  of a directory that no session holds.
* `ActiveIsWhole`, `PreviousIsWhole`, `OwnerIsKept` and `FailuresUndone` (an action property)
  from `FullInv`, which adds `LinksInv` and `OwnerInv` to `StoreInv`. `LinksInv`: a revision
  holds the content its name says; what is about to be activated is complete
  (`CopySound`); between the two links of an activation the revision kept before is known
  to the operation only and is complete (`KeptSound`); a revision that a failure will
  remove, or a collection, is none that a link names (`CreatedApart`, `TodoApart`).
  `OwnerInv`: what is about to be activated was admitted under the owner on record
  (`TargetOwned`, `KeptOwned`); a record is taken back only where nothing is installed
  (`OwnerFree`); an installation remembers the links and the record as they were
  (`UndoKnown`). `KeptSound` is where an activation could fail: the kept link is
  overwritten before the active one, and a failure must restore what it held.
* `ApprovalsAreAsked`: `Spec => []ApprovalsAskedUncut` from `ConsentInv` over `FullInv`.
  Between an activation and its settling the record may still hold what was approved for
  another package; `Consented` says that of it only what the activated package declares
  counts, and `RemovalKnown` that an uninstall has removed the link by then.

**The compositor.** `CompositorLinkProofs`, for any sessions, lives, connections, faults and
queue (`LinkAssumption`):

* `DescriptorsAlwaysMatch` and `ClientsAlwaysMatch` from `LinkInv`: a message belongs to the
  life of weft-appd that wrote it (`Lives`); the pieces on each connection alternate, from
  what was read of the first message to what is being written of the last, and only the
  connection that is served is half read (`Streams`); a closed connection is still held
  by the compositor (`Sockets`); no `AttachClient` is pending twice, in the queue, kept
  after a failure or on a connection (`Once`), nor after it was handled (`Apart`). The
  last two are what keeps a session from getting a second client.
* `OrderIsKept`: `Spec => OrderKept`, the refinement of `LossyFifo`, from `FifoInv`:
  weft-appd's connection is the newest the compositor has (`Places`), and every message on
  its way was queued before (`AllOld`). The messages on all connections are one
  sequence, a concatenation of as many as there are connections; the lemmas about it are
  proved by induction over their number.

`WindowStackProofs`, for any windows, sessions, outputs and panels (`WindowAssumption`):

* `TypeCorrect`; `FocusStaysInFront` and `StackingIsKept` (an action property) from `Shape`:
  the order has each mapped window once. The lemmas `Raised`, `Lowered` and those on
  removal say what the list operations do to the order.
* `FocusIsTakenOnce` from `Taken`: a session whose client has taken focus is on record.
* `AlwaysLaidOut`: `Spec => []LaidOut`; the work area is inside its output for any
  list of reserved strips (`WorkAreaInside`, by induction over the panels).

**Clients.** `ClientFeedProofs`, for any sessions and any capacities (`FeedAssumption`):

* `TypeCorrect`, and `TaskbarIsRight`: `Spec => []TaskbarCatchesUp`. `Shown` is what the page
  will show once it has read everything underway. Then, unless notifications were lost,
  `Shown` has only sessions that run (`NoGhosts`) or were acknowledged late (finding
  `lateack`), and once the query is answered all of them (`NoneMissing`). A reply
  overtakes the notifications in the channel; `StoppedTrue` and `ReplyTrue` say why it
  matters in one direction only.
* `BridgeEnds`: `Spec => []BridgeSeesStop`, which is inductive once typed.

**The parts.** `FilePartsProofs`, `SessionPartsProofs` and `DevicePartsProofs` prove theorems of
`Parts`' `Spec`. A step of `Parts` is a step of each module or leaves it alone (lemma
`PartSteps`). `PartsAssumption`: there are finitely many keyboards, mountpoints, connectors and
memories, limits are numbers, and the marks for "nothing" are none of the values they
stand beside; each is so in any machine.

* `WritesStayWhole` from `PortalInv`, for any files, grants, connections and processes: every
  name holds a content that is on disk (`EntriesSound`), so does what is about to be
  renamed (`WorkSound`), and temporary names are used up (`NamesUsed`). The flush before the
  rename is what makes a content outlive the machine.
* `MountsStayVerified` from `MountInv`: only the helper with the lock opens devices, so those
  there are were seen by it (`LockHeld`) and the limit holds; what it has opened is its
  image's as long as it is open, though an unmount may close it (`MountedVerified`,
  `WorkNamed`). A `veritysetup` whose helper was killed is the exception the theorem
  states: what it opens is counted by nobody, and a mount may find
  it under its own mountpoint.
* `DataStaysWhole` from `DataInv`: once a launch makes or is granted the directory of an
  application that had earlier data, that data is in it (`DataIsThere`), and weft-pack
  keeps what is there only when nothing is left to be moved.
* `ShellAlwaysAnswers` from `ShellInv`: an app shell without a window has painted and printed
  nothing (`NewIsSilent`), so that a close request finds a window.
* `OpenIsRestored` from `RestoreInv`: at each phase of a start, the list of what was open is
  in the file, in memory, or among what runs and what is still to be launched; from the
  removal of the old list to the end of the new one it is in no file, and a weft-appd that
  ends there starts again with nothing.
* `ForwardingStaysSound` from `GesturesInv` and `EndpointInv`: a gesture is at most once in
  the batch, the events or what was broadcast, and in one of them only; a port file there
  is, is of the life of weft-appd whose token is read, or of a later one (`Later`), unless the
  one whose token it is could not write its port.
* `ShortcutsStayWhole` (an action property) from `KeysInv`: for each key the presses taken
  and those delivered are together as many as the keyboards that hold it, and a press of
  Super is always taken.
* `OutputsStayBacked` from `OutputsInv`: the outputs are exactly those of the surfaces
  (`OutputsAre`), none is on two (`OnOne`), and a CRTC that has one has a connector
  by the scanner's account (`Scanned`).
* `CallsStayBounded` from `MemoryInv` and `CallInv`: the counter is the sum of the memories
  unless a growth failed, and while output is read, what the pipe and the reader hold is
  what was written. The sum is a recursive function; that it exists for any finite set is
  shown before it is used.
* `AccessStaysDeclared` from `GrantInv`: of the first n capabilities exactly the grants they
  stand for were derived (`Good`, by induction over n), and an argument is parsed back to
  the grant it was made from (`ThreeParts`, `ParseIs`), so that what a session may do, and
  what the portal may open, is what was declared. The data directory is prepared only
  for a manifest that declares it (`NeedsDataIs`).

**Only model-checked.** The liveness properties `StopsEnd`, `WaitsEnd`, `QueueDrains`,
`GoneIsReleased`, `TaskbarConverges` and `EndpointFound`: fairness is defined by ENABLED, of which this prover
proves nothing. `RelayKeepsOrder`, two refinements of `LossyFifo` and `Unaltered`, is left for
the next step of the plan; it needs payloads that do not end in a carriage return, since
with them it is false (finding `altered`).

## Findings

Each is a run that TLC must find violated.

* `disowned` (`weft-appd/src/main.rs:553`): a launch inserts its session and
  registers its stop sender in two critical sections. A stop request between them
  finds no sender, removes the entry and answers "stopped"; the session then starts, though
  it is in no list, its state reads as not found and it will not be saved. A second stop
  request finds the sender that was registered meanwhile, and stops it.
* `lateack` (`weft-appd/src/main.rs:583`): the launch is acknowledged after the
  supervisor was spawned, so a session that ends at once is shown stopped first, and
  the taskbar adds an entry that nothing removes.
* `approval` (`weft-pack/src/main.rs:1096`): an uninstall that is cut short after its link
  is gone is completed by a second one, which releases the owner and leaves the
  approval for the next installation under the ID.
* `orphandata` (`weft-appd/src/grants.rs:147`): a launch creates application data
  after an overlapping uninstall found none and released the owner record.
* `altered` (`weft-appd/src/ws.rs:223`): a payload from the page that ends in a carriage
  return is framed as a line, of which the component's side takes it off again: what
  "is dropped rather than altered" is altered.
* `rollback` (`weft-pack/src/main.rs:737`): "an interruption between the two steps keeps
  both revisions" holds for an installation. A rollback killed there leaves both links at
  one revision: the other cannot be rolled back to, and the next operation removes it.
Five more sentences of the repository are false in the models, for which there is no run of
their own; each is named with the formula that TLC refutes as an invariant:

* `weft-mount-helper/src/main.rs:140`: device creation is serialized, "so the per-user limit
  holds against concurrent mounts". The lock is closed on exec (main.rs:148), so a helper killed while
  `veritysetup` opens its device frees it before the device is there, and the next helper
  counts without it: `Cardinality(Devices) <= MaxDevices` in `ImageMounts`.
* `weft-appd/src/main.rs:167`: of the saved sessions "a session the user asked to close is
  not among them". It is among them as long as it has not answered, as
  `docs/architecture.md:23` says: `phase = "stopping" => saved[a] + asked[a] <= open[a]` for
  any application `a` in `SessionRestore`.
* `weft-appd/src/main.rs:265`: a weft-appd that cannot write its port warns that "port
  discovery will fall back to default". The port file of an earlier life stays, and the
  shell takes that: `endpoint.token \in unwritten => endpoint.port \notin 1 .. endpoint.token`
  in `SystemShell`.
* `weft-appd/src/grants.rs:112`: "so a refused launch leaves nothing behind" holds for a launch
  refused for its capabilities. One whose data directory cannot be made private has moved
  or made it: `stage = "refused" => ~prepared` in `SessionGrants`.
* `docs/architecture.md:23`: "at most 32" stopped sessions are kept. More are, when they
  stop, until the next launch forgets them (main.rs:58, 92):
  `Cardinality(StoppedIds) <= KeptStopped` in `AppdSession`.

Known limits of the code that the models show and nothing in the repository denies: a
taskbar that lost notifications stays wrong until it connects again (`missed` in
`ClientFeed`); after `device_removed` windows keep their geometry until the next layout
(`lostOutput` in `WindowStack`); a weft-appd killed before it has saved loses what was open
(`gone` in `SessionRestore`); a late report of an earlier close answers the next one
(`AppShell`, and `docs/architecture.md:139` says so); a mount may end up over a device that
a killed helper's `veritysetup` opened for another image (`orphaned` in `ImageMounts`); a
launch that races another's
move of application data may be refused once (`AppData`).

## Not modelled

Parsing of manifests, capabilities and frames, and digests and signatures
themselves: pure functions, whose results the models take as inputs. Several stores and
package directories of stores older than revisions, but for their data. The browser
engine and the scripts it is given, Wayland's own objects, rendering, popups and cursors,
the Wasm engine. The loss of power during a package operation (the file portal's is
modelled). The pause of the compositor's session, which only stops drawing.
`write_owner` is one step: its failure after the record was linked is left out.

## Plan

1. `RelayKeepsOrder` as a theorem: each direction refines `LossyFifo` (every place is a queue,
   and moving a message from one to the next leaves their concatenation as it is), and
   nothing is altered because the pieces of a line stay together.
2. Package directories of stores older than revisions, and a second store, in `PackageStore`.
