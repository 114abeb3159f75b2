# omnect-device-service in TLA+

A verification development of `omnect-device-service`: the systemd service that
bridges the Azure IoT Hub (device twin, direct methods, messages) with the A/B
update, factory reset, consent, network, SSH tunnel and status functions of an
omnect device. It holds TLA+ modules for the parts in which order, failure and
restarts matter, TLC configurations that check them, and TLAPS proofs about all of
them: loading and running a firmware update, the version order by which
downgrades are refused, the validation of the freshly flashed root, the state in
which the one hands over to the other, the loop of the twin, the file watcher,
the web service, the SSH tunnels and the features that report to the twin.

Paths below are those of the repository. `PROJECT.json` maps every definition
to the lines it models, every run to its properties, every property to a mutant
that breaks it, and every hazard to the properties that watch it.

    tlc -config UpdateValidation.cfg MCUpdateValidation      # likewise the others
    tlapm UpdateValidation_proofs.tla

## Inventory

The service is one tokio process (multi-threaded executor). `Twin::run` is a
single biased `select!` loop that owns all features and executes commands one
at a time; everything concurrent happens in spawned tasks, in the web service's
handlers, in systemd's timers and scripts, and in other processes. Every fatal
error ends the process; `Restart=always` starts it again, `ExecStopPost` may
reboot the device.

| component (source) | state | operations | hard because | correct when |
|---|---|---|---|---|
| update validation (`twin/firmware_update/update_validation.rs`, `systemd/*exec_stop_post*`, `*observer*`) | five bootloader variables, validate, barrier and configuration file, the spawned task, its timer | start, resume, authenticate, commit, time out | three independent watchers reboot; crash or power loss between any two writes | a root becomes the default only after it was validated; every trial ends, but for the named exceptions |
| twin loop (`twin/mod.rs`) | client, the future that creates it, `TwinState`, six channels of 100, `waiting_for_reboot` | select, connect, reset, statuses, requests, reports, shutdown | sends to channels it alone receives from; statuses of an old client | state, online status and the validation's last word agree; callers are answered |
| firmware update (`twin/firmware_update/mod.rs`) | both roots, environment, argument files, loaded update, watchdog interval, the update agent's units | load, run, rollback | guards undo in spawned tasks; any step fails; the watchdog kills a long step | a power cut boots a complete root; a failed run leaves nothing behind |
| file watcher (`twin/feature/fs_watcher.rs`) | kernel watches, tables of persistent watches and oneshots, debounce deadlines | register, start-up race, events, flush | check-then-watch races, shared descriptors, blocking sends, queue overflow | every change is followed by a command; a oneshot fires once |
| web service (`web_service.rs`) | endpoints and their file, channel map, HTTP client, all behind mutexes | register, unregister, publish, republish, requests to the loop | locks held across awaits, one task per post | no endpoint misses a value, the file is what is registered, no deadlock |
| ssh tunnel (`twin/ssh_tunnel.rs`) | semaphore, key and certificate files, ssh processes | key, open, close, termination task | early returns at every await, exits in any order, no timeouts | permits and credentials come back, ends are reported once |
| commands and streams (`twin/feature/command.rs`) | debounce and tick streams | convert, debounce, tick | a stream blocked in a send does not see its cancellation | one command per burst, none lost |
| systemd (`systemd/mod.rs`, `unit.rs`, `watchdog.rs`) | watchdog interval, jobs | reboot, unit actions, wait for running | awaiting signals that may not come | see the users |
| network, wifi, modem info, provisioning (`twin/network.rs`, `systemd/networkd.rs`, `twin/wifi_commissioning.rs`, `twin/modem_info.rs`, `twin/provisioning_config.rs`) | the last report | read D-Bus services or files, report on a change, a reload | signals that come before the subscription, calls that fail after the trigger was taken, reports dropped while there is no client | the twin shows the world as it is, or something is under way that makes the feature look again |
| consent, ssh CA, wait-online timeout (`twin/consent.rs`, `twin/ssh_tunnel.rs`, `twin/reboot.rs`) | files the service and others truncate and write | set, report, watch | a torn file, a write that fails half-way | what is reported is in the file |
| factory reset, reboot (`twin/factory_reset.rs`, `twin/reboot.rs`) | the request in the boot environment, the result of this boot | keys, reset, reboot | the request outlives the command and the process | a refused reset is never performed |
| system info (`twin/system_info.rs`) | boot time, fleet id | report, metrics | the clock synchronises before, while or after the service starts | local and cloud status agree |
| os version, archives (`firmware_update/os_version.rs`, `mod.rs`) | none | order, checks of an archive | hand-written comparison; entries in any order and number | a total order; only what the manifest describes is flashed |
| bootloader environment (`bootloader_env/`) | variables | get, set, unset | calls that fail | see the users |
| logging, health check scripts, data types | none to speak of | I/O | | |

**Interactions.** The loop calls features directly; features send reported
properties and messages to the loop's own channels and publish to the web
service's maps. Web service handlers, file watcher and cloud send command
requests to the loop and may wait for the reply. The loop tells the update
validation about the connection by a request to itself. Firmware update and
update validation share the boot environment and the configuration file across
a reboot. The watchdog is fed by the loop only, so whatever blocks the loop
longer than `WatchdogSec=30s` ends the process.

## Modules

| module | role | models |
|---|---|---|
| `UpdateTrial` | abstract specification | what a trial promises: boot once, commit with evidence, conclude after the commit |
| `UpdateValidation` | component | `UpdateValidation`, its task step by step, both scripts, the bootloader (external) |
| `UpdateValidation_proofs` | proofs | inductive invariant, two safety properties, refinement of `UpdateTrial` and what follows from it |
| `TwinConnection` | abstract specification | what the loop promises its features: senders with the first connection, `connect_twin`, authenticated, lost before the client is; reports in order |
| `TwinLoop` | component | `Twin::run` and its handlers, one feature standing for all |
| `TwinLoop_proofs` | proofs | inductive invariant per step of a handler, two safety properties, refinement of `TwinConnection` and what follows from it |
| `OsVersion` | algorithm | `OmnectOsVersion` and its order, with the lexicographic reference |
| `UpdateArchive` | algorithm | the checks `load` makes of an archive and its manifest |
| `FirmwareUpdate` | component, extends `UpdateArchive` | `load`, `run`, `LoadUpdateGuard`, `RunUpdateGuard` |
| `FirmwareUpdate_proofs` | proofs | the version order is total; two inductive invariants, types and the five safety properties of `FirmwareUpdate` |
| `UpdateHandover` | composition, extends `FirmwareUpdate` | its state as the initial state of `UpdateValidation`, across the reboot |
| `UpdateHandover_proofs` | proofs | every trial starts where `UpdateValidation` does |
| `FsWatcher` | component | registration and event task of the file watcher, inotify (external) |
| `FsWatcher_proofs` | proofs | inductive invariant of task, tables, kernel and queue, the three safety properties |
| `WebService` | component | endpoints, publish, republish, their mutexes and tasks |
| `WebService_proofs` | proofs | mutual exclusion and the two safety properties |
| `SshTunnel` | component | open, close, the termination task, ssh (external) |
| `SshTunnel_proofs` | proofs | permits as a count, credentials and reports of ends |
| `CommandStream` | component | `debounced_command_stream` between D-Bus signals and the loop |
| `Reporting` | component, extends `CommandStream` | what every reporting feature shares: creation, connection, patches, `tick_stream`, losses |
| `NetworkStatus`, `WifiCommissioning`, `ModemInfo`, `ProvisioningConfig`, `DeviceUpdateConsent`, `SystemInfo`, `WaitOnline`, `FactoryReset`, `SshTunnelCa` | components, extend `Reporting` | one feature each, with the part of the world it reads or writes |
| `Features` | composition | all of them, their `Next`, fairness and properties |
| `Features_proofs` | proofs | inductive invariant of loop, patches and each feature; four safety properties, one action property, refinement of `TwinConnection` |
| `MC…` | instances | values and initial states for TLC |

The modules meet at their interfaces. `UpdateHandover` composes the two halves of
an update: it instantiates `UpdateValidation` with the environment and files of
`FirmwareUpdate`, and `HandsOver` says that its `Init` holds whenever a trial is
named. `TwinLoop` and `Features` both model the loop, the one with its channels and
statuses, the other with what a feature reads and reports; both implement
`TwinConnection`, so that neither gives the features a connection the other
does not. The requests of `FsWatcher` and `WebService` are `FsEvent` and
`SendRequest` of `TwinLoop`; the loop's `Validate` requests are `SetAuthenticated`
of `UpdateValidation`.

### UpdateValidation

One behaviour follows one update from the reboot that ends
`FirmwareUpdate::run` to its end. `svc`, `status`, `cancel`, `localUpdate` are
the fields of the struct and the process; `pc` is the await the spawned task of
`start_timeout` is at (it can be dropped by its `timeout` only at one of
`Awaiting`, since the calls of the bootloader tools are synchronous; a drop by
the end of the process may come anywhere). Each variable written by `finalize`
is an action of its own, in the code's order, and may fail. A start of the
process may fail before it gets to its validation (`StartFails`): any `?` of
`Twin::new`, once, or at every start from then on (`unfit`), as a torn file of
endpoints does. Such a start is not counted in the barrier file. After the start
limit `omnect-device-service.timer` starts the service again (`TimerStarts`). The
reboot of the ExecStopPost script is assumed to succeed, that of `systemd::reboot`
is not. Boot arguments are
abstracted to *unset*, *old*, *new*. `BootFresh` and `BootAfterFailure` are what
the initramfs must do with the keys the service writes. `evidence` is history:
the facts this process has seen.

- `ImplementsTrial`: refinement of `UpdateTrial`. `MarkerLast`: the trial's mark
  is not cleared before the default root and the arguments are the running
  ones. `SucceededIsDurable`: a published success cannot be undone.
- `TrialDecided`: every trial is decided, but for those `Abandoned` names:
  `systemd::reboot` failed, which is only logged; or every start is in vain while
  the validate file is gone (`StartsInVain`), because a crash tore the barrier file
  or because `Twin::new` fails before as many restarts are counted as make the
  ExecStopPost script reboot.

### TwinLoop

A handler is a list `todo` of the steps it still has, each ending at an await
that may block on a full channel (`Blocked`), which only `WatchdogKills` ends.
The `select!` is biased, as the guards of the later branches say. `value` and
`cloud` are what there is to report and what the client was given last. Outgoing
messages are drained like reports and not modelled apart.

- `ImplementsConnection`: refinement of `TwinConnection`. `Handler` abstracts `todo`
  to whether `connect_twin` is among its steps. `Pollable` is in the guard of the
  end of every handler there: a client future that has completed is replaced
  before the loop polls it again, which would panic.
- `StatusPropagated`, `NothingUnreported` hold between two handlers, over late
  statuses, resets and restarts; `Answered` and `ValidationTold` are liveness, with
  `waiting_for_reboot` as the exception.

### FirmwareUpdate

One action per step of `run`; a root or a configuration that is being written is
*torn* until its step ends, while an argument file is replaced in one step.
`guard` holds the flags of
`RunUpdateGuard`, `rollback` is its spawned task, `restores` the tasks of
`LoadUpdateGuard`s that have not run yet. An archive is a sequence of entries
(`UpdateArchive`): images, manifests and checksums in any order and number, as
the loop of `load` finds them; contents stand for their hashes, so a damaged
image is one no manifest describes (`ArchiveAssumption`). A manifest without a
`sha256` makes `load` panic, and with it the process (`LoadPanics`).

- `PowerCutSafe`, `EstablishesTrial`, `RollbackRestores` have the premise
  `clean`: the run found a settled device with no trial under way. What happens
  without it is the run `firmware_update_trial`.
- `OnlyDescribedFlashed`: path and hash of the last image and the last manifest
  are kept separately; nothing in an archive makes an image pass with another
  one's hash. `NoDowngrade`: neither a load, nor a power cut in a run, nor its
  rollback leads a settled device to an older image.
- `HandsOver` (`UpdateHandover`): what a run leaves for its trial, also if it is
  killed or its reboot fails after it named the root, is a state that
  `UpdateValidation` starts from: its assumptions about the environment are facts.
  In particular no arguments are put up for validation that are in place already.
- `AduRestored`: a rollback starts the update agent's timer again, unless the
  start of the timer fails, the job of the service or of the timer never gets done
  (`unit_action` waits for it without end), or the process ends (`aduLost`).

### FsWatcher

A feature checks for its target (`CheckTarget`), registers a oneshot
(`WatchCreated`) or a persistent watch (`RegisterModified`) and reads its file
(`Read`) while files change. The task (`RaceCheck` … `SendModified`) awaits the
loop's bounded channel while the kernel's queue fills and overflows. The premise
is the code's own (`fs_watcher.rs:258-266`): watched paths are append-only state
markers, so a target does not disappear and a watched file is not replaced.

- `NoChangeLost`: a feature whose last reading is out of date has an event, a
  deadline or a command on its way. `ChangeReported` is its liveness.
- `FiresOnce`: a target that appears anywhere between check and loop is reported
  exactly once. `try_exists` may fail: the feature's check then takes the target
  for absent, the race check skips it. One that is there in both cases is never
  reported; `unchecked` remembers the targets the race check failed on, and they
  are exempt from being reported, not from being reported twice. `NoWatchLeaked`: a descriptor shared by a oneshot and a
  persistent watch is kept exactly as long as one of them needs it.

### WebService

Only locks that are held across an await are variables (`held`); a lock taken
for one statement is a guard. A request is `register`, `unregister` or
`republish`; saving is two steps, as the file is truncated before it is written.
A channel has one publisher, as the loop and the validation's task are. The
second map, of `GET /status`, is written together with the first.

- `NothingMissed`: whatever is published while an endpoint registers reaches it
  by the registration or by a task. Whether it is also the last to arrive is
  another matter: posts are tasks of their own and may overtake each other.
- `RegistrationsSaved`: concurrent requests save each other's changes.
- `Served`: the order in which locks are taken cannot deadlock.

### SshTunnel

`ssh` holds the processes and who waits for them: the command, a task, nobody.
Leaving `open_ssh_tunnel` by any path is `Cleanup`, whose removals may fail
unnoticed; ids may repeat. `left` is history: the certificates that a kill or a
failed removal left in /run. `client` is the client of the loop: without one the
loop takes a message from its channel and throws it away (`Discard`), so that
`missed` remembers the ends nobody will tell of; `told` counts what the client got.

- `CredentialsCleaned`: a certificate belongs to a command or a tunnel, or it is
  one of `left`. Keys stay when no tunnel is opened for them, by design.
- `EndReportedOnce`: the client is told of the end of each opened tunnel once, or
  the message is on its way; never twice, and not at all only for an end in
  `missed`: waiting for ssh failed, or the loop had no client.
- `TunnelsLimited`, and the liveness `PermitReturned`, also with a full message
  channel and a bastion host that does not answer.

### Features

A behaviour follows one feature (`feature`): features share nothing but the loop
and its channels, and those `TwinLoop` has, with channels that may be full. A
patch is a function from property names to values, and the twin merges patches;
`cache` is what a feature remembers of what it reported, `world` what it reads
or writes, `pc` the await its handler is at. A handler runs alone on the loop
(`Ready`), but the world, the stream and the process go on between its steps.
`Fail` is the `?` of a handler: in `connect_twin` it ends the service, in a
command it is logged. `missed` is history: the world changed in a way that
nothing will tell the feature of, which is so before the D-Bus subscription of
`debounced_command_stream`, after its source has ended, when a call fails
whose trigger is gone, and when a file in `factory-reset.d` is written in place,
which the mask of that watch (create, delete, move) leaves out. `FactoryReset`
numbers the requests to tell them apart.

- `CacheReported`: what a feature would not report again is what the twin shows,
  although the loop drops reports while there is no client.
- `TwinCurrent`: if the twin differs from the world, a signal, an armed timer, a
  blocked send, a Tick or a file event is under way, or the change was `missed`.
- `WebCurrent`: the local status is what the feature remembers, also without a
  cloud; that of system info and factory reset shows the world unless a file event
  is under way or the change was `missed`, that of wait-online unless `missed`. The
  network status may be empty before the first reading.
- `RefusedNotPerformed`: no later boot performs a reset that was refused, over
  kills, power cuts and failing reboots. (One that was stored, and answered with
  an error because the reboot failed, is performed by the next boot.)
- `ReportedIsSaved`: a setting is in its file when it is reported, so it survives a
  crash of the process. Nothing is synced; a power cut that loses what was written
  is not modelled.
- `Settles`: in the end the twin is connected and shows the world. The exceptions
  are `missed`, a loop that waits for a reboot, and a torn file of general
  consent, which fails `connect_twin` at every connection: nothing mends it.
- A Wi-Fi patch leaves out what is not known and a factory-reset patch a result
  that is missing, so a merged twin keeps the last value: after a boot without a
  reset it still shows the result of an earlier one. `Holds`, and with it
  `CacheReported`, `TwinCurrent`, `WebCurrent` and `Settles`, compares the fields of
  the patch only.

## Runs

Passing runs:

| run | bounds | why they are enough |
|---|---|---|
| `update_validation` | two restarts before the script reboots, three starts allowed, two faults | the device has nine and ten; two faults let a crash meet a second crash, a power loss or a failing call. The start limit is reached by failing starts and left by the timer |
| `twin_loop` | channels of two (100), one caller, one change | two slots let the loop's own requests meet a full channel and a foreign one; the code treats no other length apart |
| `firmware_update` | five images (older, installed, with other arguments, without arguments, damaged), their archives in every order of the entries and twelve that lack, repeat or falsify one, two loads, two faults, one kill | every branch of `apply_bootargs` and every refusal of `load`; a load's late task meets a run; an error inside a rollback |
| `fs_watcher` | a directory with a persistent watch and a oneshot, a file of its own, queue of two, channel of one, two changes, one restart | shared and single descriptors, overflow, a second change during debounce and flush |
| `web_service` | two endpoints, two requests, two publishers with a value each, one fault or kill | each pair of operations overlaps |
| `features` | nine features, one link, one Wi-Fi device, two modems, two certificates, two lists of consents, two CAs, one key and the applications; two disruptions (failing call, loss, end of the process), two changes or commands, two resets, two patches in the channel when a command is taken | a change meets a burst in the stream, a failing call meets a loss or a restart, a second reset meets the request of the first |
| `ssh_tunnel` | two permits (5), two ids, five commands, one fault (a failing step or removal, a kill, a lost client) | both permits taken, a third open rejected, an id used twice, an end that meets a lost client |

Deadlock is checked in `twin_loop`. The other systems stop where a bound is used
up or where a trial is over.

Violation runs, each with a finding in `PROJECT.json`:

| run | what the counterexample shows |
|---|---|
| `update_validation_failed` | the observer asks for the reboot of a failed trial while the task is about to commit: the reboot boots the new root |
| `update_validation_wait` | `wait_for_system_running` compares the name of a D-Bus property with its value, so only the first reading of the state can succeed |
| `firmware_update_watchdog` | the late task of a `LoadUpdateGuard` shortens the watchdog interval during the flash |
| `firmware_update_trial` | an update that is run during a trial overwrites the fallback root |
| `web_service_hanging` | one endpoint that never answers keeps the HTTP client locked for all |

## Fairness

- Weak fairness of the steps of one task or handler: tokio polls what is ready.
- Strong fairness of `HandleRequest` and `Drain` in `TwinLoop`: the select is
  biased, so it is an assumption that no stream with a higher rank is ready at
  every single turn.
- Strong fairness of lock acquisitions in `WebService`: tokio's mutex is first
  come, first served. Endpoints outside `Hanging` answer, or fail after the
  retries of the client.
- In `Features`, strong fairness of what waits for the loop (`Commands`, `Drain`,
  `Tick`, and together `ConnectClient` and `Authenticated`): the loop is busy at
  times but comes back, a Tick is at least a minute away from the next, and the
  bounded losses leave a cloud that can be reached. Weak fairness of the start of
  the service, the stream's task and the running handler; whoever truncated a
  file of consents writes it, and certd removes the certificate it replaced.
- `WatchdogKills`, `Restart`/`Start`, reboots and timers are systemd's and fire;
  `Start` includes the timer that restarts a service whose start limit was hit.
- In `SshTunnel` the loop takes the next message in the end, with a client or without
  (`Drain \/ Discard`); nothing says that a lost client comes back.
- Nothing is assumed of the cloud, of endpoints that hang, of users, faults, or
  the state the system reaches. In `update_validation_wait` no timer fires, which
  is how the wait itself is put to the test.

## What is proved

`UpdateValidation_proofs` proves for every `MaxRestartCount \in Nat`,
`StartLimitBurst \in Nat \ {0}` and `MaxFaults \in Nat` (`BoundsAssumption`, the
only assumption):

| theorem | statement |
|---|---|
| `Invariance` | `Spec => []IInv` |
| `TypeCorrect` | `Spec => []TypeOK` |
| `MarkerLastHolds` | `Spec => []MarkerLast` |
| `SucceededDurable` | `Spec => []SucceededIsDurable` |
| `Refinement` | `Spec => ImplementsTrial` |
| `TrialIsContained` | `Spec => []Trial!Contained`; the default root moves only by `Trial!Validates` |

None of the two safety properties is inductive: `MarkerLast` speaks of what has
been written when a mark is gone, while which writes have happened is only known
from where the task is. `IInv` adds that:

- `EnvInv`: how the environment fits together during a trial, also while no
  process runs: the part on trial is the running root or none, the validate
  arguments stand for the booted ones, and the mark is gone only when default
  root and arguments are those of the running root;
- `TaskInv`: for each `pc`, what `finalize` has written and removed so far;
- `EvidenceInv`: past each await, the evidence it waited for is there, which is
  what the abstract `Commit` asks for;
- `StatusInv`: where the task can be once `Succeeded` is set, and that it is
  durable there.

Each action preserves each part in a lemma or step of its own; `Refinement` maps
`SetBootpart` to `Commit`, the removal of marks to `Conclude`, boots to boots,
ends and starts of the process to `Restart`, and everything else to `Observe` or
a stutter. `TrialIsContained` uses nothing but that refinement: whichever step of
service, scripts and bootloader a power cycle comes after, the root that runs is the
default or the new one on its one boot, and the default moves only to the root on
trial while it runs, with the criteria met.

`FirmwareUpdate_proofs` first proves of all versions, without assumptions:

| theorem | statement |
|---|---|
| `OlderIsLexicographic` | `partial_cmp` says *less* exactly when the first field that differs is less |
| `EqualIsEqual` | it says *equal* exactly for equal versions, the contract of `PartialOrd` with the derived `PartialEq` that both refusals of `load` rest on |
| `StrictTotalOrder` | older is irreflexive and transitive, and of two different versions one is older, never both |

Each version is opened into its four natural fields (`Fields`), over which the
chain of comparisons is a matter of linear arithmetic; only `EqualIsEqual` needs
that a record is its fields (`Extensional`).

It then proves for all sets of images, archives and arguments and all bounds on
loads, faults and kills:

| theorem | statement |
|---|---|
| `Invariance`, `TrialInvariance` | `Spec => []IInv`, `Spec => []TInv` |
| `TypeCorrect` | `Spec => []TypeOK` |
| `PowerCutIsSafe` | `Spec => []PowerCutSafe` |
| `NeverDowngraded` | `Spec => []NoDowngrade` |
| `DescribedOnly` | `Spec => []OnlyDescribedFlashed` |
| `TrialEstablished` | `Spec => []EstablishesTrial` |
| `RollbackIsComplete` | `Spec => []RollbackRestores` |

It assumes `ImageAssumption` (the installed image is whole, versions have four
natural fields), `ArchiveAssumption` (what a manifest with its checksum describes is an
image, and not a damaged one) and `BoundsAssumption`. No property
is inductive, since each speaks of the end of a chain that begins with `load`:

- `LoadedInv`: what is loaded is *fit*, described and no older than the running
  image. `LoadedFits` gets this from `Accepted`, which refuses what is older or
  equal, and from the order being total (`StrictTotalOrder`);
- `RootInv`: only the other root is ever written, and with what is loaded or torn;
- `RunInv`, `NamedInv`: the position of a run says that the root is complete
  before its name is set, and before that the device boots what it runs. With
  these, `IInv` gives the first four properties;
- `TInv` adds for runs that found the device settled (`clean`): which arguments,
  backup and configuration are written at which position (`TrialInv`), what the
  flags of the guard promise to undo (`UndoInv`), and that rollback, reboot and
  command exclude each other (`IdleInv`).

`UpdateHandover_proofs` proves `HandoverHolds`, `Spec => []HandsOver`, from `TInv`
and `ArgsDiffer`: arguments are put up only where they differ from those in place.
The mapped state is an initial one of `UpdateValidation` for every set of arguments,
so its theorems hold of every trial that a settled device is given.

The five modules below prove type correctness and every safety invariant their
runs check, each from one inductive invariant (`Invariance`, `Spec => []IInv`) that
TLC checked first:

| module, for all | theorems |
|---|---|
| `TwinLoop_proofs`: capacities, callers, changes | `TypeCorrect`, `StatusIsPropagated`, `NothingIsUnreported`, `Refinement`, `ConnectionIsConsistent` |
| `FsWatcher_proofs`: watches, descriptors they share, lengths of queue and channel | `TypeCorrect`, `NoChangeIsLost`, `OneshotsFireOnce`, `NoWatchIsLeaked` |
| `WebService_proofs`: endpoints, hanging ones, channels, requests | `TypeCorrect`, `OneHolder`, `RegistrationsAreSaved`, `NothingIsMissed` |
| `SshTunnel_proofs`: permits, ids, processes, lengths of the channel | `TypeCorrect`, `CredentialsAreCleaned`, `TunnelsAreLimited`, `EndsAreReported` |
| `Features_proofs`: features, links, files, keys, requests, faults, patches | `TypeCorrect`, `CacheIsReported`, `TwinIsCurrent`, `WebIsCurrent`, `RefusedIsNotPerformed`, `ReportsAreSaved`, `Refinement` |

- `TwinLoop`: the properties speak of the states between two handlers
  (`Selecting`), so the invariant must say what holds inside of them. Each handler
  is one of a few programs, sequences of steps ending in the same suffixes;
  `HandlerInv` names the position (`Idling`, `Finishing`, `Authenticating`,
  `Losing`) and what has been done by then. Requests that arrive meanwhile do not
  change the last word to the validation (`LastTold` is a relation on the channel).
  `Refinement` maps the step a program begins with: those of `Connect` to
  `ConnectStep`, a reset to `Reset`, which needs that the loss is known by then, and
  the others to `Handle`; requests that others send are stutters. From
  `TwinConnection` alone follows `Consistent`: the loop polls no completed future,
  and an authenticated twin has a client and its features their senders.
- `FsWatcher`: `NoChangeLost` is inductive once it is known that a path is read
  only after its watch is in place (`RegInv`) and that the kernel watches what the
  tables need (`KernelInv`, which is `NoWatchLeaked` with the start-up race added).
  `FiresOnce` needs where each oneshot is (`OnceInv`: not registered, in the table, in
  the channel, told: one of these), and that a target that exists, and on which the
  race check did not fail, is still to be checked, announced in the kernel's queue
  or lost with an overflow (`ReportInv`).
  An event stays in the queue until it is handled, as only a full queue drops one,
  and then has an overflow at its end (`QueueInv`).
- `WebService`: `RegistrationsSaved` and `NothingMissed` are inductive together with
  who holds each of the three mutexes (`LockInv`, mutual exclusion, `OneHolder`), how
  far a request of each kind can be (`HandlerInv`) and that the map holds what was
  published last (`PublishInv`).
- `SshTunnel`: `PermitInv` counts, permits of the semaphore, the one of a command
  that has not started its process, and owners add up to `MaxTunnels`; with it no
  permit is lost or given back twice. `CommandInv` ties the command to the process
  it started. For each id, what the client was told, the messages
  in the channel and the tasks that have still to send one are no more than the
  tunnels opened, and no fewer unless one was missed. The slots need not be finite:
  that their owners are is part of the invariant.

- `Features`: every property is about what the twin will show (`Shown`), the value
  of each key in the last of the patches under way that names it, or else the
  cloud's. `ShownAppend` and `ShownTail` say what a patch more and a patch delivered
  do to it. A step of the loop that is not the feature's own does nothing the
  feature sees, begins a handler, or ends the process (`LoopStep`: `Quiet`, `Begins`,
  `Exits`), so that each feature needs one lemma about its own actions
  (`NetworkStep`, `ConsentStep`, ...) and one about each of these three. `LoopInv` says
  at which steps a connection is being made; `NetworkInv`, `ConsentInv`, `SystemInv`,
  `WaitOnlineInv`, `ResetInv` and `CaInv` say of one feature each what its handler
  has read and saved at each step, and that a Tick or an event still announces what
  it has read too early. `RequestInv` numbers the requests of factory resets, so that
  what was refused is neither stored nor performed. `ReportedIsSaved` follows from
  the invariant of the state before a step and the one patch the step adds
  (`LoopReports`: a step of the loop adds none). For `Refinement` all actions
  of the features are seven moves of the loop (`ActionsMove`): a start, an end, a
  step, an end and a failure of a handler, a reboot command, and none; each is a
  step of `TwinConnection` or a stutter (`MovesImplement`). This refinement is
  proved and needs no run. The assumptions say that the
  features are those the model knows, that bounds are natural numbers, and that a
  torn file is none of the consents.

Model-checked only: all liveness (`TrialDecided`, `AduRestored`, `Answered`, `ValidationTold`, `ChangeReported`,
`Served`, `PermitReturned`, `Settles`), as fairness and ENABLED are out of the
prover's reach. No module declares a RECURSIVE operator, so that all of them can be
proved about.

## Plan

1. `UpdateTrial`, `UpdateValidation` and its proofs: done.
2. `TwinLoop`: checked, all safety properties proved. The liveness properties
   `Answered` and `ValidationTold` stay with TLC, here and below.
3. `FirmwareUpdate`, `UpdateArchive`, `UpdateHandover`: checked, all safety
   properties proved; liveness `AduRestored`.
4. `FsWatcher`: checked, all safety properties proved; liveness `ChangeReported`.
5. `WebService`: checked, all safety properties proved; liveness `Served`.
6. `SshTunnel`: checked, all safety properties proved; liveness `PermitReturned`.
7. `CommandStream`, `Reporting` and the features: checked, all safety properties
   proved; liveness `Settles`.
8. `OsVersion`: done, proved in `FirmwareUpdate_proofs`.

## Not modelled

- Parsing and formatting: D-Bus values, link descriptions, environment tools,
  JSON. They are conversions without state; where an outcome matters it is a
  nondeterministic failure.
- In `load`, the parsing of versions (the dots of its regular expressions match
  any character) and the indexing of `agents[0]` and `compatibility[0]`, which
  panics for a list that is empty: the update agent's configuration and the
  manifest come from tools that write one.
- The merge of boot arguments and of the environment file of wait-online, line by
  line: they are set unions and a replacement of one value here.
- The files of reboot reasons, which only scripts read.
- Several features at once: they have no state in common, and how their reports
  and handlers block each other is `TwinLoop`'s subject.
- Metrics, logging, the health check scripts: nothing depends on them.
- The Azure SDK beyond the order of the statuses it emits, the update agent
  beyond its two units, actix beyond one handler per request.
- Times: a timer fires at any moment after it was armed, a debounce elapses at
  any moment.
