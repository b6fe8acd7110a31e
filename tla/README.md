# TLA+ models of the A6L port: update tools, USB gadget, QMI, data calls, voice

This directory holds a verification project for the repository's own logic: TLA+
modules translated from the source, TLC configurations, and proofs that TLAPS checks.
It covers two parts: the Python tools under `tools/` that rewrite partitions of a Hisense
A6L from a laptop and can brick it or lose its data, and the device daemons whose state several
actors share: the USB gadget HAL, the QMI client, the data calls of the radio HAL, and the voice daemon.

## The system

The repository is a LineageOS port. Its own code falls into three groups.

**Update and flash tools** (`tools/`). An operator starts a *coordinator*
(`Run-LaptopRomUpdate-v1.py`, `Run-LaptopRomInstall-v1.py`, `Run-LaptopRomRestore-v1.py`).
It brings the phone into the diagnostic recovery (adb) or into EDL, pauses two host
services through the root helper `a6l-host-control.py`, and starts a *worker*
(`Write-LaptopRomUpdateV1.py`, `Write-LaptopRomV1.py`). The worker runs an *engine*
(`RomUpdateEngineV1.py`, `RomFlashEngineV1.py`) over a *transport* (`RomUpdateAdbV1.py`, or
Firehose in `Write-LaptopRomV1.py`) under an *allowlist* (`RomUpdateLayoutV1.py`,
`RomFlashLayoutV1.py`).

**Device daemons and HALs** (`device/hisense/a6l/`): QMI client and radio HAL, data calls,
USB gadget controller, voice daemon, e-ink daemons, GNSS, camera, sensors.

**Kernel drivers, patches, build recipes, vendored and generated files.**

| component | state | operations | hard behaviour | what makes it correct |
|---|---|---|---|---|
| update engine | partitions, data heads, capture directory (manifest, snapshots, `report.json`) | update (snapshot / hash-only / wipe / reflash), backup-only, rollback | stops after any step, torn chunks, several runs in a row | a capture explains what a stopped run left; data destroyed only under a complete build; success only when true |
| plan allowlist and transports | fixed plan, registered transfer, preflight | set_plan, program, read | off-by-one in ranges, short transfers | no protected sector changes, whatever the engine asks |
| host service controller | runtime masks, `state.json`, file lock | status, pause, resume | helper dies between any two steps; two coordinators | no mask is forgotten; resume always possible; services back |
| coordinators | paused flag, report | entry, worker, finally | check-then-act between status and pause | services paused while the worker runs |
| install / restore engine | every region the tool or the ROM may write, capture directory (files, hashes, manifest, report) | install, restore, stop, boot in between | wrong reads, lost programs, backup files that go bad, retries of a restore | no misread becomes the backup; success is exact |
| USB gadget controller | configfs links, product id and UDC; requested functions, composition, armed / applied, generation | setFunctions, reset, monitor step, takeover and hand-back of the early-adb rule | the lock is given up three times in a request; monitor, newer requests, daemons and init go on meanwhile; any configfs write may fail | an armed gadget is that of the last request; success only when true; whatever can be bound gets bound |
| QMI client | table of servers, transaction numbers, pending requests, event queue, socket | request, reader, dispatcher, stop, start | late, stray and lost answers; servers and sockets that go between any two steps; numbers that wrap | an answer is the answer to this call, a call is executed at most once; nobody waits for what is gone; observers agree with the table; a failed client reopens |
| QMI data calls and the data half of the radio HAL | calls by mux id, legs (client, session, latches), rmnet links, generations; Android's list; two task queues | setup, refresh, deactivate, loss, reconfiguration, modemReset, modem loss and readiness | the mux id is used again at once; a session ends or changes during setup; the modem crashes between any two steps | a loss never hits a later call; an ended session does not stay; a failed setup leaves nothing; Android's list follows |
| voice daemon | PCMs and route, requested mute, bridge routes as far as known, retry and fallback state | daemon_step, bt_step, mute requests | the sound card restarts at any time, the DSP refuses commands, a route stops working; two owners of one mute; three timers | a mute holds in every call it was for and in no other, as far as the kernel lets it; the right route, and a call that can be heard is heard |

`PROJECT.json` lists every component with its status and the hazards at their lines.

## Modules

### `RomUpdate` : the update engine and its worker

State and code:

| variable | code |
|---|---|
| `disk` | content of the four writable partitions, as sequences of transfer chunks |
| `head` | first MiB of `metadata` and `userdata`: the build whose data it is, `zero`, or `torn` |
| `prot` | a version number of all invariant regions (`hash_invariants`) |
| `args`, `status`, `writes`, `backup` | one entry per capture directory: command line, exit, `report['writes']`, partition snapshots of the manifest |
| `pc`, `todo`, `plan`, `cur`, `off`, `invBefore` | the worker in progress: phase, loop, plan, transfer position, first invariant hash |

One run of the worker is `Launch`, `OfflineChecks`, `HashInvariants`, `IdentifyBuild` (or
`IdentifyRollback`), then per partition `BeginProgram` / `WriteChunk`* / `EndProgram`, then
`VerifyWritten` or `ReadbackDiffers`, for a wipe `ZeroHead` and `VerifyZero`, and `Power`.
`Stop` may end it before any step; it stands for a failed check, a failed transfer, the
alarm of the worker and a kill. A run is never resumed, as in the code: the operator launches
another one, and what it knows of the earlier one is the capture on the laptop's disk.
`WriteChunk` may leave `Junk` instead of the chunk: the tools treat `dd` and Firehose
acknowledgements as unreliable and so does the model. `Boot` (external) turns data heads into
data of the build that boots.

A sha256 comparison is equality. The kits' compatibility rules (`compat_problems`,
`wipe_compat`) are a table `Compat` of ok / wipe / no; the text fields and dates they compare are
not modelled. `--userdata-full` makes an extra copy that nothing reads, and is left out.

`AtomicUpdate` is what the operator is promised, with the partitions as one value and a run as `Begin`, `Prepare` (a
snapshot of what there is, before the first write), any number of `Write`s of anything, `Seal` (the content is what was asked
for), `Erase`, and `Succeed` or, from anywhere, `GiveUp`. `UpdateIsAtomic` says that `RomUpdate` implements it: `disk`, `head` and the capture logs are its
variables, and `Stage` maps the worker's phases (loops over partitions and chunks, the report's `writes`, readbacks and checks are
steps the operator does not see).

### `UpdateGuard` : the allowlist and the two transports

The plan check (`check_update_plan`, `check_plan`), the Firehose guard (`set_plan`, registration,
XML check) and the adb transport (`check_program`, `_zeros_only`), down to sector ranges. The
engine above is replaced by one that may ask for any plan and any range in any order: what is
shown about this module does not depend on the engine. A transfer may break off after any
number of sectors. `transport` and `wipe` are the command line, fixed at the start.

### `RomInstall` : the wipe install and the restore

`disk` is the phone, one value per region of `backup_regions()` (`recovery`, `vbmeta` and `devinfo`, which are
read and never written, are left out). `file`, `digest`, `manifest` and `attempted` are
`capture-rom-v1-install`: the `.bin` files, the hashes of what was read, whether `backup-manifest.json` is
written, and `report['writes']`. An install is `LaunchInstall`, `ReadRegion` per region, `BackupRead` (boot
message), `SecondRead` per small region, `WriteManifest` (stock pins), and then, as in a restore,
`BeginProgram` / `Transfer` / `Acknowledge` per planned region, `AllWritten`, `VerifyWritten`, `Power`. A restore
starts with `LaunchRestore`, `CheckFiles`, `Compare` per ROM-writable region and `PlanRestore`. `Stop` ends either
anywhere, and leaves the region being programmed `Torn`.

What fails, within a budget `MaxFaults`: a read delivers `Wrong` bytes (but not the same wrong bytes in two reads
of a region, which is what the second read rests on), a program is acknowledged and not there, a saved file
goes bad between its hashing and its use. Between runs some system boots and writes to its own
regions (`Boot`), and the operator may move aside the capture of an install that programmed nothing
(`MoveAside`); the documentation says to keep one that did. `before` is a history variable: the
phone when the install was launched.

With `--allow-nonstock`, `system` and `vendor` are read once and compared with nothing, so the properties speak of
the `Verified` regions. That is the repository's own reading (`docs/rom-integration-ledger.md:373`).

### `HostControl` : the root helper and its callers

`phone` is what sits on USB port 3-2; `mask` and `active` are the two units; `rec` is `state.json`;
`lock` the flock; `pc` one program counter per coordinator (and one for an operator who runs `resume`
by hand), because a coordinator waits for its helper. Each write of `state.json` and each `systemctl`
call is an action of its own (`mask --runtime --now` is two: the link, then the stop), and between
any two of them the helper may fail (`HelperFails`) or the whole session die (`Kill`).

### `UsbGadget` : the USB gadget HAL

| variable | code |
|---|---|
| `links`, `pid`, `bus` | `configs/b.1/f1, f2, ...`, `idProduct`, and what the bound gadget shows the host (`Down` when the UDC file is empty) |
| `functions`, `comp`, `armed`, `applied`, `generation` | the fields of `Controller` |
| `pc`, `req`, `gen` | the calls in progress: where each gave up the lock, what it asked for, its own generation |
| `hal`, `due`, `init`, `ffsProp` | `vendor.a6l.usb.hal`, the property event in init's queue, the step of the rule in `init.a6l.usb.rc`, `sys.usb.ffs.ready` |
| `ready` | FunctionFS endpoints, as the daemons make and lose them |
| `answer`, `lost`, `left` | history: the latest result; adbd closed the gadget since the controller last looked; the links are what a failed `unlinkAll` left |

A call is `Enter` (the takeover, before the lock), then `setFunctions` (`Adopt` the identical gadget, or `TearDown`), then,
at once or in `Resume` after D+ was held low, `apply` up to the first link, and `Arm`: the second link, the first
attempt to bind and the first test of the wait. `EndWait` is the end of `wait_for` in every outcome. Between `apply` and `Arm` the call
keeps the lock (`LockFree`), and only those who take none come in: daemons, the kernel, and init, whose commands
(`RuleFires`, `RuleLinks`, `RuleBinds`) are steps of their own. The teardown is one step although init may come in: what the rule
links or binds before the unlink is undone by it, and what it does after it may as well come after the whole.
Any write may fail; `apply()` that fails is unlinked again, and an unlink that fails may leave all, some or none of the links (`Rests`).
`Monitor` and `EndReset` share `TryBind`, which takes whatever is bound for applied, as the code does.

The HAL has one binder thread (`service.cpp:14`), so two calls that overlap cannot come from
Android as the service is set up; `Client` has two elements all the same, because overlapping calls are part of the
controller's own contract (`test_gadget_core.cpp` tests the superseding request). Concurrency of a call with the monitor,
the daemons and init is there with one. From the kernel (external) the model takes that unlinking a bound gadget unbinds it,
that closing ep0 unbinds it unless the FunctionFS is mounted `no_disconnect` (mtp and ptp are), and that a link may be added to a bound
gadget, or refused: both are left open in `Arm`, since the kernel's configfs code is not part of this repository.
`idProduct` is one to one with the function set, so `pid` is that set.

### `QmiCalls` and `QmiClient` : the QMI client

`QmiCalls` is what `Client::request` promises: calls are numbered; the modem executes each at most once, and
one that closes with an answer has been executed. `QmiClient` is `radio/qmi/src/client.cc`: `Begin`, `Register`, `Send`,
`Finish` are the stretches of `request()` between locks; `Read` (with `NewServer`, `ServersGone`, `Data`), `RecvFails` and
`Post` are the reader; `Take`, `Deliver`, `DispatcherExits` the dispatcher; `StopBegin` ... `Start` are
`stop()` and `start()`, called by `connectLoop` of `ModemCore`. `slot` is the entry of `mPending`; a packet carries the
number of the call it belongs to only so that the refinement can be stated: no guard reads it.

Assumed of the outside: an address belongs to one service for good; the name service answers a lookup with the servers
that are up (a lookup whose send failed is only logged by the code: for this client those servers are not up); only `connectLoop` stops a
client, and only one that failed. A call that is refused at once leaves nothing behind and is no step. A
number is used again only when no call or answer with it is left (`InWindow`). The code has no such guard, its counter just wraps: it rests
on a call and its answer being over before the same service has had 65535 others, and cannot tell the two apart otherwise.

### `DataCalls` : data calls and the data radio

| variable | code |
|---|---|
| `execQ`, `step`, `task`, `todo`, `fresh` | the data executor `mExec`: queue, task in hand, where it is in it |
| `workQ`, `worker` | the worker of `ModemCore` |
| `calls`, `links`, `nextGen`, `format` | `mCalls`, rmnet links, `mNextGeneration`, `mFormatDone` |
| `leg` | one per generation and IP family: WDS client and session, `LegState`, indications not yet seen, the callback that runs |
| `base` | the list Android sees (`setupDataCallBase`, `deactivateDataCallBase`) |
| `ready`, `gone`, `epoch` | `mReady`, crashes not heard of yet, starts of the modem |

A setup is `TakeSetup` (the `ready()` check), `SetupBegins`, `StartLeg` and `Settings` per family, `Link`, `Check`, `Publish`,
`Insert`, `Show`. The network may end or change a session, the modem may crash, and observers may run between any two.
Deactivation and `modemReset` are one step each: they run under `mLock`, and no other thread
reads what they change in between. `StopLegs` waits for the callback in progress, as `Client::stop` joins the dispatcher.

Settings are version numbers; whether roaming forbids a setup, whether an address is refused by the link, and whether a
change concerns the address, is left open. START and the settings that follow it in the same request are one step.
Not modelled: the teardown in `onNetworkChanged` and `mNoRoamCids`, the data port (DPM), `deactivateAll` of the destructor,
calls without `requireNetdev` (the HAL sets it), and the second slot: each slot has a manager of its own.
That `prepareFormat` of slot 2 takes slot 1's lock is what makes the window of `data_entry_kept` long, not what opens it.

### `VoiceDaemon` : the voice daemon

| variable | code |
|---|---|
| `card`, `works`, `port`, `ul`, `txMute` | the kernel: card registered, routes whose PCMs start, the RX port, the bridge's uplink route is on, the stored TX mute |
| `want`, `rx`, `enabled`, `active` | what the loop read in this round, `bt.enabled`, `bt.active` |
| `open`, `route`, `dev` | `struct voice`: PCMs, `rx_route`, device number known |
| `muteWant`, `set`, `btWait` | `mute_want`; which of `dl_set` and `ul_set` are 1 (0 and -1 make no difference to `bt_route_one`); `now < bt.retry_ms` |
| `fails`, `wait`, `ok`, `fb`, `tries`, `due` | `struct retry`, with `fb` both `fb_active` and `fb_rx`, and the clock as the two flags `now < next_ms` and `now >= fb_next_ms` |
| `refused`, `owed` | history: what the open path was refused with a warning only; a clear of the uplink route was refused or put off and not made since |

One round of the loop is `Read` (properties and `bt_step`), `HangUp` or `Step` (`daemon_step` up to `voice_open`), `Open`,
`FallBack` or `NoFallBack`, and `Mute` or `Idle`. The card, the routes and the clock move between any two of these (`CardLost`,
`CardBack`, `RoutesChange`; `BackoffOver`, `BtRetryOver`, `FallbackDue`). Any write of a control may be refused with the card there: each of the two bridge
routes (`syncRoutes`), the RX ports (`RxPorts`) and the TX mute, and the code goes on with a warning wherever it does so.

The model has the service as `init` starts it: routes set by the daemon, device looked up, no session option, no DSP volume. Taken from the
kernel patches (external): a mute that the running DSP refuses is not stored, a stored one is applied before the path
starts, or it does not start; and a card comes back only when its old PCMs are closed.
`voice_open` is one step: a card that goes between its controls and its PCMs fails the open, and the next card takes longer to come.
Not modelled: the published volume, control names, kernels that lack a control, a change of `cvp_mute` in a call, a restart of the daemon
(which forgets the mute), and the one-shot commands `hold` and `routes`.

### How they compose

`RomUpdate` and `UpdateGuard` meet at `dev.program`: the ranges `RomUpdate` programs are whole
partitions or image prefixes, `UpdateGuard` shows what would happen if they were not.
`HostControl` surrounds the worker; its `work` phase is one run of `RomUpdate` over EDL.
Of `QmiClient`, `DataCalls` uses what its runs show: `stop()` joins the dispatcher, every client hears of a lost
service once (`Crash` queues a `down` for each leg), and after a crash the client is reopened.

## Runs

| run | bounds | what it shows |
|---|---|---|
| `update_rollback` | 3 partitions (1, 1 and 3 chunks), 2 builds in use, 3 runs, 1 foreign write | `RollbackAdmitted` and `UpdateIsAtomic` (the refinement of `AtomicUpdate`), over snapshot updates, reflash, rehearsal and rollbacks of either earlier run |
| `update_wipe` | the same, with a key switch between A and B | `WipeAfterImages`, `PowerOnlyWhenDone`, with a wipe, its resume, its rehearsal and a keep-data kit for a third build; `EveryRunEnds` under fairness |
| `guard` | 14 sectors, 5 partitions (some adjacent), every range of up to 4 sectors, every plan of up to 2 ranges | `ProtectedUntouched` for both transports, with and without a wipe |
| `install_restore` | 4 partitions, misc and metadata, head and tail of userdata, a stock phone and one with another vendor, 3 runs, 1 fault | `BackupFaithful`, `RestoreExact`, `InstallExact`: with `--allow-nonstock` and without, both `--userdata` modes, boots between runs |
| `host_two` | two coordinators, two units, an operator | `MaskRecorded`, `OwnedRestorable`, `ServicesBack`, `RestoredMeansUnmasked`; `SoleCoordinatorPauses`: while no second one has started, a worker works with every unit masked |
| `gadget` | 2 clients, 5 function sets (FunctionFS, two functions, kernel function, none, not available), 3 requests, 2 faults | `Coherent`, `SuccessIsTrue` with init's rule between any two links, and `Rebinds` under fairness (1.6 million states) |
| `qmi` | 2 requesters, 2 servers of 2 services, numbers 1..2, 2 calls, 1 socket error, 2 changes at the modem | `CallsAreOwn` (the refinement of `QmiCalls`), `WaitsForSomeone`, `ObserversTrack`, and `Reopens` under fairness |
| `datacalls` | 1 mux id, 2 families, 2 setups, 1 change by the network, 1 crash | `EndedIsNoticed`, `SettingsFresh`, `ShownIsTracked`, `NothingLeft`, `NoStaleTearDown`, and `EndedIsHidden` under fairness |
| `voice` | 2 routes, mute of the bridge on, 2 quick opens, fallback after 2, 1 later retry | `MuteSilences`, `MicAsAsked`, `RouteAsAsked` for calls, bridges, cards, mutes and refused writes without bound; `Released` and `HeardInTheEnd` under fairness |

Why the bounds are enough. A partition of one chunk and one of three chunks give the
untouched, torn-at-the-start, torn-in-the-middle and complete cases; `dtbo` is equal in A and B, so
that a partition is skipped; A's `system` is shorter than B's, so that an image leaves a tail.
Three runs allow stop, repair, and rollback of either; for the install they allow install, a
restore that stops, and the restore that follows it, with the fault in any of the three. misc is
a ROM-writable region that the install does not write and metadata one that it does. The two host units are the code's own
two, and two coordinators are enough for each to find the other's record. Three requests to the gadget are one that sleeps or
waits, one that supersedes it and one that finds what that left; two faults are a failed write and a
daemon that dies, or a daemon that dies twice. Two calls with the numbers 1 and 2 never use a number twice: `qmi` shows late, stray and lost answers, not the
wrap. With three calls it comes round, and `TypeOK`, `ObserversTrack`, `WaitsForSomeone` and `CallsAreOwn` were run so once (17 million states, no error;
too long for a regular run); and `CallsAreOwn` is proved for any bounds, under `InWindow`. A service may
go and come, or two may go in one BYE. One mux id is the hard case of data calls, since every call then
inherits it from the one before; two generations are the old call and the new one. The safety of `datacalls` was also run once with two
changes by the network (19.2 million states, no error); the configuration keeps one to stay short. `voice` has no bound but the retry limits, the code's 5, 2 and 3 in small: what differs is how often a state
is passed. The safety was also checked once with the code's own 5, 2 and 3
(4 million states, no error). The safety
properties of the other modules are also proved without these bounds (below).

`CHECK_DEADLOCK FALSE` is set where the system may stop: `RomUpdate` when the run bound is used up,
`UpdateGuard` when the run has stopped, `UsbGadget`, `QmiClient` and `DataCalls` when every request is answered and the
bounded requests, faults and crashes are used up: a daemon at rest. `HostControl` never stops (the phone moves), nor do
`RomInstall` (it boots) and `VoiceDaemon` (it polls).

**Fairness.** `FairSpec` adds weak fairness of the worker's steps as a whole. Every blocking call of the
worker has a timeout and a SIGALRM of 5400 s ends whatever is left, so a run that can step does
step; nothing is assumed about the operator or the phone. `Stop` belongs to the worker, and the
property is not vacuous without it: the mutant that keeps `todo` in `EndProgram` programs the same
partition for ever, and is caught.

The daemons' modules have their fairness in `Spec`. `UsbGadget`: the monitor thread polls for ever, every wait has a timeout
and init runs its queue; no request and no daemon has to come (back). `QmiClient`: the threads run, `wait_for` has a timeout, and
`connectLoop` opens the socket again until it succeeds; the modem owes nothing. `DataCalls`: executor, worker, service
notices and the dispatchers of the legs run on, because each wait in them is bounded; the modem need not become
ready and Android need not ask for anything. `VoiceDaemon`: the loop goes round (a poll ends after 250 ms, a request has a socket
timeout) and time passes; the card, the routes, the DSP and Android owe nothing. `HeardInTheEnd` is the hard one: it needs each timer,
and it fails when the retries of a refused route have no end.

### Disagreements between the code and its documentation

Three runs expect a violation; each checks one sentence of the repository (quoted in `PROJECT.json`).

* `keep_data_bootable` - compatibility is judged between kits. A wipe that stopped before the zeroing
  leaves the new build over the old data, and the next keep-data kit succeeds over it.
* `paused_while_working` - a coordinator whose pause is refused still runs `resume` in its `finally`
  block, and unmasks the services of the coordinator that did pause.
* `data_entry_kept` - the clean-up after a modem loss names no generation. A setup that passed `ready()` before
  the crash and ran after `modemReset` brings a call up on the new modem; the clean-up queued
  behind it clears Android's entry of it, and the manager keeps a call nobody will deactivate.

Seen while modelling, with no run of their own:

* A hash-only update that stops inside a partition leaves content that is neither build; `--reflash` then refuses the
  previous kit that the docstring says to reflash (`RomUpdateEngineV1.py:26-27`, `:184`).
* Over EDL the guard is given the new image lengths only, and blocks the hash-only read of an installed image of
  another length (`Write-LaptopRomUpdateV1.py:352`). `pause` wants stock Android on the port, so a coordinator for a phone that
  is already in EDL stops at its pause (`a6l-host-control.py:81`). Neither puts any state at risk.
* A helper call gets ten seconds, the helper gives each `systemctl` thirty (`Run-LaptopRomUpdate-v1.py:133`); and a unit that was inactive
  and is started by D-Bus between unmask and comparison makes `resume` end in "Service restoration differs".
* USB gadget: the monitor thread may bind again while `reset()` sleeps with its lock released, so the host need not see the reset. A
  request that finds the gadget unbound already does not wait for D+ at all. The early-adb rule, once started, goes on after
  the takeover, although `UsbGadget.cpp:61` says "the pre-framework "early adb" rules of init.a6l.usb.rc stop". Two things come of it. When
  its UDC write falls between the two links of {rndis, adb}, rndis alone is bound (if the kernel then accepts the second link); `tryBindLocked` takes
  that for applied, the request succeeds, and the next identical one adopts it. And after NONE it may still link and bind adb,
  with nothing armed. `Coherent` and `SuccessIsTrue` say exactly this much. After a hand-back `idProduct` is that of the failed request, and the rule runs
  again only when adbd becomes ready anew.
* QMI client: when the dispatcher has left (`client.cc:197`) before the reader of the failed socket posts, the end of the services
  is told after the next start only. The sweep of `stop()` overwrites an answer that was stored and not yet picked up.
* Data calls: a leg that ended and was dropped during setup has already queued a loss with this generation, which tears down the
  call that came up with the other family. A second crash before the modem is ready posts no reset (`ModemCore.cpp:635`), so the
  data format marked as sent between the two is not sent to the modem that starts. Android's `deactivateDataCall` has the mux id only and may hit
  a newer call.
* Voice daemon: `voice_open` says it writes the bridge routes again after the card restarted, but when that happens while no path is open the
  daemon still takes them for set, and `bt_route_one` returns early. "Never leave the call silent on a route that cannot open while
  another one works" holds for a route that never worked in this call: one that did and stops working is its own fallback. The bridge's mute
  stays in the kernel when the path was closed as the bridge ended and Android never spoke about the mute
  (hence `muteWant # "none"` in `MicAsAsked`). A clear of the
  uplink route that is refused sets `ul_set` to -1, and `bt_route_one` returns early on it from then on (`:312`): the route is never cleared. A "mute 1" is answered
  with an error only if the bridge is active (`:785`, tested in `tests/q6voiced_tests.c:646`, "the mute is reported as failed"); while the bridge is enabled and not yet active, and when
  the mute is asked for once more, the answer is "OK mute=1", and a headset is live when the bridge becomes active. The same happens for
  a while without any refused clear: a refused downlink write starts a backoff of 5 or 60 s, in which the bridge is switched off (its clear is put off), "mute 1" is
  accepted (a disabled bridge is not looked at), and the bridge is switched on again. `MuteSilences` excepts these two cases, by `owed`, and no other.

## Proofs

Every safety property of the passing runs is a theorem, for every value of
the constants that satisfies the named assumptions in the modules (`ConstantsAssumption`,
`NoRecAssumption`): any partitions, ranks, sizes, images, command lines and number of runs; any
ROM-writable regions, contents and number of faults; any partition table and any allowlist
disjoint from the wiped partitions; any number of coordinators and units; any clients, function sets and
faults of the gadget; any requesters, servers, services, calls and restarts of the QMI client; any mux ids, IP families, setups, sessions and crashes
of the data calls; any retry limits of the voice daemon.

* `RomUpdateProofs`. `RollbackAdmitted` is not inductive: it says what the state table answers, not why.
  The invariant `IInv` adds the write-ahead rule (`CurInv`: the partition being programmed is reported
  as attempted), what a report means (`CaptureInv`: "none" means untouched since the snapshot,
  "verified" means it holds the new image), the order of manifest and first write (`FreshInv`), and
  for the other theorems how far the plan, the readback and the wipe have got (`PlanInv`,
  `ReadbackInv`, `ImagesInv`, `ZeroInv`) and what a snapshot without `--reflash` holds (`SnapshotInv`).
  `CaptureInv` survives a write because a capture speaks only until a later run writes, and of
  the current run's own capture the partition that changes is "attempted".
  `UpdateRefines` proves `Spec => Update!Spec`: a lemma per kind of step (`PrepareStep`, `WriteStep`, `SealStep`, `EraseStep`, `SucceedStep`,
  `GiveUpStep`, `BootStep`), and `SilentStep` for the rest. The hard ones are `SealStep`, where the end of the readback has to make the
  complete build out of what was read back and what was skipped (`ReachedFrom`), or of a rollback the saved content to the last chunk.
* `UpdateGuardProofs`. Two lemmas about `check_update_plan`: a range that passes as an image covers image
  sectors only, one that passes as a zero range covers the two heads only. Each transport then sends
  only ranges that have passed.
* `RomInstallProofs`. `BackupFaithful` follows from `ReadSoFar`: what was read is what the phone holds or `Wrong`;
  a second read that agrees, or a pin that agrees, rules out `Wrong`. It needs that nothing is written
  before the manifest (`Phases`). `RestoreExact` and `InstallExact` need that a region outside the plan is
  already right (`Unplanned`: a misread in `Compare` can only add a region to the plan) and that what was
  read back is what the manifest says (`ReadBack`), not what the file says by then. The assumptions are
  that wrong bytes do not hash to a stock pin, an image or zeroes.
* `HostControlProofs`. `IInv` says that the lock holder alone is inside a loop, that `pending` and
  `restoring` name the unit it is at, that the two exclude each other, and that a unit neither owned
  nor masked has not been stopped. `MaskRecorded`, `OwnedRestorable`, `ServicesBack` and
  `RestoredMeansUnmasked` follow. `SoleAlwaysPauses` adds (`SoleInv`) that a coordinator which is
  alone finds no record, and that nobody resumes beside it: that is what `PausedWhileWorking` lacks with two of them.
* `UsbGadgetProofs`. What `Coherent` and `SuccessIsTrue` lack to be inductive is what a suspended call finds when it comes
  back: `CallInv` says that no two calls have a generation in common, that one which is still current finds its own request in `functions`, nothing armed
  if it slept and its composition armed if it waits, and that a call which holds the lock is current. `ArmedInv` says what an armed
  composition has in configfs, `BusInv` that the bus shows the links or the first of them, and `LinkInv` what `applied` means and who
  has made the links when nothing is armed (the call between its two links, init's rule, or a failed unlink). `BoundIsKnown` derives `Coherent` from it;
  `SuccessIsTrue` follows with the generation test of `Resume` and `EndWait`.
* `QmiClientProofs`. `NoneWaitsInVain` needs where each thread is in a session (`SessionInv`). `ClientRefines` proves
  `Spec => Calls!Spec`: each step of the client is a step of `QmiCalls` or leaves its variables alone. Behind it
  are `NumberInv` (a number of a service that is still under way anywhere belongs to one call; this rests on `InWindow`, and on nothing about the size of the counter)
  and `CallInv` (a request travels once and is served once, and an answer in the queue was served).
  `ObserversMissNothing` needs `QueuesInv` (each of the queues in between is empty while its thread has nothing to do, so that what the
  dispatcher holds, what is queued and what is not yet posted are one stream in the order in which the table changed), and
  `Track`, which reads that stream from what the observers were told up to what the client holds.
* `DataCallsProofs`. `NothingLeft` and the types need what a setup has made so far: `LinksInv` (a link belongs to a call, or to
  the setup that is past `Link`), `LegsInv` (so does a leg), `LegInv` (a leg is the leg of its own mux id and no indication
  waits for a closed one), `TaskInv` and `CallsInv` (one generation, one call). `NoStaleLoss` rests on `LossInv`: a loss that is
  queued names a generation one of whose sessions has ended, or which is `Over` and is not given out again. `EntriesFollow` needs
  `ShowInv`: a call that is about to be shown is in the list, or the clean-up of its loss is still to come. `EndsAreNoticed` needs the setup
  as well as the call (`EndInv`): before the call is published the `ended` latch stands for the notice, and `Check`, `Publish` and
  `Insert` leave no gap between the two. `ChangesAreRead` is the same argument for the `reconfig` flag (`SetupFresh`, `PublishedInv`),
  and `ReadFresh` for the refresh, during which a session may change after it was read.
* `VoiceDaemonProofs`. `MicAsAsked` is inductive with the types, `MuteSilences` needs `BridgeInv`: an uplink route that is on is
  known to be on unless a clear of it is owed; one that is on with a mute or without a bridge is owed; and there is none without a card. So a bridge
  that begins later cannot find an open uplink for which nothing is owed. `RouteAsAsked` and the bound of the retries need what `daemon_step` has decided when `voice_open` comes (`RouteInv`, `TriesInv`).

Each `IInv` was checked with TLC on the instances above before it was proved.

Only model-checked: `EveryRunEnds`, `Rebinds`, `Reopens`, `EndedIsHidden`, `Released` and `HeardInTheEnd` (liveness under fairness is out of the
prover's reach).

## Not modelled

Voice, SMS, SIM and network services of the radio HAL encode requests and decode answers on top of `QmiClient`, and the GNSS library
repeats its pattern over another service. The camera provider, sensors, audio route, wifi and power HALs move
buffers or values between a kernel node and an interface; e-ink waveforms are data. They have little control to check, and most of
the repository's lines are such code, patches for other trees, or frozen copies of earlier tools.

Sahara, loader upload, XML text, shell quoting, adb stream markers and sysfs parsing are I/O around
the modelled decisions. Kit staging is one-shot copying and hashing. The 15 frozen diagnostic
writers (`Write-LaptopDiagnosticRecovery-*`) are per-version copies of one EDL session. Kernel drivers need
a model of the hardware. A helper call that the coordinator gives up on ends with the call; whether
a timed-out `sudo` child survives is a question about sudo.

## Plan

1. `UpdateCoordinator`: the recovery wait, wipe confirmation and transport entry of
   `Run-LaptopRomUpdate-v1.py`, composed with `HostControl`.
2. The teardown on a network change (`onNetworkChanged`, `mNoRoamCids`) and the second slot in `DataCalls`.
