# Verification of nomad-driver-firecracker

TLA+ models of the Firecracker task driver for Nomad, checked with TLC and
proved with TLAPS. Every definition is translated from the Go source;
`PROJECT.json` ("map") names the lines. Paths below are relative to
`src/firecracker/` unless they start with `docs/`.

## The system

The driver is a Nomad plugin process. Nomad calls its handlers concurrently; a
handler drives an *executor* process (one per task, outlives the plugin), which
launches the *jailer*, which becomes *Firecracker*, the VM process. The driver
talks to Firecracker over an API socket in the chroot and to a guest agent over
vsock. Before the launch it prepares the chroot and, with a bridge, the
allocation's network namespace.

| Component | State | Operations | Hard behaviour | What makes it correct |
|---|---|---|---|---|
| Task lifecycle: `driver.go`, `handle.go`, `state.go` | task store (ID to handle), `procState` of each handle, the chroot directory, the executor and VM processes | `StartTask`, `WaitTask`/`handleWait`, `StopTask`, `DestroyTask`, `RecoverTask`, `run()`; `SignalTask`, `InspectTask` | `run()` and `handleWait` wait for the same process separately; `DestroyTask` and `StopTask` overlap; crashes of plugin, executor and agent between any two steps; all invocations of a task share one chroot path | no false exit, no leaked VM, the chroot of a living VM is kept, an ended invocation stays ended |
| Snapshot on stop: `snapshot/snapshot.go`, parts of `driver.go` | `vmstate` and `memory` in the chroot and in `<task_dir>/snapshots`, some of them hard links of each other | `Has`, `Link`, `Save` (two renames), `RemoveDir`, pause/create/load | a crash or destroy between the renames; links overwritten in place; a snapshot that is older than the disk | a saved snapshot is whole, current, and what the next start resumes; a bad one never blocks the task |
| Stop deadline: `gracefulShutdown`, `StopTask`, `guestapi/client.go` | the deadline, the tiers tried | vsock signal, Ctrl+Alt+Del, poll, snapshot, `exec.Shutdown` | any of them may hang; all spend from one budget but `exec.Shutdown`, which may fail or hang without a limit | late only by what no wait asked for; no VM left by a stop that succeeded; an asked guest gets the budget |
| Drives and volumes: `config.go`, `network/validate.go`, `machine/volumes.go`, `machine/serialize.go`, `jailer/guest_files.go` | chroot entries, drive list, Firecracker's device list, guest mounts; the device list in a snapshot | validate, link, mknod, letter, id, put, load | four numbering and naming schemes must agree across the driver, Firecracker and a snapshot, while the host may rename its devices | the guest finds each volume at the letter it is told; no drive is lost |
| Network set-up: `network/setup.go` | TAP, qdiscs and filters of the namespace, which outlive a start | `SetupTapRedirect`: `findVeth`, `readVethConfigs`, `createTap`, `addRedirects` | repeated on every start, over what failed or crashed attempts left; errors that are dropped | a running guest is connected, whatever came before |
| Boot: `machine/client.go`, `machine/serialize.go`, `network/config.go`, `StartTask` | the calls made so far, Firecracker's configuration | `WaitForReady`, `ConfigureVM`, `LoadSnapshot`, `PutLogger` | order and time limits; any call may fail; a VMM that hangs, dies, or outlives its attempt | the order is accepted; no guest runs incomplete; only faults leave a VM; the start ends |
| MMDS: `machine/mmds.go` | Firecracker's data store, which no snapshot holds | `BuildMmdsContent`, `PutMmds` | put after the guest was started; merged with the user's | the guest is told its addresses and mounts, cold or restored |
| Fingerprint, jailer arguments, schemas | | | pure, or sharing no state with tasks | (left out, see below) |

Nomad (external) is modelled from the driver interface: for each task it starts
an invocation (with a fresh task ID), waits, may stop it at any time, and after
the wait has answered destroys it by force; then it may start the next one. It
starts the next one only after an outstanding `StopTask` has returned. After a
restart it recovers what it was told of, and gives up what cannot be recovered.

## Modules

| Module | Models |
|---|---|
| `TaskLifecycle` | the handlers, the task store and `run()`, for a set `Task` of invocations of one task |
| `TaskContract` | what Nomad may see of them; `TaskLifecycle` implements it, and so do the attempts of `VmBoot` |
| `TaskLifecycleProofs` | the proofs about `TaskLifecycle` |
| `Snapshot` | the two snapshot files through all handlers of one task in one allocation |
| `SnapshotContract` | one image that is written, resumed and removed at once; the two files of `Snapshot` implement it |
| `SnapshotProofs` | the proofs about `Snapshot` |
| `StopDeadline` | one `StopTask` in time |
| `StopDeadlineProofs` | the proofs about `StopDeadline` |
| `VmDrives` | the way from the job's drives and volumes to the guest's devices, over the starts of a task, for every job |
| `VmDrivesProofs` | the proofs about `VmDrives` |
| `TapSetup` | `SetupTapRedirect`, call by call, on a namespace that earlier attempts have used |
| `VmBoot` | `StartTask` from the network set-up to the metadata, over the attempts of one allocation; extends `TapSetup` |
| `VmBootProofs` | the proofs about `VmBoot` and `TapSetup` |
| `MC...` | the values of constants for TLC |

Each module takes a part of `StartTask` or `StopTask` apart that the others keep
as one step: `StartReturns` of `TaskLifecycle` stands for `VmBoot` from
`WaitForReady` on, the `drives` call of `VmBoot` for the `PutDrive`s of `VmDrives`,
`Stop` of `VmDrives` and `TaskEnds` of `VmBoot` for the stops of `Snapshot`. The
refinements justify two of these seams: because the files of `Snapshot` implement the
one image of `SnapshotContract`, `VmBoot` and `VmDrives` may keep the snapshot in one
variable `saved`; and because an attempt of `VmBoot` implements one start of
`TaskContract`, `TaskLifecycle` may treat the boot as one step that returns or fails.

Definitions called "Mutant" in comments are single plausible bugs; `PROJECT.json`
pairs each checked property with one that breaks it. They are not part of `Next`.

### TaskLifecycle

Each handler is cut where another thread can get in between. `StartTask` is
`BeginStart` (checks, chroot; driver.go 166-296), `CreateExecutor`, `Launch`,
and `StartReturns` (boot, `tasks.Set`, `go h.run()`; 395-526). `StartFails` is
the deferred cleanup from any point. `run()` is `WaitReturns`, then `RunRecords`
under the lock. `StopTask` is its lookup, the end of the graceful part, and
`exec.Shutdown`; the VM, a destroy or a crash may come in between.
`DestroyTask` is `DestroyKill`, `DestroyDelete`, `DestroyRemove`. `store[t]` is
the `procState` of the handle in the task store; a handle that a goroutine still
holds after the deletion is not visible any more, so `RunRecords` then changes
nothing.

Environment: the VM exits at any time; the executor fails (`ExecutorFails`); `Wait`
fails by itself; the plugin process dies (store and goroutines gone, executors and
VMs stay); the agent restarts and recovers a plugin that lived. Each of these but
the exit of the VM is counted by `MaxFaults`.

No call on the executor has a time limit (`Wait` in `handle.go` 71 and `driver.go` 613,
`Shutdown` in 315, 667 and 781). An executor that fails is therefore one of three:
*broken*, when every call returns an error; *gone*, when calls fail and the plugin sees
that it has exited; or *wedged*, when a call neither fails nor returns. Every step
that returns from a call on an executor (`WaitReturns`, `WaitAnswers`, `StopShutdown`,
`StartFails`, `DestroyKill`) is disabled while it is wedged. Somebody outside may kill it,
which makes it gone; nothing in the driver or in Nomad does. A VM that
the driver cannot reach any more because its executor or its handle was lost is
recorded in `excused`; the safety properties except those VMs, since the
code keeps no other hold on them. That is a limit of the driver worth knowing:
the executor is the only way to kill, and `StopTask` reports success when it is gone.

`RecoverFails` excludes one interleaving TLC finds: an agent restarting between
the `tasks.Delete` and the `RemoveAll` of a `DestroyTask` gives the task up and
starts the next one, whose chroot the old call then removes. An agent restart
takes far longer than a directory removal, and the guard says so.

### Snapshot

A file is the *moment* of the guest disk it captures, `Torn`, or `Absent`. `snap`
is the snapshot directory, `root` the chroot, `linked` says that the entries are
hard links of one inode, which is what makes `CreateSnapshot` after a restore
overwrite the saved files in place and `rename` a no-op. `disk` is bumped by a
running guest. A `CreateSnapshot` that fails, or whose caller dies, may have
written any combination of whole, torn or no files. The cleanup of a restore that failed
(`RestoreFails`) drops the error of its kill, so a fault may leave the VM behind, an
`orphan`. `taken`, `outcome` and `cut`
record history for the properties.

### StopDeadline

Time is in ticks; a tick can pass only where the code waits and only until that
wait's end. Whether vsock and the API accept, refuse or hang is chosen at the
start. A tier that hangs ends by its context.

What has no wait and still takes time (moving the snapshot's files after the
context has ended, the way to the executor and back, a handler that is not scheduled) is
`Delay`: at most `MaxLate` ticks, counted in `lost`, at any point. So StopTask can come to
`exec.Shutdown` after its deadline, which is where the clamp of a negative rest works.

The executor is as in `TaskLifecycle`, and may fail before or during `exec.Shutdown`. Its
error is what `Error` returns: success when the executor is gone, else a failure, in both
cases with a VM that may live. A wedged one returns nothing. `result` is what `StopTask`
returned.

### VmDrives

The initial state is any job: drives with names, paths and the root flag, and
host volumes. Files are `[dir, base]` pairs since the chroot keeps base names
only; `Allowed` says which of them lie in an allowed directory. A volume is a
link such as `/dev/vg/lv`, `naming` gives the node it resolves to (`dm-0`), which
the host may change between two starts (`Renumber`). `root` maps each chroot entry
to the file or volume whose data is behind it (`Behind`). A volume need only be a device (`os.ModeDevice`, volumes.go 26), so a character
device is taken like a block device. `Insert` is Firecracker's
documented device list (external): a known id is replaced, the root device goes
first. A stop may save the devices with what the guest's memory is about: whose
data each device had when the guest booted. `LoadSnapshot` brings both back, its
devices opened by the names they had in the old chroot; it is rejected, and
`LoadFails` removes it, when one of them is not there. The initrd, which is linked
like the kernel, is left out.

`NamingAssumption` says that two volumes that are different devices resolve to
different names and no image file is named like one; the kernel names nodes
that way. Two nodes made by hand with one base name in different directories
would replace each other in `LinkDeviceNodes`.

### TapSetup

One action per netlink call, each of which may fail. The namespace (`tap`,
`ingress`, and the targets of the redirect filters on either side) survives an
attempt; deleting a device takes its own qdisc and filters with it but not the
veth's filter that points to it, and a new device has a new index. `LinkAdd` of a
device that exists reports `EEXIST` or attaches to it and reports success, both of
which the kernel does, depending on how it was made; the code takes the latter
for a device of its own and may delete it later. A Firecracker that outlived its attempt
(`left`) has its TAP device open, which has one queue: the device is then `Held`, and
`LinkAdd` reports `EEXIST` or fails. The newest of the filters
on a device wins. The deferred switch back to the driver's own namespace is
taken to work. The link-local test of `readVethConfigs` (306) is in the data: a veth has
its link-local IPv6 addresses in a sequence of their own, `local`, so that `ReadVethConfigs`
stays a function the proofs can use; a filter over a sequence is recursive.

### VmBoot

`Calls` is the sequence of API calls `StartTask` makes for a job, computed as the
code computes it (`OnBridge`, `NicId`, `MmdsNic`, `BuildMmdsContent`); `called` counts
those that succeeded. `Accepts` is Firecracker's side (external): devices before
the start, the metadata service after its interface, a snapshot only into a VMM
with nothing but a logger, the logger once. `conf` holds what it has accepted.
Any call may fail by itself or because Firecracker rejects it or is gone;
`CallFails` is the return into the deferred cleanup, which for `LoadSnapshot` has
removed the snapshot. `WaitForReady` is `Probe` and its answers, with the 3 s as
`DeadlinePasses`. The guest (external) reads the MMDS until something is
there.

The deferred cleanup is a phase of its own. `Cleanup` kills Firecracker, or by a fault does
not, since the errors of `execImpl.Shutdown` and `pluginClient.Kill` are dropped;
`CleanupHangs` is a `Shutdown` that never returns. The plugin may `Crash` in any phase of
`StartTask`, that one included. The Firecracker of a kill that failed or of a crash is
moved to `left` with the TAP device it has open, and may end at any time (`LeftExits`); the
attempt itself is over, as the driver knows nothing of it any more. The namespace, a
snapshot and `left` survive an attempt.

## Runs

| Run | Checks | Result |
|---|---|---|
| `snapshot` | `SavedSnapshotCurrent`, `WholeSnapshot`, `SavedStateResumed`, types; `ImplementsContract`, `RunsOnOneFS` | holds |
| `snapshot_discard` | a failed stop discards the snapshot (docs/snapshots.md:36) | **violated** |
| `snapshot_consumed` | a restore matches the disk (docs/snapshots.md:43) | **violated** |
| `snapshot_moved` | `EventuallyRuns` when the chroot moves (docs/snapshots.md:52) | **violated** |
| `lifecycle` | `ExitIsTrue`, `NoLeak`, `LiveKeepsChroot`, `StopKills`, `OverIsOver`, types; `ImplementsContract`, `DeathReported`, `EventuallyOver` | holds |
| `drives` | `MountsMatchDevices`, `RootIsVda`, `DrivesKept`, `DisksAsLeft`, letters | holds |
| `drives_named` | `MountsMatchDevices` with a drive named `drive1` | **violated** |
| `drives_renumbered` | a snapshot stays valid in its allocation (docs/snapshots.md:43) when the host renames its devices | **violated** |
| `boot` | `Connected`, `EveryCallAccepted`, `BootsComplete`, `GuestTold`, `LeftByFault`, types; `ImplementsContract`, `StartEnds`, `GuestNotLeftWaiting` | holds |
| `tap_reuse` | a restart reuses the filters (docs/networking.md:29) | **violated** |
| `stop_deadline` | `StopInTime`, `SuccessIsDeath`, `AskedGuestHasBudget`, `StopReturns`, `NeverBack`, types | holds |
| `stop_fallback` | the fallback of docs/signals.md:22 is tried | **violated** |

What the violations show:

* **snapshot_discard**: `snapshotOnStop` returns from a failed pause or create
  without `RemoveDir`. Restore, run on, stop again, and let the pause fail (in the
  trace because the guest has just powered off): the old snapshot is still
  there and is restored next, on a disk that may have moved on.
* **snapshot_consumed**: no failure is needed. Stop with a snapshot, restore, let
  the guest run and power off by itself: the next start restores the same
  memory again, on the newer disk.
* **snapshot_moved**: `Link` fails with `EXDEV`, `StartTask` returns the error and
  keeps the snapshot, so the same happens at every start.
* **drives_named**: the user calls drive 0 `drive1`; the first volume, unnamed and at
  index 1, gets the same id, and replaces it.
* **drives_renumbered**: a job with two volumes is saved with `dm-0` and `dm-1` in its
  devices; the host comes up with the two names exchanged, `LinkDeviceNodes` makes
  both nodes in the new chroot, and the restored guest, which still has its file
  systems mounted, reads and writes each volume as the other.
* **tap_reuse**: start, end, start: `FilterAdd` names neither a handle nor a priority, so
  the kernel makes a further filter where the code expects `EEXIST`. Traffic still
  flows, since all lead the same way (`Connected` holds), but filters accumulate
  with every restart.
* **stop_fallback**: an agent that accepts the connection and never answers uses up
  the one deadline both tiers share; Ctrl+Alt+Del is then sent under a context
  that has expired, and the guest is killed without it.

### Bounds

* `Snapshot`: `MaxMoment` 3 and `MaxFaults` 4. Three moments give an old snapshot, a
  newer disk and a newest one; the longest story of one property (save, restore
  with a cut, crash, retry) needs three faults. The chroot may move (`ChrootMoves`);
  `RunsOnOneFS` claims nothing of runs in which it did, which `snapshot_moved` is about.
* `TaskLifecycle`: two invocations, which is what sharing a chroot takes (an earlier
  one against the next), and three faults (an executor loss, a crash and a failing
  recovery together). No symmetry is declared, since liveness is checked.
* `VmDrives`: two drives and two volumes with three device letters
  (`LastLetter` = 2), so that four devices overflow them; three starts, for a cold
  boot, a restore, and a restore of what was restored. `drives` has two names, two files
  of one base name, a file outside the allowed directories, and two volumes whose
  names the host may exchange or replace, one of them also with something that is no
  device; its drive names are not of the form the driver makes up, as
  `drives_named` is about those.
* `VmBoot`: three attempts and two faults: what a failed attempt leaves, what a second
  one with another failure makes of it, and one that succeeds; or a Firecracker left
  behind by each of the first two while the third comes up. The veths have one address
  per family, with a gateway on the veth, elsewhere or nowhere, and one has
  none; the jobs are with and without a bridge, with named and unnamed interfaces,
  a metadata interface that is the second or none of them, and each optional device.
* `StopDeadline`: a timeout of three ticks lets each part end before, at and after
  half of it. `MaxLate` 2 lets `StopTask` come to `exec.Shutdown` after its deadline, by
  more than one tick, and lose time before and after a wait.

`CHECK_DEADLOCK FALSE` is set where the system really stops: every invocation is
over, the stop has returned, the starts are used up, or a call hangs for ever on the
executor.

### Fairness

* `TaskLifecycle`: weak fairness of the steps a handler or goroutine has begun. Those
  that wait for the executor are disabled while it is wedged, so fairness never makes a
  hung call return, and recovery is fair only while it is not. `DeathReported` and
  `EventuallyOver` are therefore conditional: they claim nothing of an invocation whose
  executor is wedged for ever (`Answers`), and everything of one whose executor is broken,
  gone, or wedged for a while and then killed. Weak fairness also of `WaitTask`, the forced
  `DestroyTask` and recovery, which Nomad's task runner performs. `Launch` and its
  neighbours are fair together, since a start may fail instead. Nothing is
  assumed of `StopTask`, of a VM's exit or of any fault.
* `Snapshot`: Nomad restarts a dead task and recovers a lost one, the API calls of a
  handler return (each has a deadline in the code). A step and its failure are
  fair together; faults end because they are bounded. `exec.Shutdown` has no
  deadline, so neither the kill of a stop nor the cleanup of a failed restore is fair:
  `RunsOnOneFS` excepts a task that stays there for ever (`Hangs`).
* `VmBoot`: a step of `StartTask` or its failure comes (`Proceed` is fair as a whole):
  API calls run under a ten-second context, the readiness probe, which has no
  context, under the SDK's own request timeout. The deadline passes, and `GiveUp` is
  strongly fair: Go's `select` picks among ready cases at random, so a deadline that stays
  ready is taken although the ticker is ready again and again. The cleanup ends unless
  `CleanupHangs`, which `StartEnds` and `GuestNotLeftWaiting` except. The guest goes on
  asking the MMDS. Nothing is assumed of Firecracker: it may never come up or never
  serve its socket.
* `StopDeadline`: time passes, and a wait that can end does. The one for a wedged executor
  cannot, and `StopReturns` excepts an executor that is wedged for ever. The record of
  `run()`, the failures of the executor and the time lost are not fair.

## Proofs

TLAPS proves, for every value of the constants the assumptions allow:

* `SnapshotProofs`: `TypeOK`, `SavedSnapshotCurrent`, `WholeSnapshot`,
  `SavedStateResumed`, and that `Snapshot` implements `SnapshotContract`.
* `StopDeadlineProofs`, for every timeout and bound on the time lost: `TypeOK`,
  `StopInTime`, `SuccessIsDeath`, `AskedGuestHasBudget`, `NeverBack`.
* `TaskLifecycleProofs`, for every set of invocations: `TypeOK`, `ExitIsTrue`, `NoLeak`,
  `LiveKeepsChroot`, `StopKills`, `OverIsOver`, and that `TaskLifecycle` implements
  `TaskContract`.
* `VmBootProofs`, for every veth, every job and any number of attempts and faults: `TypeOK`,
  `Connected`, `EveryCallAccepted`, `BootsComplete`, `GuestTold`, `LeftByFault`, and that the
  attempts implement `TaskContract`.
* `VmDrivesProofs`, for every number of drives and volumes, every naming and any number of
  starts: `TypeOK`; and, when no drive has a name of the form the driver makes up
  (`NamesApart`), `MountsMatchDevices`, `RootIsVda`, `DrivesKept` and `DisksAsLeft`. The condition is
  needed: `drives_named` shows what happens without it.

The assumptions are the named `ASSUME`s of the modules (`None` is no
invocation, the bounds and the timeout are naturals, `Absent` and `Torn` are no moments, the
interfaces of a job have passed `ValidateNames`, device nodes
have names of their own), which TLC evaluates in the runs.

Each goes by an inductive invariant `IInv`, defined in the component's module and
shown to hold initially and to be kept by each action, one step per action.

*Snapshot.* `WholeSnapshot` is not inductive: two renames may mix a new `vmstate`
with an old `memory`. What rules it out is that an old snapshot is present during
a save only in two cases: the VM was restored from it, and then the chroot
entries are links of it (`FilesInv`), so that creating the new snapshot has already
overwritten both files; or the VM has been paused ever since that snapshot
(`Unmixed`), and then both describe the same moment. `PhaseInv` and `SavingInv` say
what is where at each step of a stop, `SavedInv` that a VM whose stop was saved
does not run.

*TaskLifecycle.* `OneActive` (at most one invocation is active, and the chroot is
its own) carries `LiveKeepsChroot`; `KnownInv` (the store knows what Nomad waits for,
until `DestroyTask` has deleted it; once that has killed, the executor is gone) and
`AliveInv` (a living VM that no fault took away has a working executor and has not
been destroyed) carry `NoLeak` and `StopKills`; `ExitInv` adds to `ExitIsTrue` that what
`run()` has yet to record is true.

*StopDeadline.* `OneDeadline` says that no wait ends before the deadline, `TypeOK` that none
ends later than the deadline and the time lost, from the lemma that what is left of the
budget ends there, or at once when the deadline has passed. `AskedInv` says that a guest
that was asked is only ever polled for, that its status is not "exited" while it
lives, and that a result is there exactly when `StopTask` has returned. `SuccessIsDeath`
then is a matter of the two places where `exec.Shutdown` returns, and of a VM that never
comes back. `NeverBack` is the safety half of `StopReturns`: `StepsLeft`, which
`StopInTime` makes a natural number, gets less with every step, so that no sequence of
refusals, deaths, failures and ticks is longer than `Timeout + MaxLate + 10`; that the
next step is taken at all is fairness, and left to TLC.

*VmBoot.* `Connected` needs to know what each step of `SetupTapRedirect` has
established whatever it found (`TapInv`), and that a VMM is there only after the
set-up of the same attempt is done (`PhaseInv`). `CallsInv` relates the number of
calls made to what Firecracker is configured with; the lemmas `ConfigureFacts`,
`CallsFacts` and `CallPlace` say where in the sequence each call is, for any number of
interfaces and any choice of optional devices, from which `NextCall` gets that the next
one is accepted, or finds its TAP device held. `GuestInv` keeps what a guest runs on while
its attempt is cleaned up or hangs there. `LeftByFault` needs that `left` is finite
(`LeftInv`) and that each step that adds to it adds one and counts a fault: lemma
`LeaveCounts`. `SavedInv` carries completeness through a snapshot. `ContentFacts` and
`NetFacts` say what the merged metadata contains.

*VmDrives.* `Placed(list, n, names)` says which drive each device is when the first
n drives are put: those before the root device are shifted by one once it is there.
`InsertPlaced` proves that one more `PutDrive` keeps this; it needs that no two
drives have one id (`IdsDiffer`), from the validation of names and `NamesApart`. `ChrootInv`
says that each file and each volume of the job is behind its own entry, which rests on the
check for shared names in `LinkGuestFiles` and on `NamingAssumption`; with `Placed` for the
running VM and for the saved one this gives the three properties. `DisksAsLeft` needs one
thing more, which is proved beside `IInv`: `MemoryInv`, that every memory, running or
saved, restored any number of times, is still about the sources the job names. Lemma
`BehindSource` then says what is behind each device of any VM, cold or restored: the same
source, unless it is a volume that has been renamed since the devices were made.
`drives_renumbered` shows that this exception cannot be dropped.

*TaskLifecycle implements TaskContract.* `Life` and `Told` map the state to the
contract's: an invocation that Nomad has been told about is "alive", "dead" or, once
excused, "lost". Lemma `NextContract` maps each action under `IInv` to one contract step
or a stutter; the plugin crash, which touches all invocations at once, is one step only
because at most one is active.

*VmBoot implements TaskContract.* The n-th attempt is the n-th invocation. Its state is
read off the phase and the VMM (`Life`, in the proof `Stage` for the attempt in sight):
everything from the network set-up to the end of the cleanup is "starting". An attempt is
over when the phase is idle and it has no VMM that the driver could reach: the cleanup has
killed it, or a fault that `LeftByFault` counts has moved it to `left`. What a VM in `left`
does is no part of the contract, which gives up a VM by a fault as well. So every way
out of `StartTask`, a crash in any phase included, must be one `Abort`, which needs that
there is no VMM before the launch (`PhaseInv`) and that nothing but the cleanup or a crash
leads from a later phase to the next attempt; an attempt that hangs stays "starting" for
ever, and nothing starts after it. `Begun` adds that an attempt under way has been counted. Reports to
Nomad are `TaskLifecycle`'s matter, so `told` is constant here, and a task that ends alive
is given up.

*Snapshot implements SnapshotContract.* The contract has one image and knows no files. `Image`
is what the next start would find: nothing unless both files are there, their moment when
they agree, else `Torn`, a damaged image. `Life` takes a VM whose `CreateSnapshot` is in flight as
"creating". The contract damages an image only while "creating", and its image changes to the
disk as it is or to none, never back to an older moment. The cases that carry the proof are
those where two steps of the code are one of the contract, or none: a `CreateSnapshot` over links
of the old snapshot is the `Save` and the renames after it change no image (`FilesInv`);
without links the first rename changes none either, since there was no image or it is of
the same moment (`Unmixed`), and the second is the `Save`; and a `StartTask` that links files or clears the chroot changes no image.
Lemma `InFlightImage` says what a write in flight can make of the image, `Creating` that this
is a `Save` or a `CutShort`. The refinement needs `Unmixed` without an exception for runs in
which a creation was cut short. Once a VM is lost (`orphan`: a kill that
fails, a plugin crash in a start, a recovery that fails), whose writes nobody can order, the
contract promises nothing more.

Only model-checked: the liveness properties (`RunsOnOneFS`, `DeathReported`,
`EventuallyOver`, `StartEnds`, `GuestNotLeftWaiting`, `StopReturns`), since fairness is out of
the prover's reach. Every other property of a passing run is a theorem.

## Not modelled

* `SignalTask`: it tries the agent, Ctrl+Alt+Del and the executor's signal under five
  seconds and changes nothing of the driver; its effect, that the guest ends, may
  happen at any time in the models. `InspectTask`, `TaskStats` and `TaskEvents` only read;
  exec is refused.
* The fingerprint loop: a timer that sends attributes to Nomad and shares no state
  with tasks.
* The switch of a thread to the network namespace and back (network/setup.go 87-105):
  a switch back that fails is dropped by the code, and what the Go runtime then runs on
  that thread is beyond a model of the driver.
* Plugin configuration and schemas; jailer arguments, users and cgroups: strings and
  host look-ups. Sizes, MAC addresses and rate limits, which pass through unread.
* Data races of Go memory do not arise in what is modelled: the store and the handle's
  mutable fields are read and written under their locks.

## Plan

Done: the modules above, in the order `Snapshot`, `TaskLifecycle` with `TaskContract`,
`VmDrives`, `StopDeadline`, `TapSetup`, `VmBoot`, the proofs of each, and then
`SnapshotContract` and the refinements by `Snapshot` and `VmBoot`.

Worth adding should the code grow there: an abstract specification of the namespace that
`TapSetup` implements;
`SignalTask` against a `StopTask` in `StopDeadline`.
