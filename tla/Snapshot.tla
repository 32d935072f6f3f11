------------------------------- MODULE Snapshot -------------------------------
(***************************************************************************)
(* Snapshot-on-stop of one task (snapshot_on_stop = true) in one           *)
(* allocation: the two files vmstate and memory, the chroot they are       *)
(* written in, the snapshot directory they are moved to and linked back    *)
(* from, and the StartTask, StopTask, DestroyTask and RecoverTask handlers *)
(* of firecracker/driver.go as far as they touch them.                     *)
(*                                                                         *)
(* Every invocation of the task in the allocation has the same jailer id,  *)
(* hence the same chroot, socket and snapshot directory (jailerID), so one *)
(* copy of each is enough.  Nomad starts the next invocation once the VM   *)
(* of the last one is known to be dead and its StopTask has returned;      *)
(* DestroyTask may run in the middle of a StopTask.                        *)
(***************************************************************************)
EXTENDS Naturals, FiniteSets

CONSTANTS
  Absent,       \* no such file; in a write: this file is left alone
  Torn,         \* a file whose write was cut short
  MaxMoment,    \* bound on the number of disk writes
  MaxFaults,    \* bound on the number of environment faults
  ChrootMoves   \* may chroot_base be moved to another filesystem?

ASSUME ContentAssumption == Absent \notin Nat /\ Torn \notin Nat /\ Absent # Torn
ASSUME BoundAssumption == MaxMoment \in Nat /\ MaxFaults \in Nat /\ ChrootMoves \in BOOLEAN

VARIABLES
  disk,     \* moment of the guest's disk: bumped by every write to it
  snap,     \* files of <task_dir>/snapshots, each the moment it captures
  root,     \* the same two files in the chroot root
  linked,   \* files whose chroot entry and snapshot entry are one inode
  vm,       \* the VM process of the current invocation
  phase,    \* where the handler in progress is
  handle,   \* the task's entry in the task store
  sameFS,   \* chroot_base and the task directory share a filesystem
  orphan,   \* a VM nobody has a handle of may still write the disk
  faults,   \* faults the environment has injected so far
  \* What has happened, kept for the properties only.
  taken,    \* moment of the last completed CreateSnapshot
  outcome,  \* of the last StopTask, until the next boot
  cut       \* a CreateSnapshot may have been cut short since the last save

files == <<snap, root, linked>>
ghosts == <<taken, outcome, cut>>
vars == <<disk, files, vm, phase, handle, sameFS, orphan, faults, ghosts>>

Files == {"vmstate", "memory"}
Both(c) == [f \in Files |-> c]
Content == Nat \cup {Torn, Absent}

StartPhases == {"restoring", "booting", "booted"}
StopPhases == {"stopping", "paused", "created", "saving", "killing"}

TypeOK ==
  /\ disk \in Nat
  /\ snap \in [Files -> Content]
  /\ root \in [Files -> Content]
  /\ linked \in {{}, Files}
  /\ vm \in {"none", "fresh", "running", "paused"}
  /\ phase \in {"idle"} \cup StartPhases \cup StopPhases
  /\ handle \in {"none", "socket", "nosocket", "lost"}
  /\ sameFS \in BOOLEAN
  /\ orphan \in BOOLEAN
  /\ faults \in Nat
  /\ taken \in Nat
  /\ outcome \in {"none", "saved", "failed"}
  /\ cut \in BOOLEAN

Init ==
  /\ disk = 0
  /\ snap = Both(Absent) /\ root = Both(Absent) /\ linked = {}
  /\ vm = "none" /\ phase = "idle" /\ handle = "none"
  /\ sameFS \in BOOLEAN /\ orphan = FALSE /\ faults = 0
  /\ taken = 0 /\ outcome = "none" /\ cut = FALSE

Fault == faults < MaxFaults /\ faults' = faults + 1

-------------------------------------------------------------------------------
(* The file operations.                                                    *)

(* Both snapshot files exist. *)
Has == \A f \in Files : snap[f] # Absent

(* Firecracker writes w[f] to file f of its root, through the inode already *)
(* there: a linked file changes in the snapshot directory too.              *)
Through(w) ==
  [f \in Files |-> IF w[f] = Absent \/ f \notin linked THEN snap[f] ELSE w[f]]

Write(w) ==
  /\ root' = [f \in Files |-> IF w[f] = Absent THEN root[f] ELSE w[f]]
  /\ snap' = Through(w)
  /\ UNCHANGED linked

(* What a CreateSnapshot in flight may have written.  Once DestroyTask has  *)
(* removed the chroot there is nothing left to write to.                    *)
InFlight ==
  IF phase = "paused" /\ handle # "none"
    THEN [Files -> {Absent, Torn, disk}]
    ELSE {Both(Absent)}

(* Mutant: a move that always unlinks the source and breaks the link. *)
RenameUnlinks(f) ==
  /\ snap' = [snap EXCEPT ![f] = root[f]]
  /\ root' = [root EXCEPT ![f] = Absent]
  /\ linked' = linked \ {f}

(* rename(2) between two links of one inode does nothing. *)
Rename(f) ==
  /\ f \in linked => UNCHANGED <<snap, root>>
  /\ f \notin linked => /\ snap' = [snap EXCEPT ![f] = root[f]]
                        /\ root' = [root EXCEPT ![f] = Absent]
  /\ UNCHANGED linked

RemoveChroot == root' = Both(Absent) /\ linked' = {}

RemoveDir == snap' = Both(Absent) /\ linked' = {}

-------------------------------------------------------------------------------
(* StartTask.                                                              *)

NomadStarts == vm = "none" /\ phase = "idle" /\ handle # "lost"

(* Mutant: the chroot is cleaned after the snapshot was linked into it. *)
StartTaskCleansLate ==
  /\ NomadStarts
  /\ Has => sameFS
  /\ root' = Both(Absent) /\ linked' = {}
  /\ phase' = IF Has THEN "restoring" ELSE "booting"
  /\ vm' = "fresh"
  /\ handle' = "none"
  /\ UNCHANGED <<disk, snap, sameFS, orphan, faults, ghosts>>

(* Mutant: the snapshot is copied into the chroot instead of linked. *)
StartTaskCopies ==
  /\ NomadStarts
  /\ root' = IF Has THEN snap ELSE Both(Absent)
  /\ linked' = {}
  /\ phase' = IF Has THEN "restoring" ELSE "booting"
  /\ vm' = "fresh"
  /\ handle' = "none"
  /\ UNCHANGED <<disk, snap, sameFS, orphan, faults, ghosts>>

(* The old chroot is replaced, an existing snapshot linked into it, and the *)
(* jailer launched up to a ready API socket.                                *)
StartTask ==
  /\ NomadStarts
  /\ Has => sameFS
  /\ root' = IF Has THEN snap ELSE Both(Absent)
  /\ linked' = IF Has THEN Files ELSE {}
  /\ phase' = IF Has THEN "restoring" ELSE "booting"
  /\ vm' = "fresh"
  /\ handle' = "none"
  /\ UNCHANGED <<disk, snap, sameFS, orphan, faults, ghosts>>

(* link(2) fails with EXDEV: the start fails, the snapshot stays. *)
StartLinkFails ==
  /\ NomadStarts
  /\ Has /\ ~sameFS
  /\ RemoveChroot
  /\ handle' = "none"
  /\ UNCHANGED <<disk, snap, vm, phase, sameFS, orphan, faults, ghosts>>

(* Any other step of StartTask fails, PUT /mmds after the boot included.    *)
(* The deferred cleanup kills the VM, ignoring errors, and removes the      *)
(* chroot; the snapshot stays.                                              *)
StartFails ==
  /\ phase \in StartPhases
  /\ Fault
  /\ RemoveChroot
  /\ vm' = "none"
  /\ phase' = "idle"
  /\ orphan' \in {orphan, TRUE}
  /\ UNCHANGED <<disk, snap, handle, sameFS, ghosts>>

(* LoadSnapshot: Firecracker checks the vmstate file, not the memory file. *)
RestoreOk ==
  /\ phase = "restoring"
  /\ root["vmstate"] # Torn
  /\ vm' = "running"
  /\ phase' = "booted"
  /\ outcome' = "none"
  /\ UNCHANGED <<disk, files, handle, sameFS, orphan, faults, taken, cut>>

(* Mutant: a snapshot that does not load is kept. *)
RestoreFailsKeeps ==
  /\ phase = "restoring"
  /\ RemoveChroot
  /\ vm' = "none"
  /\ phase' = "idle"
  /\ outcome' = "none"
  /\ UNCHANGED <<disk, snap, handle, sameFS, orphan, faults, taken, cut>>

(* The snapshot is removed, and the deferred cleanup kills the VM, ignoring *)
(* errors.                                                                  *)
RestoreFails ==
  /\ phase = "restoring"
  /\ \/ UNCHANGED <<orphan, faults>>
     \/ Fault /\ orphan' = TRUE
  /\ RemoveDir
  /\ root' = Both(Absent)
  /\ vm' = "none"
  /\ phase' = "idle"
  /\ outcome' = "none"
  /\ cut' = FALSE
  /\ UNCHANGED <<disk, handle, sameFS, taken>>

ColdBoot ==
  /\ phase = "booting"
  /\ vm' = "running"
  /\ phase' = "booted"
  /\ outcome' = "none"
  /\ UNCHANGED <<disk, files, handle, sameFS, orphan, faults, taken, cut>>

StartDone ==
  /\ phase = "booted"
  /\ phase' = "idle"
  /\ handle' = "socket"
  /\ UNCHANGED <<disk, files, vm, sameFS, orphan, faults, ghosts>>

-------------------------------------------------------------------------------
(* The guest.                                                              *)

GuestRuns ==
  /\ vm = "running"
  /\ disk < MaxMoment
  /\ disk' = disk + 1
  /\ UNCHANGED <<files, vm, phase, handle, sameFS, orphan, faults, ghosts>>

OrphanRuns ==
  /\ orphan
  /\ disk < MaxMoment
  /\ disk' = disk + 1
  /\ UNCHANGED <<files, vm, phase, handle, sameFS, orphan, faults, ghosts>>

(* The guest powers off or reboots, or the VM process dies. *)
GuestExits ==
  /\ vm \in {"running", "paused"}
  /\ vm' = "none"
  /\ UNCHANGED <<disk, files, phase, handle, sameFS, orphan, faults, ghosts>>

-------------------------------------------------------------------------------
(* StopTask.  A stop that finds the VM already dead is one whose VM dies   *)
(* right after this step.                                                  *)

StopTask ==
  /\ phase = "idle"
  /\ handle \in {"socket", "nosocket"}
  /\ vm # "none"
  /\ phase' = IF handle = "socket" THEN "stopping" ELSE "killing"
  /\ UNCHANGED <<disk, files, vm, handle, sameFS, orphan, faults, ghosts>>

(* Pausing a paused VM succeeds. *)
PauseOk ==
  /\ phase = "stopping"
  /\ vm # "none"
  /\ vm' = "paused"
  /\ phase' = "paused"
  /\ outcome' = "none"
  /\ UNCHANGED <<disk, files, handle, sameFS, orphan, faults, taken, cut>>

(* The VM is gone, or the call fails or times out, perhaps after its effect. *)
PauseFails ==
  /\ phase = "stopping"
  /\ \/ vm = "none" /\ UNCHANGED <<vm, faults>>
     \/ vm # "none" /\ Fault /\ vm' \in {vm, "paused"}
  /\ phase' = "killing"
  /\ outcome' = "failed"
  /\ UNCHANGED <<disk, files, handle, sameFS, orphan, taken, cut>>

(* Mutant: a differential snapshot, without the memory file. *)
CreateOkDiff ==
  /\ phase = "paused"
  /\ vm = "paused"
  /\ Write([vmstate |-> disk, memory |-> Absent])
  /\ taken' = disk
  /\ phase' = "created"
  /\ UNCHANGED <<disk, vm, handle, sameFS, orphan, faults, outcome, cut>>

CreateOk ==
  /\ phase = "paused"
  /\ vm = "paused"
  /\ Write(Both(disk))
  /\ taken' = disk
  /\ phase' = "created"
  /\ UNCHANGED <<disk, vm, handle, sameFS, orphan, faults, outcome, cut>>

CreateFails ==
  /\ phase = "paused"
  /\ IF vm = "none" THEN UNCHANGED faults ELSE Fault
  /\ \E w \in InFlight : Write(w)
  /\ cut' = TRUE
  /\ phase' = "killing"
  /\ outcome' = "failed"
  /\ UNCHANGED <<disk, vm, handle, sameFS, orphan, taken>>

(* Loc.Save: the two files are moved one after the other. *)
CanMove(f) == sameFS /\ root[f] # Absent

SaveVmstate ==
  /\ phase = "created"
  /\ CanMove("vmstate")
  /\ Rename("vmstate")
  /\ phase' = "saving"
  /\ UNCHANGED <<disk, vm, handle, sameFS, orphan, faults, ghosts>>

SaveMemory ==
  /\ phase = "saving"
  /\ CanMove("memory")
  /\ Rename("memory")
  /\ phase' = "killing"
  /\ outcome' = "saved"
  /\ cut' = FALSE
  /\ UNCHANGED <<disk, vm, handle, sameFS, orphan, faults, taken>>

SaveFails ==
  /\ \/ phase = "created" /\ (IF CanMove("vmstate") THEN Fault ELSE UNCHANGED faults)
     \/ phase = "saving" /\ (IF CanMove("memory") THEN Fault ELSE UNCHANGED faults)
  /\ RemoveDir
  /\ phase' = "killing"
  /\ outcome' = "failed"
  /\ cut' = FALSE
  /\ UNCHANGED <<disk, root, vm, handle, sameFS, orphan, taken>>

(* exec.Shutdown: StopTask returns, the VM is dead unless the call failed. *)
ShutdownOk ==
  /\ phase = "killing"
  /\ vm' = "none"
  /\ phase' = "idle"
  /\ UNCHANGED <<disk, files, handle, sameFS, orphan, faults, ghosts>>

ShutdownFails ==
  /\ phase = "killing"
  /\ vm # "none"
  /\ Fault
  /\ phase' = "idle"
  /\ UNCHANGED <<disk, files, vm, handle, sameFS, orphan, ghosts>>

-------------------------------------------------------------------------------
(* DestroyTask, also in the middle of a StopTask.  A failing Shutdown is   *)
(* only logged: the VM may outlive its handle.                             *)

(* Mutant: the snapshot directory is removed with the chroot. *)
DestroyTaskRemovesAll ==
  /\ phase \in {"idle"} \cup StopPhases
  /\ handle \in {"socket", "nosocket"}
  /\ UNCHANGED <<orphan, faults>>
  /\ RemoveDir
  /\ root' = Both(Absent)
  /\ cut' = (cut \/ phase = "paused")
  /\ vm' = "none"
  /\ handle' = "none"
  /\ UNCHANGED <<disk, phase, sameFS, taken, outcome>>

DestroyTask ==
  /\ phase \in {"idle"} \cup StopPhases
  /\ handle \in {"socket", "nosocket"}
  /\ \/ UNCHANGED <<orphan, faults>>
     \/ vm # "none" /\ Fault /\ orphan' = TRUE
  /\ \E w \in InFlight : snap' = Through(w)
  /\ RemoveChroot
  /\ cut' = (cut \/ phase = "paused")
  /\ vm' = "none"
  /\ handle' = "none"
  /\ UNCHANGED <<disk, phase, sameFS, taken, outcome>>

-------------------------------------------------------------------------------
(* The plugin process dies.  Executors and VMs survive it.                 *)

(* StartTask had not returned: nobody knows the VM it launched. *)
CrashInStart ==
  /\ phase \in StartPhases
  /\ Fault
  /\ orphan' = TRUE
  /\ vm' = "none"
  /\ phase' = "idle"
  /\ UNCHANGED <<disk, files, handle, sameFS, ghosts>>

(* A call in flight may still take effect. *)
CrashElsewhere ==
  /\ phase \in {"idle"} \cup StopPhases
  /\ handle # "lost"
  /\ Fault
  /\ \E w \in InFlight : Write(w)
  /\ cut' = (cut \/ phase = "paused")
  /\ vm' \in IF phase = "stopping" /\ vm = "running" THEN {vm, "paused"} ELSE {vm}
  /\ phase' = "idle"
  /\ handle' = IF handle = "none" THEN "none" ELSE "lost"
  /\ UNCHANGED <<disk, sameFS, orphan, taken, outcome>>

(* RecoverTask reattaches; a socket that does not answer is given up. *)
Recover ==
  /\ handle = "lost"
  /\ \/ vm # "none" /\ handle' = "socket" /\ UNCHANGED faults
     \/ vm = "none" /\ handle' = "nosocket" /\ UNCHANGED faults
     \/ vm # "none" /\ handle' = "nosocket" /\ Fault
  /\ UNCHANGED <<disk, files, vm, phase, sameFS, orphan, ghosts>>

(* The executor cannot be reached: Nomad gives the task up. *)
RecoverFails ==
  /\ handle = "lost"
  /\ Fault
  /\ handle' = "none"
  /\ orphan' = (orphan \/ vm # "none")
  /\ vm' = "none"
  /\ UNCHANGED <<disk, files, phase, sameFS, ghosts>>

(* The agent comes back with chroot_base on another filesystem. *)
MoveChroot ==
  /\ ChrootMoves /\ sameFS
  /\ vm = "none" /\ phase = "idle" /\ handle = "none"
  /\ sameFS' = FALSE
  /\ RemoveChroot
  /\ UNCHANGED <<disk, snap, vm, phase, handle, orphan, faults, ghosts>>

-------------------------------------------------------------------------------
Boot == RestoreOk \/ RestoreFails \/ ColdBoot

SnapshotOnStop ==
  \/ PauseOk \/ PauseFails
  \/ CreateOk \/ CreateFails
  \/ SaveVmstate \/ SaveMemory \/ SaveFails

Next ==
  \/ StartTask \/ StartLinkFails \/ StartFails \/ Boot \/ StartDone
  \/ GuestRuns \/ OrphanRuns \/ GuestExits
  \/ StopTask \/ SnapshotOnStop \/ ShutdownOk \/ ShutdownFails
  \/ DestroyTask
  \/ CrashInStart \/ CrashElsewhere \/ Recover \/ RecoverFails
  \/ MoveChroot

(* Nomad restarts a dead task and recovers a lost one; every call of the    *)
(* API a handler makes ends, since each has a deadline.  exec.Shutdown has  *)
(* none: nothing makes ShutdownOk happen, or RestoreFails, with its cleanup.*)
Fairness ==
  /\ WF_vars(StartTask \/ StartLinkFails)
  /\ WF_vars(RestoreOk \/ ColdBoot)
  /\ WF_vars(StartDone)
  /\ WF_vars(SnapshotOnStop)
  /\ WF_vars(Recover)

Spec == Init /\ [][Next]_vars /\ Fairness

-------------------------------------------------------------------------------
(* Properties.                                                             *)

(* Once snapshotOnStop has logged "snapshot saved", the snapshot directory  *)
(* holds the two files of the snapshot just taken, and they describe the    *)
(* disk as it is, whatever fails, crashes, is destroyed or is retried until *)
(* the next boot (unless a leaked VM writes the disk).                      *)
SavedSnapshotCurrent ==
  outcome = "saved" => snap = Both(taken) /\ (taken = disk \/ orphan)

(* The two files are moved, linked and overwritten one by one, yet a        *)
(* snapshot that Has() reports is one snapshot, not halves of two, as long  *)
(* as no CreateSnapshot was cut short and no leaked VM writes the disk.     *)
WholeSnapshot ==
  Has /\ ~cut /\ ~orphan => snap["vmstate"] = snap["memory"]

(* A VM that boots after a saved stop is restored, not cold booted, and     *)
(* resumes exactly the state of that stop, on the disk of that stop.        *)
SavedStateResumed ==
  [][vm = "fresh" /\ vm' = "running" /\ outcome = "saved"
       => /\ phase = "restoring"
          /\ root = Both(taken)
          /\ taken = disk \/ orphan]_vars

(* An exec.Shutdown never answers: that of StopTask, or that of the cleanup *)
(* after a restore that failed.                                             *)
Hangs == <>[](phase \in {"killing", "restoring"})

(* A dead task runs again, whatever became of its snapshot: a rejected, a   *)
(* half saved or a missing snapshot ends in a cold boot (docs/snapshots.md).*)
EventuallyRuns == (vm = "none" ~> vm = "running") \/ Hangs

(* The same wherever the chroot is on the filesystem of the snapshots, as   *)
(* docs/snapshots.md requires of it.                                        *)
RunsOnOneFS == (vm = "none" ~> vm = "running" \/ ~sameFS) \/ Hangs

(* docs/snapshots.md: if any step of the snapshot fails, it is discarded    *)
(* and the next start falls back to cold boot.                              *)
FailedStopDiscards == phase = "idle" /\ outcome = "failed" => ~Has

(* docs/snapshots.md: in one allocation the snapshot is always valid: what  *)
(* a restore resumes is the state the disk was left in.                     *)
RestoreMatchesDisk ==
  [][phase = "restoring" /\ vm' = "running" => root = Both(disk)]_vars

-------------------------------------------------------------------------------
(* The inductive invariant behind the safety properties.                   *)

(* Linked entries agree, and the vmstate file is the first to appear. *)
FilesInv ==
  /\ linked # {} => root = snap /\ Has
  /\ snap["memory"] # Absent => snap["vmstate"] # Absent

(* What each phase knows of the VM and of the files. *)
PhaseInv ==
  /\ vm = "fresh" <=> phase \in {"restoring", "booting"}
  /\ phase = "restoring" => linked = Files
  /\ phase = "booting" => ~Has /\ linked = {} /\ outcome # "saved"
  /\ phase = "booted" => outcome = "none"
  /\ handle = "lost" => phase = "idle"
  /\ phase \in {"paused", "created", "saving"} => vm # "running" /\ outcome = "none"

(* From CreateSnapshot to the second rename, the files are those of the     *)
(* snapshot being saved, wherever they are.                                 *)
SavingInv ==
  /\ phase \in {"created", "saving"} => taken = disk \/ orphan
  /\ phase = "created" => root["vmstate"] \in {Absent, taken}
  /\ phase \in {"created", "saving"} => root["memory"] \in {Absent, taken}
  /\ phase = "saving" => snap["vmstate"] = taken

SavedInv == SavedSnapshotCurrent /\ (outcome = "saved" => vm # "running")

(* A VM still to be snapshotted either was restored, so that its snapshot   *)
(* is overwritten in place, or was snapshotted before and paused ever since,*)
(* or there is no snapshot to be mixed with the new one.                    *)
Unmixed ==
  ~orphan /\ Has /\ linked = {} =>
    /\ vm \in {"running", "paused"} => vm = "paused" /\ snap = Both(disk)
    /\ phase = "created" /\ root["vmstate"] # Absent => snap = Both(taken)
    /\ phase = "saving" => snap = Both(taken)

IInv ==
  TypeOK /\ FilesInv /\ PhaseInv /\ SavingInv /\ SavedInv /\ WholeSnapshot /\ Unmixed

-------------------------------------------------------------------------------
(* The two files implement the one image of SnapshotContract.              *)

(* The snapshot that the next StartTask would find. *)
Image ==
  IF ~Has THEN Absent
  ELSE IF snap["vmstate"] = snap["memory"] THEN snap["vmstate"] ELSE Torn

(* A stop that has got as far as the pause goes on with a VM that is paused *)
(* or gone; in phase "paused" a CreateSnapshot is in flight.                *)
Life ==
  IF vm = "running" THEN "on"
  ELSE IF phase = "paused" THEN "creating"
  ELSE IF vm = "paused" \/ phase \in {"created", "saving"} THEN "paused" ELSE "off"

Contract == INSTANCE SnapshotContract WITH
  None <- Absent, Damaged <- Torn, image <- Image, life <- Life, lost <- orphan

(* However the creations, renames, links and removals of the two files are  *)
(* interleaved, cut short or repeated, what a start finds changes as one    *)
(* value: from an old snapshot to none or to the new one at once, never to  *)
(* a mixture, but by a CreateSnapshot that is cut short over an older one.  *)
ImplementsContract == Contract!Init /\ [][Contract!Next]_(Contract!vars)

=============================================================================
