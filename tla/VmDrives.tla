------------------------------- MODULE VmDrives -------------------------------
(***************************************************************************)
(* How the drives of a task reach its VM.  StartTask validates the drives  *)
(* of the job, links their files into the chroot, turns the host volumes   *)
(* into further drives and into mounts named by device letter, and puts    *)
(* every drive to Firecracker (external), which keeps a list of devices    *)
(* the guest sees as /dev/vda, /dev/vdb, ...; or it restores a snapshot,   *)
(* with the list of devices of the VM that was saved.  Between two starts  *)
(* the host may give its block devices other names.                        *)
(***************************************************************************)
EXTENDS Naturals, Sequences, SequencesExt

CONSTANTS
  Names,       \* drive names jobs use
  NoName,      \* no name, the empty string
  Files,       \* regular files, by resolved path [dir, base]
  Allowed,     \* files in the allocation directory or in image_paths
  Kernel,      \* path of the kernel image
  Volumes,     \* host volumes: links such as /dev/vg/lv to what has the data
  Namings,     \* base names of the device nodes they may resolve to
  NotDevice,   \* the name of a volume that is not a device
  Nothing,     \* no snapshot
  DefaultId,   \* DefaultId[i] is "drive<i>"
  LastLetter,  \* index of the last device letter, 25 in the code
  MaxDrives,   \* bound on the drives of a job
  MaxVolumes,  \* bound on its host volumes
  MaxStarts    \* bound on the starts of the task

ASSUME FilesAssumption ==
  /\ Kernel \in Allowed /\ Allowed \subseteq Files /\ Files \cap Volumes = {}
  /\ NoName \notin Names
ASSUME DefaultIdAssumption ==
  \A i, j \in 0..(MaxDrives + MaxVolumes) : DefaultId[i] = DefaultId[j] => i = j
(* Device nodes have the names the kernel gives, one for each device. *)
ASSUME NamingAssumption ==
  \A n \in Namings :
    /\ DOMAIN n = Volumes
    /\ \A v, w \in Volumes : n[v] = n[w] /\ n[v] # NotDevice => v = w
    /\ \A v \in Volumes, f \in Files : n[v] # f.base
ASSUME BoundsAssumption ==
  LastLetter \in Nat /\ MaxDrives \in Nat /\ MaxVolumes \in Nat /\ MaxStarts \in Nat

(* What Firecracker knows of a device, what a guest's memory is about, and  *)
(* a snapshot of both.                                                      *)
Devices ==
  [id : Names \cup {DefaultId[i] : i \in 0..(MaxDrives + MaxVolumes)},
   file : {f.base : f \in Files} \cup {n[v] : n \in Namings, v \in Volumes},
   root : BOOLEAN]
Memories == [disks : Seq(Files \cup Volumes), naming : Namings]
Snapshots == [devices : Seq(Devices), guest : Memories]

ASSUME NothingAssumption == Nothing \notin Memories /\ Nothing \notin Snapshots

VARIABLES
  job,      \* its drives [name, path, root] and its volumes
  naming,   \* the node each volume resolves to
  starts,   \* starts so far
  phase,    \* how far StartTask is
  root,     \* chroot root: file name -> whose data is behind the entry
  drives,   \* driverConfig.Drives [name, file, root]
  put,      \* how many of them have been put
  mounts,   \* guest mounts: the device index of each volume
  devices,  \* Firecracker's block devices [id, file, root]
  guest,    \* what the guest's memory is about: whose data each of its devices
            \* had when it booted [disks], under which naming; or Nothing
  saved     \* the snapshot of an earlier VM, [devices, guest], or Nothing

vm == <<root, drives, put, mounts, devices, guest>>
vars == <<job, naming, starts, phase, vm, saved>>

Drive == [name : Names \cup {NoName}, path : Files, root : BOOLEAN]

Jobs == [drives : BoundedSeq(Drive, MaxDrives), volumes : BoundedSeq(Volumes, MaxVolumes)]

Empty == [b \in {} |-> Kernel]

(* The name of the chroot entry for a file or a volume. *)
Base(x) == IF x \in Volumes THEN naming[x] ELSE x.base

TypeOK ==
  /\ job \in Jobs /\ naming \in Namings
  /\ starts \in 0..MaxStarts
  /\ phase \in {"idle", "valid", "linked", "attached", "booted"}
  /\ \A b \in DOMAIN root : root[b] \in Files \cup Volumes /\ Base(root[b]) = b
  /\ \A i \in DOMAIN drives : drives[i].file \in DOMAIN root
  /\ \A k \in DOMAIN mounts : mounts[k] \in 0..LastLetter
  /\ put \in 0..Len(drives)
  /\ devices \in Seq(Devices)
  /\ \A i \in DOMAIN devices : devices[i].file \in DOMAIN root
  /\ guest \in IF phase = "booted" THEN Memories ELSE {Nothing}
  /\ saved \in Snapshots \cup {Nothing}

Init ==
  /\ job \in Jobs
  /\ naming \in Namings
  /\ starts = 0 /\ phase = "idle"
  /\ root = Empty
  /\ drives = <<>> /\ put = 0 /\ mounts = <<>> /\ devices = <<>> /\ guest = Nothing
  /\ saved = Nothing

(* The end of a VM or of the attempt to start one: the chroot is removed    *)
(* with everything in it, at once or by the next start.                     *)
Over ==
  /\ phase' = "idle"
  /\ root' = Empty
  /\ drives' = <<>> /\ put' = 0 /\ mounts' = <<>> /\ devices' = <<>> /\ guest' = Nothing

-------------------------------------------------------------------------------
(* Validation of the job.                                                  *)

(* Mutant: duplicates pass. *)
ValidateNamesLoosely(names) ==
  \/ \A i \in DOMAIN names : names[i] = NoName
  \/ \A i \in DOMAIN names : names[i] # NoName

(* All drives are named, each differently, or none is. *)
ValidateNames(names) ==
  \/ \A i \in DOMAIN names : names[i] = NoName
  \/ /\ \A i \in DOMAIN names : names[i] # NoName
     /\ IsInjective(names)

Roots == {i \in DOMAIN job.drives : job.drives[i].root}

(* Mutant: at most one root device. *)
ValidWithoutRoot ==
  /\ job.drives # <<>>
  /\ \A i, j \in Roots : i = j
  /\ ValidateNames([i \in DOMAIN job.drives |-> job.drives[i].name])

Valid ==
  /\ job.drives # <<>>
  /\ \E i \in Roots : Roots = {i}
  /\ ValidateNames([i \in DOMAIN job.drives |-> job.drives[i].name])

(* A job that is not valid fails the start before anything is made. *)
StartTask ==
  /\ phase = "idle"
  /\ starts < MaxStarts
  /\ starts' = starts + 1
  /\ phase' = IF Valid THEN "valid" ELSE "idle"
  /\ UNCHANGED <<job, naming, vm, saved>>

-------------------------------------------------------------------------------
(* Guest files: the kernel and the user's drives are hard links.           *)

Guest == {Kernel} \cup {job.drives[i].path : i \in DOMAIN job.drives}

(* Allowed, linkable, and no two of them with one file name. *)
Linkable ==
  /\ Guest \subseteq Allowed
  /\ \A p, q \in Guest : p.base = q.base => p = q

JobDrives ==
  [i \in DOMAIN job.drives |->
    [name |-> job.drives[i].name, file |-> job.drives[i].path.base,
     root |-> job.drives[i].root]]

LinkGuestFiles ==
  /\ phase = "valid"
  /\ Linkable
  /\ root' = [b \in {p.base : p \in Guest} |-> CHOOSE p \in Guest : p.base = b]
  /\ drives' = JobDrives
  /\ phase' = "linked"
  /\ UNCHANGED <<job, naming, starts, put, mounts, devices, guest, saved>>

LinkFails ==
  /\ phase = "valid"
  /\ ~Linkable
  /\ Over
  /\ UNCHANGED <<job, naming, starts, saved>>

-------------------------------------------------------------------------------
(* Host volumes: device nodes, behind the user's drives.                   *)

(* Mutant: the letters of the user's drives are not skipped. *)
LetterFromA(k) == k - 1

(* Device index of the k-th volume. *)
Letter(k) == Len(job.drives) + k - 1

(* Mutant: one letter too many. *)
AttachableOffByOne ==
  \A k \in DOMAIN job.volumes :
    naming[job.volumes[k]] # NotDevice /\ Letter(k) <= LastLetter + 1

(* Each volume is a device: a character device is taken for a block device, *)
(* and it is Firecracker that refuses the drive (StartFails).               *)
Attachable ==
  \A k \in DOMAIN job.volumes :
    naming[job.volumes[k]] # NotDevice /\ Letter(k) <= LastLetter

Nodes == {naming[job.volumes[k]] : k \in DOMAIN job.volumes}

(* An entry of that name is replaced, or left when it is the same device. *)
LinkDeviceNodes ==
  root' = [b \in DOMAIN root \cup Nodes |->
             IF b \in Nodes THEN CHOOSE v \in Volumes : naming[v] = b ELSE root[b]]

VolumeDrives ==
  [k \in DOMAIN job.volumes |->
    [name |-> NoName, file |-> naming[job.volumes[k]], root |-> FALSE]]

AttachHostVolumes ==
  /\ phase = "linked"
  /\ Attachable
  /\ LinkDeviceNodes
  /\ drives' = drives \o VolumeDrives
  /\ mounts' = [k \in DOMAIN job.volumes |-> Letter(k)]
  /\ phase' = "attached"
  /\ UNCHANGED <<job, naming, starts, put, devices, guest, saved>>

AttachFails ==
  /\ phase = "linked"
  /\ ~Attachable
  /\ Over
  /\ UNCHANGED <<job, naming, starts, saved>>

-------------------------------------------------------------------------------
(* A cold boot: the drives are put one by one, each under its id.          *)

DriveId(i) == IF drives[i].name = NoName THEN DefaultId[i - 1] ELSE drives[i].name

Device(i) == [id |-> DriveId(i), file |-> drives[i].file, root |-> drives[i].root]

(* Firecracker: a known id is updated in place, the root device comes first.*)
Insert(d) ==
  IF \E i \in DOMAIN devices : devices[i].id = d.id
    THEN [i \in DOMAIN devices |-> IF devices[i].id = d.id THEN d ELSE devices[i]]
    ELSE IF d.root THEN <<d>> \o devices ELSE Append(devices, d)

PutDrive ==
  /\ phase = "attached"
  /\ saved = Nothing
  /\ put < Len(drives)
  /\ devices' = Insert(Device(put + 1))
  /\ put' = put + 1
  /\ UNCHANGED <<job, naming, starts, phase, root, drives, mounts, guest, saved>>

(* Whose data the guest finds behind its i-th block device. *)
Behind(i) == root[devices[i].file]

StartInstance ==
  /\ phase = "attached"
  /\ saved = Nothing
  /\ put = Len(drives)
  /\ guest' = [disks |-> [i \in DOMAIN devices |-> Behind(i)], naming |-> naming]
  /\ phase' = "booted"
  /\ UNCHANGED <<job, naming, starts, root, drives, mounts, put, devices, saved>>

-------------------------------------------------------------------------------
(* A restore: the devices are those of the saved VM, opened by the names    *)
(* they had in its chroot.                                                  *)

(* Mutant: the devices are made anew, in the order of the job. *)
LoadInJobOrder ==
  /\ phase = "attached"
  /\ saved # Nothing
  /\ \A i \in DOMAIN saved.devices : saved.devices[i].file \in DOMAIN root
  /\ devices' = [i \in DOMAIN drives |-> Device(i)] /\ guest' = saved.guest
  /\ phase' = "booted"
  /\ UNCHANGED <<job, naming, starts, root, drives, mounts, put, saved>>

LoadSnapshot ==
  /\ phase = "attached"
  /\ saved # Nothing
  /\ \A i \in DOMAIN saved.devices : saved.devices[i].file \in DOMAIN root
  /\ devices' = saved.devices /\ guest' = saved.guest
  /\ phase' = "booted"
  /\ UNCHANGED <<job, naming, starts, root, drives, mounts, put, saved>>

(* For whatever reason; the snapshot is removed. *)
LoadFails ==
  /\ phase = "attached"
  /\ saved # Nothing
  /\ Over
  /\ saved' = Nothing
  /\ UNCHANGED <<job, naming, starts>>

(* Any other step of StartTask fails. *)
StartFails ==
  /\ phase \in {"valid", "linked", "attached"}
  /\ Over
  /\ UNCHANGED <<job, naming, starts, saved>>

-------------------------------------------------------------------------------
(* The VM ends, by itself or by a StopTask that may save it (see Snapshot). *)
Stop ==
  /\ phase = "booted"
  /\ saved' \in {saved, [devices |-> devices, guest |-> guest]}
  /\ Over
  /\ UNCHANGED <<job, naming, starts>>

(* The host reboots, or activates its volumes anew. *)
Renumber ==
  /\ phase = "idle"
  /\ naming' \in Namings
  /\ UNCHANGED <<job, starts, phase, vm, saved>>

Next ==
  \/ StartTask \/ LinkGuestFiles \/ LinkFails \/ AttachHostVolumes \/ AttachFails
  \/ PutDrive \/ StartInstance \/ LoadSnapshot \/ LoadFails \/ StartFails
  \/ Stop \/ Renumber

Spec == Init /\ [][Next]_vars

-------------------------------------------------------------------------------
(* Properties.                                                             *)

Booted == phase = "booted"

(* The mount that pigeon-init is told of the k-th volume names the letter   *)
(* at which the guest sees that volume, however many drives precede it and  *)
(* wherever Firecracker put the root device; also after a restore, when the *)
(* volumes have the names they had.                                         *)
MountsMatchDevices ==
  Booted /\ naming = guest.naming => \A k \in DOMAIN job.volumes :
    mounts[k] < Len(devices) /\ Behind(mounts[k] + 1) = job.volumes[k]

(* /dev/vda is the root drive of the job, whatever its place in the job and *)
(* whatever its name, be the VM booted or restored.                         *)
RootIsVda ==
  Booted => devices # <<>> /\ devices[1].root
            /\ \E i \in Roots : Behind(1) = job.drives[i].path

(* Every drive of the job is a device of its own, under the name the job    *)
(* gave it, with the file the job gave it: no other drive and no volume     *)
(* took its id or its name in the chroot, now or when the VM was saved.     *)
DrivesKept ==
  Booted => /\ Len(devices) = Len(job.drives) + Len(job.volumes)
            /\ \A i \in DOMAIN job.drives : \E j \in DOMAIN devices :
                 /\ Behind(j) = job.drives[i].path
                 /\ devices[j].id = DriveId(i)

(* A guest that is restored, however often it was saved and whatever names  *)
(* the volumes had in between, finds behind each of its devices the data it *)
(* had there when it booted; but for a volume that has another name now.    *)
DisksAsLeft ==
  Booted => /\ DOMAIN guest.disks = DOMAIN devices
            /\ \A i \in DOMAIN devices :
                 LET x == guest.disks[i] IN
                   \/ Behind(i) = x
                   \/ x \in Volumes /\ naming[x] # guest.naming[x]

(* docs/snapshots.md: in the same allocation the snapshot is always valid:  *)
(* a restored guest finds behind each device the data it knows.             *)
SnapshotStaysValid ==
  Booted => \A i \in DOMAIN devices : Behind(i) = guest.disks[i]

-------------------------------------------------------------------------------
(* The inductive invariant behind the passing properties.                  *)

(* No user drive has an id that the driver may make up for another. *)
NamesApart == \A i \in 0..(MaxDrives + MaxVolumes) : DefaultId[i] \notin Names

Count == Len(job.drives) + Len(job.volumes)

(* The chroot has the user's files as long as the drives are there. *)
ChrootInv ==
  /\ phase # "idle" => Valid
  /\ phase \in {"linked", "attached", "booted"} =>
       /\ Linkable
       /\ \A i \in DOMAIN job.drives :
            /\ job.drives[i].path.base \in DOMAIN root
            /\ root[job.drives[i].path.base] = job.drives[i].path
  /\ phase \in {"attached", "booted"} =>
       \A k \in DOMAIN job.volumes :
         naming[job.volumes[k]] \in DOMAIN root
         /\ root[naming[job.volumes[k]]] = job.volumes[k]

DriveInv ==
  /\ phase \in {"idle", "valid", "linked"} => devices = <<>> /\ put = 0
  /\ phase \in {"idle", "valid"} => drives = <<>> /\ root = Empty /\ mounts = <<>>
  /\ phase = "linked" => drives = JobDrives /\ mounts = <<>>
  /\ phase \in {"attached", "booted"} =>
       /\ Attachable
       /\ drives = JobDrives \o VolumeDrives
       /\ mounts = [k \in DOMAIN job.volumes |-> Letter(k)]

(* The i-th drive as Firecracker was told of it, under the names given. *)
DriveAs(i, names) ==
  IF i <= Len(job.drives)
    THEN [id |-> IF job.drives[i].name = NoName THEN DefaultId[i - 1] ELSE job.drives[i].name,
          file |-> job.drives[i].path.base, root |-> job.drives[i].root]
    ELSE [id |-> DefaultId[i - 1], file |-> names[job.volumes[i - Len(job.drives)]],
          root |-> FALSE]

RootIndex == CHOOSE i \in DOMAIN job.drives : Roots = {i}

(* Which drive is the j-th device when the first n are put. *)
At(j, n) ==
  IF RootIndex > n THEN j
  ELSE IF j = 1 THEN RootIndex ELSE IF j <= RootIndex THEN j - 1 ELSE j

Placed(list, n, names) ==
  Len(list) = n /\ \A j \in 1..n : list[j] = DriveAs(At(j, n), names)

DeviceInv ==
  /\ phase = "attached" => Placed(devices, put, naming)
  /\ phase = "booted" => Placed(devices, Count, guest.naming)
  /\ saved # Nothing => Valid /\ Placed(saved.devices, Count, saved.guest.naming)

IInv == TypeOK /\ ChrootInv /\ DriveInv /\ (NamesApart => DeviceInv)

(* Whose data is behind each device of a VM that boots: the job says it. *)
Source(i) ==
  IF i <= Len(job.drives) THEN job.drives[i].path ELSE job.volumes[i - Len(job.drives)]

Sources == [j \in 1..Count |-> Source(At(j, Count))]

(* A memory stays about what it was about when it was made. *)
MemoryInv ==
  /\ phase = "booted" => guest.disks = Sources
  /\ saved # Nothing => saved.guest.disks = Sources

===============================================================================
