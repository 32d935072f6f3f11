-------------------------------- MODULE VmBoot --------------------------------
(***************************************************************************)
(* StartTask from the network set-up to the metadata: the attempts to      *)
(* start the VM of one task in one allocation.  Each sets up the TAP       *)
(* device (TapSetup), launches Firecracker (external), waits for its API,  *)
(* makes its calls one by one and returns with a VM, or cleans up.  The    *)
(* namespace and the snapshot of a stop outlive an attempt, and so does a  *)
(* Firecracker that a kill did not reach.                                  *)
(***************************************************************************)
EXTENDS TapSetup, FiniteSets

CONSTANTS
  Jobs,        \* the jobs
  NicNames,    \* names of network interfaces
  NoName,      \* no name, the empty string
  DefaultNic,  \* DefaultNic[i] is the name made up for the i-th, "eth<i - 1>"
  Mounts,      \* mounts of the guest
  Nothing,     \* no metadata, no snapshot
  NotList,     \* absent from the metadata, or not a JSON array there
  MaxStarts    \* bound on the attempts

(* What is in the MMDS data store: its IPConfigs and its Mounts. *)
Content == [ips : Seq(Net) \cup {NotList}, mounts : Seq(Mounts) \cup {NotList}]

ASSUME JobsAssumption ==
  /\ Jobs \subseteq [bridge : BOOLEAN, nics : Seq(NicNames \cup {NoName}),
                     iface : NicNames \cup {NoName}, balloon : BOOLEAN, vsock : BOOLEAN,
                     user : Content \cup {Nothing}, mounts : Seq(Mounts),
                     snapshot : BOOLEAN]
  /\ \A j \in Jobs : \/ \A i \in DOMAIN j.nics : j.nics[i] = NoName
                     \/ /\ \A i \in DOMAIN j.nics : j.nics[i] # NoName
                        /\ IsInjective(j.nics)
ASSUME NothingAssumption ==
  Nothing \notin Content /\ NoName \notin NicNames /\ MaxStarts \in Nat
ASSUME NicAssumption ==
  \A j \in Jobs : \A i \in DOMAIN j.nics \cup {1} : DefaultNic[i] \in NicNames

VARIABLES
  job,      \* the job: its network, devices, metadata, volumes
  phase,    \* how far StartTask is; "running" when it has returned a handle,
            \* "hung" when its cleanup never ends
  starts,   \* attempts so far
  restore,  \* restoreFromSnapshot of the attempt
  late,     \* has the time of WaitForReady run out?
  called,   \* API calls that succeeded
  vmm,      \* the Firecracker process
  conf,     \* configuration calls it has accepted, or restored
  data,     \* its MMDS data store
  opened,   \* index of the TAP device it has open, 0 for none
  guest,    \* the guest: off, reading the MMDS, configured from it
  saved     \* the snapshot of the last stop, [conf, guest], or Nothing

attempt == <<phase, starts, restore, late, called>>
firecracker == <<vmm, conf, data, opened, guest>>
vars == <<tapVars, job, attempt, firecracker, saved>>

-------------------------------------------------------------------------------
(* The calls an attempt makes.                                             *)

(* With a bridge and no interface of its own, the job gets one on the TAP. *)
OnBridge == job.bridge /\ job.nics = <<>>

Nics == IF OnBridge THEN <<NoName>> ELSE job.nics

NicId(i) == IF Nics[i] = NoName THEN DefaultNic[i] ELSE Nics[i]

NicIds == {NicId(i) : i \in DOMAIN Nics}

MmdsNic == IF job.iface = NoName THEN NicId(1) ELSE job.iface

(* ToSDK fails when mmds.interface names none of the interfaces. *)
Valid == Nics # <<>> /\ job.iface # NoName => job.iface \in NicIds

PreBoot == {"machine", "boot", "drives", "nic", "balloon", "vsock", "mmds"}

Puts == [to : PreBoot \cup {"logger", "start"}, nic : NicNames \cup {NoName}]

(* A PUT of one resource, of the network interface nic or for it. *)
Put(to, nic) == [to |-> to, nic |-> nic]

PutIf(cond, to, nic) == IF cond THEN <<Put(to, nic)>> ELSE <<>>

NicPuts == [i \in DOMAIN Nics |-> Put("nic", NicId(i))]

(* Mutant: the metadata service is configured before its interface.         *)
ConfigureVMMmdsFirst ==
  <<Put("machine", NoName), Put("boot", NoName), Put("drives", NoName)>>
  \o PutIf(Nics # <<>>, "mmds", MmdsNic) \o NicPuts
  \o PutIf(job.balloon, "balloon", NoName) \o PutIf(job.vsock, "vsock", NoName)
  \o <<Put("start", NoName)>>

(* The drives, whose calls VmDrives models, are one call here. *)
ConfigureVM ==
  <<Put("machine", NoName), Put("boot", NoName), Put("drives", NoName)>> \o NicPuts
  \o PutIf(job.balloon, "balloon", NoName) \o PutIf(job.vsock, "vsock", NoName)
  \o PutIf(Nics # <<>>, "mmds", MmdsNic)
  \o <<Put("start", NoName)>>

(* Entries of the driver go behind those of the user. *)
Appended(existing, entries) ==
  IF entries = <<>> THEN existing
  ELSE IF existing = NotList THEN entries ELSE existing \o entries

BuildMmdsContent ==
  IF job.user = Nothing /\ nets = <<>> /\ job.mounts = <<>> THEN Nothing
  ELSE LET user == IF job.user = Nothing THEN [ips |-> NotList, mounts |-> NotList]
                                         ELSE job.user
       IN [ips |-> Appended(user.ips, nets), mounts |-> Appended(user.mounts, job.mounts)]

(* Mutant: a restored VM is not told again. *)
CallsColdOnly ==
  <<Put("logger", NoName)>>
  \o (IF restore THEN <<Put("load", NoName)>> ELSE ConfigureVM)
  \o PutIf(BuildMmdsContent # Nothing /\ ~restore, "data", NoName)

Calls ==
  <<Put("logger", NoName)>>
  \o (IF restore THEN <<Put("load", NoName)>> ELSE ConfigureVM)
  \o PutIf(BuildMmdsContent # Nothing, "data", NoName)

Call == Calls[called + 1]
Calling(to) == phase = "calls" /\ called < Len(Calls) /\ Call.to = to

(* The TAP device of the job is held by another process. *)
TapBusy == OnBridge /\ Held

(* What Firecracker takes: devices and their MMDS before the guest runs, a  *)
(* snapshot only when nothing but the logger is configured, the logger once.*)
(* It opens the TAP device for an interface, and for those of a snapshot.   *)
Accepts(c) ==
  \/ vmm = "serving" /\ c.to \in PreBoot \ {"mmds", "nic"}
  \/ vmm = "serving" /\ c.to = "nic" /\ ~TapBusy
  \/ vmm = "serving" /\ c.to = "mmds" /\ Put("nic", c.nic) \in conf
  \/ vmm = "serving" /\ c.to = "start" /\ Put("boot", NoName) \in conf
  \/ vmm = "serving" /\ c.to = "load" /\ conf \subseteq {Put("logger", NoName)} /\ ~TapBusy
  \/ vmm \in {"serving", "started"} /\ c.to = "logger" /\ c \notin conf
  \/ vmm \in {"serving", "started"} /\ c.to = "data"

-------------------------------------------------------------------------------
TypeOK ==
  /\ TapTypeOK
  /\ job \in Jobs
  /\ phase \in {"idle", "network", "prepare", "waiting", "probing", "calls",
             "cleanup", "hung", "running"}
  /\ starts \in 0..MaxStarts
  /\ restore \in BOOLEAN /\ late \in BOOLEAN
  /\ called \in Nat
  /\ vmm \in {"none", "starting", "bound", "serving", "started"}
  /\ conf \subseteq Puts
  /\ data \in Content \cup {Nothing}
  /\ opened \in Nat
  /\ guest \in {"off", "reading", "configured"}
  /\ saved # Nothing => saved \in [conf : SUBSET Puts, guest : {"reading", "configured"}]

Init ==
  /\ TapInit
  /\ job \in Jobs
  /\ phase = "idle" /\ starts = 0 /\ restore = FALSE /\ late = FALSE /\ called = 0
  /\ vmm = "none" /\ conf = {} /\ data = Nothing /\ opened = 0 /\ guest = "off"
  /\ saved = Nothing

(* The attempt has no Firecracker any more, and with it all but the         *)
(* snapshot is gone.                                                        *)
VmmEnds == vmm' = "none" /\ conf' = {} /\ data' = Nothing /\ opened' = 0 /\ guest' = "off"

(* Firecracker outlives the attempt: the fault that a caller of this counts *)
(* keeps the driver from it.                                                *)
Leave ==
  IF vmm = "none" THEN UNCHANGED left
  ELSE left' = left \cup {[attempt |-> starts, tap |-> opened]}

(* execImpl.Shutdown and pluginClient.Kill: Firecracker is killed, or the   *)
(* executor is in no state to do it and its error is dropped.               *)
Kill ==
  /\ VmmEnds
  /\ \/ UNCHANGED <<left, faults>>
     \/ vmm # "none" /\ Fault /\ Leave

-------------------------------------------------------------------------------
(* From the call of StartTask to the launch.                               *)

StartTask ==
  /\ phase = "idle"
  /\ starts < MaxStarts
  /\ starts' = starts + 1
  /\ phase' = IF OnBridge THEN "network" ELSE "prepare"
  /\ setup' = IF OnBridge THEN "read" ELSE "off"
  /\ added' = FALSE /\ nets' = <<>> /\ unrouted' = {}
  /\ restore' = FALSE /\ late' = FALSE /\ called' = 0
  /\ UNCHANGED <<veth, namespace, faults, left, job, firecracker, saved>>

SetupStep ==
  /\ phase = "network"
  /\ SetupTapRedirect
  /\ UNCHANGED <<job, attempt, firecracker, saved>>

AutoSetup ==
  /\ phase = "network"
  /\ \/ setup = "done" /\ phase' = "prepare"
     \/ setup = "failed" /\ phase' = "idle"
  /\ UNCHANGED <<tapVars, job, starts, restore, late, called, firecracker, saved>>

(* ToSDK, the look-up of a snapshot, the executor and the jailer. *)
Launch ==
  /\ phase = "prepare"
  /\ Valid
  /\ restore' = (job.snapshot /\ saved # Nothing)
  /\ vmm' = "starting"
  /\ phase' = "waiting"
  /\ UNCHANGED <<tapVars, job, starts, late, called, conf, data, opened, guest, saved>>

LaunchFails ==
  /\ phase = "prepare"
  /\ IF Valid THEN Fault ELSE UNCHANGED faults
  /\ phase' = "idle"
  /\ UNCHANGED <<veth, namespace, call, left, job, starts, restore, late, called,
                 firecracker, saved>>

(* The plugin dies within StartTask: the executor and its Firecracker, if   *)
(* it was launched, go on, and nobody knows of them.                        *)
Crash ==
  /\ phase \notin {"idle", "running"}
  /\ Fault
  /\ phase' = "idle" /\ setup' = "off"
  /\ Leave /\ VmmEnds
  /\ UNCHANGED <<veth, namespace, added, nets, unrouted, job, starts, restore, late, called,
                 saved>>

-------------------------------------------------------------------------------
(* WaitForReady.  A select that finds the ticker and the deadline both      *)
(* ready takes either.                                                      *)

DeadlinePasses ==
  /\ phase \in {"waiting", "probing"}
  /\ ~late
  /\ late' = TRUE
  /\ UNCHANGED <<tapVars, job, phase, starts, restore, called, firecracker, saved>>

(* The ticker fires and there is a socket. *)
Probe ==
  /\ phase = "waiting"
  /\ vmm # "starting"
  /\ phase' = "probing"
  /\ UNCHANGED <<tapVars, job, starts, restore, late, called, firecracker, saved>>

ProbeAnswers ==
  /\ phase = "probing"
  /\ vmm = "serving"
  /\ phase' = "calls"
  /\ UNCHANGED <<tapVars, job, starts, restore, late, called, firecracker, saved>>

ProbeFails ==
  /\ phase = "probing"
  /\ IF vmm = "serving" THEN Fault ELSE UNCHANGED faults
  /\ phase' = "waiting"
  /\ UNCHANGED <<veth, namespace, call, left, job, starts, restore, late, called,
                 firecracker, saved>>

(* Mutant: the deadline is looked at only while there is no socket. *)
GiveUpWithoutSocket ==
  /\ phase = "waiting"
  /\ late /\ vmm = "starting"
  /\ phase' = "cleanup"
  /\ UNCHANGED <<tapVars, job, starts, restore, late, called, firecracker, saved>>

(* Mutant: cleanup is deferred after the wait only. *)
GiveUpLeaves ==
  /\ phase = "waiting"
  /\ late
  /\ phase' = "idle"
  /\ UNCHANGED <<tapVars, job, starts, restore, late, called, firecracker, saved>>

(* The deadline is over. *)
GiveUp ==
  /\ phase = "waiting"
  /\ late
  /\ phase' = "cleanup"
  /\ UNCHANGED <<tapVars, job, starts, restore, late, called, firecracker, saved>>

-------------------------------------------------------------------------------
(* The calls.                                                              *)

PutLogger ==
  /\ Calling("logger")
  /\ Accepts(Call)
  /\ conf' = conf \cup {Call}
  /\ called' = called + 1
  /\ UNCHANGED <<tapVars, job, phase, starts, restore, late, vmm, data, opened, guest, saved>>

(* Firecracker opens the TAP device of the interface, by its name. *)
PutResource ==
  /\ \E to \in PreBoot : Calling(to)
  /\ Accepts(Call)
  /\ conf' = conf \cup {Call}
  /\ opened' = IF Call.to = "nic" /\ OnBridge THEN tap.index ELSE opened
  /\ called' = called + 1
  /\ UNCHANGED <<tapVars, job, phase, starts, restore, late, vmm, data, guest, saved>>

StartInstance ==
  /\ Calling("start")
  /\ Accepts(Call)
  /\ conf' = conf \cup {Call}
  /\ vmm' = "started" /\ guest' = "reading"
  /\ called' = called + 1
  /\ UNCHANGED <<tapVars, job, phase, starts, restore, late, data, opened, saved>>

(* The saved VM is back, with its devices opened by name and a guest that   *)
(* goes on where it was; the MMDS data store is not part of the snapshot.   *)
LoadSnapshot ==
  /\ Calling("load")
  /\ Accepts(Call)
  /\ conf' = conf \cup saved.conf
  /\ opened' = IF OnBridge THEN tap.index ELSE 0
  /\ vmm' = "started" /\ guest' = saved.guest
  /\ called' = called + 1
  /\ UNCHANGED <<tapVars, job, phase, starts, restore, late, data, saved>>

PutMmds ==
  /\ Calling("data")
  /\ Accepts(Call)
  /\ data' = BuildMmdsContent
  /\ called' = called + 1
  /\ UNCHANGED <<tapVars, job, phase, starts, restore, late, vmm, conf, opened, guest, saved>>

(* Mutant: the error of an optional device is logged and passed over. *)
CallFailsOptional ==
  /\ \E to \in PreBoot \cup {"logger", "start", "load", "data"} : Calling(to)
  /\ IF Accepts(Call) THEN Fault ELSE UNCHANGED faults
  /\ IF Call.to = "balloon"
       THEN called' = called + 1 /\ UNCHANGED <<phase, saved>>
       ELSE /\ phase' = "cleanup"
            /\ saved' = IF Call.to = "load" THEN Nothing ELSE saved
            /\ UNCHANGED called
  /\ UNCHANGED <<veth, namespace, call, left, job, starts, restore, late, firecracker>>

(* A call that fails, or times out, ends the attempt.  A snapshot that does *)
(* not load is removed.                                                     *)
CallFails ==
  /\ \E to \in PreBoot \cup {"logger", "start", "load", "data"} : Calling(to)
  /\ IF Accepts(Call) THEN Fault ELSE UNCHANGED faults
  /\ phase' = "cleanup"
  /\ saved' = IF Call.to = "load" THEN Nothing ELSE saved
  /\ UNCHANGED <<veth, namespace, call, left, job, starts, restore, late, called, firecracker>>

(* Mutant: the cleanup finds an err that was shadowed, and kills nothing. *)
CleanupShadowed ==
  /\ phase = "cleanup"
  /\ phase' = "idle"
  /\ VmmEnds /\ Leave
  /\ UNCHANGED <<veth, namespace, call, faults, job, starts, restore, late, called, saved>>

(* The deferred cleanup. *)
Cleanup ==
  /\ phase = "cleanup"
  /\ phase' = "idle"
  /\ Kill
  /\ UNCHANGED <<veth, namespace, call, job, starts, restore, late, called, saved>>

(* execImpl.Shutdown has no time limit: StartTask may hang in it for ever   *)
(* (TaskLifecycle's wedged executor).                                       *)
CleanupHangs ==
  /\ phase = "cleanup"
  /\ Fault
  /\ phase' = "hung"
  /\ UNCHANGED <<veth, namespace, call, left, job, starts, restore, late, called,
                 firecracker, saved>>

StartReturns ==
  /\ phase = "calls"
  /\ called = Len(Calls)
  /\ phase' = "running"
  /\ UNCHANGED <<tapVars, job, starts, restore, late, called, firecracker, saved>>

-------------------------------------------------------------------------------
(* The rest of the world.                                                  *)

(* Firecracker makes its socket, and then serves it, if it ever does. *)
VmmStarts ==
  /\ \/ vmm = "starting" /\ vmm' = "bound"
     \/ vmm = "bound" /\ vmm' = "serving"
  /\ UNCHANGED <<tapVars, job, attempt, conf, data, opened, guest, saved>>

VmExits ==
  /\ vmm # "none"
  /\ VmmEnds
  /\ UNCHANGED <<tapVars, job, attempt, saved>>

(* The guest's init asks the MMDS until there is something in it. *)
GuestReads ==
  /\ guest = "reading"
  /\ data # Nothing /\ Put("mmds", MmdsNic) \in conf
  /\ guest' = "configured"
  /\ UNCHANGED <<tapVars, job, attempt, vmm, conf, data, opened, saved>>

(* The task ends: by itself, or by a StopTask that may save the VM (see     *)
(* Snapshot); the kill of StopTask or DestroyTask may fail as in cleanup.   *)
(* Nomad may start it again in the same allocation.                         *)
TaskEnds ==
  /\ phase = "running"
  /\ phase' = "idle"
  /\ Kill
  /\ \/ job.snapshot /\ vmm = "started" /\ saved' = [conf |-> conf, guest |-> guest]
     \/ UNCHANGED saved
  /\ UNCHANGED <<veth, namespace, call, job, starts, restore, late, called>>

(* A Firecracker that was left behind ends, by itself or by an operator. *)
LeftExits ==
  /\ \E v \in left : left' = left \ {v}
  /\ UNCHANGED <<veth, namespace, call, faults, job, attempt, firecracker, saved>>

-------------------------------------------------------------------------------
Proceed ==
  \/ SetupStep \/ AutoSetup \/ Launch \/ LaunchFails
  \/ Probe \/ ProbeAnswers \/ ProbeFails
  \/ PutLogger \/ PutResource \/ StartInstance \/ LoadSnapshot \/ PutMmds \/ CallFails
  \/ StartReturns \/ Cleanup

Next ==
  \/ StartTask \/ Proceed \/ DeadlinePasses \/ GiveUp \/ CleanupHangs \/ Crash
  \/ VmmStarts \/ VmExits \/ GuestReads \/ TaskEnds \/ LeftExits

(* A step of StartTask ends, well or not, since each call of the API has a  *)
(* time limit, but for a cleanup that hangs; select takes a deadline that   *)
(* stays ready sooner or later; the guest goes on asking.                   *)
Spec ==
  /\ Init /\ [][Next]_vars
  /\ WF_vars(Proceed) /\ WF_vars(DeadlinePasses) /\ SF_vars(GiveUp)
  /\ WF_vars(GuestReads)

-------------------------------------------------------------------------------
(* Properties.                                                             *)

Alive == guest # "off"

(* A guest with the network of a bridge has a way out, whatever failed or   *)
(* repeated attempts left in the namespace: its TAP device is the one       *)
(* that exists, and the filters that win lead from it to the veth and back. *)
Connected == OnBridge /\ Alive => Carries /\ opened = tap.index

(* The driver calls the API in an order Firecracker accepts: on its own     *)
(* account it never fails an attempt.  What can is a TAP device that a      *)
(* Firecracker of an earlier attempt still holds.                           *)
EveryCallAccepted ==
  phase = "calls" /\ called < Len(Calls) /\ vmm # "none" =>
    Accepts(Call) \/ (TapBusy /\ Call.to \in {"nic", "load"})

(* No guest runs without a device its job asks for, be it booted or         *)
(* restored, and whichever calls of this or an earlier attempt failed.      *)
BootsComplete == Alive => \A i \in DOMAIN ConfigureVM : ConfigureVM[i] \in conf

(* When StartTask has returned, a guest that can ask is told every usable   *)
(* address of its veth with the gateway of its family, if its routes could  *)
(* be listed, and every mount, behind what the user put there, on an        *)
(* interface it has; also when it was restored, since the snapshot holds no *)
(* metadata.                                                                *)
GuestTold ==
  phase = "running" /\ Alive =>
    /\ OnBridge => \A f \in Family : \A ip \in Range(veth[f]) :
         \E gateway \in {FindGateway(f)} \cup (IF f \in unrouted THEN {NoGateway} ELSE {}) :
           [ip |-> ip, gateway |-> gateway] \in Range(data.ips)
    /\ job.mounts # <<>> => IsSuffix(job.mounts, data.mounts)
    /\ job.user # Nothing =>
         /\ job.user.ips # NotList => IsPrefix(job.user.ips, data.ips)
         /\ job.user.mounts # NotList => IsPrefix(job.user.mounts, data.mounts)
    /\ Nics # <<>> => \E n \in NicIds : {Put("nic", n), Put("mmds", n)} \subseteq conf

(* Each Firecracker that outlives its attempt took a fault of its own, a    *)
(* kill that failed or a crash of the plugin: no failing call, time-out or  *)
(* failed attempt, alone or after others, leaves one.                       *)
LeftByFault == Cardinality(left) <= faults

(* StartTask returns: with a socket that never comes, or that comes and     *)
(* never answers, WaitForReady gives up.  Only its cleanup may hang.        *)
StartEnds == phase = "waiting" ~> phase \in {"idle", "running", "hung"}

(* A guest that was started before its metadata was put, and that keeps     *)
(* asking, is told or killed, or left behind by a fault (LeftByFault), as   *)
(* long as StartTask does not hang.                                         *)
GuestNotLeftWaiting ==
  guest = "reading" /\ Nics # <<>> /\ BuildMmdsContent # Nothing
    ~> guest # "reading" \/ phase = "hung"

(* docs/networking.md: task restarts within the same allocation reuse the   *)
(* existing TAP and filters: no filter is added to a veth whose traffic     *)
(* already goes to the TAP device.                                          *)
FiltersReused ==
  [][setup = "filterVeth" /\ setup' = "filterTap" /\ atVeth # <<>>
       => (atVeth[Len(atVeth)] = tap.index => atVeth' = atVeth)]_vars

-------------------------------------------------------------------------------
(* The inductive invariant behind the safety properties.                   *)

(* What SetupTapRedirect has done when it is past each of its steps. *)
TapInv ==
  /\ nextIndex > VethIndex
  /\ tap.index = 0 => tap = NoTap
  /\ setup \notin {"off", "read", "failed"} => nets = ReadVethConfigs(unrouted) /\ Usable
  /\ setup \notin {"off", "read", "add", "failed"} => tap.index # 0
  /\ setup \notin {"off", "read", "add", "mtu", "failed"} => tap.mtu
  /\ setup \notin {"off", "read", "add", "mtu", "up", "failed"} => tap.up
  /\ setup \in {"qdiscTap", "filterVeth", "filterTap", "done"} => "veth" \in ingress
  /\ setup \in {"filterVeth", "filterTap", "done"} => "tap" \in ingress
  /\ setup \in {"filterTap", "done"} => atVeth # <<>> /\ atVeth[Len(atVeth)] = tap.index
  /\ setup = "done" => atTap # <<>> /\ atTap[Len(atTap)] = VethIndex

(* A VMM is there only while the attempt that launched it goes on, after    *)
(* the set-up; nothing is configured before the first call.                 *)
PhaseInv ==
  /\ OnBridge /\ phase \notin {"idle", "network"} => setup = "done"
  /\ ~OnBridge => nets = <<>> /\ phase # "network"
  /\ phase \notin {"idle", "network", "prepare"} => Valid
  /\ phase \in {"network", "prepare"} => called = 0
  /\ phase \in {"idle", "network", "prepare"} => vmm = "none"
  /\ phase \in {"waiting", "probing"} => called = 0 /\ vmm # "started"
  /\ phase = "calls" => vmm \in {"none", "serving", "started"} /\ called <= Len(Calls)
  /\ phase = "running" => vmm \in {"none", "started"} /\ called = Len(Calls)
  /\ vmm = "none" \/ called = 0 => conf = {}
  /\ guest = "off" <=> vmm # "started"

All(c) == \A i \in DOMAIN ConfigureVM : ConfigureVM[i] \in c

(* The calls between the logger and the metadata. *)
Boot == IF restore THEN 1 ELSE Len(ConfigureVM)

(* A guest runs on all its devices, also while its attempt is cleaned up. *)
GuestInv ==
  vmm = "started" =>
    /\ phase \in {"calls", "running", "cleanup", "hung"}
    /\ All(conf) /\ (OnBridge => opened = tap.index)

(* How far the calls have brought a VMM that lives. *)
CallsInv ==
  vmm # "none" /\ phase \in {"calls", "running"} =>
    /\ vmm = "started" <=> called > Boot
    /\ restore /\ called = 1 => conf = {Put("logger", NoName)}
    /\ ~restore => \A i \in DOMAIN ConfigureVM : i < called => ConfigureVM[i] \in conf
    /\ ~restore /\ OnBridge /\ called > 4 => opened = tap.index
    /\ BuildMmdsContent # Nothing /\ called = Len(Calls) => data = BuildMmdsContent

(* A snapshot is of a VM that had everything. *)
SavedInv ==
  /\ saved # Nothing => All(saved.conf)
  /\ phase \in {"waiting", "probing", "calls"} /\ restore => saved # Nothing

LeftInv == IsFiniteSet(left) /\ LeftByFault

IInv == TypeOK /\ TapInv /\ PhaseInv /\ GuestInv /\ CallsInv /\ SavedInv /\ LeftInv

-------------------------------------------------------------------------------
(* The attempts implement TaskContract.                                    *)

(* What Nomad sees of the n-th attempt: none that is over has a VMM that    *)
(* the driver could still reach; those out of its reach are in left.        *)
Life(n) ==
  IF n > starts THEN "new"
  ELSE IF n < starts \/ (phase = "idle" /\ vmm = "none") THEN "over"
  ELSE IF phase \notin {"idle", "running"} THEN "starting"
  ELSE IF vmm = "none" THEN "dead" ELSE "alive"

Contract == INSTANCE TaskContract WITH
  Task <- 1..MaxStarts,
  life <- [n \in 1..MaxStarts |-> Life(n)], told <- [n \in 1..MaxStarts |-> "nothing"]

(* However many calls an attempt makes and wherever it is when one fails or *)
(* times out, or the plugin dies, it is one StartTask of the contract: it   *)
(* returns with a VM, or it is over, its cleanup done, before the next one  *)
(* begins; one whose cleanup hangs is never over.  A kill that fails and a  *)
(* crash after the launch do leave a VM (LeftByFault).                      *)
ImplementsContract == Contract!Init /\ [][Contract!Next]_(Contract!vars)

===============================================================================
