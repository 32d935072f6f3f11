----------------------------- MODULE MCVmDrives -----------------------------
EXTENDS VmDrives, TLC

(* "drive0", "drive1", ... *)
DriveN == [i \in 0..8 |-> "drive" \o ToString(i)]

File(d, b) == [dir |-> d, base |-> b]

Vmlinux == File("alloc", "vmlinux")

(* Two files of one name, a file that is not allowed, the kernel. *)
RegularFiles ==
  {Vmlinux, File("alloc", "rootfs"), File("images", "rootfs"), File("etc", "hosts")}
AllowedFiles == {f \in RegularFiles : f.dir # "etc"}
TwoFiles == {Vmlinux, File("alloc", "rootfs")}

DataVol == File("dev/vg", "data")
LogsVol == File("dev/vg", "logs")
HostVolumes == {DataVol, LogsVol}
Named(data, logs) == DataVol :> data @@ LogsVol :> logs

(* Two names, exchanged, or one of them of no use. *)
SomeNamings ==
  {Named("dm-0", "dm-1"), Named("dm-1", "dm-0"), Named("dm-0", "dm-2"),
   Named("dm-0", "directory")}
Exchanged == {Named("dm-0", "dm-1"), Named("dm-1", "dm-0")}

(* The names of a job: some, and one of the form the driver makes up. *)
SomeNames == {"disk", "root"}
DriverNames == {"drive1"}
===============================================================================
