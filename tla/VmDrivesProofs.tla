---------------------------- MODULE VmDrivesProofs ----------------------------
(***************************************************************************)
(* Proofs, for every job, every naming of the host's devices and every     *)
(* number of starts, of the properties of VmDrives.  The heart is          *)
(* InsertPlaced: where Firecracker's list has each drive after one more of *)
(* them was put.                                                           *)
(***************************************************************************)
EXTENDS VmDrives, SequenceTheorems, TLAPS

-------------------------------------------------------------------------------
(* The job.                                                                *)

LEMMA JobFacts ==
  ASSUME job \in Jobs
  PROVE  /\ job.drives \in Seq(Drive) /\ Len(job.drives) \in 0..MaxDrives
         /\ DOMAIN job.drives = 1..Len(job.drives)
         /\ job.volumes \in Seq(Volumes) /\ Len(job.volumes) \in 0..MaxVolumes
         /\ DOMAIN job.volumes = 1..Len(job.volumes)
<1>1. ASSUME NEW S, NEW n \in Nat, NEW s \in BoundedSeq(S, n)
      PROVE  s \in Seq(S) /\ Len(s) \in 0..n /\ DOMAIN s = 1..Len(s)
  <2>1. PICK m \in 0..n : s \in [1..m -> S]
    BY DEF BoundedSeq, SeqOf
  <2>2. m \in Nat
    BY <2>1
  <2> QED
    BY <2>1, <2>2
<1>2. job.drives \in BoundedSeq(Drive, MaxDrives) /\ job.volumes \in BoundedSeq(Volumes, MaxVolumes)
  BY DEF Jobs
<1> QED
  BY <1>1, <1>2, BoundsAssumption

(* A job that passed validation has one root device, and its drives are     *)
(* unnamed or named differently.                                            *)
LEMMA ValidFacts ==
  ASSUME job \in Jobs, Valid
  PROVE  /\ RootIndex \in 1..Len(job.drives)
         /\ \A i \in DOMAIN job.drives : job.drives[i].root <=> i = RootIndex
         /\ Roots = {RootIndex}
         /\ \/ \A i \in DOMAIN job.drives : job.drives[i].name = NoName
            \/ /\ \A i \in DOMAIN job.drives : job.drives[i].name # NoName
               /\ \A i, j \in DOMAIN job.drives :
                    job.drives[i].name = job.drives[j].name => i = j
<1>1. PICK r \in Roots : Roots = {r}
  BY DEF Valid
<1>2. r \in DOMAIN job.drives
  BY <1>1 DEF Roots
<1>3. RootIndex \in DOMAIN job.drives /\ Roots = {RootIndex}
  BY <1>1, <1>2 DEF RootIndex
<1>4. \A i \in DOMAIN job.drives : job.drives[i].root <=> i = RootIndex
  BY <1>3 DEF Roots
<1>5. \/ \A i \in DOMAIN job.drives : job.drives[i].name = NoName
      \/ /\ \A i \in DOMAIN job.drives : job.drives[i].name # NoName
         /\ \A i, j \in DOMAIN job.drives :
              job.drives[i].name = job.drives[j].name => i = j
  BY DEF Valid, ValidateNames, IsInjective
<1> QED
  BY <1>3, <1>4, <1>5, JobFacts

(* No two drives have one id, unless a user took one of the driver's. *)
LEMMA IdsDiffer ==
  ASSUME job \in Jobs, Valid, NamesApart,
         NEW i \in 1..Count, NEW j \in 1..Count, i # j, NEW names
  PROVE  DriveAs(i, names).id # DriveAs(j, names).id
<1>1. /\ Len(job.drives) \in Nat /\ Len(job.volumes) \in Nat
      /\ Len(job.drives) <= MaxDrives /\ Len(job.volumes) <= MaxVolumes
      /\ MaxDrives \in Nat /\ MaxVolumes \in Nat /\ DOMAIN job.drives = 1..Len(job.drives)
  BY JobFacts, BoundsAssumption
<1>2. ASSUME NEW k \in 1..Count
      PROVE  /\ k - 1 \in 0..(MaxDrives + MaxVolumes)
             /\ \/ DriveAs(k, names).id = DefaultId[k - 1]
                \/ /\ k \in DOMAIN job.drives /\ job.drives[k].name # NoName
                   /\ DriveAs(k, names).id = job.drives[k].name
                   /\ job.drives[k].name \in Names
  <2>1. k - 1 \in 0..(MaxDrives + MaxVolumes)
    <3>1. \A m, n, p, q \in Nat : m <= p /\ n <= q =>
            \A h \in 1..(m + n) : h - 1 \in 0..(p + q)
      OBVIOUS
    <3> QED
      BY <1>1, <3>1 DEF Count
  <2>2. CASE k <= Len(job.drives)
    <3>1. k \in DOMAIN job.drives
      BY <1>1, <2>2
    <3>2. job.drives[k] \in Drive
      BY <3>1, JobFacts
    <3>3. job.drives[k].name \in Names \cup {NoName}
      BY <3>2 DEF Drive
    <3>4. DriveAs(k, names).id = IF job.drives[k].name = NoName THEN DefaultId[k - 1]
                                                               ELSE job.drives[k].name
      BY <2>2 DEF DriveAs
    <3> QED
      BY <2>1, <3>1, <3>3, <3>4
  <2>3. CASE ~(k <= Len(job.drives))
    BY <2>1, <2>3 DEF DriveAs
  <2> QED
    BY <2>2, <2>3
<1>3. \A m, n \in 0..(MaxDrives + MaxVolumes) : DefaultId[m] = DefaultId[n] => m = n
  BY DefaultIdAssumption
<1>4. \A m \in 0..(MaxDrives + MaxVolumes) : DefaultId[m] \notin Names
  BY DEF NamesApart
<1>5. i - 1 # j - 1
  OBVIOUS
<1>6. CASE DriveAs(i, names).id = DefaultId[i - 1] /\ DriveAs(j, names).id = DefaultId[j - 1]
  BY <1>2, <1>3, <1>5, <1>6
<1>7. CASE DriveAs(i, names).id = DefaultId[i - 1] /\ DriveAs(j, names).id \in Names
  BY <1>2, <1>4, <1>7
<1>8. CASE DriveAs(i, names).id \in Names /\ DriveAs(j, names).id = DefaultId[j - 1]
  BY <1>2, <1>4, <1>8
<1>9. CASE /\ i \in DOMAIN job.drives /\ job.drives[i].name # NoName
           /\ DriveAs(i, names).id = job.drives[i].name
           /\ j \in DOMAIN job.drives /\ job.drives[j].name # NoName
           /\ DriveAs(j, names).id = job.drives[j].name
  BY <1>9, ValidFacts
<1> QED
  BY <1>2, <1>6, <1>7, <1>8, <1>9

(* The drives of the driver's list, one by one. *)
LEMMA DriveFacts ==
  ASSUME job \in Jobs, NEW list, list = JobDrives \o VolumeDrives
  PROVE  /\ Count \in Nat /\ Count <= MaxDrives + MaxVolumes
         /\ Len(list) = Count /\ DOMAIN list = 1..Count
         /\ \A i \in 1..Count : i <= Len(job.drives) \/ i - Len(job.drives) \in 1..Len(job.volumes)
         /\ \A i \in 1..Len(job.drives) :
              list[i] = [name |-> job.drives[i].name, file |-> job.drives[i].path.base,
                         root |-> job.drives[i].root]
         /\ \A k \in 1..Len(job.volumes) :
              list[Len(job.drives) + k]
                = [name |-> NoName, file |-> naming[job.volumes[k]], root |-> FALSE]
<1> DEFINE D == [name : Names \cup {NoName}, file : {f.base : f \in Files} \cup
                   {naming[v] : v \in Volumes}, root : BOOLEAN]
<1>1. /\ Len(job.drives) \in Nat /\ Len(job.volumes) \in Nat
      /\ Len(job.drives) <= MaxDrives /\ Len(job.volumes) <= MaxVolumes
      /\ MaxDrives \in Nat /\ MaxVolumes \in Nat
      /\ DOMAIN job.drives = 1..Len(job.drives) /\ DOMAIN job.volumes = 1..Len(job.volumes)
  BY JobFacts, BoundsAssumption
<1> DEFINE m == Len(job.drives)
           n == Len(job.volumes)
<1>2. JobDrives \in Seq(D) /\ Len(JobDrives) = Len(job.drives)
      /\ \A i \in 1..Len(job.drives) :
           JobDrives[i] = [name |-> job.drives[i].name, file |-> job.drives[i].path.base,
                           root |-> job.drives[i].root]
  <2>1. \A i \in 1..Len(job.drives) : job.drives[i] \in Drive
    BY <1>1, JobFacts
  <2>2. \A i \in 1..Len(job.drives) :
          [name |-> job.drives[i].name, file |-> job.drives[i].path.base,
           root |-> job.drives[i].root] \in D
    BY <2>1 DEF Drive
  <2> HIDE DEF D
  <2> QED
    BY <1>1, <2>2 DEF JobDrives
<1>3. VolumeDrives \in Seq(D) /\ Len(VolumeDrives) = Len(job.volumes)
      /\ \A k \in 1..Len(job.volumes) :
           VolumeDrives[k] = [name |-> NoName, file |-> naming[job.volumes[k]], root |-> FALSE]
  <2>1. \A k \in 1..Len(job.volumes) : job.volumes[k] \in Volumes
    BY <1>1, JobFacts
  <2>2. \A k \in 1..Len(job.volumes) :
          [name |-> NoName, file |-> naming[job.volumes[k]], root |-> FALSE] \in D
    BY <2>1
  <2> HIDE DEF D
  <2> QED
    BY <1>1, <2>2 DEF VolumeDrives
<1> HIDE DEF D
<1>4. /\ list \in Seq(D) /\ Len(list) = m + n
      /\ \A i \in 1..(m + n) : list[i] = IF i <= m THEN JobDrives[i] ELSE VolumeDrives[i - m]
  <2>1. /\ JobDrives \o VolumeDrives \in Seq(D)
        /\ Len(JobDrives \o VolumeDrives) = Len(JobDrives) + Len(VolumeDrives)
        /\ \A i \in 1..(Len(JobDrives) + Len(VolumeDrives)) :
             (JobDrives \o VolumeDrives)[i] =
               IF i <= Len(JobDrives) THEN JobDrives[i] ELSE VolumeDrives[i - Len(JobDrives)]
    <3>1. JobDrives \in Seq(D) /\ VolumeDrives \in Seq(D)
      BY <1>2, <1>3
    <3> QED
      BY <3>1, ConcatProperties
  <2> QED
    BY <1>2, <1>3, <2>1
<1>5. /\ m \in Nat /\ n \in Nat /\ m <= MaxDrives /\ n <= MaxVolumes
      /\ MaxDrives \in Nat /\ MaxVolumes \in Nat /\ Count = m + n
  BY <1>1 DEF Count
<1> HIDE DEF m, n
<1>6. /\ Len(list) = Count /\ Count \in Nat /\ Count <= MaxDrives + MaxVolumes
      /\ DOMAIN list = 1..Count
  <2>1. DOMAIN list = 1..Len(list)
    BY <1>4
  <2> QED
    BY <1>4, <1>5, <2>1
<1>7. ASSUME NEW i \in 1..Count
      PROVE  \/ i <= m /\ list[i] = JobDrives[i] /\ i \in 1..m
             \/ ~(i <= m) /\ list[i] = VolumeDrives[i - m] /\ i - m \in 1..n
  BY <1>4, <1>5
<1>8. ASSUME NEW i \in 1..Count PROVE i <= m \/ i - m \in 1..n
  BY <1>5
<1>9. ASSUME NEW i \in 1..m
      PROVE  list[i] = [name |-> job.drives[i].name, file |-> job.drives[i].path.base,
                        root |-> job.drives[i].root]
  <2>1. i \in 1..Count /\ i <= m
    BY <1>5
  <2>2. list[i] = JobDrives[i] /\ i \in 1..Len(job.drives)
    BY <1>7, <2>1 DEF m
  <2> QED
    BY <1>2, <2>2
<1>10. ASSUME NEW k \in 1..n
       PROVE  list[m + k] = [name |-> NoName, file |-> naming[job.volumes[k]], root |-> FALSE]
  <2>1. m + k \in 1..Count /\ ~(m + k <= m) /\ (m + k) - m = k
    BY <1>5
  <2>2. list[m + k] = VolumeDrives[k] /\ k \in 1..Len(job.volumes)
    BY <1>7, <2>1 DEF n
  <2> QED
    BY <1>3, <2>2
<1> QED
  BY <1>5, <1>6, <1>8, <1>9, <1>10 DEF m, n

(* What Firecracker is told of each drive. *)
LEMMA DeviceFacts ==
  ASSUME job \in Jobs, drives = JobDrives \o VolumeDrives, NEW i \in 1..Count
  PROVE  Device(i) = DriveAs(i, naming)
<1> DEFINE m == Len(job.drives)
           n == Len(job.volumes)
<1>1. m \in Nat /\ n \in Nat /\ DOMAIN job.drives = 1..m
  BY JobFacts, BoundsAssumption
<1>2. i \in Nat /\ i >= 1 /\ (i <= m \/ i - m \in 1..n)
  <2>1. Count \in Nat /\ (i <= m \/ i - m \in 1..n)
    BY DriveFacts
  <2> QED
    BY <2>1
<1>3. CASE i <= m
  <2> HIDE DEF m
  <2>1. i \in 1..m
    BY <1>1, <1>2, <1>3
  <2>2. drives[i] = [name |-> job.drives[i].name, file |-> job.drives[i].path.base,
                     root |-> job.drives[i].root]
    BY <2>1, DriveFacts DEF m
  <2> QED
    BY <1>3, <2>2 DEF Device, DriveId, DriveAs, m
<1>4. CASE ~(i <= m)
  <2> DEFINE k == i - m
  <2>1. k \in 1..n /\ i = m + k
    <3> HIDE DEF m, n
    <3> QED
      BY <1>1, <1>2, <1>4
  <2> HIDE DEF k
  <2>2. drives[m + k] = [name |-> NoName, file |-> naming[job.volumes[k]], root |-> FALSE]
    BY <2>1, DriveFacts
  <2>3. drives[i] = [name |-> NoName, file |-> naming[job.volumes[i - m]], root |-> FALSE]
    BY <2>1, <2>2 DEF k
  <2> HIDE DEF n
  <2> QED
    BY <1>4, <2>3 DEF Device, DriveId, DriveAs
<1> QED
  BY <1>3, <1>4

-------------------------------------------------------------------------------
(* Firecracker's list.                                                     *)

(* Among the drives, the root device is the one of that index. *)
LEMMA RootFlag ==
  ASSUME job \in Jobs, Valid, NEW i \in 1..Count, NEW names
  PROVE  DriveAs(i, names).root <=> i = RootIndex
<1>1. Len(job.drives) \in Nat /\ DOMAIN job.drives = 1..Len(job.drives)
  BY JobFacts
<1>2. RootIndex \in 1..Len(job.drives)
  BY ValidFacts
<1>3. CASE i <= Len(job.drives)
  <2>1. i \in DOMAIN job.drives
    BY <1>1, <1>3
  <2>2. DriveAs(i, names).root = job.drives[i].root
    BY <1>3 DEF DriveAs
  <2> QED
    BY <2>1, <2>2, ValidFacts
<1>4. CASE ~(i <= Len(job.drives))
  <2>1. DriveAs(i, names).root = FALSE
    BY <1>4 DEF DriveAs
  <2> QED
    BY <1>1, <1>2, <1>4, <2>1
<1> QED
  BY <1>3, <1>4

(* What one more drive changes in the places of the others. *)
LEMMA AtFacts ==
  ASSUME RootIndex \in Nat \ {0}, NEW n \in Nat
  PROVE  /\ \A j \in 1..n : At(j, n) \in 1..n
         /\ n + 1 = RootIndex => At(1, n + 1) = n + 1 /\ \A j \in 1..n : At(j + 1, n + 1) = At(j, n)
         /\ n + 1 # RootIndex => At(n + 1, n + 1) = n + 1
                                 /\ \A j \in 1..n : At(j, n + 1) = At(j, n)
<1> DEFINE r == RootIndex
<1>1. r \in Nat /\ r >= 1
  OBVIOUS
<1>2. \A j, k : At(j, k) = IF r > k THEN j ELSE IF j = 1 THEN r ELSE IF j <= r THEN j - 1 ELSE j
  BY DEF At
<1> HIDE DEF r
<1>3. \A j \in 1..n : At(j, n) \in 1..n
  BY <1>1, <1>2
<1>4. n + 1 = r => At(1, n + 1) = n + 1 /\ \A j \in 1..n : At(j + 1, n + 1) = At(j, n)
  BY <1>1, <1>2
<1>5. n + 1 # r => At(n + 1, n + 1) = n + 1 /\ \A j \in 1..n : At(j, n + 1) = At(j, n)
  BY <1>1, <1>2
<1> QED
  BY <1>3, <1>4, <1>5 DEF r

(* One drive more: the root device goes to the head of the list, any other  *)
(* to its end, and none replaces another.                                   *)
LEMMA InsertPlaced ==
  ASSUME job \in Jobs, Valid, NamesApart, devices \in Seq(Devices),
         NEW names, NEW n \in Nat, n < Count, Placed(devices, n, names),
         NEW d \in Devices, d = DriveAs(n + 1, names)
  PROVE  /\ Insert(d) \in Seq(Devices)
         /\ Placed(Insert(d), n + 1, names)
<1>0. Count \in Nat /\ \A j \in 1..(n + 1) : j \in 1..Count
  <2>1. Len(job.drives) \in Nat /\ Len(job.volumes) \in Nat
    BY JobFacts, BoundsAssumption
  <2> DEFINE p == Len(job.drives)
             q == Len(job.volumes)
  <2>2. Count \in Nat
    <3>1. p \in Nat /\ q \in Nat /\ Count = p + q
      BY <2>1 DEF Count
    <3> HIDE DEF p, q
    <3> QED
      BY <3>1
  <2> QED
    BY <2>2
<1>1. RootIndex \in Nat \ {0}
  <2>1. RootIndex \in 1..Len(job.drives) /\ Len(job.drives) \in Nat
    BY ValidFacts, JobFacts
  <2> QED
    BY <2>1
<1>2. Len(devices) = n /\ DOMAIN devices = 1..n
      /\ \A j \in 1..n : devices[j] = DriveAs(At(j, n), names)
  BY DEF Placed
<1>3. ~ \E i \in DOMAIN devices : devices[i].id = d.id
  <2> SUFFICES ASSUME NEW i \in 1..n PROVE devices[i].id # d.id
    BY <1>2
  <2>1. At(i, n) \in 1..n
    BY <1>1, AtFacts
  <2>2. At(i, n) \in 1..Count /\ n + 1 \in 1..Count /\ At(i, n) # n + 1
    BY <1>0, <2>1
  <2>3. DriveAs(At(i, n), names).id # DriveAs(n + 1, names).id
    BY <2>2, IdsDiffer
  <2> QED
    BY <1>2, <2>3
<1>4. d.root <=> n + 1 = RootIndex
  <2>1. n + 1 \in 1..Count
    BY <1>0
  <2> QED
    BY <2>1, RootFlag
<1>5. CASE d.root
  <2>1. Insert(d) = <<d>> \o devices
    BY <1>3, <1>5 DEF Insert
  <2>2. <<d>> \in Seq(Devices) /\ Len(<<d>>) = 1 /\ <<d>>[1] = d
    OBVIOUS
  <2>3. /\ <<d>> \o devices \in Seq(Devices)
        /\ Len(<<d>> \o devices) = Len(<<d>>) + Len(devices)
        /\ \A j \in 1..(Len(<<d>>) + Len(devices)) :
             (<<d>> \o devices)[j] =
               IF j <= Len(<<d>>) THEN <<d>>[j] ELSE devices[j - Len(<<d>>)]
    BY <2>2, ConcatProperties
  <2> DEFINE list == <<d>> \o devices
  <2>4. /\ list \in Seq(Devices) /\ Len(list) = n + 1
        /\ \A j \in 1..(n + 1) : list[j] = IF j <= 1 THEN d ELSE devices[j - 1]
    <3>1. Len(<<d>>) + Len(devices) = n + 1
      BY <1>2, <2>2
    <3>2. \A j \in 1..(n + 1) : j <= 1 => j = 1
      OBVIOUS
    <3> QED
      BY <2>2, <2>3, <3>1, <3>2
  <2> HIDE DEF list
  <2>5. ASSUME NEW j \in 1..(n + 1) PROVE list[j] = DriveAs(At(j, n + 1), names)
    <3>1. CASE j = 1
      BY <1>1, <1>4, <1>5, <2>4, <3>1, AtFacts
    <3>2. CASE j # 1
      <4> DEFINE k == j - 1
      <4>1. k \in 1..n /\ j = k + 1 /\ ~(j <= 1)
        BY <3>2
      <4>2. At(j, n + 1) = At(k, n)
        BY <1>1, <1>4, <1>5, <4>1, AtFacts
      <4>3. list[j] = devices[k]
        BY <2>4, <4>1
      <4> HIDE DEF k
      <4> QED
        BY <1>2, <4>1, <4>2, <4>3
    <3> QED
      BY <3>1, <3>2
  <2> QED
    BY <2>1, <2>4, <2>5 DEF Placed, list
<1>6. CASE ~d.root
  <2>1. Insert(d) = Append(devices, d)
    BY <1>3, <1>6 DEF Insert
  <2>2. /\ Append(devices, d) \in Seq(Devices) /\ Len(Append(devices, d)) = n + 1
        /\ Append(devices, d)[n + 1] = d
        /\ \A j \in 1..n : Append(devices, d)[j] = devices[j]
    BY <1>2, AppendProperties
  <2>3. ASSUME NEW j \in 1..(n + 1)
        PROVE  Append(devices, d)[j] = DriveAs(At(j, n + 1), names)
    <3>1. CASE j = n + 1
      BY <1>1, <1>4, <1>6, <2>2, <3>1, AtFacts
    <3>2. CASE j # n + 1
      <4>1. j \in 1..n
        BY <3>2
      <4>2. At(j, n + 1) = At(j, n)
        BY <1>1, <1>4, <1>6, <4>1, AtFacts
      <4> QED
        BY <1>2, <2>2, <4>1, <4>2
    <3> QED
      BY <3>1, <3>2
  <2> QED
    BY <2>1, <2>2, <2>3 DEF Placed
<1> QED
  BY <1>5, <1>6

-------------------------------------------------------------------------------
(* Steps.                                                                  *)

(* The job never changes, nor what is said of the job alone. *)
LEMMA JobKept ==
  ASSUME job' = job
  PROVE  /\ Valid' = Valid /\ Count' = Count /\ JobDrives' = JobDrives
         /\ Linkable' = Linkable
         /\ naming' = naming => VolumeDrives' = VolumeDrives /\ Attachable' = Attachable
<1>1. Valid' = Valid
  BY DEF Valid, Roots
<1>2. Count' = Count
  BY DEF Count
<1>3. JobDrives' = JobDrives
  BY DEF JobDrives
<1>4. Linkable' = Linkable
  BY DEF Linkable, Guest
<1>5. naming' = naming => VolumeDrives' = VolumeDrives /\ Attachable' = Attachable
  BY DEF VolumeDrives, Attachable, Letter
<1> QED
  BY <1>1, <1>2, <1>3, <1>4, <1>5

LEMMA PlacedKept ==
  ASSUME job' = job
  PROVE  /\ Placed(devices, put, naming)' = Placed(devices', put', naming')
         /\ Placed(devices, Count, guest.naming)' = Placed(devices', Count, guest'.naming)
         /\ Placed(saved.devices, Count, saved.guest.naming)'
              = Placed(saved'.devices, Count, saved'.guest.naming)
<1>1. Count' = Count
  BY DEF Count
<1> QED
  BY <1>1 DEF Placed, DriveAs, At, RootIndex, Roots

(* The end of a VM or of an attempt keeps the invariant when it keeps what  *)
(* it says of the snapshot.                                                 *)
LEMMA OverKeeps ==
  ASSUME IInv, Over, UNCHANGED <<job, naming, starts>>,
         saved' \in Snapshots \cup {Nothing},
         NamesApart /\ saved' # Nothing
           => Valid /\ Placed(saved'.devices, Count, saved'.guest.naming)
  PROVE  IInv'
<1>1. TypeOK'
  BY DEF IInv, TypeOK, Over, Empty
<1>2. ChrootInv' /\ DriveInv'
  BY DEF ChrootInv, DriveInv, Over, Empty
<1>3. ASSUME NamesApart PROVE DeviceInv'
  BY <1>3, JobKept, PlacedKept DEF DeviceInv, Over
<1> QED
  BY <1>1, <1>2, <1>3 DEF IInv, NamesApart

LEMMA InitIInv == Init => IInv
<1> SUFFICES ASSUME Init PROVE IInv
  OBVIOUS
<1>1. TypeOK
  BY BoundsAssumption DEF Init, TypeOK, Empty
<1>2. ChrootInv /\ DriveInv
  BY DEF Init, ChrootInv, DriveInv
<1>3. DeviceInv
  BY DEF Init, DeviceInv
<1> QED
  BY <1>1, <1>2, <1>3 DEF IInv

LEMMA StartKeeps ==
  ASSUME IInv, StartTask
  PROVE  IInv'
<1>1. TypeOK'
  BY BoundsAssumption DEF IInv, TypeOK, StartTask, vm, Base
<1>2. ChrootInv' /\ DriveInv'
  BY JobKept DEF IInv, ChrootInv, DriveInv, StartTask, vm, Empty
<1>3. ASSUME NamesApart PROVE DeviceInv'
  BY <1>3, JobKept, PlacedKept DEF IInv, DeviceInv, StartTask, vm
<1> QED
  BY <1>1, <1>2, <1>3 DEF IInv, NamesApart

LEMMA RenumberKeeps ==
  ASSUME IInv, Renumber
  PROVE  IInv'
<1>0. drives = <<>> /\ root = Empty /\ mounts = <<>>
  BY DEF IInv, DriveInv, Renumber
<1>1. TypeOK'
  BY <1>0 DEF IInv, TypeOK, Renumber, vm, Empty
<1>2. ChrootInv' /\ DriveInv'
  BY <1>0 DEF IInv, ChrootInv, DriveInv, Renumber, vm, Empty
<1>3. ASSUME NamesApart PROVE DeviceInv'
  BY <1>3, JobKept, PlacedKept DEF IInv, DeviceInv, Renumber, vm
<1> QED
  BY <1>1, <1>2, <1>3 DEF IInv, NamesApart


(* The files of the job are in the chroot, each under its own name. *)
LEMMA LinkKeeps ==
  ASSUME IInv, LinkGuestFiles
  PROVE  IInv'
<1>0. /\ job \in Jobs /\ Valid /\ Linkable /\ devices = <<>> /\ put = 0
      /\ mounts = <<>> /\ job' = job /\ naming' = naming
      /\ phase = "valid" /\ phase' = "linked"
      /\ drives' = JobDrives
  BY DEF IInv, TypeOK, ChrootInv, DriveInv, LinkGuestFiles, DeviceInv
<1>1. \A p \in Guest : p \in Files
  BY <1>0, FilesAssumption DEF Linkable
<1>2. ASSUME NEW p \in Guest
      PROVE  p.base \in DOMAIN root' /\ root'[p.base] = p
  BY <1>0 DEF LinkGuestFiles, Linkable
<1>3. ASSUME NEW b \in DOMAIN root'
      PROVE  root'[b] \in Files /\ root'[b].base = b
  <2>1. PICK p \in Guest : p.base = b
    BY DEF LinkGuestFiles
  <2> QED
    BY <1>1, <1>2, <2>1
<1>4. \A i \in DOMAIN job.drives : job.drives[i].path \in Guest
  BY DEF Guest
<1>5. /\ DOMAIN drives' = DOMAIN job.drives
      /\ \A i \in DOMAIN drives' : drives'[i].file = job.drives[i].path.base
  BY <1>0 DEF JobDrives
<1>6. Len(drives') \in Nat
  BY <1>0, <1>5, JobFacts, BoundsAssumption, LenProperties
<1>7. TypeOK'
  <2>1. \A b \in DOMAIN root' : root'[b] \in Files \cup Volumes /\ Base(root[b])' = b
    BY <1>3, FilesAssumption DEF Base
  <2>2. \A i \in DOMAIN drives' : drives'[i].file \in DOMAIN root'
    BY <1>2, <1>4, <1>5
  <2>3. put' \in 0..Len(drives') /\ devices' \in Seq(Devices)
        /\ \A i \in DOMAIN devices' : devices'[i].file \in DOMAIN root'
    BY <1>0, <1>6 DEF IInv, TypeOK, LinkGuestFiles
  <2> QED
    BY <1>0, <2>1, <2>2, <2>3 DEF IInv, TypeOK, LinkGuestFiles
<1>8. ChrootInv'
  BY <1>0, <1>2, <1>4, JobKept DEF ChrootInv
<1>9. DriveInv'
  BY <1>0, JobKept DEF DriveInv, LinkGuestFiles
<1>10. ASSUME NamesApart PROVE DeviceInv'
  BY <1>0, <1>10, JobKept, PlacedKept DEF IInv, DeviceInv, LinkGuestFiles
<1> QED
  BY <1>7, <1>8, <1>9, <1>10 DEF IInv, NamesApart


(* The volumes join the user's files, none under the name of another. *)
LEMMA AttachKeeps ==
  ASSUME IInv, AttachHostVolumes
  PROVE  IInv'
<1>0. /\ job \in Jobs /\ naming \in Namings /\ Valid /\ Linkable /\ Attachable
      /\ devices = <<>> /\ put = 0 /\ job' = job /\ naming' = naming
      /\ phase' = "attached"
      /\ drives' = JobDrives \o VolumeDrives
  BY DEF IInv, TypeOK, ChrootInv, DriveInv, AttachHostVolumes
<1>1. /\ DOMAIN job.drives = 1..Len(job.drives) /\ DOMAIN job.volumes = 1..Len(job.volumes)
      /\ Len(job.drives) \in Nat /\ Len(job.volumes) \in Nat
      /\ \A i \in DOMAIN job.drives : job.drives[i] \in Drive
      /\ \A k \in DOMAIN job.volumes : job.volumes[k] \in Volumes
  BY <1>0, JobFacts, BoundsAssumption
<1>2. ASSUME NEW k \in DOMAIN job.volumes
      PROVE  /\ naming[job.volumes[k]] \in Nodes
             /\ naming[job.volumes[k]] \in DOMAIN root'
             /\ root'[naming[job.volumes[k]]] = job.volumes[k]
  <2>1. naming[job.volumes[k]] \in Nodes
    BY DEF Nodes
  <2>2. \A v \in Volumes : naming[v] = naming[job.volumes[k]] => v = job.volumes[k]
    BY <1>0, <1>1, NamingAssumption DEF Attachable
  <2>3. (CHOOSE v \in Volumes : naming[v] = naming[job.volumes[k]]) = job.volumes[k]
    BY <1>1, <2>2
  <2> QED
    BY <2>1, <2>3 DEF AttachHostVolumes, LinkDeviceNodes
<1>3. ASSUME NEW i \in DOMAIN job.drives
      PROVE  /\ job.drives[i].path.base \in DOMAIN root'
             /\ root'[job.drives[i].path.base] = job.drives[i].path
  <2>1. job.drives[i].path \in Files
    BY <1>1 DEF Drive
  <2>2. job.drives[i].path.base \notin Nodes
    BY <1>0, <1>1, <2>1, NamingAssumption DEF Nodes
  <2>3. job.drives[i].path.base \in DOMAIN root /\ root[job.drives[i].path.base] = job.drives[i].path
    BY DEF IInv, ChrootInv, AttachHostVolumes
  <2> QED
    BY <2>2, <2>3 DEF AttachHostVolumes, LinkDeviceNodes
<1>4. ASSUME NEW b \in DOMAIN root'
      PROVE  root'[b] \in Files \cup Volumes /\ Base(root[b])' = b
  <2>1. CASE b \in Nodes
    <3>1. PICK k \in DOMAIN job.volumes : b = naming[job.volumes[k]]
      BY <2>1 DEF Nodes
    <3> QED
      BY <1>0, <1>1, <1>2, <3>1 DEF Base
  <2>2. CASE b \notin Nodes
    <3>1. b \in DOMAIN root /\ root'[b] = root[b]
      BY <2>2 DEF AttachHostVolumes, LinkDeviceNodes
    <3> QED
      BY <1>0, <3>1 DEF IInv, TypeOK, Base
  <2> QED
    BY <2>1, <2>2
<1>5. /\ DOMAIN drives' = 1..Count /\ Len(drives') \in Nat
      /\ \A i \in DOMAIN drives' : drives'[i].file \in DOMAIN root'
  <2>1. DOMAIN drives' = 1..Count /\ Len(drives') = Count /\ Count \in Nat
    BY <1>0, DriveFacts
  <2>2. ASSUME NEW i \in 1..Count PROVE drives'[i].file \in DOMAIN root'
    <3>1. CASE i <= Len(job.drives)
      <4>1. i \in 1..Len(job.drives)
        BY <1>1, <2>1, <3>1
      <4>2. drives'[i] = [name |-> job.drives[i].name, file |-> job.drives[i].path.base,
                          root |-> job.drives[i].root]
        BY <1>0, <4>1, DriveFacts
      <4> QED
        BY <1>1, <1>3, <4>1, <4>2
    <3>2. CASE ~(i <= Len(job.drives))
      <4> DEFINE m == Len(job.drives)
                 k == i - m
      <4>1. k \in 1..Len(job.volumes)
        BY <1>0, <3>2, DriveFacts
      <4>2. i = m + k
        <5> HIDE DEF m
        <5>1. m \in Nat
          BY <1>1 DEF m
        <5> QED
          BY <2>1, <5>1
      <4> HIDE DEF k
      <4>3. drives'[m + k] = [name |-> NoName, file |-> naming[job.volumes[k]], root |-> FALSE]
        BY <1>0, <4>1, DriveFacts
      <4>4. drives'[i].file = naming[job.volumes[k]]
        BY <4>2, <4>3
      <4> QED
        BY <1>1, <1>2, <4>1, <4>4
    <3> QED
      BY <3>1, <3>2
  <2> QED
    BY <2>1, <2>2
<1>6. ASSUME NEW k \in DOMAIN job.volumes PROVE Letter(k) \in 0..LastLetter
  <2> DEFINE m == Len(job.drives)
  <2>1. m \in Nat /\ k \in Nat /\ k >= 1
    BY <1>1
  <2>2. m + k - 1 <= LastLetter
    BY <1>0 DEF Attachable, Letter
  <2> HIDE DEF m
  <2>3. m + k - 1 \in 0..LastLetter
    BY <2>1, <2>2, BoundsAssumption
  <2> QED
    BY <2>3 DEF Letter, m
<1>7. TypeOK'
  <2>1. \A k \in DOMAIN mounts' : mounts'[k] \in 0..LastLetter
    BY <1>6 DEF AttachHostVolumes
  <2>2. put' \in 0..Len(drives') /\ devices' \in Seq(Devices)
        /\ \A i \in DOMAIN devices' : devices'[i].file \in DOMAIN root'
    BY <1>0, <1>5 DEF IInv, TypeOK, AttachHostVolumes
  <2> QED
    BY <1>0, <1>4, <1>5, <2>1, <2>2 DEF IInv, TypeOK, AttachHostVolumes
<1>8. ChrootInv'
  BY <1>0, <1>2, <1>3, JobKept DEF ChrootInv
<1>9. DriveInv'
  <2>1. mounts' = [k \in DOMAIN job'.volumes |-> Letter(k)']
    BY <1>0 DEF AttachHostVolumes, Letter
  <2> QED
    BY <1>0, <2>1, JobKept DEF DriveInv
<1>10. ASSUME NamesApart PROVE DeviceInv'
  <2>1. Placed(devices, put, naming)'
    BY <1>0 DEF Placed, AttachHostVolumes
  <2> QED
    BY <1>0, <1>10, <2>1, JobKept, PlacedKept DEF IInv, DeviceInv, AttachHostVolumes
<1> QED
  BY <1>7, <1>8, <1>9, <1>10 DEF IInv, NamesApart


(* What PutDrive hands over is a device whose file is in the chroot. *)
LEMMA DeviceTyped ==
  ASSUME TypeOK, drives = JobDrives \o VolumeDrives, NEW i \in 1..Count
  PROVE  Device(i) \in Devices /\ Device(i).file \in DOMAIN root
<1>0. job \in Jobs /\ naming \in Namings
  BY DEF TypeOK
<1>1. /\ DOMAIN job.drives = 1..Len(job.drives)
      /\ Len(job.drives) \in Nat /\ Len(job.volumes) \in Nat
      /\ \A k \in DOMAIN job.drives : job.drives[k] \in Drive
      /\ \A k \in 1..Len(job.volumes) : job.volumes[k] \in Volumes
  BY <1>0, JobFacts, BoundsAssumption
<1>2. /\ Count \in Nat /\ Count <= MaxDrives + MaxVolumes /\ DOMAIN drives = 1..Count
      /\ (i <= Len(job.drives) \/ i - Len(job.drives) \in 1..Len(job.volumes))
  BY <1>0, DriveFacts
<1>3. DefaultId[i - 1] \in {DefaultId[k] : k \in 0..(MaxDrives + MaxVolumes)}
  <2>1. i - 1 \in 0..(MaxDrives + MaxVolumes)
    BY <1>2, BoundsAssumption
  <2> QED
    BY <2>1
<1>4. Device(i) = DriveAs(i, naming)
  BY <1>0, DeviceFacts
<1> DEFINE Ids == Names \cup {DefaultId[k] : k \in 0..(MaxDrives + MaxVolumes)}
           Bases == {f.base : f \in Files} \cup {n[v] : n \in Namings, v \in Volumes}
<1>5. Devices = [id : Ids, file : Bases, root : BOOLEAN]
  BY DEF Devices
<1>6. Device(i).file \in DOMAIN root
  BY <1>2 DEF Device, TypeOK
<1>7. CASE i <= Len(job.drives)
  <2>1. i \in DOMAIN job.drives
    BY <1>1, <1>2, <1>7
  <2>2. job.drives[i] \in Drive
    BY <1>1, <2>1
  <2>3. /\ DriveAs(i, naming).id \in Ids
        /\ DriveAs(i, naming)
             = [id |-> DriveAs(i, naming).id, file |-> job.drives[i].path.base,
                root |-> job.drives[i].root]
    BY <1>3, <1>7, <2>2 DEF DriveAs, Drive
  <2>4. job.drives[i].path.base \in Bases /\ job.drives[i].root \in BOOLEAN
    BY <2>2 DEF Drive
  <2> HIDE DEF Ids, Bases
  <2> QED
    BY <1>4, <1>5, <1>6, <2>3, <2>4
<1>8. CASE ~(i <= Len(job.drives))
  <2> DEFINE k == i - Len(job.drives)
  <2>1. k \in 1..Len(job.volumes)
    BY <1>2, <1>8
  <2> HIDE DEF k
  <2>2. naming[job.volumes[k]] \in {n[v] : n \in Namings, v \in Volumes}
    BY <1>0, <1>1, <2>1
  <2>3. DriveAs(i, naming)
          = [id |-> DefaultId[i - 1], file |-> naming[job.volumes[k]], root |-> FALSE]
    BY <1>8 DEF DriveAs, k
  <2>4. DefaultId[i - 1] \in Ids /\ naming[job.volumes[k]] \in Bases
    BY <1>3, <2>2
  <2> HIDE DEF Ids, Bases
  <2> QED
    BY <1>4, <1>5, <1>6, <2>3, <2>4
<1> QED
  BY <1>2, <1>7, <1>8

(* The list stays a list of devices of the chroot. *)
LEMMA InsertTyped ==
  ASSUME devices \in Seq(Devices), NEW R, \A i \in DOMAIN devices : devices[i].file \in R,
         NEW d \in Devices, d.file \in R
  PROVE  /\ Insert(d) \in Seq(Devices)
         /\ \A i \in DOMAIN Insert(d) : Insert(d)[i].file \in R
<1> DEFINE T == {x \in Devices : x.file \in R}
<1>1. DOMAIN devices = 1..Len(devices) /\ Len(devices) \in Nat
      /\ \A i \in DOMAIN devices : devices[i] \in T
  OBVIOUS
<1>2. d \in T
  OBVIOUS
<1> HIDE DEF T
<1>3. devices \in Seq(T)
  BY <1>1
<1>4. Insert(d) \in Seq(T)
  <2>1. CASE \E i \in DOMAIN devices : devices[i].id = d.id
    <3>1. Insert(d) = [i \in DOMAIN devices |-> IF devices[i].id = d.id THEN d ELSE devices[i]]
      BY <2>1 DEF Insert
    <3>2. \A i \in DOMAIN devices : (IF devices[i].id = d.id THEN d ELSE devices[i]) \in T
      BY <1>1, <1>2
    <3> QED
      BY <1>1, <3>1, <3>2
  <2>2. CASE ~ \E i \in DOMAIN devices : devices[i].id = d.id
    <3>1. <<d>> \in Seq(T)
      BY <1>2
    <3>2. <<d>> \o devices \in Seq(T)
      BY <1>3, <3>1, ConcatProperties
    <3>3. Append(devices, d) \in Seq(T)
      BY <1>2, <1>3, AppendProperties
    <3> QED
      BY <2>2, <3>2, <3>3 DEF Insert
  <2> QED
    BY <2>1, <2>2
<1>5. Seq(T) \subseteq Seq(Devices)
  <2>1. T \subseteq Devices
    BY DEF T
  <2> QED
    BY <2>1
<1>6. \A i \in DOMAIN Insert(d) : Insert(d)[i] \in T
  BY <1>4
<1> QED
  BY <1>4, <1>5, <1>6 DEF T

LEMMA PutKeeps ==
  ASSUME IInv, PutDrive
  PROVE  IInv'
<1>0. /\ job \in Jobs /\ Valid /\ drives = JobDrives \o VolumeDrives /\ phase = "attached"
      /\ devices \in Seq(Devices) /\ put \in Nat /\ TypeOK
      /\ UNCHANGED <<job, naming, phase, drives, root, mounts>>
      /\ devices' = Insert(Device(put + 1)) /\ put' = put + 1
  BY DEF IInv, TypeOK, ChrootInv, DriveInv, PutDrive
<1>1. Len(drives) = Count /\ Count \in Nat
  BY <1>0, DriveFacts
<1>2. put + 1 \in 1..Count /\ put < Count
  BY <1>0, <1>1 DEF PutDrive
<1>3. /\ Device(put + 1) \in Devices /\ Device(put + 1).file \in DOMAIN root
      /\ Device(put + 1) = DriveAs(put + 1, naming)
  BY <1>0, <1>2, DeviceTyped, DeviceFacts
<1>4. TypeOK'
  <2>1. devices' \in Seq(Devices) /\ \A i \in DOMAIN devices' : devices'[i].file \in DOMAIN root'
    BY <1>0, <1>3, InsertTyped DEF TypeOK
  <2>2. put' \in 0..Len(drives')
    BY <1>0, <1>1, <1>2
  <2> QED
    BY <1>0, <2>1, <2>2 DEF TypeOK, PutDrive, Base
<1>5. ChrootInv' /\ DriveInv'
  BY <1>0, JobKept DEF IInv, ChrootInv, DriveInv, PutDrive, Letter
<1>6. ASSUME NamesApart PROVE DeviceInv'
  <2>1. Placed(devices, put, naming)
    BY <1>0, <1>6 DEF IInv, DeviceInv
  <2>2. Placed(devices', put', naming')
    BY <1>0, <1>2, <1>3, <1>6, <2>1, InsertPlaced
  <2> QED
    BY <1>0, <1>6, <2>2, JobKept, PlacedKept DEF IInv, DeviceInv, PutDrive
<1> QED
  BY <1>4, <1>5, <1>6 DEF IInv, NamesApart

LEMMA BootKeeps ==
  ASSUME IInv, StartInstance
  PROVE  IInv'
<1>0. /\ job \in Jobs /\ drives = JobDrives \o VolumeDrives /\ phase = "attached" /\ TypeOK
      /\ UNCHANGED <<job, naming, drives, root, mounts, put, devices>>
      /\ phase' = "booted" /\ guest'.naming = naming
  BY DEF IInv, TypeOK, ChrootInv, DriveInv, StartInstance
<1>1. Len(drives) = Count
  BY <1>0, DriveFacts
<1>2. guest' \in Memories
  <2>1. DOMAIN devices = 1..Len(devices) /\ Len(devices) \in Nat
    BY <1>0 DEF TypeOK
  <2>2. \A i \in 1..Len(devices) : Behind(i) \in Files \cup Volumes
    BY <1>0, <2>1 DEF TypeOK, Behind
  <2>3. [i \in DOMAIN devices |-> Behind(i)] \in Seq(Files \cup Volumes)
    BY <2>1, <2>2
  <2> QED
    BY <1>0, <2>3 DEF StartInstance, Memories, TypeOK
<1>3. TypeOK'
  BY <1>0, <1>2 DEF TypeOK, StartInstance, Base
<1>4. ChrootInv' /\ DriveInv'
  BY <1>0, JobKept DEF IInv, ChrootInv, DriveInv, StartInstance, Letter
<1>5. ASSUME NamesApart PROVE DeviceInv'
  <2>1. Placed(devices', Count, guest'.naming)
    BY <1>0, <1>1, <1>5 DEF IInv, DeviceInv, StartInstance
  <2> QED
    BY <1>0, <1>5, <2>1, JobKept, PlacedKept DEF IInv, DeviceInv, StartInstance
<1> QED
  BY <1>3, <1>4, <1>5 DEF IInv, NamesApart

LEMMA LoadKeeps ==
  ASSUME IInv, LoadSnapshot
  PROVE  IInv'
<1>0. /\ job \in Jobs /\ phase = "attached" /\ TypeOK
      /\ UNCHANGED <<job, naming, drives, root, mounts, put, saved>>
      /\ phase' = "booted" /\ saved # Nothing /\ saved \in Snapshots
      /\ devices' = saved.devices /\ guest' = saved.guest
  BY DEF IInv, TypeOK, LoadSnapshot
<1>1. TypeOK'
  BY <1>0 DEF TypeOK, LoadSnapshot, Base, Snapshots
<1>2. ChrootInv' /\ DriveInv'
  BY <1>0, JobKept DEF IInv, ChrootInv, DriveInv, LoadSnapshot, Letter
<1>3. ASSUME NamesApart PROVE DeviceInv'
  BY <1>0, <1>3, JobKept, PlacedKept DEF IInv, DeviceInv, LoadSnapshot
<1> QED
  BY <1>1, <1>2, <1>3 DEF IInv, NamesApart

LEMMA StopKeeps ==
  ASSUME IInv, Stop
  PROVE  IInv'
<1>1. /\ TypeOK /\ Valid /\ phase = "booted" /\ Over /\ UNCHANGED <<job, naming, starts>>
      /\ saved' = saved \/ saved' = [devices |-> devices, guest |-> guest]
  BY DEF IInv, ChrootInv, Stop
<1>2. saved' \in Snapshots \cup {Nothing}
  BY <1>1 DEF TypeOK, Snapshots
<1>3. NamesApart /\ saved' # Nothing
        => Valid /\ Placed(saved'.devices, Count, saved'.guest.naming)
  BY <1>1 DEF IInv, DeviceInv
<1> QED
  BY <1>1, <1>2, <1>3, OverKeeps

(* Every attempt that fails. *)
LEMMA FailKeeps ==
  ASSUME IInv, LinkFails \/ AttachFails \/ StartFails \/ LoadFails
  PROVE  IInv'
<1>1. Over /\ UNCHANGED <<job, naming, starts>> /\ (saved' = saved \/ saved' = Nothing)
  BY DEF LinkFails, AttachFails, StartFails, LoadFails
<1>2. saved' \in Snapshots \cup {Nothing}
  BY <1>1 DEF IInv, TypeOK
<1>3. NamesApart /\ saved' # Nothing
        => Valid /\ Placed(saved'.devices, Count, saved'.guest.naming)
  BY <1>1 DEF IInv, DeviceInv
<1> QED
  BY <1>1, <1>2, <1>3, OverKeeps

LEMMA NextIInv == IInv /\ [Next]_vars => IInv'
<1> SUFFICES ASSUME IInv, [Next]_vars PROVE IInv'
  OBVIOUS
<1>1. CASE Next
  BY <1>1, StartKeeps, LinkKeeps, AttachKeeps, PutKeeps, BootKeeps, LoadKeeps, StopKeeps,
     FailKeeps, RenumberKeeps DEF Next
<1>2. CASE UNCHANGED vars
  <2>1. /\ UNCHANGED <<job, naming, starts, phase, root, drives, put, mounts, devices>>
        /\ UNCHANGED <<guest, saved>>
    BY <1>2 DEF vars, vm
  <2>2. TypeOK'
    BY <2>1 DEF IInv, TypeOK, Base
  <2>3. ChrootInv' /\ DriveInv'
    BY <2>1, JobKept DEF IInv, ChrootInv, DriveInv, Letter
  <2>4. ASSUME NamesApart PROVE DeviceInv'
    BY <2>1, <2>4, JobKept, PlacedKept DEF IInv, DeviceInv
  <2> QED
    BY <2>2, <2>3, <2>4 DEF IInv, NamesApart
<1> QED
  BY <1>1, <1>2


-------------------------------------------------------------------------------
(* Theorems.                                                               *)

(* The invariant holds in every reachable state. *)
THEOREM Invariance == Spec => []IInv
<1>1. Init => IInv
  BY InitIInv
<1>2. IInv /\ [Next]_vars => IInv'
  BY NextIInv
<1> QED
  BY <1>1, <1>2, PTL DEF Spec

(* Every entry of the chroot is the file or the device of its name, and     *)
(* every drive and every device Firecracker has is one of them.             *)
THEOREM TypeCorrect == Spec => []TypeOK
<1>1. IInv => TypeOK
  BY DEF IInv
<1> QED
  BY <1>1, Invariance, PTL

(* Where a job's drives are among the guest's devices, once all are put. *)
LEMMA BootedFacts ==
  ASSUME IInv, NamesApart, Booted
  PROVE  /\ job \in Jobs /\ Valid /\ Attachable
         /\ Count \in Nat /\ Count = Len(job.drives) + Len(job.volumes)
         /\ Len(job.drives) \in Nat /\ Len(job.volumes) \in Nat
         /\ DOMAIN job.drives = 1..Len(job.drives) /\ DOMAIN job.volumes = 1..Len(job.volumes)
         /\ RootIndex \in 1..Len(job.drives)
         /\ Len(devices) = Count /\ DOMAIN devices = 1..Count
         /\ \A j \in 1..Count : devices[j] = DriveAs(At(j, Count), guest.naming)
<1>1. /\ job \in Jobs /\ Valid /\ Attachable /\ drives = JobDrives \o VolumeDrives
      /\ devices \in Seq(Devices) /\ Placed(devices, Count, guest.naming)
  BY DEF IInv, TypeOK, ChrootInv, DriveInv, DeviceInv, Booted
<1>2. Count \in Nat
  BY <1>1, DriveFacts
<1>3. /\ Len(devices) = Count /\ DOMAIN devices = 1..Count
      /\ \A j \in 1..Count : devices[j] = DriveAs(At(j, Count), guest.naming)
  BY <1>1, <1>2 DEF Placed
<1>4. Count = Len(job.drives) + Len(job.volumes)
  BY DEF Count
<1>5. /\ Len(job.drives) \in Nat /\ Len(job.volumes) \in Nat
      /\ DOMAIN job.drives = 1..Len(job.drives) /\ DOMAIN job.volumes = 1..Len(job.volumes)
      /\ RootIndex \in 1..Len(job.drives)
  BY <1>1, JobFacts, ValidFacts, BoundsAssumption
<1> QED
  BY <1>1, <1>2, <1>3, <1>4, <1>5

(* The letters the guest is told are the letters its volumes have, for jobs *)
(* whose drives have names of their own.                                    *)
THEOREM MountsAreDevices == NamesApart => (Spec => []MountsMatchDevices)
<1> SUFFICES ASSUME NamesApart PROVE Spec => []MountsMatchDevices
  OBVIOUS
<1>1. IInv => MountsMatchDevices
  <2> SUFFICES ASSUME IInv, Booted, naming = guest.naming, NEW k \in DOMAIN job.volumes
               PROVE  mounts[k] < Len(devices) /\ Behind(mounts[k] + 1) = job.volumes[k]
    BY DEF MountsMatchDevices
  <2> DEFINE m == Len(job.drives)
             q == Len(job.volumes)
  <2>1. mounts[k] = m + k - 1
    BY DEF IInv, DriveInv, Booted, Letter
  <2>2. /\ m \in Nat /\ q \in Nat /\ k \in 1..q /\ Count = m + q
        /\ RootIndex \in 1..m /\ Len(devices) = Count
        /\ \A j \in 1..Count : devices[j] = DriveAs(At(j, Count), naming)
    BY BootedFacts
  <2> HIDE DEF m, q
  <2>3. mounts[k] < Count /\ m + k \in 1..Count /\ mounts[k] + 1 = m + k /\ ~(m + k <= m)
    BY <2>1, <2>2
  <2>4. At(m + k, Count) = m + k
    BY <2>2 DEF At
  <2>5. devices[m + k] = DriveAs(m + k, naming)
    BY <2>2, <2>3, <2>4
  <2>6. (m + k) - m = k
    BY <2>2
  <2>7. DriveAs(m + k, naming).file = naming[job.volumes[k]]
    BY <2>3, <2>6 DEF DriveAs, m
  <2>8. root[naming[job.volumes[k]]] = job.volumes[k]
    BY DEF IInv, ChrootInv, Booted
  <2> QED
    BY <2>2, <2>3, <2>5, <2>7, <2>8 DEF Behind
<1> QED
  BY <1>1, Invariance, PTL

(* /dev/vda is the root drive, wherever the job lists it. *)
THEOREM RootFirst == NamesApart => (Spec => []RootIsVda)
<1> SUFFICES ASSUME NamesApart PROVE Spec => []RootIsVda
  OBVIOUS
<1>1. IInv => RootIsVda
  <2> SUFFICES ASSUME IInv, Booted
               PROVE  /\ devices # <<>> /\ devices[1].root
                      /\ \E i \in Roots : Behind(1) = job.drives[i].path
    BY DEF RootIsVda
  <2> DEFINE m == Len(job.drives)
             q == Len(job.volumes)
             r == RootIndex
  <2>1. /\ m \in Nat /\ q \in Nat /\ Count = m + q /\ r \in 1..m
        /\ Len(devices) = Count /\ devices \in Seq(Devices)
        /\ \A j \in 1..Count : devices[j] = DriveAs(At(j, Count), guest.naming)
        /\ job \in Jobs /\ Valid /\ DOMAIN job.drives = 1..m
    BY BootedFacts DEF IInv, TypeOK
  <2>2. \A j, n : At(j, n) = IF r > n THEN j ELSE IF j = 1 THEN r ELSE IF j <= r THEN j - 1 ELSE j
    BY DEF At
  <2>3. Roots = {r} /\ r \in DOMAIN job.drives /\ job.drives[r].root
    BY <2>1, ValidFacts
  <2> HIDE DEF m, q, r
  <2>4. 1 \in 1..Count /\ At(1, Count) = r /\ r <= m /\ Count > 0
    BY <2>1, <2>2
  <2>5. devices # <<>>
    BY <2>1, <2>4
  <2>6. devices[1] = DriveAs(r, guest.naming)
    BY <2>1, <2>4
  <2>7. devices[1].file = job.drives[r].path.base /\ devices[1].root = job.drives[r].root
    BY <2>4, <2>6 DEF DriveAs, m
  <2>8. root[job.drives[r].path.base] = job.drives[r].path
    BY <2>3 DEF IInv, ChrootInv, Booted
  <2> QED
    BY <2>3, <2>5, <2>7, <2>8 DEF Behind
<1> QED
  BY <1>1, Invariance, PTL

(* No drive of the job is lost to another drive or to a volume. *)
THEOREM NoDriveLost == NamesApart => (Spec => []DrivesKept)
<1> SUFFICES ASSUME NamesApart PROVE Spec => []DrivesKept
  OBVIOUS
<1>1. IInv => DrivesKept
  <2> SUFFICES ASSUME IInv, Booted
               PROVE  /\ Len(devices) = Len(job.drives) + Len(job.volumes)
                      /\ \A i \in DOMAIN job.drives : \E j \in DOMAIN devices :
                           Behind(j) = job.drives[i].path /\ devices[j].id = DriveId(i)
    BY DEF DrivesKept
  <2> DEFINE m == Len(job.drives)
             q == Len(job.volumes)
             r == RootIndex
  <2>1. /\ m \in Nat /\ q \in Nat /\ Count = m + q /\ r \in 1..m
        /\ Len(devices) = Count /\ DOMAIN devices = 1..Count
        /\ \A j \in 1..Count : devices[j] = DriveAs(At(j, Count), guest.naming)
        /\ job \in Jobs /\ DOMAIN job.drives = 1..m
    BY BootedFacts
  <2>2. \A j, n : At(j, n) = IF r > n THEN j ELSE IF j = 1 THEN r ELSE IF j <= r THEN j - 1 ELSE j
    BY DEF At
  <2>3. Len(devices) = Len(job.drives) + Len(job.volumes)
    BY <2>1
  <2> HIDE DEF m, q, r
  <2>4. ASSUME NEW i \in 1..m PROVE \E j \in 1..Count : At(j, Count) = i
    <3> DEFINE j == IF i = r THEN 1 ELSE IF i < r THEN i + 1 ELSE i
    <3>1. j \in 1..Count /\ At(j, Count) = i
      BY <2>1, <2>2
    <3> QED
      BY <3>1
  <2>5. ASSUME NEW i \in 1..m
        PROVE  \E j \in DOMAIN devices : Behind(j) = job.drives[i].path /\ devices[j].id = DriveId(i)
    <3>1. PICK j \in 1..Count : At(j, Count) = i
      BY <2>4
    <3>2. devices[j] = DriveAs(i, guest.naming)
      BY <2>1, <3>1
    <3>3. i <= m /\ i \in 1..Count
      BY <2>1
    <3>4. devices[j].file = job.drives[i].path.base
      BY <3>2, <3>3 DEF DriveAs, m
    <3>5. root[job.drives[i].path.base] = job.drives[i].path
      BY <2>1 DEF IInv, ChrootInv, Booted
    <3>6. DriveAs(i, guest.naming).id = DriveAs(i, naming).id
      BY <3>3 DEF DriveAs, m
    <3>7. Device(i) = DriveAs(i, naming)
      BY <2>1, <3>3, DeviceFacts DEF IInv, DriveInv, Booted
    <3>8. devices[j].id = DriveId(i)
      BY <3>2, <3>6, <3>7 DEF Device
    <3> QED
      BY <2>1, <3>4, <3>5, <3>8 DEF Behind
  <2> QED
    BY <2>1, <2>3, <2>5
<1> QED
  BY <1>1, Invariance, PTL

-------------------------------------------------------------------------------
(* What a guest remembers of its disks.                                    *)

(* Behind each device is what the job says of the drive it is, unless that  *)
(* is a volume that has another name than the device was made under.        *)
LEMMA BehindSource ==
  ASSUME IInv, phase \in {"attached", "booted"},
         NEW names, Placed(devices, Count, names), NEW j \in 1..Count
  PROVE  LET x == Source(At(j, Count)) IN
           \/ Behind(j) = x
           \/ x \in Volumes /\ naming[x] # names[x]
<1> DEFINE m == Len(job.drives)
           q == Len(job.volumes)
           i == At(j, Count)
<1>1. /\ job \in Jobs /\ Valid /\ drives = JobDrives \o VolumeDrives
      /\ devices[j] = DriveAs(i, names)
  BY DEF IInv, TypeOK, ChrootInv, DriveInv, Placed
<1>2. /\ m \in Nat /\ q \in Nat /\ DOMAIN job.drives = 1..m /\ DOMAIN job.volumes = 1..q
      /\ \A k \in 1..q : job.volumes[k] \in Volumes
      /\ Count \in Nat /\ RootIndex \in 1..m
      /\ \A n \in 1..Count : n <= m \/ n - m \in 1..q
  BY <1>1, JobFacts, BoundsAssumption, DriveFacts, ValidFacts
<1>3. i \in 1..Count
  <2>1. RootIndex \in Nat \ {0}
    BY <1>2
  <2> HIDE DEF i, m
  <2> QED
    BY <1>2, <2>1, AtFacts DEF i
<1> HIDE DEF i
<1>4. CASE i <= m
  <2>1. i \in 1..m
    <3> HIDE DEF m
    <3> QED
      BY <1>2, <1>3, <1>4
  <2>2. Source(i) = job.drives[i].path /\ devices[j].file = job.drives[i].path.base
    BY <1>1, <1>4 DEF Source, DriveAs
  <2>3. root[job.drives[i].path.base] = job.drives[i].path
    BY <1>2, <2>1 DEF IInv, ChrootInv
  <2> QED
    BY <2>2, <2>3 DEF Behind, i
<1>5. CASE ~(i <= m)
  <2> DEFINE v == job.volumes[i - m]
  <2>1. i - m \in 1..q
    BY <1>2, <1>3, <1>5
  <2>2. v \in Volumes /\ root[naming[v]] = v
    BY <1>2, <2>1 DEF IInv, ChrootInv
  <2>3. Source(i) = v /\ devices[j].file = names[v]
    BY <1>1, <1>5 DEF Source, DriveAs
  <2> QED
    BY <2>2, <2>3 DEF Behind, i
<1> QED
  BY <1>4, <1>5

(* The job never changes, nor what it says of the devices. *)
LEMMA SourcesKept ==
  ASSUME job' = job
  PROVE  Sources' = Sources
<1>1. Count' = Count
  BY DEF Count
<1> QED
  BY <1>1 DEF Sources, Source, At, RootIndex, Roots

(* A memory is made by a boot and only copied after it. *)
LEMMA NextMemoryInv ==
  ASSUME IInv, NamesApart, MemoryInv, [Next]_vars
  PROVE  MemoryInv'
<1>1. job' = job /\ Sources' = Sources
  <2>1. job' = job
    BY DEF Next, StartTask, LinkGuestFiles, LinkFails, AttachHostVolumes, AttachFails,
           PutDrive, StartInstance, LoadSnapshot, LoadFails, StartFails, Stop, Renumber, vars
  <2> QED
    BY <2>1, SourcesKept
<1>2. CASE StartInstance
  <2>1. /\ phase = "attached" /\ devices \in Seq(Devices) /\ Placed(devices, put, naming)
        /\ drives = JobDrives \o VolumeDrives /\ job \in Jobs /\ put = Len(drives)
    BY <1>2 DEF IInv, TypeOK, DriveInv, DeviceInv, StartInstance
  <2>2. put = Count /\ Count \in Nat /\ DOMAIN devices = 1..Count
    <3>1. Count \in Nat /\ Len(drives) = Count
      BY <2>1, DriveFacts
    <3>2. Len(devices) = put
      BY <2>1 DEF Placed
    <3> QED
      BY <2>1, <3>1, <3>2
  <2>3. \A j \in 1..Count : Behind(j) = Source(At(j, Count))
    BY <2>1, <2>2, BehindSource
  <2>4. guest'.disks = Sources
    BY <1>2, <2>2, <2>3 DEF StartInstance, Sources
  <2> QED
    BY <1>1, <1>2, <2>4 DEF MemoryInv, StartInstance
<1>3. CASE LoadSnapshot
  BY <1>1, <1>3 DEF MemoryInv, LoadSnapshot
<1>4. CASE Stop
  BY <1>1, <1>4 DEF MemoryInv, Stop, Over
<1>5. CASE LinkFails \/ AttachFails \/ StartFails \/ LoadFails
  BY <1>1, <1>5 DEF MemoryInv, LinkFails, AttachFails, StartFails, LoadFails, Over
<1>6. CASE StartTask \/ LinkGuestFiles \/ AttachHostVolumes \/ PutDrive \/ Renumber
  BY <1>1, <1>6 DEF MemoryInv, StartTask, LinkGuestFiles, AttachHostVolumes, PutDrive, Renumber, vm
<1>7. CASE UNCHANGED vars
  BY <1>1, <1>7 DEF MemoryInv, vars, vm
<1> QED
  BY <1>2, <1>3, <1>4, <1>5, <1>6, <1>7 DEF Next

(* A restored guest finds its disks where it left them, but for the volumes *)
(* that were renamed, for jobs whose drives have names of their own.        *)
THEOREM RestoredDisks == NamesApart => (Spec => []DisksAsLeft)
<1> SUFFICES ASSUME NamesApart PROVE Spec => []DisksAsLeft
  OBVIOUS
<1>1. Init => MemoryInv
  BY DEF Init, MemoryInv
<1>2. IInv /\ MemoryInv /\ [Next]_vars => MemoryInv'
  BY NextMemoryInv
<1>3. IInv /\ MemoryInv => DisksAsLeft
  <2> SUFFICES ASSUME IInv, MemoryInv, Booted PROVE DisksAsLeft
    BY DEF DisksAsLeft
  <2>1. /\ guest.disks = Sources /\ DOMAIN devices = 1..Count
        /\ phase = "booted" /\ Placed(devices, Count, guest.naming)
    BY BootedFacts DEF MemoryInv, Booted, IInv, DeviceInv
  <2>2. DOMAIN guest.disks = 1..Count
        /\ \A i \in 1..Count : guest.disks[i] = Source(At(i, Count))
    BY <2>1 DEF Sources
  <2> QED
    BY <2>1, <2>2, BehindSource DEF DisksAsLeft
<1> QED
  BY <1>1, <1>2, <1>3, Invariance, PTL DEF Spec

===============================================================================
