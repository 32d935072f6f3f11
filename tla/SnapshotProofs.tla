---------------------------- MODULE SnapshotProofs ----------------------------
(***************************************************************************)
(* Proofs, for every number of moments and faults, of the safety           *)
(* properties of Snapshot.  Each follows from IInv, which is inductive:    *)
(* NextTypeOK and NextIInv take the actions one by one.                    *)
(***************************************************************************)
EXTENDS Snapshot, TLAPS

(* A rename moves the content of the chroot entry to the snapshot entry;    *)
(* when the two are linked it is there already and nothing changes.         *)
LEMMA RenameFacts ==
  ASSUME NEW f \in Files, TypeOK, FilesInv, Rename(f)
  PROVE  /\ snap' = [snap EXCEPT ![f] = root[f]]
         /\ root' \in [Files -> Content]
         /\ \A g \in Files : g # f => root'[g] = root[g]
         /\ linked # {} => root' = root
         /\ linked' = linked
<1>1. CASE linked = {}
  BY <1>1, ContentAssumption DEF Rename, TypeOK, Files, Content
<1>2. CASE linked = Files
  BY <1>2 DEF Rename, TypeOK, FilesInv, Files
<1> QED
  BY <1>1, <1>2 DEF TypeOK

(* A CreateSnapshot in flight reaches the snapshot directory only through   *)
(* links, and makes no file of it appear or disappear.                      *)
LEMMA ThroughFacts ==
  ASSUME TypeOK, FilesInv, NEW w \in InFlight
  PROVE  /\ w \in [Files -> Content]
         /\ Through(w) \in [Files -> Content]
         /\ \A f \in Files : Through(w)[f] = Absent <=> snap[f] = Absent
         /\ linked = {} \/ phase # "paused" => Through(w) = snap
<1>1. /\ w \in [Files -> Content]
      /\ phase # "paused" => \A f \in Files : w[f] = Absent
  BY DEF InFlight, Both, Content, TypeOK
<1>2. linked # {} => linked = Files /\ Has
  BY DEF TypeOK, FilesInv
<1> QED
  BY <1>1, <1>2 DEF Through, Has, TypeOK

(* The same write as the chroot sees it. *)
LEMMA WriteFacts ==
  ASSUME TypeOK, FilesInv, NEW w \in InFlight, Write(w)
  PROVE  /\ snap' = Through(w)
         /\ root' \in [Files -> Content]
         /\ linked' = linked
         /\ linked # {} => root' = snap'
         /\ phase # "paused" => root' = root
<1>1. /\ w \in [Files -> Content]
      /\ phase # "paused" => \A f \in Files : w[f] = Absent
  BY DEF InFlight, Both, Content, TypeOK
<1>2. linked # {} => linked = Files /\ root = snap
  BY DEF TypeOK, FilesInv
<1> QED
  BY <1>1, <1>2 DEF Write, Through, TypeOK

-------------------------------------------------------------------------------
(* Every step keeps every variable in its type. *)
LEMMA NextTypeOK == TypeOK /\ FilesInv /\ [Next]_vars => TypeOK'
<1> SUFFICES ASSUME TypeOK, FilesInv, [Next]_vars PROVE TypeOK'
  OBVIOUS
<1> USE DEF StartPhases, StopPhases
<1>0. CASE UNCHANGED vars
  BY <1>0 DEF TypeOK, vars, files, ghosts
<1>1. CASE StartTask
  BY <1>1 DEF StartTask, NomadStarts, Both, ghosts, Content, TypeOK
<1>2. CASE StartLinkFails
  BY <1>2 DEF StartLinkFails, NomadStarts, RemoveChroot, Both, ghosts, Content, TypeOK
<1>3. CASE StartFails
  <2>1. orphan' \in BOOLEAN
    BY <1>3, Zenon DEF StartFails, TypeOK
  <2> QED
    BY <1>3, <2>1 DEF StartFails, RemoveChroot, Fault, Both, Content, ghosts, TypeOK
<1>4. CASE RestoreOk
  BY <1>4 DEF RestoreOk, files, TypeOK
<1>5. CASE RestoreFails
  <2>1. orphan' = orphan \/ orphan' = TRUE
    BY <1>5, Zenon DEF RestoreFails
  <2>2. orphan' \in BOOLEAN
    BY <2>1, Zenon DEF TypeOK
  <2>3. faults' \in Nat
    BY <1>5 DEF RestoreFails, Fault, TypeOK
  <2> QED
    BY <1>5, <2>2, <2>3 DEF RestoreFails, RemoveDir, Both, Content, TypeOK
<1>6. CASE ColdBoot
  BY <1>6 DEF ColdBoot, files, TypeOK
<1>7. CASE StartDone
  BY <1>7 DEF StartDone, files, ghosts, TypeOK
<1>8. CASE GuestRuns
  BY <1>8 DEF GuestRuns, files, ghosts, TypeOK
<1>9. CASE OrphanRuns
  BY <1>9 DEF OrphanRuns, files, ghosts, TypeOK
<1>10. CASE GuestExits
  BY <1>10 DEF GuestExits, files, ghosts, TypeOK
<1>11. CASE StopTask
  BY <1>11 DEF StopTask, files, ghosts, TypeOK
<1>12. CASE PauseOk
  BY <1>12 DEF PauseOk, files, TypeOK
<1>13. CASE PauseFails
  BY <1>13 DEF PauseFails, Fault, files, TypeOK
<1>14. CASE CreateOk
  <2>1. snap' \in [Files -> Content] /\ root' \in [Files -> Content] /\ linked' = linked
    BY <1>14 DEF CreateOk, Write, Through, TypeOK, Both, Files, Content
  <2> QED
    BY <1>14, <2>1 DEF CreateOk, TypeOK
<1>15. CASE CreateFails
  <2>1. PICK w \in InFlight : Write(w)
    BY <1>15 DEF CreateFails
  <2> QED
    BY <1>15, <2>1, ThroughFacts, WriteFacts DEF CreateFails, Fault, TypeOK
<1>16. CASE SaveVmstate
  BY <1>16, RenameFacts DEF SaveVmstate, Files, TypeOK, ghosts
<1>17. CASE SaveMemory
  BY <1>17, RenameFacts DEF SaveMemory, Files, TypeOK
<1>18. CASE SaveFails
  <2>1. faults' \in Nat
    BY <1>18 DEF SaveFails, Fault, TypeOK
  <2> QED
    BY <1>18, <2>1 DEF SaveFails, RemoveDir, Both, Content, TypeOK
<1>19. CASE ShutdownOk
  BY <1>19 DEF ShutdownOk, files, ghosts, TypeOK
<1>20. CASE ShutdownFails
  BY <1>20 DEF ShutdownFails, Fault, files, ghosts, TypeOK
<1>21. CASE DestroyTask
  <2>1. PICK w \in InFlight : snap' = Through(w)
    BY <1>21 DEF DestroyTask
  <2>2. snap' \in [Files -> Content] /\ root' \in [Files -> Content] /\ linked' = {}
    BY <1>21, <2>1, ThroughFacts DEF DestroyTask, RemoveChroot, Both, Content
  <2>3. orphan' \in BOOLEAN /\ cut' \in BOOLEAN
    BY <1>21, Zenon DEF DestroyTask, TypeOK
  <2>4. faults' \in Nat
    BY <1>21 DEF DestroyTask, Fault, TypeOK
  <2> QED
    BY <1>21, <2>2, <2>3, <2>4 DEF DestroyTask, TypeOK
<1>22. CASE CrashInStart
  BY <1>22 DEF CrashInStart, Fault, files, ghosts, TypeOK
<1>23. CASE CrashElsewhere
  <2>1. PICK w \in InFlight : Write(w)
    BY <1>23 DEF CrashElsewhere
  <2> QED
    BY <1>23, <2>1, ThroughFacts, WriteFacts DEF CrashElsewhere, Fault, TypeOK
<1>24. CASE Recover
  BY <1>24 DEF Recover, Fault, files, ghosts, TypeOK
<1>25. CASE RecoverFails
  BY <1>25 DEF RecoverFails, Fault, files, ghosts, TypeOK
<1>26. CASE MoveChroot
  BY <1>26 DEF MoveChroot, RemoveChroot, Both, ghosts, Content, TypeOK
<1> QED
  BY <1>0, <1>1, <1>2, <1>3, <1>4, <1>5, <1>6, <1>7, <1>8, <1>9, <1>10, <1>11, <1>12, <1>13,
     <1>14, <1>15, <1>16, <1>17, <1>18, <1>19, <1>20, <1>21, <1>22, <1>23, <1>24, <1>25, <1>26
  DEF Next, Boot, SnapshotOnStop

-------------------------------------------------------------------------------
(* The initial states satisfy the inductive invariant. *)
LEMMA InitIInv == Init => IInv
<1> SUFFICES ASSUME Init PROVE IInv
  OBVIOUS
<1> USE ContentAssumption DEF Init, Files, Both
<1>1. TypeOK
  BY DEF TypeOK, Content, StartPhases, StopPhases
<1>2. ~Has
  BY DEF Has
<1>3. FilesInv /\ PhaseInv /\ SavingInv /\ SavedInv
  BY DEF FilesInv, PhaseInv, SavingInv, SavedInv, SavedSnapshotCurrent
<1>4. WholeSnapshot /\ Unmixed
  BY <1>2 DEF WholeSnapshot, Unmixed
<1> QED
  BY <1>1, <1>3, <1>4 DEF IInv

(* Every step preserves the inductive invariant. *)
LEMMA NextIInv == IInv /\ [Next]_vars => IInv'
<1> SUFFICES ASSUME IInv, [Next]_vars PROVE IInv'
  OBVIOUS
<1> USE ContentAssumption DEF StartPhases, StopPhases, Files, Both, Has, Unmixed,
        FilesInv, PhaseInv, SavingInv, SavedInv, SavedSnapshotCurrent, WholeSnapshot
<1>a. /\ TypeOK /\ FilesInv /\ PhaseInv /\ SavingInv
      /\ SavedInv /\ WholeSnapshot /\ Unmixed
  BY DEF IInv
<1>b. TypeOK'
  BY <1>a, NextTypeOK
<1>c. IInv' <=> /\ FilesInv' /\ PhaseInv' /\ SavingInv'
                /\ SavedInv' /\ WholeSnapshot' /\ Unmixed'
  BY <1>b, Zenon DEF IInv
<1>0. CASE UNCHANGED vars
  BY <1>a, <1>c, <1>0 DEF vars, files, ghosts
<1>1. CASE StartTask
  BY <1>a, <1>b, <1>c, <1>1 DEF StartTask, NomadStarts, ghosts, TypeOK
<1>2. CASE StartLinkFails
  BY <1>a, <1>b, <1>c, <1>2 DEF StartLinkFails, NomadStarts, RemoveChroot, ghosts, TypeOK
<1>3. CASE StartFails
  <2>1. orphan => orphan'
    BY <1>3, Zenon DEF StartFails
  <2> QED
    BY <1>a, <1>b, <1>c, <1>3, <2>1 DEF StartFails, RemoveChroot, ghosts, TypeOK
<1>4. CASE RestoreOk
  BY <1>a, <1>b, <1>c, <1>4 DEF RestoreOk, files, TypeOK
<1>5. CASE RestoreFails
  BY <1>a, <1>b, <1>c, <1>5 DEF RestoreFails, RemoveDir, TypeOK
<1>6. CASE ColdBoot
  BY <1>a, <1>b, <1>c, <1>6 DEF ColdBoot, files, TypeOK
<1>7. CASE StartDone
  BY <1>a, <1>b, <1>c, <1>7 DEF StartDone, files, ghosts, TypeOK
<1>8. CASE GuestRuns
  BY <1>a, <1>b, <1>c, <1>8 DEF GuestRuns, files, ghosts, TypeOK
<1>9. CASE OrphanRuns
  BY <1>a, <1>b, <1>c, <1>9 DEF OrphanRuns, files, ghosts, TypeOK
<1>10. CASE GuestExits
  BY <1>a, <1>b, <1>c, <1>10 DEF GuestExits, files, ghosts, TypeOK
<1>11. CASE StopTask
  BY <1>a, <1>b, <1>c, <1>11 DEF StopTask, files, ghosts, TypeOK
<1>12. CASE PauseOk
  BY <1>a, <1>b, <1>c, <1>12 DEF PauseOk, files, TypeOK
<1>13. CASE PauseFails
  BY <1>a, <1>b, <1>c, <1>13 DEF PauseFails, Fault, files, TypeOK
<1>14. CASE CreateOk
  <2>1. root' = Both(disk)
    BY <1>a, <1>14 DEF CreateOk, Write, TypeOK
  <2>2. linked' = linked /\ snap' = IF linked = {} THEN snap ELSE Both(disk)
    BY <1>a, <1>14 DEF CreateOk, Write, Through, TypeOK
  <2>3. disk \in Nat /\ disk # Absent
    BY <1>a DEF TypeOK
  <2> QED
    BY <1>a, <1>b, <1>c, <1>14, <2>1, <2>2, <2>3 DEF CreateOk, TypeOK
<1>15. CASE CreateFails
  <2>1. PICK w \in InFlight : Write(w)
    BY <1>15 DEF CreateFails
  <2>2. /\ \A f \in Files : snap'[f] = Absent <=> snap[f] = Absent
        /\ linked' = linked
        /\ linked # {} => root' = snap'
        /\ linked = {} => snap' = snap
    BY <1>a, <2>1, ThroughFacts, WriteFacts
  <2>3. FilesInv' /\ PhaseInv' /\ SavingInv' /\ SavedInv' /\ WholeSnapshot'
    BY <1>a, <1>b, <1>15, <2>2 DEF CreateFails, TypeOK
  <2>4. Unmixed'
    BY <1>a, <1>15, <2>2 DEF CreateFails, TypeOK
  <2> QED
    BY <1>c, <2>3, <2>4
<1>16. CASE SaveVmstate
  <2>1. /\ snap' = [snap EXCEPT !["vmstate"] = root["vmstate"]]
        /\ root'["memory"] = root["memory"]
        /\ linked # {} => root' = root
        /\ linked' = linked
    BY <1>a, <1>16, RenameFacts DEF SaveVmstate
  <2>2. snap' \in [Files -> Content] /\ root["vmstate"] = taken /\ taken # Absent
    BY <1>a, <1>b, <1>16 DEF SaveVmstate, CanMove, TypeOK
  <2>3. snap'["vmstate"] = taken /\ snap'["memory"] = snap["memory"]
    BY <1>a, <2>1, <2>2 DEF TypeOK
  <2>4. FilesInv' /\ PhaseInv' /\ SavingInv' /\ SavedInv'
    BY <1>a, <1>b, <1>16, <2>1, <2>2, <2>3 DEF SaveVmstate, ghosts, TypeOK
  <2>5. WholeSnapshot' /\ Unmixed'
    BY <1>a, <1>b, <1>16, <2>1, <2>2, <2>3 DEF SaveVmstate, CanMove, ghosts, TypeOK
  <2> QED
    BY <1>c, <2>4, <2>5
<1>17. CASE SaveMemory
  <2>1. /\ snap' = [snap EXCEPT !["memory"] = root["memory"]]
        /\ linked # {} => root' = root
        /\ linked' = linked
    BY <1>a, <1>17, RenameFacts DEF SaveMemory
  <2>2. root["memory"] = taken /\ snap["vmstate"] = taken /\ taken # Absent
    BY <1>a, <1>17 DEF SaveMemory, CanMove, TypeOK
  <2>3. snap' = Both(taken)
    BY <1>a, <2>1, <2>2 DEF TypeOK
  <2> QED
    BY <1>a, <1>b, <1>c, <1>17, <2>1, <2>2, <2>3 DEF SaveMemory, TypeOK
<1>18. CASE SaveFails
  BY <1>a, <1>b, <1>c, <1>18 DEF SaveFails, Fault, RemoveDir, CanMove, TypeOK
<1>19. CASE ShutdownOk
  BY <1>a, <1>b, <1>c, <1>19 DEF ShutdownOk, files, ghosts, TypeOK
<1>20. CASE ShutdownFails
  BY <1>a, <1>b, <1>c, <1>20 DEF ShutdownFails, Fault, files, ghosts, TypeOK
<1>21. CASE DestroyTask
  <2>1. PICK w \in InFlight : snap' = Through(w)
    BY <1>21 DEF DestroyTask
  <2>2. /\ \A f \in Files : snap'[f] = Absent <=> snap[f] = Absent
        /\ phase # "paused" => snap' = snap
    BY <1>a, <2>1, ThroughFacts
  <2>3. (cut => cut') /\ (phase = "paused" => cut')
    BY <1>21, Zenon DEF DestroyTask
  <2>4. orphan => orphan'
    BY <1>21 DEF DestroyTask
  <2> QED
    BY <1>a, <1>b, <1>c, <1>21, <2>2, <2>3, <2>4 DEF DestroyTask, RemoveChroot, TypeOK
<1>22. CASE CrashInStart
  BY <1>a, <1>b, <1>c, <1>22 DEF CrashInStart, Fault, files, ghosts, TypeOK
<1>23. CASE CrashElsewhere
  <2>1. PICK w \in InFlight : Write(w)
    BY <1>23 DEF CrashElsewhere
  <2>2. /\ \A f \in Files : snap'[f] = Absent <=> snap[f] = Absent
        /\ linked' = linked
        /\ linked # {} => root' = snap'
        /\ linked = {} \/ phase # "paused" => snap' = snap
    BY <1>a, <2>1, ThroughFacts, WriteFacts
  <2>3. (cut => cut') /\ (phase = "paused" => cut')
    BY <1>23, Zenon DEF CrashElsewhere
  <2>4. FilesInv' /\ PhaseInv' /\ SavingInv' /\ SavedInv' /\ WholeSnapshot'
    BY <1>a, <1>b, <1>23, <2>2, <2>3 DEF CrashElsewhere, TypeOK
  <2>5. vm' \in {vm, "paused"} /\ (vm' # vm => vm = "running")
    BY <1>23 DEF CrashElsewhere
  <2>6. Unmixed'
    BY <1>a, <1>23, <2>2, <2>5 DEF CrashElsewhere, TypeOK
  <2> QED
    BY <1>c, <2>4, <2>6
<1>24. CASE Recover
  BY <1>a, <1>b, <1>c, <1>24 DEF Recover, Fault, files, ghosts, TypeOK
<1>25. CASE RecoverFails
  <2>1. orphan => orphan'
    BY <1>25, Zenon DEF RecoverFails
  <2> QED
    BY <1>a, <1>b, <1>c, <1>25, <2>1 DEF RecoverFails, files, ghosts, TypeOK
<1>26. CASE MoveChroot
  BY <1>a, <1>b, <1>c, <1>26 DEF MoveChroot, RemoveChroot, ghosts, TypeOK
<1> QED
  BY <1>0, <1>1, <1>2, <1>3, <1>4, <1>5, <1>6, <1>7, <1>8, <1>9, <1>10, <1>11, <1>12, <1>13,
     <1>14, <1>15, <1>16, <1>17, <1>18, <1>19, <1>20, <1>21, <1>22, <1>23, <1>24, <1>25, <1>26
  DEF Next, Boot, SnapshotOnStop

-------------------------------------------------------------------------------
(* The inductive invariant holds in every reachable state. *)
THEOREM Invariance == Spec => []IInv
<1>1. Init => IInv
  BY InitIInv
<1>2. IInv /\ [Next]_vars => IInv'
  BY NextIInv
<1> QED
  BY <1>1, <1>2, PTL DEF Spec

(* Every variable stays in its type. *)
THEOREM TypeCorrect == Spec => []TypeOK
<1>1. IInv => TypeOK
  BY DEF IInv
<1> QED
  BY <1>1, Invariance, PTL

(* After a saved stop the snapshot directory holds that stop's snapshot,    *)
(* whole and up to date, until the next boot.                               *)
THEOREM SavedCurrent == Spec => []SavedSnapshotCurrent
<1>1. IInv => SavedSnapshotCurrent
  BY DEF IInv, SavedInv
<1> QED
  BY <1>1, Invariance, PTL

(* A snapshot that Has() reports is never half of one and half of another. *)
THEOREM Whole == Spec => []WholeSnapshot
<1>1. IInv => WholeSnapshot
  BY DEF IInv
<1> QED
  BY <1>1, Invariance, PTL

(* The boot after a saved stop resumes the state of that stop. *)
THEOREM Resumed == Spec => SavedStateResumed
<1> DEFINE Resumes == vm = "fresh" /\ vm' = "running" /\ outcome = "saved"
                        => /\ phase = "restoring"
                           /\ root = Both(taken)
                           /\ taken = disk \/ orphan
<1>1. IInv /\ [Next]_vars => [Resumes]_vars
  <2> SUFFICES ASSUME IInv, vm = "fresh", outcome = "saved"
               PROVE  phase = "restoring" /\ root = Both(taken) /\ (taken = disk \/ orphan)
    OBVIOUS
  <2>1. TypeOK /\ FilesInv /\ PhaseInv /\ SavedSnapshotCurrent
    BY DEF IInv, SavedInv
  <2>2. phase = "restoring"
    BY <2>1 DEF PhaseInv
  <2>3. root = snap
    BY <2>1, <2>2 DEF PhaseInv, FilesInv, Files
  <2> QED
    BY <2>1, <2>2, <2>3 DEF SavedSnapshotCurrent
<1>2. Spec => [][Resumes]_vars
  BY <1>1, Invariance, PTL DEF Spec
<1> QED
  BY <1>2 DEF SavedStateResumed

-------------------------------------------------------------------------------
(* The refinement: each step is a step of SnapshotContract or a stutter.    *)

(* Two equal files are that image, and there is no image without both. *)
LEMMA ImageFacts ==
  ASSUME TypeOK
  PROVE  /\ Image = Absent <=> ~Has
         /\ \A c : snap = Both(c) => Image = c
  BY ContentAssumption DEF Image, Has, Both, Files, TypeOK

(* A CreateSnapshot in flight leaves the image, makes it that of the disk   *)
(* as it is, or damages it; it never makes one.                             *)
LEMMA InFlightImage ==
  ASSUME TypeOK, FilesInv, NEW w \in InFlight, snap' = Through(w)
  PROVE  \/ Image' = Image
         \/ phase = "paused" /\ Image # Absent /\ Image' \in {Torn, disk}
<1>1. CASE linked = {} \/ phase # "paused"
  BY <1>1, ThroughFacts DEF Image, Has
<1>2. CASE linked # {} /\ phase = "paused"
  <2>1. w \in [Files -> {Absent, Torn, disk}] /\ linked = Files /\ Has
    BY <1>2, ContentAssumption DEF InFlight, Both, Files, TypeOK, FilesInv
  <2>2. \A f \in Files : snap'[f] \in {snap[f], Torn, disk} /\ snap'[f] # Absent
    BY <2>1, ContentAssumption DEF Through, Has, TypeOK
  <2>3. Image' \in {Image, Torn, disk}
    BY <2>1, <2>2 DEF Image, Has, Files
  <2> QED
    BY <1>2, <2>1, <2>3, ImageFacts
<1> QED
  BY <1>1, <1>2

(* A step that leaves the files, the disk and the VM's life is a stutter. *)
LEMMA Stutters ==
  ASSUME UNCHANGED <<disk, snap, orphan>>, Life' = Life
  PROVE  UNCHANGED Contract!vars
  BY DEF Contract!vars, Image, Has

(* Such a step that takes the VM out of sight of the contract ends it. *)
LEMMA Ends ==
  ASSUME UNCHANGED <<disk, snap, orphan>>, Life' = "off"
  PROVE  Contract!Next
  BY DEF Contract!Next, Contract!End, Image, Has

(* What a CreateSnapshot in flight does is a Save or a CutShort. *)
LEMMA Creating ==
  ASSUME TypeOK, FilesInv, NEW w \in InFlight, snap' = Through(w),
         UNCHANGED <<disk, orphan>>,
         Life = "creating", Life' \in {"creating", "paused", "off"}
  PROVE  Contract!Next
<1>1. CASE Image' = disk
  BY <1>1 DEF Contract!Next, Contract!Save
<1>2. CASE Image' # disk
  BY <1>2, InFlightImage DEF Contract!Next, Contract!CutShort
<1> QED
  BY <1>1, <1>2

(* Every step is a step of the contract, or changes nothing it speaks of. *)
LEMMA NextContract == IInv /\ [Next]_vars => [Contract!Next]_(Contract!vars)
<1> SUFFICES ASSUME IInv, [Next]_vars PROVE [Contract!Next]_(Contract!vars)
  OBVIOUS
<1> USE DEF StartPhases, StopPhases, PhaseInv, NomadStarts
<1>a. TypeOK /\ FilesInv /\ PhaseInv /\ SavingInv /\ Unmixed
  BY DEF IInv
<1>b. TypeOK'
  BY <1>a, NextTypeOK
<1>c. CASE orphan'
  BY <1>b, <1>c DEF Contract!Next, Contract!Lose, TypeOK
<1>d. SUFFICES ASSUME ~orphan' PROVE [Contract!Next]_(Contract!vars)
  BY <1>c
<1>0. CASE UNCHANGED vars
  BY <1>0, Stutters DEF vars, files, Life
<1>1. CASE StartTask
  BY <1>1, Stutters DEF StartTask, Life
<1>2. CASE StartLinkFails
  BY <1>2, Stutters DEF StartLinkFails, Life
<1>3. CASE StartFails
  <2>1. orphan' = orphan
    BY <1>a, <1>d, <1>3 DEF StartFails, TypeOK
  <2> QED
    BY <1>3, <2>1, Ends DEF StartFails, Life
<1>4. CASE RestoreOk
  <2>1. Life = "off" /\ Life' = "on"
    BY <1>a, <1>4 DEF RestoreOk, Life
  <2>2. Image # Absent /\ Image' = Image
    BY <1>a, <1>4, ImageFacts DEF RestoreOk, FilesInv, files, Image, Has, Files
  <2>3. Contract!Resume
    BY <1>4, <2>1, <2>2 DEF RestoreOk, Contract!Resume
  <2> QED
    BY <2>3 DEF Contract!Next
<1>5. CASE RestoreFails
  <2>1. Life = "off" /\ Life' = "off"
    BY <1>a, <1>5 DEF RestoreFails, Life
  <2>2. Image' = Absent
    BY <1>5 DEF RestoreFails, RemoveDir, Image, Has, Both, Files
  <2>3. orphan' = orphan
    BY <1>a, <1>d, <1>5 DEF RestoreFails, TypeOK
  <2>4. Contract!Discard
    BY <1>5, <2>1, <2>2, <2>3 DEF RestoreFails, Contract!Discard
  <2> QED
    BY <2>4 DEF Contract!Next
<1>6. CASE ColdBoot
  <2>1. Life = "off" /\ Life' = "on"
    BY <1>a, <1>6 DEF ColdBoot, Life
  <2>2. Image = Absent /\ Image' = Image
    BY <1>a, <1>6, ImageFacts DEF ColdBoot, files, Image, Has
  <2>3. Contract!BootCold
    BY <1>6, <2>1, <2>2 DEF ColdBoot, Contract!BootCold
  <2> QED
    BY <2>3 DEF Contract!Next
<1>7. CASE StartDone
  BY <1>7, Stutters DEF StartDone, files, Life
<1>8. CASE GuestRuns
  <2>1. Life = "on" /\ Life' = "on" /\ Image' = Image
    BY <1>8 DEF GuestRuns, files, Life, Image, Has
  <2>2. Contract!GuestWrites
    BY <1>8, <2>1 DEF GuestRuns, Contract!GuestWrites
  <2> QED
    BY <2>2 DEF Contract!Next
<1>9. CASE OrphanRuns
  BY <1>d, <1>9 DEF OrphanRuns
<1>10. CASE GuestExits
  <2>1. Life' = Life \/ Life' = "off"
    BY <1>a, <1>10 DEF GuestExits, Life
  <2> QED
    BY <1>10, <2>1, Stutters, Ends DEF GuestExits, files
<1>11. CASE StopTask
  BY <1>11, Stutters DEF StopTask, files, Life
<1>12. CASE PauseOk
  <2>1. Life \in {"on", "paused"} /\ Life' = "creating"
    BY <1>a, <1>12 DEF PauseOk, Life, TypeOK
  <2>2. Contract!Create
    BY <1>12, <2>1 DEF PauseOk, files, Contract!Create, Image, Has
  <2> QED
    BY <2>2 DEF Contract!Next
<1>13. CASE PauseFails
  <2>1. Life' = Life \/ (Life = "on" /\ Life' = "paused")
    BY <1>a, <1>13 DEF PauseFails, Life, TypeOK
  <2>2. CASE Life = "on" /\ Life' = "paused"
    BY <1>13, <2>2 DEF PauseFails, files, Contract!Next, Contract!Pause, Image, Has
  <2> QED
    BY <1>13, <2>1, <2>2, Stutters DEF PauseFails, files
<1>14. CASE CreateOk
  <2>1. Life = "creating" /\ Life' = "paused"
    BY <1>14 DEF CreateOk, Life
  <2>2. CASE linked = {}
    <3>1. snap' = snap
      BY <1>a, <1>14, <2>2 DEF CreateOk, Write, Through, TypeOK
    <3>2. Contract!CutShort
      BY <1>14, <2>1, <3>1 DEF CreateOk, Contract!CutShort, Image, Has
    <3> QED
      BY <3>2 DEF Contract!Next
  <2>3. CASE linked # {}
    <3>1. snap' = Both(disk)
      BY <1>a, <1>14, <2>3, ContentAssumption
      DEF CreateOk, Write, Through, Both, Files, TypeOK
    <3>2. Image' = disk
      BY <1>b, <3>1 DEF Image, Has, Both, Files
    <3>3. Contract!Save
      BY <1>14, <2>1, <3>2 DEF CreateOk, Contract!Save
    <3> QED
      BY <3>3 DEF Contract!Next
  <2> QED
    BY <2>2, <2>3
<1>15. CASE CreateFails
  <2>1. PICK w \in InFlight : Write(w)
    BY <1>15 DEF CreateFails
  <2>2. Life = "creating" /\ Life' \in {"paused", "off"}
    BY <1>a, <1>15 DEF CreateFails, Life
  <2> QED
    BY <1>a, <1>15, <2>1, <2>2, WriteFacts, Creating DEF CreateFails
<1>16. CASE SaveVmstate
  <2>1. Life' = Life
    BY <1>a, <1>16 DEF SaveVmstate, Life
  <2>2. /\ snap' = [snap EXCEPT !["vmstate"] = root["vmstate"]]
        /\ root["vmstate"] = taken /\ taken # Absent
    BY <1>a, <1>16, RenameFacts DEF SaveVmstate, CanMove, SavingInv, Files
  <2>3. CASE linked # {}
    <3>1. snap' = snap
      BY <1>a, <1>16, <2>3 DEF SaveVmstate, Rename, Files, TypeOK
    <3> QED
      BY <1>16, <2>1, <3>1, Stutters DEF SaveVmstate
  <2>4. CASE linked = {} /\ Has
    <3>1. snap = Both(taken)
      BY <1>a, <1>d, <1>16, <2>2, <2>4 DEF SaveVmstate, Unmixed
    <3>2. snap' = snap
      BY <2>2, <3>1 DEF Both, Files
    <3> QED
      BY <1>16, <2>1, <3>2, Stutters DEF SaveVmstate
  <2>5. CASE linked = {} /\ ~Has
    <3>1. snap["memory"] = Absent
      BY <1>a, <2>5 DEF FilesInv, Has, Files
    <3>2. snap'["memory"] = Absent
      BY <1>a, <2>2, <3>1 DEF Files, TypeOK
    <3>3. Image = Absent /\ Image' = Absent
      BY <3>1, <3>2 DEF Image, Has, Files
    <3> QED
      BY <1>16, <2>1, <3>3 DEF SaveVmstate, Contract!vars
  <2> QED
    BY <2>3, <2>4, <2>5
<1>17. CASE SaveMemory
  <2>1. Life = "paused" /\ Life' \in {"paused", "off"}
    BY <1>a, <1>17 DEF SaveMemory, Life
  <2>2. /\ snap' = [snap EXCEPT !["memory"] = root["memory"]]
        /\ root["memory"] = taken /\ snap["vmstate"] = taken /\ taken = disk
    BY <1>a, <1>d, <1>17, RenameFacts DEF SaveMemory, CanMove, SavingInv, Files
  <2>3. snap' = Both(disk)
    BY <1>a, <2>2 DEF Both, Files, TypeOK
  <2>4. Image' = disk
    BY <1>a, <2>3, ContentAssumption DEF Image, Has, Both, Files, TypeOK
  <2>5. Contract!Save
    BY <1>17, <2>1, <2>4 DEF SaveMemory, Contract!Save
  <2> QED
    BY <2>5 DEF Contract!Next
<1>18. CASE SaveFails
  <2>1. Life = "paused" /\ Life' \in {"paused", "off"}
    BY <1>a, <1>18 DEF SaveFails, Life
  <2>2. Image' = Absent
    BY <1>18 DEF SaveFails, RemoveDir, Image, Has, Both, Files
  <2>3. Contract!Discard
    BY <1>18, <2>1, <2>2 DEF SaveFails, Contract!Discard
  <2> QED
    BY <2>3 DEF Contract!Next
<1>19. CASE ShutdownOk
  BY <1>19, Ends DEF ShutdownOk, files, Life
<1>20. CASE ShutdownFails
  BY <1>20, Stutters DEF ShutdownFails, files, Life
<1>21. CASE DestroyTask
  <2>1. PICK w \in InFlight : snap' = Through(w)
    BY <1>21 DEF DestroyTask
  <2>2. orphan' = orphan
    BY <1>d, <1>21 DEF DestroyTask
  <2>3. CASE phase = "paused"
    <3>1. Life = "creating" /\ Life' = "creating"
      BY <1>a, <1>21, <2>3 DEF DestroyTask, Life
    <3> QED
      BY <1>a, <1>21, <2>1, <2>2, <3>1, Creating DEF DestroyTask
  <2>4. CASE phase # "paused"
    <3>1. snap' = snap
      BY <1>a, <2>1, <2>4, ThroughFacts
    <3>2. Life' = Life \/ Life' = "off"
      BY <1>a, <1>21, <2>4 DEF DestroyTask, Life
    <3> QED
      BY <1>21, <2>2, <3>1, <3>2, Stutters, Ends DEF DestroyTask
  <2> QED
    BY <2>3, <2>4
<1>22. CASE CrashInStart
  BY <1>d, <1>22 DEF CrashInStart
<1>23. CASE CrashElsewhere
  <2>1. PICK w \in InFlight : Write(w)
    BY <1>23 DEF CrashElsewhere
  <2>2. CASE phase = "paused"
    <3>1. Life = "creating" /\ Life' \in {"paused", "off"}
      BY <1>a, <1>23, <2>2 DEF CrashElsewhere, Life
    <3> QED
      BY <1>a, <1>23, <2>1, <3>1, WriteFacts, Creating DEF CrashElsewhere
  <2>3. CASE phase # "paused"
    <3>1. snap' = snap
      BY <1>a, <2>1, <2>3, ThroughFacts, WriteFacts
    <3>2. Life' = Life \/ Life' = "off" \/ (Life = "on" /\ Life' = "paused")
      BY <1>a, <1>23, <2>3 DEF CrashElsewhere, Life
    <3>3. CASE Life = "on" /\ Life' = "paused"
      BY <1>23, <3>1, <3>3 DEF CrashElsewhere, Contract!Next, Contract!Pause, Image, Has
    <3> QED
      BY <1>23, <3>1, <3>2, <3>3, Stutters, Ends DEF CrashElsewhere
  <2> QED
    BY <2>2, <2>3
<1>24. CASE Recover
  BY <1>24, Stutters DEF Recover, files, Life
<1>25. CASE RecoverFails
  BY <1>a, <1>d, <1>25, Stutters DEF RecoverFails, files, Life, TypeOK
<1>26. CASE MoveChroot
  BY <1>26, Stutters DEF MoveChroot, Life
<1> QED
  BY <1>0, <1>1, <1>2, <1>3, <1>4, <1>5, <1>6, <1>7, <1>8, <1>9, <1>10, <1>11, <1>12, <1>13,
     <1>14, <1>15, <1>16, <1>17, <1>18, <1>19, <1>20, <1>21, <1>22, <1>23, <1>24, <1>25, <1>26
  DEF Next, Boot, SnapshotOnStop

(* The two files are one image, written and removed at once. *)
THEOREM Implements == Spec => ImplementsContract
<1>1. Init => Contract!Init
  BY DEF Init, Contract!Init, Image, Has, Life, Both, Files
<1> QED
  BY <1>1, Invariance, NextContract, PTL DEF Spec, ImplementsContract

===============================================================================
