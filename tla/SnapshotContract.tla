--------------------------- MODULE SnapshotContract ---------------------------
(***************************************************************************)
(* What snapshot-on-stop promises of a task in one allocation: its two     *)
(* files are one image, written at once, of a VM that does not run; a      *)
(* start resumes the image if there is one and boots cold if there is      *)
(* none.  Only a snapshot that is cut short over an older one may damage   *)
(* it.  A fault that leaves a VM nobody has a handle of voids the promise. *)
(***************************************************************************)
EXTENDS Naturals

CONSTANTS
  None,     \* no image
  Damaged   \* an image that is not of one moment

VARIABLES
  disk,    \* moment of the guest's disk
  image,   \* the moment the snapshot is of
  life,    \* of the VM: off, on, paused for good, or paused with a
           \* CreateSnapshot in flight
  lost     \* is there a VM the driver has lost sight of?

vars == <<disk, image, life, lost>>

Init == disk = 0 /\ image = None /\ life = "off" /\ lost = FALSE

GuestWrites ==
  /\ life = "on"
  /\ disk' = disk + 1
  /\ UNCHANGED <<image, life, lost>>

Pause ==
  /\ life = "on"
  /\ life' = "paused"
  /\ UNCHANGED <<disk, image, lost>>

Create ==
  /\ life \in {"on", "paused"}
  /\ life' = "creating"
  /\ UNCHANGED <<disk, image, lost>>

(* The image of a VM that is paused, at once when the files of an older one *)
(* are written over, else after them.                                       *)
Save ==
  /\ life \in {"creating", "paused"}
  /\ image' = disk
  /\ life' \in {life, "paused", "off"}
  /\ UNCHANGED <<disk, lost>>

(* A CreateSnapshot that fails leaves the image, or damages it. *)
CutShort ==
  /\ life = "creating"
  /\ \/ image' = image
     \/ image # None /\ image' = Damaged
  /\ life' \in {"creating", "paused", "off"}
  /\ UNCHANGED <<disk, lost>>

(* The snapshot of a VM that runs, or is being written, is never removed. *)
Discard ==
  /\ life \in {"paused", "off"}
  /\ image' = None
  /\ life' \in {life, "off"}
  /\ UNCHANGED <<disk, lost>>

Resume ==
  /\ life = "off"
  /\ image # None
  /\ life' = "on"
  /\ UNCHANGED <<disk, image, lost>>

BootCold ==
  /\ life = "off"
  /\ image = None
  /\ life' = "on"
  /\ UNCHANGED <<disk, image, lost>>

End == life' = "off" /\ UNCHANGED <<disk, image, lost>>

(* Nothing is promised any more. *)
Lose == lost' = TRUE

Next ==
  \/ GuestWrites \/ Pause \/ Create \/ Save \/ CutShort \/ Discard
  \/ Resume \/ BootCold \/ End \/ Lose

Spec == Init /\ [][Next]_vars

===============================================================================
