------------------------------- MODULE TapSetup -------------------------------
(***************************************************************************)
(* SetupTapRedirect of firecracker/network/setup.go: the TAP device of an  *)
(* allocation's network namespace and the redirect filters between it and  *)
(* the veth that Nomad made there.  The namespace (external) outlives the  *)
(* attempts to start the task: each finds what the earlier ones left, also *)
(* those that failed or were cut short by a crash, and a Firecracker that  *)
(* outlived its attempt may still hold the TAP device.                     *)
(***************************************************************************)
EXTENDS Naturals, Sequences, SequencesExt

CONSTANTS
  Addresses,   \* addresses the veth may have
  Gateways,    \* default gateways
  NoGateway,   \* no default gateway
  Veths,       \* what Nomad may have made of the veth: its addresses, those of
               \* IPv6 apart that are link-local, and the default gateways by
               \* routes of the veth (own) and of no device in particular (all)
  MaxFaults    \* bound on the number of environment faults

Family == {"v4", "v6"}

Net == [ip : Addresses, gateway : Gateways \cup {NoGateway}]
Routes == [Family -> Gateways \cup {NoGateway}]

ASSUME TapAssumption ==
  /\ Veths \subseteq [v4 : Seq(Addresses), v6 : Seq(Addresses), local : Seq(Addresses),
                       own : Routes, all : Routes]
  /\ NoGateway \notin Gateways /\ MaxFaults \in Nat

VARIABLES
  veth,      \* the veth
  tap,       \* the TAP device, NoTap when there is none
  nextIndex, \* the index of the next device of the namespace
  ingress,   \* devices with an ingress qdisc
  atVeth,    \* targets of the filters on the veth, the newest, which wins, last
  atTap,     \* targets of the filters on the TAP device
  setup,     \* how far SetupTapRedirect is
  added,     \* did LinkAdd report a new device?
  nets,      \* guestNets: what it read from the veth
  unrouted,  \* families whose routes could not be listed
  faults,    \* faults so far
  left       \* Firecracker processes left behind: the attempt that launched each
             \* and the index of the TAP device it has open, 0 for none

namespace == <<tap, nextIndex, ingress, atVeth, atTap>>
call == <<setup, added, nets, unrouted>>
tapVars == <<veth, namespace, call, faults, left>>

LeftBehind == [attempt : Nat, tap : Nat]

VethIndex == 1
NoTap == [index |-> 0, mtu |-> FALSE, up |-> FALSE]

TapTypeOK ==
  /\ veth \in Veths
  /\ tap \in [index : Nat, mtu : BOOLEAN, up : BOOLEAN]
  /\ nextIndex \in Nat
  /\ ingress \subseteq {"veth", "tap"}
  /\ atVeth \in Seq(Nat) /\ atTap \in Seq(Nat)
  /\ setup \in {"off", "read", "add", "mtu", "up", "fetch", "qdiscVeth", "qdiscTap",
                "filterVeth", "filterTap", "done", "failed"}
  /\ added \in BOOLEAN
  /\ nets \in Seq(Net)
  /\ unrouted \subseteq Family
  /\ faults \in Nat
  /\ left \subseteq LeftBehind

TapInit ==
  /\ veth \in Veths
  /\ tap = NoTap /\ nextIndex = VethIndex + 1
  /\ ingress = {} /\ atVeth = <<>> /\ atTap = <<>>
  /\ setup = "off" /\ added = FALSE /\ nets = <<>> /\ unrouted = {}
  /\ faults = 0 /\ left = {}

Fault == faults < MaxFaults /\ faults' = faults + 1

-------------------------------------------------------------------------------
(* Reading the veth.                                                       *)

(* Mutant: the gateway of a default route that has none is formatted.       *)
FindGatewayNil(f) ==
  CASE veth.own[f] # NoGateway -> veth.own[f]
    [] veth.own[f] = NoGateway /\ veth.all[f] # NoGateway -> veth.all[f]
    [] OTHER -> "<nil>"

(* A default route of the veth, else one of no device in particular. *)
FindGateway(f) == IF veth.own[f] # NoGateway THEN veth.own[f] ELSE veth.all[f]

Configs(addrs, gateway) == [i \in DOMAIN addrs |-> [ip |-> addrs[i], gateway |-> gateway]]

(* Mutant: the gateway of the first family is used for both. *)
ConfigsOneGateway(lost) ==
  LET gateway == IF lost = {} THEN FindGateway("v4") ELSE NoGateway
  IN Configs(veth.v4, gateway) \o Configs(veth.v6, gateway)

(* The IPv4 addresses, then the IPv6 ones that are not link-local.  An      *)
(* error in listing the routes of a family is taken for no gateway.         *)
ReadVethConfigs(lost) ==
  LET Gateway(f) == IF f \in lost THEN NoGateway ELSE FindGateway(f)
  IN Configs(veth.v4, Gateway("v4")) \o Configs(veth.v6, Gateway("v6"))

Usable == veth.v4 # <<>> \/ veth.v6 # <<>>

(* findVeth and readVethConfigs, which fail before anything is changed. *)
ReadVeth ==
  /\ setup = "read"
  /\ Usable
  /\ unrouted' \in SUBSET Family
  /\ IF unrouted' = {} THEN UNCHANGED faults ELSE Fault
  /\ nets' = ReadVethConfigs(unrouted')
  /\ setup' = "add"
  /\ UNCHANGED <<veth, namespace, added>>

ReadVethFails ==
  /\ setup = "read"
  /\ IF Usable THEN Fault ELSE UNCHANGED faults
  /\ setup' = "failed"
  /\ UNCHANGED <<veth, namespace, added, nets, unrouted>>

-------------------------------------------------------------------------------
(* createTap.                                                              *)

(* Deleting a device takes its qdisc and its filters with it; the filters   *)
(* that point to it stay.  The error of LinkDel is dropped.                 *)
LinkDel ==
  \/ /\ tap' = NoTap /\ atTap' = <<>> /\ ingress' = ingress \ {"tap"}
     /\ UNCHANGED <<nextIndex, atVeth>>
  \/ UNCHANGED namespace

(* The device has one queue, and a process that was left behind has it open.*)
Held == tap # NoTap /\ \E v \in left : v.tap = tap.index

(* For a device that exists the kernel reports EEXIST, or attaches to it    *)
(* and reports success, or refuses (CreateTapFails) if it is held.          *)
LinkAdd ==
  /\ setup = "add"
  /\ IF tap = NoTap
       THEN /\ tap' = [NoTap EXCEPT !.index = nextIndex]
            /\ nextIndex' = nextIndex + 1
            /\ added' = TRUE
       ELSE UNCHANGED <<tap, nextIndex>> /\ added' \in {FALSE, ~Held}
  /\ setup' = "mtu"
  /\ UNCHANGED <<veth, ingress, atVeth, atTap, nets, unrouted, faults>>

LinkSetMTU ==
  /\ setup = "mtu"
  /\ tap' = [tap EXCEPT !.mtu = TRUE]
  /\ setup' = "up"
  /\ UNCHANGED <<veth, nextIndex, ingress, atVeth, atTap, added, nets, unrouted, faults>>

LinkSetUp ==
  /\ setup = "up"
  /\ tap' = [tap EXCEPT !.up = TRUE]
  /\ setup' = IF added THEN "fetch" ELSE "qdiscVeth"
  /\ UNCHANGED <<veth, nextIndex, ingress, atVeth, atTap, added, nets, unrouted, faults>>

LinkByName ==
  /\ setup = "fetch"
  /\ setup' = "qdiscVeth"
  /\ UNCHANGED <<veth, namespace, added, nets, unrouted, faults>>

(* A device that is held is refused with EBUSY.  Only one that LinkAdd      *)
(* reported as new is deleted, and not when it cannot be looked up.         *)
CreateTapFails ==
  /\ setup \in {"add", "mtu", "up", "fetch"}
  /\ IF setup = "add" /\ Held THEN UNCHANGED faults ELSE Fault
  /\ IF added /\ setup \in {"mtu", "up"} THEN LinkDel ELSE UNCHANGED namespace
  /\ setup' = "failed"
  /\ UNCHANGED <<veth, added, nets, unrouted>>

-------------------------------------------------------------------------------
(* addRedirects.                                                           *)

(* A qdisc that exists already is no error. *)
QdiscAdd ==
  /\ \/ setup = "qdiscVeth" /\ ingress' = ingress \cup {"veth"} /\ setup' = "qdiscTap"
     \/ setup = "qdiscTap" /\ ingress' = ingress \cup {"tap"} /\ setup' = "filterVeth"
  /\ UNCHANGED <<veth, tap, nextIndex, atVeth, atTap, added, nets, unrouted, faults>>

(* Mutant: a veth that has a filter is taken to have the right one. *)
FilterAddVethOnce ==
  /\ setup = "filterVeth"
  /\ atVeth' = IF atVeth = <<>> THEN <<tap.index>> ELSE atVeth
  /\ setup' = "filterTap"
  /\ UNCHANGED <<veth, tap, nextIndex, ingress, atTap, added, nets, unrouted, faults>>

(* The filter has neither handle nor priority: the kernel makes a new one,  *)
(* with a preference above that of every older one, and never finds it to   *)
(* exist already.                                                           *)
FilterAddVeth ==
  /\ setup = "filterVeth"
  /\ atVeth' = Append(atVeth, tap.index)
  /\ setup' = "filterTap"
  /\ UNCHANGED <<veth, tap, nextIndex, ingress, atTap, added, nets, unrouted, faults>>

FilterAddTap ==
  /\ setup = "filterTap"
  /\ atTap' = Append(atTap, VethIndex)
  /\ setup' = "done"
  /\ UNCHANGED <<veth, tap, nextIndex, ingress, atVeth, added, nets, unrouted, faults>>

(* The TAP device is deleted, be it new or reused. *)
AddRedirectsFails ==
  /\ setup \in {"qdiscVeth", "qdiscTap", "filterVeth", "filterTap"}
  /\ Fault
  /\ LinkDel
  /\ setup' = "failed"
  /\ UNCHANGED <<veth, added, nets, unrouted>>

-------------------------------------------------------------------------------
SetupTapRedirect ==
  /\ \/ ReadVeth \/ ReadVethFails
     \/ LinkAdd \/ LinkSetMTU \/ LinkSetUp \/ LinkByName \/ CreateTapFails
     \/ QdiscAdd \/ FilterAddVeth \/ FilterAddTap \/ AddRedirectsFails
  /\ UNCHANGED left

(* Traffic flows both ways: the device is up with the MTU of the veth, and  *)
(* of the filters on each side the one that wins leads to the other.        *)
Carries ==
  /\ tap # NoTap /\ tap.up /\ tap.mtu
  /\ ingress = {"veth", "tap"}
  /\ atVeth # <<>> /\ atVeth[Len(atVeth)] = tap.index
  /\ atTap # <<>> /\ atTap[Len(atTap)] = VethIndex

===============================================================================
