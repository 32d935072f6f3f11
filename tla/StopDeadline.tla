----------------------------- MODULE StopDeadline -----------------------------
(***************************************************************************)
(* One StopTask in time: its timeout is one budget that the graceful part  *)
(* (vsock signal, Ctrl+Alt+Del and polling, or a snapshot) spends from and *)
(* of which exec.Shutdown gets the rest.  Time is counted in ticks from    *)
(* the call.  It cannot pass the end of a wait that has one, but for what  *)
(* has no limit: moving the files of a snapshot, the way to the executor   *)
(* and back, a handler that is not scheduled.  These ticks are counted as  *)
(* lost.                                                                   *)
(*                                                                         *)
(* The executor (external) is as in TaskLifecycle: up; broken, when every  *)
(* call returns an error; wedged, when none returns; or gone, when calls   *)
(* fail and the plugin sees that it has exited.                            *)
(***************************************************************************)
EXTENDS Naturals

CONSTANTS
  Timeout,   \* the timeout of the StopTask, in ticks
  MaxLate    \* bound on the ticks lost

ASSUME ClockAssumption == Timeout \in Nat /\ MaxLate \in Nat

VARIABLES
  clock,    \* ticks since StopTask was called
  lost,     \* those of them that no wait of StopTask has asked for
  phase,    \* where StopTask is
  until,    \* when the wait in progress ends, whatever it waits for
  socket,   \* does the handle know the API socket?
  snapshot, \* is snapshot_on_stop set?
  agent,    \* how the guest agent takes a signal, "none" without guest_api
  api,      \* how Firecracker takes Ctrl+Alt+Del
  executor, \* the executor process
  vm,       \* the VM process
  status,   \* procState of the handle
  result,   \* what StopTask returned, "none" before it has
  told,     \* has the guest been asked to shut down?
  vsock,    \* what became of the vsock signal
  cad       \* was Ctrl+Alt+Del sent?

setting == <<socket, snapshot, agent, api>>
asked == <<told, vsock, cad>>
time == <<clock, lost, until>>
host == <<executor, vm, status>>
vars == <<time, phase, setting, host, result, asked>>

TypeOK ==
  /\ clock \in Nat /\ lost \in 0..MaxLate
  /\ phase \in {"called", "vsock", "cad", "poll", "snapshot", "kill", "grace", "returned"}
  /\ until \in Nat /\ until <= Timeout + lost
  /\ socket \in BOOLEAN /\ snapshot \in BOOLEAN
  /\ agent \in {"none", "accepts", "refuses", "hangs"}
  /\ api \in {"accepts", "refuses", "hangs"}
  /\ executor \in {"up", "broken", "wedged", "gone"}
  /\ vm \in {"alive", "dead"}
  /\ status \in {"running", "exited", "unknown"}
  /\ result \in {"none", "ok", "failed"}
  /\ told \in BOOLEAN /\ vsock \in {"unsent", "sent", "failed"} /\ cad \in BOOLEAN

Init ==
  /\ clock = 0 /\ lost = 0 /\ phase = "called" /\ until = 0
  /\ socket \in BOOLEAN /\ snapshot \in BOOLEAN
  /\ agent \in {"none", "accepts", "refuses", "hangs"}
  /\ api \in {"accepts", "refuses", "hangs"}
  /\ executor \in {"up", "broken", "wedged", "gone"}
  /\ vm = "alive" /\ status = "running" /\ result = "none"
  /\ told = FALSE /\ vsock = "unsent" /\ cad = FALSE

(* deadline := time.Now().Add(timeout), of which time.Until leaves the rest. *)
Deadline == Timeout

(* Mutant: every part is given the whole timeout. *)
RemainingAll == Timeout

(* Nothing is left once the deadline has passed. *)
Remaining == IF clock < Deadline THEN Deadline - clock ELSE 0

Waiting == phase \in {"vsock", "cad", "poll", "snapshot", "grace"}

Expired == clock >= until

-------------------------------------------------------------------------------
(* The way StopTask takes.                                                 *)

StopTask ==
  /\ phase = "called"
  /\ phase' = CASE ~socket -> "kill"
                [] socket /\ snapshot -> "snapshot"
                [] socket /\ ~snapshot /\ agent # "none" -> "vsock"
                [] OTHER -> "cad"
  /\ until' = clock + Remaining
  /\ cad' = (phase' = "cad" /\ Remaining > 0)
  /\ UNCHANGED <<clock, lost, setting, host, result, told, vsock>>

(* Pause and CreateSnapshot end, well or not, before their context does;    *)
(* Save, if they went well, takes the time it takes.                        *)
SnapshotOnStop ==
  /\ phase = "snapshot"
  /\ phase' = "kill"
  /\ UNCHANGED <<time, setting, host, result, asked>>

(* Tier 1: the agent takes SIGTERM over vsock. *)
VsockSignal ==
  /\ phase = "vsock"
  /\ ~Expired /\ agent = "accepts" /\ vm = "alive"
  /\ told' = TRUE /\ vsock' = "sent"
  /\ phase' = "poll"
  /\ UNCHANGED <<time, setting, host, result, cad>>

(* Mutant: the vsock handshake has no deadline. *)
VsockHangs ==
  /\ phase = "vsock"
  /\ agent = "refuses" \/ vm = "dead"
  /\ vsock' = "failed" /\ cad' = ~Expired
  /\ phase' = "cad"
  /\ UNCHANGED <<time, setting, host, result, told>>

(* Mutant: a signal that was refused is sent again. *)
VsockRetries ==
  /\ phase = "vsock"
  /\ agent = "refuses" \/ vm = "dead" \/ Expired
  /\ vsock' = "failed" /\ UNCHANGED cad
  /\ phase' = IF Expired THEN "cad" ELSE "vsock"
  /\ UNCHANGED <<time, setting, host, result, told>>

(* It refuses, the connection breaks, or the context ends: tier 2 is next,  *)
(* which sends nothing under a context that has ended.                      *)
VsockFails ==
  /\ phase = "vsock"
  /\ agent = "refuses" \/ vm = "dead" \/ Expired
  /\ vsock' = "failed" /\ cad' = ~Expired
  /\ phase' = "cad"
  /\ UNCHANGED <<time, setting, host, result, told>>

(* Tier 2, under the context of tier 1. *)
CtrlAltDel ==
  /\ phase = "cad"
  /\ ~Expired /\ api = "accepts" /\ vm = "alive"
  /\ told' = TRUE
  /\ phase' = "poll"
  /\ UNCHANGED <<time, setting, host, result, vsock, cad>>

CtrlAltDelFails ==
  /\ phase = "cad"
  /\ api = "refuses" \/ vm = "dead" \/ Expired
  /\ phase' = "kill"
  /\ UNCHANGED <<time, setting, host, result, asked>>

(* Mutant: the status is looked at once. *)
PollOnce ==
  /\ phase = "poll"
  /\ phase' = "kill"
  /\ UNCHANGED <<time, setting, host, result, asked>>

(* Every tick the status is looked at. *)
PollEnds ==
  /\ phase = "poll"
  /\ status # "running" \/ Expired
  /\ phase' = "kill"
  /\ UNCHANGED <<time, setting, host, result, asked>>

-------------------------------------------------------------------------------
(* exec.Shutdown: a signal and a grace period, or a kill at once.  Its      *)
(* error is returned, unless the executor has exited.                       *)

Returns(r) == phase' = "returned" /\ result' = r

(* Mutant: every error is forgiven, as if the executor had exited. *)
ErrorForgiven == executor \in {"broken", "gone"} /\ Returns("ok")

Error ==
  \/ executor = "broken" /\ Returns("failed")
  \/ executor = "gone" /\ Returns("ok")

Shutdown ==
  /\ phase = "kill"
  /\ \/ /\ executor = "up" /\ Remaining = 0
        /\ vm' = "dead" /\ Returns("ok")
        /\ UNCHANGED until
     \/ /\ executor = "up" /\ Remaining > 0
        /\ until' = clock + Remaining /\ phase' = "grace"
        /\ UNCHANGED <<vm, result>>
     \/ Error /\ UNCHANGED <<until, vm>>
  /\ UNCHANGED <<clock, lost, setting, executor, status, asked>>

(* The VMM ends in time, or it is killed; or the executor fails meanwhile. *)
GraceEnds ==
  /\ phase = "grace"
  /\ \/ /\ executor = "up"
        /\ vm = "dead" \/ Expired
        /\ vm' = "dead" /\ Returns("ok")
     \/ Error /\ UNCHANGED vm
  /\ UNCHANGED <<time, setting, executor, status, asked>>

-------------------------------------------------------------------------------
(* The rest of the world.                                                  *)

(* The guest shuts down, asked or not, or Firecracker ends on the signal. *)
VmExits ==
  /\ vm = "alive"
  /\ vm' = "dead"
  /\ UNCHANGED <<time, phase, setting, executor, status, result, asked>>

(* The executor fails; one that is wedged may be killed from outside. *)
ExecutorFails ==
  /\ phase # "returned"
  /\ \/ executor = "up" /\ executor' \in {"broken", "wedged", "gone"}
     \/ executor = "wedged" /\ executor' = "gone"
  /\ UNCHANGED <<time, phase, setting, vm, status, result, asked>>

(* run(): Wait returns with the exit, or with an error. *)
RunRecords ==
  /\ status = "running"
  /\ \/ vm = "dead" /\ executor = "up" /\ status' = "exited"
     \/ executor # "wedged" /\ status' = "unknown"
  /\ UNCHANGED <<time, phase, setting, executor, vm, result, asked>>

(* Time passes where StopTask waits and its wait has not ended. *)
Tick ==
  /\ Waiting /\ ~Expired
  /\ clock' = clock + 1
  /\ UNCHANGED <<lost, until, phase, setting, host, result, asked>>

(* StopTask takes time that no wait of it accounts for.  Where a wait was   *)
(* given a length, not an end, it may have begun that much later.           *)
Delay ==
  /\ phase # "returned" /\ lost < MaxLate
  /\ clock' = clock + 1 /\ lost' = lost + 1
  /\ \/ UNCHANGED until
     \/ phase \in {"snapshot", "grace"} /\ until' = until + 1
  /\ UNCHANGED <<phase, setting, host, result, asked>>

Tier == VsockSignal \/ VsockFails \/ CtrlAltDel \/ CtrlAltDelFails

Next ==
  \/ StopTask \/ SnapshotOnStop \/ Tier \/ PollEnds \/ Shutdown \/ GraceEnds
  \/ VmExits \/ ExecutorFails \/ RunRecords \/ Tick \/ Delay

(* Every wait but the one for the executor ends at its deadline, as time    *)
(* goes on; a rename of a file ends.  Nothing ends a call that hangs on an  *)
(* executor that is wedged.                                                 *)
Spec ==
  /\ Init /\ [][Next]_vars
  /\ WF_vars(StopTask) /\ WF_vars(SnapshotOnStop) /\ WF_vars(Tier)
  /\ WF_vars(PollEnds) /\ WF_vars(Shutdown) /\ WF_vars(GraceEnds) /\ WF_vars(Tick)

-------------------------------------------------------------------------------
(* Properties.                                                             *)

(* The timeout is one overall deadline: however the parts of StopTask hang, *)
(* their waits never add up to more than it, so StopTask is late only by    *)
(* what is done outside of any wait.                                        *)
StopInTime == clock <= Timeout + lost

(* A StopTask that returned no error leaves no VM, be it killed at once, at *)
(* the end of its grace period, or gone before: only the error of an        *)
(* executor that has exited is forgiven, with a VM that may live on.        *)
SuccessIsDeath == result = "ok" => vm = "dead" \/ executor = "gone"

(* A guest that was asked to shut down is neither signalled nor killed from *)
(* the host before the timeout, as long as its status can be told.          *)
AskedGuestHasBudget ==
  told /\ vm = "alive" /\ phase \in {"kill", "grace"} => clock >= Timeout \/ status = "unknown"

(* StopTask returns, whatever the agent, Firecracker and the guest do, and  *)
(* when the executor fails or hangs and is then killed.  It does not return *)
(* from exec.Shutdown of an executor that is wedged for ever.               *)
StopReturns == <>(phase = "returned") \/ <>[](executor = "wedged")

(* The steps and the ticks that StopTask may still take, at the most, with  *)
(* the end of the VM, the record of it and the failures of the executor.    *)
StepsLeft ==
  LET ahead == [called |-> 6, vsock |-> 5, cad |-> 4, snapshot |-> 4, poll |-> 3,
                kill |-> 2, grace |-> 1, returned |-> 0]
      failures == [up |-> 2, wedged |-> 1, broken |-> 0, gone |-> 0]
  IN ahead[phase] + failures[executor]
     + (IF vm = "alive" THEN 1 ELSE 0) + (IF status = "running" THEN 1 ELSE 0)
     + (Timeout + MaxLate - clock)

(* No tier is tried again and no wait is renewed: whatever hangs, and when- *)
(* ever the guest dies, every step brings the return of StopTask nearer.    *)
NeverBack == [][StepsLeft' < StepsLeft]_vars

(* docs/signals.md: StopTask attempts vsock SIGTERM, then Ctrl+Alt+Del: a   *)
(* guest the agent could not reach is sent the latter before it is killed.  *)
FallbackTried ==
  vsock = "failed" /\ vm = "alive" /\ phase \in {"kill", "grace"} => cad

-------------------------------------------------------------------------------
(* The inductive invariant behind the safety properties.                   *)

(* Every wait of StopTask ends at the one deadline, or as much later as it  *)
(* began too late.                                                          *)
OneDeadline ==
  /\ phase = "called" => clock = lost
  /\ Waiting => until >= Timeout

(* Only a guest that took the request is waited for, and only until its     *)
(* status, which never says "exited" of a VM that lives, or the deadline.   *)
AskedInv ==
  /\ told => phase \in {"poll", "kill", "grace", "returned"}
  /\ status = "exited" => vm = "dead"
  /\ result # "none" <=> phase = "returned"

IInv ==
  TypeOK /\ StopInTime /\ SuccessIsDeath /\ AskedGuestHasBudget /\ OneDeadline /\ AskedInv

===============================================================================
