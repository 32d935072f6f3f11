---------------------------- MODULE TaskLifecycle ----------------------------
(***************************************************************************)
(* The task store, the StartTask, StopTask, DestroyTask, WaitTask and      *)
(* RecoverTask handlers of firecracker/driver.go and the run() goroutine   *)
(* of firecracker/handle.go, over the successive invocations of one task.  *)
(*                                                                         *)
(* Every invocation has a task ID of its own but shares the chroot path    *)
(* (jailerID).  Nomad (external) starts an invocation when the previous    *)
(* one is over and no StopTask of it is outstanding, and calls StopTask    *)
(* and WaitTask concurrently; it ends an invocation with a forced          *)
(* DestroyTask, or gives it up when it cannot be recovered.                *)
(*                                                                         *)
(* No call on an executor has a time limit.  An executor that fails is     *)
(* broken (every call returns an error), gone (as broken, and the plugin   *)
(* sees that it has exited) or wedged: a call neither fails nor returns,   *)
(* and whoever makes it stays where it is until the executor is gone.      *)
(***************************************************************************)
EXTENDS Naturals, FiniteSets

CONSTANTS
  Task,       \* invocations
  None,       \* no invocation
  MaxFaults   \* bound on the number of environment faults

ASSUME TaskAssumption == None \notin Task
ASSUME FaultsAssumption == MaxFaults \in Nat

VARIABLES
  store,    \* d.tasks: the procState of each handle, or absent
  start,    \* how far StartTask is
  run,      \* run(): waiting, or what Wait returned and it has yet to record
  stop,     \* how far StopTask is, or what it returned
  destroy,  \* has DestroyTask killed, and has it deleted the handle?
  wait,     \* is a WaitTask outstanding?
  vm,       \* the VM of the invocation
  exec,     \* the executor process of the invocation
  chroot,   \* whose tree is at the chroot path
  nomad,    \* Nomad's view of the invocation
  faults,   \* faults so far
  excused   \* invocations a fault made the driver lose

driverVars == <<store, start, run, stop, destroy, wait>>
hostVars == <<vm, exec, chroot>>
vars == <<driverVars, hostVars, nomad, faults, excused>>

TypeOK ==
  /\ store \in [Task -> {"absent", "running", "exited", "unknown"}]
  /\ start \in [Task -> {"idle", "prepared", "executor", "launched"}]
  /\ run \in [Task -> {"off", "waiting", "exit", "error"}]
  /\ stop \in [Task -> {"off", "graceful", "shutdown", "ok", "failed"}]
  /\ destroy \in [Task -> {"off", "killed", "deleted"}]
  /\ wait \in [Task -> BOOLEAN]
  /\ vm \in [Task -> {"none", "alive", "dead"}]
  /\ exec \in [Task -> {"none", "up", "broken", "wedged", "gone"}]
  /\ chroot \in Task \cup {None}
  /\ nomad \in [Task -> {"new", "starting", "live", "lost", "exited", "errored", "over"}]
  /\ faults \in Nat
  /\ excused \subseteq Task

Init ==
  /\ store = [t \in Task |-> "absent"]
  /\ start = [t \in Task |-> "idle"]
  /\ run = [t \in Task |-> "off"]
  /\ stop = [t \in Task |-> "off"]
  /\ destroy = [t \in Task |-> "off"]
  /\ wait = [t \in Task |-> FALSE]
  /\ vm = [t \in Task |-> "none"]
  /\ exec = [t \in Task |-> "none"]
  /\ chroot = None
  /\ nomad = [t \in Task |-> "new"]
  /\ faults = 0
  /\ excused = {}

Fault == faults < MaxFaults /\ faults' = faults + 1

Stopping(t) == stop[t] \in {"graceful", "shutdown"}

(* exec.Shutdown("", 0), which needs an executor that answers, and          *)
(* pluginClient.Kill.                                                       *)
Kill(t) ==
  /\ vm' = [vm EXCEPT ![t] = IF exec[t] = "up" /\ @ = "alive" THEN "dead" ELSE @]
  /\ exec' = [exec EXCEPT ![t] = IF @ = "none" THEN @ ELSE "gone"]

-------------------------------------------------------------------------------
(* StartTask.                                                              *)

(* The ID is unknown; the chroot is removed and built anew. *)
BeginStart(t) ==
  /\ nomad[t] = "new"
  /\ \A u \in Task : nomad[u] \in {"new", "over"} /\ ~Stopping(u)
  /\ store[t] = "absent"
  /\ chroot' = t
  /\ start' = [start EXCEPT ![t] = "prepared"]
  /\ nomad' = [nomad EXCEPT ![t] = "starting"]
  /\ UNCHANGED <<store, run, stop, destroy, wait, vm, exec, faults, excused>>

CreateExecutor(t) ==
  /\ start[t] = "prepared"
  /\ exec' = [exec EXCEPT ![t] = "up"]
  /\ start' = [start EXCEPT ![t] = "executor"]
  /\ UNCHANGED <<store, run, stop, destroy, wait, vm, chroot, nomad, faults, excused>>

Launch(t) ==
  /\ start[t] = "executor"
  /\ exec[t] = "up"
  /\ vm' = [vm EXCEPT ![t] = "alive"]
  /\ start' = [start EXCEPT ![t] = "launched"]
  /\ UNCHANGED <<store, run, stop, destroy, wait, exec, chroot, nomad, faults, excused>>

(* The VM is booted through the API, the handle stored, run() started. *)
StartReturns(t) ==
  /\ start[t] = "launched"
  /\ start' = [start EXCEPT ![t] = "idle"]
  /\ store' = [store EXCEPT ![t] = "running"]
  /\ run' = [run EXCEPT ![t] = "waiting"]
  /\ nomad' = [nomad EXCEPT ![t] = "live"]
  /\ UNCHANGED <<stop, destroy, wait, hostVars, faults, excused>>

(* Mutant: the deferred cleanup sees no error and only the chroot goes. *)
StartFailsShadowed(t) ==
  /\ start[t] # "idle" /\ exec[t] # "wedged"
  /\ IF vm[t] = "dead" \/ exec[t] \in {"broken", "gone"} THEN UNCHANGED faults ELSE Fault
  /\ chroot' = None
  /\ start' = [start EXCEPT ![t] = "idle"]
  /\ nomad' = [nomad EXCEPT ![t] = "over"]
  /\ UNCHANGED <<store, run, stop, destroy, wait, vm, exec, excused>>

(* A step fails.  The deferred cleanup kills through the executor, ignoring *)
(* errors, and removes the chroot; under a wedged executor it never ends.   *)
StartFails(t) ==
  /\ start[t] # "idle" /\ exec[t] # "wedged"
  /\ IF vm[t] = "dead" \/ exec[t] \in {"broken", "gone"} THEN UNCHANGED faults ELSE Fault
  /\ Kill(t)
  /\ chroot' = None
  /\ start' = [start EXCEPT ![t] = "idle"]
  /\ nomad' = [nomad EXCEPT ![t] = "over"]
  /\ UNCHANGED <<store, run, stop, destroy, wait, excused>>

-------------------------------------------------------------------------------
(* The run() goroutine: Wait returns, then the handle is updated.          *)

WaitReturns(t) ==
  /\ run[t] = "waiting" /\ exec[t] # "wedged"
  /\ \/ /\ vm[t] = "dead" /\ exec[t] = "up"
        /\ run' = [run EXCEPT ![t] = "exit"]
        /\ UNCHANGED faults
     \/ /\ IF exec[t] = "up" THEN Fault ELSE UNCHANGED faults
        /\ run' = [run EXCEPT ![t] = "error"]
  /\ UNCHANGED <<store, start, stop, destroy, wait, hostVars, nomad, excused>>

(* Mutant: the goroutine puts what Wait returned into procState. *)
RunRecordsRaw(t) ==
  /\ run[t] \in {"exit", "error"}
  /\ store' = [store EXCEPT ![t] = IF @ = "absent" THEN @ ELSE run[t]]
  /\ run' = [run EXCEPT ![t] = "off"]
  /\ UNCHANGED <<start, stop, destroy, wait, hostVars, nomad, faults, excused>>

(* Mutant: no return after the error branch. *)
RunRecordsFallsThrough(t) ==
  /\ run[t] \in {"exit", "error"}
  /\ store' = [store EXCEPT ![t] = IF @ = "absent" THEN @ ELSE "exited"]
  /\ run' = [run EXCEPT ![t] = "off"]
  /\ UNCHANGED <<start, stop, destroy, wait, hostVars, nomad, faults, excused>>

(* Mutant: the goroutine stores its handle again. *)
RunRecordsStores(t) ==
  /\ run[t] \in {"exit", "error"}
  /\ store' = [store EXCEPT ![t] = IF run[t] = "exit" THEN "exited" ELSE "unknown"]
  /\ run' = [run EXCEPT ![t] = "off"]
  /\ UNCHANGED <<start, stop, destroy, wait, hostVars, nomad, faults, excused>>

(* The goroutine holds the handle, which may have left the store. *)
RunRecords(t) ==
  /\ run[t] \in {"exit", "error"}
  /\ store' = [store EXCEPT ![t] =
                 IF @ = "absent" THEN @
                 ELSE IF run[t] = "exit" THEN "exited" ELSE "unknown"]
  /\ run' = [run EXCEPT ![t] = "off"]
  /\ UNCHANGED <<start, stop, destroy, wait, hostVars, nomad, faults, excused>>

-------------------------------------------------------------------------------
(* WaitTask: handleWait answers with what its own Wait returned.           *)

(* Mutant: WaitTask of a handle that is no longer running blocks. *)
WaitTaskRunning(t) ==
  /\ nomad[t] = "live" /\ ~wait[t]
  /\ store[t] = "running"
  /\ wait' = [wait EXCEPT ![t] = TRUE]
  /\ UNCHANGED <<store, start, run, stop, destroy, hostVars, nomad, faults, excused>>

WaitTask(t) ==
  /\ nomad[t] = "live" /\ ~wait[t]
  /\ store[t] # "absent"
  /\ wait' = [wait EXCEPT ![t] = TRUE]
  /\ UNCHANGED <<store, start, run, stop, destroy, hostVars, nomad, faults, excused>>

(* Mutant: an error of the executor is answered as an exit. *)
WaitAnswersExit(t) ==
  /\ wait[t] /\ nomad[t] = "live" /\ exec[t] # "wedged"
  /\ IF exec[t] = "up" /\ vm[t] # "dead" THEN Fault ELSE UNCHANGED faults
  /\ nomad' = [nomad EXCEPT ![t] = "exited"]
  /\ wait' = [wait EXCEPT ![t] = FALSE]
  /\ UNCHANGED <<store, start, run, stop, destroy, hostVars, excused>>

WaitAnswers(t) ==
  /\ wait[t] /\ nomad[t] = "live" /\ exec[t] # "wedged"
  /\ \/ /\ vm[t] = "dead" /\ exec[t] = "up"
        /\ nomad' = [nomad EXCEPT ![t] = "exited"]
        /\ UNCHANGED faults
     \/ /\ IF exec[t] = "up" THEN Fault ELSE UNCHANGED faults
        /\ nomad' = [nomad EXCEPT ![t] = "errored"]
  /\ wait' = [wait EXCEPT ![t] = FALSE]
  /\ UNCHANGED <<store, start, run, stop, destroy, hostVars, excused>>

-------------------------------------------------------------------------------
(* StopTask: the graceful part, during which the VM may exit, then         *)
(* exec.Shutdown, whose error is forgiven when the executor has exited.    *)
(* How long the parts take is the business of StopDeadline.                *)

StopTask(t) ==
  /\ nomad[t] = "live"
  /\ ~Stopping(t)
  /\ store[t] # "absent"
  /\ stop' = [stop EXCEPT ![t] = "graceful"]
  /\ UNCHANGED <<store, start, run, destroy, wait, hostVars, nomad, faults, excused>>

GracefulEnds(t) ==
  /\ stop[t] = "graceful"
  /\ stop' = [stop EXCEPT ![t] = "shutdown"]
  /\ UNCHANGED <<store, start, run, destroy, wait, hostVars, nomad, faults, excused>>

(* Mutant: a graceful stop that found an executor skips the kill. *)
StopShutdownTrusts(t) ==
  /\ stop[t] = "shutdown"
  /\ stop' = [stop EXCEPT ![t] = "ok"]
  /\ UNCHANGED <<store, start, run, destroy, wait, hostVars, nomad, faults, excused>>

StopShutdown(t) ==
  /\ stop[t] = "shutdown" /\ exec[t] # "wedged"
  /\ vm' = [vm EXCEPT ![t] = IF exec[t] = "up" THEN "dead" ELSE @]
  /\ stop' = [stop EXCEPT ![t] = IF exec[t] = "broken" THEN "failed" ELSE "ok"]
  /\ UNCHANGED <<store, start, run, destroy, wait, exec, chroot, nomad, faults, excused>>

-------------------------------------------------------------------------------
(* DestroyTask.  Nomad forces it once WaitTask has answered.  A call that  *)
(* is not forced may come at any time and is refused while the task runs.  *)
(* An error of exec.Shutdown is logged; one that hangs keeps it from Kill. *)

(* Mutant: only a task whose status is running is killed. *)
DestroyKillRunning(t, force) ==
  /\ store[t] # "absent" /\ destroy[t] = "off" /\ exec[t] # "wedged"
  /\ force => nomad[t] \in {"exited", "errored"}
  /\ ~force => store[t] # "running" /\ nomad[t] \in {"live", "exited", "errored"}
  /\ IF store[t] = "running" THEN Kill(t) ELSE UNCHANGED <<vm, exec>>
  /\ destroy' = [destroy EXCEPT ![t] = "killed"]
  /\ UNCHANGED <<store, start, run, stop, wait, chroot, nomad, faults, excused>>

(* Mutant: an executor that cannot be shut down fails DestroyTask. *)
DestroyKillStrict(t, force) ==
  /\ store[t] # "absent" /\ destroy[t] = "off"
  /\ force => nomad[t] \in {"exited", "errored"}
  /\ ~force => store[t] # "running" /\ nomad[t] \in {"live", "exited", "errored"}
  /\ exec[t] \notin {"wedged", "broken"}
  /\ Kill(t)
  /\ destroy' = [destroy EXCEPT ![t] = "killed"]
  /\ UNCHANGED <<store, start, run, stop, wait, chroot, nomad, faults, excused>>

DestroyKill(t, force) ==
  /\ store[t] # "absent" /\ destroy[t] = "off" /\ exec[t] # "wedged"
  /\ force => nomad[t] \in {"exited", "errored"}
  /\ ~force => store[t] # "running" /\ nomad[t] \in {"live", "exited", "errored"}
  /\ Kill(t)
  /\ destroy' = [destroy EXCEPT ![t] = "killed"]
  /\ UNCHANGED <<store, start, run, stop, wait, chroot, nomad, faults, excused>>

DestroyDelete(t) ==
  /\ destroy[t] = "killed"
  /\ store' = [store EXCEPT ![t] = "absent"]
  /\ destroy' = [destroy EXCEPT ![t] = "deleted"]
  /\ UNCHANGED <<start, run, stop, wait, hostVars, nomad, faults, excused>>

DestroyRemove(t) ==
  /\ destroy[t] = "deleted"
  /\ chroot' = None
  /\ destroy' = [destroy EXCEPT ![t] = "off"]
  /\ wait' = [wait EXCEPT ![t] = FALSE]
  /\ nomad' = [nomad EXCEPT ![t] = "over"]
  /\ UNCHANGED <<store, start, run, stop, vm, exec, faults, excused>>

-------------------------------------------------------------------------------
(* The host.                                                               *)

VmExits(t) ==
  /\ vm[t] = "alive"
  /\ vm' = [vm EXCEPT ![t] = "dead"]
  /\ UNCHANGED <<driverVars, exec, chroot, nomad, faults, excused>>

(* The executor dies or does its work no more; its VM lives on.  One that is*)
(* wedged may be killed from outside, which ends the calls that wait for it.*)
ExecutorFails(t) ==
  /\ Fault
  /\ \/ /\ exec[t] = "up"
        /\ \E e \in {"broken", "wedged", "gone"} : exec' = [exec EXCEPT ![t] = e]
     \/ /\ exec[t] = "wedged"
        /\ exec' = [exec EXCEPT ![t] = "gone"]
  /\ excused' = IF vm[t] = "alive" THEN excused \cup {t} ELSE excused
  /\ UNCHANGED <<driverVars, vm, chroot, nomad>>

(* The plugin process dies: the store and every goroutine are gone.  An     *)
(* invocation that was being started is lost, one that Nomad has been told  *)
(* about is not recovered.                                                  *)
PluginCrash ==
  /\ Fault
  /\ store' = [t \in Task |-> "absent"]
  /\ start' = [t \in Task |-> "idle"]
  /\ run' = [t \in Task |-> "off"]
  /\ stop' = [t \in Task |-> IF Stopping(t) THEN "failed" ELSE stop[t]]
  /\ destroy' = [t \in Task |-> "off"]
  /\ wait' = [t \in Task |-> FALSE]
  /\ nomad' = [t \in Task |->
                 IF nomad[t] = "live" THEN "lost"
                 ELSE IF nomad[t] \in {"starting", "exited", "errored"} THEN "over"
                 ELSE nomad[t]]
  /\ excused' = excused \cup
       {t \in Task : vm[t] = "alive" /\ nomad[t] \in {"starting", "exited", "errored"}}
  /\ UNCHANGED hostVars

(* The Nomad agent restarts and keeps its plugin: every handle is recovered.*)
AgentRestart(t) ==
  /\ nomad[t] = "live"
  /\ Fault
  /\ wait' = [wait EXCEPT ![t] = FALSE]
  /\ nomad' = [nomad EXCEPT ![t] = "lost"]
  /\ UNCHANGED <<store, start, run, stop, destroy, hostVars, excused>>

-------------------------------------------------------------------------------
(* RecoverTask: a known task is left alone, another one gets a new handle. *)
(* Reattaching may succeed with an executor that is wedged.                *)

RecoverTask(t) ==
  /\ nomad[t] = "lost"
  /\ store[t] # "absent" \/ exec[t] \in {"up", "wedged"}
  /\ store' = [store EXCEPT ![t] = IF @ = "absent" THEN "running" ELSE @]
  /\ run' = [run EXCEPT ![t] = IF store[t] = "absent" THEN "waiting" ELSE @]
  /\ nomad' = [nomad EXCEPT ![t] = "live"]
  /\ UNCHANGED <<start, stop, destroy, wait, hostVars, faults, excused>>

(* The executor cannot be reached; Nomad's DestroyTask finds no such task.  *)
(* An agent takes longer to restart than a DestroyTask to remove the chroot.*)
RecoverFails(t) ==
  /\ nomad[t] = "lost"
  /\ store[t] = "absent" /\ destroy[t] = "off"
  /\ IF exec[t] = "up" THEN Fault ELSE UNCHANGED faults
  /\ nomad' = [nomad EXCEPT ![t] = "over"]
  /\ excused' = IF vm[t] = "alive" THEN excused \cup {t} ELSE excused
  /\ UNCHANGED <<driverVars, hostVars>>

-------------------------------------------------------------------------------
Start(t) ==
  BeginStart(t) \/ CreateExecutor(t) \/ Launch(t) \/ StartReturns(t) \/ StartFails(t)

Stop(t) == StopTask(t) \/ GracefulEnds(t) \/ StopShutdown(t)

Destroy(t) ==
  DestroyDelete(t) \/ DestroyRemove(t) \/ \E force \in BOOLEAN : DestroyKill(t, force)

Wait(t) == WaitReturns(t) \/ RunRecords(t) \/ WaitTask(t) \/ WaitAnswers(t)

Recover(t) == RecoverTask(t) \/ RecoverFails(t)

Host(t) == VmExits(t) \/ ExecutorFails(t) \/ AgentRestart(t)

Next ==
  \/ \E t \in Task : Start(t) \/ Stop(t) \/ Destroy(t) \/ Wait(t) \/ Recover(t) \/ Host(t)
  \/ PluginCrash

(* Handlers and goroutines keep running, unless they wait for an executor   *)
(* that is wedged, and Nomad waits for, recovers and destroys what it       *)
(* started.  Nothing makes anybody kill a wedged executor.                  *)
Fairness ==
  \A t \in Task :
    /\ WF_vars(CreateExecutor(t) \/ Launch(t) \/ StartReturns(t) \/ StartFails(t))
    /\ WF_vars(WaitReturns(t)) /\ WF_vars(RunRecords(t))
    /\ WF_vars(WaitTask(t)) /\ WF_vars(WaitAnswers(t))
    /\ WF_vars(GracefulEnds(t)) /\ WF_vars(StopShutdown(t))
    /\ WF_vars(DestroyKill(t, TRUE)) /\ WF_vars(DestroyDelete(t))
    /\ WF_vars(DestroyRemove(t))
    /\ WF_vars(exec[t] # "wedged" /\ Recover(t))

Spec == Init /\ [][Next]_vars /\ Fairness

-------------------------------------------------------------------------------
(* Properties.                                                             *)

(* The status of a task and the answer of WaitTask say "exited" of a VM     *)
(* that is dead only: no error of the executor and no recovery is taken     *)
(* for an exit.                                                             *)
ExitIsTrue ==
  \A t \in Task : store[t] = "exited" \/ nomad[t] = "exited" => vm[t] = "dead"

(* Unless a fault took the VM from the driver, no VM outlives its handle:   *)
(* a failing StartTask, a DestroyTask and a crash between any two of their  *)
(* steps leave either no VM or one that the store, or Nomad's recovery,     *)
(* still knows.                                                             *)
NoLeak ==
  \A t \in Task \ excused :
    vm[t] = "alive" => start[t] = "launched" \/ store[t] # "absent" \/ nomad[t] = "lost"

(* The chroot that invocations share holds the tree of the VM that lives:   *)
(* neither the next StartTask nor a late DestroyTask removes it.            *)
LiveKeepsChroot ==
  \A t \in Task \ excused : vm[t] = "alive" => chroot = t

(* A StopTask that returned no error leaves no VM, also when the executor   *)
(* was gone because a DestroyTask killed it first.                          *)
StopKills == \A t \in Task \ excused : stop[t] = "ok" => vm[t] # "alive"

(* An invocation that has been reported, destroyed or given up never        *)
(* becomes known to the store again: no late goroutine or handler revives it*)
OverIsOver ==
  \A t \in Task : nomad[t] = "over" =>
    store[t] = "absent" /\ start[t] = "idle" /\ destroy[t] = "off"

(* The executor of t is not wedged for ever: it never is, or it is killed. *)
Answers(t) == <>[](exec[t] # "wedged")

(* The death of a VM reaches Nomad, as an exit or an error, unless handle-  *)
(* Wait waits for an executor that is wedged for ever: also when the        *)
(* executor died with the VM or was killed under the calls that hung on it, *)
(* and when the plugin or the agent restarted before WaitTask answered.     *)
DeathReported ==
  \A t \in Task :
    Answers(t) =>
      (nomad[t] = "live" /\ vm[t] = "dead" ~> nomad[t] \in {"exited", "errored", "over"})

(* An invocation whose VM died is cleaned up in the end, whatever else      *)
(* fails, unless its executor is wedged for ever: an executor that is       *)
(* broken or gone holds up neither StartTask's cleanup nor DestroyTask.     *)
EventuallyOver == \A t \in Task : Answers(t) => (vm[t] = "dead" ~> nomad[t] = "over")

-------------------------------------------------------------------------------
(* The inductive invariant behind the safety properties.                   *)

Active(t) == nomad[t] \notin {"new", "over"}

(* Nothing has been done for a new invocation, and the driver knows nothing *)
(* of one that is being started but its executor and VM.                    *)
StartInv ==
  \A t \in Task :
    /\ start[t] # "idle" <=> nomad[t] = "starting"
    /\ nomad[t] \in {"new", "starting"} =>
         store[t] = "absent" /\ run[t] = "off" /\ stop[t] = "off" /\ destroy[t] = "off"
    /\ start[t] \in {"prepared", "executor"} \/ nomad[t] = "new" => vm[t] = "none"
    /\ start[t] = "launched" => vm[t] # "none"

(* One invocation is active at a time, and the chroot is its own. *)
OneActive == \A t \in Task : Active(t) => chroot = t

(* The store knows what Nomad waits for, until DestroyTask has deleted it.  *)
KnownInv ==
  \A t \in Task :
    /\ nomad[t] \in {"live", "exited", "errored"} => store[t] # "absent" \/ destroy[t] = "deleted"
    /\ nomad[t] \in {"live", "lost", "exited", "errored"} => vm[t] # "none"
    /\ store[t] # "absent" \/ destroy[t] # "off" => Active(t)
    /\ destroy[t] # "off" => exec[t] \notin {"up", "wedged"}
    /\ destroy[t] = "deleted" => store[t] = "absent"

(* A living VM that no fault took away can be killed and is still wanted. *)
AliveInv ==
  \A t \in Task \ excused : vm[t] = "alive" =>
    exec[t] = "up" /\ destroy[t] = "off" /\ nomad[t] \notin {"exited", "over"}

ExitInv == ExitIsTrue /\ \A t \in Task : run[t] = "exit" => vm[t] = "dead"

IInv ==
  TypeOK /\ StartInv /\ OneActive /\ KnownInv /\ AliveInv /\ ExitInv /\ StopKills /\ OverIsOver

-------------------------------------------------------------------------------
(* The driver implements TaskContract.                                     *)

Life(t) ==
  CASE nomad[t] = "new" -> "new"
    [] nomad[t] = "starting" -> "starting"
    [] nomad[t] = "over" -> "over"
    [] OTHER -> IF t \in excused THEN "lost" ELSE vm[t]

Told(t) ==
  CASE nomad[t] = "exited" -> "exit"
    [] nomad[t] = "errored" -> "error"
    [] OTHER -> "nothing"

Contract == INSTANCE TaskContract WITH
  life <- [t \in Task |-> Life(t)], told <- [t \in Task |-> Told(t)]

(* Whatever Nomad, the host and the handlers do, what Nomad sees of the     *)
(* invocations is a behaviour of the contract.                              *)
ImplementsContract == Contract!Init /\ [][Contract!Next]_(Contract!vars)

===============================================================================
