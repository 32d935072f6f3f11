----------------------------- MODULE TaskContract -----------------------------
(***************************************************************************)
(* What the driver promises Nomad of the invocations of one task: the      *)
(* interface of plugins/drivers that firecracker/driver.go implements.     *)
(* Invocations follow one another; each is started, lives, dies, is        *)
(* reported once and is over.  An exit is reported of a dead VM only.      *)
(* A fault of the host may make the driver lose sight of a VM.             *)
(***************************************************************************)
EXTENDS FiniteSets

CONSTANT Task   \* invocations of the task, each with its own task ID

VARIABLES
  life,   \* of each invocation
  told    \* what Nomad's WaitTask was told of it

vars == <<life, told>>

TypeOK ==
  /\ life \in [Task -> {"new", "starting", "alive", "dead", "lost", "over"}]
  /\ told \in [Task -> {"nothing", "exit", "error"}]

Init ==
  /\ life = [t \in Task |-> "new"]
  /\ told = [t \in Task |-> "nothing"]

(* An invocation that is over is forgotten. *)
Move(t, to) ==
  /\ life' = [life EXCEPT ![t] = to]
  /\ told' = IF to = "over" THEN [told EXCEPT ![t] = "nothing"] ELSE told

(* StartTask is called, fails, or returns a VM that may be gone already. *)
Begin(t) ==
  /\ life[t] = "new"
  /\ \A u \in Task : life[u] \in {"new", "over"}
  /\ Move(t, "starting")

Abort(t) == life[t] = "starting" /\ Move(t, "over")

Up(t) == life[t] = "starting" /\ \E to \in {"alive", "dead", "lost"} : Move(t, to)

Die(t) == life[t] = "alive" /\ Move(t, "dead")

Lose(t) == life[t] \in {"alive", "dead"} /\ Move(t, "lost")

(* WaitTask answers.  It may report an error of a VM that lives. *)
Report(t) ==
  /\ life[t] \in {"alive", "dead", "lost"}
  /\ told[t] = "nothing"
  /\ \/ life[t] # "alive" /\ told' = [told EXCEPT ![t] = "exit"]
     \/ told' = [told EXCEPT ![t] = "error"]
  /\ UNCHANGED life

(* DestroyTask after the report, or Nomad's last resort without one. *)
End(t) ==
  /\ life[t] \in {"alive", "dead", "lost"}
  /\ life[t] = "alive" => told[t] = "error"
  /\ Move(t, "over")

GiveUp(t) == life[t] = "alive" /\ told[t] = "nothing" /\ Move(t, "over")

Next ==
  \E t \in Task :
    \/ Begin(t) \/ Abort(t) \/ Up(t) \/ Die(t) \/ Lose(t)
    \/ Report(t) \/ End(t) \/ GiveUp(t)

Spec == Init /\ [][Next]_vars

===============================================================================
