-------------------------- MODULE TaskLifecycleProofs --------------------------
(***************************************************************************)
(* Proofs about TaskLifecycle, for every set of invocations and every      *)
(* number of faults: the inductive invariant, the safety properties that   *)
(* follow from it, and the contract that the driver implements.            *)
(***************************************************************************)
EXTENDS TaskLifecycle, TLAPS

-------------------------------------------------------------------------------
(* Nothing is known of an invocation at first.                             *)
LEMMA InitIInv == Init => IInv
  BY TaskAssumption, FaultsAssumption
  DEF Init, IInv, TypeOK, StartInv, OneActive, Active, KnownInv, AliveInv, ExitInv,
      ExitIsTrue, StopKills, OverIsOver

(* Every step of a handler, of a goroutine, of Nomad and of the host keeps  *)
(* the invariant.                                                           *)
LEMMA NextIInv == IInv /\ [Next]_vars => IInv'
<1> SUFFICES ASSUME IInv, [Next]_vars PROVE IInv'
  OBVIOUS
<1> USE DEF IInv, vars, driverVars, hostVars
\* The chroot changes hands: no other invocation is active.
<1>1. ASSUME NEW t \in Task, BeginStart(t) PROVE IInv'
  <2>1. (TypeOK /\ OneActive /\ KnownInv /\ AliveInv /\ ExitInv /\ StopKills
        /\ OverIsOver)'
    BY <1>1 DEF BeginStart, Stopping, TypeOK, OneActive, Active, KnownInv,
        AliveInv, ExitInv, ExitIsTrue, StopKills, OverIsOver
  <2>2. StartInv'
    BY <1>1 DEF BeginStart, Stopping, StartInv, TypeOK
  <2> QED
    BY <2>1, <2>2
<1>2. ASSUME NEW t \in Task, CreateExecutor(t) PROVE IInv'
  <2>1. (TypeOK /\ StartInv /\ OneActive /\ AliveInv /\ ExitInv /\ StopKills
        /\ OverIsOver)'
    BY <1>2 DEF CreateExecutor, TypeOK, StartInv, OneActive, Active, AliveInv,
        ExitInv, ExitIsTrue, StopKills, OverIsOver
  <2>2. KnownInv'
    BY <1>2 DEF CreateExecutor, KnownInv, Active, StartInv
  <2> QED
    BY <2>1, <2>2
<1>3. ASSUME NEW t \in Task, Launch(t) PROVE IInv'
  <2>1. (TypeOK /\ OneActive /\ KnownInv /\ OverIsOver)'
    BY <1>3 DEF Launch, TypeOK, OneActive, Active, KnownInv, OverIsOver
  <2>2. StartInv'
    BY <1>3 DEF Launch, StartInv, TypeOK
  <2>3. AliveInv'
    BY <1>3 DEF Launch, AliveInv, StartInv
  <2>4. ExitInv'
    BY <1>3 DEF Launch, ExitInv, ExitIsTrue, StartInv
  <2>5. StopKills'
    BY <1>3 DEF Launch, StopKills, StartInv
  <2> QED
    BY <2>1, <2>2, <2>3, <2>4, <2>5
\* From here on the store knows the VM.
<1>4. ASSUME NEW t \in Task, StartReturns(t) PROVE IInv'
  <2>1. (TypeOK /\ AliveInv /\ ExitInv /\ StopKills /\ OverIsOver)'
    BY <1>4 DEF StartReturns, TypeOK, AliveInv, ExitInv, ExitIsTrue,
        StopKills, OverIsOver
  <2>2. StartInv'
    BY <1>4 DEF StartReturns, StartInv, TypeOK
  <2>3. OneActive'
    BY <1>4 DEF StartReturns, OneActive, Active, StartInv
  <2>4. KnownInv'
    BY <1>4 DEF StartReturns, KnownInv, Active, TypeOK, StartInv
  <2> QED
    BY <2>1, <2>2, <2>3, <2>4
\* The VM is killed, unless its executor was lost.
<1>5. ASSUME NEW t \in Task, StartFails(t) PROVE IInv'
  <2>1. (TypeOK /\ ExitInv /\ StopKills)'
    BY <1>5 DEF StartFails, Kill, Fault, TypeOK, ExitInv, ExitIsTrue,
        StopKills
  <2>2. StartInv'
    BY <1>5 DEF StartFails, Kill, Fault, StartInv, TypeOK
  <2>3. OneActive'
    BY <1>5 DEF StartFails, Kill, Fault, OneActive, Active, TypeOK, StartInv
  <2>4. KnownInv'
    BY <1>5 DEF StartFails, Kill, Fault, KnownInv, Active, StartInv
  <2>5. AliveInv'
    BY <1>5 DEF StartFails, Kill, Fault, AliveInv, TypeOK
  <2>6. OverIsOver'
    BY <1>5 DEF StartFails, Kill, Fault, OverIsOver, TypeOK, StartInv
  <2> QED
    BY <2>1, <2>2, <2>3, <2>4, <2>5, <2>6
<1>6. ASSUME NEW t \in Task, WaitReturns(t) PROVE IInv'
  <2>1. (TypeOK /\ OneActive /\ KnownInv /\ AliveInv /\ StopKills /\
        OverIsOver)'
    BY <1>6 DEF WaitReturns, Fault, TypeOK, OneActive, Active, KnownInv,
        AliveInv, StopKills, OverIsOver
  <2>2. StartInv'
    BY <1>6 DEF WaitReturns, Fault, StartInv, TypeOK
  <2>3. ExitInv'
    BY <1>6 DEF WaitReturns, Fault, ExitInv, ExitIsTrue, TypeOK
  <2> QED
    BY <2>1, <2>2, <2>3
<1>7. ASSUME NEW t \in Task, RunRecords(t) PROVE IInv'
  <2>1. (TypeOK /\ StartInv /\ OneActive /\ KnownInv /\ AliveInv /\ ExitInv /\
        StopKills /\ OverIsOver)'
    BY <1>7 DEF RunRecords, TypeOK, StartInv, OneActive, Active, KnownInv,
        AliveInv, ExitInv, ExitIsTrue, StopKills, OverIsOver
  <2> QED
    BY <2>1
<1>8. ASSUME NEW t \in Task, WaitTask(t) PROVE IInv'
  <2>1. (TypeOK /\ StartInv /\ OneActive /\ KnownInv /\ AliveInv /\ ExitInv /\
        StopKills /\ OverIsOver)'
    BY <1>8 DEF WaitTask, TypeOK, StartInv, OneActive, Active, KnownInv,
        AliveInv, ExitInv, ExitIsTrue, StopKills, OverIsOver
  <2> QED
    BY <2>1
<1>9. ASSUME NEW t \in Task, WaitAnswers(t) PROVE IInv'
  <2>1. (TypeOK /\ StopKills)'
    BY <1>9 DEF WaitAnswers, Fault, TypeOK, StopKills
  <2>2. StartInv'
    BY <1>9 DEF WaitAnswers, Fault, StartInv, TypeOK
  <2>3. OneActive'
    BY <1>9 DEF WaitAnswers, Fault, OneActive, Active, TypeOK
  <2>4. KnownInv'
    BY <1>9 DEF WaitAnswers, Fault, KnownInv, Active, TypeOK
  <2>5. AliveInv'
    BY <1>9 DEF WaitAnswers, Fault, AliveInv, TypeOK
  <2>6. ExitInv'
    BY <1>9 DEF WaitAnswers, Fault, ExitInv, ExitIsTrue, TypeOK
  <2>7. OverIsOver'
    BY <1>9 DEF WaitAnswers, Fault, OverIsOver, TypeOK
  <2> QED
    BY <2>1, <2>2, <2>3, <2>4, <2>5, <2>6, <2>7
<1>10. ASSUME NEW t \in Task, StopTask(t) PROVE IInv'
  <2>1. (TypeOK /\ StartInv /\ OneActive /\ KnownInv /\ AliveInv /\ ExitInv /\
        StopKills /\ OverIsOver)'
    BY <1>10 DEF StopTask, Stopping, TypeOK, StartInv, OneActive, Active,
        KnownInv, AliveInv, ExitInv, ExitIsTrue, StopKills, OverIsOver
  <2> QED
    BY <2>1
<1>11. ASSUME NEW t \in Task, GracefulEnds(t) PROVE IInv'
  <2>1. (TypeOK /\ StartInv /\ OneActive /\ KnownInv /\ AliveInv /\ ExitInv /\
        StopKills /\ OverIsOver)'
    BY <1>11 DEF GracefulEnds, TypeOK, StartInv, OneActive, Active, KnownInv,
        AliveInv, ExitInv, ExitIsTrue, StopKills, OverIsOver
  <2> QED
    BY <2>1
\* Only an executor that was lost leaves the VM.
<1>12. ASSUME NEW t \in Task, StopShutdown(t) PROVE IInv'
  <2>1. (TypeOK /\ StartInv /\ OneActive /\ KnownInv /\ AliveInv /\ ExitInv /\
        OverIsOver)'
    BY <1>12 DEF StopShutdown, TypeOK, StartInv, OneActive, Active, KnownInv,
        AliveInv, ExitInv, ExitIsTrue, OverIsOver
  <2>2. StopKills'
    BY <1>12 DEF StopShutdown, StopKills, TypeOK, AliveInv
  <2> QED
    BY <2>1, <2>2
<1>13. ASSUME NEW t \in Task, DestroyDelete(t) PROVE IInv'
  <2>1. (TypeOK /\ StartInv /\ OneActive /\ AliveInv /\ ExitInv /\ StopKills
        /\ OverIsOver)'
    BY <1>13 DEF DestroyDelete, TypeOK, StartInv, OneActive, Active, AliveInv,
        ExitInv, ExitIsTrue, StopKills, OverIsOver
  <2>2. KnownInv'
    BY <1>13 DEF DestroyDelete, KnownInv, Active, TypeOK
  <2> QED
    BY <2>1, <2>2
\* The chroot that goes is the invocation's own.
<1>14. ASSUME NEW t \in Task, DestroyRemove(t) PROVE IInv'
  <2>1. (TypeOK /\ StartInv /\ AliveInv /\ ExitInv /\ StopKills)'
    BY <1>14 DEF DestroyRemove, TypeOK, StartInv, AliveInv, ExitInv,
        ExitIsTrue, StopKills
  <2>2. OneActive'
    BY <1>14 DEF DestroyRemove, OneActive, Active, TypeOK, KnownInv
  <2>3. KnownInv'
    BY <1>14 DEF DestroyRemove, KnownInv, Active, TypeOK
  <2>4. OverIsOver'
    BY <1>14 DEF DestroyRemove, OverIsOver, TypeOK, StartInv, KnownInv, Active
  <2> QED
    BY <2>1, <2>2, <2>3, <2>4
<1>15. ASSUME NEW t \in Task, VmExits(t) PROVE IInv'
  <2>1. (TypeOK /\ StartInv /\ OneActive /\ KnownInv /\ AliveInv /\ ExitInv /\
        StopKills /\ OverIsOver)'
    BY <1>15 DEF VmExits, TypeOK, StartInv, OneActive, Active, KnownInv,
        AliveInv, ExitInv, ExitIsTrue, StopKills, OverIsOver
  <2> QED
    BY <2>1
<1>16. ASSUME NEW t \in Task, ExecutorFails(t) PROVE IInv'
  <2>1. (TypeOK /\ StartInv /\ OneActive /\ KnownInv /\ AliveInv /\ ExitInv /\
        StopKills /\ OverIsOver)'
    BY <1>16 DEF ExecutorFails, Fault, TypeOK, StartInv, OneActive, Active,
        KnownInv, AliveInv, ExitInv, ExitIsTrue, StopKills, OverIsOver
  <2> QED
    BY <2>1
<1>17. ASSUME NEW t \in Task, AgentRestart(t) PROVE IInv'
  <2>1. (TypeOK /\ StartInv /\ OneActive /\ KnownInv /\ AliveInv /\ ExitInv /\
        StopKills /\ OverIsOver)'
    BY <1>17 DEF AgentRestart, Fault, TypeOK, StartInv, OneActive, Active,
        KnownInv, AliveInv, ExitInv, ExitIsTrue, StopKills, OverIsOver
  <2> QED
    BY <2>1
\* A VM that DestroyTask has killed has no executor to reattach to.
<1>18. ASSUME NEW t \in Task, RecoverTask(t) PROVE IInv'
  <2>1. (TypeOK /\ StartInv /\ OneActive /\ AliveInv /\ ExitInv /\ StopKills
        /\ OverIsOver)'
    BY <1>18 DEF RecoverTask, TypeOK, StartInv, OneActive, Active, AliveInv,
        ExitInv, ExitIsTrue, StopKills, OverIsOver
  <2>2. KnownInv'
    BY <1>18 DEF RecoverTask, KnownInv, Active, TypeOK
  <2> QED
    BY <2>1, <2>2
<1>19. ASSUME NEW t \in Task, RecoverFails(t) PROVE IInv'
  <2>1. (TypeOK /\ StartInv /\ OneActive /\ KnownInv /\ AliveInv /\ ExitInv /\
        StopKills)'
    BY <1>19 DEF RecoverFails, Fault, TypeOK, StartInv, OneActive, Active,
        KnownInv, AliveInv, ExitInv, ExitIsTrue, StopKills
  <2>2. OverIsOver'
    BY <1>19 DEF RecoverFails, Fault, OverIsOver, StartInv
  <2> QED
    BY <2>1, <2>2
\* The VM is killed, unless its executor was lost.
<1>20. ASSUME NEW t \in Task, NEW force \in BOOLEAN, DestroyKill(t, force) PROVE IInv'
  <2>1. (TypeOK /\ StartInv /\ OneActive /\ ExitInv /\ StopKills /\
        OverIsOver)'
    BY <1>20 DEF DestroyKill, Kill, TypeOK, StartInv, OneActive, Active,
        ExitInv, ExitIsTrue, StopKills, OverIsOver
  <2>2. KnownInv'
    BY <1>20 DEF DestroyKill, Kill, KnownInv, Active, TypeOK
  <2>3. AliveInv'
    BY <1>20 DEF DestroyKill, Kill, AliveInv, TypeOK
  <2> QED
    BY <2>1, <2>2, <2>3
\* What is forgotten is excused, or recovered.
<1>21. ASSUME PluginCrash PROVE IInv'
  <2>1. (TypeOK /\ StartInv /\ OneActive /\ KnownInv /\ AliveInv /\ ExitInv /\
        StopKills /\ OverIsOver)'
    BY <1>21 DEF PluginCrash, Fault, Stopping, TypeOK, StartInv, OneActive,
        Active, KnownInv, AliveInv, ExitInv, ExitIsTrue, StopKills, OverIsOver
  <2> QED
    BY <2>1
<1>22. CASE UNCHANGED vars
  BY <1>22 DEF TypeOK, StartInv, OneActive, Active, KnownInv, AliveInv, ExitInv,
      ExitIsTrue, StopKills, OverIsOver
<1> QED
  BY <1>1, <1>2, <1>3, <1>4, <1>5, <1>6, <1>7, <1>8, <1>9, <1>10, <1>11,
    <1>12, <1>13, <1>14, <1>15, <1>16, <1>17, <1>18, <1>19, <1>20, <1>21,
    <1>22
  DEF Next, Start, Stop, Destroy, Wait, Recover, Host

(* The inductive invariant holds of every behaviour. *)
THEOREM Invariance == Spec => []IInv
  BY InitIInv, NextIInv, PTL DEF Spec

(* Every variable keeps its type: in particular the status of a task is one *)
(* of those Nomad knows (TaskLifecycle's TypeOK).                           *)
THEOREM TypeCorrect == Spec => []TypeOK
<1>1. IInv => TypeOK
  BY DEF IInv
<1> QED
  BY <1>1, Invariance, PTL

(* The status "exited" and WaitTask's answer are only given of a dead VM:   *)
(* run() and handleWait() never take an executor's error for an exit.       *)
THEOREM ExitsAreTrue == Spec => []ExitIsTrue
<1>1. IInv => ExitIsTrue
  BY DEF IInv, ExitInv
<1> QED
  BY <1>1, Invariance, PTL

(* No VM outlives its handle unless a fault took it from the driver.  A     *)
(* living VM has not been given up (AliveInv), so it is being started, or   *)
(* Nomad is about to recover it, or the store knows it (KnownInv).          *)
THEOREM NothingLeaks == Spec => []NoLeak
<1>1. IInv => NoLeak
  <2> SUFFICES ASSUME IInv, NEW t \in Task \ excused, vm[t] = "alive"
               PROVE start[t] = "launched" \/ store[t] # "absent" \/ nomad[t] = "lost"
    BY DEF NoLeak
  <2>1. destroy[t] = "off" /\ nomad[t] \in {"starting", "live", "lost", "errored"}
    BY DEF IInv, TypeOK, AliveInv, StartInv
  <2>2. nomad[t] = "starting" => start[t] = "launched"
    BY DEF IInv, TypeOK, StartInv
  <2>3. nomad[t] \in {"live", "errored"} => store[t] # "absent"
    BY <2>1 DEF IInv, KnownInv
  <2> QED
    BY <2>1, <2>2, <2>3
<1> QED
  BY <1>1, Invariance, PTL

(* The chroot that the invocations share is never removed under a VM that   *)
(* lives: StartTask, its cleanup and DestroyTask remove the tree only of    *)
(* the one active invocation, whose VM they have killed.                    *)
THEOREM LiveChroot == Spec => []LiveKeepsChroot
<1>1. IInv => LiveKeepsChroot
  BY DEF IInv, LiveKeepsChroot, AliveInv, OneActive, Active, StartInv
<1> QED
  BY <1>1, Invariance, PTL

(* A StopTask that reports success has left no VM. *)
THEOREM StopsKill == Spec => []StopKills
<1>1. IInv => StopKills
  BY DEF IInv
<1> QED
  BY <1>1, Invariance, PTL

(* No late goroutine or handler revives an invocation that is over. *)
THEOREM StaysOver == Spec => []OverIsOver
<1>1. IInv => OverIsOver
  BY DEF IInv
<1> QED
  BY <1>1, Invariance, PTL

-------------------------------------------------------------------------------
(* The refinement: each step is a step of TaskContract or a stutter.       *)

LEMMA Quiet ==
  ASSUME \A u \in Task : Life(u)' = Life(u) /\ Told(u)' = Told(u)
  PROVE  UNCHANGED Contract!vars
  BY DEF Contract!vars

LEMMA Moves ==
  ASSUME NEW t \in Task, NEW to, Life(t)' = to,
         \A u \in Task \ {t} : Life(u)' = Life(u) /\ Told(u)' = Told(u),
         Told(t)' = IF to = "over" THEN "nothing" ELSE Told(t)
  PROVE  Contract!Move(t, to)
  BY DEF Contract!Move

LEMMA Reports ==
  ASSUME NEW t \in Task, Life(t) \in {"alive", "dead", "lost"}, Told(t) = "nothing",
         \A u \in Task : Life(u)' = Life(u),
         \A u \in Task \ {t} : Told(u)' = Told(u),
         (Life(t) # "alive" /\ Told(t)' = "exit") \/ Told(t)' = "error"
  PROVE  Contract!Report(t)
<1>1. \A to : Told(t)' = to =>
        [u \in Task |-> Told(u)]' = [[u \in Task |-> Told(u)] EXCEPT ![t] = to]
  OBVIOUS
<1> QED
  BY <1>1 DEF Contract!Report

(* While one invocation is active, the others are not. *)
LEMMA OthersAreNot ==
  ASSUME IInv, NEW t \in Task, Active(t)
  PROVE  \A u \in Task \ {t} : nomad[u] \in {"new", "over"}
  BY DEF IInv, OneActive, Active, TypeOK

(* Where an invocation stands for Nomad, and what became of its VM. *)
LEMMA LifeOf ==
  ASSUME IInv, NEW t \in Task
  PROVE  /\ Life(t) = "alive" =>
              t \notin excused /\ exec[t] = "up" /\ destroy[t] = "off" /\ nomad[t] # "exited"
         /\ nomad[t] \in {"live", "lost", "exited", "errored"} =>
              Life(t) \in {"alive", "dead", "lost"}
  BY DEF IInv, TypeOK, KnownInv, AliveInv, Life

(* Each step of the driver, of Nomad and of the host is one of the contract.*)
LEMMA NextContract == IInv /\ [Next]_vars => [Contract!Next]_(Contract!vars)
<1> SUFFICES ASSUME IInv, [Next]_vars PROVE [Contract!Next]_(Contract!vars)
  OBVIOUS
<1> USE DEF IInv, TypeOK, vars, driverVars, hostVars
<1>1. ASSUME NEW t \in Task, CreateExecutor(t) PROVE UNCHANGED Contract!vars
  <2>1. \A u \in Task : Life(u)' = Life(u) /\ Told(u)' = Told(u)
    BY <1>1 DEF CreateExecutor, StartInv, Life, Told
  <2> QED
    BY <2>1, Quiet
<1>2. ASSUME NEW t \in Task, Launch(t) PROVE UNCHANGED Contract!vars
  <2>1. \A u \in Task : Life(u)' = Life(u) /\ Told(u)' = Told(u)
    BY <1>2 DEF Launch, StartInv, Life, Told
  <2> QED
    BY <2>1, Quiet
<1>3. ASSUME NEW t \in Task, WaitReturns(t) PROVE UNCHANGED Contract!vars
  <2>1. \A u \in Task : Life(u)' = Life(u) /\ Told(u)' = Told(u)
    BY <1>3 DEF WaitReturns, Life, Told
  <2> QED
    BY <2>1, Quiet
<1>4. ASSUME NEW t \in Task, RunRecords(t) PROVE UNCHANGED Contract!vars
  <2>1. \A u \in Task : Life(u)' = Life(u) /\ Told(u)' = Told(u)
    BY <1>4 DEF RunRecords, Life, Told
  <2> QED
    BY <2>1, Quiet
<1>5. ASSUME NEW t \in Task, WaitTask(t) PROVE UNCHANGED Contract!vars
  <2>1. \A u \in Task : Life(u)' = Life(u) /\ Told(u)' = Told(u)
    BY <1>5 DEF WaitTask, Life, Told
  <2> QED
    BY <2>1, Quiet
<1>6. ASSUME NEW t \in Task, StopTask(t) PROVE UNCHANGED Contract!vars
  <2>1. \A u \in Task : Life(u)' = Life(u) /\ Told(u)' = Told(u)
    BY <1>6 DEF StopTask, Life, Told
  <2> QED
    BY <2>1, Quiet
<1>7. ASSUME NEW t \in Task, GracefulEnds(t) PROVE UNCHANGED Contract!vars
  <2>1. \A u \in Task : Life(u)' = Life(u) /\ Told(u)' = Told(u)
    BY <1>7 DEF GracefulEnds, Life, Told
  <2> QED
    BY <2>1, Quiet
<1>8. ASSUME NEW t \in Task, DestroyDelete(t) PROVE UNCHANGED Contract!vars
  <2>1. \A u \in Task : Life(u)' = Life(u) /\ Told(u)' = Told(u)
    BY <1>8 DEF DestroyDelete, Life, Told
  <2> QED
    BY <2>1, Quiet
<1>9. ASSUME NEW t \in Task, AgentRestart(t) PROVE UNCHANGED Contract!vars
  <2>1. \A u \in Task : Life(u)' = Life(u) /\ Told(u)' = Told(u)
    BY <1>9 DEF AgentRestart, Life, Told
  <2> QED
    BY <2>1, Quiet
<1>10. ASSUME NEW t \in Task, RecoverTask(t) PROVE UNCHANGED Contract!vars
  <2>1. \A u \in Task : Life(u)' = Life(u) /\ Told(u)' = Told(u)
    BY <1>10 DEF RecoverTask, Life, Told
  <2> QED
    BY <2>1, Quiet
<1>11. ASSUME NEW t \in Task, BeginStart(t) PROVE Contract!Next
  <2>1. Life(t) = "new" /\ Life(t)' = "starting" /\ Told(t)' = Told(t)
    BY <1>11 DEF BeginStart, Life, Told
  <2>2. \A u \in Task \ {t} : Life(u)' = Life(u) /\ Told(u)' = Told(u)
    BY <1>11 DEF BeginStart, Life, Told
  <2>3. \A u \in Task : Life(u) \in {"new", "over"}
    BY <1>11 DEF BeginStart, Life, Told
  <2>4. Contract!Begin(t)
    BY <2>1, <2>2, <2>3, Moves DEF Contract!Begin
  <2> QED
    BY <2>4 DEF Contract!Next
<1>12. ASSUME NEW t \in Task, StartReturns(t) PROVE Contract!Next
  <2>1. Life(t) = "starting" /\ Life(t)' \in {"alive", "dead", "lost"} /\ Told(t)' = Told(t)
    BY <1>12 DEF StartReturns, StartInv, Life, Told
  <2>2. \A u \in Task \ {t} : Life(u)' = Life(u) /\ Told(u)' = Told(u)
    BY <1>12 DEF StartReturns, Life, Told
  <2>3. PICK to \in {"alive", "dead", "lost"} : Life(t)' = to
    BY <2>1
  <2>4. Contract!Move(t, to)
    BY <2>1, <2>2, <2>3, Moves
  <2>5. Contract!Up(t)
    BY <2>1, <2>4 DEF Contract!Up
  <2> QED
    BY <2>5 DEF Contract!Next
<1>13. ASSUME NEW t \in Task, StartFails(t) PROVE Contract!Next
  <2>1. Life(t) = "starting" /\ Life(t)' = "over" /\ Told(t)' = "nothing"
    BY <1>13 DEF StartInv, StartFails, Life, Told
  <2>2. \A u \in Task \ {t} : Life(u)' = Life(u) /\ Told(u)' = Told(u)
    BY <1>13 DEF StartFails, Kill, Life, Told
  <2>3. Contract!Abort(t)
    BY <2>1, <2>2, Moves DEF Contract!Abort
  <2> QED
    BY <2>3 DEF Contract!Next
<1>14. ASSUME NEW t \in Task, WaitAnswers(t) PROVE Contract!Next
  <2>1. Life(t) \in {"alive", "dead", "lost"} /\ Told(t) = "nothing"
    BY <1>14, LifeOf DEF WaitAnswers, Life, Told
  <2>2. \A u \in Task : Life(u)' = Life(u)
    BY <1>14 DEF WaitAnswers, Life, Told
  <2>3. \A u \in Task \ {t} : Told(u)' = Told(u)
    BY <1>14 DEF WaitAnswers, Life, Told
  <2>4. (Life(t) # "alive" /\ Told(t)' = "exit") \/ Told(t)' = "error"
    BY <1>14 DEF WaitAnswers, Life, Told
  <2>5. Contract!Report(t)
    BY <2>1, <2>2, <2>3, <2>4, Reports
  <2> QED
    BY <2>5 DEF Contract!Next
<1>15. ASSUME NEW t \in Task, StopShutdown(t) PROVE [Contract!Next]_(Contract!vars)
  <2>1. \A u \in Task \ {t} : Life(u)' = Life(u) /\ Told(u)' = Told(u)
    BY <1>15 DEF StopShutdown, Life, Told
  <2>2. Told(t)' = Told(t)
    BY <1>15 DEF StopShutdown, Life, Told
  <2>3. Life(t)' = Life(t) \/ (Life(t) = "alive" /\ Life(t)' = "dead")
    <3>1. CASE nomad[t] \in {"live", "lost", "exited", "errored"}
      <4>1. /\ Life(t) = IF t \in excused THEN "lost" ELSE vm[t]
            /\ Life(t)' = IF t \in excused' THEN "lost" ELSE vm'[t]
        BY <1>15, <3>1 DEF StopShutdown, Life, Told
      <4>2. /\ excused' = excused
            /\ (vm'[t] = vm[t] \/ (vm[t] = "alive" /\ vm'[t] = "dead"))
        BY <1>15, <3>1 DEF StopShutdown, KnownInv
      <4> QED
        BY <4>1, <4>2
    <3>2. CASE nomad[t] \in {"new", "starting", "over"}
      <4>1. Life(t) = nomad[t] /\ Life(t)' = nomad[t]
        BY <1>15, <3>2 DEF StopShutdown, Life, Told
      <4> QED
        BY <4>1
    <3> QED
      BY <3>1, <3>2
  <2>4. CASE Life(t)' = Life(t)
    BY <2>1, <2>2, <2>4, Quiet
  <2>5. CASE Life(t) = "alive" /\ Life(t)' = "dead"
    <3>1. Contract!Die(t)
      BY <2>1, <2>2, <2>5, Moves DEF Contract!Die
    <3> QED
      BY <3>1 DEF Contract!Next
  <2> QED
    BY <2>3, <2>4, <2>5
<1>16. ASSUME NEW t \in Task, NEW force \in BOOLEAN, DestroyKill(t, force)
       PROVE [Contract!Next]_(Contract!vars)
  <2>1. \A u \in Task \ {t} : Life(u)' = Life(u) /\ Told(u)' = Told(u)
    BY <1>16 DEF DestroyKill, Kill, Life, Told
  <2>2. Told(t)' = Told(t)
    BY <1>16 DEF DestroyKill, Kill, Life, Told
  <2>3. Life(t)' = Life(t) \/ (Life(t) = "alive" /\ Life(t)' = "dead")
    <3>1. CASE nomad[t] \in {"live", "lost", "exited", "errored"}
      <4>1. /\ Life(t) = IF t \in excused THEN "lost" ELSE vm[t]
            /\ Life(t)' = IF t \in excused' THEN "lost" ELSE vm'[t]
        BY <1>16, <3>1 DEF DestroyKill, Kill, Life, Told
      <4>2. /\ excused' = excused
            /\ (vm'[t] = vm[t] \/ (vm[t] = "alive" /\ vm'[t] = "dead"))
        BY <1>16, <3>1 DEF DestroyKill, Kill
      <4> QED
        BY <4>1, <4>2
    <3>2. CASE nomad[t] \in {"new", "starting", "over"}
      <4>1. Life(t) = nomad[t] /\ Life(t)' = nomad[t]
        BY <1>16, <3>2 DEF DestroyKill, Kill, Life, Told
      <4> QED
        BY <4>1
    <3> QED
      BY <3>1, <3>2
  <2>4. CASE Life(t)' = Life(t)
    BY <2>1, <2>2, <2>4, Quiet
  <2>5. CASE Life(t) = "alive" /\ Life(t)' = "dead"
    <3>1. Contract!Die(t)
      BY <2>1, <2>2, <2>5, Moves DEF Contract!Die
    <3> QED
      BY <3>1 DEF Contract!Next
  <2> QED
    BY <2>3, <2>4, <2>5
<1>17. ASSUME NEW t \in Task, VmExits(t) PROVE [Contract!Next]_(Contract!vars)
  <2>1. \A u \in Task \ {t} : Life(u)' = Life(u) /\ Told(u)' = Told(u)
    BY <1>17 DEF VmExits, Life, Told
  <2>2. Told(t)' = Told(t)
    BY <1>17 DEF VmExits, Life, Told
  <2>3. Life(t)' = Life(t) \/ (Life(t) = "alive" /\ Life(t)' = "dead")
    <3>1. CASE nomad[t] \in {"live", "lost", "exited", "errored"}
      <4>1. /\ Life(t) = IF t \in excused THEN "lost" ELSE vm[t]
            /\ Life(t)' = IF t \in excused' THEN "lost" ELSE vm'[t]
        BY <1>17, <3>1 DEF VmExits, Life, Told
      <4>2. /\ excused' = excused
            /\ (vm'[t] = vm[t] \/ (vm[t] = "alive" /\ vm'[t] = "dead"))
        BY <1>17, <3>1 DEF VmExits
      <4> QED
        BY <4>1, <4>2
    <3>2. CASE nomad[t] \in {"new", "starting", "over"}
      <4>1. Life(t) = nomad[t] /\ Life(t)' = nomad[t]
        BY <1>17, <3>2 DEF VmExits, Life, Told
      <4> QED
        BY <4>1
    <3> QED
      BY <3>1, <3>2
  <2>4. CASE Life(t)' = Life(t)
    BY <2>1, <2>2, <2>4, Quiet
  <2>5. CASE Life(t) = "alive" /\ Life(t)' = "dead"
    <3>1. Contract!Die(t)
      BY <2>1, <2>2, <2>5, Moves DEF Contract!Die
    <3> QED
      BY <3>1 DEF Contract!Next
  <2> QED
    BY <2>3, <2>4, <2>5
<1>18. ASSUME NEW t \in Task, ExecutorFails(t) PROVE [Contract!Next]_(Contract!vars)
  <2>1. \A u \in Task \ {t} : Life(u)' = Life(u) /\ Told(u)' = Told(u)
    BY <1>18 DEF ExecutorFails, Fault, Life, Told
  <2>2. Told(t)' = Told(t)
    BY <1>18 DEF ExecutorFails, Fault, Life, Told
  <2>3. Life(t)' = Life(t) \/ (Life(t) = "alive" /\ Life(t)' = "lost")
    <3>1. CASE nomad[t] \in {"live", "lost", "exited", "errored"}
      <4>1. /\ Life(t) = IF t \in excused THEN "lost" ELSE vm[t]
            /\ Life(t)' = IF t \in excused' THEN "lost" ELSE vm'[t]
        BY <1>18, <3>1 DEF ExecutorFails, Fault, Life, Told
      <4>2. /\ vm'[t] = vm[t]
            /\ t \in excused => t \in excused'
            /\ t \in excused' => t \in excused \/ vm[t] = "alive"
        BY <1>18, <3>1 DEF ExecutorFails, Fault
      <4> QED
        BY <4>1, <4>2
    <3>2. CASE nomad[t] \in {"new", "starting", "over"}
      <4>1. Life(t) = nomad[t] /\ Life(t)' = nomad[t]
        BY <1>18, <3>2 DEF ExecutorFails, Fault, Life, Told
      <4> QED
        BY <4>1
    <3> QED
      BY <3>1, <3>2
  <2>4. CASE Life(t)' = Life(t)
    BY <2>1, <2>2, <2>4, Quiet
  <2>5. CASE Life(t) = "alive" /\ Life(t)' = "lost"
    <3>1. Contract!Lose(t)
      BY <2>1, <2>2, <2>5, Moves DEF Contract!Lose
    <3> QED
      BY <3>1 DEF Contract!Next
  <2> QED
    BY <2>3, <2>4, <2>5
\* What DestroyTask has killed is not alive.
<1>19. ASSUME NEW t \in Task, DestroyRemove(t) PROVE Contract!Next
  <2>1. Life(t) \in {"dead", "lost"}
    BY <1>19, LifeOf DEF DestroyRemove, KnownInv, StartInv, OverIsOver, Active, Life, Told
  <2>2. Life(t)' = "over" /\ Told(t)' = "nothing"
    BY <1>19 DEF DestroyRemove, Life, Told
  <2>3. \A u \in Task \ {t} : Life(u)' = Life(u) /\ Told(u)' = Told(u)
    BY <1>19 DEF DestroyRemove, Life, Told
  <2>4. Contract!End(t)
    BY <2>1, <2>2, <2>3, Moves DEF Contract!End
  <2> QED
    BY <2>4 DEF Contract!Next
<1>20. ASSUME NEW t \in Task, RecoverFails(t) PROVE Contract!Next
  <2>1. Life(t) \in {"alive", "dead", "lost"} /\ Told(t) = "nothing"
    BY <1>20, LifeOf DEF RecoverFails, Life, Told
  <2>2. Life(t)' = "over" /\ Told(t)' = "nothing"
    BY <1>20 DEF RecoverFails, Life, Told
  <2>3. \A u \in Task \ {t} : Life(u)' = Life(u) /\ Told(u)' = Told(u)
    BY <1>20 DEF RecoverFails, Life, Told
  <2>4. Contract!GiveUp(t) \/ Contract!End(t)
    BY <2>1, <2>2, <2>3, Moves DEF Contract!GiveUp, Contract!End
  <2> QED
    BY <2>4 DEF Contract!Next
\* At most one invocation is active to be forgotten.
<1>21. ASSUME PluginCrash PROVE [Contract!Next]_(Contract!vars)
  <2>1. CASE \A t \in Task : ~Active(t)
    <3>1. \A u \in Task : Life(u)' = Life(u) /\ Told(u)' = Told(u)
      BY <1>21, <2>1 DEF PluginCrash, Active, Life, Told
    <3> QED
      BY <3>1, Quiet
  <2>2. ASSUME NEW t \in Task, Active(t) PROVE [Contract!Next]_(Contract!vars)
    <3>1. \A u \in Task \ {t} : nomad[u] \in {"new", "over"}
      BY <2>2, OthersAreNot
    <3>2. \A u \in Task \ {t} : Life(u)' = Life(u) /\ Told(u)' = Told(u)
      BY <1>21, <3>1 DEF PluginCrash, Life, Told
    <3>3. CASE nomad[t] \in {"live", "lost"}
      <4>1. Life(t)' = Life(t) /\ Told(t)' = Told(t)
        BY <1>21, <3>3 DEF PluginCrash, Life, Told
      <4> QED
        BY <3>2, <4>1, Quiet
    <3>4. CASE nomad[t] = "starting"
      <4>1. Life(t) = "starting" /\ Life(t)' = "over" /\ Told(t)' = "nothing"
        BY <1>21, <3>4 DEF PluginCrash, Life, Told
      <4>2. Contract!Abort(t)
        BY <3>2, <4>1, Moves DEF Contract!Abort
      <4> QED
        BY <4>2 DEF Contract!Next
    <3>5. CASE nomad[t] \in {"exited", "errored"}
      <4>1. Life(t) \in {"alive", "dead", "lost"} /\ (Life(t) = "alive" => Told(t) = "error")
        BY <3>5, LifeOf DEF Told
      <4>2. Life(t)' = "over" /\ Told(t)' = "nothing"
        BY <1>21, <3>5 DEF PluginCrash, Life, Told
      <4>3. Contract!End(t)
        BY <3>2, <4>1, <4>2, Moves DEF Contract!End
      <4> QED
        BY <4>3 DEF Contract!Next
    <3> QED
      BY <2>2, <3>3, <3>4, <3>5 DEF Active
  <2> QED
    BY <2>1, <2>2
<1>22. CASE UNCHANGED vars
  <2>1. \A u \in Task : Life(u)' = Life(u) /\ Told(u)' = Told(u)
    BY <1>22 DEF Life, Told
  <2> QED
    BY <2>1, Quiet
<1> QED
  BY <1>1, <1>2, <1>3, <1>4, <1>5, <1>6, <1>7, <1>8, <1>9, <1>10, <1>11,
    <1>12, <1>13, <1>14, <1>15, <1>16, <1>17, <1>18, <1>19, <1>20, <1>21,
    <1>22
  DEF Next, Start, Stop, Destroy, Wait, Recover, Host

(* What Nomad sees of the invocations, whatever it calls and whatever fails *)
(* on the host, is a behaviour of TaskContract: an invocation is started    *)
(* once the others are over, an exit is reported of a dead VM only, and no  *)
(* living VM is given up unreported, but by a failing recovery.             *)
THEOREM Implements == Spec => ImplementsContract
<1>1. Init => Contract!Init
  BY DEF Init, Contract!Init, Life, Told
<1> QED
  BY <1>1, Invariance, NextContract, PTL DEF Spec, ImplementsContract

===============================================================================
