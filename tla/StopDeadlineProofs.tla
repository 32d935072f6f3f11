-------------------------- MODULE StopDeadlineProofs --------------------------
(***************************************************************************)
(* Proofs about StopDeadline: for every timeout and every bound on the     *)
(* time lost, the waits of StopTask keep its one deadline, a guest that    *)
(* was asked to shut down gets all of it, and success means a dead VM.     *)
(***************************************************************************)
EXTENDS StopDeadline, TLAPS

LEMMA InitIInv == Init => IInv
<1> SUFFICES ASSUME Init PROVE IInv
  OBVIOUS
<1> USE ClockAssumption DEF Init
<1>1. TypeOK
  <2>1. socket \in BOOLEAN /\ snapshot \in BOOLEAN /\ told \in BOOLEAN /\ cad \in BOOLEAN
    BY Zenon
  <2>2. clock \in Nat /\ lost \in 0..MaxLate /\ until \in Nat /\ until <= Timeout + lost
    BY SMT
  <2>3. /\ phase \in {"called", "vsock", "cad", "poll", "snapshot", "kill", "grace", "returned"}
        /\ agent \in {"none", "accepts", "refuses", "hangs"}
        /\ api \in {"accepts", "refuses", "hangs"}
        /\ vm \in {"alive", "dead"}
        /\ status \in {"running", "exited", "unknown"}
        /\ executor \in {"up", "broken", "wedged", "gone"}
        /\ result \in {"none", "ok", "failed"}
        /\ vsock \in {"unsent", "sent", "failed"}
    BY Zenon
  <2> QED
    BY <2>1, <2>2, <2>3, Zenon DEF TypeOK
<1>2. StopInTime /\ SuccessIsDeath /\ AskedGuestHasBudget
  BY DEF StopInTime, SuccessIsDeath, AskedGuestHasBudget
<1>3. OneDeadline /\ AskedInv
  BY DEF OneDeadline, AskedInv, Waiting
<1> QED
  BY <1>1, <1>2, <1>3 DEF IInv

(* What the wait that starts now is given ends at the deadline, or at once. *)
LEMMA RestEndsAtDeadline ==
  ASSUME clock \in Nat, lost \in Nat, clock <= Timeout + lost
  PROVE  /\ Remaining \in Nat
         /\ clock + Remaining >= Timeout /\ clock + Remaining <= Timeout + lost
         /\ Remaining = 0 => clock >= Timeout
  BY ClockAssumption DEF Remaining, Deadline

LEMMA NextIInv == IInv /\ [Next]_vars => IInv'
<1> SUFFICES ASSUME IInv, [Next]_vars PROVE IInv'
  OBVIOUS
<1> USE ClockAssumption DEF IInv, TypeOK, StopInTime, SuccessIsDeath, AskedGuestHasBudget,
    OneDeadline, AskedInv, Waiting, setting, asked, time, host, vars
<1>0. /\ Remaining \in Nat
      /\ clock + Remaining >= Timeout /\ clock + Remaining <= Timeout + lost
      /\ Remaining = 0 => clock >= Timeout
  BY RestEndsAtDeadline
<1>1. ASSUME StopTask PROVE IInv'
  BY <1>0, <1>1 DEF StopTask
<1>2. ASSUME SnapshotOnStop PROVE IInv'
  BY <1>2 DEF SnapshotOnStop
<1>3. ASSUME VsockSignal PROVE IInv'
  BY <1>3 DEF VsockSignal, Expired
<1>4. ASSUME VsockFails PROVE IInv'
  BY <1>4 DEF VsockFails, Expired
<1>5. ASSUME CtrlAltDel PROVE IInv'
  BY <1>5 DEF CtrlAltDel, Expired
<1>6. ASSUME CtrlAltDelFails PROVE IInv'
  BY <1>6 DEF CtrlAltDelFails, Expired
<1>7. ASSUME PollEnds PROVE IInv'
  BY <1>7 DEF PollEnds, Expired
\* Only an executor that is up kills, and only one that is gone is forgiven.
<1>8. ASSUME Shutdown PROVE IInv'
  BY <1>0, <1>8 DEF Shutdown, Error, Returns
<1>9. ASSUME GraceEnds PROVE IInv'
  BY <1>9 DEF GraceEnds, Error, Returns, Expired
<1>10. ASSUME VmExits PROVE IInv'
  BY <1>10 DEF VmExits
<1>11. ASSUME ExecutorFails PROVE IInv'
  BY <1>11 DEF ExecutorFails
<1>12. ASSUME RunRecords PROVE IInv'
  BY <1>12 DEF RunRecords
\* A wait that is not over ends by the deadline and what was lost.
<1>13. ASSUME Tick PROVE IInv'
  BY <1>13 DEF Tick, Expired
<1>14. ASSUME Delay PROVE IInv'
  BY <1>14 DEF Delay
<1>15. CASE UNCHANGED vars
  BY <1>15
<1> QED
  BY <1>1, <1>2, <1>3, <1>4, <1>5, <1>6, <1>7, <1>8, <1>9, <1>10, <1>11, <1>12,
    <1>13, <1>14, <1>15 DEF Next, Tier

THEOREM Invariance == Spec => []IInv
  BY InitIInv, NextIInv, PTL DEF Spec

(* The waits of StopTask never add up to more than its timeout, whichever   *)
(* parts hang: the clock is past it only by what was lost outside of them.  *)
THEOREM KeepsDeadline == Spec => []StopInTime
<1>1. IInv => StopInTime
  BY DEF IInv
<1> QED
  BY <1>1, Invariance, PTL

(* Without an error StopTask leaves no VM, but that of an executor which    *)
(* the plugin has seen exit, whenever and however the executor fails.       *)
THEOREM SuccessLeavesNoVM == Spec => []SuccessIsDeath
<1>1. IInv => SuccessIsDeath
  BY DEF IInv
<1> QED
  BY <1>1, Invariance, PTL

(* A guest that took the request to shut down has until the timeout. *)
THEOREM GuestHasBudget == Spec => []AskedGuestHasBudget
<1>1. IInv => AskedGuestHasBudget
  BY DEF IInv
<1> QED
  BY <1>1, Invariance, PTL

(* Every variable keeps its type, and no wait ends after the timeout. *)
THEOREM TypeCorrect == Spec => []TypeOK
<1>1. IInv => TypeOK
  BY DEF IInv
<1> QED
  BY <1>1, Invariance, PTL

(* What is left to do is a natural number, which a step makes less.         *)
LEMMA StepsLeftNat == IInv => StepsLeft \in Nat
<1> SUFFICES ASSUME IInv PROVE StepsLeft \in Nat
  OBVIOUS
<1>1. Timeout + MaxLate - clock \in Nat
  BY ClockAssumption DEF IInv, TypeOK, StopInTime
<1>2. /\ phase \in {"called", "vsock", "cad", "poll", "snapshot", "kill", "grace", "returned"}
      /\ executor \in {"up", "broken", "wedged", "gone"}
  BY DEF IInv, TypeOK
<1> QED
  BY <1>1, <1>2 DEF StepsLeft

LEMMA NextStepsLeft == IInv /\ [Next]_vars => (StepsLeft' < StepsLeft \/ UNCHANGED vars)
<1> SUFFICES ASSUME IInv, Next PROVE StepsLeft' < StepsLeft
  OBVIOUS
<1>1. clock \in Nat /\ Timeout \in Nat /\ MaxLate \in Nat
  BY ClockAssumption DEF IInv, TypeOK
<1>2. /\ phase \in {"called", "vsock", "cad", "poll", "snapshot", "kill", "grace", "returned"}
      /\ executor \in {"up", "broken", "wedged", "gone"}
  BY DEF IInv, TypeOK
<1> USE <1>1, <1>2 DEF StepsLeft, time, host
\* StopTask goes to a part that is nearer to its end.
<1>3. CASE StopTask
  BY <1>3 DEF StopTask
<1>4. CASE SnapshotOnStop
  BY <1>4 DEF SnapshotOnStop
<1>5. CASE VsockSignal \/ VsockFails
  BY <1>5 DEF VsockSignal, VsockFails
<1>6. CASE CtrlAltDel \/ CtrlAltDelFails
  BY <1>6 DEF CtrlAltDel, CtrlAltDelFails
<1>7. CASE PollEnds
  BY <1>7 DEF PollEnds
<1>8. CASE Shutdown
  <2>1. clock' = clock /\ executor' = executor /\ status' = status
        /\ phase = "kill" /\ phase' \in {"grace", "returned"}
        /\ (vm' = vm \/ vm' = "dead")
    BY <1>8 DEF Shutdown, Error, Returns
  <2> QED
    BY <2>1
<1>9. CASE GraceEnds
  <2>1. clock' = clock /\ executor' = executor /\ status' = status
        /\ phase = "grace" /\ phase' = "returned" /\ (vm' = vm \/ vm' = "dead")
    BY <1>9 DEF GraceEnds, Error, Returns
  <2> QED
    BY <2>1
\* The VM ends once, and is recorded once; the executor fails at most twice.
<1>10. CASE VmExits
  BY <1>10 DEF VmExits
<1>11. CASE ExecutorFails
  BY <1>11 DEF ExecutorFails
<1>12. CASE RunRecords
  BY <1>12 DEF RunRecords
\* Time goes on, and there is only so much of it.
<1>13. CASE Tick \/ Delay
  BY <1>13 DEF Tick, Delay
<1> QED
  BY <1>3, <1>4, <1>5, <1>6, <1>7, <1>8, <1>9, <1>10, <1>11, <1>12, <1>13 DEF Next, Tier

(* StopTask gets nearer to its return with every step, for every timeout,   *)
(* and what is left to do is a number: StopTask can take no more than       *)
(* Timeout + MaxLate + 10 steps, of whatever kind, and so cannot keep Nomad *)
(* waiting by going from one part to the next and back; all that can keep   *)
(* it is a call that hangs on its executor.                                 *)
THEOREM NeverGoesBack == Spec => NeverBack /\ [](StepsLeft \in Nat)
<1>1. IInv /\ [Next]_vars => [StepsLeft' < StepsLeft]_vars
  BY NextStepsLeft
<1>2. Spec => NeverBack
  BY <1>1, Invariance, PTL DEF Spec, NeverBack
<1>3. Spec => [](StepsLeft \in Nat)
  BY StepsLeftNat, Invariance, PTL
<1> QED
  BY <1>2, <1>3

===============================================================================
