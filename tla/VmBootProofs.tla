----------------------------- MODULE VmBootProofs -----------------------------
(***************************************************************************)
(* Proofs, for every job, veth, number of attempts and of faults, of the   *)
(* safety properties of VmBoot.  Each follows from IInv, which is          *)
(* inductive.  The lemmas about ConfigureVM and Calls say where each call  *)
(* stands; SetupKeeps is about TapSetup alone.                             *)
(***************************************************************************)
EXTENDS VmBoot, SequenceTheorems, FiniteSetTheorems, TLAPS

-------------------------------------------------------------------------------
(* The calls.                                                              *)

(* The interfaces of a job are named, by the job or by the driver. *)
LEMMA NicFacts ==
  ASSUME job \in Jobs
  PROVE  /\ Nics \in Seq(NicNames \cup {NoName})
         /\ \A i \in DOMAIN Nics : NicId(i) \in NicNames \cup {NoName}
         /\ Valid /\ Nics # <<>> => MmdsNic \in NicIds
         /\ Nics # <<>> => MmdsNic \in NicNames \cup {NoName}
<1>1. /\ job.nics \in Seq(NicNames \cup {NoName})
      /\ job.iface \in NicNames \cup {NoName}
      /\ \A i \in DOMAIN job.nics \cup {1} : DefaultNic[i] \in NicNames
  <2>1. job.nics \in Seq(NicNames \cup {NoName}) /\ job.iface \in NicNames \cup {NoName}
    BY JobsAssumption
  <2>2. \A i \in DOMAIN job.nics \cup {1} : DefaultNic[i] \in NicNames
    BY NicAssumption
  <2> QED
    BY <2>1, <2>2
<1>2. Nics \in Seq(NicNames \cup {NoName}) /\ DOMAIN Nics \subseteq DOMAIN job.nics \cup {1}
  <2>1. CASE OnBridge
    BY <2>1 DEF Nics
  <2>2. CASE ~OnBridge
    BY <1>1, <2>2 DEF Nics
  <2> QED
    BY <2>1, <2>2
<1>3. \A i \in DOMAIN Nics : NicId(i) \in NicNames \cup {NoName}
  BY <1>1, <1>2 DEF NicId
<1>4. Nics # <<>> => 1 \in DOMAIN Nics
  BY <1>2
<1> QED
  BY <1>1, <1>2, <1>3, <1>4 DEF Valid, MmdsNic, NicIds

(* A part of the calls that is there or not. *)
LEMMA PutIfFacts ==
  ASSUME NEW cond \in BOOLEAN, NEW to, NEW nic, NEW S, Put(to, nic) \in S
  PROVE  /\ PutIf(cond, to, nic) \in Seq(S)
         /\ \A i \in DOMAIN PutIf(cond, to, nic) : PutIf(cond, to, nic)[i] = Put(to, nic)
         /\ cond => Len(PutIf(cond, to, nic)) = 1 /\ PutIf(cond, to, nic)[1] = Put(to, nic)
         /\ ~cond => Len(PutIf(cond, to, nic)) = 0
  BY DEF PutIf

(* Where the calls of ConfigureVM stand: the boot source and the interfaces *)
(* before the metadata service, and the start of the instance last.         *)
LEMMA ConfigureFacts ==
  ASSUME job \in Jobs
  PROVE  /\ ConfigureVM \in Seq(Puts)
         /\ Len(ConfigureVM) > 3 + Len(Nics)
         /\ ConfigureVM[2] = Put("boot", NoName)
         /\ \A k \in DOMAIN Nics : ConfigureVM[3 + k] = Put("nic", NicId(k))
         /\ \A i \in DOMAIN ConfigureVM :
              /\ ConfigureVM[i].to \in PreBoot \cup {"start"}
              /\ ConfigureVM[i].to = "start" <=> i = Len(ConfigureVM)
              /\ ConfigureVM[i].to = "mmds" =>
                   i > 3 + Len(Nics) /\ Nics # <<>> /\ ConfigureVM[i].nic = MmdsNic
         /\ Nics # <<>> => \E i \in DOMAIN ConfigureVM : ConfigureVM[i] = Put("mmds", MmdsNic)
<1> DEFINE A == <<Put("machine", NoName), Put("boot", NoName), Put("drives", NoName)>>
           N == NicPuts
           B == PutIf(job.balloon, "balloon", NoName)
           V == PutIf(job.vsock, "vsock", NoName)
           M == PutIf(Nics # <<>>, "mmds", MmdsNic)
           E == <<Put("start", NoName)>>
           Early == [to : PreBoot \ {"mmds"}, nic : NicNames \cup {NoName}]
           Late == [to : PreBoot, nic : NicNames \cup {NoName}]
<1>0. /\ Early \subseteq Late /\ Late \subseteq Puts
      /\ \A c \in Early : c.to # "mmds"
      /\ \A c \in Late : c.to \in PreBoot
  BY DEF PreBoot, Puts
<1>1. A \in Seq(Early) /\ Len(A) = 3 /\ A[2] = Put("boot", NoName)
  <2>1. {Put("machine", NoName), Put("boot", NoName), Put("drives", NoName)} \subseteq Early
    BY DEF Put, PreBoot
  <2> HIDE DEF Early
  <2> QED
    BY <2>1
<1>2. N \in Seq(Early) /\ Len(N) = Len(Nics) /\ DOMAIN N = DOMAIN Nics
      /\ \A k \in DOMAIN Nics : N[k] = Put("nic", NicId(k))
  <2>1. \A k \in DOMAIN Nics : Put("nic", NicId(k)) \in Early
    BY NicFacts DEF Put, PreBoot
  <2>2. Len(Nics) \in Nat /\ DOMAIN Nics = 1..Len(Nics)
    BY NicFacts
  <2> HIDE DEF Early
  <2> QED
    BY <2>1, <2>2 DEF NicPuts
<1>3. job.balloon \in BOOLEAN /\ job.vsock \in BOOLEAN
  BY JobsAssumption
<1>4. B \in Seq(Early) /\ V \in Seq(Early)
  <2>1. Put("balloon", NoName) \in Early /\ Put("vsock", NoName) \in Early
    BY DEF Put, PreBoot
  <2> QED
    BY <1>3, <2>1, PutIfFacts
<1>5. /\ M \in Seq(Late)
      /\ \A i \in DOMAIN M : Nics # <<>> /\ M[i].nic = MmdsNic
      /\ Nics # <<>> => Len(M) = 1 /\ M[1] = Put("mmds", MmdsNic)
  <2>1. CASE Nics # <<>>
    <3>1. Put("mmds", MmdsNic) \in Late
      BY <2>1, NicFacts DEF Put, PreBoot
    <3>2. Put("mmds", MmdsNic).nic = MmdsNic
      BY DEF Put
    <3> HIDE DEF Late
    <3> QED
      BY <2>1, <3>1, <3>2 DEF PutIf
  <2>2. CASE Nics = <<>>
    BY <2>2 DEF PutIf
  <2> QED
    BY <2>1, <2>2
<1> HIDE DEF Early, Late
<1> DEFINE P == A \o N
           Q == (P \o B) \o V
           R == Q \o M
<1>6. /\ P \in Seq(Early) /\ Len(P) = 3 + Len(Nics) /\ P[2] = Put("boot", NoName)
      /\ \A k \in DOMAIN Nics : P[3 + k] = Put("nic", NicId(k))
  <2>1. P \in Seq(Early) /\ Len(P) = 3 + Len(Nics) /\ P[2] = A[2]
    BY <1>1, <1>2, ConcatProperties
  <2>2. ASSUME NEW k \in DOMAIN Nics PROVE P[3 + k] = N[k]
    <3>1. k \in 1..Len(N)
      BY <1>2, NicFacts
    <3> QED
      BY <1>1, <1>2, <3>1, ConcatProperties
  <2> QED
    BY <1>1, <1>2, <2>1, <2>2
<1>7. /\ Q \in Seq(Early) /\ Len(Q) >= Len(P)
      /\ \A i \in 1..Len(P) : Q[i] = P[i]
  <2> HIDE DEF P, B, V
  <2>1. /\ (P \o B) \in Seq(Early) /\ Len(P \o B) >= Len(P)
        /\ \A i \in 1..Len(P) : (P \o B)[i] = P[i]
    BY <1>4, <1>6, ConcatProperties
  <2> DEFINE PB == P \o B
  <2> HIDE DEF PB
  <2>2. /\ PB \o V \in Seq(Early) /\ Len(PB \o V) >= Len(PB)
        /\ \A i \in 1..Len(PB) : (PB \o V)[i] = PB[i]
    BY <1>4, <2>1, ConcatProperties DEF PB
  <2> QED
    BY <1>6, <2>1, <2>2 DEF PB
<1> HIDE DEF P, B, V, Q, M
<1>8. /\ Q \o M \in Seq(Late) /\ Len(Q \o M) = Len(Q) + Len(M)
      /\ \A i \in 1..Len(Q) : (Q \o M)[i] = Q[i]
      /\ \A i \in (Len(Q) + 1)..Len(Q \o M) : (Q \o M)[i] = M[i - Len(Q)]
  <2>1. Q \in Seq(Late)
    BY <1>0, <1>7, SeqMonotonic
  <2> QED
    BY <1>5, <2>1, ConcatProperties
<1>9. /\ R \in Seq(Late) /\ Len(R) >= 3 + Len(Nics) /\ R[2] = Put("boot", NoName)
      /\ \A k \in DOMAIN Nics : R[3 + k] = Put("nic", NicId(k))
      /\ \A i \in 1..Len(R) :
           R[i].to = "mmds" => i > 3 + Len(Nics) /\ Nics # <<>> /\ R[i].nic = MmdsNic
      /\ Nics # <<>> => \E i \in 1..Len(R) : R[i] = Put("mmds", MmdsNic)
  <2>1. Len(Q) \in Nat /\ Len(M) \in Nat /\ Len(Nics) \in Nat /\ DOMAIN M = 1..Len(M)
    BY <1>5, <1>7, NicFacts
  <2>2. ASSUME NEW i \in 1..Len(R), R[i].to = "mmds"
        PROVE  i > 3 + Len(Nics) /\ Nics # <<>> /\ R[i].nic = MmdsNic
    <3>1. CASE i \in 1..Len(Q)
      <4>1. R[i] = Q[i] /\ Q[i] \in Early
        BY <1>7, <1>8, <3>1, ElementOfSeq
      <4> QED
        BY <1>0, <2>2, <4>1
    <3>2. CASE i \in (Len(Q) + 1)..Len(R)
      BY <1>5, <1>6, <1>7, <1>8, <2>1, <3>2
    <3> QED
      BY <1>8, <2>1, <3>1, <3>2
  <2>3. ASSUME Nics # <<>> PROVE \E i \in 1..Len(R) : R[i] = Put("mmds", MmdsNic)
    <3>1. R[Len(Q) + 1] = M[1] /\ Len(Q) + 1 \in 1..Len(R)
      BY <1>5, <1>8, <2>1, <2>3
    <3> QED
      BY <1>5, <2>3, <3>1
  <2>4. 2 \in 1..Len(P) /\ \A k \in DOMAIN Nics : 3 + k \in 1..Len(P)
    BY <1>6, <2>1, NicFacts
  <2>5. \A i \in 1..Len(P) : R[i] = P[i]
    BY <1>6, <1>7, <1>8, <2>1
  <2> QED
    BY <1>6, <1>7, <1>8, <2>1, <2>2, <2>3, <2>4, <2>5
<1>10. ConfigureVM = R \o E
  BY DEF ConfigureVM, P, B, V, Q, M
<1> HIDE DEF R
<1>11. R \in Seq(Puts) /\ E \in Seq(Puts) /\ Len(E) = 1 /\ E[1] = Put("start", NoName)
  <2>1. R \in Seq(Puts)
    BY <1>0, <1>9, SeqMonotonic
  <2>2. Put("start", NoName) \in Puts
    BY DEF Put, Puts
  <2> QED
    BY <2>1, <2>2
<1> HIDE DEF E
<1>12. /\ ConfigureVM \in Seq(Puts) /\ Len(ConfigureVM) = Len(R) + 1
       /\ \A i \in 1..Len(R) : ConfigureVM[i] = R[i]
       /\ ConfigureVM[Len(R) + 1] = Put("start", NoName)
  <2>1. /\ R \o E \in Seq(Puts) /\ Len(R \o E) = Len(R) + Len(E)
        /\ \A i \in 1..Len(R) : (R \o E)[i] = R[i]
        /\ \A i \in (Len(R) + 1)..Len(R \o E) : (R \o E)[i] = E[i - Len(R)]
    <3>1. /\ R \o E \in Seq(Puts) /\ Len(R \o E) = Len(R) + Len(E)
          /\ \A i \in 1..(Len(R) + Len(E)) :
               (R \o E)[i] = IF i <= Len(R) THEN R[i] ELSE E[i - Len(R)]
      BY <1>11, ConcatProperties
    <3>2. Len(R) \in Nat
      BY <1>9
    <3> QED
      BY <1>11, <3>1, <3>2
  <2>2. Len(R) \in Nat
    BY <1>9
  <2>3. Len(R) + 1 \in (Len(R) + 1)..(Len(R) + 1) /\ (Len(R) + 1) - Len(R) = 1
    BY <2>2
  <2> QED
    BY <1>10, <1>11, <2>1, <2>2, <2>3
<1>13. \A i \in 1..Len(R) : R[i].to \in PreBoot
  BY <1>0, <1>9, ElementOfSeq
<1>14. Len(R) \in Nat /\ Len(Nics) \in Nat /\ DOMAIN Nics = 1..Len(Nics)
       /\ DOMAIN ConfigureVM = 1..(Len(R) + 1)
  BY <1>9, <1>12, NicFacts
<1>15. "start" \notin PreBoot /\ Put("start", NoName).to = "start"
  BY DEF PreBoot, Put
<1>16. ASSUME NEW i \in DOMAIN ConfigureVM
       PROVE  /\ ConfigureVM[i].to \in PreBoot \cup {"start"}
              /\ ConfigureVM[i].to = "start" <=> i = Len(ConfigureVM)
              /\ ConfigureVM[i].to = "mmds" =>
                   i > 3 + Len(Nics) /\ Nics # <<>> /\ ConfigureVM[i].nic = MmdsNic
  <2>1. CASE i \in 1..Len(R)
    BY <1>9, <1>12, <1>13, <1>14, <1>15, <2>1
  <2>2. CASE i = Len(R) + 1
    BY <1>12, <1>15, <2>2 DEF PreBoot
  <2> QED
    BY <1>14, <2>1, <2>2
<1>17. 2 \in 1..Len(R) /\ \A k \in DOMAIN Nics : 3 + k \in 1..Len(R)
  BY <1>9, <1>14
<1>18. /\ Len(ConfigureVM) > 3 + Len(Nics)
       /\ ConfigureVM[2] = Put("boot", NoName)
       /\ \A k \in DOMAIN Nics : ConfigureVM[3 + k] = Put("nic", NicId(k))
  BY <1>9, <1>12, <1>14, <1>17
<1>19. Nics # <<>> => \E i \in DOMAIN ConfigureVM : ConfigureVM[i] = Put("mmds", MmdsNic)
  BY <1>9, <1>12, <1>14
<1> QED
  BY <1>12, <1>16, <1>18, <1>19

(* Where the calls of an attempt stand: the logger first, the metadata last.*)
LEMMA CallsFacts ==
  ASSUME job \in Jobs, restore \in BOOLEAN
  PROVE  /\ Boot \in Nat /\ Len(Calls) \in Nat
         /\ Len(Calls) = IF BuildMmdsContent = Nothing THEN Boot + 1 ELSE Boot + 2
         /\ Calls[1] = Put("logger", NoName)
         /\ restore => Calls[2] = Put("load", NoName)
         /\ ~restore => \A i \in DOMAIN ConfigureVM : Calls[i + 1] = ConfigureVM[i]
         /\ BuildMmdsContent # Nothing => Calls[Boot + 2] = Put("data", NoName)
<1> DEFINE L == <<Put("logger", NoName)>>
           B == IF restore THEN <<Put("load", NoName)>> ELSE ConfigureVM
           D == PutIf(BuildMmdsContent # Nothing, "data", NoName)
           S == Puts \cup {Put("load", NoName), Put("data", NoName)}
<1>1. /\ ConfigureVM \in Seq(S) /\ Len(ConfigureVM) \in Nat
      /\ DOMAIN ConfigureVM = 1..Len(ConfigureVM)
  <2>1. ConfigureVM \in Seq(Puts)
    BY ConfigureFacts
  <2> QED
    BY <2>1, SeqMonotonic
<1>2. L \in Seq(S) /\ Len(L) = 1 /\ L[1] = Put("logger", NoName)
  <2>1. Put("logger", NoName) \in S
    BY DEF Puts, Put
  <2> HIDE DEF S
  <2> QED
    BY <2>1
<1>3. /\ B \in Seq(S) /\ Len(B) = Boot /\ Boot \in Nat
      /\ restore => B[1] = Put("load", NoName)
      /\ ~restore => B = ConfigureVM
  <2>1. CASE restore
    <3>1. Put("load", NoName) \in S
      OBVIOUS
    <3> HIDE DEF S
    <3>2. B = <<Put("load", NoName)>>
      BY <2>1
    <3> QED
      BY <2>1, <3>1, <3>2 DEF Boot
  <2>2. CASE ~restore
    BY <1>1, <2>2 DEF Boot
  <2> QED
    BY <2>1, <2>2
<1>4. /\ D \in Seq(S)
      /\ BuildMmdsContent = Nothing => Len(D) = 0
      /\ BuildMmdsContent # Nothing => Len(D) = 1 /\ D[1] = Put("data", NoName)
  <2>1. Put("data", NoName) \in S
    OBVIOUS
  <2> HIDE DEF S
  <2>2. CASE BuildMmdsContent = Nothing
    BY <2>2 DEF PutIf
  <2>3. CASE BuildMmdsContent # Nothing
    BY <2>1, <2>3 DEF PutIf
  <2> QED
    BY <2>2, <2>3
<1> HIDE DEF L, B, D, S
<1> DEFINE LB == L \o B
<1>5. /\ LB \in Seq(S) /\ Len(LB) = Boot + 1
      /\ LB[1] = L[1] /\ \A i \in 1..Boot : LB[i + 1] = B[i]
  <2>1. /\ LB \in Seq(S) /\ Len(LB) = Len(L) + Len(B)
        /\ \A i \in 1..(Len(L) + Len(B)) :
             LB[i] = IF i <= Len(L) THEN L[i] ELSE B[i - Len(L)]
    BY <1>2, <1>3, ConcatProperties
  <2> HIDE DEF LB
  <2>2. Len(L) = 1 /\ Len(B) = Boot /\ Boot \in Nat
    BY <1>2, <1>3
  <2>3. \A i \in 1..(1 + Boot) : LB[i] = IF i <= 1 THEN L[i] ELSE B[i - 1]
    BY <2>1, <2>2
  <2>4. ASSUME NEW i \in 1..Boot PROVE LB[i + 1] = B[i]
    <3>1. i + 1 \in 1..(1 + Boot) /\ ~(i + 1 <= 1) /\ (i + 1) - 1 = i
      BY <2>2
    <3> QED
      BY <2>3, <3>1
  <2>5. LB[1] = L[1]
    BY <2>2, <2>3
  <2>6. LB \in Seq(S) /\ Len(LB) = Boot + 1
    BY <2>1, <2>2
  <2> QED
    BY <2>4, <2>5, <2>6
<1> HIDE DEF LB
<1>6. /\ LB \o D \in Seq(S) /\ Len(LB \o D) = Len(LB) + Len(D)
      /\ \A i \in 1..(Len(LB) + Len(D)) :
           (LB \o D)[i] = IF i <= Len(LB) THEN LB[i] ELSE D[i - Len(LB)]
  BY <1>4, <1>5, ConcatProperties
<1>7. Calls = LB \o D
  BY DEF Calls, LB, L, B, D
<1>8. /\ Len(Calls) \in Nat
      /\ Len(Calls) = IF BuildMmdsContent = Nothing THEN Boot + 1 ELSE Boot + 2
  <2>1. Len(Calls) = (Boot + 1) + Len(D) /\ Boot \in Nat
    BY <1>3, <1>5, <1>6, <1>7
  <2>2. CASE BuildMmdsContent = Nothing
    BY <1>4, <2>1, <2>2
  <2>3. CASE BuildMmdsContent # Nothing
    <3>1. Len(D) = 1
      BY <1>4, <2>3
    <3>2. Len(Calls) = Boot + 2 /\ Boot + 2 \in Nat
      BY <2>1, <3>1
    <3> QED
      BY <2>3, <3>2
  <2> QED
    BY <2>2, <2>3
<1>9. \A i \in 1..(Boot + 1) : Calls[i] = LB[i]
  <2>1. Len(LB) = Boot + 1 /\ Len(D) \in Nat /\ Boot \in Nat
    BY <1>3, <1>4, <1>5
  <2> QED
    BY <1>6, <1>7, <2>1
<1>10. ASSUME BuildMmdsContent # Nothing PROVE Calls[Boot + 2] = D[1]
  <2>1. Len(LB) = Boot + 1 /\ Len(D) = 1 /\ Boot \in Nat
    BY <1>3, <1>4, <1>5, <1>10
  <2>2. \A i \in 1..((Boot + 1) + 1) :
          Calls[i] = IF i <= Boot + 1 THEN LB[i] ELSE D[i - (Boot + 1)]
    BY <1>6, <1>7, <2>1
  <2>3. Boot + 2 \in 1..((Boot + 1) + 1) /\ ~(Boot + 2 <= Boot + 1) /\ (Boot + 2) - (Boot + 1) = 1
    BY <2>1
  <2> QED
    BY <2>2, <2>3
<1>11. ASSUME ~restore, NEW i \in DOMAIN ConfigureVM PROVE Calls[i + 1] = ConfigureVM[i]
  <2>1. i \in 1..Boot /\ B = ConfigureVM
    BY <1>1, <1>3, <1>11
  <2>2. i + 1 \in 1..(Boot + 1)
    BY <1>3, <2>1
  <2> QED
    BY <1>5, <1>9, <2>1, <2>2
<1>12. ASSUME restore PROVE Calls[2] = Put("load", NoName)
  <2>1. Boot = 1
    BY <1>12 DEF Boot
  <2>2. Calls[2] = LB[2] /\ LB[1 + 1] = B[1]
    BY <1>5, <1>9, <2>1
  <2> QED
    BY <1>3, <1>12, <2>2
<1>13. Calls[1] = Put("logger", NoName)
  <2>1. 1 \in 1..(Boot + 1)
    BY <1>3
  <2> QED
    BY <1>2, <1>5, <1>9, <2>1
<1>14. BuildMmdsContent # Nothing => Calls[Boot + 2] = Put("data", NoName)
  BY <1>4, <1>10
<1> QED
  BY <1>3, <1>8, <1>11, <1>12, <1>13, <1>14

(* What the driver adds to a list stands behind what was there. *)
LEMMA AppendedFacts ==
  ASSUME NEW S, NEW existing \in Seq(S) \cup {NotList}, NEW entries \in Seq(S)
  PROVE  /\ Appended(existing, entries) \in Seq(S) \cup {NotList}
         /\ entries # <<>> => /\ Range(entries) \subseteq Range(Appended(existing, entries))
                              /\ IsSuffix(entries, Appended(existing, entries))
         /\ existing # NotList => IsPrefix(existing, Appended(existing, entries))
<1>1. ASSUME NEW s \in Seq(S) PROVE IsPrefix(s, s) /\ IsSuffix(s, s)
  BY DEF IsPrefix, IsSuffix, Reverse
<1>2. CASE entries = <<>>
  BY <1>1, <1>2 DEF Appended
<1>3. CASE entries # <<>> /\ existing = NotList
  BY <1>1, <1>3 DEF Appended
<1>4. CASE entries # <<>> /\ existing # NotList
  <2> DEFINE both == existing \o entries
  <2>1. existing \in Seq(S) /\ Appended(existing, entries) = both
    BY <1>4 DEF Appended
  <2>2. /\ both \in Seq(S) /\ Len(both) = Len(existing) + Len(entries)
        /\ \A i \in 1..(Len(existing) + Len(entries)) :
             both[i] = IF i <= Len(existing) THEN existing[i] ELSE entries[i - Len(existing)]
    BY <2>1, ConcatProperties
  <2> HIDE DEF both
  <2>3. Len(existing) \in Nat /\ Len(entries) \in Nat
    BY <2>1
  <2>4. \A i \in 1..Len(entries) :
          Len(existing) + i \in DOMAIN both /\ both[Len(existing) + i] = entries[i]
    BY <2>2, <2>3
  <2>5. Range(entries) \subseteq Range(both)
    BY <2>4 DEF Range
  <2>6. IsPrefix(existing, both)
    <3>1. \A i \in 1..Len(existing) : both[i] = existing[i]
      BY <2>2, <2>3
    <3> QED
      BY <2>1, <2>2, <2>3, <3>1 DEF IsPrefix
  <2>7. IsSuffix(entries, both)
    <3>1. /\ Len(Reverse(entries)) = Len(entries) /\ Len(Reverse(both)) = Len(both)
          /\ Reverse(entries) \in Seq(S) /\ Reverse(both) \in Seq(S)
      BY <2>2 DEF Reverse
    <3>2. ASSUME NEW i \in 1..Len(entries) PROVE Reverse(both)[i] = Reverse(entries)[i]
      <4>1. Len(entries) - i + 1 \in 1..Len(entries)
        BY <2>3
      <4>2. both[Len(existing) + (Len(entries) - i + 1)] = entries[Len(entries) - i + 1]
        BY <2>4, <4>1
      <4>3. Len(existing) + (Len(entries) - i + 1) = Len(both) - i + 1
        BY <2>2, <2>3
      <4> QED
        BY <2>2, <2>3, <4>2, <4>3 DEF Reverse
    <3> QED
      BY <2>2, <2>3, <3>1, <3>2 DEF IsSuffix, IsPrefix
  <2> QED
    BY <2>1, <2>2, <2>5, <2>6, <2>7
<1> QED
  BY <1>2, <1>3, <1>4

(* The metadata of an attempt, and what it holds of the network, the mounts *)
(* and the user's own.                                                      *)
LEMMA ContentFacts ==
  ASSUME job \in Jobs, nets \in Seq(Net)
  PROVE  /\ BuildMmdsContent \in Content \cup {Nothing}
         /\ BuildMmdsContent = Nothing <=>
              job.user = Nothing /\ nets = <<>> /\ job.mounts = <<>>
         /\ BuildMmdsContent # Nothing =>
              /\ Range(nets) \subseteq Range(BuildMmdsContent.ips)
              /\ job.mounts # <<>> => IsSuffix(job.mounts, BuildMmdsContent.mounts)
              /\ job.user # Nothing =>
                   /\ job.user.ips # NotList => IsPrefix(job.user.ips, BuildMmdsContent.ips)
                   /\ job.user.mounts # NotList =>
                        IsPrefix(job.user.mounts, BuildMmdsContent.mounts)
<1> DEFINE none == [ips |-> NotList, mounts |-> NotList]
           user == IF job.user = Nothing THEN none ELSE job.user
           built == [ips |-> Appended(user.ips, nets),
                     mounts |-> Appended(user.mounts, job.mounts)]
<1>1. job.user \in Content \cup {Nothing} /\ job.mounts \in Seq(Mounts)
  BY JobsAssumption
<1>2. user.ips \in Seq(Net) \cup {NotList} /\ user.mounts \in Seq(Mounts) \cup {NotList}
  <2>1. CASE job.user = Nothing
    BY <2>1
  <2>2. CASE job.user # Nothing
    BY <1>1, <2>2 DEF Content
  <2> QED
    BY <2>1, <2>2
<1> HIDE DEF user
<1>3. /\ Appended(user.ips, nets) \in Seq(Net) \cup {NotList}
      /\ nets # <<>> => Range(nets) \subseteq Range(Appended(user.ips, nets))
      /\ user.ips # NotList => IsPrefix(user.ips, Appended(user.ips, nets))
  BY <1>2, AppendedFacts
<1>4. /\ Appended(user.mounts, job.mounts) \in Seq(Mounts) \cup {NotList}
      /\ job.mounts # <<>> => IsSuffix(job.mounts, Appended(user.mounts, job.mounts))
      /\ user.mounts # NotList => IsPrefix(user.mounts, Appended(user.mounts, job.mounts))
  BY <1>1, <1>2, AppendedFacts
<1>5. built \in Content /\ built # Nothing
  BY <1>3, <1>4, NothingAssumption DEF Content
<1>6. nets = <<>> => Range(nets) = {}
  BY DEF Range
<1>7. BuildMmdsContent =
        IF job.user = Nothing /\ nets = <<>> /\ job.mounts = <<>> THEN Nothing ELSE built
  BY DEF BuildMmdsContent, user
<1>8. built.ips = Appended(user.ips, nets) /\ built.mounts = Appended(user.mounts, job.mounts)
  OBVIOUS
<1>9. job.user # Nothing => user = job.user
  BY DEF user
<1> HIDE DEF built
<1>10. CASE BuildMmdsContent = Nothing
  BY <1>5, <1>7, <1>10
<1>11. CASE BuildMmdsContent # Nothing
  <2>1. BuildMmdsContent = built
    BY <1>7, <1>11
  <2>2. Range(nets) \subseteq Range(built.ips)
    BY <1>3, <1>6, <1>8
  <2> QED
    BY <1>3, <1>4, <1>5, <1>7, <1>8, <1>9, <1>11, <2>1, <2>2
<1> QED
  BY <1>10, <1>11

-------------------------------------------------------------------------------
(* The network.                                                            *)

(* What is read of a veth: each of its usable addresses, with the gateway   *)
(* of its family unless the routes of the family could not be listed.       *)
LEMMA NetFacts ==
  ASSUME veth \in Veths, NEW lost \in SUBSET Family
  PROVE  /\ ReadVethConfigs(lost) \in Seq(Net)
         /\ Usable => ReadVethConfigs(lost) # <<>>
         /\ \A f \in Family : \A ip \in Range(veth[f]) :
              [ip |-> ip, gateway |-> IF f \in lost THEN NoGateway ELSE FindGateway(f)]
                \in Range(ReadVethConfigs(lost))
<1> DEFINE Gateway(f) == IF f \in lost THEN NoGateway ELSE FindGateway(f)
           C4 == Configs(veth.v4, Gateway("v4"))
           C6 == Configs(veth.v6, Gateway("v6"))
<1>1. /\ veth.v4 \in Seq(Addresses) /\ veth.v6 \in Seq(Addresses)
      /\ veth.own \in Routes /\ veth.all \in Routes
  BY TapAssumption
<1>2. ASSUME NEW f \in Family PROVE Gateway(f) \in Gateways \cup {NoGateway}
  BY <1>1 DEF FindGateway, Routes
<1>3. ASSUME NEW a \in Seq(Addresses), NEW g \in Gateways \cup {NoGateway}
      PROVE  /\ Configs(a, g) \in Seq(Net) /\ Len(Configs(a, g)) = Len(a)
             /\ \A i \in 1..Len(a) : Configs(a, g)[i] = [ip |-> a[i], gateway |-> g]
  <2>1. \A i \in DOMAIN a : [ip |-> a[i], gateway |-> g] \in Net
    BY DEF Net
  <2> QED
    BY <2>1 DEF Configs
<1>4. Gateway("v4") \in Gateways \cup {NoGateway} /\ Gateway("v6") \in Gateways \cup {NoGateway}
  BY <1>2 DEF Family
<1>5. /\ C4 \in Seq(Net) /\ Len(C4) = Len(veth.v4)
      /\ \A i \in 1..Len(veth.v4) : C4[i] = [ip |-> veth.v4[i], gateway |-> Gateway("v4")]
  BY <1>1, <1>3, <1>4
<1>6. /\ C6 \in Seq(Net) /\ Len(C6) = Len(veth.v6)
      /\ \A i \in 1..Len(veth.v6) : C6[i] = [ip |-> veth.v6[i], gateway |-> Gateway("v6")]
  BY <1>1, <1>3, <1>4
<1>7. ReadVethConfigs(lost) = C4 \o C6
  BY DEF ReadVethConfigs
<1> HIDE DEF C4, C6
<1> DEFINE both == C4 \o C6
<1>8. /\ both \in Seq(Net) /\ Len(both) = Len(C4) + Len(C6)
      /\ \A i \in 1..(Len(C4) + Len(C6)) :
           both[i] = IF i <= Len(C4) THEN C4[i] ELSE C6[i - Len(C4)]
  <2>1. C4 \in Seq(Net) /\ C6 \in Seq(Net)
    BY <1>5, <1>6
  <2> HIDE DEF Gateway
  <2> QED
    BY <2>1, ConcatProperties
<1> HIDE DEF both
<1>9. Len(C4) \in Nat /\ Len(C6) \in Nat /\ DOMAIN both = 1..(Len(C4) + Len(C6))
  <2>1. C4 \in Seq(Net) /\ C6 \in Seq(Net)
    BY <1>5, <1>6
  <2>2. Len(C4) \in Nat /\ Len(C6) \in Nat
    BY <2>1
  <2>3. DOMAIN both = 1..Len(both)
    BY <1>8
  <2> QED
    BY <1>8, <2>2, <2>3
<1>10. ASSUME NEW i \in 1..Len(veth.v4)
       PROVE  [ip |-> veth.v4[i], gateway |-> Gateway("v4")] \in Range(both)
  <2>1. i \in DOMAIN both /\ both[i] = C4[i]
    BY <1>5, <1>8, <1>9
  <2> QED
    BY <1>5, <2>1 DEF Range
<1>11. ASSUME NEW i \in 1..Len(veth.v6)
       PROVE  [ip |-> veth.v6[i], gateway |-> Gateway("v6")] \in Range(both)
  <2>1. /\ Len(C4) + i \in 1..(Len(C4) + Len(C6)) /\ ~(Len(C4) + i <= Len(C4))
        /\ (Len(C4) + i) - Len(C4) = i
    BY <1>6, <1>9
  <2>2. Len(C4) + i \in DOMAIN both /\ both[Len(C4) + i] = C6[i]
    BY <1>8, <1>9, <2>1
  <2> QED
    BY <1>6, <2>2 DEF Range
<1>12. /\ \A ip \in Range(veth.v4) : \E i \in 1..Len(veth.v4) : ip = veth.v4[i]
       /\ \A ip \in Range(veth.v6) : \E i \in 1..Len(veth.v6) : ip = veth.v6[i]
  BY <1>1 DEF Range
<1>13. ASSUME NEW f \in Family, NEW ip \in Range(veth[f])
       PROVE  [ip |-> ip, gateway |-> Gateway(f)] \in Range(both)
  <2>1. CASE f = "v4"
    BY <1>10, <1>12, <2>1
  <2>2. CASE f = "v6"
    BY <1>11, <1>12, <2>2
  <2> QED
    BY <2>1, <2>2 DEF Family
<1>14. Usable => both # <<>>
  <2>1. Usable => Len(veth.v4) > 0 \/ Len(veth.v6) > 0
    BY <1>1 DEF Usable
  <2>2. Len(both) = Len(veth.v4) + Len(veth.v6)
    BY <1>5, <1>6, <1>8
  <2>3. both = <<>> => Len(both) = 0
    BY <1>8
  <2>4. Len(veth.v4) \in Nat /\ Len(veth.v6) \in Nat
    BY <1>1
  <2>5. ASSUME Usable PROVE Len(both) # 0
    <3>1. Len(veth.v4) > 0 \/ Len(veth.v6) > 0
      BY <2>1, <2>5
    <3>2. \A m, n \in Nat : m > 0 \/ n > 0 => m + n # 0
      OBVIOUS
    <3> QED
      BY <2>2, <2>4, <3>1, <3>2
  <2> QED
    BY <2>3, <2>5
<1> QED
  BY <1>7, <1>8, <1>13, <1>14 DEF both

LEMMA LinkDelKeeps ==
  ASSUME TapTypeOK, TapInv, LinkDel
  PROVE  /\ tap' \in [index : Nat, mtu : BOOLEAN, up : BOOLEAN]
         /\ ingress' \subseteq {"veth", "tap"}
         /\ atVeth' \in Seq(Nat) /\ atTap' \in Seq(Nat)
         /\ nextIndex' = nextIndex
         /\ tap'.index = 0 => tap' = NoTap
<1>1. CASE UNCHANGED namespace
  BY <1>1 DEF TapTypeOK, TapInv, namespace
<1>2. CASE /\ tap' = NoTap /\ atTap' = <<>> /\ ingress' = ingress \ {"tap"}
           /\ UNCHANGED <<nextIndex, atVeth>>
  BY <1>2 DEF TapTypeOK, NoTap
<1> QED
  BY <1>1, <1>2 DEF LinkDel

LEMMA AppendLast ==
  ASSUME NEW s \in Seq(Nat), NEW x \in Nat
  PROVE  /\ Append(s, x) \in Seq(Nat) /\ Append(s, x) # <<>>
         /\ Append(s, x)[Len(Append(s, x))] = x
<1>1. /\ Append(s, x) \in Seq(Nat) /\ Append(s, x) # <<>>
      /\ Len(Append(s, x)) = Len(s) + 1
  BY AppendProperties
<1>2. Append(s, x)[Len(s) + 1] = x
  BY AppendProperties
<1> QED
  BY <1>1, <1>2

(* Each step of SetupTapRedirect leaves behind what the later ones rely on. *)
LEMMA SetupKeeps ==
  ASSUME TapTypeOK, TapInv, SetupTapRedirect
  PROVE  TapTypeOK' /\ TapInv'
<1> USE DEF TapTypeOK, TapInv, namespace, Fault, VethIndex
<1>0. UNCHANGED left
  BY DEF SetupTapRedirect
<1>1. CASE ReadVeth
  <2>1. unrouted' \in SUBSET Family /\ nets' = ReadVethConfigs(unrouted')
    BY <1>1 DEF ReadVeth
  <2>2. ReadVethConfigs(unrouted') \in Seq(Net)
    BY <2>1, NetFacts
  <2>3. ReadVethConfigs(unrouted)' = ReadVethConfigs(unrouted') /\ Usable'
    BY <1>1 DEF ReadVeth, ReadVethConfigs, FindGateway, Usable
  <2>4. faults' \in Nat
    BY <1>1, TapAssumption DEF ReadVeth
  <2>5. TapTypeOK'
    BY <1>0, <1>1, <2>1, <2>2, <2>4 DEF ReadVeth
  <2>6. TapInv'
    BY <1>1, <2>1, <2>3 DEF ReadVeth
  <2> QED
    BY <2>5, <2>6
<1>2. CASE ReadVethFails
  <2>1. faults' \in Nat
    BY <1>2 DEF ReadVethFails
  <2>2. TapTypeOK'
    BY <1>0, <1>2, <2>1 DEF ReadVethFails
  <2>3. TapInv'
    BY <1>2 DEF ReadVethFails
  <2> QED
    BY <2>2, <2>3
<1>3. ASSUME UNCHANGED <<veth, nets, unrouted>>
      PROVE  /\ ReadVethConfigs(unrouted)' = ReadVethConfigs(unrouted)
             /\ Usable' = Usable
  BY <1>3 DEF ReadVethConfigs, FindGateway, Usable
<1>4. CASE LinkAdd
  <2>1. /\ tap' \in [index : Nat, mtu : BOOLEAN, up : BOOLEAN]
        /\ nextIndex' \in Nat /\ nextIndex' > 1 /\ tap'.index # 0
        /\ added' \in BOOLEAN
    <3>1. CASE tap = NoTap
      <4>1. /\ tap' = [NoTap EXCEPT !.index = nextIndex]
            /\ nextIndex' = nextIndex + 1 /\ added' = TRUE
        BY <1>4, <3>1 DEF LinkAdd
      <4>2. nextIndex \in Nat /\ nextIndex > 1
        OBVIOUS
      <4>3. tap' \in [index : Nat, mtu : BOOLEAN, up : BOOLEAN] /\ tap'.index = nextIndex
        BY <4>1, <4>2 DEF NoTap
      <4> QED
        BY <4>1, <4>2, <4>3
    <3>2. CASE tap # NoTap
      BY <1>4, <3>2 DEF LinkAdd
    <3> QED
      BY <3>1, <3>2
  <2>2. TapTypeOK'
    BY <1>0, <1>4, <2>1 DEF LinkAdd
  <2>3. TapInv'
    BY <1>3, <1>4, <2>1 DEF LinkAdd
  <2> QED
    BY <2>2, <2>3
<1>5. CASE LinkSetMTU
  <2>1. /\ tap' \in [index : Nat, mtu : BOOLEAN, up : BOOLEAN]
        /\ tap'.index = tap.index /\ tap'.mtu
    BY <1>5 DEF LinkSetMTU
  <2>2. TapTypeOK'
    BY <1>0, <1>5, <2>1 DEF LinkSetMTU
  <2>3. TapInv'
    BY <1>3, <1>5, <2>1 DEF LinkSetMTU
  <2> QED
    BY <2>2, <2>3
<1>6. CASE LinkSetUp
  <2>1. /\ tap' \in [index : Nat, mtu : BOOLEAN, up : BOOLEAN]
        /\ tap'.index = tap.index /\ tap'.mtu /\ tap'.up
    BY <1>6 DEF LinkSetUp
  <2>2. TapTypeOK'
    BY <1>0, <1>6, <2>1 DEF LinkSetUp
  <2>3. TapInv'
    BY <1>3, <1>6, <2>1 DEF LinkSetUp
  <2> QED
    BY <2>2, <2>3
<1>7. CASE LinkByName
  <2>1. TapTypeOK'
    BY <1>0, <1>7 DEF LinkByName
  <2>2. TapInv'
    BY <1>3, <1>7 DEF LinkByName
  <2> QED
    BY <2>1, <2>2
<1>8. CASE CreateTapFails
  <2>1. /\ tap' \in [index : Nat, mtu : BOOLEAN, up : BOOLEAN]
        /\ ingress' \subseteq {"veth", "tap"}
        /\ atVeth' \in Seq(Nat) /\ atTap' \in Seq(Nat)
        /\ nextIndex' = nextIndex
        /\ tap'.index = 0 => tap' = NoTap
    <3>1. CASE LinkDel
      BY <3>1, LinkDelKeeps
    <3>2. CASE UNCHANGED namespace
      BY <3>2
    <3> QED
      BY <1>8, <3>1, <3>2 DEF CreateTapFails
  <2>2. TapTypeOK'
    BY <1>0, <1>8, <2>1 DEF CreateTapFails
  <2>3. TapInv'
    BY <1>8, <2>1 DEF CreateTapFails
  <2> QED
    BY <2>2, <2>3
<1>9. CASE QdiscAdd
  <2>1. TapTypeOK'
    BY <1>0, <1>9 DEF QdiscAdd
  <2>2. TapInv'
    BY <1>3, <1>9 DEF QdiscAdd
  <2> QED
    BY <2>1, <2>2
<1>10. CASE FilterAddVeth
  <2>1. tap.index \in Nat
    OBVIOUS
  <2>2. atVeth' \in Seq(Nat) /\ atVeth' # <<>> /\ atVeth'[Len(atVeth')] = tap.index
    BY <1>10, <2>1, AppendLast DEF FilterAddVeth
  <2>3. TapTypeOK'
    BY <1>0, <1>10, <2>2 DEF FilterAddVeth
  <2>4. TapInv'
    BY <1>3, <1>10, <2>2 DEF FilterAddVeth
  <2> QED
    BY <2>3, <2>4
<1>11. CASE FilterAddTap
  <2>1. atTap' \in Seq(Nat) /\ atTap' # <<>> /\ atTap'[Len(atTap')] = 1
    BY <1>11, AppendLast DEF FilterAddTap
  <2>2. TapTypeOK'
    BY <1>0, <1>11, <2>1 DEF FilterAddTap
  <2>3. TapInv'
    BY <1>3, <1>11, <2>1 DEF FilterAddTap
  <2> QED
    BY <2>2, <2>3
<1>12. CASE AddRedirectsFails
  <2>1. /\ tap' \in [index : Nat, mtu : BOOLEAN, up : BOOLEAN]
        /\ ingress' \subseteq {"veth", "tap"}
        /\ atVeth' \in Seq(Nat) /\ atTap' \in Seq(Nat)
        /\ nextIndex' = nextIndex
        /\ tap'.index = 0 => tap' = NoTap
    BY <1>12, LinkDelKeeps DEF AddRedirectsFails
  <2>2. TapTypeOK'
    BY <1>0, <1>12, <2>1 DEF AddRedirectsFails
  <2>3. TapInv'
    BY <1>12, <2>1 DEF AddRedirectsFails
  <2> QED
    BY <2>2, <2>3
<1> QED
  BY <1>1, <1>2, <1>4, <1>5, <1>6, <1>7, <1>8, <1>9, <1>10, <1>11, <1>12 DEF SetupTapRedirect

(* The network of an attempt past its set-up is left alone. *)
LEMMA TapKept ==
  ASSUME TapTypeOK, TapInv, UNCHANGED <<veth, namespace, call>>, faults' \in Nat,
         left' \subseteq LeftBehind
  PROVE  TapTypeOK' /\ TapInv'
<1>1. ReadVethConfigs(unrouted)' = ReadVethConfigs(unrouted) /\ Usable' = Usable
  BY DEF ReadVethConfigs, FindGateway, Usable, call
<1>2. TapTypeOK'
  BY DEF TapTypeOK, namespace, call
<1>3. TapInv'
  BY <1>1 DEF TapInv, namespace, call
<1> QED
  BY <1>2, <1>3

-------------------------------------------------------------------------------
(* What a step that leaves the job alone leaves alone.                      *)

LEMMA JobKept ==
  ASSUME job' = job
  PROVE  OnBridge' = OnBridge /\ Nics' = Nics /\ Valid' = Valid /\ ConfigureVM' = ConfigureVM
<1>1. OnBridge' = OnBridge /\ Nics' = Nics
  BY DEF Nics, OnBridge
<1>2. Valid' = Valid
  BY <1>1 DEF Valid, NicIds, NicId
<1>3. NicPuts' = NicPuts /\ MmdsNic' = MmdsNic
  BY <1>1 DEF NicPuts, NicId, MmdsNic
<1>4. ConfigureVM' = ConfigureVM
  BY <1>1, <1>3 DEF ConfigureVM
<1> QED
  BY <1>1, <1>2, <1>4

LEMMA CallsKept ==
  ASSUME UNCHANGED <<job, nets, restore>>
  PROVE  BuildMmdsContent' = BuildMmdsContent /\ Calls' = Calls /\ Boot' = Boot
<1>1. BuildMmdsContent' = BuildMmdsContent
  BY DEF BuildMmdsContent
<1>2. ConfigureVM' = ConfigureVM
  BY JobKept
<1> QED
  BY <1>1, <1>2 DEF Calls, Boot

-------------------------------------------------------------------------------
(* Which call is next.                                                      *)

LEMMA NextCall ==
  ASSUME IInv, called < Len(Calls)
  PROVE  /\ called = 0 => Call = Put("logger", NoName)
         /\ called = 1 /\ restore => Call = Put("load", NoName)
         /\ called > 0 /\ called <= Boot /\ ~restore =>
              called \in DOMAIN ConfigureVM /\ Call = ConfigureVM[called]
         /\ called > Boot =>
              /\ Call = Put("data", NoName) /\ BuildMmdsContent # Nothing
              /\ called = Boot + 1
<1>1. job \in Jobs /\ restore \in BOOLEAN /\ called \in Nat
  BY DEF IInv, TypeOK
<1>2. Boot \in Nat /\ DOMAIN ConfigureVM = 1..Len(ConfigureVM)
  BY <1>1, CallsFacts, ConfigureFacts
<1>3. /\ Len(Calls) \in Nat
      /\ BuildMmdsContent = Nothing => Len(Calls) = Boot + 1
      /\ BuildMmdsContent # Nothing => Len(Calls) = Boot + 2
  BY <1>1, CallsFacts
<1>4. called = 0 => Call = Put("logger", NoName)
  BY <1>1, CallsFacts DEF Call
<1>5. called = 1 /\ restore => Call = Put("load", NoName)
  BY <1>1, CallsFacts DEF Call
<1>6. ASSUME called > 0, called <= Boot, ~restore
      PROVE  called \in DOMAIN ConfigureVM /\ Call = ConfigureVM[called]
  <2>1. called \in DOMAIN ConfigureVM
    BY <1>1, <1>2, <1>6 DEF Boot
  <2> QED
    BY <1>1, <1>6, <2>1, CallsFacts DEF Call
<1>7. ASSUME called > Boot
      PROVE  /\ Call = Put("data", NoName) /\ BuildMmdsContent # Nothing
             /\ called = Boot + 1
  <2>1. BuildMmdsContent # Nothing
    BY <1>1, <1>2, <1>3, <1>7
  <2>2. called = Boot + 1
    BY <1>1, <1>2, <1>3, <1>7, <2>1
  <2>3. called + 1 = Boot + 2
    BY <1>2, <2>2
  <2> QED
    BY <1>1, <2>1, <2>2, <2>3, CallsFacts DEF Call
<1> QED
  BY <1>4, <1>5, <1>6, <1>7

(* Which call it is says how far the attempt is. *)
LEMMA CallPlace ==
  ASSUME IInv, called < Len(Calls)
  PROVE  /\ Call.to = "logger" => called = 0 /\ Call = Put("logger", NoName)
         /\ Call.to = "load" => called = 1 /\ restore
         /\ Call.to \in PreBoot =>
              /\ ~restore /\ called > 0 /\ called < Boot
              /\ called \in DOMAIN ConfigureVM /\ Call = ConfigureVM[called]
         /\ Call.to = "start" =>
              /\ ~restore /\ called > 0 /\ called = Boot
              /\ called \in DOMAIN ConfigureVM /\ Call = ConfigureVM[called]
         /\ Call.to = "data" => called = Boot + 1 /\ BuildMmdsContent # Nothing
<1>1. job \in Jobs /\ restore \in BOOLEAN /\ called \in Nat
  BY DEF IInv, TypeOK
<1>2. Boot \in Nat /\ (restore => Boot = 1) /\ (~restore => Boot = Len(ConfigureVM))
  BY <1>1, CallsFacts DEF Boot
<1>3. ASSUME NEW to, NEW nic PROVE Put(to, nic).to = to
  BY DEF Put
<1>4. CASE called = 0
  BY <1>3, <1>4, NextCall DEF PreBoot
<1>5. CASE called = 1 /\ restore
  BY <1>3, <1>5, NextCall DEF PreBoot
<1>6. CASE called > 0 /\ called <= Boot /\ ~restore
  <2>1. called \in DOMAIN ConfigureVM /\ Call = ConfigureVM[called]
    BY <1>6, NextCall
  <2>2. /\ Call.to \in PreBoot \cup {"start"}
        /\ Call.to = "start" <=> called = Len(ConfigureVM)
    BY <1>1, <2>1, ConfigureFacts
  <2>3. Call.to \in PreBoot => called < Boot
    BY <1>1, <1>2, <1>6, <2>2 DEF PreBoot
  <2>4. Call.to \notin {"logger", "load", "data"}
    BY <2>2 DEF PreBoot
  <2> QED
    BY <1>2, <1>6, <2>1, <2>2, <2>3, <2>4
<1>7. CASE called > Boot
  BY <1>3, <1>7, NextCall DEF PreBoot
<1>8. called = 0 \/ (called = 1 /\ restore) \/ (called > 0 /\ called <= Boot /\ ~restore)
      \/ called > Boot
  BY <1>1, <1>2
<1> QED
  BY <1>4, <1>5, <1>6, <1>7, <1>8

-------------------------------------------------------------------------------
(* IInv is inductive.  Its parts on a running guest and on the Firecracker   *)
(* processes left behind are kept by GuestNext and LeftNext, its core by the *)
(* lemmas before them.                                                       *)

Core == TypeOK /\ TapInv /\ PhaseInv /\ CallsInv /\ SavedInv

LEMMA InitIInv == Init => IInv
<1> SUFFICES ASSUME Init PROVE IInv
  OBVIOUS
<1> USE DEF Init, TapInit
<1>1. TypeOK
  <2>1. TapTypeOK
    <3>1. tap \in [index : Nat, mtu : BOOLEAN, up : BOOLEAN]
      BY DEF NoTap
    <3>2. atVeth \in Seq(Nat) /\ atTap \in Seq(Nat) /\ nets \in Seq(Net)
      OBVIOUS
    <3>3. nextIndex \in Nat /\ faults \in Nat
      BY DEF VethIndex
    <3> QED
      BY <3>1, <3>2, <3>3 DEF TapTypeOK
  <2>2. starts \in 0..MaxStarts /\ called \in Nat /\ opened \in Nat
    BY NothingAssumption
  <2>3. restore \in BOOLEAN /\ late \in BOOLEAN
    OBVIOUS
  <2> QED
    BY <2>1, <2>2, <2>3 DEF TypeOK
<1>2. TapInv
  BY DEF TapInv, NoTap, VethIndex
<1>3. PhaseInv
  BY DEF PhaseInv
<1>4. CallsInv
  BY DEF CallsInv
<1>5. SavedInv
  BY DEF SavedInv
<1>6. GuestInv
  BY DEF GuestInv
<1>7. LeftInv
  BY FS_EmptySet DEF LeftInv, LeftByFault
<1> QED
  BY <1>1, <1>2, <1>3, <1>4, <1>5, <1>6, <1>7 DEF IInv

(* A Firecracker that is left behind is put down with its attempt. *)
LEMMA LeaveTyped ==
  ASSUME TypeOK, Leave
  PROVE  left' \subseteq LeftBehind
<1>1. starts \in Nat /\ opened \in Nat /\ left \subseteq LeftBehind
  BY NothingAssumption DEF TypeOK, TapTypeOK
<1> QED
  BY <1>1 DEF Leave, LeftBehind

(* The end of the Firecracker process, alone or with the attempt. *)
LEMMA EndKeeps ==
  ASSUME IInv, VmmEnds, faults' \in Nat, left' \subseteq LeftBehind,
         UNCHANGED <<veth, namespace, call, job, starts, restore, late, called>>,
         phase' = "idle" \/ UNCHANGED <<phase, saved>>,
         saved' # Nothing =>
           /\ saved' \in [conf : SUBSET Puts, guest : {"reading", "configured"}]
           /\ \A i \in DOMAIN ConfigureVM : ConfigureVM[i] \in saved'.conf
  PROVE  Core'
<1> USE DEF VmmEnds
<1>1. TapTypeOK' /\ TapInv'
  BY TapKept DEF IInv, TypeOK
<1>2. TypeOK'
  BY <1>1 DEF IInv, TypeOK
<1>3. PhaseInv'
  BY JobKept, CallsKept DEF IInv, PhaseInv, call
<1>4. CallsInv'
  BY DEF CallsInv
<1>5. SavedInv'
  BY JobKept DEF IInv, SavedInv, All
<1> QED
  BY <1>1, <1>2, <1>3, <1>4, <1>5 DEF Core

(* An attempt that failed, with its Firecracker still to be killed. *)
LEMMA ErrorKeeps ==
  ASSUME IInv, GiveUp \/ CallFails \/ CleanupHangs
  PROVE  Core'
<1> USE DEF attempt, firecracker
<1>1. TypeOK /\ TapTypeOK /\ TapInv /\ PhaseInv /\ CallsInv /\ SavedInv
  BY DEF IInv, TypeOK
<1>2. /\ phase \in {"waiting", "calls", "cleanup"} /\ phase' \in {"cleanup", "hung"}
      /\ UNCHANGED <<veth, namespace, call, left, job, starts, restore, late, called,
                     firecracker>>
      /\ saved' = saved \/ saved' = Nothing
  BY DEF GiveUp, CallFails, CleanupHangs, Calling, tapVars
<1>3. faults' \in Nat
  BY <1>1 DEF GiveUp, CallFails, CleanupHangs, tapVars, Fault, TapTypeOK
<1>4. TapTypeOK' /\ TapInv'
  <2>1. left' \subseteq LeftBehind
    BY <1>1, <1>2 DEF TapTypeOK
  <2> QED
    BY <1>1, <1>2, <1>3, <2>1, TapKept
<1>5. TypeOK'
  BY <1>1, <1>2, <1>4 DEF TypeOK
<1>6. PhaseInv'
  BY <1>1, <1>2, JobKept DEF PhaseInv, call
<1>7. CallsInv'
  BY <1>2 DEF CallsInv
<1>8. SavedInv'
  BY <1>1, <1>2, JobKept DEF SavedInv, All
<1> QED
  BY <1>4, <1>5, <1>6, <1>7, <1>8 DEF Core

(* From the call of StartTask to the launch. *)
LEMMA LaunchKeeps ==
  ASSUME IInv,
         StartTask \/ SetupStep \/ AutoSetup \/ Launch \/ LaunchFails \/ Crash
  PROVE  Core'
<1> USE DEF attempt, firecracker
<1>1. TypeOK /\ TapTypeOK /\ TapInv /\ PhaseInv /\ SavedInv
  BY DEF IInv, TypeOK
<1>2. CASE StartTask
  <2>1. TapTypeOK' /\ TapInv'
    <3>1. setup' \in {"off", "read"} /\ nets' \in Seq(Net) /\ added' \in BOOLEAN
          /\ unrouted' \subseteq Family
      <4>1. setup' \in {"off", "read"} /\ nets' = <<>> /\ added' = FALSE /\ unrouted' = {}
        BY <1>2 DEF StartTask
      <4>2. <<>> \in Seq(Net)
        OBVIOUS
      <4> QED
        BY <4>1, <4>2
    <3>2. TapTypeOK'
      BY <1>1, <1>2, <3>1 DEF StartTask, TapTypeOK, namespace
    <3>3. TapInv'
      BY <1>1, <1>2, <3>1 DEF StartTask, TapInv, namespace
    <3> QED
      BY <3>2, <3>3
  <2>2. TypeOK'
    <3>1. starts' \in 0..MaxStarts
      BY <1>1, <1>2, NothingAssumption DEF StartTask, TypeOK
    <3>2. phase' \in {"network", "prepare"}
      BY <1>2 DEF StartTask
    <3> QED
      BY <1>1, <1>2, <2>1, <3>1, <3>2 DEF StartTask, TypeOK
  <2>3. PhaseInv'
    BY <1>1, <1>2, JobKept DEF StartTask, PhaseInv
  <2>4. CallsInv'
    BY <1>2 DEF StartTask, CallsInv
  <2>5. SavedInv'
    BY <1>1, <1>2, JobKept DEF StartTask, SavedInv, All
  <2> QED
    BY <2>1, <2>2, <2>3, <2>4, <2>5 DEF Core
<1>3. CASE SetupStep
  <2>1. TapTypeOK' /\ TapInv'
    BY <1>1, <1>3, SetupKeeps DEF SetupStep
  <2>2. TypeOK'
    BY <1>1, <1>3, <2>1 DEF SetupStep, TypeOK
  <2>3. PhaseInv'
    BY <1>1, <1>3, JobKept DEF SetupStep, PhaseInv
  <2>4. CallsInv'
    BY <1>3 DEF SetupStep, CallsInv
  <2>5. SavedInv'
    BY <1>1, <1>3, JobKept DEF SetupStep, SavedInv, All
  <2> QED
    BY <2>1, <2>2, <2>3, <2>4, <2>5 DEF Core
<1>4. CASE AutoSetup
  <2>1. TapTypeOK' /\ TapInv'
    BY <1>1, <1>4, TapKept DEF AutoSetup, tapVars, TapTypeOK
  <2>2. TypeOK'
    BY <1>1, <1>4, <2>1 DEF AutoSetup, TypeOK
  <2>3. PhaseInv'
    BY <1>1, <1>4, JobKept DEF AutoSetup, PhaseInv, tapVars, call
  <2>4. CallsInv'
    BY <1>4 DEF AutoSetup, CallsInv
  <2>5. SavedInv'
    BY <1>1, <1>4, JobKept DEF AutoSetup, SavedInv, All
  <2> QED
    BY <2>1, <2>2, <2>3, <2>4, <2>5 DEF Core
<1>5. CASE Launch
  <2>1. TapTypeOK' /\ TapInv'
    BY <1>1, <1>5, TapKept DEF Launch, tapVars, TapTypeOK
  <2>2. TypeOK'
    BY <1>1, <1>5, <2>1 DEF Launch, TypeOK
  <2>3. PhaseInv'
    BY <1>1, <1>5, JobKept DEF Launch, PhaseInv, tapVars, call
  <2>4. CallsInv'
    BY <1>5 DEF Launch, CallsInv
  <2>5. SavedInv'
    BY <1>1, <1>5, JobKept DEF Launch, SavedInv, All
  <2> QED
    BY <2>1, <2>2, <2>3, <2>4, <2>5 DEF Core
<1>6. CASE LaunchFails
  <2>1. faults' \in Nat
    BY <1>1, <1>6 DEF LaunchFails, Fault, TapTypeOK
  <2>2. TapTypeOK' /\ TapInv'
    BY <1>1, <1>6, <2>1, TapKept DEF LaunchFails, TapTypeOK
  <2>3. TypeOK'
    BY <1>1, <1>6, <2>2 DEF LaunchFails, TypeOK
  <2>4. PhaseInv'
    BY <1>1, <1>6, JobKept DEF LaunchFails, PhaseInv, call
  <2>5. CallsInv'
    BY <1>6 DEF LaunchFails, CallsInv
  <2>6. SavedInv'
    BY <1>1, <1>6, JobKept DEF LaunchFails, SavedInv, All
  <2> QED
    BY <2>2, <2>3, <2>4, <2>5, <2>6 DEF Core
<1>7. CASE Crash
  <2>0. left' \subseteq LeftBehind
    BY <1>1, <1>7, LeaveTyped DEF Crash
  <2>1. TapTypeOK' /\ TapInv'
    BY <1>1, <1>7, <2>0 DEF Crash, Fault, TapTypeOK, TapInv, namespace
  <2>2. TypeOK'
    BY <1>1, <1>7, <2>1 DEF Crash, VmmEnds, TypeOK
  <2>3. PhaseInv'
    BY <1>1, <1>7, JobKept DEF Crash, VmmEnds, PhaseInv
  <2>4. CallsInv'
    BY <1>7 DEF Crash, CallsInv
  <2>5. SavedInv'
    BY <1>1, <1>7, JobKept DEF Crash, SavedInv, All
  <2> QED
    BY <2>1, <2>2, <2>3, <2>4, <2>5 DEF Core
<1> QED
  BY <1>2, <1>3, <1>4, <1>5, <1>6, <1>7

(* WaitForReady, and Firecracker making and serving its socket. *)
LEMMA WaitKeeps ==
  ASSUME IInv,
         DeadlinePasses \/ Probe \/ ProbeAnswers \/ ProbeFails \/ VmmStarts
  PROVE  Core'
<1> USE DEF attempt, firecracker
<1>1. TypeOK /\ TapTypeOK /\ TapInv /\ PhaseInv /\ CallsInv /\ SavedInv
  BY DEF IInv, TypeOK
<1>2. CASE DeadlinePasses \/ Probe
  <2>1. TapTypeOK' /\ TapInv'
    BY <1>1, <1>2, TapKept DEF DeadlinePasses, Probe, tapVars, TapTypeOK
  <2>2. TypeOK'
    BY <1>1, <1>2, <2>1 DEF DeadlinePasses, Probe, TypeOK
  <2>3. PhaseInv'
    BY <1>1, <1>2, JobKept DEF DeadlinePasses, Probe, PhaseInv, tapVars, call
  <2>4. CallsInv'
    BY <1>2 DEF DeadlinePasses, Probe, CallsInv
  <2>5. SavedInv'
    BY <1>1, <1>2, JobKept DEF DeadlinePasses, Probe, SavedInv, All
  <2> QED
    BY <2>1, <2>2, <2>3, <2>4, <2>5 DEF Core
<1>3. CASE ProbeAnswers
  <2>1. TapTypeOK' /\ TapInv'
    BY <1>1, <1>3, TapKept DEF ProbeAnswers, tapVars, TapTypeOK
  <2>2. TypeOK'
    BY <1>1, <1>3, <2>1 DEF ProbeAnswers, TypeOK
  <2>3. called' = 0 /\ Boot \in Nat /\ Len(ConfigureVM) > 3 /\ Len(Calls) \in Nat
        /\ Len(Calls) >= 1
    <3>1. job \in Jobs /\ restore \in BOOLEAN
      BY <1>1 DEF TypeOK
    <3>2. Len(Nics) \in Nat /\ Len(ConfigureVM) > 3 + Len(Nics) /\ Len(ConfigureVM) \in Nat
      BY <3>1, NicFacts, ConfigureFacts
    <3>3. Boot \in Nat /\ Len(Calls) \in Nat /\ (Len(Calls) = Boot + 1 \/ Len(Calls) = Boot + 2)
      BY <3>1, CallsFacts
    <3>4. called' = 0
      BY <1>1, <1>3 DEF ProbeAnswers, PhaseInv
    <3> QED
      BY <3>2, <3>3, <3>4
  <2>4. PhaseInv'
    BY <1>1, <1>3, <2>3, JobKept, CallsKept DEF ProbeAnswers, PhaseInv, tapVars, call
  <2>5. CallsInv'
    <3>1. Boot' = Boot /\ Calls' = Calls /\ ConfigureVM' = ConfigureVM
      BY <1>3, JobKept, CallsKept DEF ProbeAnswers, tapVars, call
    <3>2. vmm' # "started" /\ Len(Calls) # 0
      BY <1>3, <2>3 DEF ProbeAnswers
    <3>3. DOMAIN ConfigureVM = 1..Len(ConfigureVM)
      BY <1>1, ConfigureFacts DEF TypeOK
    <3> QED
      BY <2>3, <3>1, <3>2, <3>3 DEF CallsInv
  <2>6. SavedInv'
    BY <1>1, <1>3, JobKept DEF ProbeAnswers, SavedInv, All
  <2> QED
    BY <2>1, <2>2, <2>4, <2>5, <2>6 DEF Core
<1>4. CASE ProbeFails
  <2>1. faults' \in Nat
    BY <1>1, <1>4 DEF ProbeFails, Fault, TapTypeOK
  <2>2. TapTypeOK' /\ TapInv'
    BY <1>1, <1>4, <2>1, TapKept DEF ProbeFails, TapTypeOK
  <2>3. TypeOK'
    BY <1>1, <1>4, <2>2 DEF ProbeFails, TypeOK
  <2>4. PhaseInv'
    BY <1>1, <1>4, JobKept DEF ProbeFails, PhaseInv, call
  <2>5. CallsInv'
    BY <1>4 DEF ProbeFails, CallsInv
  <2>6. SavedInv'
    BY <1>1, <1>4, JobKept DEF ProbeFails, SavedInv, All
  <2> QED
    BY <2>2, <2>3, <2>4, <2>5, <2>6 DEF Core
<1>5. CASE VmmStarts
  <2>1. TapTypeOK' /\ TapInv'
    BY <1>1, <1>5, TapKept DEF VmmStarts, tapVars, TapTypeOK
  <2>2. vmm \in {"starting", "bound"} /\ vmm' \in {"bound", "serving"}
    BY <1>5 DEF VmmStarts
  <2>3. TypeOK'
    BY <1>1, <1>5, <2>1, <2>2 DEF VmmStarts, TypeOK
  <2>4. phase \in {"waiting", "probing", "cleanup", "hung"}
    BY <1>1, <2>2 DEF PhaseInv, TypeOK
  <2>5. PhaseInv'
    BY <1>1, <1>5, <2>2, <2>4, JobKept, CallsKept DEF VmmStarts, PhaseInv, tapVars, call
  <2>6. CallsInv'
    BY <1>5, <2>4 DEF VmmStarts, CallsInv
  <2>7. SavedInv'
    BY <1>1, <1>5, JobKept DEF VmmStarts, SavedInv, All
  <2> QED
    BY <2>1, <2>3, <2>5, <2>6, <2>7 DEF Core
<1> QED
  BY <1>2, <1>3, <1>4, <1>5

(* The calls that configure the VM. *)
LEMMA PutKeeps ==
  ASSUME IInv, PutLogger \/ PutResource
  PROVE  Core'
<1> USE DEF attempt, firecracker
<1>1. TypeOK /\ TapTypeOK /\ TapInv /\ PhaseInv /\ CallsInv /\ SavedInv
  BY DEF IInv, TypeOK
<1>2. /\ phase = "calls" /\ called < Len(Calls) /\ called' = called + 1
      /\ conf' = conf \cup {Call} /\ Accepts(Call)
      /\ UNCHANGED <<tapVars, job, phase, starts, restore, late, vmm, data, guest, saved>>
  BY DEF PutLogger, PutResource, Calling
<1>3. job \in Jobs /\ restore \in BOOLEAN /\ called \in Nat /\ Boot \in Nat
      /\ Len(Calls) \in Nat /\ DOMAIN ConfigureVM = 1..Len(ConfigureVM)
      /\ ConfigureVM \in Seq(Puts)
  BY <1>1, CallsFacts, ConfigureFacts DEF TypeOK
<1>4. /\ Boot' = Boot /\ Calls' = Calls /\ ConfigureVM' = ConfigureVM
      /\ BuildMmdsContent' = BuildMmdsContent /\ OnBridge' = OnBridge /\ Valid' = Valid
  BY <1>2, JobKept, CallsKept DEF tapVars, call
<1>5. Put("logger", NoName) \in Puts
  BY DEF Put, Puts
<1>6. CASE PutLogger
  <2>1. called = 0 /\ Call = Put("logger", NoName) /\ UNCHANGED opened
    BY <1>6, CallPlace DEF PutLogger, Calling
  <2>2. conf = {} /\ conf' = {Put("logger", NoName)}
    BY <1>1, <1>2, <2>1 DEF PhaseInv
  <2>3. vmm = "serving" \/ vmm = "started"
    BY <1>2, <2>1 DEF Accepts, Put, PreBoot
  <2>4. Len(ConfigureVM) > 0 /\ Boot > 0 /\ called' = 1
    <3>1. Len(ConfigureVM) > 3 + Len(Nics) /\ Len(Nics) \in Nat /\ Len(ConfigureVM) \in Nat
      BY <1>3, ConfigureFacts, NicFacts
    <3> QED
      BY <1>2, <2>1, <3>1 DEF Boot
  <2>5. vmm = "serving"
    BY <1>1, <1>2, <1>3, <2>1, <2>3 DEF CallsInv
  <2>6. TapTypeOK' /\ TapInv'
    BY <1>1, <1>2, TapKept DEF tapVars, TapTypeOK
  <2>7. TypeOK'
    BY <1>1, <1>2, <1>5, <2>1, <2>2, <2>4, <2>6 DEF TypeOK
  <2>8. PhaseInv'
    BY <1>1, <1>2, <1>3, <1>4, <2>4, <2>5 DEF PhaseInv, tapVars, call
  <2>9. CallsInv'
    <3>1. Len(Calls) = Boot + 1 \/ Len(Calls) = Boot + 2
      BY <1>3, CallsFacts
    <3>2. ~(called' > Boot) /\ called' # Len(Calls) /\ ~(called' > 4)
      <4>1. \A b \in Nat : b > 0 => ~(1 > b) /\ 1 # b + 1 /\ 1 # b + 2 /\ ~(1 > 4)
        OBVIOUS
      <4> QED
        BY <1>3, <2>4, <3>1, <4>1
    <3>3. \A i \in DOMAIN ConfigureVM : ~(i < called')
      BY <1>3, <2>4
    <3>4. UNCHANGED <<vmm, restore>>
      BY <1>2
    <3> QED
      BY <1>4, <2>2, <2>5, <3>2, <3>3, <3>4 DEF CallsInv
  <2>10. SavedInv'
    BY <1>1, <1>2, <1>4 DEF SavedInv, All
  <2> QED
    BY <2>6, <2>7, <2>8, <2>9, <2>10 DEF Core
<1>7. CASE PutResource
  <2>1. /\ ~restore /\ called > 0 /\ called < Boot /\ Boot = Len(ConfigureVM)
        /\ called \in DOMAIN ConfigureVM /\ Call = ConfigureVM[called]
        /\ Call.to \in PreBoot
    BY <1>7, CallPlace DEF PutResource, Calling, Boot
  <2>2. Call \in Puts
    BY <1>3, <2>1, ElementOfSeq
  <2>3. vmm = "serving"
    BY <1>2, <2>1 DEF Accepts, PreBoot
  <2>4. opened' = IF Call.to = "nic" /\ OnBridge THEN tap.index ELSE opened
    BY <1>7 DEF PutResource
  <2>5. tap.index \in Nat
    BY <1>1 DEF TapTypeOK
  <2>6. TapTypeOK' /\ TapInv'
    BY <1>1, <1>2, TapKept DEF tapVars, TapTypeOK
  <2>7. TypeOK'
    <3>1. opened' \in Nat
      BY <1>1, <2>4, <2>5 DEF TypeOK
    <3>2. conf' \subseteq Puts /\ called' \in Nat
      BY <1>1, <1>2, <2>2 DEF TypeOK
    <3> QED
      BY <1>1, <1>2, <2>6, <3>1, <3>2 DEF TypeOK
  <2>8. PhaseInv'
    <3>1. called' # 0 /\ called' <= Len(Calls)
      BY <1>2, <1>3
    <3> QED
      BY <1>1, <1>2, <1>4, <2>3, <3>1 DEF PhaseInv, tapVars, call
  <2>9. CallsInv'
    <3>1. vmm' = "serving" /\ ~(called' > Boot) /\ called' # Len(Calls)
      <4>1. Len(Calls) = Boot + 1 \/ Len(Calls) = Boot + 2
        BY <1>3, CallsFacts
      <4> QED
        BY <1>2, <1>3, <2>1, <2>3, <4>1
    <3>2. ASSUME NEW i \in DOMAIN ConfigureVM, i < called' PROVE ConfigureVM[i] \in conf'
      <4>1. i < called \/ i = called
        BY <1>2, <1>3, <3>2
      <4>2. CASE i < called
        BY <1>1, <1>2, <2>1, <2>3, <4>2 DEF CallsInv
      <4> QED
        BY <1>2, <2>1, <4>1, <4>2
    <3>3. ASSUME OnBridge, called' > 4 PROVE opened' = tap.index
      <4>1. CASE called > 4
        BY <1>1, <1>2, <2>1, <2>3, <2>4, <3>3, <4>1 DEF CallsInv
      <4>2. CASE ~(called > 4)
        <5>1. called = 4
          BY <1>2, <1>3, <3>3, <4>2
        <5>2. 1 \in DOMAIN Nics /\ 3 + 1 = 4
          BY <3>3 DEF Nics
        <5>3. Call = Put("nic", NicId(1))
          BY <1>3, <2>1, <5>1, <5>2, ConfigureFacts
        <5> QED
          BY <2>4, <3>3, <5>3 DEF Put
      <4> QED
        BY <4>1, <4>2
    <3>4. UNCHANGED <<restore, phase, data, tap>>
      BY <1>2 DEF tapVars, namespace
    <3> QED
      BY <1>4, <2>1, <3>1, <3>2, <3>3, <3>4 DEF CallsInv
  <2>10. SavedInv'
    BY <1>1, <1>2, <1>4 DEF SavedInv, All
  <2> QED
    BY <2>6, <2>7, <2>8, <2>9, <2>10 DEF Core
<1> QED
  BY <1>6, <1>7

(* The calls that make the guest run: it has all its devices. *)
LEMMA BootFacts ==
  ASSUME IInv, StartInstance \/ LoadSnapshot
  PROVE  /\ called = Boot /\ vmm = "serving" /\ conf' \subseteq Puts /\ opened' \in Nat
         /\ guest' \in {"reading", "configured"}
         /\ All(conf') /\ (OnBridge => opened' = tap.index)
<1>1. TypeOK /\ TapTypeOK /\ TapInv /\ PhaseInv /\ CallsInv /\ SavedInv
  BY DEF IInv, TypeOK
<1>2. phase = "calls" /\ called < Len(Calls) /\ Accepts(Call)
  BY DEF StartInstance, LoadSnapshot, Calling
<1>3. job \in Jobs /\ restore \in BOOLEAN /\ called \in Nat /\ Boot \in Nat
      /\ DOMAIN ConfigureVM = 1..Len(ConfigureVM) /\ ConfigureVM \in Seq(Puts)
  BY <1>1, CallsFacts, ConfigureFacts DEF TypeOK
<1>4. CASE StartInstance
  <2>1. /\ ~restore /\ called > 0 /\ called = Boot /\ Boot = Len(ConfigureVM)
        /\ called \in DOMAIN ConfigureVM /\ Call = ConfigureVM[called]
        /\ Call.to = "start"
    BY <1>4, CallPlace DEF StartInstance, Calling, Boot
  <2>2. vmm = "serving"
    BY <1>2, <2>1 DEF Accepts, PreBoot
  <2>3. Call \in Puts
    BY <1>3, <2>1, ElementOfSeq
  <2>4. conf' = conf \cup {Call} /\ opened' = opened /\ guest' = "reading"
    BY <1>4 DEF StartInstance
  <2>5. All(conf')
    <3>1. ASSUME NEW i \in DOMAIN ConfigureVM PROVE ConfigureVM[i] \in conf'
      <4>1. i < called \/ i = called
        BY <1>3, <2>1
      <4>2. CASE i < called
        BY <1>1, <1>2, <2>1, <2>2, <2>4, <4>2 DEF CallsInv
      <4> QED
        BY <2>1, <2>4, <4>1, <4>2
    <3> QED
      BY <3>1 DEF All
  <2>6. ASSUME OnBridge PROVE opened' = tap.index
    <3>1. Len(Nics) = 1
      BY <2>6 DEF Nics
    <3>2. called > 4
      BY <1>3, <2>1, <3>1, ConfigureFacts
    <3> QED
      BY <1>1, <1>2, <2>1, <2>2, <2>4, <2>6, <3>2 DEF CallsInv
  <2> QED
    BY <1>1, <2>1, <2>2, <2>3, <2>4, <2>5, <2>6 DEF TypeOK
<1>5. CASE LoadSnapshot
  <2>1. called = 1 /\ restore /\ called = Boot /\ Call.to = "load"
    BY <1>5, CallPlace DEF LoadSnapshot, Calling, Boot
  <2>2. vmm = "serving"
    BY <1>2, <2>1 DEF Accepts, PreBoot
  <2>3. saved # Nothing
    BY <1>1, <1>2, <2>1 DEF SavedInv
  <2>4. saved.conf \subseteq Puts /\ saved.guest \in {"reading", "configured"}
    BY <1>1, <2>3 DEF TypeOK
  <2>5. /\ conf' = conf \cup saved.conf /\ guest' = saved.guest
        /\ opened' = IF OnBridge THEN tap.index ELSE 0
    BY <1>5 DEF LoadSnapshot
  <2>6. All(conf')
    BY <1>1, <2>3, <2>5 DEF SavedInv, All
  <2>7. opened' \in Nat
    BY <1>1, <2>5 DEF TapTypeOK
  <2> QED
    BY <1>1, <2>1, <2>2, <2>4, <2>5, <2>6, <2>7 DEF TypeOK
<1> QED
  BY <1>4, <1>5

LEMMA BootKeeps ==
  ASSUME IInv, StartInstance \/ LoadSnapshot
  PROVE  Core'
<1> USE DEF attempt, firecracker
<1>1. TypeOK /\ TapTypeOK /\ TapInv /\ PhaseInv /\ CallsInv /\ SavedInv
  BY DEF IInv, TypeOK
<1>2. /\ phase = "calls" /\ called < Len(Calls) /\ called' = called + 1
      /\ vmm' = "started" /\ Accepts(Call)
      /\ UNCHANGED <<tapVars, job, phase, starts, restore, late, data, saved>>
  BY DEF StartInstance, LoadSnapshot, Calling
<1>3. job \in Jobs /\ restore \in BOOLEAN /\ called \in Nat /\ Boot \in Nat
      /\ Len(Calls) \in Nat /\ DOMAIN ConfigureVM = 1..Len(ConfigureVM)
      /\ ConfigureVM \in Seq(Puts)
  BY <1>1, CallsFacts, ConfigureFacts DEF TypeOK
<1>4. /\ Boot' = Boot /\ Calls' = Calls /\ ConfigureVM' = ConfigureVM
      /\ BuildMmdsContent' = BuildMmdsContent /\ OnBridge' = OnBridge /\ Valid' = Valid
  BY <1>2, JobKept, CallsKept DEF tapVars, call
<1>5. TapTypeOK' /\ TapInv'
  BY <1>1, <1>2, TapKept DEF tapVars, TapTypeOK
<1>6. /\ called = Boot /\ vmm = "serving" /\ conf' \subseteq Puts /\ opened' \in Nat
      /\ guest' \in {"reading", "configured"}
      /\ All(conf') /\ (OnBridge => opened' = tap.index)
  BY BootFacts
<1>7. called' > Boot /\ called' # 0 /\ called' \in Nat /\ called' <= Len(Calls)
  BY <1>2, <1>3, <1>6
<1>8. TypeOK'
  BY <1>1, <1>2, <1>5, <1>6, <1>7 DEF TypeOK
<1>9. PhaseInv'
  BY <1>1, <1>2, <1>4, <1>6, <1>7 DEF PhaseInv, tapVars, call
<1>10. CallsInv'
  <2>1. restore' => called' # 1
    <3>1. Boot = 1 => called' # 1
      BY <1>7
    <3> QED
      BY <1>2, <3>1 DEF Boot
  <2>2. \A i \in DOMAIN ConfigureVM : ConfigureVM[i] \in conf'
    BY <1>6 DEF All
  <2>3. ASSUME BuildMmdsContent # Nothing PROVE called' # Len(Calls)
    <3>1. Len(Calls) = Boot + 2
      BY <1>3, <2>3, CallsFacts
    <3> QED
      BY <1>2, <1>3, <1>6, <3>1
  <2>4. (OnBridge => opened = tap.index)'
    BY <1>2, <1>4, <1>6 DEF tapVars, namespace
  <2> QED
    BY <1>2, <1>4, <1>7, <2>1, <2>2, <2>3, <2>4 DEF CallsInv
<1>11. SavedInv'
  BY <1>1, <1>2, <1>4 DEF SavedInv, All
<1> QED
  BY <1>5, <1>8, <1>9, <1>10, <1>11 DEF Core

(* The metadata, the return of StartTask and the guest's reading. *)
LEMMA MmdsKeeps ==
  ASSUME IInv, PutMmds \/ StartReturns \/ GuestReads
  PROVE  Core'
<1> USE DEF attempt, firecracker
<1>1. TypeOK /\ TapTypeOK /\ TapInv /\ PhaseInv /\ CallsInv /\ SavedInv
  BY DEF IInv, TypeOK
<1>2. UNCHANGED <<tapVars, job, starts, restore, late, vmm, conf, opened, saved>>
  BY DEF PutMmds, StartReturns, GuestReads
<1>3. job \in Jobs /\ restore \in BOOLEAN /\ called \in Nat /\ Boot \in Nat
      /\ Len(Calls) \in Nat /\ DOMAIN ConfigureVM = 1..Len(ConfigureVM)
  BY <1>1, CallsFacts, ConfigureFacts DEF TypeOK
<1>4. /\ Boot' = Boot /\ Calls' = Calls /\ ConfigureVM' = ConfigureVM
      /\ BuildMmdsContent' = BuildMmdsContent /\ OnBridge' = OnBridge /\ Valid' = Valid
  BY <1>2, JobKept, CallsKept DEF tapVars, call
<1>5. TapTypeOK' /\ TapInv'
  BY <1>1, <1>2, TapKept DEF tapVars, TapTypeOK
<1>6. CASE PutMmds
  <2>1. /\ phase = "calls" /\ called = Boot + 1 /\ called < Len(Calls)
        /\ called' = called + 1 /\ data' = BuildMmdsContent /\ UNCHANGED <<phase, guest>>
        /\ vmm \in {"serving", "started"}
    BY <1>6, CallPlace DEF PutMmds, Calling, Accepts, PreBoot
  <2>2. vmm = "started"
    BY <1>1, <1>3, <2>1 DEF CallsInv
  <2>3. data' \in Content \cup {Nothing}
    BY <1>1, <2>1, ContentFacts DEF TypeOK, TapTypeOK
  <2>4. called' \in Nat /\ called' # 0 /\ called' > Boot /\ called' <= Len(Calls)
    BY <1>3, <2>1
  <2>5. TypeOK'
    BY <1>1, <1>2, <1>5, <2>1, <2>3, <2>4 DEF TypeOK
  <2>6. PhaseInv'
    BY <1>1, <1>2, <1>4, <2>1, <2>2, <2>4 DEF PhaseInv, tapVars, call
  <2>7. CallsInv'
    <3>1. All(conf) /\ (OnBridge => opened = tap.index)
      BY <2>2 DEF IInv, GuestInv
    <3>2. (OnBridge => opened = tap.index)'
      BY <1>2, <1>4, <3>1 DEF tapVars, namespace
    <3>3. \A i \in DOMAIN ConfigureVM : ConfigureVM[i] \in conf'
      BY <1>2, <3>1 DEF All
    <3>4. restore' => called' # 1
      <4>1. Boot = 1 => called' # 1
        BY <1>3, <2>1
      <4> QED
        BY <1>2, <4>1 DEF Boot
    <3>5. UNCHANGED vmm
      BY <1>2
    <3> QED
      BY <1>4, <2>1, <2>2, <2>4, <3>2, <3>3, <3>4, <3>5 DEF CallsInv
  <2>8. SavedInv'
    BY <1>1, <1>2, <1>4, <2>1 DEF SavedInv, All
  <2> QED
    BY <1>5, <2>5, <2>6, <2>7, <2>8 DEF Core
<1>7. CASE StartReturns
  <2>1. /\ phase = "calls" /\ phase' = "running" /\ called = Len(Calls)
        /\ UNCHANGED <<called, data, guest>>
    BY <1>7 DEF StartReturns
  <2>2. vmm \in {"none", "started"}
    <3>1. Len(Calls) = Boot + 1 \/ Len(Calls) = Boot + 2
      BY <1>3, CallsFacts
    <3>2. called > Boot
      BY <1>3, <2>1, <3>1
    <3> QED
      BY <1>1, <2>1, <3>2 DEF PhaseInv, CallsInv
  <2>3. TypeOK'
    BY <1>1, <1>2, <1>5, <2>1 DEF TypeOK
  <2>4. PhaseInv'
    BY <1>1, <1>2, <1>4, <2>1, <2>2 DEF PhaseInv, tapVars, call
  <2>5. CallsInv'
    BY <1>1, <1>2, <1>4, <2>1 DEF CallsInv, All, tapVars, namespace
  <2>6. SavedInv'
    BY <1>1, <1>2, <1>4, <2>1 DEF SavedInv, All
  <2> QED
    BY <1>5, <2>3, <2>4, <2>5, <2>6 DEF Core
<1>8. CASE GuestReads
  <2>1. guest = "reading" /\ guest' = "configured" /\ UNCHANGED <<phase, called, data>>
    BY <1>8 DEF GuestReads
  <2>2. TypeOK'
    BY <1>1, <1>2, <1>5, <2>1 DEF TypeOK
  <2>3. PhaseInv'
    BY <1>1, <1>2, <1>4, <2>1 DEF PhaseInv, tapVars, call
  <2>4. CallsInv'
    BY <1>1, <1>2, <1>4, <2>1 DEF CallsInv, All, tapVars, namespace
  <2>5. SavedInv'
    BY <1>1, <1>2, <1>4, <2>1 DEF SavedInv, All
  <2> QED
    BY <1>5, <2>2, <2>3, <2>4, <2>5 DEF Core
<1> QED
  BY <1>6, <1>7, <1>8

(* A guest runs on all its devices as long as it runs, and keeps the TAP    *)
(* device it has open, which nothing replaces after the set-up.             *)
LEMMA GuestNext == IInv /\ [Next]_vars => GuestInv'
<1> SUFFICES ASSUME IInv, [Next]_vars PROVE GuestInv'
  OBVIOUS
<1> USE DEF attempt, firecracker
<1>1. TypeOK /\ PhaseInv /\ GuestInv
  BY DEF IInv
<1>2. ASSUME vmm' # "started" PROVE GuestInv'
  BY <1>2 DEF GuestInv
<1>3. ASSUME UNCHANGED <<job, tap, vmm, opened>>, conf \subseteq conf',
             \/ UNCHANGED phase
             \/ phase' \in {"calls", "running", "cleanup", "hung"}
      PROVE  GuestInv'
  <2>1. OnBridge' = OnBridge /\ ConfigureVM' = ConfigureVM
    BY <1>3, JobKept
  <2> QED
    BY <1>1, <1>3, <2>1 DEF GuestInv, All
<1>4. CASE StartTask \/ SetupStep \/ AutoSetup \/ LaunchFails
  <2>1. phase \in {"idle", "network", "prepare"} /\ UNCHANGED vmm
    BY <1>4 DEF StartTask, SetupStep, AutoSetup, LaunchFails
  <2> QED
    BY <1>1, <1>2, <2>1 DEF PhaseInv
<1>5. CASE Launch \/ Crash \/ VmmStarts \/ VmExits \/ Cleanup \/ TaskEnds
  <2>1. vmm' # "started"
    BY <1>5 DEF Launch, Crash, VmmStarts, VmExits, Cleanup, TaskEnds, Kill, VmmEnds
  <2> QED
    BY <1>2, <2>1
<1>6. CASE DeadlinePasses \/ Probe \/ ProbeAnswers \/ ProbeFails
  <2>1. phase \in {"waiting", "probing"} /\ UNCHANGED vmm
    BY <1>6 DEF DeadlinePasses, Probe, ProbeAnswers, ProbeFails
  <2> QED
    BY <1>1, <1>2, <2>1 DEF PhaseInv
<1>7. CASE PutLogger \/ PutMmds \/ GuestReads \/ StartReturns \/ LeftExits
  BY <1>3, <1>7 DEF PutLogger, PutMmds, GuestReads, StartReturns, LeftExits, tapVars, namespace
<1>8. CASE PutResource
  <2>1. vmm = "serving" /\ UNCHANGED vmm
    <3>1. Call.to \in PreBoot /\ Accepts(Call)
      BY <1>8 DEF PutResource, Calling
    <3> QED
      BY <1>8, <3>1 DEF PutResource, Accepts, PreBoot
  <2> QED
    BY <1>2, <2>1
<1>9. CASE StartInstance \/ LoadSnapshot
  <2>1. /\ phase' = "calls" /\ UNCHANGED <<job, tap>>
        /\ All(conf') /\ (OnBridge => opened' = tap.index)
    BY <1>9, BootFacts DEF StartInstance, LoadSnapshot, Calling, tapVars, namespace
  <2>2. OnBridge' = OnBridge /\ ConfigureVM' = ConfigureVM
    BY <2>1, JobKept
  <2> QED
    BY <2>1, <2>2 DEF GuestInv, All
<1>10. CASE GiveUp \/ CallFails \/ CleanupHangs
  BY <1>3, <1>10 DEF GiveUp, CallFails, CleanupHangs, tapVars, namespace
<1>11. CASE UNCHANGED vars
  BY <1>3, <1>11 DEF vars, tapVars, namespace
<1> QED
  BY <1>4, <1>5, <1>6, <1>7, <1>8, <1>9, <1>10, <1>11 DEF Next, Proceed

(* A Firecracker is left behind by a step that takes a fault, and one at a  *)
(* time.                                                                    *)
LEMMA LeaveCounts ==
  ASSUME LeftInv, faults \in Nat, faults' = faults + 1, Leave
  PROVE  LeftInv'
<1>1. CASE UNCHANGED left
  <2>1. Cardinality(left) \in Nat
    BY FS_CardinalityType DEF LeftInv
  <2> QED
    BY <1>1, <2>1 DEF LeftInv, LeftByFault
<1>2. CASE left' = left \cup {[attempt |-> starts, tap |-> opened]}
  <2> DEFINE v == [attempt |-> starts, tap |-> opened]
  <2>1. /\ IsFiniteSet(left \cup {v}) /\ Cardinality(left) \in Nat
        /\ Cardinality(left \cup {v}) = IF v \in left THEN Cardinality(left)
                                                     ELSE Cardinality(left) + 1
    BY FS_AddElement, FS_CardinalityType DEF LeftInv
  <2> HIDE DEF v
  <2>2. left' = left \cup {v}
    BY <1>2 DEF v
  <2> QED
    BY <2>1, <2>2 DEF LeftInv, LeftByFault
<1> QED
  BY <1>1, <1>2 DEF Leave

LEMMA LeftNext == IInv /\ [Next]_vars => LeftInv'
<1> SUFFICES ASSUME IInv, [Next]_vars PROVE LeftInv'
  OBVIOUS
<1> USE DEF attempt, firecracker
<1>1. LeftInv /\ faults \in Nat /\ Cardinality(left) \in Nat
  BY FS_CardinalityType DEF IInv, TypeOK, TapTypeOK, LeftInv
<1>2. ASSUME UNCHANGED left, faults' = faults \/ faults' = faults + 1 PROVE LeftInv'
  BY <1>1, <1>2 DEF LeftInv, LeftByFault
<1>3. CASE SetupStep
  <2>1. UNCHANGED left /\ (faults' = faults \/ faults' = faults + 1)
    BY <1>3 DEF SetupStep, SetupTapRedirect, ReadVeth, ReadVethFails, LinkAdd, LinkSetMTU,
      LinkSetUp, LinkByName, CreateTapFails, QdiscAdd, FilterAddVeth, FilterAddTap,
      AddRedirectsFails, Fault
  <2> QED
    BY <1>2, <2>1
<1>4. CASE StartTask \/ AutoSetup \/ Launch \/ LaunchFails \/ DeadlinePasses \/ Probe
           \/ ProbeAnswers \/ ProbeFails \/ GiveUp \/ PutLogger \/ PutResource
           \/ StartInstance \/ LoadSnapshot \/ PutMmds \/ CallFails \/ CleanupHangs
           \/ StartReturns \/ VmmStarts \/ VmExits \/ GuestReads
  BY <1>2, <1>4 DEF StartTask, AutoSetup, Launch, LaunchFails, DeadlinePasses, Probe,
    ProbeAnswers, ProbeFails, GiveUp, PutLogger, PutResource, StartInstance, LoadSnapshot,
    PutMmds, CallFails, CleanupHangs, StartReturns, VmmStarts, VmExits, GuestReads, Fault,
    tapVars
<1>5. CASE Crash
  BY <1>1, <1>5, LeaveCounts DEF Crash, Fault
<1>6. CASE Cleanup \/ TaskEnds
  <2>1. Kill
    BY <1>6 DEF Cleanup, TaskEnds
  <2>2. CASE UNCHANGED <<left, faults>>
    BY <1>2, <2>2
  <2>3. CASE Fault /\ Leave
    BY <1>1, <2>3, LeaveCounts DEF Fault
  <2> QED
    BY <2>1, <2>2, <2>3 DEF Kill
<1>7. CASE LeftExits
  <2>1. PICK v \in left : left' = left \ {v}
    BY <1>7 DEF LeftExits
  <2>2. IsFiniteSet(left \ {v}) /\ Cardinality(left \ {v}) = Cardinality(left) - 1
    BY <1>1, FS_RemoveElement DEF LeftInv
  <2>3. faults' = faults
    BY <1>7 DEF LeftExits
  <2> QED
    BY <1>1, <2>1, <2>2, <2>3 DEF LeftInv, LeftByFault
<1>8. CASE UNCHANGED vars
  BY <1>2, <1>8 DEF vars, tapVars
<1> QED
  BY <1>3, <1>4, <1>5, <1>6, <1>7, <1>8 DEF Next, Proceed

LEMMA NextIInv == IInv /\ [Next]_vars => IInv'
<1> SUFFICES ASSUME IInv, [Next]_vars PROVE Core'
  BY GuestNext, LeftNext DEF IInv, Core
<1> USE DEF attempt, firecracker
<1>1. TypeOK /\ TapTypeOK /\ TapInv /\ PhaseInv /\ CallsInv /\ SavedInv
  BY DEF IInv, TypeOK
<1>2. CASE StartTask \/ SetupStep \/ AutoSetup \/ Launch \/ LaunchFails \/ Crash
  BY <1>2, LaunchKeeps
<1>3. CASE DeadlinePasses \/ Probe \/ ProbeAnswers \/ ProbeFails \/ VmmStarts
  BY <1>3, WaitKeeps
<1>4. CASE PutLogger \/ PutResource
  BY <1>4, PutKeeps
<1>5. CASE StartInstance \/ LoadSnapshot
  BY <1>5, BootKeeps
<1>6. CASE PutMmds \/ StartReturns \/ GuestReads
  BY <1>6, MmdsKeeps
<1>7. saved # Nothing =>
        /\ saved \in [conf : SUBSET Puts, guest : {"reading", "configured"}]
        /\ \A i \in DOMAIN ConfigureVM : ConfigureVM[i] \in saved.conf
  BY <1>1 DEF TypeOK, SavedInv, All
<1>8. CASE GiveUp \/ CallFails \/ CleanupHangs
  BY <1>8, ErrorKeeps
<1>9. CASE VmExits
  BY <1>1, <1>7, <1>9, EndKeeps DEF VmExits, tapVars, TapTypeOK
<1>10. ASSUME Kill PROVE VmmEnds /\ faults' \in Nat /\ left' \subseteq LeftBehind
  BY <1>1, <1>10, LeaveTyped DEF Kill, Fault, TapTypeOK
<1>11. CASE Cleanup
  BY <1>7, <1>10, <1>11, EndKeeps DEF Cleanup
<1>12. CASE TaskEnds
  <2>1. CASE vmm = "started" /\ saved' = [conf |-> conf, guest |-> guest]
    <3>1. guest # "off" /\ All(conf)
      BY <1>1, <2>1 DEF IInv, PhaseInv, GuestInv
    <3>2. saved' \in [conf : SUBSET Puts, guest : {"reading", "configured"}]
      BY <1>1, <2>1, <3>1 DEF TypeOK
    <3>3. saved'.conf = conf
      BY <2>1
    <3> QED
      BY <1>10, <1>12, <3>1, <3>2, <3>3, EndKeeps DEF TaskEnds, All
  <2>2. CASE UNCHANGED saved
    BY <1>7, <1>10, <1>12, <2>2, EndKeeps DEF TaskEnds
  <2> QED
    BY <1>12, <2>1, <2>2 DEF TaskEnds
<1>13. CASE LeftExits \/ UNCHANGED vars
  <2>1. /\ UNCHANGED <<job, phase, starts, restore, late, called, vmm, conf, data, opened,
                       guest, saved, veth, namespace, call, faults>>
        /\ left' \subseteq left
    BY <1>13 DEF LeftExits, vars, tapVars
  <2>2. TapTypeOK' /\ TapInv'
    <3>1. left' \subseteq LeftBehind /\ faults' \in Nat
      BY <1>1, <2>1 DEF TapTypeOK
    <3> QED
      BY <1>1, <2>1, <3>1, TapKept
  <2>3. /\ Boot' = Boot /\ Calls' = Calls /\ ConfigureVM' = ConfigureVM
        /\ BuildMmdsContent' = BuildMmdsContent /\ OnBridge' = OnBridge /\ Valid' = Valid
    BY <2>1, JobKept, CallsKept DEF call
  <2>4. TypeOK'
    BY <1>1, <2>1, <2>2 DEF TypeOK
  <2>5. PhaseInv'
    BY <1>1, <2>1, <2>3 DEF PhaseInv, call
  <2>6. CallsInv'
    BY <1>1, <2>1, <2>3 DEF CallsInv, namespace
  <2>7. SavedInv'
    BY <1>1, <2>1, <2>3 DEF SavedInv, All
  <2> QED
    BY <2>2, <2>4, <2>5, <2>6, <2>7 DEF Core
<1> QED
  BY <1>2, <1>3, <1>4, <1>5, <1>6, <1>8, <1>9, <1>11, <1>12, <1>13 DEF Next, Proceed

(* IInv holds throughout every behaviour. *)
THEOREM Invariance == Spec => []IInv
<1>1. Init => IInv
  BY InitIInv
<1>2. IInv /\ [Next]_vars => IInv'
  BY NextIInv
<1> QED
  BY <1>1, <1>2, PTL DEF Spec

-------------------------------------------------------------------------------
(* The properties.                                                         *)

(* Every variable has its type. *)
THEOREM TypeCorrect == Spec => []TypeOK
<1>1. IInv => TypeOK
  BY DEF IInv
<1> QED
  BY <1>1, Invariance, PTL

(* A guest runs only when its VMM was started, and then the attempt is past *)
(* the call that starts it.                                                 *)
LEMMA AliveFacts ==
  ASSUME IInv, Alive
  PROVE  /\ vmm = "started" /\ phase \in {"calls", "running", "cleanup", "hung"}
         /\ All(conf) /\ (OnBridge => opened = tap.index /\ setup = "done")
<1>1. PhaseInv /\ GuestInv /\ guest \in {"off", "reading", "configured"}
  BY DEF IInv, TypeOK
<1>2. vmm = "started"
  BY <1>1 DEF Alive, PhaseInv
<1> QED
  BY <1>1, <1>2 DEF GuestInv, PhaseInv

(* A guest on the bridge of its job has a way out, however many attempts    *)
(* failed, at whatever step, before the one that started it: a filter that  *)
(* a failed attempt left is never the one that wins.                        *)
THEOREM GuestConnected == Spec => []Connected
<1>1. IInv => Connected
  <2> SUFFICES ASSUME IInv, OnBridge, Alive PROVE Carries /\ opened = tap.index
    BY DEF Connected
  <2>1. setup = "done" /\ opened = tap.index
    BY AliveFacts
  <2>2. tap.index # 0 /\ tap.mtu /\ tap.up /\ "veth" \in ingress /\ "tap" \in ingress
        /\ atVeth # <<>> /\ atVeth[Len(atVeth)] = tap.index
        /\ atTap # <<>> /\ atTap[Len(atTap)] = VethIndex
    BY <2>1 DEF IInv, TapInv
  <2>3. ingress = {"veth", "tap"}
    BY <2>2 DEF IInv, TypeOK, TapTypeOK
  <2>4. tap # NoTap
    BY <2>2 DEF NoTap
  <2> QED
    BY <2>1, <2>2, <2>3, <2>4 DEF Carries
<1> QED
  BY <1>1, Invariance, PTL

(* No guest lacks a device of its job, also when the VM it was restored     *)
(* from had itself been restored.                                           *)
THEOREM BootsAreComplete == Spec => []BootsComplete
<1>1. IInv => BootsComplete
  BY AliveFacts DEF BootsComplete, All
<1> QED
  BY <1>1, Invariance, PTL

(* The order of the calls is one Firecracker accepts, for every job that    *)
(* the driver takes for valid, unless the TAP device is held by a           *)
(* Firecracker of an attempt before.                                        *)
THEOREM CallsAccepted == Spec => []EveryCallAccepted
<1>1. IInv => EveryCallAccepted
  <2> SUFFICES ASSUME IInv, phase = "calls", called < Len(Calls), vmm # "none",
                      ~(TapBusy /\ Call.to \in {"nic", "load"})
               PROVE  Accepts(Call)
    BY DEF EveryCallAccepted
  <2>1. TypeOK /\ PhaseInv /\ CallsInv
    BY DEF IInv
  <2>2. job \in Jobs /\ restore \in BOOLEAN /\ called \in Nat /\ Boot \in Nat
        /\ DOMAIN ConfigureVM = 1..Len(ConfigureVM) /\ Len(Nics) \in Nat
        /\ DOMAIN Nics = 1..Len(Nics)
    BY <2>1, CallsFacts, ConfigureFacts, NicFacts DEF TypeOK
  <2>3. vmm \in {"serving", "started"} /\ Valid
    BY <2>1 DEF PhaseInv
  <2>4. ASSUME NEW to, NEW nic PROVE Put(to, nic).to = to
    BY DEF Put
  <2>5. CASE called = 0
    <3>1. Call = Put("logger", NoName) /\ conf = {}
      BY <2>1, <2>5, NextCall DEF PhaseInv
    <3> QED
      BY <2>3, <2>4, <3>1 DEF Accepts
  <2>6. CASE called = 1 /\ restore
    <3>1. Call = Put("load", NoName) /\ conf = {Put("logger", NoName)}
      BY <2>1, <2>6, NextCall DEF CallsInv
    <3>2. vmm = "serving"
      BY <2>1, <2>3, <2>6 DEF CallsInv, Boot
    <3> QED
      BY <2>4, <3>1, <3>2 DEF Accepts
  <2>7. CASE called > 0 /\ called <= Boot /\ ~restore
    <3>1. called \in DOMAIN ConfigureVM /\ Call = ConfigureVM[called]
      BY <2>7, NextCall
    <3>2. vmm = "serving"
      BY <2>1, <2>2, <2>3, <2>7 DEF CallsInv
    <3>3. ASSUME NEW i \in DOMAIN ConfigureVM, i < called PROVE ConfigureVM[i] \in conf
      BY <2>1, <2>7, <3>2, <3>3 DEF CallsInv
    <3>4. CASE Call.to = "start"
      <4>1. called > 3
        BY <2>2, <3>1, <3>4, ConfigureFacts
      <4>2. 2 \in DOMAIN ConfigureVM /\ 2 < called
        BY <2>2, <3>1, <4>1
      <4>3. Put("boot", NoName) \in conf
        BY <2>2, <3>3, <4>2, ConfigureFacts
      <4> QED
        BY <3>2, <3>4, <4>3 DEF Accepts
    <3>5. CASE Call.to = "mmds"
      <4>1. called > 3 + Len(Nics) /\ Nics # <<>> /\ Call.nic = MmdsNic
        BY <2>2, <3>1, <3>5, ConfigureFacts
      <4>2. PICK k \in DOMAIN Nics : MmdsNic = NicId(k)
        BY <2>2, <2>3, <4>1, NicFacts DEF NicIds
      <4>3. 3 + k \in DOMAIN ConfigureVM /\ 3 + k < called
        BY <2>2, <3>1, <4>1, <4>2
      <4>4. ConfigureVM[3 + k] = Put("nic", NicId(k))
        BY <2>2, ConfigureFacts
      <4>5. Put("nic", Call.nic) \in conf
        BY <3>3, <4>1, <4>2, <4>3, <4>4
      <4> QED
        BY <3>2, <3>5, <4>5 DEF Accepts
    <3>6. CASE Call.to \in PreBoot \ {"mmds"}
      <4>1. Call.to # "nic" \/ ~TapBusy
        OBVIOUS
      <4> QED
        BY <3>2, <3>6, <4>1 DEF Accepts
    <3>7. Call.to \in PreBoot \cup {"start"}
      BY <2>2, <3>1, ConfigureFacts
    <3> QED
      BY <3>4, <3>5, <3>6, <3>7
  <2>8. CASE called > Boot
    BY <2>3, <2>4, <2>8, NextCall DEF Accepts
  <2>9. called = 0 \/ (called = 1 /\ restore) \/ (called > 0 /\ called <= Boot /\ ~restore)
        \/ called > Boot
    BY <2>2 DEF Boot
  <2> QED
    BY <2>5, <2>6, <2>7, <2>8, <2>9
<1> QED
  BY <1>1, Invariance, PTL

(* Of the Firecracker processes that nobody knows of, each was left by a    *)
(* fault of its own: a crash of the plugin within StartTask or a kill that  *)
(* failed, and never by a call, a wait or an attempt that failed.           *)
THEOREM OnlyFaultsLeave == Spec => []LeftByFault
<1>1. IInv => LeftByFault
  BY DEF IInv, LeftInv
<1> QED
  BY <1>1, Invariance, PTL

(* A guest whose StartTask has returned is told all there is to tell.       *)
THEOREM GuestIsTold == Spec => []GuestTold
<1>1. IInv => GuestTold
  <2> SUFFICES ASSUME IInv, phase = "running", Alive
               PROVE  GuestTold
    BY DEF GuestTold
  <2>1. TypeOK /\ TapTypeOK /\ TapInv /\ PhaseInv /\ CallsInv /\ job \in Jobs
    BY DEF IInv, TypeOK
  <2>2. vmm = "started" /\ All(conf) /\ (OnBridge => setup = "done")
    BY AliveFacts
  <2>3. BuildMmdsContent # Nothing => data = BuildMmdsContent
    BY <2>1, <2>2 DEF PhaseInv, CallsInv
  <2>4. veth \in Veths /\ unrouted \in SUBSET Family /\ nets \in Seq(Net)
    BY <2>1 DEF TapTypeOK
  <2>5. OnBridge => nets = ReadVethConfigs(unrouted) /\ nets # <<>>
    <3>1. OnBridge => nets = ReadVethConfigs(unrouted) /\ Usable
      BY <2>1, <2>2 DEF TapInv
    <3> QED
      BY <2>4, <3>1, NetFacts
  <2>6. ASSUME OnBridge, NEW f \in Family, NEW ip \in Range(veth[f])
        PROVE  \E gateway \in {FindGateway(f)} \cup (IF f \in unrouted THEN {NoGateway} ELSE {}) :
                 [ip |-> ip, gateway |-> gateway] \in Range(data.ips)
    <3> DEFINE gw == IF f \in unrouted THEN NoGateway ELSE FindGateway(f)
    <3>1. [ip |-> ip, gateway |-> gw] \in Range(nets)
      BY <2>4, <2>5, <2>6, NetFacts
    <3>2. BuildMmdsContent # Nothing /\ Range(nets) \subseteq Range(BuildMmdsContent.ips)
      BY <2>1, <2>4, <2>5, <2>6, ContentFacts
    <3>3. [ip |-> ip, gateway |-> gw] \in Range(data.ips)
      BY <2>3, <3>1, <3>2
    <3> QED
      BY <3>3
  <2>7. job.mounts # <<>> => IsSuffix(job.mounts, data.mounts)
    BY <2>1, <2>3, <2>4, ContentFacts
  <2>8. job.user # Nothing =>
          /\ job.user.ips # NotList => IsPrefix(job.user.ips, data.ips)
          /\ job.user.mounts # NotList => IsPrefix(job.user.mounts, data.mounts)
    BY <2>1, <2>3, <2>4, ContentFacts
  <2>9. ASSUME Nics # <<>>
        PROVE  \E n \in NicIds : {Put("nic", n), Put("mmds", n)} \subseteq conf
    <3>1. MmdsNic \in NicIds
      BY <2>1, <2>9, NicFacts DEF PhaseInv
    <3>2. PICK k \in DOMAIN Nics : MmdsNic = NicId(k)
      BY <3>1 DEF NicIds
    <3>3. DOMAIN Nics = 1..Len(Nics) /\ Len(Nics) \in Nat
      BY <2>1, NicFacts
    <3>4. 3 + k \in DOMAIN ConfigureVM /\ ConfigureVM[3 + k] = Put("nic", MmdsNic)
      BY <2>1, <3>2, <3>3, ConfigureFacts
    <3>5. Put("nic", MmdsNic) \in conf
      BY <2>2, <3>4 DEF All
    <3>6. Put("mmds", MmdsNic) \in conf
      BY <2>1, <2>2, <2>9, ConfigureFacts DEF All
    <3> QED
      BY <3>1, <3>5, <3>6
  <2> QED
    BY <2>6, <2>7, <2>8, <2>9 DEF GuestTold
<1> QED
  BY <1>1, Invariance, PTL

-------------------------------------------------------------------------------
(* The contract of TaskContract.                                           *)

(* An attempt that is not over has been counted. *)
Begun == phase # "idle" => starts # 0

LEMMA NextBegun == TypeOK /\ Begun /\ [Next]_vars => Begun'
<1> SUFFICES ASSUME TypeOK, Begun, [Next]_vars, phase' # "idle" PROVE starts' # 0
  BY DEF Begun
<1>1. CASE StartTask
  BY <1>1 DEF StartTask, TypeOK
<1>2. CASE UNCHANGED starts /\ phase # "idle"
  BY <1>2 DEF Begun
<1>3. CASE ~StartTask
  <2>1. UNCHANGED starts
    BY <1>3 DEF Next, Proceed, SetupStep, AutoSetup, Launch, LaunchFails, Crash,
      DeadlinePasses, Probe, ProbeAnswers, ProbeFails, GiveUp, PutLogger, PutResource,
      StartInstance, LoadSnapshot, PutMmds, CallFails, Cleanup, CleanupHangs, StartReturns,
      VmmStarts, VmExits, GuestReads, TaskEnds, LeftExits, vars, attempt
  <2>2. phase # "idle"
    BY <1>3 DEF Next, Proceed, SetupStep, AutoSetup, Launch, LaunchFails, Crash,
      DeadlinePasses, Probe, ProbeAnswers, ProbeFails, GiveUp, PutLogger, PutResource,
      StartInstance, LoadSnapshot, PutMmds, CallFails, Cleanup, CleanupHangs, StartReturns,
      VmmStarts, VmExits, GuestReads, TaskEnds, LeftExits, Calling, vars, attempt
  <2> QED
    BY <1>2, <2>1, <2>2
<1> QED
  BY <1>1, <1>3

(* The life of the attempt that counts. *)
Stage ==
  IF phase = "idle" /\ vmm = "none" THEN "over"
  ELSE IF phase \notin {"idle", "running"} THEN "starting"
  ELSE IF vmm = "none" THEN "dead" ELSE "alive"

(* The attempts before it are over, and those behind it are new. *)
LEMMA LifeFacts ==
  ASSUME starts \in 0..MaxStarts, NEW n \in 1..MaxStarts
  PROVE  Life(n) = IF n > starts THEN "new" ELSE IF n < starts THEN "over" ELSE Stage
  BY NothingAssumption DEF Life, Stage

(* A step that the attempt in sight does not show is a stutter ... *)
LEMMA Quiet ==
  ASSUME UNCHANGED <<starts, Stage>>
  PROVE  UNCHANGED Contract!vars
<1>1. \A n \in 1..MaxStarts : Life(n)' = Life(n)
  BY DEF Life, Stage
<1> QED
  BY <1>1 DEF Contract!vars

(* ... and one that it shows moves it alone. *)
LEMMA Moves ==
  ASSUME starts \in 1..MaxStarts, UNCHANGED starts
  PROVE  Contract!Move(starts, Stage')
<1>1. starts \in 0..MaxStarts /\ starts \in Nat /\ MaxStarts \in Nat
  BY NothingAssumption
<1>2. ASSUME NEW n \in 1..MaxStarts
      PROVE  Life(n)' = IF n = starts THEN Stage' ELSE Life(n)
  BY <1>1 DEF Life, Stage
<1>3. [n \in 1..MaxStarts |-> Life(n)]'
        = [[n \in 1..MaxStarts |-> Life(n)] EXCEPT ![starts] = Stage']
  BY <1>2
<1>4. [n \in 1..MaxStarts |-> "nothing"]
        = [[n \in 1..MaxStarts |-> "nothing"] EXCEPT ![starts] = "nothing"]
  OBVIOUS
<1> QED
  BY <1>3, <1>4 DEF Contract!Move

LEMMA NextContract ==
  IInv /\ Begun /\ [Next]_vars => [Contract!Next]_(Contract!vars)
<1> SUFFICES ASSUME IInv, Begun, [Next]_vars PROVE [Contract!Next]_(Contract!vars)
  OBVIOUS
<1> USE DEF attempt, firecracker
<1>1. TypeOK /\ PhaseInv /\ starts \in 0..MaxStarts /\ MaxStarts \in Nat
  BY NothingAssumption DEF IInv, TypeOK
<1>2. phase # "idle" => starts \in 1..MaxStarts
  BY <1>1 DEF Begun
<1> DEFINE lives == [n \in 1..MaxStarts |-> Life(n)]
<1>3. starts \in 1..MaxStarts => lives[starts] = Stage
  BY <1>1, LifeFacts
\* The attempts before the next one are over.
<1>4. CASE StartTask
  <2>1. /\ phase = "idle" /\ vmm = "none" /\ Stage = "over"
        /\ starts' = starts + 1 /\ starts + 1 \in 1..MaxStarts /\ Stage' = "starting"
    BY <1>1, <1>4 DEF StartTask, PhaseInv, Stage
  <2> DEFINE s == starts + 1
  <2>2. ASSUME NEW n \in 1..MaxStarts
        PROVE  /\ Life(n) = IF n > starts THEN "new" ELSE "over"
               /\ Life(n)' = IF n = s THEN "starting" ELSE Life(n)
    BY <1>1, <2>1 DEF Life, Stage
  <2>3. lives' = [lives EXCEPT ![s] = "starting"]
    BY <2>1, <2>2
  <2>4. lives[s] = "new" /\ \A n \in 1..MaxStarts : lives[n] \in {"new", "over"}
    BY <1>1, <2>1, <2>2
  <2>5. Contract!Begin(s)
    BY <2>3, <2>4 DEF Contract!Begin, Contract!Move
  <2> QED
    BY <2>1, <2>5 DEF Contract!Next
\* It fails, and has no VMM yet, or it kills the VMM, or loses it to a fault.
<1>5. ASSUME phase \notin {"idle", "running"}, UNCHANGED starts, phase' = "idle", vmm' = "none"
      PROVE  Contract!Next
  <2>1. starts \in 1..MaxStarts /\ Stage = "starting" /\ Stage' = "over"
    BY <1>2, <1>5 DEF Stage
  <2>2. Contract!Abort(starts)
    BY <1>3, <1>5, <2>1, Moves DEF Contract!Abort
  <2> QED
    BY <2>1, <2>2 DEF Contract!Next
<1>6. CASE LaunchFails
  <2>1. phase = "prepare" /\ phase' = "idle" /\ UNCHANGED <<starts, vmm>>
    BY <1>6 DEF LaunchFails
  <2>2. vmm' = "none"
    BY <1>1, <2>1 DEF PhaseInv
  <2> QED
    BY <1>5, <2>1, <2>2
<1>7. CASE Cleanup \/ Crash
  <2>1. phase \notin {"idle", "running"} /\ phase' = "idle" /\ vmm' = "none"
        /\ UNCHANGED starts
    BY <1>7 DEF Cleanup, Kill, Crash, VmmEnds
  <2> QED
    BY <1>5, <2>1
<1>8. CASE AutoSetup
  <2>1. phase = "network" /\ phase' \in {"prepare", "idle"} /\ UNCHANGED <<starts, vmm>>
    BY <1>8 DEF AutoSetup
  <2>2. CASE phase' = "prepare"
    <3>1. UNCHANGED Stage
      BY <2>1, <2>2 DEF Stage
    <3> QED
      BY <2>1, <3>1, Quiet
  <2>3. CASE phase' = "idle"
    <3>1. vmm' = "none"
      BY <1>1, <2>1 DEF PhaseInv
    <3> QED
      BY <1>5, <2>1, <2>3, <3>1
  <2> QED
    BY <2>1, <2>2, <2>3
\* It returns, with a VM or with one that has just died.
<1>9. CASE StartReturns
  <2>1. /\ starts \in 1..MaxStarts /\ UNCHANGED starts
        /\ Stage = "starting" /\ Stage' \in {"alive", "dead"}
    BY <1>2, <1>9 DEF StartReturns, Stage
  <2>2. Contract!Up(starts)
    BY <1>3, <2>1, Moves DEF Contract!Up
  <2> QED
    BY <2>1, <2>2 DEF Contract!Next
<1>10. CASE VmExits
  <2>1. UNCHANGED <<starts, phase>> /\ vmm # "none" /\ vmm' = "none" /\ phase # "idle"
    BY <1>1, <1>10 DEF VmExits, VmmEnds, PhaseInv
  <2>2. CASE phase # "running"
    <3>1. UNCHANGED Stage
      BY <2>1, <2>2 DEF Stage
    <3> QED
      BY <2>1, <3>1, Quiet
  <2>3. CASE phase = "running"
    <3>1. starts \in 1..MaxStarts /\ Stage = "alive" /\ Stage' = "dead"
      BY <1>2, <2>1, <2>3 DEF Stage
    <3>2. Contract!Die(starts)
      BY <1>3, <2>1, <3>1, Moves DEF Contract!Die
    <3> QED
      BY <3>1, <3>2 DEF Contract!Next
  <2> QED
    BY <2>2, <2>3
<1>11. CASE TaskEnds
  <2>1. /\ starts \in 1..MaxStarts /\ UNCHANGED starts
        /\ Stage \in {"alive", "dead"} /\ Stage' = "over"
    BY <1>2, <1>11 DEF TaskEnds, Kill, VmmEnds, Stage
  <2>2. Contract!GiveUp(starts) \/ Contract!End(starts)
    BY <1>3, <2>1, Moves DEF Contract!GiveUp, Contract!End
  <2> QED
    BY <2>1, <2>2 DEF Contract!Next
\* The rest is within StartTask, or of a guest that runs.
<1>12. ASSUME UNCHANGED <<starts, vmm, phase>> PROVE UNCHANGED Contract!vars
  <2>1. UNCHANGED Stage
    BY <1>12 DEF Stage
  <2> QED
    BY <1>12, <2>1, Quiet
<1>13. ASSUME UNCHANGED starts, phase \notin {"idle", "running"},
              phase' \notin {"idle", "running"}
       PROVE  UNCHANGED Contract!vars
  <2>1. UNCHANGED Stage
    BY <1>13 DEF Stage
  <2> QED
    BY <1>13, <2>1, Quiet
<1>14. CASE SetupStep \/ DeadlinePasses \/ PutLogger \/ PutResource \/ PutMmds \/ GuestReads
            \/ LeftExits
  <2>1. UNCHANGED <<starts, vmm, phase>>
    BY <1>14 DEF SetupStep, DeadlinePasses, PutLogger, PutResource, PutMmds, GuestReads,
      LeftExits
  <2> QED
    BY <1>12, <2>1
<1>15. CASE Launch \/ Probe \/ ProbeAnswers \/ ProbeFails \/ StartInstance \/ LoadSnapshot
            \/ GiveUp \/ CallFails \/ CleanupHangs
  <2>1. /\ UNCHANGED starts /\ phase \notin {"idle", "running"}
        /\ phase' \notin {"idle", "running"}
    BY <1>15 DEF Launch, Probe, ProbeAnswers, ProbeFails, StartInstance, LoadSnapshot,
      GiveUp, CallFails, CleanupHangs, Calling
  <2> QED
    BY <1>13, <2>1
\* A VMM that goes on to its socket is not one that goes.
<1>16. CASE VmmStarts
  <2>1. UNCHANGED <<starts, phase>> /\ vmm # "none" /\ vmm' # "none"
    BY <1>16 DEF VmmStarts
  <2>2. UNCHANGED Stage
    BY <2>1 DEF Stage
  <2> QED
    BY <2>1, <2>2, Quiet
<1>17. CASE UNCHANGED vars
  BY <1>12, <1>17 DEF vars
<1> QED
  BY <1>4, <1>6, <1>7, <1>8, <1>9, <1>10, <1>11, <1>14, <1>15, <1>16, <1>17 DEF Next, Proceed

(* However many calls an attempt makes, and wherever it is when a call or   *)
(* the host fails, the plugin dies or its cleanup cannot kill, Nomad sees   *)
(* one start of TaskContract: it returns with its VM, or it is over before  *)
(* the next begins, its VM killed or, by a fault of OnlyFaultsLeave alone,  *)
(* out of the driver's reach.                                               *)
THEOREM Implements == Spec => ImplementsContract
<1>1. Init => Contract!Init
  <2> SUFFICES ASSUME Init PROVE Contract!Init
    OBVIOUS
  <2>1. \A n \in 1..MaxStarts : Life(n) = "new"
    BY DEF Init, Life
  <2> QED
    BY <2>1 DEF Contract!Init
<1>2. Init => Begun
  BY DEF Init, Begun
<1>3. IInv => TypeOK
  BY DEF IInv
<1> QED
  BY <1>1, <1>2, <1>3, Invariance, NextBegun, NextContract, PTL DEF Spec, ImplementsContract

===============================================================================
