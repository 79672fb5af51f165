-------------------------- MODULE LeaseStoreProofs --------------------------
(***************************************************************************)
(* The lease store keeps its inductive invariant and implements the fenced *)
(* lock, for any number of processes, threads, resources and runs.         *)
(***************************************************************************)
EXTENDS LeaseStore, TLAPS

USE PidAssumption, ClaimsAssumption, ReaperAssumption, MaxGenAssumption, SentinelAssumption

\* Every state is well typed: no claim, release or crash leaves a file, a lock
\* or a caller outside its domain.
LEMMA TypeStep == TypeOK /\ [Next]_vars => TypeOK'
<1> SUFFICES ASSUME TypeOK, [Next]_vars PROVE TypeOK'
  OBVIOUS
<1> USE DEF TypeOK, Lease, Control, Acquiring, Releasing, Forcing, FileOf, Goto,
            WriteFile, Return, TakeGate
<1>1. ASSUME NEW c \in Caller, NEW r \in Resource, NEW i \in Run, CallAcquire(c, r, i)
      PROVE TypeOK'
  BY <1>1 DEF CallAcquire
<1>2. ASSUME NEW c \in Caller, AcquireGate(c) \/ ReleaseGate(c) \/ ForceGate(c)
                                \/ GateFails(c)
      PROVE TypeOK'
  BY <1>2 DEF AcquireGate, ReleaseGate, ForceGate, GateFails
<1>3. ASSUME NEW c \in Caller, CreateNew(c) PROVE TypeOK'
  BY <1>3 DEF CreateNew
<1>4. ASSUME NEW c \in Caller, FindHolder(c) PROVE TypeOK'
  BY <1>4 DEF FindHolder
<1>5. ASSUME NEW c \in Caller, ReadGeneration(c) PROVE TypeOK'
  BY <1>5 DEF ReadGeneration, Draw
<1>6. ASSUME NEW c \in Caller, WriteGeneration(c) PROVE TypeOK'
  BY <1>6 DEF WriteGeneration
<1>7. ASSUME NEW c \in Caller, DrawFails(c) PROVE TypeOK'
  BY <1>7 DEF DrawFails
<1>8. ASSUME NEW c \in Caller, WriteRecord(c) PROVE TypeOK'
  BY <1>8 DEF WriteRecord
<1>9. ASSUME NEW c \in Caller, WriteFails(c) PROVE TypeOK'
  BY <1>9 DEF WriteFails
<1>10. ASSUME NEW c \in Caller, NEW l \in issued, CallRelease(c, l) PROVE TypeOK'
  BY <1>10 DEF CallRelease
<1>11. ASSUME NEW c \in Caller, NEW r \in Resource, CallRecover(c, r) PROVE TypeOK'
  BY <1>11 DEF CallRecover
<1>12. ASSUME NEW c \in Caller, NEW r \in Resource, CallForceRelease(c, r) PROVE TypeOK'
  BY <1>12 DEF CallForceRelease
<1>13. ASSUME NEW c \in Caller, CheckGeneration(c) PROVE TypeOK'
  BY <1>13 DEF CheckGeneration
<1>14. ASSUME NEW c \in Caller, RefuseRelease(c) PROVE TypeOK'
  BY <1>14 DEF RefuseRelease
<1>15. ASSUME NEW c \in Caller, RemoveFile(c) PROVE TypeOK'
  BY <1>15 DEF RemoveFile
<1>16. ASSUME NEW c \in Caller, ForceRemove(c) PROVE TypeOK'
  BY <1>16 DEF ForceRemove
<1>17. ASSUME NEW p \in Pid, Crash(p) PROVE TypeOK'
  BY <1>17 DEF Crash
<1>18. CASE UNCHANGED vars
  BY <1>18 DEF vars
<1>19. QED
  BY <1>1, <1>2, <1>3, <1>4, <1>5, <1>6, <1>7, <1>8, <1>9, <1>10, <1>11, <1>12, <1>13,
     <1>14, <1>15, <1>16, <1>17, <1>18 DEF Next, Claim, GiveBack


\* Every step keeps the facts the contract rests on.
LEMMA InvStep == IInv /\ [Next]_vars => IInv'
<1> SUFFICES ASSUME IInv, [Next]_vars PROVE IInv'
  OBVIOUS
<1> DEFINE Rest == /\ UniqueGenerations /\ NewestOnDisk
                   /\ LocksExclude /\ CounterCovers /\ CallsAreSound
<1>0. TypeOK'
  BY TypeStep DEF IInv
<1> USE DEF IInv, TypeOK, Lease, Control, Acquiring, Releasing, Forcing, HasOwnerLock,
            FileOf, Goto, WriteFile, Return, TakeGate, UniqueGenerations, NewestOnDisk,
            LocksExclude, CounterCovers, CallsAreSound
<1>1. ASSUME NEW c \in Caller, NEW r \in Resource, NEW i \in Run, CallAcquire(c, r, i) PROVE Rest'
  <2>1. (UniqueGenerations /\ NewestOnDisk /\ LocksExclude)'
    BY <1>1 DEF CallAcquire
  <2>2. CounterCovers'
    BY <1>1 DEF CallAcquire
  <2>3. ASSUME NEW e \in Caller, NEW d \in Caller, pc'[e] \in Releasing, pc'[d] \in Acquiring,
               lease'[e].pid \in alive'
        PROVE ~ (lease'[e].res = lease'[d].res /\ lease'[e].run = lease'[d].run)
    BY <1>1, <2>3 DEF CallAcquire, RunQuiet
  <2>4. CallsAreSound'
    BY <1>1, <2>3 DEF CallAcquire
  <2>5. QED
    BY <2>1, <2>2, <2>4
<1>2. ASSUME NEW c \in Caller, AcquireGate(c) \/ GateFails(c) PROVE Rest'
  <2>1. CASE AcquireGate(c)
    BY <2>1 DEF AcquireGate
  <2>2. CASE GateFails(c)
    BY <2>2 DEF GateFails
  <2>3. QED
    BY <1>2, <2>1, <2>2
<1>3. ASSUME NEW c \in Caller, CreateNew(c) PROVE Rest'
  BY <1>3 DEF CreateNew
<1>4. ASSUME NEW c \in Caller, FindHolder(c) PROVE Rest'
  BY <1>4 DEF FindHolder
<1>5. ASSUME NEW c \in Caller, ReadGeneration(c) PROVE Rest'
  BY <1>5 DEF ReadGeneration, Draw
<1>6. ASSUME NEW c \in Caller, WriteGeneration(c) PROVE Rest'
  BY <1>6 DEF WriteGeneration
<1>7. ASSUME NEW c \in Caller, DrawFails(c) PROVE Rest'
  BY <1>7 DEF DrawFails
<1>8. ASSUME NEW c \in Caller, WriteRecord(c) PROVE Rest'
  BY <1>8 DEF WriteRecord
<1>9. ASSUME NEW c \in Caller, WriteFails(c) PROVE Rest'
  BY <1>9 DEF WriteFails
<1>10. ASSUME NEW c \in Caller, NEW l \in issued, CallRelease(c, l) PROVE Rest'
  <2>1. (UniqueGenerations /\ NewestOnDisk /\ LocksExclude)'
    BY <1>10 DEF CallRelease
  <2>2. CounterCovers'
    BY <1>10 DEF CallRelease
  <2>3. ASSUME NEW e \in Caller, NEW d \in Caller, pc'[e] \in Releasing, pc'[d] \in Acquiring,
               lease'[e].pid \in alive'
        PROVE ~ (lease'[e].res = lease'[d].res /\ lease'[e].run = lease'[d].run)
    BY <1>10, <2>3 DEF CallRelease, RunQuiet
  <2>4. CallsAreSound'
    BY <1>10, <2>3 DEF CallRelease
  <2>5. QED
    BY <2>1, <2>2, <2>4
<1>11. ASSUME NEW c \in Caller, NEW r \in Resource, CallRecover(c, r) PROVE Rest'
  BY <1>11 DEF CallRecover
<1>12. ASSUME NEW c \in Caller, NEW r \in Resource, CallForceRelease(c, r) PROVE Rest'
  BY <1>12 DEF CallForceRelease
<1>13. ASSUME NEW c \in Caller, ReleaseGate(c) PROVE Rest'
  BY <1>13 DEF ReleaseGate
<1>14. ASSUME NEW c \in Caller, ForceGate(c) PROVE Rest'
  BY <1>14 DEF ForceGate
<1>15. ASSUME NEW c \in Caller, CheckGeneration(c) PROVE Rest'
  BY <1>15 DEF CheckGeneration
<1>16. ASSUME NEW c \in Caller, RefuseRelease(c) PROVE Rest'
  BY <1>16 DEF RefuseRelease
<1>17. ASSUME NEW c \in Caller, RemoveFile(c) PROVE Rest'
  BY <1>17 DEF RemoveFile
<1>18. ASSUME NEW c \in Caller, ForceRemove(c) PROVE Rest'
  <2>1. pc[c] = "fremove" /\ held' \subseteq held
    BY <1>18 DEF ForceRemove
  <2>2. file' = file \/ file' = [file EXCEPT ![lease[c].res] = NoFile]
    BY <1>18 DEF ForceRemove
  <2>3. QED
    BY <1>18, <2>1, <2>2 DEF ForceRemove
<1>19. ASSUME NEW p \in Pid, Crash(p) PROVE Rest'
  BY <1>19 DEF Crash
<1>20. CASE UNCHANGED vars
  BY <1>20 DEF vars
<1> HIDE DEF IInv, TypeOK, Lease, Control, Acquiring, Releasing, Forcing, HasOwnerLock,
             FileOf, Goto, WriteFile, Return, TakeGate, UniqueGenerations, NewestOnDisk,
             LocksExclude, CounterCovers, CallsAreSound
<1>21. ASSUME NEW c \in Caller, Claim(c) PROVE Rest'
  BY <1>1, <1>2, <1>3, <1>4, <1>5, <1>6, <1>7, <1>8, <1>9, <1>21 DEF Claim
<1>22. ASSUME NEW c \in Caller, GiveBack(c) PROVE Rest'
  BY <1>10, <1>11, <1>12, <1>13, <1>14, <1>15, <1>16, <1>17, <1>18, <1>22 DEF GiveBack
<1>23. QED
  BY <1>0, <1>19, <1>20, <1>21, <1>22 DEF Next, IInv

\* The inductive invariant holds in every reachable state.
THEOREM Invariance == Spec => []IInv
<1>1. Init => IInv
  BY DEF Init, IInv, TypeOK, Lease, Control, UniqueGenerations, NewestOnDisk, LocksExclude,
         CounterCovers, CallsAreSound, HasOwnerLock, Acquiring, Releasing, Forcing, FileOf
<1>2. QED
  BY <1>1, InvStep, PTL DEF Spec

\* Files, locks, control and leases stay in their domains.
THEOREM TypeCorrect == Spec => []TypeOK
BY Invariance, PTL DEF IInv

\* Unless the counter was once misread, a generation names one lease and the lease
\* on disk is the newest of its resource: a superseded holder is always detected by
\* comparing generations.
THEOREM Fencing == Spec => [](UniqueGenerations /\ NewestOnDisk)
BY Invariance, PTL DEF IInv

-----------------------------------------------------------------------------
\* A step keeps on disk every lease its holder counts on.
LEMMA HeldStep == IInv /\ HeldOnDisk /\ [Next]_vars => HeldOnDisk'
<1> SUFFICES ASSUME IInv, HeldOnDisk, [Next]_vars PROVE HeldOnDisk'
  OBVIOUS
<1> USE DEF IInv, TypeOK, Control, Acquiring, Releasing, Forcing, FileOf, Goto, WriteFile,
            Return, TakeGate, HeldOnDisk, Reissued
<1>1. ASSUME NEW c \in Caller, Claim(c)
      PROVE  HeldOnDisk'
  <2>1. CASE WriteRecord(c) \/ WriteFails(c) \/ DrawFails(c) \/ CreateNew(c)
    BY <2>1 DEF WriteRecord, WriteFails, DrawFails, CreateNew, LocksExclude, Lease
  <2>2. CASE FindHolder(c)
    BY <2>2 DEF FindHolder, NewestOnDisk, Lease
  <2>3. CASE AcquireGate(c) \/ GateFails(c) \/ ReadGeneration(c) \/ WriteGeneration(c)
             \/ \E r \in Resource, i \in Run : CallAcquire(c, r, i)
    BY <2>3 DEF AcquireGate, GateFails, ReadGeneration, Draw, WriteGeneration, CallAcquire
  <2>4. QED
    BY <1>1, <2>1, <2>2, <2>3 DEF Claim
<1>2. ASSUME NEW c \in Caller, GiveBack(c)
      PROVE  HeldOnDisk'
  <2>1. CASE RemoveFile(c)
    <3>0. pc[c] = "remove"
      BY <2>1 DEF RemoveFile
    <3>5. FileOf(c) \notin {NoFile, Blank} /\ FileOf(c).gen = lease[c].gen
      BY <3>0 DEF LocksExclude
    <3>6. lease[c] \in issued /\ lease[c] \notin held
      BY <3>0 DEF CallsAreSound
    <3>1. /\ FileOf(c) \in Lease /\ FileOf(c).gen = lease[c].gen
          /\ lease[c] \in issued /\ lease[c] \notin held
      BY <3>0, <3>5, <3>6 DEF Lease
    <3>2. FileOf(c).res = lease[c].res
      BY <2>1, <3>1 DEF RemoveFile, NewestOnDisk, Lease
    <3>3. FileOf(c) = lease[c] \/ Reissued(FileOf(c))
      BY <3>1, <3>2
    <3>4. QED
      BY <2>1, <3>1, <3>2, <3>3 DEF RemoveFile, Lease
  <2>2. CASE ReleaseGate(c) \/ CheckGeneration(c) \/ RefuseRelease(c)
             \/ (\E l \in issued : CallRelease(c, l))
             \/ \E r \in Resource : CallRecover(c, r) \/ CallForceRelease(c, r)
    BY <2>2 DEF ReleaseGate, CheckGeneration, RefuseRelease, CallRelease, CallRecover,
                CallForceRelease
  <2>3. CASE ForceGate(c)
    BY <2>3 DEF ForceGate
  <2>4. CASE ForceRemove(c)
    <3>1. \A l \in held : l.res = lease[c].res => l = FileOf(c) \/ Reissued(l)
      OBVIOUS
    <3>2. QED
      BY <2>4, <3>1 DEF ForceRemove, Lease
  <2>5. QED
    BY <1>2, <2>1, <2>2, <2>3, <2>4 DEF GiveBack
<1>3. ASSUME NEW p \in Pid, Crash(p)
      PROVE  HeldOnDisk'
  BY <1>3 DEF Crash
<1>4. CASE UNCHANGED vars
  BY <1>4 DEF vars
<1>5. QED
  BY <1>1, <1>2, <1>3, <1>4 DEF Next

\* Nothing takes a lease away from a holder that has not given it back and is not proven
\* gone, except a forced removal of its file and, after the counter was misread, the late
\* release of another lease of the resource with the same generation: other late releases,
\* other claims and crashes, of those who force as well, leave it on disk.
THEOREM NoTheft == Spec => []HeldOnDisk
<1>1. Init => HeldOnDisk
  BY DEF Init, HeldOnDisk
<1>2. QED
  BY <1>1, HeldStep, Invariance, PTL DEF Spec

-----------------------------------------------------------------------------
\* The initial state of the store is one of the contract.
LEMMA ContractInit == Init => Contract!FInit
BY DEF Init, Contract!FInit

\* Every step of the store is a grant, a return or no step of the contract.
LEMMA ContractStep == IInv /\ [Next]_vars => [Contract!FNext]_(Contract!fvars)
<1> SUFFICES ASSUME IInv, [Next]_vars
             PROVE  [Contract!FNext]_(Contract!fvars)
  OBVIOUS
<1> DEFINE inForce(r) == IF file[r] = Blank THEN NoFile ELSE file[r]
<1> USE DEF IInv, TypeOK, FileOf, Goto, WriteFile, Return, TakeGate
<1>1. ASSUME NEW c \in Caller, NEW l \in Lease, l = lease[c], pc[c] = "write",
             file' = [file EXCEPT ![l.res] = l], issued' = issued \union {l},
             lost' = lost
      PROVE  Contract!Grant(l)
  <2>1. l.res \in Resource /\ inForce(l.res) = NoFile
    BY <1>1 DEF LocksExclude, Lease
  <2>2. lost > 0 \/ \A m \in issued : m.gen # l.gen /\ (m.res = l.res => m.gen < l.gen)
    BY <1>1 DEF CounterCovers
  <2>3. [r \in Resource |-> inForce(r)]' = [[r \in Resource |-> inForce(r)] EXCEPT ![l.res] = l]
    BY <1>1, <2>1 DEF Lease
  <2>4. QED
    BY <1>1, <2>1, <2>2, <2>3 DEF Contract!Grant
<1>2. ASSUME NEW r \in Resource, file[r] \in Lease, file' = [file EXCEPT ![r] = NoFile],
             UNCHANGED <<issued, lost>>
      PROVE  Contract!Free(r)
  BY <1>2 DEF Contract!Free
<1>3. ASSUME \A r \in Resource : inForce(r)' = inForce(r), UNCHANGED <<issued, lost>>
      PROVE  UNCHANGED Contract!fvars
  BY <1>3 DEF Contract!fvars
<1>4. ASSUME NEW c \in Caller, Claim(c)
      PROVE  [Contract!FNext]_(Contract!fvars)
  <2>1. CASE WriteRecord(c)
    BY <1>1, <2>1 DEF WriteRecord, Contract!FNext, Lease
  <2>2. CASE WriteFails(c)
    <3>1. PICK left \in {NoFile, Blank, lease[c]} :
            WriteFile(c, left) /\ issued' = issued \union ({left} \ {NoFile, Blank})
      BY <2>2 DEF WriteFails
    <3>2. CASE left = lease[c]
      <4>1. pc[c] = "write" /\ lease[c] \in Lease /\ lost' = lost
        BY <2>2 DEF WriteFails
      <4>2. file' = [file EXCEPT ![lease[c].res] = lease[c]]
        BY <3>1, <3>2
      <4>3. lease[c] \notin {NoFile, Blank}
        BY <4>1
      <4>4. issued' = issued \union {lease[c]}
        BY <3>1, <3>2, <4>3
      <4>5. PICK l \in Lease : l = lease[c]
        BY <4>1
      <4>6. Contract!Grant(l)
        BY <1>1, <4>1, <4>2, <4>4, <4>5, ZenonT(30)
      <4>7. QED
        BY <4>6 DEF Contract!FNext
    <3>3. CASE left \in {NoFile, Blank}
      BY <1>3, <2>2, <3>1, <3>3 DEF WriteFails, LocksExclude
    <3>4. QED
      BY <3>1, <3>2, <3>3
  <2>3. CASE DrawFails(c)
    BY <1>3, <2>3 DEF DrawFails, LocksExclude
  <2>4. CASE CreateNew(c)
    BY <1>3, <2>4 DEF CreateNew
  <2>5. CASE FindHolder(c) \/ AcquireGate(c) \/ GateFails(c) \/ WriteGeneration(c)
             \/ \E r \in Resource, i \in Run : CallAcquire(c, r, i)
    BY <1>3, <2>5 DEF FindHolder, AcquireGate, GateFails, WriteGeneration, CallAcquire
  <2>6. CASE ReadGeneration(c)
    <3>1. file' = file /\ issued' = issued /\ lost' \in {lost, lost + 1}
      BY <2>6 DEF ReadGeneration, Draw
    <3>2. CASE lost' = lost
      BY <1>3, <3>1, <3>2
    <3>3. CASE lost' = lost + 1
      BY <3>1, <3>3 DEF Contract!Lose, Contract!FNext
    <3>4. QED
      BY <3>1, <3>2, <3>3
  <2>7. QED
    BY <1>4, <2>1, <2>2, <2>3, <2>4, <2>5, <2>6 DEF Claim
<1>5. ASSUME NEW c \in Caller, GiveBack(c)
      PROVE  [Contract!FNext]_(Contract!fvars)
  <2>1. CASE RemoveFile(c)
    <3>1. pc[c] = "remove" /\ UNCHANGED <<issued, lost>>
      BY <2>1 DEF RemoveFile
    <3>2. lease[c] \in Lease /\ lease[c].res \in Resource
      BY <3>1 DEF Lease
    <3>3. FileOf(c) \in Lease
      BY <3>1, SMTT(30) DEF LocksExclude, Lease
    <3>4. CASE WriteFile(c, FileOf(c))
      BY <1>3, <3>1, <3>2, <3>4
    <3>5. CASE WriteFile(c, NoFile)
      <4>1. PICK r \in Resource : r = lease[c].res
        BY <3>2
      <4>2. Contract!Free(r)
        BY <1>2, <3>1, <3>2, <3>3, <3>5, <4>1
      <4>3. QED
        BY <4>2 DEF Contract!FNext
    <3>6. QED
      BY <2>1, <3>4, <3>5 DEF RemoveFile
  <2>2. CASE ForceRemove(c)
    BY <1>2, <1>3, <2>2 DEF ForceRemove, CallsAreSound, Forcing, Contract!FNext, Lease
  <2>3. CASE ReleaseGate(c) \/ CheckGeneration(c) \/ RefuseRelease(c) \/ ForceGate(c)
             \/ (\E l \in issued : CallRelease(c, l))
             \/ (\E r \in Resource : CallRecover(c, r) \/ CallForceRelease(c, r))
    BY <1>3, <2>3 DEF ReleaseGate, CheckGeneration, RefuseRelease, ForceGate, CallRelease,
                      CallRecover, CallForceRelease
  <2>4. QED
    BY <1>5, <2>1, <2>2, <2>3 DEF GiveBack
<1>6. ASSUME NEW p \in Pid, Crash(p)
      PROVE  [Contract!FNext]_(Contract!fvars)
  BY <1>3, <1>6 DEF Crash
<1>7. CASE UNCHANGED vars
  BY <1>3, <1>7 DEF vars
<1>8. QED
  BY <1>4, <1>5, <1>6, <1>7 DEF Next

\* The lease store implements the fenced lock, crashes, failing reads and writes
\* and forced releases included.
THEOREM Implementation == Spec => ImplementsContract
<1>1. QED
  BY ContractInit, ContractStep, Invariance, PTL
     DEF Spec, ImplementsContract, Contract!FSpec

-----------------------------------------------------------------------------
(* What the contract gives: the fenced lock is fenced. *)

\* The leases of the store and its sentinel meet what the contract asks of its constants.
LEMMA ContractAssumption == Contract!LeaseAssumption
BY SentinelAssumption DEF Contract!LeaseAssumption, Lease

\* In a fenced lock whose count was not lost the owner of a resource is the newest lease
\* granted for it, and a generation names one lease.
THEOREM Newest == Contract!FSpec => []Contract!FInv
<1> USE DEF Contract!FInv, Contract!FTypeOK, Contract!OwnerIsNewest, Contract!GenerationNamesLease
<1>1. Contract!FInit => Contract!FInv
  BY DEF Contract!FInit
<1>2. Contract!FInv /\ [Contract!FNext]_(Contract!fvars) => Contract!FInv'
  <2> SUFFICES ASSUME Contract!FInv, [Contract!FNext]_(Contract!fvars) PROVE Contract!FInv'
    OBVIOUS
  <2>1. ASSUME NEW l \in Lease, Contract!Grant(l) PROVE Contract!FInv'
    BY <2>1, ContractAssumption DEF Contract!Grant, Contract!LeaseAssumption
  <2>2. ASSUME NEW r \in Resource, Contract!Free(r) PROVE Contract!FInv'
    BY <2>2, ContractAssumption DEF Contract!Free, Contract!LeaseAssumption
  <2>3. CASE UNCHANGED Contract!fvars
    BY <2>3 DEF Contract!fvars
  <2>4. CASE Contract!Lose
    BY <2>4 DEF Contract!Lose
  <2>5. QED
    BY <2>1, <2>2, <2>3, <2>4 DEF Contract!FNext
<1> HIDE DEF Contract!FInv
<1>3. QED
  BY <1>1, <1>2, PTL DEF Contract!FSpec

\* Unless the counter was once misread, a lease that was superseded is never in force again:
\* comparing a generation with the table, as LeaseStore::release does, detects every stale
\* holder.
THEOREM StaleNeverInForce == Spec => []Contract!Fenced
<1>1. Contract!FInv => Contract!Fenced
  BY ContractAssumption DEF Contract!LeaseAssumption, Contract!FInv, Contract!FTypeOK,
     Contract!OwnerIsNewest, Contract!Fenced
<1>2. QED
  BY <1>1, Newest, Implementation, PTL DEF ImplementsContract
=============================================================================
