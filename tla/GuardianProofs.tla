---------------------------- MODULE GuardianProofs ----------------------------
(***************************************************************************)
(* Proofs about Guardian: the root of a run is never free while one of its *)
(* commands executes, a clean-up reported as done is done, and a receipt   *)
(* of an orphaned run covers the host's servers, for any number of hosts,  *)
(* runs, servers and commands and any number of faults.                    *)
(***************************************************************************)
EXTENDS Guardian, TLAPS

USE GuardAssumption DEF Guard, HostUp, GuardAlive, Executing, Admitted, Emptied, Withdrawn

LEMMA InitHolds == Init => IInv
BY DEF Init, IInv, TypeOK, AdmittedAreWatched, RootIsKept, CallsAreSound, OrphansWait

\* What the guardian process does.  Quiet establishes that nothing is admitted any
\* more, Release relies on it, and every other step leaves both alone.
LEMMA GuardianSteps ==
    ASSUME IInv, NEW g \in Guard, GuardStep(g) \/ GuardDies(g)
    PROVE  IInv'
<1> USE DEF IInv, TypeOK, AdmittedAreWatched, RootIsKept, CallsAreSound, OrphansWait
<1>1. CASE Serve(g)
  BY <1>1 DEF Serve, Guards
<1>2. CASE HostGone(g)
  BY <1>2 DEF HostGone, Guards
<1>3. CASE AcceptFinish(g)
  BY <1>3 DEF AcceptFinish, Guards, Calls
<1>4. CASE Terminate(g)
  <2>1. PICK c \in groups[g] : anchor[c] = "alive" /\ KillGroup(c)
    BY <1>4 DEF Terminate
  <2>2. leader[c] # "new" /\ c \in Command
    BY <2>1
  <2> QED BY <1>4, <2>1, <2>2 DEF Terminate, KillGroup
<1>5. CASE Quiet(g)
  <2>1. \A c \in Command : GuardOf[c] = g => ~ Admitted(c)
    BY <1>5 DEF Quiet, GroupAlive
  <2>2. AdmittedAreWatched'
    BY <1>5, <2>1 DEF Quiet, Guards
  <2>3. g \in orphaned /\ g \in Run => \A s \in Server : HostOf[s] = HostOf[g] => s \in receipt
    BY <1>5 DEF Quiet, ServersDone
  <2>4. OrphansWait'
    BY <1>5, <2>3 DEF Quiet, Guards
  <2>5. TypeOK' /\ RootIsKept' /\ CallsAreSound'
    BY <1>5 DEF Quiet, Guards
  <2> QED BY <2>2, <2>4, <2>5
<1>6. CASE WriteProof(g)
  BY <1>6 DEF WriteProof, Guards
<1>7. CASE Release(g)
  <2>1. \A c \in Command : GuardOf[c] = g => ~ Admitted(c)
    BY <1>7 DEF Release
  <2>2. call[g] # "launch" \/ ~ HostUp(g)
    BY <1>7 DEF Release
  <2>3. RootIsKept'
    BY <1>7, <2>1, <2>2 DEF Release, Guards, FreeRoot
  <2>4. TypeOK' /\ AdmittedAreWatched' /\ CallsAreSound' /\ OrphansWait'
    BY <1>7 DEF Release, Guards, FreeRoot
  <2> QED BY <2>3, <2>4
<1>8. CASE GuardDies(g)
  BY <1>8 DEF GuardDies, Guards, Fault
<1> QED
  BY <1>1, <1>2, <1>3, <1>4, <1>5, <1>6, <1>7, <1>8 DEF GuardStep

\* What the host does.  A lease is given back by the host only after a launch that
\* failed, when no command exists yet.
LEMMA HostSteps ==
    ASSUME IInv, NEW g \in Guard, HostStep(g)
    PROVE  IInv'
<1> USE DEF IInv, TypeOK, AdmittedAreWatched, RootIsKept, CallsAreSound, OrphansWait
<1>1. CASE Acquire(g)
  BY <1>1 DEF Acquire, Calls
<1>2. CASE Launch(g)
  BY <1>2 DEF Launch, Guards
<1>3. CASE Launched(g)
  BY <1>3 DEF Launched, Calls
<1>4. CASE LaunchFails(g)
  <2>1. \A c \in Command : GuardOf[c] = g => leader[c] = "new" /\ ~ Admitted(c)
    BY <1>4 DEF LaunchFails
  <2>2. g \notin orphaned
    BY <1>4 DEF LaunchFails
  <2>3. RootIsKept'
    BY <1>4, <2>1 DEF LaunchFails, Guards, Calls, FreeRoot
  <2>4. AdmittedAreWatched' /\ CallsAreSound' /\ OrphansWait'
    BY <1>4, <2>1, <2>2 DEF LaunchFails, Guards, Calls
  <2>5. TypeOK'
    BY <1>4 DEF LaunchFails, Guards, Calls, FreeRoot, Fault
  <2> QED BY <2>3, <2>4, <2>5
<1>5. CASE AskFinish(g)
  BY <1>5 DEF AskFinish, Calls, Settle
<1>6. CASE FinishUnanswered(g)
  BY <1>6 DEF FinishUnanswered, Calls, Settle, Fault
<1>7. CASE Finished(g)
  BY <1>7 DEF Finished, Calls, Settle, Fault
<1>8. CASE Reconcile(g)
  BY <1>8 DEF Reconcile
<1>9. CASE DropFinish(g)
  BY <1>9 DEF DropFinish, Guards
<1> QED
  BY <1>1, <1>2, <1>3, <1>4, <1>5, <1>6, <1>7, <1>8, <1>9 DEF HostStep

\* What happens to one command.  Only Register admits, and only while the guardian
\* serves; Sweep forgets a group only when it is empty.
LEMMA CommandSteps ==
    ASSUME IInv, NEW c \in Command, CommandStep(c)
    PROVE  IInv'
<1> USE DEF IInv, TypeOK, AdmittedAreWatched, RootIsKept, CallsAreSound, OrphansWait
<1>1. CASE Spawn(c)
  BY <1>1 DEF Spawn
<1>2. CASE Cancel(c)
  BY <1>2 DEF Cancel, KillGroup
<1>3. CASE Refused(c)
  BY <1>3 DEF Refused
<1>4. CASE Exec(c)
  BY <1>4 DEF Exec
<1>5. CASE Fork(c)
  BY <1>5 DEF Fork
<1>6. CASE LeaderExits(c)
  BY <1>6 DEF LeaderExits
<1>7. CASE MembersExit(c)
  BY <1>7 DEF MembersExit
<1>8. CASE AnchorKills(c)
  BY <1>8 DEF AnchorKills, KillGroup
<1>9. CASE AnchorDies(c)
  BY <1>9 DEF AnchorDies, Fault
<1>10. CASE Register(c)
  <2>1. AdmittedAreWatched' /\ OrphansWait'
    BY <1>10 DEF Register
  <2>2. RootIsKept'
    BY <1>10 DEF Register
  <2>3. TypeOK' /\ CallsAreSound'
    BY <1>10 DEF Register
  <2> QED BY <2>1, <2>2, <2>3
<1>11. CASE Sweep(c)
  <2>1. CASE KillGroup(c) /\ UNCHANGED groups
    BY <1>11, <2>1 DEF Sweep, KillGroup
  <2>2. CASE ~ GroupAlive(c) /\ UNCHANGED <<leader, members, anchor>>
    <3>1. ~ Admitted(c)
      BY <2>2 DEF GroupAlive
    <3>2. groups' = [groups EXCEPT ![GuardOf[c]] = @ \ {c}]
      BY <1>11, <2>2 DEF Sweep, KillGroup, GroupAlive
    <3> QED BY <1>11, <2>2, <3>1, <3>2 DEF Sweep
  <2> QED BY <1>11, <2>1, <2>2 DEF Sweep
<1> QED
  BY <1>1, <1>2, <1>3, <1>4, <1>5, <1>6, <1>7, <1>8, <1>9, <1>10, <1>11 DEF CommandStep

LEMMA NextHolds == IInv /\ [Next]_vars => IInv'
<1> SUFFICES ASSUME IInv, [Next]_vars PROVE IInv'
  OBVIOUS
<1>1. ASSUME NEW g \in Guard, GuardStep(g) \/ HostStep(g) \/ GuardDies(g) PROVE IInv'
  BY <1>1, GuardianSteps, HostSteps
<1>2. ASSUME NEW c \in Command, CommandStep(c) PROVE IInv'
  BY <1>2, CommandSteps
<1>3. ASSUME NEW p \in Host, HostDies(p) PROVE IInv'
  BY <1>3 DEF HostDies, IInv, TypeOK, AdmittedAreWatched, RootIsKept, CallsAreSound, OrphansWait
<1>4. CASE UNCHANGED vars
  BY <1>4 DEF vars, IInv, TypeOK, AdmittedAreWatched, RootIsKept, CallsAreSound, OrphansWait
<1> QED
  BY <1>1, <1>2, <1>3, <1>4 DEF Next

-----------------------------------------------------------------------------
\* The inductive invariant of the guardian holds in every reachable state.
THEOREM Invariance == Spec => []IInv
<1> QED BY InitHolds, NextHolds, PTL DEF Spec

\* Every state is well typed, and nothing executes that was not registered before.
THEOREM TypeCorrect == Spec => []TypeOK
<1>1. IInv => TypeOK
  BY DEF IInv
<1> QED BY <1>1, Invariance, PTL

\* Nothing of a run executes once its root is free or held by another run.
THEOREM RootExclusive == Spec => []RootCoversCommands
<1>1. IInv => RootCoversCommands
  BY DEF IInv, RootIsKept, RootCoversCommands
<1> QED BY <1>1, Invariance, PTL

\* Where a clean-up was reported as done, nothing executes any more.
THEOREM CleanUpIsProven == Spec => []SettledIsClean
<1>1. IInv => SettledIsClean
  BY DEF IInv, TypeOK, AdmittedAreWatched, CallsAreSound, SettledIsClean
<1> QED BY <1>1, Invariance, PTL

\* The receipt of an orphaned run stands for the servers of its host as well.
THEOREM OrphanReceipt == Spec => []OrphanReceiptCoversServers
<1>1. IInv => OrphanReceiptCoversServers
  BY DEF IInv, TypeOK, AdmittedAreWatched, OrphansWait, OrphanReceiptCoversServers
<1> QED BY <1>1, Invariance, PTL
===============================================================================
