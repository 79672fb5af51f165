-------------------------- MODULE SessionRunsProofs --------------------------
(***************************************************************************)
(* Proofs about SessionRuns: a run that works holds its root and its       *)
(* owner lease, the root is kept while a child of the run lives, a run     *)
(* that ends as done has read what it accepted, and no compaction works    *)
(* during a run, for any number of runs, children, messages and faults.    *)
(***************************************************************************)
EXTENDS SessionRuns, TLAPS

\* All of the invariant but the flags, which are Booleans.
Sound ==
    /\ HoldersOK /\ PhasesOK /\ OneRun /\ Rooted /\ Window /\ Progress /\ OwnerCoversRun
    /\ DelegatesKeepRoot /\ DoneSawAll /\ CompactionExcludesRuns /\ Marks
    /\ (compaction # "idle" <=> compacting)

USE RunAssumption DEF Active, Open, Starting, Driving, Finishing, Mine, Queued, Unread,
    Goto, Fault, Sound, runtime, runs, children, messages, store, index

\* Unmarking the session for r gives back the lease of r or nothing.
UnmarkEffect(r) ==
    /\ \/ owner' = owner /\ lease' = lease
       \/ owner = r /\ lease = r /\ owner' = NoRun /\ lease' = NoRun
    /\ (shown' = shown /\ marked' = marked) \/ (owner = r /\ lease = r)
    /\ shown' = shown \/ shown' = FALSE
    /\ UNCHANGED <<taken, disowned, indexed, renaming, hidden>>
    /\ faults' = faults \/ (faults < MaxFaults /\ faults' = faults + 1)

LEMMA UnmarkFacts ==
    ASSUME NEW r, (Unmark(r) /\ UNCHANGED faults) \/ UnmarkFails(r)
    PROVE  UnmarkEffect(r)
BY Zenon DEF Unmark, UnmarkFails, GivesBack, UnmarkEffect

\* A save makes the entry of the session, with the mark in memory, or changes nothing.
SaveEffect ==
    /\ \/ indexed' = indexed /\ shown' = shown
       \/ ~indexed /\ renaming = "none" /\ indexed' = TRUE /\ shown' = marked
    /\ UNCHANGED <<marked, renaming, hidden>>
    /\ faults' = faults \/ (faults < MaxFaults /\ faults' = faults + 1)

LEMMA SaveFacts ==
    ASSUME Checkpoint \/ MaySave \/ UNCHANGED <<index, faults>>
    PROVE  SaveEffect
BY Zenon DEF Checkpoint, MaySave, SaveEffect

\* A settlement keeps the guard, or gives back the root of a guard that no child holds.
GuardEffect ==
    \/ slot' = slot /\ root' = root /\ proved' = proved
    \/ /\ slot' = NoRun /\ (slot = NoRun \/ Mine(slot) = {})
       /\ root' = IF slot # NoRun /\ root = slot THEN NoRun ELSE root
       /\ proved' = IF slot # NoRun THEN proved \union {slot} ELSE proved

LEMMA SettleFacts ==
    ASSUME NEW r, SettleHeld \/ Settled(r)
    PROVE  GuardEffect /\ UnmarkEffect(r) /\ (cleanupDone' => slot' = NoRun)
<1>1. GuardEffect
  BY Zenon DEF SettleHeld, Settled, GuardEffect
<1>2. UnmarkEffect(r)
  <2>1. CASE SettleHeld
    BY <2>1, Zenon DEF SettleHeld, UnmarkEffect
  <2>2. CASE Settled(r)
    BY <2>2, UnmarkFacts, Zenon DEF Settled
  <2> QED BY <2>1, <2>2
<1>3. cleanupDone' => slot' = NoRun
  BY Zenon DEF SettleHeld, Settled
<1> QED BY <1>1, <1>2, <1>3

LEMMA InitHolds == Init => IInv
<1> SUFFICES ASSUME Init PROVE IInv
  OBVIOUS
<1>1. TypeOK
  <2>1. FlagsOK
    BY Zenon DEF Init, FlagsOK
  <2>2. HoldersOK
    BY DEF Init, HoldersOK
  <2>3. PhasesOK
    BY DEF Init, PhasesOK
  <2> QED BY <2>1, <2>2, <2>3 DEF TypeOK
<1>2. OneRun /\ Rooted /\ Window /\ Progress
  BY DEF Init, OneRun, Rooted, Window, Progress
<1>3. OwnerCoversRun /\ DelegatesKeepRoot /\ DoneSawAll /\ CompactionExcludesRuns /\ Marks
  BY DEF Init, OwnerCoversRun, DelegatesKeepRoot, DoneSawAll, CompactionExcludesRuns, Marks
<1> QED
  BY <1>1, <1>2, <1>3 DEF Init, IInv

\* The starting half of a run.
LEMMA StartSteps ==
    ASSUME IInv, NEW r \in Run,
           Reconcile \/ Begin(r) \/ ClaimOwner(r) \/ AcquireRoot(r) \/ CheckCompacting(r)
           \/ SpawnMark(r) \/ Spawn(r) \/ Launch(r)
    PROVE  IInv'
<1> USE DEF IInv, TypeOK, OneRun, Rooted, Window, Progress, OwnerCoversRun,
        DelegatesKeepRoot, DoneSawAll, CompactionExcludesRuns, Marks
<1>1. CASE Reconcile
  <2>1. FlagsOK'
    BY <1>1, Zenon DEF FlagsOK, Reconcile, GateFree, SettleHeld, Settled, Unmark, UnmarkFails, GivesBack
  <2>2. Sound'
    <3> GuardEffect /\ UnmarkEffect(runId) /\ (cleanupDone' => slot' = NoRun)
      BY <1>1, SettleFacts, Zenon DEF Reconcile
    <3>1. \A c \in Child : ref[c] = slot \/ ref[c] = NoRun
      BY <1>1 DEF HoldersOK
    <3>2. HoldersOK' /\ PhasesOK'
      <4>1. root' \in Run \union {NoRun} /\ proved' \subseteq Run /\ slot' \in Run \union {NoRun}
        BY <1>1 DEF HoldersOK, GuardEffect, Reconcile
      <4>2. owner' \in Run \union {NoRun} /\ lease' \in Run \union {NoRun, Other}
        BY <1>1 DEF HoldersOK, UnmarkEffect, Reconcile
      <4>3. /\ runId' = runId /\ ref' = ref /\ sent' = sent /\ disowned' = disowned
            /\ stopped' = stopped /\ alive' = alive /\ taken' = taken /\ hidden' = hidden
        BY <1>1 DEF Reconcile, UnmarkEffect
      <4>4. HoldersOK'
        BY <4>1, <4>2, <4>3 DEF HoldersOK
      <4>5. faults' \in 0..MaxFaults
        BY <1>1 DEF PhasesOK, UnmarkEffect, Reconcile
      <4>6. PhasesOK'
        BY <1>1, <4>5, SMTT(30) DEF PhasesOK, Reconcile, UnmarkEffect
      <4> QED BY <4>4, <4>6
    <3>3. OneRun' /\ OwnerCoversRun' /\ Window' /\ Progress' /\ DoneSawAll' /\ Marks'
      BY <1>1, SMTT(60) DEF FlagsOK, HoldersOK, PhasesOK, GuardEffect, UnmarkEffect, Reconcile, GateFree
    <3>4. Rooted' /\ DelegatesKeepRoot'
      <4>1. (slot # NoRun => root = slot)' /\ (cleanupDone => slot = NoRun)'
        BY <1>1, Zenon DEF GuardEffect, Reconcile
      <4>2. \A c \in Child : ref'[c] # NoRun => c \in alive' /\ ref'[c] = slot' /\ root' = slot'
        BY <1>1, <3>1, Zenon DEF GuardEffect, Reconcile
      <4>3. \A c \in alive' : ref'[c] # NoRun
        BY <1>1, Zenon DEF GuardEffect, Reconcile
      <4>4. \A q \in Run :
              /\ pc'[q] \in {"begun", "owned"} => slot' = NoRun
              /\ pc'[q] \in {"rooted", "admitted", "marking"} \union Driving => slot' = q
              /\ pc'[q] \in Starting \union Driving => ~ cleanupDone'
              /\ pc'[q] = "owned" => q \in disowned' \/ (owner' = q /\ lease' = q)
        BY <1>1, SMTT(60) DEF HoldersOK, PhasesOK, GuardEffect, UnmarkEffect, Reconcile, GateFree
      <4> QED BY <3>2, <4>1, <4>2, <4>3, <4>4 DEF HoldersOK
    <3>5. CompactionExcludesRuns' /\ (compaction # "idle" <=> compacting)'
      BY <1>1, SMTT(60) DEF FlagsOK, HoldersOK, PhasesOK, GuardEffect, UnmarkEffect, Reconcile, GateFree
    <3> QED BY <3>2, <3>3, <3>4, <3>5
  <2> QED BY <2>1, <2>2
<1>2. CASE Begin(r)
  <2>1. FlagsOK'
    BY <1>2, Zenon DEF FlagsOK, Begin, GateFree
  <2>2. Sound'
    BY <1>2, SMTT(60) DEF FlagsOK, HoldersOK, PhasesOK, Begin, GateFree
  <2> QED BY <2>1, <2>2
<1>3. CASE ClaimOwner(r)
  <2>1. FlagsOK'
    BY <1>3, Zenon DEF FlagsOK, ClaimOwner, Refuse
  <2>2. Sound'
    BY <1>3, SMTT(60) DEF FlagsOK, HoldersOK, PhasesOK, ClaimOwner, Refuse
  <2> QED BY <2>1, <2>2
<1>4. CASE AcquireRoot(r)
  <2>1. FlagsOK'
    BY <1>4, Zenon DEF FlagsOK, AcquireRoot, Refuse
  <2>2. Sound'
    <3>1. CASE Refuse(r)
      BY <1>4, <3>1, SMTT(60) DEF FlagsOK, HoldersOK, PhasesOK, AcquireRoot, Refuse
    <3>2. CASE root = NoRun /\ root' = r /\ slot' = r /\ Goto(r, "rooted")
      BY <1>4, <3>2, SMTT(60) DEF FlagsOK, HoldersOK, PhasesOK, AcquireRoot
    <3> QED BY <1>4, <3>1, <3>2 DEF AcquireRoot
  <2> QED BY <2>1, <2>2
<1>5. CASE CheckCompacting(r)
  <2>1. FlagsOK'
    BY <1>5, Zenon DEF FlagsOK, CheckCompacting, Refuse
  <2>2. Sound'
    BY <1>5, SMTT(60) DEF FlagsOK, HoldersOK, PhasesOK, CheckCompacting, Refuse
  <2> QED BY <2>1, <2>2
<1>6. CASE SpawnMark(r)
  <2>1. FlagsOK'
    BY <1>6, Zenon DEF FlagsOK, SpawnMark, Refuse
  <2>2. Sound'
    BY <1>6, SMTT(60) DEF FlagsOK, HoldersOK, PhasesOK, SpawnMark, Refuse
  <2> QED BY <2>1, <2>2
<1>7. CASE Spawn(r)
  <2>1. FlagsOK'
    BY <1>7, Zenon DEF FlagsOK, Spawn, Refuse
  <2>2. Sound'
    BY <1>7, SMTT(60) DEF FlagsOK, HoldersOK, PhasesOK, Spawn, Refuse
  <2> QED BY <2>1, <2>2
<1>8. CASE LaunchMark(r)
  <2>1. FlagsOK'
    BY <1>8, Zenon DEF FlagsOK, LaunchMark
  <2>2. Sound'
    BY <1>8, SMTT(60) DEF FlagsOK, HoldersOK, PhasesOK, LaunchMark
  <2> QED BY <2>1, <2>2
<1>9. CASE LaunchNote(r)
  <2>1. FlagsOK'
    BY <1>9, Zenon DEF FlagsOK, LaunchNote
  <2>2. Sound'
    BY <1>9, SMTT(60) DEF FlagsOK, HoldersOK, PhasesOK, LaunchNote
  <2> QED BY <2>1, <2>2
<1>10. CASE LaunchCheck(r)
  <2>1. FlagsOK'
    BY <1>10, Zenon DEF FlagsOK, LaunchCheck
  <2>2. Sound'
    BY <1>10, SMTT(60) DEF FlagsOK, HoldersOK, PhasesOK, LaunchCheck
  <2> QED BY <2>1, <2>2
<1>11. CASE LaunchClear(r)
  <2>1. FlagsOK'
    BY <1>11, Zenon DEF FlagsOK, LaunchClear
  <2>2. Sound'
    BY <1>11, SMTT(60) DEF FlagsOK, HoldersOK, PhasesOK, LaunchClear
  <2> QED BY <2>1, <2>2
<1>12. CASE LaunchRelease(r)
  <2>1. FlagsOK'
    BY <1>12, Zenon DEF FlagsOK, LaunchRelease
  <2>2. Sound'
    BY <1>12, SMTT(60) DEF FlagsOK, HoldersOK, PhasesOK, LaunchRelease
  <2> QED BY <2>1, <2>2
<1>13. CASE LaunchForget(r)
  <2>1. FlagsOK'
    BY <1>13, Zenon DEF FlagsOK, LaunchForget, Hide
  <2>2. Sound'
    BY <1>13, SMTT(60) DEF FlagsOK, HoldersOK, PhasesOK, LaunchForget, Hide
  <2> QED BY <2>1, <2>2
<1>14. CASE LaunchUnshow(r)
  <2>1. FlagsOK'
    BY <1>14, Zenon DEF FlagsOK, LaunchUnshow, Hide
  <2>2. Sound'
    BY <1>14, SMTT(60) DEF FlagsOK, HoldersOK, PhasesOK, LaunchUnshow, Hide
  <2> QED BY <2>1, <2>2
<1> QED
  BY <1>1, <1>2, <1>3, <1>4, <1>5, <1>6, <1>7, <1>8, <1>9, <1>10, <1>11, <1>12, <1>13, <1>14 DEF Launch

\* The steps of its task.
LEMMA DriveSteps ==
    ASSUME IInv, NEW r \in Run,
           Arm(r) \/ BeginStep(r) \/ ModelTurn(r) \/ TextTurn(r) \/ Answered(r) \/ ToolBatch(r)
           \/ Gate(r)
    PROVE  IInv'
<1> USE DEF IInv, TypeOK, OneRun, Rooted, Window, Progress, OwnerCoversRun,
        DelegatesKeepRoot, DoneSawAll, CompactionExcludesRuns, Marks
<1>1. CASE Arm(r)
  <2>1. FlagsOK'
    BY <1>1, Zenon DEF FlagsOK, Arm
  <2>2. HoldersOK' /\ PhasesOK'
    BY <1>1 DEF FlagsOK, HoldersOK, PhasesOK, Arm
  <2>3. Progress'
    <3>1. runId = r /\ outcome = "none" /\ step' = step /\ outcome' = outcome /\ msg' = msg /\ sent' = sent
      BY <1>1 DEF PhasesOK, Arm
    <3>2. pc' = [pc EXCEPT ![r] = "step"] /\ step \in 0..MaxSteps
      BY <1>1 DEF PhasesOK, Arm
    <3> QED BY <3>1, <3>2, SMTT(30) DEF PhasesOK
  <2>4. OneRun' /\ Rooted' /\ Window' /\ OwnerCoversRun'
    BY <1>1, SMTT(60) DEF FlagsOK, HoldersOK, PhasesOK, Arm
  <2>5. Marks' /\ DelegatesKeepRoot' /\ DoneSawAll' /\ CompactionExcludesRuns' /\ (compaction # "idle" <=> compacting)'
    BY <1>1, SMTT(60) DEF FlagsOK, HoldersOK, PhasesOK, Arm
  <2> QED BY <2>1, <2>2, <2>3, <2>4, <2>5
<1>2. CASE BeginStep(r)
  <2>1. FlagsOK'
    BY <1>2, Zenon DEF FlagsOK, BeginStep, Leave, TakeQueued, Checkpoint, MaySave
  <2>2. Sound'
    BY <1>2, SMTT(60) DEF FlagsOK, HoldersOK, PhasesOK, BeginStep, Leave, TakeQueued, Checkpoint, MaySave
  <2> QED BY <2>1, <2>2
<1>3. CASE ModelTurn(r)
  <2>1. FlagsOK'
    BY <1>3, ZenonT(60) DEF FlagsOK, ModelTurn, Leave
  <2>2. Sound'
    BY <1>3, SMTT(60) DEF FlagsOK, HoldersOK, PhasesOK, ModelTurn, Leave
  <2> QED BY <2>1, <2>2
<1>4. CASE TextTurn(r)
  <2>1. FlagsOK'
    BY <1>4, ZenonT(60) DEF FlagsOK, TextTurn, Leave, NextStep, DrainOrStop, TakeQueued, Checkpoint, MaySave
  <2>2. Sound'
    BY <1>4, SMTT(60) DEF FlagsOK, HoldersOK, PhasesOK, TextTurn, Leave, NextStep, DrainOrStop, TakeQueued, Checkpoint, MaySave
  <2> QED BY <2>1, <2>2
<1>5. CASE ToolBatch(r)
  <2>1. FlagsOK'
    BY <1>5, ZenonT(60) DEF FlagsOK, ToolBatch, Leave, NextStep, DrainOrStop, TakeQueued, Checkpoint, MaySave
  <2>2. Sound'
    BY <1>5, SMTT(60) DEF FlagsOK, HoldersOK, PhasesOK, ToolBatch, Leave, NextStep, DrainOrStop, TakeQueued, Checkpoint, MaySave
  <2> QED BY <2>1, <2>2
<1>6. CASE Gate(r)
  <2>1. FlagsOK'
    BY <1>6, Zenon DEF FlagsOK, Gate, Leave, NextStep
  <2>2. Sound'
    BY <1>6, SMTT(60) DEF FlagsOK, HoldersOK, PhasesOK, Gate, Leave, NextStep
  <2> QED BY <2>1, <2>2
<1>7. CASE Answered(r)
  <2>1. FlagsOK'
    BY <1>7, Zenon DEF FlagsOK, Answered
  <2>2. Sound'
    BY <1>7, SMTT(60) DEF FlagsOK, HoldersOK, PhasesOK, Answered
  <2> QED BY <2>1, <2>2
<1> QED
  BY <1>1, <1>2, <1>3, <1>4, <1>5, <1>6, <1>7

\* Its end.
LEMMA EndSteps ==
    ASSUME IInv, NEW r \in Run,
           CloseWindow(r) \/ Disarm(r) \/ StopDescendants(r) \/ Descended(r) \/ FinishSettles(r) \/ FinishReleases(r) \/ Emit(r) \/ Abort(r)
    PROVE  IInv'
<1> USE DEF IInv, TypeOK, OneRun, Rooted, Window, Progress, OwnerCoversRun,
        DelegatesKeepRoot, DoneSawAll, CompactionExcludesRuns, Marks
<1>1. CASE CloseWindow(r)
  <2>1. FlagsOK'
    BY <1>1, Zenon DEF FlagsOK, CloseWindow, RefuseQueued
  <2>2. Sound'
    BY <1>1, SMTT(60) DEF FlagsOK, HoldersOK, PhasesOK, CloseWindow, RefuseQueued
  <2> QED BY <2>1, <2>2
<1>2. CASE Disarm(r)
  <2>1. FlagsOK'
    BY <1>2, Zenon DEF FlagsOK, Disarm
  <2>2. Sound'
    BY <1>2, SMTT(60) DEF FlagsOK, HoldersOK, PhasesOK, Disarm
  <2> QED BY <2>1, <2>2
<1>3. CASE StopDescendants(r)
  <2>1. FlagsOK'
    BY <1>3, Zenon DEF FlagsOK, StopDescendants
  <2>2. Sound'
    BY <1>3, SMTT(60) DEF FlagsOK, HoldersOK, PhasesOK, StopDescendants
  <2> QED BY <2>1, <2>2
<1>4. CASE Descended(r)
  <2>1. FlagsOK'
    BY <1>4, Zenon DEF FlagsOK, Descended, Checkpoint
  <2>2. Sound'
    BY <1>4, SMTT(60) DEF FlagsOK, HoldersOK, PhasesOK, Descended, Checkpoint
  <2> QED BY <2>1, <2>2
<1>5. CASE FinishSettles(r)
  <2>1. FlagsOK'
    BY <1>5, Zenon DEF FlagsOK, FinishSettles, SettleHeld, Settled, Unmark, UnmarkFails, GivesBack
  <2>2. Sound'
    <3> GuardEffect /\ UnmarkEffect(r) /\ (cleanupDone' => slot' = NoRun)
      BY <1>5, SettleFacts, Zenon DEF FinishSettles
    <3>1. \A c \in Child : ref[c] = slot \/ ref[c] = NoRun
      BY <1>5 DEF HoldersOK
    <3>2. HoldersOK' /\ PhasesOK'
      <4>1. root' \in Run \union {NoRun} /\ proved' \subseteq Run /\ slot' \in Run \union {NoRun}
        BY <1>5 DEF HoldersOK, GuardEffect, FinishSettles
      <4>2. owner' \in Run \union {NoRun} /\ lease' \in Run \union {NoRun, Other}
        BY <1>5 DEF HoldersOK, UnmarkEffect, FinishSettles
      <4>3. /\ runId' = runId /\ ref' = ref /\ sent' = sent /\ disowned' = disowned
            /\ stopped' = stopped /\ alive' = alive /\ taken' = taken /\ hidden' = hidden
        BY <1>5 DEF FinishSettles, UnmarkEffect
      <4>4. HoldersOK'
        BY <4>1, <4>2, <4>3 DEF HoldersOK
      <4>5. faults' \in 0..MaxFaults
        BY <1>5 DEF PhasesOK, UnmarkEffect, FinishSettles
      <4>6. PhasesOK'
        BY <1>5, <4>5, SMTT(30) DEF PhasesOK, FinishSettles, UnmarkEffect
      <4> QED BY <4>4, <4>6
    <3>3. OneRun' /\ OwnerCoversRun' /\ Window' /\ Progress' /\ DoneSawAll' /\ Marks'
      BY <1>5, SMTT(60) DEF FlagsOK, HoldersOK, PhasesOK, GuardEffect, UnmarkEffect, FinishSettles
    <3>4. Rooted' /\ DelegatesKeepRoot'
      <4>1. (slot # NoRun => root = slot)' /\ (cleanupDone => slot = NoRun)'
        BY <1>5, Zenon DEF GuardEffect, FinishSettles
      <4>2. \A c \in Child : ref'[c] # NoRun => c \in alive' /\ ref'[c] = slot' /\ root' = slot'
        BY <1>5, <3>1, Zenon DEF GuardEffect, FinishSettles
      <4>3. \A c \in alive' : ref'[c] # NoRun
        BY <1>5, Zenon DEF GuardEffect, FinishSettles
      <4>4. \A q \in Run :
              /\ pc'[q] \in {"begun", "owned"} => slot' = NoRun
              /\ pc'[q] \in {"rooted", "admitted", "marking"} \union Driving => slot' = q
              /\ pc'[q] \in Starting \union Driving => ~ cleanupDone'
              /\ pc'[q] = "owned" => q \in disowned' \/ (owner' = q /\ lease' = q)
        BY <1>5, SMTT(60) DEF HoldersOK, PhasesOK, GuardEffect, UnmarkEffect, FinishSettles
      <4> QED BY <3>2, <4>1, <4>2, <4>3, <4>4 DEF HoldersOK
    <3>5. CompactionExcludesRuns' /\ (compaction # "idle" <=> compacting)'
      BY <1>5, SMTT(60) DEF FlagsOK, HoldersOK, PhasesOK, GuardEffect, UnmarkEffect, FinishSettles
    <3> QED BY <3>2, <3>3, <3>4, <3>5
  <2> QED BY <2>1, <2>2
<1>6. CASE FinishReleases(r)
  <2>1. FlagsOK'
    BY <1>6, Zenon DEF FlagsOK, FinishReleases
  <2>2. Sound'
    BY <1>6, SMTT(60) DEF FlagsOK, HoldersOK, PhasesOK, FinishReleases
  <2> QED BY <2>1, <2>2
<1>7. CASE Emit(r)
  <2>1. FlagsOK'
    BY <1>7, Zenon DEF FlagsOK, Emit, Unmark, UnmarkFails, GivesBack
  <2>2. Sound'
    <3>1. UnmarkEffect(r)
      BY <1>7, UnmarkFacts, Zenon DEF Emit
    <3>3. HoldersOK' /\ PhasesOK'
      BY <1>7, <3>1, SMTT(60) DEF UnmarkEffect, HoldersOK, PhasesOK, Emit
    <3>4. OwnerCoversRun' /\ Marks'
      BY <1>7, <3>1, SMTT(60) DEF UnmarkEffect, HoldersOK, PhasesOK, Emit
    <3>6. OneRun' /\ Rooted' /\ DelegatesKeepRoot'
      BY <1>7, <3>1, SMTT(60) DEF UnmarkEffect, HoldersOK, PhasesOK, Emit
    <3>5. Window' /\ Progress' /\ DoneSawAll' /\ CompactionExcludesRuns' /\ (compaction # "idle" <=> compacting)'
      BY <1>7, SMTT(60) DEF HoldersOK, PhasesOK, Emit
    <3> QED BY <3>3, <3>4, <3>5, <3>6
  <2> QED BY <2>1, <2>2
<1>8. CASE Abort(r)
  <2>1. FlagsOK'
    BY <1>8, Zenon DEF FlagsOK, Abort, RefuseQueued
  <2>2. Sound'
    BY <1>8, SMTT(60) DEF FlagsOK, HoldersOK, PhasesOK, Abort, RefuseQueued
  <2> QED BY <2>1, <2>2
<1> QED
  BY <1>1, <1>2, <1>3, <1>4, <1>5, <1>6, <1>7, <1>8

\* The children, the user, the compaction and the other instance.
LEMMA OutsideSteps ==
    ASSUME IInv, 
           (\E r \in Run, c \in Child : Delegate(r, c)) \/ (\E c \in Child : ChildEnds(c)) \/ Cancel
           \/ (\E m \in Message : Inject(m)) \/ Compact \/ RenameReads \/ RenameWrites
           \/ OtherInstance
    PROVE  IInv'
<1> USE DEF IInv, TypeOK, OneRun, Rooted, Window, Progress, OwnerCoversRun,
        DelegatesKeepRoot, DoneSawAll, CompactionExcludesRuns, Marks
<1>1. ASSUME NEW r \in Run, NEW c \in Child, Delegate(r, c) PROVE IInv'
  <2>1. FlagsOK'
    BY <1>1, Zenon DEF FlagsOK, Delegate
  <2>2. Sound'
    BY <1>1, SMTT(60) DEF FlagsOK, HoldersOK, PhasesOK, Delegate
  <2> QED BY <2>1, <2>2
<1>2. ASSUME NEW c \in Child, ChildEnds(c) PROVE IInv'
  <2>1. FlagsOK'
    BY <1>2, Zenon DEF FlagsOK, ChildEnds
  <2>2. Sound'
    BY <1>2, SMTT(60) DEF FlagsOK, HoldersOK, PhasesOK, ChildEnds
  <2> QED BY <2>1, <2>2
<1>3. CASE Cancel
  <2>1. FlagsOK'
    BY <1>3, Zenon DEF FlagsOK, Cancel
  <2>2. Sound'
    BY <1>3, SMTT(60) DEF FlagsOK, HoldersOK, PhasesOK, Cancel
  <2> QED BY <2>1, <2>2
<1>4. ASSUME NEW m \in Message, Inject(m) PROVE IInv'
  <2>1. FlagsOK'
    BY <1>4, Zenon DEF FlagsOK, Inject
  <2>2. Sound'
    BY <1>4, SMTT(60) DEF FlagsOK, HoldersOK, PhasesOK, Inject
  <2> QED BY <2>1, <2>2
<1>5. CASE CompactSlot
  <2>1. FlagsOK'
    BY <1>5, Zenon DEF FlagsOK, CompactSlot
  <2>2. Sound'
    BY <1>5, SMTT(60) DEF FlagsOK, HoldersOK, PhasesOK, CompactSlot
  <2> QED BY <2>1, <2>2
<1>6. CASE CompactCheck
  <2>1. FlagsOK'
    BY <1>6, Zenon DEF FlagsOK, CompactCheck
  <2>2. Sound'
    <3>1. (compaction # "idle" <=> compacting)'
      <4>1. CASE running
        BY <1>6, <4>1, Zenon DEF CompactCheck
      <4>2. CASE ~running
        BY <1>6, <4>2, Zenon DEF CompactCheck
      <4> QED BY <4>1, <4>2
    <3>2. compaction' = "working" => ~running
      BY <1>6 DEF CompactCheck
    <3>3. CompactionExcludesRuns'
      <4>1. pc' = pc
        BY <1>6 DEF CompactCheck
      <4> QED BY <3>1, <3>2, <4>1
    <3> QED BY <1>6, <3>1, <3>3, SMTT(60) DEF FlagsOK, HoldersOK, PhasesOK, CompactCheck
  <2> QED BY <2>1, <2>2
<1>7. CASE CompactEnd
  <2>1. FlagsOK'
    BY <1>7, Zenon DEF FlagsOK, CompactEnd, Checkpoint, MaySave
  <2>2. Sound'
    BY <1>7, SMTT(60) DEF FlagsOK, HoldersOK, PhasesOK, CompactEnd, Checkpoint, MaySave
  <2> QED BY <2>1, <2>2
<1>8. CASE OtherInstance
  <2>1. FlagsOK'
    BY <1>8, Zenon DEF FlagsOK, OtherInstance
  <2>2. Sound'
    BY <1>8, SMTT(60) DEF FlagsOK, HoldersOK, PhasesOK, OtherInstance
  <2> QED BY <2>1, <2>2
<1>9. CASE RenameReads
  <2>1. FlagsOK'
    BY <1>9, Zenon DEF FlagsOK, RenameReads
  <2>2. Sound'
    BY <1>9, SMTT(60) DEF FlagsOK, HoldersOK, PhasesOK, RenameReads
  <2> QED BY <2>1, <2>2
<1>10. CASE RenameWrites
  <2>1. FlagsOK'
    BY <1>10, Zenon DEF FlagsOK, RenameWrites, Hide
  <2>2. Sound'
    BY <1>10, SMTT(60) DEF FlagsOK, HoldersOK, PhasesOK, RenameWrites, Hide
  <2> QED BY <2>1, <2>2
<1> QED
  BY <1>1, <1>2, <1>3, <1>4, <1>5, <1>6, <1>7, <1>8, <1>9, <1>10 DEF Compact

\* The inductive invariant holds in every reachable state of the runs of a session,
\* failed settlements, dropped tasks and other instances included.
THEOREM Invariance == Spec => []IInv
<1>1. IInv /\ UNCHANGED vars => IInv'
  <2> SUFFICES ASSUME IInv, UNCHANGED vars PROVE IInv'
    OBVIOUS
  <2>1. TypeOK'
    <3>1. FlagsOK'
      BY Zenon DEF vars, IInv, TypeOK, FlagsOK
    <3>2. HoldersOK'
      BY DEF vars, IInv, TypeOK, HoldersOK
    <3>3. PhasesOK'
      BY DEF vars, IInv, TypeOK, PhasesOK
    <3> QED BY <3>1, <3>2, <3>3 DEF TypeOK
  <2>2. OneRun' /\ Rooted' /\ Window' /\ Progress'
    BY DEF vars, IInv, OneRun, Rooted, Window, Progress
  <2>3. (OwnerCoversRun /\ DelegatesKeepRoot /\ DoneSawAll /\ CompactionExcludesRuns /\ Marks
         /\ (compaction # "idle" <=> compacting))'
    BY DEF vars, IInv, OwnerCoversRun, DelegatesKeepRoot, DoneSawAll, CompactionExcludesRuns, Marks
  <2> QED BY <2>1, <2>2, <2>3 DEF IInv
<1>2. IInv /\ Next => IInv'
  <2> SUFFICES ASSUME IInv, Next PROVE IInv'
    OBVIOUS
  <2>1. CASE Reconcile
    <3>1. runId \in Run
      BY <2>1, Zenon DEF Reconcile, IInv, OneRun, TypeOK, HoldersOK
    <3> QED BY <2>1, <3>1, StartSteps
  <2>2. ASSUME NEW r \in Run, Begin(r) \/ RunStep(r) \/ Answered(r) \/ Launch(r) \/ Abort(r) PROVE IInv'
    BY <2>2, StartSteps, DriveSteps, EndSteps, Zenon DEF RunStep
  <2> QED BY <2>1, <2>2, OutsideSteps, Zenon DEF Next
<1> QED
  BY InitHolds, <1>1, <1>2, PTL DEF Spec

\* A run that works holds the root of its workspace and, unless launch_run took it away,
\* the lease of its session; and the index shows it or its first save will, unless
\* launch_run or a renaming that overtook the first start hid it.
THEOREM WorkIsOwned == Spec => []OwnerCoversRun
BY Invariance, PTL DEF IInv

\* The root of a workspace stays taken while a child of the run that took it lives.
THEOREM RootIsKept == Spec => []DelegatesKeepRoot
BY Invariance, PTL DEF IInv

\* A run that ends as done has let the model read every message it accepted.
THEOREM NothingUnread == Spec => []DoneSawAll
BY Invariance, PTL DEF IInv

\* No compaction replaces the history of a session in which a run works.
THEOREM CompactionAlone == Spec => []CompactionExcludesRuns
BY Invariance, PTL DEF IInv
=============================================================================
