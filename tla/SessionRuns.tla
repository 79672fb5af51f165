----------------------------- MODULE SessionRuns -----------------------------
(***************************************************************************)
(* The runs of one session (core/agent/runtime.rs, drive.rs, the commands  *)
(* of host/commands/session.rs, the run marks of core/sessions/store.rs).  *)
(*                                                                         *)
(* A start takes the session's owner lease and the root of its workspace   *)
(* and spawns a task that alternates model turns and tool batches.  While  *)
(* it runs the user steers it with messages and may stop it; it delegates  *)
(* to children, each of which keeps a reference to the root.  The end of a *)
(* run publishes a terminal, proves its clean-up and gives everything back *)
(* before the next run may begin.  Around it: the compaction of the idle   *)
(* session and the mark-keeping of the start command.                      *)
(***************************************************************************)
EXTENDS Naturals, FiniteSets

CONSTANTS
    Run,        \* runs of the session, in any order
    Launched,   \* the runs started by the chat command, which keeps the mark as well
    Child,      \* sub-agents and commands: whatever clones the guard of the root
    Message,    \* messages the user sends into a running session
    Buffer,     \* INJECT_BUFFER
    MaxSteps,   \* DriveParams::max_steps (a bound)
    MaxFaults,  \* failed settlements, writes and releases, dropped tasks (a bound)
    NoRun,      \* no run
    Other       \* another instance of the application

ASSUME RunAssumption ==
    /\ Launched \subseteq Run /\ NoRun \notin Run /\ Other \notin Run /\ NoRun # Other
    /\ Buffer \in Nat /\ MaxSteps \in Nat \ {0} /\ MaxFaults \in Nat

\* The runtime of the session.
VARIABLES
    running,        \* the slot of the run
    runId,          \* run_snapshot.run_id
    cleanupDone,    \* cleanup_done
    slot,           \* workspace_guard: the run whose guard it is
    accepting,      \* inject_accepting
    activeCancel,   \* active_cancel: the token of the run is published
    compacting      \* the slot of the compaction

\* Each run, the locals of the current one, each child and message.
VARIABLES
    pc,             \* where the run is
    launch,         \* launch_run after start_chat
    outcome,        \* how the current run ends
    step,           \* its step
    cancelled,      \* its token is cancelled
    ref,            \* the guard each child holds a reference to
    alive,          \* the children that live
    stopped,        \* children whose own token is cancelled
    msg,            \* each message: nowhere, queued, or taken into the history and unread
    sent            \* history: the run that accepted it

\* The store and the outside.
VARIABLES
    owner,          \* session_owners
    lease,          \* the lease history:<id> on disk
    taken,          \* the lease launch_run took out of session_owners
    root,           \* the run that holds the workspace root
    proved,         \* history: runs whose guardian wrote its receipt
    disowned,       \* history: the run lost its lease to launch_run
    indexed,        \* the session has an entry in the index
    shown,          \* running in this entry
    marked,         \* running in memory, for the entry to come
    renaming,       \* a renaming saves: what it read of the mark in memory
    hidden,         \* history: launch_run or a renaming left the run without a mark
    compaction,     \* compact_session
    faults

runtime == <<running, runId, cleanupDone, slot, accepting, activeCancel, compacting>>
runs == <<pc, launch, outcome, step, cancelled>>
children == <<ref, alive, stopped>>
messages == <<msg, sent>>
store == <<owner, lease, taken, root, proved, disowned>>
index == <<indexed, shown, marked, renaming, hidden>>
vars == <<runtime, runs, children, messages, store, index, compaction, faults>>

Starting == {"begun", "owned", "rooted", "admitted", "marking"}
Driving == {"spawned", "step", "model", "text", "asks", "tools", "gate", "closing", "closed",
            "descend", "waiting"}
Finishing == {"final", "release"}

FlagsOK ==
    /\ running \in BOOLEAN /\ cleanupDone \in BOOLEAN /\ accepting \in BOOLEAN
    /\ compacting \in BOOLEAN /\ activeCancel \in BOOLEAN /\ cancelled \in BOOLEAN
    /\ indexed \in BOOLEAN /\ shown \in BOOLEAN /\ marked \in BOOLEAN

HoldersOK ==
    /\ {runId, slot, owner, root} \subseteq Run \union {NoRun}
    /\ lease \in Run \union {NoRun, Other}
    /\ ref \in [Child -> Run \union {NoRun}]
    /\ sent \in [Message -> Run \union {NoRun}]
    /\ taken \in [Run -> Run \union {NoRun}]
    /\ proved \subseteq Run /\ disowned \subseteq Run /\ hidden \subseteq Run
    /\ alive \subseteq Child /\ stopped \subseteq Child

PhasesOK ==
    /\ pc \in [Run -> {"new", "emit", "ended"} \union Starting \union Driving \union Finishing]
    /\ outcome \in {"none", "refused", "done", "cancelled", "error", "aborted"}
    /\ step \in 0..MaxSteps
    /\ launch \in [Run -> {"none", "mark", "note", "check", "clear", "release", "forget",
                          "unshow"}]
    /\ renaming \in {"none", "plain", "marked"}
    /\ msg \in [Message -> {"none", "queued", "taken"}]
    /\ compaction \in {"idle", "slot", "working"}
    /\ faults \in 0..MaxFaults

TypeOK == FlagsOK /\ HoldersOK /\ PhasesOK

Init ==
    /\ running = FALSE /\ runId = NoRun /\ cleanupDone = TRUE /\ slot = NoRun
    /\ accepting = FALSE /\ activeCancel = FALSE /\ compacting = FALSE
    /\ pc = [r \in Run |-> "new"]
    /\ launch = [r \in Run |-> "none"]
    /\ outcome = "none" /\ step = 0 /\ cancelled = FALSE
    /\ ref = [c \in Child |-> NoRun]
    /\ alive = {} /\ stopped = {}
    /\ msg = [m \in Message |-> "none"]
    /\ sent = [m \in Message |-> NoRun]
    /\ owner = NoRun /\ lease = NoRun /\ root = NoRun
    /\ taken = [r \in Run |-> NoRun]
    /\ proved = {} /\ disowned = {} /\ hidden = {}
    /\ indexed \in BOOLEAN /\ shown = FALSE /\ marked = FALSE /\ renaming = "none"
    /\ compaction = "idle" /\ faults = 0

Goto(r, at) == pc' = [pc EXCEPT ![r] = at]
Fault == faults < MaxFaults /\ faults' = faults + 1
Queued == {m \in Message : msg[m] = "queued"}
Unread == {m \in Message : msg[m] = "taken"}
Mine(r) == {c \in Child : ref[c] = r}

-----------------------------------------------------------------------------
(* The mark of the session *)

\* A run under way loses the mark that a crash would be noticed by.
Hide(when) ==
    hidden' = IF when THEN hidden \union {r \in Run : pc[r] \in Driving} ELSE hidden

\* A save of the history, under the lease the instance claimed (verify_session_owner) and
\* the lock of the saves.  The first one makes the entry of the session, with the mark in
\* memory; an entry that exists keeps its mark.  It may fail.
Checkpoint ==
    LET first == ~indexed /\ (IF owner = NoRun THEN lease # Other ELSE lease = owner)
    IN  /\ renaming = "none"
        /\ \/ first /\ indexed' = TRUE /\ shown' = marked /\ UNCHANGED faults
           \/ first /\ UNCHANGED <<indexed, shown>> /\ Fault
           \/ ~first /\ UNCHANGED <<indexed, shown, faults>>
        /\ UNCHANGED <<marked, renaming, hidden>>

MaySave == Checkpoint \/ UNCHANGED <<index, faults>>

-----------------------------------------------------------------------------
(* Giving everything back *)

GivesBack ==
    /\ shown' = FALSE /\ marked' = FALSE /\ lease' = NoRun /\ owner' = NoRun
    /\ UNCHANGED <<taken, disowned, indexed, renaming, hidden>>

\* Fault: whatever lease the session has is released.
UnmarkAny(r) ==
    IF owner # NoRun /\ lease = owner THEN GivesBack
    ELSE UNCHANGED <<owner, lease, taken, disowned, index>>

\* mark_running_for_run(id, r, false), under the lock of session_owners: only the lease of
\* r itself is released.
Unmark(r) ==
    IF owner = r /\ lease = r THEN GivesBack
    ELSE UNCHANGED <<owner, lease, taken, disowned, index>>

\* ... or the index cannot be written, or the lease cannot be released.
UnmarkFails(r) ==
    /\ owner = r /\ lease = r /\ Fault
    /\ \/ shown' \in {shown, FALSE} /\ UNCHANGED marked
       \/ shown' = FALSE /\ marked' = FALSE
    /\ UNCHANGED <<owner, lease, taken, disowned, indexed, renaming, hidden>>

\* try_settle_cleanup_for_run: refused while a child still refers to the guard or
\* the guardian does not confirm; the session is unmarked only after the root.
SettleHeld ==
    /\ slot # NoRun
    /\ \/ Mine(slot) # {} /\ UNCHANGED faults
       \/ Mine(slot) = {} /\ Fault
    /\ cleanupDone' = FALSE
    /\ UNCHANGED <<slot, store, index>>

\* Fault: the references of the children are not counted.
SettledUncounted(r) ==
    /\ slot' = NoRun
    /\ root' = IF slot # NoRun /\ root = slot THEN NoRun ELSE root
    /\ proved' = IF slot # NoRun THEN proved \union {slot} ELSE proved
    /\ \/ Unmark(r) /\ cleanupDone' = TRUE /\ UNCHANGED faults
       \/ UnmarkFails(r) /\ cleanupDone' = FALSE

Settled(r) ==
    /\ slot = NoRun \/ Mine(slot) = {}
    /\ slot' = NoRun
    /\ root' = IF slot # NoRun /\ root = slot THEN NoRun ELSE root
    /\ proved' = IF slot # NoRun THEN proved \union {slot} ELSE proved
    /\ \/ Unmark(r) /\ cleanupDone' = TRUE /\ UNCHANGED faults
       \/ UnmarkFails(r) /\ cleanupDone' = FALSE

-----------------------------------------------------------------------------
(* Starting a run: start_chat, under the start gate *)

GateFree ==
    \A r \in Run : pc[r] \notin Starting /\ ~(pc[r] \in Finishing /\ outcome = "refused")

\* A start first reconciles the clean-up that the last run left unconfirmed, and is
\* refused when it stays so.
Reconcile ==
    /\ GateFree /\ ~running /\ ~cleanupDone
    /\ SettleHeld \/ Settled(runId)
    /\ UNCHANGED <<running, runId, accepting, activeCancel, compacting, runs, children,
                   messages, compaction>>

\* begin_run_expected: the slot is free and the last run is cleaned up.
Begin(r) ==
    /\ pc[r] = "new" /\ GateFree
    /\ ~running /\ cleanupDone
    /\ running' = TRUE /\ runId' = r /\ cleanupDone' = FALSE
    /\ Goto(r, "begun")
    /\ UNCHANGED <<slot, accepting, activeCancel, compacting, outcome, step, cancelled,
                   launch, children, messages, store, index, compaction, faults>>

\* A start that cannot go on finishes the run as an error and is refused.
Refuse(r) ==
    /\ Goto(r, "final") /\ outcome' = "refused"
    /\ UNCHANGED <<runtime, step, cancelled, launch, children, messages, compaction>>

\* claim_session_owner; a lease left by a run whose guardian proved its clean-up is
\* recovered, when the session has an entry in the index.
ClaimOwner(r) ==
    LET free == lease \in {NoRun, r} \/ (indexed /\ lease \in proved)
    IN  /\ pc[r] = "begun"
        /\ \/ /\ free
              /\ owner' = r /\ lease' = r
              /\ Goto(r, "owned")
              /\ UNCHANGED <<runtime, outcome, step, cancelled, launch, children, messages,
                             taken, root, proved, disowned, index, compaction, faults>>
           \/ ~free /\ Refuse(r) /\ UNCHANGED <<store, index, faults>>

\* WorkspaceGuard::acquire_global takes the root, unless another run has it or the
\* guardian does not come up.
AcquireRoot(r) ==
    /\ pc[r] = "owned"
    /\ \/ /\ root = NoRun
          /\ root' = r /\ slot' = r
          /\ Goto(r, "rooted")
          /\ UNCHANGED <<running, runId, cleanupDone, accepting, activeCancel, compacting,
                         outcome, step, cancelled, launch, children, messages, owner, lease,
                         taken, proved, disowned, index, compaction, faults>>
       \/ /\ Refuse(r) /\ UNCHANGED <<store, index>>
          /\ Fault \/ (root # NoRun /\ UNCHANGED faults)

\* The slot is taken; only now the start looks whether a compaction is under way.
CheckCompacting(r) ==
    /\ pc[r] = "rooted"
    /\ \/ /\ ~compacting /\ Goto(r, "admitted")
          /\ UNCHANGED <<runtime, outcome, step, cancelled, launch, children, messages,
                         store, index, compaction, faults>>
       \/ compacting /\ Refuse(r) /\ UNCHANGED <<store, index, faults>>

\* The model and the delivery contract; then mark_running(id, true) marks the session in
\* memory ...
SpawnMark(r) ==
    /\ pc[r] = "admitted"
    /\ \/ /\ marked' = TRUE
          /\ Goto(r, "marking")
          /\ UNCHANGED <<runtime, outcome, step, cancelled, launch, children, messages, store,
                         indexed, shown, renaming, hidden, compaction, faults>>
       \/ Refuse(r) /\ Fault /\ UNCHANGED <<store, index>>

\* ... and in its entry, when there is one; then the task.
Spawn(r) ==
    /\ pc[r] = "marking"
    /\ \/ /\ shown' = indexed
          /\ hidden' = IF indexed \/ marked THEN hidden ELSE hidden \union {r}
          /\ Goto(r, "spawned")
          /\ launch' = [launch EXCEPT ![r] = IF r \in Launched THEN "mark" ELSE "none"]
          /\ UNCHANGED <<runtime, outcome, step, cancelled, children, messages, store, indexed,
                         marked, renaming, compaction, faults>>
       \/ /\ Refuse(r) /\ Fault
          /\ shown' \in {shown, indexed}
          /\ UNCHANGED <<store, indexed, marked, renaming, hidden>>

\* launch_run marks the session again after start_chat has returned, in memory ...
LaunchMark(r) ==
    /\ launch[r] = "mark"
    /\ launch' = [launch EXCEPT ![r] = "note"]
    /\ marked' = TRUE
    /\ UNCHANGED <<runtime, pc, outcome, step, cancelled, children, messages, store, indexed,
                   shown, renaming, hidden, compaction, faults>>

\* ... and in its entry, and leaves it at that when this fails ...
LaunchNote(r) ==
    /\ launch[r] = "note"
    /\ \/ /\ launch' = [launch EXCEPT ![r] = "check"]
          /\ shown' = indexed /\ UNCHANGED faults
       \/ /\ launch' = [launch EXCEPT ![r] = "none"]
          /\ shown' \in {shown, indexed} /\ Fault
    /\ UNCHANGED <<runtime, pc, outcome, step, cancelled, children, messages, store, indexed,
                   marked, renaming, hidden, compaction>>

\* ... looks whether the run has ended meanwhile ...
LaunchCheck(r) ==
    /\ launch[r] = "check"
    /\ launch' = [launch EXCEPT ![r] = IF running THEN "none" ELSE "clear"]
    /\ UNCHANGED <<runtime, pc, outcome, step, cancelled, children, messages, store, index,
                   compaction, faults>>

\* ... and then unmarks it with mark_running(id, false), which takes whatever lease the
\* session has by now ...
LaunchClear(r) ==
    /\ launch[r] = "clear"
    /\ launch' = [launch EXCEPT ![r] = "release"]
    /\ owner' = NoRun /\ taken' = [taken EXCEPT ![r] = owner]
    /\ disowned' = IF owner # NoRun THEN disowned \union {owner} ELSE disowned
    /\ UNCHANGED <<runtime, pc, outcome, step, cancelled, children, messages, lease, root,
                   proved, index, compaction, faults>>

\* ... gives it back, or fails to ...
LaunchRelease(r) ==
    /\ launch[r] = "release"
    /\ launch' = [launch EXCEPT ![r] = "forget"]
    /\ taken' = [taken EXCEPT ![r] = NoRun]
    /\ \/ /\ lease' = IF lease = taken[r] THEN NoRun ELSE lease
          /\ UNCHANGED faults
       \/ taken[r] # NoRun /\ UNCHANGED lease /\ Fault
    /\ UNCHANGED <<runtime, pc, outcome, step, cancelled, children, messages, owner, root,
                   proved, disowned, index, compaction>>

\* ... removes the mark in memory ...
LaunchForget(r) ==
    /\ launch[r] = "forget"
    /\ launch' = [launch EXCEPT ![r] = "unshow"]
    /\ marked' = FALSE /\ Hide(~indexed)
    /\ UNCHANGED <<runtime, pc, outcome, step, cancelled, children, messages, store, indexed,
                   shown, renaming, compaction, faults>>

\* ... and that of the entry, with the whole of the index.
LaunchUnshow(r) ==
    /\ launch[r] = "unshow"
    /\ launch' = [launch EXCEPT ![r] = "none"]
    /\ \/ shown' = FALSE /\ Hide(indexed) /\ UNCHANGED faults
       \/ shown' = shown /\ UNCHANGED hidden /\ Fault
    /\ UNCHANGED <<runtime, pc, outcome, step, cancelled, children, messages, store, indexed,
                   marked, renaming, compaction>>

-----------------------------------------------------------------------------
(* The task of a run: run_chat and drive_agent *)

\* begin_injections opens the window; then the token of the run is published, and from
\* here on it can be stopped.
Arm(r) ==
    /\ pc[r] = "spawned"
    /\ accepting' = TRUE /\ activeCancel' = TRUE
    /\ Goto(r, "step")
    /\ UNCHANGED <<running, runId, cleanupDone, slot, compacting, outcome, step, cancelled,
                   launch, children, messages, store, index, compaction, faults>>

\* The loop leaves with an outcome; what the run does next is CloseWindow.
Leave(r, how) ==
    /\ Goto(r, "closing") /\ outcome' = how
    /\ UNCHANGED <<runtime, step, cancelled, launch, children, messages, store, index,
                   compaction, faults>>

\* drain_inject: every queued message enters the history, which is saved, and its sender
\* hears so.
TakeQueued ==
    /\ msg' = [m \in Message |-> IF m \in Queued THEN "taken" ELSE msg[m]]
    /\ UNCHANGED sent

\* The head of the loop: the last step, a stop, or a drain before the model's turn; a full
\* context is compacted and saved.
BeginStep(r) ==
    /\ pc[r] = "step"
    /\ \/ step = MaxSteps /\ Leave(r, "done")
       \/ step < MaxSteps /\ cancelled /\ Leave(r, "cancelled")
       \/ /\ step < MaxSteps /\ ~cancelled
          /\ TakeQueued
          /\ IF Queued # {} THEN Checkpoint ELSE MaySave
          /\ Goto(r, "model")
          /\ UNCHANGED <<runtime, outcome, step, cancelled, launch, children, store,
                         compaction>>

\* One turn of the model reads the history: it calls tools, one of which may have to ask
\* the user, writes text, or fails.
ModelTurn(r) ==
    /\ pc[r] = "model"
    /\ \/ cancelled /\ Leave(r, "cancelled")
       \/ Leave(r, "error")
       \/ \E at \in {"text", "asks", "tools"} :
            /\ Goto(r, at)
            /\ msg' = [m \in Message |-> IF m \in Unread THEN "none" ELSE msg[m]]
            /\ sent' = [m \in Message |-> IF m \in Unread THEN NoRun ELSE sent[m]]
            /\ UNCHANGED <<runtime, outcome, step, cancelled, launch, children, store, index,
                           compaction, faults>>

NextStep(r) == Goto(r, "step") /\ step' = step + 1

\* Fault: the last drain does not look whether a step is left.
DrainUnbounded(r) ==
    \/ /\ ~cancelled /\ Queued # {}
       /\ TakeQueued /\ Checkpoint /\ NextStep(r) /\ UNCHANGED accepting
    \/ /\ cancelled \/ Queued = {}
       /\ accepting' = FALSE /\ Goto(r, "gate") /\ UNCHANGED <<step, messages, index, faults>>

\* Before it stops, the run drains once more; the empty queue closes the window in
\* the same critical section.
DrainOrStop(r) ==
    \/ /\ step + 1 < MaxSteps /\ ~cancelled /\ Queued # {}
       /\ TakeQueued /\ Checkpoint /\ NextStep(r) /\ UNCHANGED accepting
    \/ /\ step + 1 < MaxSteps /\ ~cancelled /\ Queued = {}
       /\ accepting' = FALSE /\ Goto(r, "gate") /\ UNCHANGED <<step, messages, index, faults>>
    \/ /\ step + 1 >= MaxSteps \/ cancelled
       /\ Goto(r, "gate") /\ UNCHANGED <<accepting, step, messages, index, faults>>

\* Text ends the run, unless the plan is unfinished or a message forced the turn; at the
\* limit of text turns it ends without the last drain, and fails for rejected calls.
TextTurn(r) ==
    /\ pc[r] = "text"
    /\ \/ Leave(r, "error")
       \/ /\ \/ DrainOrStop(r)
             \/ Goto(r, "gate") /\ UNCHANGED <<accepting, step, messages, index, faults>>
             \/ NextStep(r) /\ UNCHANGED <<accepting, messages, index, faults>>
          /\ UNCHANGED <<running, runId, cleanupDone, slot, activeCancel, compacting,
                         outcome, cancelled, launch, children, store, compaction>>

\* The batch goes on when the user answers, and when the run is stopped.
Answered(r) ==
    /\ pc[r] = "asks"
    /\ Goto(r, "tools")
    /\ UNCHANGED <<runtime, outcome, step, cancelled, launch, children, messages, store,
                   index, compaction, faults>>

\* A tool batch ends the run (suggestions, the report), goes on, is escalated by the
\* supervision, or its question is skipped, which stops the run.
ToolBatch(r) ==
    /\ pc[r] = "tools"
    /\ \/ Leave(r, "error")
       \/ /\ Goto(r, "closing") /\ outcome' = "cancelled"
          /\ cancelled' = TRUE /\ stopped' = stopped \union Mine(r)
          /\ UNCHANGED <<runtime, step, launch, ref, alive, messages, store, index,
                         compaction, faults>>
       \/ /\ \/ DrainOrStop(r)
             \/ NextStep(r) /\ MaySave /\ UNCHANGED <<accepting, messages>>
          /\ UNCHANGED <<running, runId, cleanupDone, slot, activeCancel, compacting,
                         outcome, cancelled, launch, children, store, compaction>>

\* gate_delivery_stop: a missing acceptance asks for another round while steps are left.
Gate(r) ==
    /\ pc[r] = "gate"
    /\ \/ Leave(r, "done")
       \/ /\ step + 1 < MaxSteps /\ ~cancelled
          /\ NextStep(r)
          /\ UNCHANGED <<runtime, outcome, cancelled, launch, children, messages, store,
                         index, compaction, faults>>

\* A tool batch delegates to a child, which clones the guard (new_sub) and whose token
\* derives from that of the run.  A child has no tool to delegate with.
Delegate(r, c) ==
    /\ pc[r] \in {"asks", "tools"} /\ c \notin alive
    /\ alive' = alive \union {c}
    /\ ref' = [ref EXCEPT ![c] = slot]
    /\ stopped' = IF cancelled THEN stopped \union {c} ELSE stopped
    /\ UNCHANGED <<runtime, runs, messages, store, index, compaction, faults>>

\* A child ends in its own time, stopped or not, and drops its reference.
ChildEnds(c) ==
    /\ c \in alive
    /\ alive' = alive \ {c}
    /\ ref' = [ref EXCEPT ![c] = NoRun]
    /\ stopped' = stopped \ {c}
    /\ UNCHANGED <<runtime, runs, messages, store, index, compaction, faults>>

-----------------------------------------------------------------------------
(* The end of a run *)

RefuseQueued ==
    /\ msg' = [m \in Message |-> IF m \in Queued THEN "none" ELSE msg[m]]
    /\ sent' = [m \in Message |-> IF m \in Queued THEN NoRun ELSE sent[m]]

\* Fault: the queue is left for the next run.
CloseKeepsQueue(r) ==
    /\ pc[r] = "closing"
    /\ accepting' = FALSE
    /\ Goto(r, "closed")
    /\ UNCHANGED <<running, runId, cleanupDone, slot, activeCancel, compacting, outcome,
                   step, cancelled, launch, children, messages, store, index, compaction,
                   faults>>

\* close_injections: what is still queued goes back to its sender.
CloseWindow(r) ==
    /\ pc[r] = "closing"
    /\ accepting' = FALSE /\ RefuseQueued
    /\ Goto(r, "closed")
    /\ UNCHANGED <<running, runId, cleanupDone, slot, activeCancel, compacting, outcome,
                   step, cancelled, launch, children, store, index, compaction, faults>>

\* After the last flush nobody can stop the run any more.
Disarm(r) ==
    /\ pc[r] = "closed"
    /\ activeCancel' = FALSE
    /\ Goto(r, "descend")
    /\ UNCHANGED <<running, runId, cleanupDone, slot, accepting, compacting, outcome, step,
                   cancelled, launch, children, messages, store, index, compaction, faults>>

\* Fault: the children are waited for and not stopped.
StopNobody(r) ==
    /\ pc[r] = "descend"
    /\ Goto(r, "waiting")
    /\ UNCHANGED <<runtime, outcome, step, cancelled, launch, children, messages, store,
                   index, compaction, faults>>

\* settle_descendants waits for the children, up to a deadline, and stops the rest ...
StopDescendants(r) ==
    /\ pc[r] = "descend"
    /\ stopped' = stopped \union Mine(r)
    /\ Goto(r, "waiting")
    /\ UNCHANGED <<runtime, outcome, step, cancelled, launch, ref, alive, messages, store,
                   index, compaction, faults>>

\* ... and waits again, up to another deadline; a stopped run stops what is left
\* (mark_cancelled).  The last checkpoint.
Descended(r) ==
    /\ pc[r] = "waiting"
    /\ stopped' = IF outcome = "cancelled" THEN stopped \union alive ELSE stopped
    /\ Checkpoint
    /\ Goto(r, "final")
    /\ UNCHANGED <<runtime, outcome, step, cancelled, launch, ref, alive, messages, store,
                   compaction>>

\* The task is dropped or panics outside the loop (RunCleanupGuard).
Abort(r) ==
    /\ pc[r] \in Driving /\ Fault
    /\ activeCancel' = FALSE
    /\ cancelled' = (cancelled \/ activeCancel)
    /\ stopped' = stopped \union alive
    /\ accepting' = FALSE /\ RefuseQueued
    /\ Goto(r, "final") /\ outcome' = "aborted"
    /\ UNCHANGED <<running, runId, cleanupDone, slot, compacting, step, launch, ref, alive,
                   store, index, compaction>>

\* finish_run, under the lock of the snapshot: the terminal is published, the clean-up
\* settled ...
FinishSettles(r) ==
    /\ pc[r] = "final"
    /\ SettleHeld \/ Settled(r)
    /\ Goto(r, "release")
    /\ UNCHANGED <<running, runId, accepting, activeCancel, compacting, outcome, step,
                   cancelled, launch, children, messages, compaction>>

\* ... and the slot released last.  The event of the end tells whether the clean-up is
\* done; that of an aborted run says nothing of it.
FinishReleases(r) ==
    /\ pc[r] = "release"
    /\ running' = FALSE
    /\ outcome' = "none" /\ step' = 0 /\ cancelled' = FALSE
    /\ Goto(r, IF outcome # "refused" /\ (cleanupDone \/ outcome = "aborted") THEN "emit"
               ELSE "ended")
    /\ disowned' = disowned \ {r} /\ hidden' = hidden \ {r}
    /\ UNCHANGED <<runId, cleanupDone, slot, accepting, activeCancel, compacting, launch,
                   children, messages, owner, lease, taken, root, proved, indexed, shown,
                   marked, renaming, compaction, faults>>

\* The watching sink unmarks the session for this run, unless the event says that the
\* clean-up is not done.  A failed write is only logged.
Emit(r) ==
    /\ pc[r] = "emit"
    /\ Goto(r, "ended")
    /\ (Unmark(r) /\ UNCHANGED faults) \/ UnmarkFails(r)
    /\ UNCHANGED <<runtime, outcome, step, cancelled, launch, children, messages, root,
                   proved, compaction>>

-----------------------------------------------------------------------------
(* The user and the other commands *)

\* cancel_active: a stop without a published token is a no-op.  The tokens of the
\* children derive from that of the run.
Cancel ==
    /\ activeCancel
    /\ cancelled' = TRUE
    /\ stopped' = stopped \union Mine(runId)
    /\ UNCHANGED <<runtime, pc, outcome, step, launch, ref, alive, messages, store, index,
                   compaction, faults>>

\* inject_message: accepted into the window of the current run; refused otherwise, at once.
Inject(m) ==
    /\ msg[m] = "none"
    /\ accepting /\ Cardinality(Queued) < Buffer
    /\ msg' = [msg EXCEPT ![m] = "queued"]
    /\ sent' = [sent EXCEPT ![m] = runId]
    /\ UNCHANGED <<runtime, runs, children, store, index, compaction, faults>>

\* compact_session takes its slot first ...
CompactSlot ==
    /\ compaction = "idle" /\ ~compacting
    /\ compacting' = TRUE /\ compaction' = "slot"
    /\ UNCHANGED <<running, runId, cleanupDone, slot, accepting, activeCancel, runs,
                   children, messages, store, index, faults>>

\* Fault: the run is not looked for again.
CompactUnchecked ==
    /\ compaction = "slot"
    /\ compaction' = "working"
    /\ UNCHANGED <<runtime, runs, children, messages, store, index, faults>>

\* ... looks for a run only then ...
CompactCheck ==
    /\ compaction = "slot"
    /\ compacting' = ~running
    /\ compaction' = IF running THEN "idle" ELSE "working"
    /\ UNCHANGED <<running, runId, cleanupDone, slot, accepting, activeCancel, runs,
                   children, messages, store, index, faults>>

\* ... and replaces the history, and saves it.
CompactEnd ==
    /\ compaction = "working"
    /\ compacting' = FALSE /\ compaction' = "idle"
    /\ MaySave
    /\ UNCHANGED <<running, runId, cleanupDone, slot, accepting, activeCancel, runs,
                   children, messages, store>>

\* rename_session saves the history of the session: it reads the mark in memory ...
RenameReads ==
    /\ ~indexed /\ renaming = "none"
    /\ IF owner = NoRun THEN lease # Other ELSE lease = owner
    /\ renaming' = IF marked THEN "marked" ELSE "plain"
    /\ UNCHANGED <<runtime, runs, children, messages, store, indexed, shown, marked, hidden,
                   compaction, faults>>

\* ... and makes the entry with what it read, or fails.
RenameWrites ==
    /\ renaming # "none"
    /\ renaming' = "none"
    /\ \/ /\ indexed' = TRUE /\ shown' = (renaming = "marked")
          /\ Hide(renaming = "plain") /\ UNCHANGED faults
       \/ UNCHANGED <<indexed, shown, hidden>> /\ Fault
    /\ UNCHANGED <<runtime, runs, children, messages, store, marked, compaction>>

\* Another instance of the application takes the free session, or gives it back.
OtherInstance ==
    /\ lease' = IF lease = NoRun THEN Other ELSE IF lease = Other THEN NoRun ELSE lease
    /\ lease' # lease
    /\ UNCHANGED <<runtime, runs, children, messages, owner, taken, root, proved, disowned,
                   index, compaction, faults>>

-----------------------------------------------------------------------------
RunStep(r) ==
    \/ ClaimOwner(r) \/ AcquireRoot(r) \/ CheckCompacting(r) \/ SpawnMark(r)
    \/ Spawn(r) \/ Arm(r) \/ BeginStep(r) \/ ModelTurn(r) \/ TextTurn(r)
    \/ (cancelled /\ Answered(r)) \/ ToolBatch(r) \/ Gate(r) \/ CloseWindow(r)
    \/ Disarm(r) \/ StopDescendants(r) \/ Descended(r)
    \/ FinishSettles(r) \/ FinishReleases(r) \/ Emit(r)
Launch(r) ==
    \/ LaunchMark(r) \/ LaunchNote(r) \/ LaunchCheck(r) \/ LaunchClear(r)
    \/ LaunchRelease(r) \/ LaunchForget(r) \/ LaunchUnshow(r)
Compact == CompactSlot \/ CompactCheck \/ CompactEnd

Next ==
    \/ Reconcile
    \/ \E r \in Run :
        \/ Begin(r) \/ RunStep(r) \/ Answered(r) \/ Launch(r) \/ Abort(r)
        \/ \E c \in Child : Delegate(r, c)
    \/ \E c \in Child : ChildEnds(c)
    \/ Cancel
    \/ \E m \in Message : Inject(m)
    \/ Compact \/ RenameReads \/ RenameWrites \/ OtherInstance

Spec == Init /\ [][Next]_vars

\* The runtime schedules the task of a run; a model turn, a tool batch that asks nobody and
\* a wait all end, by themselves or by their deadlines.  A question ends with the answer or
\* with the stop of the run, and nothing is assumed of the user.  A child whose token is
\* cancelled ends, and so does a save that holds the lock of the saves.
FairSpec ==
    /\ Spec
    /\ WF_vars(RenameWrites \/ \E r \in Run : RunStep(r))
    /\ \A c \in Child : WF_vars(c \in stopped /\ ChildEnds(c))
-----------------------------------------------------------------------------
(* Properties *)

Active(r) == pc[r] \in Starting \union Driving \union Finishing
Open == {"step", "model", "text", "asks", "tools", "gate", "closing"}

\* The runtime knows its run: the slot is taken exactly while one run is between
\* begin_run and the end of finish_run.
OneRun ==
    /\ \A r \in Run : Active(r) => running /\ runId = r
    /\ running => runId # NoRun /\ Active(runId)
    /\ ~running => outcome = "none" /\ step = 0
    /\ ~cleanupDone => runId # NoRun

\* The guard in the slot is the one of the root in force, and a run whose clean-up is
\* done has none.
Rooted ==
    /\ slot # NoRun => root = slot
    /\ cleanupDone => slot = NoRun
    /\ \A r \in Run :
        /\ pc[r] \in {"begun", "owned"} => slot = NoRun
        /\ pc[r] \in {"rooted", "admitted", "marking"} \union Driving => slot = r
        /\ pc[r] \in Starting \union Driving => ~cleanupDone
        /\ pc[r] = "owned" => r \in disowned \/ (owner = r /\ lease = r)
    /\ \A c \in Child : ref[c] # NoRun => c \in alive /\ ref[c] = slot

\* A message waits only in the window of the run that accepted it.
Window ==
    /\ accepting => running /\ pc[runId] \in Open
    /\ \A m \in Queued : running /\ pc[runId] \in Open /\ sent[m] = runId
    /\ \A m \in Unread : sent[m] \in Run
    /\ activeCancel => running /\ pc[runId] \in Open \union {"closed"}

\* What the steps of a run have established so far.
Progress ==
    \A r \in Run : Active(r) =>
        /\ pc[r] \in Starting \union {"spawned"} => step = 0
        /\ pc[r] \in {"model", "text", "asks", "tools", "gate"} => step < MaxSteps
        /\ outcome # "none" <=> pc[r] \in {"closing", "closed", "descend", "waiting"} \union Finishing
        /\ outcome = "refused" => pc[r] \in Finishing
        /\ pc[r] \in {"text", "asks", "tools", "gate"} \/ (pc[r] = "step" /\ step = MaxSteps)
           => \A m \in Unread : sent[m] # r

\* A run that works holds the root of its workspace and the lease of its session, unless
\* launch_run took this lease away; and a crash would be noticed: the entry of the session
\* shows the run, or its first save will make one that does.  Only launch_run unmarking for
\* an earlier run, and a renaming that overtook the start of the first one, hide a run.
OwnerCoversRun ==
    \A r \in Run : pc[r] \in {"rooted", "admitted", "marking"} \union Driving =>
        /\ slot = r /\ root = r
        /\ r \in disowned \/ (owner = r /\ lease = r)
        /\ r \in hidden \/ pc[r] \notin Driving \/ shown \/ (~indexed /\ marked)

\* The root stays taken as long as any child of the run that took it is alive, ended or
\* not, so nobody else works in it meanwhile.
DelegatesKeepRoot ==
    \A c \in alive : ref[c] # NoRun /\ root = ref[c]

\* A run that ends as done has let the model read every message it accepted: a sender who
\* was told that the message entered the run is not passed over (AC-4, AC-5).
DoneSawAll == outcome = "done" => \A m \in Unread : sent[m] # runId

\* The history is never replaced by a compaction while a run adds to it, although neither
\* side takes a lock: each raises its own flag before it reads the other's.
CompactionExcludesRuns ==
    compaction = "working" =>
        compacting /\ \A r \in Run : pc[r] \notin {"admitted", "marking"} \union Driving

\* What OwnerCoversRun rests on: only an entry shows a run, a run under way has its lease
\* or nobody has, and launch_run took it from nobody else.
Marks ==
    /\ shown => indexed
    /\ renaming # "none" => ~indexed
    /\ \A r \in Run : pc[r] \in (Starting \ {"begun"}) \union Driving => owner \in {r, NoRun}
    /\ \A r \in Run : r \in {owner} \union disowned => pc[r] \notin {"new", "begun"}
    /\ \A r \in Run : taken[r] # NoRun /\ Active(taken[r]) => taken[r] \in disowned
    /\ \A r \in Run : taken[r] # NoRun => pc[taken[r]] \notin {"new", "begun"}

IInv ==
    TypeOK /\ OneRun /\ Rooted /\ Window /\ Progress /\ OwnerCoversRun /\ DelegatesKeepRoot
    /\ DoneSawAll /\ CompactionExcludesRuns /\ Marks
    /\ (compaction # "idle" <=> compacting)

\* Every question to the user is answered in the end.
Answers == []<>(\A r \in Run : pc[r] # "asks")

\* Nobody who sent a message into a run waits forever for the receipt, however the run ends,
\* unless it waits forever for the answer of the user.
InjectionAnswered ==
    Answers => \A m \in Message : msg[m] = "queued" ~> msg[m] # "queued"

\* No child outlives its run forever, and so its clean-up can be confirmed in the end.
DelegatesEnd == \A r \in Run : pc[r] = "ended" ~> Mine(r) = {}
=============================================================================
