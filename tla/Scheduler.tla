------------------------------ MODULE Scheduler ------------------------------
(***************************************************************************)
(* Scheduled tasks (core/scheduler.rs): once, every and cron tasks kept in *)
(* a table in memory and one file per project task.                        *)
(*                                                                         *)
(* The supervisor turns due tasks into candidates; each candidate waits in *)
(* a spawned worker for the global execution lock, claims its task durably *)
(* and only then runs it.  Edits, deletions and restarts come in between.  *)
(* A file write may fail before the rename ("failed") or be visible but    *)
(* not yet durable ("unsure").  A crash empties memory; with a power loss  *)
(* files also fall back to what was durable.                               *)
(*                                                                         *)
(* Every operation on the table runs under mutation_lock and is one        *)
(* action.  MaxX bounds X; time is a logical clock that never goes back.   *)
(***************************************************************************)
EXTENDS Naturals, Sequences, FiniteSets

CONSTANTS
    Task, Project, ProjectOf, NoProject,
    Slot,           \* spawned workers that may exist at a time (a bound)
    Schedules,      \* schedules that users enter: [kind, n]
    InitialFiles,   \* task records that earlier versions may have left on disk
    MaxTaskRuns,    \* MAX_TASK_RUNS
    MaxNow, MaxEdits, MaxFaults, MaxCrashes, MaxManual,
    NoTask, NoCandidate

ASSUME ProjectAssumption ==
    ProjectOf \in [Task -> Project \union {NoProject}] /\ NoProject \notin Project
ASSUME ScheduleAssumption == Schedules \subseteq [kind : {"once", "every", "cron"}, n : Nat \ {0}]
ASSUME RunsAssumption == MaxTaskRuns \in Nat \ {0}
ASSUME BoundAssumption ==
    MaxNow \in Nat \ {0} /\ {MaxEdits, MaxFaults, MaxCrashes, MaxManual} \subseteq Nat

VARIABLES
    now,        \* the local clock
    projects,   \* registered projects
    disk,       \* <project>/.codewave/tasks/<id>.json
    durable,    \* what of it survives a power loss
    ready,      \* TaskState.initialized
    mem,        \* TaskState.tasks
    gens,       \* TaskState.generations
    pending,    \* TaskState.pending
    since,      \* history: when the running process restored the tasks
    tick,       \* next step of the supervisor loop: "retry" or "collect"
    worker,     \* spawned dispatches and manual runs
    used,       \* history: task ids that were ever created
    fired,      \* history: executions, [task, run, due]
    spent       \* budgets used up: [runs, edits, faults, crashes, manual]

table == <<mem, gens, pending>>
files == <<disk, durable>>
vars == <<now, projects, disk, durable, ready, since, mem, gens, pending, tick, worker,
          used, fired, spent>>

None == 0                       \* next_run = None
NoRun == <<"none", 0>>
Missed(at) == <<"missed", at>>  \* run id of a once that passed while offline
RunId == {"run", "missed"} \X Nat

TaskRecord ==
    [sched : [kind : {"once", "every", "cron"}, n : Nat \ {0}], next : Nat, enabled : BOOLEAN,
     runs : Seq(RunId), active : RunId \union {NoRun}, unsaved : BOOLEAN]

Candidate == [gen : Nat, due : Nat]

\* Files are written without the mark of an unsaved result, and with a short history; what an
\* earlier process ran has the number 0.
ASSUME FilesAssumption ==
    \A rec \in InitialFiles :
        /\ rec \in TaskRecord /\ ~ rec.unsaved /\ Len(rec.runs) <= MaxTaskRuns
        /\ rec.sched.kind = "once" /\ rec.next = None => rec.active # NoRun \/ rec.runs # <<>>
        /\ rec.active \in {NoRun, <<"run", 0>>}
        /\ \A i \in DOMAIN rec.runs : rec.runs[i][1] = "run" => rec.runs[i][2] = 0
ASSUME NoneAssumption ==
    NoTask \notin Task \union TaskRecord /\ NoCandidate \notin Candidate /\ IsFiniteSet(Task)

Idle == [at |-> "free", task |-> NoTask, cand |-> NoCandidate, run |-> NoRun]
HasExecLock == {"locked", "claimed", "running"}

TypeOK ==
    /\ now \in 1..MaxNow /\ since \in 0..MaxNow
    /\ projects \subseteq Project /\ ready \in BOOLEAN
    /\ disk \in [Task -> TaskRecord \union {NoTask}]
    /\ durable \in [Task -> TaskRecord \union {NoTask}]
    /\ mem \in [Task -> TaskRecord \union {NoTask}]
    /\ \A t \in Task : \A rec \in {disk[t], durable[t], mem[t]} \ {NoTask} :
         Len(rec.runs) <= MaxTaskRuns
    /\ gens \in [Task -> Nat]
    /\ pending \in [Task -> Candidate \union {NoCandidate}]
    /\ tick \in {"retry", "collect"}
    /\ worker \in [Slot -> [at : {"free", "waiting", "releasing"} \union HasExecLock,
                            task : Task \union {NoTask},
                            cand : Candidate \union {NoCandidate},
                            run : RunId \union {NoRun}]]
    /\ used \subseteq Task
    /\ fired \subseteq [task : Task, run : RunId, due : Nat]

Init ==
    /\ now = 1
    /\ projects = Project
    /\ disk \in [Task -> InitialFiles \union {NoTask}]
    /\ \A t \in Task : ProjectOf[t] = NoProject => disk[t] = NoTask
    /\ durable = disk
    /\ ready = FALSE
    /\ since = 0
    /\ mem = [t \in Task |-> NoTask]
    /\ gens = [t \in Task |-> 0]
    /\ pending = [t \in Task |-> NoCandidate]
    /\ tick = "retry"
    /\ worker = [w \in Slot |-> Idle]
    /\ used = {t \in Task : disk[t] # NoTask}
    /\ fired = {}
    /\ spent = [runs |-> 0, edits |-> 0, faults |-> 0, crashes |-> 0, manual |-> 0]

Spend(what, n) == spent' = [spent EXCEPT ![what] = @ + n]

-----------------------------------------------------------------------------
(* Schedules and records *)

\* ScheduleKind::next_after: strictly in the future, or None for a past once.
NextAfter(s, t) ==
    CASE s.kind = "every" -> t + s.n
      [] s.kind = "cron" -> (t \div s.n + 1) * s.n
      [] s.kind = "once" -> IF s.n > t THEN s.n ELSE None

\* append_result: newest first, each run once, the oldest dropped.
AppendResult(rec, run) ==
    IF \E i \in DOMAIN rec.runs : rec.runs[i] = run THEN rec
    ELSE LET all == <<run>> \o rec.runs
         IN [rec EXCEPT !.runs =
               IF Len(all) > MaxTaskRuns THEN SubSeq(all, 1, MaxTaskRuns) ELSE all]

\* corrected_cron_next: a stored time that the expression does not produce, or a
\* future one that is not the next, is replaced; an overdue match is kept.
CorrectedNext(rec) ==
    LET expected == NextAfter(rec.sched, now)
    IN IF rec.next % rec.sched.n # 0 \/ (rec.next > now /\ rec.next # expected)
       THEN expected ELSE rec.next

\* Fault: an interrupted run is dropped instead of being recorded.
RecoverForgets(rec) == [rec EXCEPT !.active = NoRun, !.unsaved = FALSE]

\* Fault: a once that is overdue when the process starts is left to the tick.
RecoverReplays(rec) ==
    IF rec.active # NoRun
    THEN [AppendResult(rec, rec.active) EXCEPT !.active = NoRun, !.unsaved = FALSE]
    ELSE rec

\* Fault: a once that passed while offline is only switched off.
RecoverSilently(rec) ==
    IF rec.active # NoRun
    THEN [AppendResult(rec, rec.active) EXCEPT !.active = NoRun, !.unsaved = FALSE]
    ELSE IF rec.sched.kind = "once" /\ rec.next <= now THEN [rec EXCEPT !.next = None]
    ELSE rec

\* recover_task: what a record read from disk becomes.
Recover(rec) ==
    LET done == [AppendResult(rec, rec.active) EXCEPT !.active = NoRun, !.unsaved = FALSE]
        once == rec.sched.kind = "once"
    IN CASE rec.active # NoRun ->
              IF once /\ rec.next <= now THEN [done EXCEPT !.next = None] ELSE done
         [] rec.active = NoRun /\ rec.enabled /\ rec.next # None /\ once /\ rec.next <= now ->
              [AppendResult(rec, Missed(rec.next)) EXCEPT !.next = None]
         [] rec.active = NoRun /\ rec.enabled /\ rec.next # None /\ rec.sched.kind = "cron" ->
              [rec EXCEPT !.next = CorrectedNext(rec)]
         [] OTHER -> rec

-----------------------------------------------------------------------------
(* Saving *)

\* persist: a task without a project has no file; any other write may fail.
Outcomes(t) ==
    IF ProjectOf[t] = NoProject \/ spent.faults >= MaxFaults
    THEN {"saved"} ELSE {"saved", "unsure", "failed"}

OnDisk(t, rec, o) ==
    IF ProjectOf[t] = NoProject \/ o = "failed"
    THEN disk[t] ELSE [rec EXCEPT !.unsaved = FALSE]

Persist(t, rec, o) ==
    /\ disk' = [disk EXCEPT ![t] = OnDisk(t, rec, o)]
    /\ durable' = IF o = "saved" THEN [durable EXCEPT ![t] = OnDisk(t, rec, o)] ELSE durable

FaultOf(o) == IF o = "saved" THEN 0 ELSE 1

\* TaskState::invalidate; the global serial is a count per task here, since
\* generations are only compared with earlier ones of the same task.
Invalidate(ts) ==
    /\ gens' = [t \in Task |-> IF t \in ts THEN gens[t] + 1 ELSE gens[t]]
    /\ pending' = [t \in Task |-> IF t \in ts THEN NoCandidate ELSE pending[t]]

Publish(t, rec) == mem' = [mem EXCEPT ![t] = rec]

\* Fault: the warning that the directory was not synced is dropped.
CommitEditForgets(t, rec) ==
    \E o \in Outcomes(t) :
        /\ Persist(t, rec, o)
        /\ IF o = "failed" THEN UNCHANGED table
           ELSE Publish(t, [rec EXCEPT !.unsaved = FALSE]) /\ Invalidate({t})
        /\ spent' = [spent EXCEPT !.faults = @ + FaultOf(o), !.edits = @ + 1]

\* commit_edit and upsert: nothing happens when the write fails.
CommitEdit(t, rec) ==
    \E o \in Outcomes(t) :
        /\ Persist(t, rec, o)
        /\ IF o = "failed" THEN UNCHANGED table
           ELSE Publish(t, [rec EXCEPT !.unsaved = o = "unsure"]) /\ Invalidate({t})
        /\ spent' = [spent EXCEPT !.faults = @ + FaultOf(o), !.edits = @ + 1]

-----------------------------------------------------------------------------
(* Start-up *)

\* initialize_locked: read every file, settle interrupted and missed runs, and
\* write back only the records that changed.
Restore ==
    /\ ~ ready
    /\ ready' = TRUE
    /\ since' = now
    /\ \E bad \in [Task -> {"saved", "unsure", "failed"}] :
         LET found == {t \in Task : disk[t] # NoTask /\ ProjectOf[t] \in projects}
             changed == {t \in found : Recover(disk[t]) # disk[t]}
             lossy == {t \in Task : bad[t] # "saved"}
         IN /\ lossy \subseteq changed
            /\ spent.faults + Cardinality(lossy) <= MaxFaults
            /\ mem' = [t \in Task |->
                         IF t \notin found THEN NoTask
                         ELSE [Recover(disk[t]) EXCEPT !.unsaved = t \in lossy]]
            /\ disk' = [t \in Task |->
                          IF t \in changed THEN OnDisk(t, Recover(disk[t]), bad[t])
                          ELSE disk[t]]
            /\ durable' = [t \in Task |->
                             IF t \in changed \ lossy THEN OnDisk(t, Recover(disk[t]), "saved")
                             ELSE durable[t]]
            /\ Invalidate(found)
            /\ Spend("faults", Cardinality(lossy))
    /\ UNCHANGED <<now, projects, tick, worker, used, fired>>

-----------------------------------------------------------------------------
(* Edits *)

\* The id is a fresh uuid, the schedule has a next time.
Create(t, s) ==
    /\ ready /\ spent.edits < MaxEdits
    /\ t \notin used /\ NextAfter(s, now) # None
    /\ ProjectOf[t] \in projects \union {NoProject}
    /\ CommitEdit(t, [sched |-> s, next |-> NextAfter(s, now), enabled |-> TRUE,
                      runs |-> <<>>, active |-> NoRun, unsaved |-> FALSE])
    /\ used' = used \union {t}
    /\ UNCHANGED <<now, projects, ready, since, tick, worker, fired>>

\* A new schedule is timed afresh; renaming keeps the time.
Update(t, s) ==
    /\ ready /\ spent.edits < MaxEdits
    /\ mem[t] # NoTask
    /\ IF s = mem[t].sched THEN CommitEdit(t, mem[t])
       ELSE /\ NextAfter(s, now) # None
            /\ CommitEdit(t, [mem[t] EXCEPT !.sched = s, !.next = NextAfter(s, now)])
    /\ UNCHANGED <<now, projects, ready, since, tick, worker, used, fired>>

\* Pausing keeps the time, resuming computes a new one.
SetEnabled(t, on) ==
    /\ ready /\ spent.edits < MaxEdits
    /\ mem[t] # NoTask
    /\ IF on /\ ~ mem[t].enabled
       THEN /\ NextAfter(mem[t].sched, now) # None
            /\ CommitEdit(t, [mem[t] EXCEPT !.enabled = on,
                                            !.next = NextAfter(mem[t].sched, now)])
       ELSE CommitEdit(t, [mem[t] EXCEPT !.enabled = on])
    /\ UNCHANGED <<now, projects, ready, since, tick, worker, used, fired>>

\* remove: the file is unlinked without a directory sync; an error keeps the task.
Remove(t) ==
    /\ ready /\ spent.edits < MaxEdits
    /\ mem[t] # NoTask
    /\ disk' = [disk EXCEPT ![t] = NoTask]
    /\ Invalidate({t})
    /\ Publish(t, NoTask)
    /\ Spend("edits", 1)
    /\ UNCHANGED <<now, projects, durable, ready, since, tick, worker, used, fired>>

\* delete_project: the tasks go with the managed directory ...
DeleteProject(p) ==
    /\ ready /\ spent.edits < MaxEdits
    /\ p \in projects
    /\ LET ts == {t \in Task : ProjectOf[t] = p}
       IN /\ disk' = [t \in Task |-> IF t \in ts THEN NoTask ELSE disk[t]]
          /\ mem' = [t \in Task |-> IF t \in ts THEN NoTask ELSE mem[t]]
          /\ Invalidate({t \in ts : mem[t] # NoTask})
    /\ projects' = projects \ {p}
    /\ Spend("edits", 1)
    /\ UNCHANGED <<now, durable, ready, since, tick, worker, used, fired>>

\* ... and when removing it fails midway, some files are gone, the tasks stay
\* and only the candidates are revoked.
DeleteProjectFails(p) ==
    /\ ready /\ spent.edits < MaxEdits /\ spent.faults < MaxFaults
    /\ p \in projects
    /\ LET ts == {t \in Task : ProjectOf[t] = p}
       IN /\ \E gone \in SUBSET ts :
               disk' = [t \in Task |-> IF t \in gone THEN NoTask ELSE disk[t]]
          /\ Invalidate({t \in ts : mem[t] # NoTask})
    /\ spent' = [spent EXCEPT !.faults = @ + 1, !.edits = @ + 1]
    /\ UNCHANGED <<now, projects, durable, ready, since, mem, tick, worker, used,
                   fired>>

-----------------------------------------------------------------------------
(* The supervisor *)

\* Fault: the retry is left out.
RetryUnsavedSkips ==
    /\ ready /\ tick = "retry"
    /\ tick' = "collect"
    /\ UNCHANGED <<now, projects, disk, durable, ready, since, mem, gens, pending,
                   worker, used, fired, spent>>

\* retry_unsaved: each unsaved record is written once more.
RetryUnsaved ==
    /\ ready /\ tick = "retry"
    /\ tick' = "collect"
    /\ \E o \in [Task -> {"saved", "unsure", "failed"}] :
         LET todo == {t \in Task : mem[t] # NoTask /\ mem[t].unsaved}
             lossy == {t \in Task : o[t] # "saved"}
         IN /\ lossy \subseteq {t \in todo : ProjectOf[t] # NoProject}
            /\ spent.faults + Cardinality(lossy) <= MaxFaults
            /\ disk' = [t \in Task |-> IF t \in todo THEN OnDisk(t, mem[t], o[t]) ELSE disk[t]]
            /\ durable' = [t \in Task |-> IF t \in todo \ lossy
                                          THEN OnDisk(t, mem[t], "saved") ELSE durable[t]]
            /\ mem' = [t \in Task |-> IF t \in todo \ lossy
                                      THEN [mem[t] EXCEPT !.unsaved = FALSE] ELSE mem[t]]
            /\ Spend("faults", Cardinality(lossy))
    /\ UNCHANGED <<now, projects, ready, since, gens, pending, worker, used, fired>>

Due(t) == mem[t] # NoTask /\ mem[t].enabled /\ mem[t].next # None /\ mem[t].next <= now

\* collect_due: reserve each due task that is not running, unsaved or reserved,
\* and spawn one worker for it.  Nothing is written and no time advances.
CollectDue ==
    LET due == {t \in Task : /\ Due(t) /\ mem[t].active = NoRun /\ ~ mem[t].unsaved
                             /\ pending[t] = NoCandidate}
        free == {w \in Slot : worker[w].at = "free"}
        cand == [t \in due |-> [gen |-> gens[t], due |-> mem[t].next]]
    IN /\ ready /\ tick = "collect"
       /\ tick' = "retry"
       /\ pending' = [t \in Task |-> IF t \in due THEN cand[t] ELSE pending[t]]
       /\ \E spawned \in [due -> free] :
            /\ \A t, u \in due : spawned[t] = spawned[u] => t = u
            /\ worker' = [w \in Slot |->
                 IF \E t \in due : spawned[t] = w
                 THEN LET t == CHOOSE t \in due : spawned[t] = w
                      IN [at |-> "waiting", task |-> t, cand |-> cand[t], run |-> NoRun]
                 ELSE worker[w]]
       /\ UNCHANGED <<now, projects, disk, durable, ready, since, mem, gens, used,
                      fired, spent>>

-----------------------------------------------------------------------------
(* Executing *)

Move(w, at) == worker' = [worker EXCEPT ![w].at = at]

ExecLockFree == \A w \in Slot : worker[w].at \notin HasExecLock

\* dispatch_candidate: the worker gets the execution lock.
TakeExecLock(w) ==
    /\ worker[w].at = "waiting"
    /\ ExecLockFree
    /\ Move(w, "locked")
    /\ UNCHANGED <<now, projects, disk, durable, ready, since, mem, gens, pending,
                   tick, used, fired, spent>>

\* Fault: the reservation is kept.
ReleaseNothing(w) == UNCHANGED pending

\* release_candidate: only the worker's own reservation is cleared.
ReleaseCandidate(w) ==
    LET t == worker[w].task
    IN pending' = IF pending[t] = worker[w].cand
                  THEN [pending EXCEPT ![t] = NoCandidate] ELSE pending

Runnable(t) == mem[t] # NoTask /\ mem[t].active = NoRun /\ ~ mem[t].unsaved

\* Fault: the claim trusts what the supervisor saw when it collected.
AuthorisedAtCollection(w) == Runnable(worker[w].task)

\* What claim_locked checks again after the lock was obtained.
Authorised(w) ==
    LET t == worker[w].task
        cand == worker[w].cand
    IN /\ Runnable(t)
       /\ pending[t] = cand /\ gens[t] = cand.gen
       /\ mem[t].enabled /\ mem[t].next = cand.due /\ cand.due <= now

\* Fault: the next time is only computed when the run has ended.
ClaimKeepsTime(t, run, scheduled) == [mem[t] EXCEPT !.active = run]

\* The record of a claimed task.  Manual runs do not consume the schedule.
Claimed(t, run, scheduled) ==
    [mem[t] EXCEPT !.active = run,
                   !.next = IF scheduled THEN NextAfter(mem[t].sched, now) ELSE @]

\* Fault: a claim that could not be confirmed is executed anyway.
ClaimIsGood(o) == o # "failed"

\* Only a confirmed claim may be executed.
ClaimHolds(o) == o = "saved"

\* Save the claim, then publish it; an unconfirmed one leaves the task
\* unexecuted and quarantined until it has been saved again.
Claim(t, run, scheduled, o) ==
    LET rec == Claimed(t, run, scheduled)
    IN /\ Persist(t, rec, o)
       /\ mem' = [mem EXCEPT ![t] =
                    IF ClaimHolds(o) THEN rec
                    ELSE IF o = "unsure" THEN [@ EXCEPT !.unsaved = TRUE]
                    ELSE @]
       /\ UNCHANGED gens

NewRun == <<"run", spent.runs + 1>>

\* claim by a worker, with the reservation released whatever the result.
ClaimScheduled(w) ==
    /\ worker[w].at = "locked"
    /\ Authorised(w)
    /\ \E o \in Outcomes(worker[w].task) :
         /\ Claim(worker[w].task, NewRun, TRUE, o)
         /\ worker' = [worker EXCEPT ![w].at = IF ClaimHolds(o) THEN "claimed" ELSE "releasing",
                                     ![w].run = IF ClaimHolds(o) THEN NewRun ELSE NoRun]
         /\ spent' = [spent EXCEPT !.faults = @ + FaultOf(o), !.runs = @ + 1]
    /\ ReleaseCandidate(w)
    /\ UNCHANGED <<now, projects, ready, since, tick, used, fired>>

ClaimRejected(w) ==
    /\ worker[w].at = "locked"
    /\ ~ Authorised(w)
    /\ Move(w, "releasing")
    /\ ReleaseCandidate(w)
    /\ UNCHANGED <<now, projects, disk, durable, ready, since, mem, gens, tick, used,
                   fired, spent>>

\* trigger_now: fails at once when the execution lock is taken.
TriggerNow(t) ==
    /\ ready /\ spent.manual < MaxManual
    /\ ExecLockFree
    /\ Runnable(t)
    /\ \E w \in Slot, o \in Outcomes(t) :
         /\ worker[w].at = "free"
         /\ Claim(t, NewRun, FALSE, o)
         /\ worker' = IF ClaimHolds(o)
                      THEN [worker EXCEPT ![w] = [at |-> "claimed", task |-> t,
                                                  cand |-> NoCandidate, run |-> NewRun]]
                      ELSE worker
         /\ spent' = [spent EXCEPT !.faults = @ + FaultOf(o), !.runs = @ + 1, !.manual = @ + 1]
    /\ UNCHANGED <<now, projects, ready, since, pending, tick, used, fired>>

\* run_task_locked: from here on the run has side effects.
StartRun(w) ==
    /\ worker[w].at = "claimed"
    /\ Move(w, "running")
    /\ fired' = fired \union
         {[task |-> worker[w].task, run |-> worker[w].run,
           due |-> IF worker[w].cand = NoCandidate THEN None ELSE worker[w].cand.due]}
    /\ UNCHANGED <<now, projects, disk, durable, ready, since, mem, gens, pending,
                   tick, used, spent>>

\* The worker ends: a manual run at once, a dispatch after its PendingGuard ran.
EndRun(w) ==
    worker' = [worker EXCEPT ![w] =
                 IF @.cand = NoCandidate THEN Idle ELSE [@ EXCEPT !.at = "releasing"]]

\* Fault: a late finish writes the task back although it is gone.
FinishRevives(w) ==
    /\ worker[w].at \in {"claimed", "running"}
    /\ LET t == worker[w].task
           rec == IF mem[t] # NoTask THEN mem[t]
                  ELSE [sched |-> CHOOSE s \in Schedules : TRUE, next |-> None,
                        enabled |-> FALSE, runs |-> <<>>, active |-> worker[w].run,
                        unsaved |-> FALSE]
           done == [AppendResult(rec, worker[w].run) EXCEPT !.active = NoRun]
       IN \E o \in Outcomes(t) :
            /\ Persist(t, done, o)
            /\ Publish(t, [done EXCEPT !.unsaved = o # "saved"])
            /\ Spend("faults", FaultOf(o))
    /\ EndRun(w)
    /\ UNCHANGED <<now, projects, ready, since, gens, pending, tick, used, fired>>

\* finish_run, also reached through TaskRunGuard when the run panics or is
\* cancelled before its first poll: the result goes into the current record, if
\* that is still there and still carries this run.
FinishRun(w) ==
    /\ worker[w].at \in {"claimed", "running"}
    /\ LET t == worker[w].task
           done == [AppendResult(mem[t], worker[w].run) EXCEPT !.active = NoRun]
       IN IF mem[t] = NoTask \/ mem[t].active # worker[w].run
          THEN UNCHANGED <<disk, durable, mem, spent>>
          ELSE \E o \in Outcomes(t) :
                 /\ Persist(t, done, o)
                 /\ Publish(t, [done EXCEPT !.unsaved = o # "saved"])
                 /\ Spend("faults", FaultOf(o))
    /\ EndRun(w)
    /\ UNCHANGED <<now, projects, ready, since, gens, pending, tick, used, fired>>

\* PendingGuard: a spawned task releases the reservation again, at any later time
\* and without the mutation lock.
ReleasePending(w) ==
    /\ worker[w].at = "releasing"
    /\ ReleaseCandidate(w)
    /\ worker' = [worker EXCEPT ![w] = Idle]
    /\ UNCHANGED <<now, projects, disk, durable, ready, since, mem, gens, tick, used,
                   fired, spent>>

-----------------------------------------------------------------------------
(* The environment *)

Tick ==
    /\ now < MaxNow
    /\ now' = now + 1
    /\ UNCHANGED <<projects, disk, durable, ready, since, mem, gens, pending, tick,
                   worker, used, fired, spent>>

\* The process dies; with a power loss some files fall back.
Crash ==
    /\ spent.crashes < MaxCrashes
    /\ \E lost \in SUBSET {t \in Task : ProjectOf[t] \in projects} :
         disk' = [t \in Task |-> IF t \in lost THEN durable[t] ELSE disk[t]]
    /\ durable' = disk'
    /\ ready' = FALSE
    /\ since' = 0
    /\ mem' = [t \in Task |-> NoTask]
    /\ gens' = [t \in Task |-> 0]
    /\ pending' = [t \in Task |-> NoCandidate]
    /\ tick' = "retry"
    /\ worker' = [w \in Slot |-> Idle]
    /\ Spend("crashes", 1)
    /\ UNCHANGED <<now, projects, used, fired>>

-----------------------------------------------------------------------------
Edit ==
    \/ \E t \in Task, s \in Schedules : Create(t, s) \/ Update(t, s)
    \/ \E t \in Task, on \in BOOLEAN : SetEnabled(t, on)
    \/ \E t \in Task : Remove(t)
    \/ \E p \in Project : DeleteProject(p) \/ DeleteProjectFails(p)

WorkerStep(w) ==
    \/ ClaimScheduled(w) \/ ClaimRejected(w) \/ StartRun(w) \/ FinishRun(w)
    \/ ReleasePending(w)

Supervisor == RetryUnsaved \/ CollectDue

Next ==
    \/ Restore \/ Edit \/ Supervisor
    \/ \E w \in Slot : TakeExecLock(w) \/ WorkerStep(w)
    \/ \E t \in Task : TriggerNow(t)
    \/ Tick \/ Crash

\* A PendingGuard's release, spawned when its worker ends, has run before the
\* supervisor's next tick, 15 seconds later.
GuardsArePrompt ==
    (ready' /\ tick = "collect" /\ tick' = "retry") =>
        \A w \in Slot : worker[w].at # "releasing"

Fairness ==
    /\ WF_vars(Restore) /\ WF_vars(Supervisor)
    /\ \A w \in Slot : SF_vars(TakeExecLock(w)) /\ WF_vars(WorkerStep(w))

Spec == Init /\ [][Next]_vars
\* The start-up and supervisor tasks are scheduled, the execution lock is FIFO, and
\* a run ends (its steps are limited by TASK_BUDGET_STEPS).
FairSpec == Init /\ [][Next /\ GuardsArePrompt]_vars /\ Fairness

-----------------------------------------------------------------------------
(* Properties *)

Records(t) == {disk[t], durable[t], mem[t]} \ {NoTask}

\* No scheduled time is executed twice, whatever edits, failed writes, crashes and
\* power losses come in between: what was executed is behind every record that
\* memory, disk or a power loss can bring back.
NoReplay ==
    /\ \A f, g \in fired : (f.task = g.task /\ f.due = g.due /\ f.due # None) => f.run = g.run
    /\ \A f \in fired : \A rec \in Records(f.task) : rec.next # None => rec.next > f.due

\* A run that had side effects is never forgotten: every surviving copy of its
\* task lists it, as active or in the history, until newer runs push it out.
RunsAccounted ==
    \A f \in fired : \A rec \in Records(f.task) :
        \/ rec.active = f.run
        \/ \E i \in DOMAIN rec.runs : rec.runs[i] = f.run
        \/ /\ Len(rec.runs) = MaxTaskRuns
           /\ \A i \in DOMAIN rec.runs : rec.runs[i][1] = "run" => rec.runs[i][2] > f.run[2]

\* While a run executes, its claim is what memory, disk and a power loss show,
\* edits made meanwhile notwithstanding; deletion is the only other state.
ClaimOutlivesRun ==
    \A w \in Slot : worker[w].at = "running" =>
        \A rec \in Records(worker[w].task) : rec.active = worker[w].run

\* What the task list shows without a warning survives a power loss, and is what
\* the file holds unless a failing project deletion removed it.
ShownIsDurable ==
    \A t \in Task : (mem[t] # NoTask /\ ~ mem[t].unsaved /\ ProjectOf[t] # NoProject) =>
        durable[t] = mem[t] /\ disk[t] \in {mem[t], NoTask}

\* A once never disappears silently: when it has no next time, some copy of its
\* story remains, as a run that is active, done, interrupted or skipped.
OnceIsAnswered ==
    \A t \in Task : \A rec \in Records(t) :
        (rec.sched.kind = "once" /\ rec.next = None) => rec.active # NoRun \/ rec.runs # <<>>

\* A deleted task stays deleted: no late result, retry or edit writes it back.
\* Only a power loss may undo the unlink, which is not synced.
DeletedStaysDeleted ==
    [][\A t \in used : (mem[t] = NoTask /\ disk[t] = NoTask) =>
         /\ mem'[t] = NoTask
         /\ disk'[t] = NoTask \/ (~ ready' /\ disk'[t] = durable[t])]_vars

\* Claiming is the point of no return: a candidate collected before a pause, an
\* edit or a deletion is not executed after it, so a claim agrees with the file.
RevokedNeverRuns ==
    [][\A w \in Slot : (worker[w].at = "locked" /\ worker'[w].at = "claimed") =>
         /\ mem[worker[w].task] # NoTask
         /\ \A rec \in Records(worker[w].task) :
              rec.enabled /\ rec.next = worker[w].cand.due /\ rec.next <= now]_vars

\* A once whose time passed while the application was not running is never made
\* up for: its instruction runs with full access and nobody expects it any more.
OnceRunsOnTime ==
    [][\A w \in Slot : (worker[w].at = "locked" /\ worker'[w].at = "claimed"
                           /\ mem[worker[w].task].sched.kind = "once") =>
         worker[w].cand.due > since]_vars

\* A due task is served: executed, or paused, edited, removed or moved on by a
\* restart.  It waits neither for a reservation nor for an unsaved result for ever.
DueIsServed == \A t \in Task : Due(t) ~> ~ Due(t)

\* Every result reaches the disk once writes succeed again.
ResultsAreSaved ==
    \A t \in Task : (mem[t] # NoTask /\ mem[t].unsaved) ~> (mem[t] = NoTask \/ ~ mem[t].unsaved)
=============================================================================
