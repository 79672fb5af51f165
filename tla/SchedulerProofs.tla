--------------------------- MODULE SchedulerProofs ---------------------------
(***************************************************************************)
(* What the claim of a scheduled task protects, proved for any number of   *)
(* tasks, projects, workers, edits, failing writes and crashes.            *)
(*                                                                         *)
(* Every copy of a record, in memory, on disk and after a power loss, is   *)
(* Good: its time is later than all that was executed or claimed for its   *)
(* task, it carries the claim of the worker that is at work, and it lists  *)
(* what was executed until newer runs have pushed that out.  A step either *)
(* leaves the runs of a task alone (Quiet, KeepsGood), claims it under the *)
(* execution lock (ClaimedGood), executes the claim (StartedGood) or puts  *)
(* a run that ended into the history (SettledGood).                        *)
(***************************************************************************)
EXTENDS Scheduler, SequenceTheorems, FiniteSetTheorems, TLAPS

\* A schedule that a user can enter.
Schedule == [kind : {"once", "every", "cron"}, n : Nat \ {0}]

IsOnce(rec) == rec.sched.kind = "once"
Claiming(w) == worker[w].at \in {"claimed", "running"}

\* What is true of a record whatever was executed.
Static(rec) ==
    /\ rec \in TaskRecord /\ Len(rec.runs) <= MaxTaskRuns
    /\ IsOnce(rec) /\ rec.next = None => rec.active # NoRun \/ rec.runs # <<>>

\* A next time lies in the future (ScheduleKind::next_after).
LEMMA NextAfterType ==
  ASSUME NEW s \in Schedule, NEW t \in Nat
  PROVE  /\ NextAfter(s, t) \in Nat
         /\ NextAfter(s, t) # None => NextAfter(s, t) > t
<1>1. CASE s.kind = "every"
  BY <1>1 DEF NextAfter, Schedule
<1>2. CASE s.kind = "once"
  BY <1>2 DEF NextAfter, Schedule, None
<1>3. CASE s.kind = "cron"
  <2> DEFINE n == s.n
  <2>1. n \in Nat /\ n > 0
    BY DEF Schedule
  <2> HIDE DEF n
  <2>2. t \div n \in Nat
    BY <2>1
  <2>3. (t \div n + 1) * n > t
    BY <2>1
  <2>4. (t \div n + 1) * n \in Nat
    BY <2>1, <2>2
  <2>5. NextAfter(s, t) = (t \div n + 1) * n
    BY <1>3 DEF NextAfter, n
  <2> QED
    BY <2>3, <2>4, <2>5
<1> QED
  BY <1>1, <1>2, <1>3 DEF Schedule

\* A history that is added to is not empty and stays within MAX_TASK_RUNS; the rest of the
\* record is as before (append_result).
LEMMA AppendType ==
  ASSUME NEW rec \in TaskRecord, Len(rec.runs) <= MaxTaskRuns, NEW run \in RunId
  PROVE  /\ AppendResult(rec, run) \in TaskRecord
         /\ Len(AppendResult(rec, run).runs) <= MaxTaskRuns
         /\ AppendResult(rec, run).runs # <<>>
         /\ AppendResult(rec, run).sched = rec.sched /\ AppendResult(rec, run).next = rec.next
         /\ AppendResult(rec, run).enabled = rec.enabled
         /\ AppendResult(rec, run).active = rec.active
<1>0. rec.runs \in Seq(RunId) /\ MaxTaskRuns \in Nat \ {0}
  BY RunsAssumption DEF TaskRecord
<1>1. CASE \E i \in DOMAIN rec.runs : rec.runs[i] = run
  BY <1>0, <1>1 DEF AppendResult
<1>2. CASE ~ \E i \in DOMAIN rec.runs : rec.runs[i] = run
  <2> DEFINE all == <<run>> \o rec.runs
             new == IF Len(all) > MaxTaskRuns THEN SubSeq(all, 1, MaxTaskRuns) ELSE all
  <2>1. all \in Seq(RunId) /\ Len(all) = Len(rec.runs) + 1 /\ Len(all) \in Nat
    BY <1>0
  <2>2. Len(all) > MaxTaskRuns => /\ SubSeq(all, 1, MaxTaskRuns) \in Seq(RunId)
                                  /\ Len(SubSeq(all, 1, MaxTaskRuns)) = MaxTaskRuns
    BY <1>0, <2>1, SubSeqProperties
  <2>3. new \in Seq(RunId) /\ Len(new) <= MaxTaskRuns /\ Len(new) > 0
    BY <1>0, <2>1, <2>2
  <2>4. new # <<>>
    BY <2>3
  <2>5. AppendResult(rec, run) = [rec EXCEPT !.runs = new]
    BY <1>2 DEF AppendResult
  <2> HIDE DEF new
  <2> QED
    BY <2>3, <2>4, <2>5 DEF TaskRecord
<1> QED
  BY <1>1, <1>2

\* A record that is read back is one as before: what it loses is the mark of the interrupted
\* run, and a new time is a later one.
LEMMA RecoverFacts ==
  ASSUME NEW rec, Static(rec), ~ rec.unsaved, now \in Nat
  PROVE  LET r == Recover(rec)
         IN /\ Static(r) /\ ~ r.unsaved /\ r.active = NoRun
            /\ r.next # None => r.next = rec.next \/ r.next > now
            /\ IsOnce(r) /\ r.enabled /\ r.next # None => r.next > now
            /\ \/ rec.active = NoRun /\ r.runs = rec.runs
               \/ \E add \in RunId :
                    /\ add = rec.active \/ (rec.active = NoRun /\ add[1] = "missed")
                    /\ r.runs = AppendResult(rec, add).runs
<1> DEFINE app == AppendResult(rec, rec.active)
           done == [app EXCEPT !.active = NoRun, !.unsaved = FALSE]
           skip == AppendResult(rec, Missed(rec.next))
           once == rec.sched.kind = "once"
<1>1. /\ rec \in TaskRecord /\ Len(rec.runs) <= MaxTaskRuns /\ rec.sched \in Schedule
      /\ rec.next \in Nat /\ rec.active \in RunId \union {NoRun} /\ rec.enabled \in BOOLEAN
  BY DEF Static, TaskRecord, Schedule
<1>2. CASE rec.active # NoRun
  <2>1. rec.active \in RunId
    BY <1>1, <1>2
  <2>2. /\ app \in TaskRecord /\ Len(app.runs) <= MaxTaskRuns /\ app.runs # <<>>
        /\ app.sched = rec.sched /\ app.next = rec.next /\ app.enabled = rec.enabled
    BY <1>1, <2>1, AppendType
  <2>3. Recover(rec) = IF once /\ rec.next <= now THEN [done EXCEPT !.next = None] ELSE done
    BY <1>2 DEF Recover
  <2> HIDE DEF app
  <2>4. /\ done \in TaskRecord /\ done.runs = app.runs /\ done.sched = rec.sched
        /\ done.next = rec.next /\ done.enabled = rec.enabled /\ done.active = NoRun
        /\ done.unsaved = FALSE
    BY <2>2 DEF TaskRecord
  <2> HIDE DEF done
  <2>5. LET d == [done EXCEPT !.next = None]
        IN /\ d \in TaskRecord /\ d.runs = app.runs /\ d.active = NoRun
           /\ d.unsaved = FALSE /\ d.next = None
    BY <2>4 DEF TaskRecord, None
  <2>6. CASE once /\ rec.next <= now
    BY <2>1, <2>2, <2>3, <2>5, <2>6 DEF Static, app
  <2>7. CASE ~ (once /\ rec.next <= now)
    BY <1>1, <2>1, <2>2, <2>3, <2>4, <2>7 DEF Static, IsOnce, app
  <2> QED
    BY <2>6, <2>7
<1>3. CASE rec.active = NoRun /\ rec.enabled /\ rec.next # None /\ once /\ rec.next <= now
  <2>1. Missed(rec.next) \in RunId /\ Missed(rec.next)[1] = "missed"
    BY <1>1 DEF Missed, RunId
  <2>2. /\ skip \in TaskRecord /\ Len(skip.runs) <= MaxTaskRuns /\ skip.runs # <<>>
        /\ skip.active = rec.active
    BY <1>1, <2>1, AppendType
  <2>3. skip.unsaved = rec.unsaved
    BY <1>1 DEF AppendResult, TaskRecord
  <2>4. Recover(rec) = [skip EXCEPT !.next = None]
    BY <1>3 DEF Recover
  <2> HIDE DEF skip
  <2>5. LET d == [skip EXCEPT !.next = None]
        IN /\ d \in TaskRecord /\ d.runs = skip.runs /\ d.active = skip.active
           /\ d.unsaved = skip.unsaved /\ d.next = None
    BY <2>2 DEF TaskRecord, None
  <2> QED
    BY <1>3, <2>1, <2>2, <2>3, <2>4, <2>5 DEF Static, skip
<1>4. CASE rec.active = NoRun /\ rec.enabled /\ rec.next # None /\ rec.sched.kind = "cron"
  <2>1. Recover(rec) = [rec EXCEPT !.next = CorrectedNext(rec)]
    BY <1>4 DEF Recover
  <2>2. CorrectedNext(rec) \in {rec.next, NextAfter(rec.sched, now)}
    BY DEF CorrectedNext
  <2>3. /\ CorrectedNext(rec) \in Nat
        /\ CorrectedNext(rec) # None => CorrectedNext(rec) = rec.next \/ CorrectedNext(rec) > now
    BY <1>1, <2>2, NextAfterType
  <2>4. PICK n \in Nat : n = CorrectedNext(rec) /\ (n # None => n = rec.next \/ n > now)
    BY <2>3
  <2>5. LET d == [rec EXCEPT !.next = n]
        IN /\ d \in TaskRecord /\ d.runs = rec.runs /\ d.active = rec.active
           /\ d.unsaved = rec.unsaved /\ d.next = n /\ d.sched = rec.sched
    BY <1>1 DEF TaskRecord
  <2> QED
    BY <1>1, <1>4, <2>1, <2>4, <2>5 DEF Static, IsOnce
<1>5. CASE /\ rec.active = NoRun
           /\ ~ (rec.enabled /\ rec.next # None /\ once /\ rec.next <= now)
           /\ ~ (rec.enabled /\ rec.next # None /\ rec.sched.kind = "cron")
  <2>1. Recover(rec) = rec
    BY <1>5 DEF Recover
  <2> QED
    BY <1>1, <1>5, <2>1 DEF Static, IsOnce
<1> QED
  BY <1>2, <1>3, <1>4, <1>5

-----------------------------------------------------------------------------
(* The inductive invariant *)

SpentType == [runs : Nat, edits : Nat, faults : Nat, crashes : Nat, manual : Nat]

Basics ==
    /\ now \in 1..MaxNow /\ since \in 0..now
    /\ projects \subseteq Project /\ ready \in BOOLEAN
    /\ disk \in [Task -> TaskRecord \union {NoTask}]
    /\ durable \in [Task -> TaskRecord \union {NoTask}]
    /\ mem \in [Task -> TaskRecord \union {NoTask}]
    /\ gens \in [Task -> Nat]
    /\ pending \in [Task -> Candidate \union {NoCandidate}]
    /\ tick \in {"retry", "collect"}
    /\ worker \in [Slot -> [at : {"free", "waiting", "releasing"} \union HasExecLock,
                            task : Task \union {NoTask},
                            cand : Candidate \union {NoCandidate},
                            run : RunId \union {NoRun}]]
    /\ used \subseteq Task
    /\ fired \subseteq [task : Task, run : RunId, due : Nat]
    /\ spent \in SpentType

\* A worker that has its candidate or its claim in hand.
WorkerOK(w) ==
    LET k == worker[w]
    IN /\ k.at # "free" => k.task \in Task
       /\ k.at \in {"waiting", "locked"} => k.cand \in Candidate /\ k.cand.due # None
       /\ Claiming(w) => /\ k.task \in used
                         /\ k.run[1] = "run" /\ k.run[2] \in 1..spent.runs
                         /\ k.cand # NoCandidate => k.cand.due <= now
       /\ k.at = "claimed" /\ k.cand # NoCandidate =>
             \A f \in fired : f.task = k.task => f.due < k.cand.due

WorkersOK == \A w \in Slot : WorkerOK(w)

OneExec == \A v, w \in Slot : worker[v].at \in HasExecLock /\ worker[w].at \in HasExecLock => v = w

FiredOK ==
    /\ \A f \in fired : /\ f.task \in used /\ f.due <= now
                        /\ f.run[1] = "run" /\ f.run[2] \in 1..spent.runs
    /\ \A f, g \in fired : f.task = g.task /\ f.due = g.due /\ f.due # None => f.run = g.run

\* Before the tasks are restored nothing is under way.
FreshStart == ~ ready => durable = disk /\ \A w \in Slot : worker[w] = Idle

FilesOK ==
    \A t \in Task :
        /\ ProjectOf[t] = NoProject => disk[t] = NoTask /\ durable[t] = NoTask
        /\ disk[t] # NoTask => ~ disk[t].unsaved
        /\ durable[t] # NoTask => ~ durable[t].unsaved

UnusedIsBlank ==
    \A t \in Task \ used : disk[t] = NoTask /\ durable[t] = NoTask /\ mem[t] = NoTask

\* What a record has to say about the executions of its task: its time is a later one, ...
Later(t, rec) ==
    rec.next # None =>
        /\ \A f \in fired : f.task = t => rec.next > f.due
        /\ \A w \in Slot : (Claiming(w) /\ worker[w].task = t /\ worker[w].cand # NoCandidate)
                           => rec.next > worker[w].cand.due

\* ... it carries the claim, ...
Held(t, rec) == \A w \in Slot : (Claiming(w) /\ worker[w].task = t) => rec.active = worker[w].run

\* ... its runs are numbered, the one that is active above those before, ...
Numbered(rec) ==
    /\ \A i \in DOMAIN rec.runs : rec.runs[i][1] = "run" => rec.runs[i][2] <= spent.runs
    /\ rec.active # NoRun =>
          /\ rec.active[1] = "run" /\ rec.active[2] <= spent.runs
          /\ rec.active[2] > 0 =>
                \A i \in DOMAIN rec.runs : rec.runs[i][1] = "run" => rec.runs[i][2] < rec.active[2]

\* ... and an execution is listed until newer ones have pushed it out.
Lists(rec, run) == \E i \in DOMAIN rec.runs : rec.runs[i] = run
Newer(rec, run) == \A i \in DOMAIN rec.runs : rec.runs[i][1] = "run" => rec.runs[i][2] > run[2]
Covers(rec, run) ==
    /\ rec.active # NoRun => run[2] <= rec.active[2]
    /\ \A j \in DOMAIN rec.runs : rec.runs[j] = run =>
          \A i \in 1..(j - 1) : rec.runs[i][1] = "run" => rec.runs[i][2] > run[2]
    /\ \/ rec.active = run
       \/ Lists(rec, run)
       \/ Len(rec.runs) = MaxTaskRuns /\ Newer(rec, run)
Accounts(t, rec) == \A f \in fired : f.task = t => Covers(rec, f.run)

Good(t, rec) ==
    /\ Static(rec) /\ Numbered(rec)
    /\ Later(t, rec) /\ Held(t, rec) /\ Accounts(t, rec)

Recorded == \A t \in Task : \A rec \in Records(t) : Good(t, rec)

\* A once that is enabled in memory lies after the start.
OnTime ==
    \A t \in Task : (mem[t] # NoTask /\ IsOnce(mem[t]) /\ mem[t].enabled /\ mem[t].next # None)
                    => mem[t].next > since

Inv ==
    /\ Basics /\ WorkersOK /\ OneExec /\ FiredOK /\ FreshStart /\ FilesOK /\ UnusedIsBlank
    /\ Recorded /\ ShownIsDurable /\ OnTime

-----------------------------------------------------------------------------
(* Records *)

\* What AppendResult does to the history, place by place.
LEMMA AppendPlaces ==
  ASSUME NEW rec \in TaskRecord, Len(rec.runs) <= MaxTaskRuns, NEW add \in RunId,
         ~ Lists(rec, add)
  PROVE  LET runs == AppendResult(rec, add).runs
         IN /\ runs \in Seq(RunId) /\ Len(runs) <= MaxTaskRuns
            /\ \/ Len(runs) = Len(rec.runs) + 1
               \/ Len(runs) = MaxTaskRuns /\ Len(rec.runs) = MaxTaskRuns
            /\ runs[1] = add /\ Len(runs) > 0
            /\ \A i \in 2..Len(runs) : runs[i] = rec.runs[i - 1]
<1> DEFINE all == <<add>> \o rec.runs
           new == IF Len(all) > MaxTaskRuns THEN SubSeq(all, 1, MaxTaskRuns) ELSE all
<1>1. rec.runs \in Seq(RunId) /\ MaxTaskRuns \in Nat \ {0}
  BY RunsAssumption DEF TaskRecord
<1>2. AppendResult(rec, add).runs = new
  BY DEF AppendResult, Lists, TaskRecord
<1>3. /\ all \in Seq(RunId) /\ Len(all) = Len(rec.runs) + 1 /\ all[1] = add
      /\ \A i \in 2..Len(all) : all[i] = rec.runs[i - 1]
  BY <1>1
<1> HIDE DEF all
<1>4. CASE Len(all) > MaxTaskRuns
  <2>1. /\ SubSeq(all, 1, MaxTaskRuns) \in Seq(RunId)
        /\ Len(SubSeq(all, 1, MaxTaskRuns)) = MaxTaskRuns
        /\ \A i \in 1..MaxTaskRuns : SubSeq(all, 1, MaxTaskRuns)[i] = all[i]
    BY <1>1, <1>3, <1>4, SubSeqProperties
  <2> QED
    BY <1>1, <1>2, <1>3, <1>4, <2>1
<1>5. CASE Len(all) <= MaxTaskRuns
  BY <1>1, <1>2, <1>3, <1>5
<1> QED
  BY <1>1, <1>3, <1>4, <1>5

\* A run that ends is written in front of those before it, and what drops out of the history
\* at the other end is older than what stays.
LEMMA AppendAccounted ==
  ASSUME NEW rec, Static(rec), Numbered(rec), spent.runs \in Nat, NEW add \in RunId,
         add = rec.active \/ (rec.active = NoRun /\ add[1] = "missed"),
         NEW run \in RunId, run[1] = "run", run[2] > 0, Covers(rec, run),
         NEW new \in TaskRecord, new.active = NoRun, new.runs = AppendResult(rec, add).runs
  PROVE  Covers(new, run)
<1>1. /\ rec \in TaskRecord /\ Len(rec.runs) <= MaxTaskRuns /\ rec.runs \in Seq(RunId)
      /\ MaxTaskRuns \in Nat \ {0} /\ rec.active \in RunId \union {NoRun}
  BY RunsAssumption DEF Static, TaskRecord
<1>2. CASE Lists(rec, add)
  <2>1. new.runs = rec.runs
    BY <1>2 DEF AppendResult, Lists
  <2>2. rec.active = run => add = run
    BY DEF NoRun, RunId
  <2> QED
    BY <1>2, <2>1, <2>2 DEF Covers, Lists, Newer
<1>3. CASE ~ Lists(rec, add)
  <2> DEFINE old == rec.runs
             runs == new.runs
  <2>1. /\ runs \in Seq(RunId) /\ Len(runs) <= MaxTaskRuns
        /\ \/ Len(runs) = Len(old) + 1
           \/ Len(runs) = MaxTaskRuns /\ Len(old) = MaxTaskRuns
        /\ runs[1] = add /\ Len(runs) > 0
        /\ \A i \in 2..Len(runs) : runs[i] = old[i - 1]
    BY <1>1, <1>3, AppendPlaces
  <2>2. rec.active = run => add = run
    BY DEF NoRun, RunId
  <2>3. \A i \in DOMAIN old : old[i] \in RunId
    BY <1>1
  <2>4. run[2] \in Nat /\ (add[1] = "run" => add = rec.active /\ add[2] \in Nat)
    BY DEF RunId
  \* Every listed run, and what has pushed it out, is older than the one that is added.
  <2>5. ASSUME add[1] = "run", add # run
        PROVE  add[2] > run[2]
    <3>1. /\ add = rec.active /\ rec.active # NoRun /\ run[2] <= add[2]
      BY <2>4, <2>5 DEF Covers, NoRun, RunId
    <3>2. run = <<run[1], run[2]>> /\ add = <<add[1], add[2]>>
      BY DEF RunId
    <3> QED
      BY <2>4, <2>5, <3>1, <3>2
  <2>6. \A j \in DOMAIN runs : runs[j] = run =>
          \A i \in 1..(j - 1) : runs[i][1] = "run" => runs[i][2] > run[2]
    <3> SUFFICES ASSUME NEW j \in DOMAIN runs, runs[j] = run, NEW i \in 1..(j - 1),
                        runs[i][1] = "run"
                 PROVE  runs[i][2] > run[2]
      OBVIOUS
    <3>1. j \in 2..Len(runs) /\ j - 1 \in DOMAIN old /\ old[j - 1] = run
      <4>1. j \in 1..Len(runs) /\ j \in 2..Len(runs)
        BY <2>1
      <4>2. j - 1 \in 1..Len(old)
        BY SMTT(30), <1>1, <2>1, <4>1
      <4> QED
        BY <1>1, <2>1, <4>1, <4>2
    <3>2. CASE i = 1
      <4>1. add # run
        BY <1>1, <1>3, <3>1 DEF Lists
      <4> QED
        BY <2>1, <2>5, <3>2, <4>1
    <3>3. CASE i # 1
      <4>1. i - 1 \in 1..(j - 1 - 1) /\ runs[i] = old[i - 1]
        BY <2>1, <3>1, <3>3
      <4> QED
        BY <1>1, <3>1, <4>1 DEF Covers
    <3> QED
      BY <3>2, <3>3
  <2>7. \/ Lists(new, run)
        \/ Len(runs) = MaxTaskRuns /\ Newer(new, run)
    <3>1. CASE add = run
      BY <2>1, <3>1 DEF Lists
    <3>2. ASSUME add # run, NEW j \in DOMAIN old, old[j] = run
          PROVE  Lists(new, run) \/ (Len(runs) = MaxTaskRuns /\ Newer(new, run))
      <4>1. CASE j + 1 \in 1..Len(runs)
        <5>1. runs[j + 1] = run
          BY <1>1, <2>1, <3>2, <4>1
        <5> QED
          BY <2>1, <4>1, <5>1 DEF Lists
      <4>2. CASE j + 1 \notin 1..Len(runs)
        <5>1. Len(runs) = MaxTaskRuns /\ Len(old) = MaxTaskRuns /\ j = MaxTaskRuns
          BY <1>1, <2>1, <3>2, <4>2
        <5>2. ASSUME NEW i \in DOMAIN runs, runs[i][1] = "run"
              PROVE  runs[i][2] > run[2]
          <6>1. CASE i = 1
            BY <2>1, <2>5, <3>2, <5>2, <6>1
          <6>2. CASE i # 1
            <7>1. i - 1 \in 1..(j - 1) /\ runs[i] = old[i - 1]
              BY <1>1, <2>1, <5>1, <6>2
            <7> QED
              BY <3>2, <5>2, <7>1 DEF Covers
          <6> QED
            BY <6>1, <6>2
        <5> QED
          BY <5>1, <5>2 DEF Newer
      <4> QED
        BY <4>1, <4>2
    <3>3. ASSUME add # run, Len(old) = MaxTaskRuns, Newer(rec, run)
          PROVE  Lists(new, run) \/ (Len(runs) = MaxTaskRuns /\ Newer(new, run))
      <4>1. Len(runs) = MaxTaskRuns
        BY <1>1, <2>1, <3>3
      <4>2. ASSUME NEW i \in DOMAIN runs, runs[i][1] = "run"
            PROVE  runs[i][2] > run[2]
        <5>1. CASE i = 1
          BY <2>1, <2>5, <3>3, <4>2, <5>1
        <5>2. CASE i # 1
          <6>1. i - 1 \in DOMAIN old /\ runs[i] = old[i - 1]
            BY <1>1, <2>1, <3>3, <5>2
          <6> QED
            BY <3>3, <4>2, <6>1 DEF Newer
        <5> QED
          BY <5>1, <5>2
      <4> QED
        BY <4>1, <4>2 DEF Newer
    <3> QED
      BY <2>2, <3>1, <3>2, <3>3 DEF Covers, Lists
  <2> QED
    BY <2>6, <2>7 DEF Covers
<1> QED
  BY <1>2, <1>3

\* Nothing in a history that is added to has a number that was not given yet.
LEMMA AppendNumbered ==
  ASSUME NEW rec, Static(rec), Numbered(rec), NEW add \in RunId,
         add = rec.active \/ (rec.active = NoRun /\ add[1] = "missed"),
         NEW new \in TaskRecord, new.active = NoRun, new.runs = AppendResult(rec, add).runs
  PROVE  Numbered(new)
<1>1. rec \in TaskRecord /\ Len(rec.runs) <= MaxTaskRuns /\ rec.runs \in Seq(RunId)
  BY DEF Static, TaskRecord
<1>2. CASE Lists(rec, add)
  <2>1. new.runs = rec.runs
    BY <1>2 DEF AppendResult, Lists
  <2> QED
    BY <2>1 DEF Numbered
<1>3. CASE ~ Lists(rec, add)
  <2> DEFINE runs == new.runs
  <2>1. /\ runs \in Seq(RunId) /\ runs[1] = add
        /\ Len(runs) <= Len(rec.runs) + 1
        /\ \A i \in 2..Len(runs) : runs[i] = rec.runs[i - 1]
    BY <1>1, <1>3, AppendPlaces
  <2>2. ASSUME NEW i \in DOMAIN runs, runs[i][1] = "run"
        PROVE  runs[i][2] <= spent.runs
    <3>1. CASE i = 1
      BY <2>1, <2>2, <3>1 DEF Numbered, NoRun, RunId
    <3>2. CASE i # 1
      <4>1. i - 1 \in DOMAIN rec.runs /\ runs[i] = rec.runs[i - 1]
        BY <1>1, <2>1, <3>2
      <4> QED
        BY <2>2, <4>1 DEF Numbered
    <3> QED
      BY <3>1, <3>2
  <2> QED
    BY <2>2 DEF Numbered
<1> QED
  BY <1>2, <1>3

-----------------------------------------------------------------------------
(* How a record stays good *)

\* Nothing new was executed or claimed for this task.
Quiet(t) ==
    /\ \A f \in fired' : f.task = t => f \in fired
    /\ spent' \in SpentType /\ spent'.runs >= spent.runs
    /\ \A w \in Slot : (Claiming(w)' /\ worker'[w].task = t) =>
          /\ Claiming(w) /\ worker'[w].task = worker[w].task
          /\ worker'[w].run = worker[w].run /\ worker'[w].cand = worker[w].cand

\* More runs later do not matter to the numbers of a record.
LEMMA NumberedUp ==
  ASSUME NEW rec \in TaskRecord, Numbered(rec), spent.runs \in Nat, spent'.runs \in Nat,
         spent'.runs >= spent.runs
  PROVE  Numbered(rec)'
<1>1. /\ \A i \in DOMAIN rec.runs : rec.runs[i] \in RunId
      /\ rec.active # NoRun => rec.active \in RunId
  BY DEF TaskRecord
<1>2. \A r \in RunId : r[2] \in Nat
  BY DEF RunId
<1> QED
  BY <1>1, <1>2 DEF Numbered

\* The mark of an unsaved result, the switch, the schedule and a later time leave a record good.
LEMMA KeepsGood ==
  ASSUME Basics, FiredOK, WorkersOK, NEW t \in Task, NEW old, Good(t, old), Quiet(t),
         NEW rec, Static(rec), rec.active = old.active, rec.runs = old.runs,
         rec.next # None => rec.next = old.next \/ rec.next > now
  PROVE  Good(t, rec)'
<1>1. Static(rec)'
  BY DEF Static, IsOnce
<1>2. Numbered(rec)'
  <2>1. Numbered(rec)
    BY DEF Good, Numbered
  <2> QED
    BY <2>1, NumberedUp DEF Static, Basics, SpentType, Quiet
<1>3. Later(t, rec)'
  <2> SUFFICES ASSUME rec.next # None
               PROVE  /\ \A f \in fired' : f.task = t => rec.next > f.due
                      /\ \A w \in Slot :
                           (Claiming(w)' /\ worker'[w].task = t
                              /\ worker'[w].cand # NoCandidate)
                           => rec.next > worker'[w].cand.due
    BY DEF Later
  <2>1. rec.next \in Nat /\ now \in Nat
    BY DEF Static, TaskRecord, Basics
  <2>2. ASSUME NEW f \in fired', f.task = t
        PROVE  rec.next > f.due
    <3>1. f \in fired /\ f.due <= now /\ f.due \in Nat
      BY <2>2 DEF Quiet, FiredOK, Basics
    <3>2. old.next # None => old.next > f.due
      BY <2>2, <3>1 DEF Good, Later
    <3> QED
      BY <2>1, <3>1, <3>2
  <2>3. ASSUME NEW w \in Slot, Claiming(w)', worker'[w].task = t,
               worker'[w].cand # NoCandidate
        PROVE  rec.next > worker'[w].cand.due
    <3>1. Claiming(w) /\ worker[w].task = t /\ worker'[w].cand = worker[w].cand
      BY <2>3 DEF Quiet
    <3>2. worker[w].cand.due <= now /\ worker[w].cand.due \in Nat
      BY <2>3, <3>1 DEF WorkersOK, WorkerOK, Basics, Candidate
    <3>3. old.next # None => old.next > worker[w].cand.due
      BY <2>3, <3>1 DEF Good, Later
    <3> QED
      BY <2>1, <3>1, <3>2, <3>3
  <2> QED
    BY <2>2, <2>3
<1>4. Held(t, rec)'
  BY DEF Held, Good, Quiet
<1>5. Accounts(t, rec)'
  <2>1. ASSUME NEW run, Covers(old, run)
        PROVE  Covers(rec, run)
    BY <2>1 DEF Covers, Lists, Newer
  <2> QED
    BY <2>1 DEF Accounts, Good, Quiet
<1> QED
  BY <1>1, <1>2, <1>3, <1>4, <1>5 DEF Good

\* Nobody holds the task any more and its last run is in the history.
LEMMA SettledGood ==
  ASSUME Basics, FiredOK, NEW t \in Task, NEW old, Good(t, old), Quiet(t),
         \A w \in Slot : ~ (Claiming(w)' /\ worker'[w].task = t),
         NEW rec, Static(rec), rec.active = NoRun,
         \/ old.active = NoRun /\ rec.runs = old.runs
         \/ \E add \in RunId :
              /\ add = old.active \/ (old.active = NoRun /\ add[1] = "missed")
              /\ rec.runs = AppendResult(old, add).runs,
         rec.next # None => rec.next = old.next \/ rec.next > now
  PROVE  Good(t, rec)'
<1>1. Static(rec)'
  BY DEF Static, IsOnce
<1>2. Static(old) /\ Numbered(old) /\ spent.runs \in Nat /\ spent'.runs \in Nat
  BY DEF Good, Basics, SpentType, Quiet
<1>3. rec \in TaskRecord /\ old \in TaskRecord
  BY <1>2 DEF Static
<1>4. Numbered(rec)
  BY <1>2, <1>3, AppendNumbered DEF Numbered
<1>5. Numbered(rec)'
  BY <1>2, <1>3, <1>4, NumberedUp DEF Quiet
<1>6. Later(t, rec)'
  <2> SUFFICES ASSUME rec.next # None, NEW f \in fired', f.task = t
               PROVE  rec.next > f.due
    BY DEF Later
  <2>1. rec.next \in Nat /\ now \in Nat
    BY <1>3 DEF TaskRecord, Basics
  <2>2. f \in fired /\ f.due <= now /\ f.due \in Nat
    BY DEF Quiet, FiredOK, Basics
  <2>3. old.next # None => old.next > f.due
    BY <2>2 DEF Good, Later
  <2> QED
    BY <2>1, <2>2, <2>3
<1>7. Held(t, rec)'
  BY DEF Held
<1>8. Accounts(t, rec)'
  <2> SUFFICES ASSUME NEW f \in fired', f.task = t
               PROVE  Covers(rec, f.run)
    BY DEF Accounts
  <2>1. f \in fired /\ f.run \in RunId /\ f.run[1] = "run" /\ f.run[2] > 0
    BY <1>2 DEF Quiet, FiredOK, Basics
  <2>2. Covers(old, f.run)
    BY <2>1 DEF Good, Accounts
  <2>3. CASE old.active = NoRun /\ rec.runs = old.runs
    <3>1. f.run # NoRun
      BY <2>1 DEF RunId, NoRun
    <3> QED
      BY <2>2, <2>3, <3>1 DEF Covers, Lists, Newer
  <2>4. ASSUME NEW add \in RunId,
               add = old.active \/ (old.active = NoRun /\ add[1] = "missed"),
               rec.runs = AppendResult(old, add).runs
        PROVE  Covers(rec, f.run)
    BY <1>2, <1>3, <2>1, <2>2, <2>4, AppendAccounted
  <2> QED
    BY <2>3, <2>4
<1> QED
  BY <1>1, <1>5, <1>6, <1>7, <1>8 DEF Good

\* The claim is numbered above everything before it.
LEMMA ClaimedGood ==
  ASSUME Basics, FiredOK, NEW t \in Task, NEW old, Good(t, old), old.active = NoRun,
         fired' = fired, spent'.runs = spent.runs + 1,
         NEW rec, Static(rec), rec.active = NewRun, rec.runs = old.runs,
         rec.next # None => rec.next = old.next \/ rec.next > now,
         \A w \in Slot : (Claiming(w)' /\ worker'[w].task = t) =>
           /\ worker'[w].run = NewRun
           /\ worker'[w].cand # NoCandidate /\ rec.next # None => rec.next > worker'[w].cand.due
  PROVE  Good(t, rec)'
<1>1. Static(rec)'
  BY DEF Static, IsOnce
<1>2. /\ spent.runs \in Nat /\ rec \in TaskRecord /\ rec.runs \in Seq(RunId)
      /\ NewRun \in RunId /\ NewRun # NoRun /\ NewRun[1] = "run"
      /\ NewRun[2] = spent.runs + 1
  BY DEF Static, TaskRecord, Basics, SpentType, NewRun, RunId, NoRun
<1>3. ASSUME NEW i \in DOMAIN rec.runs, rec.runs[i][1] = "run"
      PROVE  rec.runs[i][2] \in Nat /\ rec.runs[i][2] <= spent.runs
  <2>1. rec.runs[i] \in RunId
    BY <1>2
  <2> QED
    BY <1>3, <2>1 DEF RunId, Good, Numbered
<1>4. Numbered(rec)'
  BY <1>2, <1>3 DEF Numbered
<1>5. Later(t, rec)'
  <2> SUFFICES ASSUME rec.next # None, NEW f \in fired', f.task = t
               PROVE  rec.next > f.due
    BY DEF Later
  <2>1. rec.next \in Nat /\ now \in Nat
    BY <1>2 DEF TaskRecord, Basics
  <2>2. f \in fired /\ f.due <= now /\ f.due \in Nat
    BY DEF FiredOK, Basics
  <2>3. old.next # None => old.next > f.due
    BY <2>2 DEF Good, Later
  <2> QED
    BY <2>1, <2>2, <2>3
<1>6. Held(t, rec)'
  BY DEF Held
<1>7. Accounts(t, rec)'
  <2> SUFFICES ASSUME NEW f \in fired, f.task = t
               PROVE  Covers(rec, f.run)
    BY DEF Accounts
  <2>1. f.run \in RunId /\ f.run # NoRun /\ f.run[2] \in Nat /\ f.run[2] <= spent.runs
    BY DEF FiredOK, Basics, RunId, NoRun
  <2>2. Covers(old, f.run)
    BY DEF Good, Accounts
  <2> QED
    BY <1>2, <2>1, <2>2 DEF Covers, Lists, Newer
<1> QED
  BY <1>1, <1>4, <1>5, <1>6, <1>7 DEF Good

\* What is executed is the claim that every record of the task carries.
LEMMA StartedGood ==
  ASSUME Basics, WorkersOK, NEW w \in Slot, StartRun(w), NEW rec, Good(worker[w].task, rec)
  PROVE  Good(worker[w].task, rec)'
<1> DEFINE t == worker[w].task
           run == worker[w].run
           due == IF worker[w].cand = NoCandidate THEN None ELSE worker[w].cand.due
<1>1. PICK tk, f : /\ tk = t /\ f = [task |-> t, run |-> run, due |-> due]
                   /\ fired' = fired \union {f}
  BY DEF StartRun
<1>2. \A v \in Slot : /\ worker'[v].task = worker[v].task /\ worker'[v].run = worker[v].run
                      /\ worker'[v].cand = worker[v].cand /\ Claiming(v)' = Claiming(v)
  BY DEF StartRun, Move, Claiming, Basics
<1>3. Claiming(w) /\ rec.active = run /\ Static(rec) /\ rec \in TaskRecord
  BY DEF StartRun, Claiming, Good, Held, Static
<1>4. run \in RunId /\ run[1] = "run" /\ run[2] \in Nat /\ run[2] > 0 /\ run # NoRun
  <2>1. run \in RunId \union {NoRun} /\ run[1] = "run" /\ run[2] \in 1..spent.runs
    BY <1>3 DEF WorkersOK, WorkerOK, Basics
  <2> QED
    BY <2>1 DEF RunId, NoRun
<1>5. Static(rec)'
  BY <1>3 DEF Static, IsOnce
<1>6. Numbered(rec)'
  BY DEF Good, Numbered, StartRun
<1>7. Later(t, rec) /\ Held(t, rec) /\ Accounts(t, rec) /\ Numbered(rec)
  BY DEF Good
<1>8. rec.next # None => rec.next > due
  BY <1>3, <1>7 DEF Later, TaskRecord, None
<1>9. Covers(rec, run)
  <2>1. ASSUME NEW j \in DOMAIN rec.runs, rec.runs[j] = run
        PROVE  FALSE
    <3>1. rec.runs[j][2] < rec.active[2]
      BY <1>3, <1>4, <1>7, <2>1 DEF Numbered
    <3> QED
      BY <1>3, <1>4, <2>1, <3>1
  <2> QED
    BY <1>3, <1>4, <2>1 DEF Covers
<1>10. Later(tk, rec)'
  <2>1. Later(tk, rec)
    BY <1>1, <1>7
  <2> QED
    BY <1>1, <1>2, <1>8, <2>1 DEF Later
<1>11. Held(tk, rec)'
  <2>1. Held(tk, rec)
    BY <1>1, <1>7
  <2> QED
    BY <1>2, <2>1 DEF Held
<1>12. Accounts(tk, rec)'
  <2>1. Accounts(tk, rec)
    BY <1>1, <1>7
  <2> QED
    BY <1>1, <1>9, <2>1 DEF Accounts
<1>13. worker'[w].task = tk
  BY <1>1, <1>2
<1> QED
  BY <1>5, <1>6, <1>10, <1>11, <1>12, <1>13 DEF Good

-----------------------------------------------------------------------------
(* Steps *)

\* What a write with this outcome puts into memory, and what it leaves there, on disk and
\* after a power loss.
Shown(t, clean, o, m) ==
    \/ m # NoTask /\ m.unsaved
    \/ o = "saved" /\ m = clean
    \/ o = "failed" /\ m = mem[t]

Stored(t, clean, o, m) ==
    /\ disk' \in [Task -> TaskRecord \union {NoTask}]
    /\ durable' \in [Task -> TaskRecord \union {NoTask}]
    /\ mem' \in [Task -> TaskRecord \union {NoTask}]
    /\ FilesOK' /\ ShownIsDurable'
    /\ \A u \in Task \ {t} : /\ disk'[u] = disk[u] /\ durable'[u] = durable[u]
                             /\ mem'[u] = mem[u] /\ Records(u)' = Records(u)
    /\ mem'[t] = m
    /\ Records(t)' \subseteq Records(t) \union {clean, m}
    /\ o = "saved" => Records(t)' \subseteq {clean, m}

\* A write of one task that ends as its outcome says keeps files and memory in agreement
\* (persist) and brings in no record but the written and the shown one.
LEMMA StoreKeeps ==
  ASSUME Basics, FilesOK, ShownIsDurable, NEW t \in Task,
         NEW rec \in TaskRecord, NEW clean, clean = [rec EXCEPT !.unsaved = FALSE],
         NEW o \in {"saved", "unsure", "failed"}, ProjectOf[t] = NoProject => o = "saved",
         Persist(t, rec, o),
         NEW m \in TaskRecord \union {NoTask}, mem' = [mem EXCEPT ![t] = m],
         Shown(t, clean, o, m)
  PROVE  Stored(t, clean, o, m)
<1> DEFINE kept == OnDisk(t, rec, o)
<1>1. clean \in TaskRecord /\ ~ clean.unsaved /\ clean # NoTask
  BY NoneAssumption DEF TaskRecord
<1>2. /\ disk \in [Task -> TaskRecord \union {NoTask}]
      /\ durable \in [Task -> TaskRecord \union {NoTask}]
      /\ mem \in [Task -> TaskRecord \union {NoTask}]
  BY DEF Basics
<1>3. PICK d \in {clean, disk[t]} :
         /\ d = (IF ProjectOf[t] = NoProject \/ o = "failed" THEN disk[t] ELSE clean)
         /\ disk' = [disk EXCEPT ![t] = d]
         /\ durable' = IF o = "saved" THEN [durable EXCEPT ![t] = d] ELSE durable
  BY DEF Persist, OnDisk
<1>4. \A u \in Task \ {t} : /\ disk'[u] = disk[u] /\ durable'[u] = durable[u]
                           /\ mem'[u] = mem[u]
  BY <1>2, <1>3
<1>5. /\ disk'[t] = d /\ mem'[t] = m
      /\ durable'[t] = IF o = "saved" THEN d ELSE durable[t]
  BY <1>2, <1>3
<1>6. /\ disk' \in [Task -> TaskRecord \union {NoTask}]
      /\ durable' \in [Task -> TaskRecord \union {NoTask}]
      /\ mem' \in [Task -> TaskRecord \union {NoTask}]
  BY <1>1, <1>2, <1>3
<1>7. FilesOK'
  <2> SUFFICES ASSUME NEW u \in Task
               PROVE  /\ ProjectOf[u] = NoProject => disk'[u] = NoTask /\ durable'[u] = NoTask
                      /\ disk'[u] # NoTask => ~ disk'[u].unsaved
                      /\ durable'[u] # NoTask => ~ durable'[u].unsaved
    BY DEF FilesOK
  <2>1. CASE u = t
    BY <1>1, <1>3, <1>5, <2>1 DEF FilesOK
  <2>2. CASE u # t
    BY <1>4, <2>2 DEF FilesOK
  <2> QED
    BY <2>1, <2>2
<1>8. ShownIsDurable'
  <2> SUFFICES ASSUME NEW u \in Task, mem'[u] # NoTask, ~ mem'[u].unsaved,
                      ProjectOf[u] # NoProject
               PROVE  durable'[u] = mem'[u] /\ disk'[u] \in {mem'[u], NoTask}
    BY DEF ShownIsDurable
  <2>1. CASE u = t
    BY <1>1, <1>3, <1>5, <2>1 DEF ShownIsDurable, Shown
  <2>2. CASE u # t
    BY <1>4, <2>2 DEF ShownIsDurable
  <2> QED
    BY <2>1, <2>2
<1>9. \A u \in Task \ {t} : Records(u)' = Records(u)
  BY <1>4 DEF Records
<1>10. /\ Records(t)' \subseteq Records(t) \union {clean, m}
       /\ o = "saved" => Records(t)' \subseteq {clean, m}
  BY <1>3, <1>5 DEF Records, FilesOK
<1> QED
  BY <1>4, <1>5, <1>6, <1>7, <1>8, <1>9, <1>10 DEF Stored

\* Steps that leave the workers and the history alone.
LEMMA WorkersStay ==
  ASSUME Inv, UNCHANGED <<worker, fired>>, now' \in Nat, now' >= now, used \subseteq used',
         spent' \in SpentType, spent'.runs >= spent.runs
  PROVE  /\ WorkersOK' /\ OneExec' /\ FiredOK'
         /\ \A t \in Task : Quiet(t)
<1>1. /\ now \in Nat /\ spent.runs \in Nat /\ spent'.runs \in Nat
      /\ \A w \in Slot : worker[w].cand \in Candidate \union {NoCandidate}
      /\ \A f \in fired : f.due \in Nat
      /\ \A n \in 1..spent.runs : n \in 1..spent'.runs
  BY DEF Inv, Basics, SpentType
<1>2. WorkersOK'
  <2> SUFFICES ASSUME NEW w \in Slot
               PROVE  WorkerOK(w)'
    BY DEF WorkersOK
  <2>1. WorkerOK(w)
    BY DEF Inv, WorkersOK
  <2> QED
    BY <1>1, <2>1 DEF WorkerOK, Claiming, Candidate
<1>3. OneExec'
  BY DEF Inv, OneExec
<1>4. FiredOK'
  BY <1>1 DEF Inv, FiredOK
<1>5. \A t \in Task : Quiet(t)
  BY DEF Quiet, Claiming
<1> QED
  BY <1>2, <1>3, <1>4, <1>5

\* Steps that write no new record.
LEMMA OldRecordsStay ==
  ASSUME Inv, \A t \in Task : Quiet(t) /\ Records(t)' \subseteq Records(t)
  PROVE  Recorded'
<1> SUFFICES ASSUME NEW t \in Task, NEW rec \in Records(t)'
             PROVE  Good(t, rec)'
  BY DEF Recorded
<1>1. Good(t, rec) /\ rec \in Records(t)
  BY DEF Inv, Recorded
<1> QED
  BY <1>1, KeepsGood DEF Inv, Good

\* A budget that is used stays a number.
LEMMA SpentSteps ==
  ASSUME spent \in SpentType, NEW what \in {"runs", "edits", "faults", "crashes", "manual"},
         NEW n \in Nat, Spend(what, n)
  PROVE  spent' \in SpentType /\ spent'.runs >= spent.runs
<1>1. CASE what = "runs"
  BY <1>1 DEF SpentType, Spend
<1>2. CASE what = "edits"
  BY <1>2 DEF SpentType, Spend
<1>3. CASE what = "faults"
  BY <1>3 DEF SpentType, Spend
<1>4. CASE what = "crashes"
  BY <1>4 DEF SpentType, Spend
<1>5. CASE what = "manual"
  BY <1>5 DEF SpentType, Spend
<1> QED
  BY <1>1, <1>2, <1>3, <1>4, <1>5

\* An edit that leaves the runs of the task alone.
LEMMA EditStep ==
  ASSUME Inv, ready, NEW t \in Task, NEW rec, Static(rec), CommitEdit(t, rec),
         UNCHANGED <<now, projects, ready, since, tick, worker, fired>>,
         used' = used \union {t},
         \/ /\ mem[t] # NoTask /\ rec.active = mem[t].active /\ rec.runs = mem[t].runs
            /\ rec.next # None => rec.next = mem[t].next \/ rec.next > now
         \/ t \notin used /\ rec.active = NoRun /\ rec.runs = <<>>,
         IsOnce(rec) /\ rec.enabled /\ rec.next # None => rec.next > since
  PROVE  Inv'
<1>1. /\ Basics /\ rec \in TaskRecord /\ spent \in SpentType
      /\ mem \in [Task -> TaskRecord \union {NoTask}]
  BY DEF Inv, Basics, Static
<1>2. PICK o \in {"saved", "unsure", "failed"} :
         /\ ProjectOf[t] = NoProject => o = "saved"
         /\ Persist(t, rec, o)
         /\ IF o = "failed" THEN UNCHANGED table
            ELSE Publish(t, [rec EXCEPT !.unsaved = o = "unsure"]) /\ Invalidate({t})
         /\ spent' = [spent EXCEPT !.faults = @ + FaultOf(o), !.edits = @ + 1]
  BY DEF CommitEdit, Outcomes
<1> DEFINE cl == [rec EXCEPT !.unsaved = FALSE]
           sh == IF o = "failed" THEN mem[t] ELSE [rec EXCEPT !.unsaved = o = "unsure"]
<1>3. /\ cl \in TaskRecord /\ cl.active = rec.active /\ cl.runs = rec.runs
      /\ cl.next = rec.next /\ cl.sched = rec.sched /\ cl.enabled = rec.enabled
  BY <1>1 DEF TaskRecord
<1>4. o # "failed" =>
        /\ sh \in TaskRecord /\ sh.active = rec.active /\ sh.runs = rec.runs
        /\ sh.next = rec.next /\ sh.sched = rec.sched /\ sh.enabled = rec.enabled
        /\ sh.unsaved = (o = "unsure")
  BY <1>1 DEF TaskRecord
<1>5. o = "saved" => sh = cl
  OBVIOUS
<1>6. mem' = [mem EXCEPT ![t] = sh]
  BY <1>1, <1>2 DEF table, Publish
<1>7. sh \in TaskRecord \union {NoTask}
  BY <1>1, <1>4
<1>8. PICK clean, m :
        clean = cl /\ m = sh /\ Shown(t, clean, o, m)
  <2>1. o = "unsure" => sh # NoTask /\ sh.unsaved
    BY <1>4, NoneAssumption
  <2> QED
    BY <1>5, <2>1 DEF Shown
<1>9. o # "failed" => /\ Static(m) /\ m.active = rec.active /\ m.runs = rec.runs
                      /\ m.next = rec.next /\ m.sched = rec.sched /\ m.enabled = rec.enabled
  BY <1>4, <1>8 DEF Static, IsOnce
<1>10. /\ Static(clean) /\ clean.active = rec.active /\ clean.runs = rec.runs
       /\ clean.next = rec.next
  BY <1>3, <1>8 DEF Static, IsOnce
<1>11. clean = [rec EXCEPT !.unsaved = FALSE] /\ mem' = [mem EXCEPT ![t] = m]
       /\ m \in TaskRecord \union {NoTask} /\ (o = "failed" => m = mem[t])
  BY <1>6, <1>7, <1>8
<1> HIDE DEF cl, sh
<1>12. Stored(t, clean, o, m)
  <2>1. Basics /\ FilesOK /\ ShownIsDurable
    BY DEF Inv
  <2>2. Persist(t, rec, o) /\ (ProjectOf[t] = NoProject => o = "saved")
    BY <1>2
  <2>3. rec \in TaskRecord /\ Shown(t, clean, o, m)
    BY <1>1, <1>8
  <2> QED
    BY <1>11, <2>1, <2>2, <2>3, StoreKeeps
<1>13. spent' \in SpentType /\ spent'.runs = spent.runs
  <2>1. FaultOf(o) \in Nat
    BY DEF FaultOf
  <2>2. spent' = [spent EXCEPT !.faults = @ + FaultOf(o), !.edits = @ + 1]
    BY <1>2
  <2>3. spent' = [runs |-> spent.runs, edits |-> spent.edits + 1,
                  faults |-> spent.faults + FaultOf(o), crashes |-> spent.crashes,
                  manual |-> spent.manual]
    BY <1>1, <2>2 DEF SpentType
  <2> QED
    BY <1>1, <2>1, <2>3 DEF SpentType
<1>14. gens' \in [Task -> Nat] /\ pending' \in [Task -> Candidate \union {NoCandidate}]
  BY <1>1, <1>2 DEF Basics, table, Invalidate
<1>15. Basics'
  BY <1>1, <1>12, <1>13, <1>14 DEF Basics, Stored
<1>16. WorkersOK' /\ OneExec' /\ FiredOK' /\ \A u \in Task : Quiet(u)
  <2>1. now \in Nat /\ spent.runs \in Nat
    BY <1>1 DEF Basics, SpentType
  <2> QED
    BY <1>13, <2>1, WorkersStay
<1>17. FreshStart'
  BY DEF FreshStart
<1>18. UnusedIsBlank'
  BY <1>12 DEF Inv, UnusedIsBlank, Stored
<1>19. Recorded'
  <2> SUFFICES ASSUME NEW u \in Task, NEW r \in Records(u)'
               PROVE  Good(u, r)'
    BY DEF Recorded
  <2>1. CASE r \in Records(u)
    <3>1. Good(u, r)
      BY <2>1 DEF Inv, Recorded
    <3> QED
      BY <1>1, <1>16, <3>1, KeepsGood DEF Inv, Good
  <2>2. CASE r \notin Records(u)
    <3>1. u = t /\ r \in {clean, m} /\ r # NoTask
      BY <1>12, <2>2 DEF Records, Stored
    <3>2. o = "failed" /\ r = m => r \in Records(u)
      BY <1>11, <3>1 DEF Records
    <3>3. /\ Static(r) /\ r.active = rec.active /\ r.runs = rec.runs /\ r.next = rec.next
      BY <1>9, <1>10, <2>2, <3>1, <3>2
    <3>4. CASE /\ mem[t] # NoTask /\ rec.active = mem[t].active /\ rec.runs = mem[t].runs
               /\ rec.next # None => rec.next = mem[t].next \/ rec.next > now
      <4>1. PICK old : old = mem[t]
        OBVIOUS
      <4>2. Good(t, old)
        BY <3>4, <4>1 DEF Inv, Recorded, Records
      <4> QED
        BY <1>1, <1>16, <3>1, <3>3, <3>4, <4>1, <4>2, KeepsGood DEF Inv
    <3>5. CASE t \notin used /\ rec.active = NoRun /\ rec.runs = <<>>
      <4>1. \A f \in fired' : f.task # t
        BY <3>5 DEF Inv, FiredOK
      <4>2. \A w \in Slot : ~ (Claiming(w)' /\ worker'[w].task = t)
        BY <3>5 DEF Inv, WorkersOK, WorkerOK, Claiming
      <4>3. Static(r)'
        BY <3>3 DEF Static, IsOnce
      <4> QED
        BY <3>1, <3>3, <3>5, <4>1, <4>2, <4>3 DEF Good, Numbered, Later, Held, Accounts
    <3> QED
      BY <3>4, <3>5
  <2> QED
    BY <2>1, <2>2
<1>20. OnTime'
  <2> SUFFICES ASSUME NEW u \in Task, mem'[u] # NoTask, IsOnce(mem'[u]), mem'[u].enabled,
                      mem'[u].next # None
               PROVE  mem'[u].next > since
    BY DEF OnTime, IsOnce
  <2>1. CASE u # t \/ o = "failed"
    <3>1. mem'[u] = mem[u]
      BY <1>11, <1>12, <2>1 DEF Stored
    <3> QED
      BY <3>1 DEF Inv, OnTime
  <2>2. CASE u = t /\ o # "failed"
    BY <1>9, <1>12, <2>2 DEF IsOnce, Stored
  <2> QED
    BY <2>1, <2>2
<1> QED
  BY <1>12, <1>15, <1>16, <1>17, <1>18, <1>19, <1>20 DEF Inv, Stored

\* Steps that touch no record.
LEMMA StoreStays ==
  ASSUME Inv, UNCHANGED <<disk, durable, mem, since, used>>
  PROVE  /\ FilesOK' /\ ShownIsDurable' /\ UnusedIsBlank' /\ OnTime'
         /\ \A t \in Task : Records(t)' = Records(t)
BY DEF Inv, FilesOK, ShownIsDurable, UnusedIsBlank, OnTime, Records

\* Steps between which a worker waits, gets the execution lock and gives it back.
LEMMA WorkersMove ==
  ASSUME Inv, UNCHANGED <<now, used, fired, spent>>,
         \A w \in Slot :
           \/ worker'[w] = worker[w]
           \/ /\ ~ Claiming(w)'
              /\ worker'[w].at # "free" => worker'[w].task \in Task
              /\ worker'[w].at \in {"waiting", "locked"} =>
                    worker'[w].cand \in Candidate /\ worker'[w].cand.due # None,
         \A w \in Slot : worker'[w].at \in HasExecLock =>
           \/ worker[w].at \in HasExecLock
           \/ ExecLockFree /\ \A v \in Slot \ {w} : worker'[v] = worker[v]
  PROVE  /\ WorkersOK' /\ OneExec' /\ FiredOK'
         /\ \A t \in Task : Quiet(t)
<1>1. WorkersOK'
  <2> SUFFICES ASSUME NEW w \in Slot
               PROVE  WorkerOK(w)'
    BY DEF WorkersOK
  <2>1. WorkerOK(w)
    BY DEF Inv, WorkersOK
  <2>2. CASE worker'[w] = worker[w]
    BY <2>1, <2>2 DEF WorkerOK, Claiming
  <2>3. CASE worker'[w] # worker[w]
    BY <2>3 DEF WorkerOK, Claiming
  <2> QED
    BY <2>2, <2>3
<1>2. OneExec'
  <2> SUFFICES ASSUME NEW v \in Slot, NEW w \in Slot, worker'[v].at \in HasExecLock,
                      worker'[w].at \in HasExecLock, v # w
               PROVE  FALSE
    BY DEF OneExec, HasExecLock
  <2> QED
    BY DEF Inv, OneExec, ExecLockFree
<1>3. FiredOK'
  BY DEF Inv, FiredOK
<1>4. \A t \in Task : Quiet(t)
  <2>1. spent' \in SpentType /\ spent'.runs >= spent.runs
    BY DEF Inv, Basics, SpentType
  <2> QED
    BY <2>1 DEF Quiet, Claiming
<1> QED
  BY <1>1, <1>2, <1>3, <1>4

\* A worker takes the execution lock (dispatch_candidate).
LEMMA TakeExecLockKeeps ==
  ASSUME Inv, NEW w \in Slot, TakeExecLock(w)
  PROVE  Inv'
<1>1. /\ worker[w].at = "waiting" /\ ExecLockFree
      /\ worker' = [worker EXCEPT ![w].at = "locked"]
      /\ UNCHANGED <<now, projects, disk, durable, ready, since, mem, gens, pending, tick,
                     used, fired, spent>>
  BY DEF TakeExecLock, Move
<1>2. Basics'
  BY <1>1 DEF Inv, Basics, HasExecLock
<1>3. /\ \A v \in Slot \ {w} : worker'[v] = worker[v]
      /\ worker'[w].at = "locked" /\ worker'[w].task = worker[w].task
      /\ worker'[w].cand = worker[w].cand
  BY <1>1 DEF Inv, Basics
<1>4. worker[w].task \in Task /\ worker[w].cand \in Candidate /\ worker[w].cand.due # None
  BY <1>1 DEF Inv, WorkersOK, WorkerOK
<1>5. WorkersOK' /\ OneExec' /\ FiredOK' /\ \A t \in Task : Quiet(t)
  <2>1. \A v \in Slot :
           \/ worker'[v] = worker[v]
           \/ /\ ~ Claiming(v)'
              /\ worker'[v].at # "free" => worker'[v].task \in Task
              /\ worker'[v].at \in {"waiting", "locked"} =>
                    worker'[v].cand \in Candidate /\ worker'[v].cand.due # None
    BY <1>3, <1>4 DEF Claiming
  <2>2. \A v \in Slot : worker'[v].at \in HasExecLock =>
           \/ worker[v].at \in HasExecLock
           \/ ExecLockFree /\ \A u \in Slot \ {v} : worker'[u] = worker[u]
    BY <1>1, <1>3
  <2> QED
    BY <1>1, <2>1, <2>2, WorkersMove
<1>6. FilesOK' /\ ShownIsDurable' /\ UnusedIsBlank' /\ OnTime' /\ Recorded'
  BY <1>1, <1>5, StoreStays, OldRecordsStay
<1>7. FreshStart'
  BY <1>1 DEF Inv, FreshStart, Idle
<1> QED
  BY <1>2, <1>5, <1>6, <1>7 DEF Inv

\* The candidate is given back: the worker is on its way out, or gone.
LEMMA GiveBackKeeps ==
  ASSUME Inv, NEW w \in Slot, ClaimRejected(w) \/ ReleasePending(w)
  PROVE  Inv'
<1>1. PICK new :
        /\ worker' = [worker EXCEPT ![w] = new]
        /\ new = Idle \/ new = [worker[w] EXCEPT !.at = "releasing"]
        /\ worker[w].at \in {"locked", "releasing"}
        /\ pending' \in {pending, [pending EXCEPT ![worker[w].task] = NoCandidate]}
        /\ UNCHANGED <<now, projects, disk, durable, ready, since, mem, gens, tick, used,
                       fired, spent>>
  BY DEF ClaimRejected, ReleasePending, Move, ReleaseCandidate, Inv, Basics
<1>2. worker[w].task \in Task
  BY <1>1 DEF Inv, WorkersOK, WorkerOK
<1>3. new \in [at : {"free", "waiting", "releasing"} \union HasExecLock,
                task : Task \union {NoTask}, cand : Candidate \union {NoCandidate},
                run : RunId \union {NoRun}]
  BY <1>1 DEF Inv, Basics, Idle
<1>4. Basics'
  BY <1>1, <1>3 DEF Inv, Basics
<1>5. /\ \A v \in Slot \ {w} : worker'[v] = worker[v]
      /\ worker'[w].at \in {"free", "releasing"}
      /\ worker'[w].at # "free" => worker'[w].task = worker[w].task
  BY <1>1 DEF Inv, Basics, Idle
<1>6. WorkersOK' /\ OneExec' /\ FiredOK' /\ \A t \in Task : Quiet(t)
  <2>1. \A v \in Slot :
           \/ worker'[v] = worker[v]
           \/ /\ ~ Claiming(v)'
              /\ worker'[v].at # "free" => worker'[v].task \in Task
              /\ worker'[v].at \in {"waiting", "locked"} =>
                    worker'[v].cand \in Candidate /\ worker'[v].cand.due # None
    BY <1>2, <1>5 DEF Claiming
  <2>2. \A v \in Slot : worker'[v].at \in HasExecLock =>
           \/ worker[v].at \in HasExecLock
           \/ ExecLockFree /\ \A u \in Slot \ {v} : worker'[u] = worker[u]
    BY <1>5 DEF HasExecLock
  <2> QED
    BY <1>1, <2>1, <2>2, WorkersMove
<1>7. FilesOK' /\ ShownIsDurable' /\ UnusedIsBlank' /\ OnTime' /\ Recorded'
  BY <1>1, <1>6, StoreStays, OldRecordsStay
<1>8. FreshStart'
  BY <1>1 DEF Inv, FreshStart, Idle
<1> QED
  BY <1>4, <1>6, <1>7, <1>8 DEF Inv

\* Due tasks are reserved, and a worker waits for each (collect_due).
LEMMA CollectDueKeeps ==
  ASSUME Inv, CollectDue
  PROVE  Inv'
<1> DEFINE due == {t \in Task : /\ Due(t) /\ mem[t].active = NoRun /\ ~ mem[t].unsaved
                               /\ pending[t] = NoCandidate}
           cand == [t \in due |-> [gen |-> gens[t], due |-> mem[t].next]]
           free == {w \in Slot : worker[w].at = "free"}
<1>1. PICK spawned \in [due -> free] :
        /\ pending' = [t \in Task |-> IF t \in due THEN cand[t] ELSE pending[t]]
        /\ worker' = [w \in Slot |->
             IF \E t \in due : spawned[t] = w
             THEN LET t == CHOOSE t \in due : spawned[t] = w
                  IN [at |-> "waiting", task |-> t, cand |-> cand[t], run |-> NoRun]
             ELSE worker[w]]
  BY DEF CollectDue
<1>2. /\ ready /\ UNCHANGED <<now, projects, disk, durable, ready, since, mem, gens, used,
                              fired, spent>>
      /\ tick' = "retry"
  BY DEF CollectDue
<1>3. \A t \in due : cand[t] \in Candidate /\ cand[t].due # None
  BY DEF Inv, Basics, Due, Candidate, TaskRecord
<1>4. ASSUME NEW w \in Slot, worker'[w] # worker[w]
      PROVE  \E t \in due : worker'[w] = [at |-> "waiting", task |-> t, cand |-> cand[t],
                                          run |-> NoRun]
  BY <1>1, <1>4
<1>5. \A w \in Slot : \/ worker'[w] = worker[w]
                      \/ /\ worker'[w].at = "waiting" /\ worker'[w].task \in Task
                         /\ worker'[w].cand \in Candidate /\ worker'[w].cand.due # None
                         /\ worker'[w] \in [at : {"waiting"}, task : Task, cand : Candidate,
                                             run : {NoRun}]
  <2> SUFFICES ASSUME NEW w \in Slot, worker'[w] # worker[w]
               PROVE  /\ worker'[w].at = "waiting" /\ worker'[w].task \in Task
                      /\ worker'[w].cand \in Candidate /\ worker'[w].cand.due # None
                      /\ worker'[w] \in [at : {"waiting"}, task : Task, cand : Candidate,
                                          run : {NoRun}]
    OBVIOUS
  <2>1. PICK t \in due : worker'[w] = [at |-> "waiting", task |-> t, cand |-> cand[t],
                                       run |-> NoRun]
    BY <1>4
  <2>2. PICK c \in Candidate : c = cand[t] /\ c.due # None
    BY <1>3, <2>1
  <2>3. t \in Task /\ worker'[w] = [at |-> "waiting", task |-> t, cand |-> c, run |-> NoRun]
    BY <2>1, <2>2
  <2> HIDE DEF due, cand
  <2> QED
    BY <2>2, <2>3
<1>6. Basics'
  <2>1. pending' \in [Task -> Candidate \union {NoCandidate}]
    BY <1>1, <1>3 DEF Inv, Basics
  <2>2. worker' \in [Slot -> [at : {"free", "waiting", "releasing"} \union HasExecLock,
                               task : Task \union {NoTask},
                               cand : Candidate \union {NoCandidate},
                               run : RunId \union {NoRun}]]
    <3>1. worker' = [w \in Slot |-> worker'[w]]
      BY <1>1
    <3>2. ASSUME NEW w \in Slot
          PROVE  worker'[w] \in [at : {"free", "waiting", "releasing"} \union HasExecLock,
                                  task : Task \union {NoTask},
                                  cand : Candidate \union {NoCandidate},
                                  run : RunId \union {NoRun}]
      BY <1>5 DEF Inv, Basics
    <3> QED
      BY <3>1, <3>2
  <2> QED
    BY <1>2, <2>1, <2>2 DEF Inv, Basics
<1> HIDE DEF due, cand, free
<1>7. WorkersOK' /\ OneExec' /\ FiredOK' /\ \A t \in Task : Quiet(t)
  <2>1. \A w \in Slot :
           \/ worker'[w] = worker[w]
           \/ /\ ~ Claiming(w)'
              /\ worker'[w].at # "free" => worker'[w].task \in Task
              /\ worker'[w].at \in {"waiting", "locked"} =>
                    worker'[w].cand \in Candidate /\ worker'[w].cand.due # None
    BY <1>5 DEF Claiming
  <2>2. \A w \in Slot : worker'[w].at \in HasExecLock => worker[w].at \in HasExecLock
    BY <1>5 DEF HasExecLock
  <2> QED
    BY <1>2, <2>1, <2>2, WorkersMove
<1>8. FilesOK' /\ ShownIsDurable' /\ UnusedIsBlank' /\ OnTime' /\ Recorded'
  BY <1>2, <1>7, StoreStays, OldRecordsStay
<1>9. FreshStart'
  BY <1>2 DEF FreshStart
<1> QED
  BY <1>6, <1>7, <1>8, <1>9 DEF Inv

\* Time passes.
LEMMA TickKeeps ==
  ASSUME Inv, Tick
  PROVE  Inv'
<1>1. /\ now' = now + 1 /\ now < MaxNow /\ now \in Nat /\ MaxNow \in Nat
      /\ UNCHANGED <<projects, disk, durable, ready, since, mem, gens, pending, tick, worker,
                     used, fired, spent>>
  BY BoundAssumption DEF Tick, Inv, Basics
<1>2. Basics'
  BY <1>1 DEF Inv, Basics
<1>3. WorkersOK' /\ OneExec' /\ FiredOK' /\ \A t \in Task : Quiet(t)
  <2>1. now' \in Nat /\ now' >= now /\ spent' \in SpentType /\ spent'.runs >= spent.runs
    BY <1>1 DEF Inv, Basics, SpentType
  <2> QED
    BY <1>1, <2>1, WorkersStay
<1>4. FilesOK' /\ ShownIsDurable' /\ UnusedIsBlank' /\ OnTime' /\ Recorded'
  BY <1>1, <1>3, StoreStays, OldRecordsStay
<1>5. FreshStart'
  BY <1>1 DEF Inv, FreshStart
<1> QED
  BY <1>2, <1>3, <1>4, <1>5 DEF Inv

\* The run that was claimed executes (run_task_locked): it was not executed before, and all
\* records of its task have a later time.
LEMMA StartRunKeeps ==
  ASSUME Inv, NEW w \in Slot, StartRun(w)
  PROVE  Inv'
<1> DEFINE t == worker[w].task
           run == worker[w].run
           c == worker[w].cand
           due == IF c = NoCandidate THEN None ELSE c.due
<1>1. /\ worker[w].at = "claimed"
      /\ worker' = [worker EXCEPT ![w].at = "running"]
      /\ fired' = fired \union {[task |-> t, run |-> run, due |-> due]}
      /\ UNCHANGED <<now, projects, disk, durable, ready, since, mem, gens, pending, tick,
                     used, spent>>
  BY DEF StartRun, Move
<1>2. /\ t \in Task /\ t \in used /\ run \in RunId /\ run[1] = "run"
      /\ run[2] \in 1..spent.runs /\ due \in Nat /\ due <= now
      /\ due # None => \A f \in fired : f.task = t => f.due < due
  <2>1. WorkerOK(w) /\ run \in RunId \union {NoRun} /\ c \in Candidate \union {NoCandidate}
    BY DEF Inv, WorkersOK, Basics
  <2>2. /\ t \in used /\ run[1] = "run" /\ run[2] \in 1..spent.runs
        /\ c # NoCandidate => c.due <= now /\ c \in Candidate
        /\ c # NoCandidate => \A f \in fired : f.task = t => f.due < c.due
    BY <1>1, <2>1 DEF WorkerOK, Claiming
  <2> QED
    BY <2>1, <2>2 DEF Inv, Basics, NoRun, Candidate, None
<1>3. /\ \A v \in Slot \ {w} : worker'[v] = worker[v]
      /\ worker'[w].at = "running" /\ worker'[w].task = t /\ worker'[w].run = run
      /\ worker'[w].cand = c
  BY <1>1 DEF Inv, Basics
<1>4. PICK f : f = [task |-> t, run |-> run, due |-> due] /\ fired' = fired \union {f}
  BY <1>1
<1>5. /\ f.task = t /\ f.run = run /\ f.due = due /\ f \in [task : Task, run : RunId, due : Nat]
  BY <1>2, <1>4
<1> HIDE DEF t, run, c, due
<1>6. Basics'
  BY <1>1, <1>4, <1>5 DEF Inv, Basics, HasExecLock
<1>7. WorkersOK'
  <2> SUFFICES ASSUME NEW v \in Slot
               PROVE  WorkerOK(v)'
    BY DEF WorkersOK
  <2>1. WorkerOK(v) /\ WorkerOK(w)
    BY DEF Inv, WorkersOK
  <2>2. CASE v = w
    BY <1>1, <1>2, <1>3, <2>1, <2>2 DEF WorkerOK, Claiming, t, run, c
  <2>3. CASE v # w
    <3>1. worker'[v].at # "claimed"
      BY <1>1, <1>3, <2>3 DEF Inv, OneExec, HasExecLock
    <3> QED
      BY <1>1, <1>3, <2>1, <2>3, <3>1 DEF WorkerOK, Claiming
  <2> QED
    BY <2>2, <2>3
<1>8. OneExec'
  BY <1>1, <1>3 DEF Inv, OneExec, HasExecLock
<1>9. FiredOK'
  <2>1. \A g \in fired : g.task = t /\ g.due = due => due = None
    BY <1>2 DEF Inv, Basics
  <2> QED
    BY <1>1, <1>2, <1>4, <1>5, <2>1 DEF Inv, FiredOK
<1>10. FilesOK' /\ ShownIsDurable' /\ UnusedIsBlank' /\ OnTime'
       /\ \A u \in Task : Records(u)' = Records(u)
  BY <1>1, StoreStays
<1>11. Recorded'
  <2> SUFFICES ASSUME NEW u \in Task, NEW rec \in Records(u)'
               PROVE  Good(u, rec)'
    BY DEF Recorded
  <2>1. Good(u, rec) /\ Static(rec)
    BY <1>10 DEF Inv, Recorded, Good
  <2>2. CASE u = t
    <3>1. Good(worker[w].task, rec)
      BY <2>1, <2>2 DEF t
    <3>2. Good(worker[w].task, rec)'
      BY <3>1, StartedGood DEF Inv
    <3>3. worker'[w].task = u
      BY <1>3, <2>2
    <3> QED
      BY <3>2, <3>3
  <2>3. CASE u # t
    <3>1. Quiet(u)
      <4>1. \A g \in fired' : g.task = u => g \in fired
        BY <1>4, <1>5, <2>3
      <4>2. spent' \in SpentType /\ spent'.runs >= spent.runs
        BY <1>1 DEF Inv, Basics, SpentType
      <4> QED
        BY <1>3, <2>3, <4>1, <4>2 DEF Quiet, Claiming
    <3> QED
      BY <2>1, <3>1, KeepsGood DEF Inv
  <2> QED
    BY <2>2, <2>3
<1>12. FreshStart'
  BY <1>1 DEF Inv, FreshStart, Idle
<1> QED
  BY <1>6, <1>7, <1>8, <1>9, <1>10, <1>11, <1>12 DEF Inv

\* Deletions, whole or half done: files and tasks disappear.
LEMMA DropKeeps ==
  ASSUME Inv, ready, UNCHANGED <<now, durable, ready, since, tick, worker, used, fired>>,
         projects' \subseteq Project, spent' \in SpentType, spent'.runs = spent.runs,
         gens' \in [Task -> Nat], pending' \in [Task -> Candidate \union {NoCandidate}],
         disk' \in [Task -> TaskRecord \union {NoTask}],
         mem' \in [Task -> TaskRecord \union {NoTask}],
         \A t \in Task : disk'[t] \in {disk[t], NoTask} /\ mem'[t] \in {mem[t], NoTask}
  PROVE  Inv'
<1>1. Basics'
  BY DEF Inv, Basics
<1>2. WorkersOK' /\ OneExec' /\ FiredOK' /\ \A t \in Task : Quiet(t)
  <2>1. now' \in Nat /\ now' >= now /\ spent'.runs >= spent.runs
    BY DEF Inv, Basics, SpentType
  <2> QED
    BY <2>1, WorkersStay
<1>3. \A t \in Task : Records(t)' \subseteq Records(t)
  BY DEF Records
<1>4. Recorded'
  BY <1>2, <1>3, OldRecordsStay
<1>5. FreshStart' /\ FilesOK' /\ UnusedIsBlank' /\ ShownIsDurable' /\ OnTime'
  BY DEF Inv, FreshStart, FilesOK, UnusedIsBlank, ShownIsDurable, OnTime
<1> QED
  BY <1>1, <1>2, <1>4, <1>5 DEF Inv

\* A task is deleted (remove).
LEMMA RemoveKeeps ==
  ASSUME Inv, NEW t \in Task, Remove(t)
  PROVE  Inv'
<1>1. spent' \in SpentType /\ spent'.runs = spent.runs
  BY DEF Inv, Basics, Remove, Spend, SpentType
<1>2. /\ gens' \in [Task -> Nat] /\ pending' \in [Task -> Candidate \union {NoCandidate}]
      /\ disk' \in [Task -> TaskRecord \union {NoTask}]
      /\ mem' \in [Task -> TaskRecord \union {NoTask}]
  BY DEF Inv, Basics, Remove, Invalidate, Publish
<1>3. \A u \in Task : disk'[u] \in {disk[u], NoTask} /\ mem'[u] \in {mem[u], NoTask}
  BY DEF Inv, Basics, Remove, Publish
<1>4. /\ ready /\ projects' \subseteq Project
      /\ UNCHANGED <<now, durable, ready, since, tick, worker, used, fired>>
  BY DEF Remove, Inv, Basics
<1> QED
  BY <1>1, <1>2, <1>3, <1>4, DropKeeps

\* A project is deleted with its tasks, or some of its files are gone (delete_project).
LEMMA DeleteProjectKeeps ==
  ASSUME Inv, NEW p \in Project, DeleteProject(p) \/ DeleteProjectFails(p)
  PROVE  Inv'
<1>1. /\ ready /\ projects' \subseteq Project
      /\ UNCHANGED <<now, durable, ready, since, tick, worker, used, fired>>
  BY DEF DeleteProject, DeleteProjectFails, Inv, Basics
<1>2. gens' \in [Task -> Nat] /\ pending' \in [Task -> Candidate \union {NoCandidate}]
  BY DEF Inv, Basics, DeleteProject, DeleteProjectFails, Invalidate
<1>3. CASE DeleteProject(p)
  <2>1. spent' \in SpentType /\ spent'.runs = spent.runs
    BY <1>3 DEF Inv, Basics, DeleteProject, Spend, SpentType
  <2>2. /\ disk' \in [Task -> TaskRecord \union {NoTask}]
        /\ mem' \in [Task -> TaskRecord \union {NoTask}]
        /\ \A u \in Task : disk'[u] \in {disk[u], NoTask} /\ mem'[u] \in {mem[u], NoTask}
    BY <1>3 DEF Inv, Basics, DeleteProject
  <2> QED
    BY <1>1, <1>2, <2>1, <2>2, DropKeeps
<1>4. CASE DeleteProjectFails(p)
  <2>1. spent' \in SpentType /\ spent'.runs = spent.runs
    <3>1. spent \in SpentType /\ spent' = [spent EXCEPT !.faults = @ + 1, !.edits = @ + 1]
      BY <1>4 DEF Inv, Basics, DeleteProjectFails
    <3>2. spent' = [runs |-> spent.runs, edits |-> spent.edits + 1, faults |-> spent.faults + 1,
                    crashes |-> spent.crashes, manual |-> spent.manual]
      BY <3>1 DEF SpentType
    <3> QED
      BY <3>1, <3>2 DEF SpentType
  <2>2. PICK gone \in SUBSET {t \in Task : ProjectOf[t] = p} :
          disk' = [t \in Task |-> IF t \in gone THEN NoTask ELSE disk[t]]
    BY <1>4 DEF DeleteProjectFails
  <2>3. /\ disk' \in [Task -> TaskRecord \union {NoTask}]
        /\ mem' \in [Task -> TaskRecord \union {NoTask}]
        /\ \A u \in Task : disk'[u] \in {disk[u], NoTask} /\ mem'[u] \in {mem[u], NoTask}
    BY <1>4, <2>2 DEF Inv, Basics, DeleteProjectFails
  <2> QED
    BY <1>1, <1>2, <2>1, <2>3, DropKeeps
<1> QED
  BY <1>3, <1>4

\* A crash leaves the files, a power loss what was durable of them: both are old records.
LEMMA CrashKeeps ==
  ASSUME Inv, Crash
  PROVE  Inv'
<1>1. PICK lost \in SUBSET Task :
        disk' = [t \in Task |-> IF t \in lost THEN durable[t] ELSE disk[t]]
  BY DEF Crash
<1>2. /\ durable' = disk' /\ ready' = FALSE /\ since' = 0 /\ tick' = "retry"
      /\ mem' = [t \in Task |-> NoTask] /\ gens' = [t \in Task |-> 0]
      /\ pending' = [t \in Task |-> NoCandidate]
      /\ worker' = [w \in Slot |-> Idle]
      /\ UNCHANGED <<now, projects, used, fired>>
  BY DEF Crash
<1>3. spent' \in SpentType /\ spent'.runs = spent.runs
  BY DEF Inv, Basics, Crash, Spend, SpentType
<1>4. Idle \in [at : {"free", "waiting", "releasing"} \union HasExecLock,
                task : Task \union {NoTask}, cand : Candidate \union {NoCandidate},
                run : RunId \union {NoRun}]
  BY DEF Idle
<1>5. Basics'
  <2>1. disk' \in [Task -> TaskRecord \union {NoTask}]
    BY <1>1 DEF Inv, Basics
  <2>2. durable' \in [Task -> TaskRecord \union {NoTask}]
    BY <1>2, <2>1
  <2>3. now' \in 1..MaxNow /\ since' \in 0..now'
    BY <1>2 DEF Inv, Basics
  <2>4. /\ mem' \in [Task -> TaskRecord \union {NoTask}] /\ gens' \in [Task -> Nat]
        /\ pending' \in [Task -> Candidate \union {NoCandidate}]
    BY <1>2
  <2>5. worker' \in [Slot -> [at : {"free", "waiting", "releasing"} \union HasExecLock,
                               task : Task \union {NoTask},
                               cand : Candidate \union {NoCandidate},
                               run : RunId \union {NoRun}]]
    BY <1>2, <1>4
  <2> QED
    BY <1>2, <1>3, <2>1, <2>2, <2>3, <2>4, <2>5 DEF Inv, Basics
<1>6. \A w \in Slot : worker'[w] = Idle
  BY <1>2
<1>7. WorkersOK' /\ OneExec'
  BY <1>6 DEF WorkersOK, WorkerOK, OneExec, Claiming, Idle, HasExecLock
<1>8. FiredOK'
  BY <1>2, <1>3 DEF Inv, FiredOK
<1>9. \A t \in Task : Quiet(t)
  BY <1>2, <1>3, <1>6 DEF Quiet, Claiming, Idle, Inv, Basics, SpentType
<1>10. /\ \A t \in Task : disk'[t] \in {disk[t], durable[t]} /\ durable'[t] = disk'[t]
       /\ \A t \in Task : mem'[t] = NoTask
  BY <1>1, <1>2
<1>11. \A t \in Task : Records(t)' \subseteq Records(t)
  BY <1>10 DEF Records
<1>12. Recorded'
  BY <1>9, <1>11, OldRecordsStay
<1>13. FreshStart'
  BY <1>2, <1>6 DEF FreshStart
<1>14. FilesOK' /\ UnusedIsBlank' /\ ShownIsDurable' /\ OnTime'
  BY <1>2, <1>10 DEF Inv, FilesOK, UnusedIsBlank, ShownIsDurable, OnTime
<1> QED
  BY <1>5, <1>7, <1>8, <1>12, <1>13, <1>14 DEF Inv

\* Records without the mark of an unsaved result.
LEMMA CleanRecord ==
  ASSUME NEW rec, Static(rec), NEW b \in BOOLEAN
  PROVE  LET m == [rec EXCEPT !.unsaved = b]
         IN /\ Static(m) /\ m.active = rec.active /\ m.runs = rec.runs /\ m.next = rec.next
            /\ m.sched = rec.sched /\ m.enabled = rec.enabled /\ m.unsaved = b
            /\ b = rec.unsaved => m = rec
<1>1. rec \in TaskRecord
  BY DEF Static
<1> QED
  BY <1>1 DEF Static, TaskRecord, IsOnce

\* Unsaved results are written again (retry_unsaved).
LEMMA RetryUnsavedKeeps ==
  ASSUME Inv, RetryUnsaved
  PROVE  Inv'
<1> DEFINE todo == {t \in Task : mem[t] # NoTask /\ mem[t].unsaved}
           Clean(t) == [mem[t] EXCEPT !.unsaved = FALSE]
<1>1. PICK o \in [Task -> {"saved", "unsure", "failed"}] :
        LET lossy == {t \in Task : o[t] # "saved"}
        IN /\ lossy \subseteq {t \in todo : ProjectOf[t] # NoProject}
           /\ disk' = [t \in Task |-> IF t \in todo THEN OnDisk(t, mem[t], o[t]) ELSE disk[t]]
           /\ durable' = [t \in Task |-> IF t \in todo \ lossy
                                         THEN OnDisk(t, mem[t], "saved") ELSE durable[t]]
           /\ mem' = [t \in Task |-> IF t \in todo \ lossy
                                     THEN [mem[t] EXCEPT !.unsaved = FALSE] ELSE mem[t]]
           /\ Spend("faults", Cardinality(lossy))
  BY DEF RetryUnsaved
<1> DEFINE lossy == {t \in Task : o[t] # "saved"}
<1>2. /\ ready /\ tick' = "collect"
      /\ UNCHANGED <<now, projects, ready, since, gens, pending, worker, used, fired>>
  BY DEF RetryUnsaved
<1>3. spent' \in SpentType /\ spent'.runs >= spent.runs
  <2>1. IsFiniteSet(lossy)
    BY NoneAssumption, FS_Subset
  <2>2. Cardinality(lossy) \in Nat
    BY <2>1, FS_CardinalityType
  <2> QED
    BY <1>1, <2>2, SpentSteps DEF Inv, Basics
<1>4. ASSUME NEW t \in Task, mem[t] # NoTask
      PROVE  /\ Static(mem[t]) /\ Good(t, mem[t])
             /\ Clean(t) \in TaskRecord /\ Static(Clean(t)) /\ ~ Clean(t).unsaved
             /\ Clean(t).active = mem[t].active /\ Clean(t).runs = mem[t].runs
             /\ Clean(t).next = mem[t].next /\ Clean(t).sched = mem[t].sched
             /\ Clean(t).enabled = mem[t].enabled
  <2>1. Good(t, mem[t]) /\ Static(mem[t])
    BY <1>4 DEF Inv, Recorded, Records, Good
  <2> QED
    BY <2>1, CleanRecord DEF Static
<1>5. ASSUME NEW t \in Task
      PROVE  \/ /\ mem[t] # NoTask /\ mem[t].unsaved /\ mem'[t] = Clean(t)
                /\ ProjectOf[t] # NoProject => disk'[t] = Clean(t) /\ durable'[t] = Clean(t)
                /\ ProjectOf[t] = NoProject => disk'[t] = disk[t] /\ durable'[t] = disk[t]
             \/ /\ mem[t] # NoTask /\ mem[t].unsaved /\ mem'[t] = mem[t]
                /\ ProjectOf[t] # NoProject
                /\ disk'[t] \in {Clean(t), disk[t]} /\ durable'[t] = durable[t]
             \/ mem'[t] = mem[t] /\ disk'[t] = disk[t] /\ durable'[t] = durable[t]
  <2>1. CASE t \in todo \ lossy
    BY <1>1, <2>1 DEF OnDisk
  <2>2. CASE t \in lossy
    <3>1. t \in todo /\ ProjectOf[t] # NoProject
      BY <1>1, <2>2
    <3> QED
      BY <1>1, <2>2, <3>1 DEF OnDisk
  <2>3. CASE t \notin todo
    BY <1>1, <2>3
  <2> QED
    BY <2>1, <2>2, <2>3
<1>6. /\ disk' = [t \in Task |-> disk'[t]] /\ durable' = [t \in Task |-> durable'[t]]
      /\ mem' = [t \in Task |-> mem'[t]]
  BY <1>1
<1> HIDE DEF todo, Clean, lossy
<1>7. Basics'
  <2>1. \A t \in Task : /\ disk'[t] \in TaskRecord \union {NoTask}
                       /\ durable'[t] \in TaskRecord \union {NoTask}
                       /\ mem'[t] \in TaskRecord \union {NoTask}
    BY <1>4, <1>5 DEF Inv, Basics
  <2>2. /\ disk' \in [Task -> TaskRecord \union {NoTask}]
        /\ durable' \in [Task -> TaskRecord \union {NoTask}]
        /\ mem' \in [Task -> TaskRecord \union {NoTask}]
    BY <1>6, <2>1
  <2> QED
    BY <1>2, <1>3, <2>2 DEF Inv, Basics
<1>8. WorkersOK' /\ OneExec' /\ FiredOK' /\ \A t \in Task : Quiet(t)
  <2>1. now' \in Nat /\ now' >= now
    BY <1>2 DEF Inv, Basics
  <2> QED
    BY <1>2, <1>3, <2>1, WorkersStay
<1>9. FreshStart'
  BY <1>2 DEF FreshStart
<1>10. FilesOK' /\ UnusedIsBlank'
  <2> SUFFICES ASSUME NEW t \in Task
               PROVE  /\ ProjectOf[t] = NoProject => disk'[t] = NoTask /\ durable'[t] = NoTask
                      /\ disk'[t] # NoTask => ~ disk'[t].unsaved
                      /\ durable'[t] # NoTask => ~ durable'[t].unsaved
                      /\ t \notin used => /\ disk'[t] = NoTask /\ durable'[t] = NoTask
                                         /\ mem'[t] = NoTask
    BY <1>2 DEF FilesOK, UnusedIsBlank
  <2> QED
    BY <1>4, <1>5 DEF Inv, FilesOK, UnusedIsBlank
<1>11. Recorded'
  <2> SUFFICES ASSUME NEW t \in Task, NEW r \in Records(t)'
               PROVE  Good(t, r)'
    BY DEF Recorded
  <2>1. r \in Records(t) \/ (mem[t] # NoTask /\ r = Clean(t))
    BY <1>5 DEF Records
  <2>2. CASE r \in Records(t)
    <3>1. Good(t, r)
      BY <2>2 DEF Inv, Recorded
    <3> QED
      BY <1>8, <3>1, KeepsGood DEF Inv, Good
  <2>3. CASE mem[t] # NoTask /\ r = Clean(t)
    <3>1. PICK old : old = mem[t]
      OBVIOUS
    <3>2. /\ Good(t, old) /\ Static(r) /\ r.active = old.active /\ r.runs = old.runs
          /\ r.next = old.next
      BY <1>4, <2>3, <3>1
    <3> QED
      BY <1>8, <3>2, KeepsGood DEF Inv
  <2> QED
    BY <2>1, <2>2, <2>3
<1>12. ShownIsDurable'
  <2> SUFFICES ASSUME NEW t \in Task, mem'[t] # NoTask, ~ mem'[t].unsaved,
                      ProjectOf[t] # NoProject
               PROVE  durable'[t] = mem'[t] /\ disk'[t] \in {mem'[t], NoTask}
    BY DEF ShownIsDurable
  <2> QED
    BY <1>5 DEF Inv, ShownIsDurable
<1>13. OnTime'
  <2> SUFFICES ASSUME NEW t \in Task, mem'[t] # NoTask, IsOnce(mem'[t]), mem'[t].enabled,
                      mem'[t].next # None
               PROVE  mem'[t].next > since
    BY <1>2 DEF OnTime, IsOnce
  <2>1. /\ mem[t] # NoTask /\ mem'[t].next = mem[t].next /\ mem'[t].sched = mem[t].sched
        /\ mem'[t].enabled = mem[t].enabled
    BY <1>4, <1>5
  <2> QED
    BY <2>1 DEF Inv, OnTime, IsOnce
<1> QED
  BY <1>7, <1>8, <1>9, <1>10, <1>11, <1>12, <1>13 DEF Inv

\* What start-up makes of one task: nothing, or what Recover makes of its file, with a mark (a)
\* when that could not be saved and without (b) when it was.
Restored(t, a, b) ==
    \/ mem'[t] = NoTask /\ disk'[t] = disk[t] /\ durable'[t] = disk[t]
    \/ /\ disk[t] # NoTask /\ ProjectOf[t] # NoProject
       /\ \/ mem'[t] = a /\ durable'[t] = disk[t] /\ disk'[t] \in {disk[t], b}
          \/ mem'[t] = b /\ durable'[t] = b /\ disk'[t] = b

RecoveredOK(t, m) ==
    /\ Static(m) /\ m # NoTask /\ Good(t, m)'
    /\ IsOnce(m) /\ m.enabled /\ m.next # None => m.next > now

\* Start-up settles what was interrupted or missed (initialize_locked).
LEMMA RestoreKeeps ==
  ASSUME Inv, Restore
  PROVE  Inv'
<1> DEFINE found == {t \in Task : disk[t] # NoTask /\ ProjectOf[t] \in projects}
           changed == {t \in found : Recover(disk[t]) # disk[t]}
<1>1. PICK bad \in [Task -> {"saved", "unsure", "failed"}] :
        LET lossy == {t \in Task : bad[t] # "saved"}
        IN /\ lossy \subseteq changed
           /\ mem' = [t \in Task |->
                        IF t \notin found THEN NoTask
                        ELSE [Recover(disk[t]) EXCEPT !.unsaved = t \in lossy]]
           /\ disk' = [t \in Task |->
                         IF t \in changed THEN OnDisk(t, Recover(disk[t]), bad[t])
                         ELSE disk[t]]
           /\ durable' = [t \in Task |->
                            IF t \in changed \ lossy THEN OnDisk(t, Recover(disk[t]), "saved")
                            ELSE durable[t]]
           /\ Invalidate(found)
           /\ Spend("faults", Cardinality(lossy))
  BY DEF Restore
<1> DEFINE lossy == {t \in Task : bad[t] # "saved"}
<1>2. /\ ~ ready /\ ready' = TRUE /\ since' = now
      /\ UNCHANGED <<now, projects, tick, worker, used, fired>>
  BY DEF Restore
<1>3. durable = disk /\ \A w \in Slot : worker[w] = Idle
  BY <1>2 DEF Inv, FreshStart
<1>4. spent' \in SpentType /\ spent'.runs >= spent.runs
  <2>1. IsFiniteSet(lossy)
    BY NoneAssumption, FS_Subset
  <2>2. Cardinality(lossy) \in Nat
    BY <2>1, FS_CardinalityType
  <2> QED
    BY <1>1, <2>2, SpentSteps DEF Inv, Basics
<1>5. gens' \in [Task -> Nat] /\ pending' \in [Task -> Candidate \union {NoCandidate}]
  <2>1. Invalidate(found)
    BY <1>1
  <2> HIDE DEF found
  <2> QED
    BY <2>1 DEF Invalidate, Inv, Basics
<1>6. ASSUME NEW t \in Task, NEW old, NEW r, NEW a, NEW b,
             old = disk[t], r = Recover(old), old # NoTask => [old EXCEPT !.unsaved = FALSE] = old,
             a = [r EXCEPT !.unsaved = TRUE], b = [r EXCEPT !.unsaved = FALSE]
      PROVE  Restored(t, a, b)
  <2>1. t \in found => ProjectOf[t] # NoProject /\ disk[t] # NoTask
    BY ProjectAssumption DEF Inv, Basics
  <2>2. CASE t \notin found
    BY <1>1, <1>3, <2>2 DEF Restored
  <2>3. CASE t \in lossy
    <3>1. t \in changed /\ t \in found
      BY <1>1, <2>3
    <3>2. mem'[t] = a /\ durable'[t] = durable[t] /\ disk'[t] = OnDisk(t, r, bad[t])
      BY <1>1, <1>6, <2>3, <3>1
    <3>3. OnDisk(t, r, bad[t]) \in {disk[t], b}
      BY <1>6 DEF OnDisk
    <3> QED
      BY <1>3, <2>1, <3>1, <3>2, <3>3 DEF Restored
  <2>4. CASE t \in found /\ t \notin lossy
    <3>1. mem'[t] = b /\ bad[t] = "saved"
      <4>1. mem'[t] = [r EXCEPT !.unsaved = t \in lossy]
        BY <1>1, <1>6, <2>4
      <4>2. (t \in lossy) = FALSE
        BY <2>4
      <4>3. bad[t] = "saved"
        BY <2>4
      <4> HIDE DEF lossy
      <4> QED
        BY <1>6, <4>1, <4>2, <4>3
    <3>2. CASE t \in changed
      <4>1. disk'[t] = OnDisk(t, r, "saved") /\ durable'[t] = OnDisk(t, r, "saved")
        BY <1>1, <1>6, <2>4, <3>1, <3>2
      <4>2. OnDisk(t, r, "saved") = b
        BY <1>6, <2>1, <2>4 DEF OnDisk
      <4> QED
        BY <2>1, <2>4, <3>1, <4>1, <4>2 DEF Restored
    <3>3. CASE t \notin changed
      <4>1. r = old /\ disk'[t] = old /\ durable'[t] = old
        BY <1>1, <1>3, <1>6, <2>4, <3>3
      <4>2. b = old
        BY <1>6, <2>1, <2>4, <4>1
      <4> QED
        BY <2>1, <2>4, <3>1, <4>1, <4>2 DEF Restored
    <3> QED
      BY <3>2, <3>3
  <2> QED
    BY <2>2, <2>3, <2>4
<1>7. /\ disk' = [t \in Task |-> disk'[t]] /\ durable' = [t \in Task |-> durable'[t]]
      /\ mem' = [t \in Task |-> mem'[t]]
  BY <1>1
<1> HIDE DEF found, changed, lossy
<1>8. ASSUME NEW t \in Task
      PROVE  \E a, b : /\ Restored(t, a, b)
                       /\ disk[t] # NoTask => /\ RecoveredOK(t, a) /\ RecoveredOK(t, b)
                                              /\ a.unsaved /\ ~ b.unsaved
  <2>1. PICK old, r, a, b : /\ old = disk[t] /\ r = Recover(old)
                            /\ a = [r EXCEPT !.unsaved = TRUE] /\ b = [r EXCEPT !.unsaved = FALSE]
    OBVIOUS
  <2>2. old # NoTask => /\ Good(t, old) /\ Static(old) /\ old.unsaved = FALSE /\ now \in Nat
    BY <2>1 DEF Inv, Recorded, Records, Good, FilesOK, Basics, Static, TaskRecord
  <2>3. old # NoTask => [old EXCEPT !.unsaved = FALSE] = old
    BY <2>2, CleanRecord
  <2>4. Restored(t, a, b)
    BY <1>6, <2>1, <2>3
  <2>5. ASSUME old # NoTask
        PROVE  RecoveredOK(t, a) /\ RecoveredOK(t, b) /\ a.unsaved /\ ~ b.unsaved
    <3>1. /\ Static(r) /\ ~ r.unsaved /\ r.active = NoRun
          /\ r.next # None => r.next = old.next \/ r.next > now
          /\ IsOnce(r) /\ r.enabled /\ r.next # None => r.next > now
          /\ \/ old.active = NoRun /\ r.runs = old.runs
             \/ \E add \in RunId :
                  /\ add = old.active \/ (old.active = NoRun /\ add[1] = "missed")
                  /\ r.runs = AppendResult(old, add).runs
      BY <2>1, <2>2, <2>5, RecoverFacts
    <3>2. Quiet(t) /\ \A w \in Slot : ~ (Claiming(w)' /\ worker'[w].task = t)
      BY <1>2, <1>3, <1>4 DEF Quiet, Claiming, Idle
    <3>3. ASSUME NEW u \in BOOLEAN, NEW m, m = [r EXCEPT !.unsaved = u]
          PROVE  RecoveredOK(t, m) /\ m.unsaved = u
      <4>1. /\ Static(m) /\ m.active = r.active /\ m.runs = r.runs /\ m.next = r.next
            /\ m.sched = r.sched /\ m.enabled = r.enabled /\ m.unsaved = u
        BY <3>1, <3>3, CleanRecord
      <4>2. Good(t, m)'
        BY <2>2, <2>5, <3>1, <3>2, <4>1, SettledGood DEF Inv
      <4>3. m # NoTask
        BY <4>1, NoneAssumption DEF Static
      <4> QED
        BY <3>1, <4>1, <4>2, <4>3 DEF IsOnce, RecoveredOK
    <3> QED
      BY <2>1, <3>3
  <2> QED
    BY <2>1, <2>4, <2>5
<1>9. Basics'
  <2>1. \A t \in Task : /\ disk'[t] \in TaskRecord \union {NoTask}
                       /\ durable'[t] \in TaskRecord \union {NoTask}
                       /\ mem'[t] \in TaskRecord \union {NoTask}
    BY <1>8 DEF Restored, RecoveredOK, Static, Inv, Basics
  <2>2. /\ disk' \in [Task -> TaskRecord \union {NoTask}]
        /\ durable' \in [Task -> TaskRecord \union {NoTask}]
        /\ mem' \in [Task -> TaskRecord \union {NoTask}]
    BY <1>7, <2>1
  <2>3. now' \in 1..MaxNow /\ since' \in 0..now'
    BY <1>2 DEF Inv, Basics
  <2> QED
    BY <1>2, <1>4, <1>5, <2>2, <2>3 DEF Inv, Basics
<1>10. WorkersOK' /\ OneExec' /\ FiredOK' /\ \A t \in Task : Quiet(t)
  <2>1. now' \in Nat /\ now' >= now
    BY <1>2 DEF Inv, Basics
  <2> QED
    BY <1>2, <1>4, <2>1, WorkersStay
<1>11. FreshStart'
  BY <1>2 DEF FreshStart
<1>12. FilesOK' /\ UnusedIsBlank'
  <2> SUFFICES ASSUME NEW t \in Task
               PROVE  /\ ProjectOf[t] = NoProject => disk'[t] = NoTask /\ durable'[t] = NoTask
                      /\ disk'[t] # NoTask => ~ disk'[t].unsaved
                      /\ durable'[t] # NoTask => ~ durable'[t].unsaved
                      /\ t \notin used => /\ disk'[t] = NoTask /\ durable'[t] = NoTask
                                         /\ mem'[t] = NoTask
    BY <1>2 DEF FilesOK, UnusedIsBlank
  <2>1. /\ ProjectOf[t] = NoProject => disk[t] = NoTask
        /\ disk[t] # NoTask => ~ disk[t].unsaved
        /\ t \notin used => disk[t] = NoTask
    BY DEF Inv, FilesOK, UnusedIsBlank
  <2> QED
    BY <1>8, <2>1 DEF Restored
<1>13. Recorded'
  <2> SUFFICES ASSUME NEW t \in Task, NEW r \in Records(t)'
               PROVE  Good(t, r)'
    BY DEF Recorded
  <2>1. Good(t, r)' \/ (r = disk[t] /\ disk[t] # NoTask)
    BY <1>8 DEF Records, Restored, RecoveredOK
  <2>2. CASE r = disk[t] /\ disk[t] # NoTask
    <3>1. Good(t, r)
      BY <2>2 DEF Inv, Recorded, Records
    <3> QED
      BY <1>10, <3>1, KeepsGood DEF Inv, Good
  <2> QED
    BY <2>1, <2>2
<1>14. ShownIsDurable'
  <2> SUFFICES ASSUME NEW t \in Task, mem'[t] # NoTask, ~ mem'[t].unsaved,
                      ProjectOf[t] # NoProject
               PROVE  durable'[t] = mem'[t] /\ disk'[t] \in {mem'[t], NoTask}
    BY DEF ShownIsDurable
  <2> QED
    BY <1>8 DEF Restored
<1>15. OnTime'
  <2> SUFFICES ASSUME NEW t \in Task, mem'[t] # NoTask, IsOnce(mem'[t]), mem'[t].enabled,
                      mem'[t].next # None
               PROVE  mem'[t].next > now
    BY <1>2 DEF OnTime, IsOnce
  <2> QED
    BY <1>8 DEF Restored, RecoveredOK
<1> QED
  BY <1>9, <1>10, <1>11, <1>12, <1>13, <1>14, <1>15 DEF Inv

WorkerState ==
    [at : {"free", "waiting", "releasing"} \union HasExecLock, task : Task \union {NoTask},
     cand : Candidate \union {NoCandidate}, run : RunId \union {NoRun}]

\* A claim, of the schedule or by hand, by the only worker that has the execution lock.
LEMMA ClaimKeeps ==
  ASSUME Inv, ready, NEW t \in Task, NEW w \in Slot, NEW scheduled \in BOOLEAN,
         NEW o \in {"saved", "unsure", "failed"}, ProjectOf[t] = NoProject => o = "saved",
         Runnable(t), Claim(t, NewRun, scheduled, o),
         UNCHANGED <<now, projects, ready, since, tick, used, fired>>,
         pending' \in [Task -> Candidate \union {NoCandidate}],
         spent' \in SpentType, spent'.runs = spent.runs + 1,
         worker' \in [Slot -> WorkerState], ~ Claiming(w),
         \A v \in Slot \ {w} : worker'[v] = worker[v] /\ worker[v].at \notin HasExecLock,
         o # "saved" => /\ ~ Claiming(w)' /\ worker'[w].at \notin {"waiting", "locked"}
                        /\ worker'[w].at # "free" => worker'[w].task \in Task,
         o = "saved" => /\ worker'[w].at = "claimed" /\ worker'[w].task = t
                        /\ worker'[w].run = NewRun
                        /\ worker'[w].cand # NoCandidate =>
                             /\ scheduled /\ worker'[w].cand.due = mem[t].next
                             /\ worker'[w].cand.due # None /\ worker'[w].cand.due <= now
  PROVE  Inv'
<1> DEFINE rc == Claimed(t, NewRun, scheduled)
           sh == IF o = "saved" THEN rc
                 ELSE IF o = "unsure" THEN [mem[t] EXCEPT !.unsaved = TRUE] ELSE mem[t]
<1>1. PICK old : old = mem[t] /\ old # NoTask /\ old.active = NoRun /\ ~ old.unsaved
  BY DEF Runnable
<1>2. /\ Good(t, old) /\ Static(old) /\ old \in TaskRecord /\ old.sched \in Schedule
      /\ old.next \in Nat /\ now \in Nat /\ since \in Nat /\ since <= now
      /\ spent.runs \in Nat /\ t \in used /\ old.unsaved = FALSE
  <2>1. Good(t, old) /\ Static(old)
    BY <1>1 DEF Inv, Recorded, Records, Good
  <2>2. t \in used
    BY <1>1 DEF Inv, UnusedIsBlank
  <2>3. now \in Nat /\ since \in Nat /\ since <= now /\ spent.runs \in Nat
    BY DEF Inv, Basics, SpentType
  <2> QED
    BY <1>1, <2>1, <2>2, <2>3 DEF Static, TaskRecord, Schedule
<1>3. PICK next \in Nat : /\ next = (IF scheduled THEN NextAfter(old.sched, now) ELSE old.next)
                          /\ scheduled /\ next # None => next > now
                          /\ ~ scheduled => next = old.next
  BY <1>2, NextAfterType
<1>4. /\ NewRun \in RunId /\ NewRun # NoRun /\ NewRun[1] = "run" /\ NewRun[2] = spent.runs + 1
  BY <1>2 DEF NewRun, RunId, NoRun
<1>5. PICK run : run = NewRun
  OBVIOUS
<1>6. PICK rec : /\ rec = rc /\ rec \in TaskRecord /\ rec.active = run /\ rec.next = next
                 /\ rec.runs = old.runs /\ rec.sched = old.sched /\ rec.enabled = old.enabled
                 /\ rec.unsaved = FALSE
  <2>1. rc = [old EXCEPT !.active = run, !.next = next]
    BY <1>1, <1>3, <1>5 DEF Claimed
  <2>2. next \in Nat /\ run \in RunId /\ old \in TaskRecord /\ old.unsaved = FALSE
    BY <1>2, <1>3, <1>4, <1>5
  <2> HIDE DEF rc
  <2>3. rc = [sched |-> old.sched, next |-> next, enabled |-> old.enabled, runs |-> old.runs,
              active |-> run, unsaved |-> FALSE]
    BY <2>1, <2>2 DEF TaskRecord
  <2>4. /\ rc \in TaskRecord /\ rc.active = run /\ rc.next = next /\ rc.runs = old.runs
        /\ rc.sched = old.sched /\ rc.enabled = old.enabled /\ rc.unsaved = FALSE
    BY <2>2, <2>3 DEF TaskRecord
  <2> QED
    BY <2>4
<1>7. Static(rec) /\ [rec EXCEPT !.unsaved = FALSE] = rec
  <2>1. Static(rec)
    BY <1>2, <1>4, <1>5, <1>6 DEF Static
  <2> QED
    BY <1>6, <2>1, CleanRecord
<1>8. PICK m : m = sh
  OBVIOUS
<1>9. /\ o = "saved" => m = rec
      /\ o = "unsure" => m = [old EXCEPT !.unsaved = TRUE]
      /\ o = "failed" => m = old
  BY <1>1, <1>6, <1>8
<1>10. o # "saved" => /\ Static(m) /\ m.active = old.active /\ m.runs = old.runs
                      /\ m.next = old.next /\ m.sched = old.sched /\ m.enabled = old.enabled
                      /\ o = "unsure" => m.unsaved
  <2>1. o = "unsure" => /\ Static(m) /\ m.active = old.active /\ m.runs = old.runs
                        /\ m.next = old.next /\ m.sched = old.sched /\ m.enabled = old.enabled
                        /\ m.unsaved = TRUE
    <3>1. PICK n : /\ n = [old EXCEPT !.unsaved = TRUE] /\ Static(n) /\ n.active = old.active
                   /\ n.runs = old.runs /\ n.next = old.next /\ n.sched = old.sched
                   /\ n.enabled = old.enabled /\ n.unsaved = TRUE
      BY <1>2, CleanRecord
    <3> QED
      BY <1>9, <3>1
  <2>2. CASE o = "unsure"
    BY <2>1, <2>2
  <2>3. CASE o = "failed"
    BY <1>2, <1>9, <2>3
  <2> QED
    BY <2>2, <2>3
<1>11. m \in TaskRecord /\ m # NoTask /\ Shown(t, rec, o, m)
  BY <1>1, <1>6, <1>9, <1>10, NoneAssumption DEF Shown, Static
<1>12. mem' = [mem EXCEPT ![t] = m] /\ gens' = gens /\ Persist(t, rec, o)
  BY <1>1, <1>6, <1>8 DEF Claim, ClaimHolds
<1> HIDE DEF rc, sh
<1>13. Stored(t, rec, o, m)
  <2>1. Basics /\ FilesOK /\ ShownIsDurable
    BY DEF Inv
  <2>2. PICK clean : clean = [rec EXCEPT !.unsaved = FALSE]
    OBVIOUS
  <2>3. Persist(t, rec, o) /\ mem' = [mem EXCEPT ![t] = m]
    BY <1>12
  <2>4. Shown(t, clean, o, m) /\ rec \in TaskRecord /\ m \in TaskRecord \union {NoTask}
    BY <1>6, <1>7, <1>11, <2>2
  <2>5. Stored(t, clean, o, m)
    BY <2>1, <2>2, <2>3, <2>4, StoreKeeps
  <2> QED
    BY <1>7, <2>2, <2>5
<1>14. Basics'
  BY <1>12, <1>13 DEF Stored, Inv, Basics, WorkerState
<1>15. \A v \in Slot : Claiming(v)' => v = w /\ o = "saved"
  BY DEF Claiming, HasExecLock
<1>16. \A f \in fired : f.task = t /\ old.next # None => f.due < old.next
  <2>1. Later(t, old)
    BY <1>2 DEF Good
  <2> QED
    BY <1>2, <2>1 DEF Later, Inv, Basics
<1>17. WorkersOK'
  <2> SUFFICES ASSUME NEW v \in Slot
               PROVE  WorkerOK(v)'
    BY DEF WorkersOK
  <2>1. WorkerOK(v)
    BY DEF Inv, WorkersOK
  <2>2. CASE v # w
    <3>1. ~ Claiming(v) /\ worker[v].at # "claimed"
      BY <2>2 DEF Claiming, HasExecLock
    <3> QED
      BY <2>1, <2>2, <3>1 DEF WorkerOK, Claiming
  <2>3. CASE v = w /\ o # "saved"
    BY <2>3 DEF WorkerOK, Claiming
  <2>4. CASE v = w /\ o = "saved"
    <3>1. run[1] = "run" /\ run[2] \in 1..spent'.runs
      BY <1>2, <1>4, <1>5
    <3> QED
      BY <1>1, <1>2, <1>5, <1>16, <2>4, <3>1 DEF WorkerOK, Claiming
  <2> QED
    BY <2>2, <2>3, <2>4
<1>18. OneExec'
  <2>1. \A v \in Slot : worker'[v].at \in HasExecLock => v = w
    OBVIOUS
  <2> QED
    BY <2>1 DEF OneExec, HasExecLock
<1>19. FiredOK'
  BY <1>2 DEF Inv, FiredOK
<1>20. ASSUME NEW u \in Task, u # t \/ o # "saved"
       PROVE  Quiet(u)
  <2>1. spent'.runs >= spent.runs
    BY <1>2
  <2>2. \A v \in Slot : ~ (Claiming(v)' /\ worker'[v].task = u)
    BY <1>15, <1>20
  <2> QED
    BY <2>1, <2>2 DEF Quiet
<1>21. Good(t, rec)'
  <2>1. rec.next # None => rec.next = old.next \/ rec.next > now
    BY <1>3, <1>6
  <2>2. ASSUME NEW v \in Slot, Claiming(v)', worker'[v].task = t
        PROVE  /\ worker'[v].run = NewRun
               /\ worker'[v].cand # NoCandidate /\ rec.next # None
                     => rec.next > worker'[v].cand.due
    <3>1. v = w /\ o = "saved"
      BY <1>15, <2>2
    <3>2. worker'[v].cand # NoCandidate =>
             /\ scheduled /\ worker'[v].cand.due <= now /\ worker'[v].cand.due = old.next
      BY <1>1, <3>1
    <3> QED
      BY <1>2, <1>3, <1>6, <3>1, <3>2
  <2>3. rec.active = NewRun /\ rec.runs = old.runs
    BY <1>5, <1>6
  <2>4. Basics /\ FiredOK /\ fired' = fired
    BY DEF Inv
  <2> QED
    BY <1>1, <1>2, <1>7, <2>1, <2>2, <2>3, <2>4, ClaimedGood
<1>22. Recorded'
  <2> SUFFICES ASSUME NEW u \in Task, NEW r \in Records(u)'
               PROVE  Good(u, r)'
    BY DEF Recorded
  <2>1. CASE r \in Records(u) /\ (u # t \/ o # "saved")
    <3>1. Good(u, r) /\ Quiet(u)
      BY <1>20, <2>1 DEF Inv, Recorded
    <3> QED
      BY <3>1, KeepsGood DEF Inv, Good
  <2>2. CASE u = t /\ r = rec
    BY <1>21, <2>2
  <2>3. CASE u = t /\ r = m /\ o # "saved"
    <3>1. Quiet(t)
      BY <1>20, <2>3
    <3> QED
      BY <1>2, <1>10, <2>3, <3>1, KeepsGood DEF Inv
  <2> QED
    BY <1>9, <1>13, <2>1, <2>2, <2>3 DEF Stored
<1>23. FreshStart'
  BY DEF FreshStart
<1>24. UnusedIsBlank'
  BY <1>2, <1>13 DEF Stored, Inv, UnusedIsBlank
<1>25. OnTime'
  <2> SUFFICES ASSUME NEW u \in Task, mem'[u] # NoTask, IsOnce(mem'[u]), mem'[u].enabled,
                      mem'[u].next # None
               PROVE  mem'[u].next > since
    BY DEF OnTime, IsOnce
  <2>1. CASE u # t
    BY <1>13, <2>1 DEF Stored, Inv, OnTime
  <2>2. CASE u = t
    <3>1. mem'[u] = m /\ (IsOnce(old) /\ old.enabled /\ old.next # None => old.next > since)
      BY <1>1, <1>13, <2>2 DEF Stored, Inv, OnTime
    <3>2. IsOnce(m) = IsOnce(old) /\ m.enabled = old.enabled
      BY <1>6, <1>9, <1>10 DEF IsOnce
    <3>3. m.next # None => m.next = old.next \/ m.next > now
      BY <1>3, <1>6, <1>9, <1>10
    <3>4. m.next \in Nat
      BY <1>11 DEF TaskRecord
    <3> QED
      BY <1>2, <3>1, <3>2, <3>3, <3>4
  <2> QED
    BY <2>1, <2>2
<1> QED
  BY <1>13, <1>14, <1>17, <1>18, <1>19, <1>22, <1>23, <1>24, <1>25 DEF Inv, Stored

\* A worker claims its candidate (claim_locked), the reservation is released.
LEMMA ClaimScheduledKeeps ==
  ASSUME Inv, NEW w \in Slot, ClaimScheduled(w)
  PROVE  Inv'
<1> DEFINE t == worker[w].task
           c == worker[w].cand
<1>1. PICK o \in {"saved", "unsure", "failed"} :
        /\ ProjectOf[t] = NoProject => o = "saved"
        /\ Claim(t, NewRun, TRUE, o)
        /\ worker' = [worker EXCEPT ![w].at = IF ClaimHolds(o) THEN "claimed" ELSE "releasing",
                                   ![w].run = IF ClaimHolds(o) THEN NewRun ELSE NoRun]
        /\ spent' = [spent EXCEPT !.faults = @ + FaultOf(o), !.runs = @ + 1]
  BY DEF ClaimScheduled, Outcomes
<1>2. /\ worker[w].at = "locked" /\ Authorised(w) /\ ReleaseCandidate(w)
      /\ UNCHANGED <<now, projects, ready, since, tick, used, fired>>
  BY DEF ClaimScheduled
<1>3. t \in Task /\ c \in Candidate /\ c.due # None
  BY <1>2 DEF Inv, WorkersOK, WorkerOK
<1>4. Runnable(t) /\ mem[t].next = c.due /\ c.due <= now
  BY <1>2 DEF Authorised
<1>5. ready
  BY <1>2 DEF Inv, FreshStart, Idle
<1>6. pending' \in [Task -> Candidate \union {NoCandidate}]
  BY <1>2 DEF ReleaseCandidate, Inv, Basics
<1>7. spent' \in SpentType /\ spent'.runs = spent.runs + 1
  <2>1. FaultOf(o) \in Nat /\ spent \in SpentType
    BY DEF FaultOf, Inv, Basics
  <2>2. spent' = [runs |-> spent.runs + 1, edits |-> spent.edits,
                  faults |-> spent.faults + FaultOf(o), crashes |-> spent.crashes,
                  manual |-> spent.manual]
    BY <1>1, <2>1 DEF SpentType
  <2> QED
    BY <2>1, <2>2 DEF SpentType
<1>8. NewRun \in RunId
  BY DEF NewRun, RunId, Inv, Basics, SpentType
<1>9. PICK at, run : /\ at = (IF o = "saved" THEN "claimed" ELSE "releasing")
                     /\ run = (IF o = "saved" THEN NewRun ELSE NoRun)
  OBVIOUS
<1>10. worker \in [Slot -> WorkerState]
  BY DEF Inv, Basics, WorkerState
<1>11. worker' = [worker EXCEPT ![w] = [at |-> at, task |-> t, cand |-> c, run |-> run]]
  <2>1. worker' = [worker EXCEPT ![w].at = at, ![w].run = run]
    BY <1>1, <1>9 DEF ClaimHolds
  <2>2. worker[w] = [at |-> worker[w].at, task |-> t, cand |-> c, run |-> worker[w].run]
    BY <1>10 DEF WorkerState
  <2>3. PICK one : one = [worker EXCEPT ![w].at = at]
    OBVIOUS
  <2>4. /\ one[w] = [at |-> at, task |-> t, cand |-> c, run |-> worker[w].run]
        /\ DOMAIN one = Slot /\ \A v \in Slot \ {w} : one[v] = worker[v]
        /\ one = [v \in Slot |-> one[v]]
    BY <1>10, <2>2, <2>3
  <2>5. worker' = [one EXCEPT ![w].run = run]
    BY <2>1, <2>3
  <2>6. /\ worker'[w] = [at |-> at, task |-> t, cand |-> c, run |-> run]
        /\ DOMAIN worker' = Slot /\ \A v \in Slot \ {w} : worker'[v] = worker[v]
        /\ worker' = [v \in Slot |-> worker'[v]]
    BY <2>4, <2>5
  <2> HIDE DEF t, c
  <2> QED
    BY <1>10, <2>6
<1>12. [at |-> at, task |-> t, cand |-> c, run |-> run] \in WorkerState
  BY <1>3, <1>8, <1>9 DEF WorkerState, HasExecLock
<1>13. worker' \in [Slot -> WorkerState]
  BY <1>10, <1>11, <1>12
<1>14. /\ \A v \in Slot \ {w} : worker'[v] = worker[v]
       /\ worker'[w].at = at /\ worker'[w].task = t /\ worker'[w].cand = c
       /\ worker'[w].run = run
  BY <1>10, <1>11
<1>15. \A v \in Slot \ {w} : worker[v].at \notin HasExecLock
  BY <1>2 DEF Inv, OneExec, HasExecLock
<1>16. ~ Claiming(w)
  BY <1>2 DEF Claiming
<1>17. PICK tk : tk = t
  OBVIOUS
<1>18. tk \in Task /\ Runnable(tk) /\ Claim(tk, NewRun, TRUE, o)
       /\ (ProjectOf[tk] = NoProject => o = "saved")
  BY <1>1, <1>3, <1>4, <1>17
<1>19. o # "saved" => /\ ~ Claiming(w)' /\ worker'[w].at \notin {"waiting", "locked"}
                      /\ worker'[w].at # "free" => worker'[w].task \in Task
  BY <1>3, <1>9, <1>14 DEF Claiming
<1>20. o = "saved" => /\ worker'[w].at = "claimed" /\ worker'[w].task = tk
                      /\ worker'[w].run = NewRun
                      /\ worker'[w].cand # NoCandidate =>
                           /\ TRUE /\ worker'[w].cand.due = mem[tk].next
                           /\ worker'[w].cand.due # None /\ worker'[w].cand.due <= now
  BY <1>3, <1>4, <1>9, <1>14, <1>17
<1> HIDE DEF t, c
<1> QED
  BY <1>2, <1>5, <1>6, <1>7, <1>13, <1>14, <1>15, <1>16, <1>18, <1>19, <1>20, ClaimKeeps

\* A manual run is claimed (trigger_now).
LEMMA TriggerNowKeeps ==
  ASSUME Inv, NEW t \in Task, TriggerNow(t)
  PROVE  Inv'
<1>1. PICK w \in Slot, o \in {"saved", "unsure", "failed"} :
        /\ ProjectOf[t] = NoProject => o = "saved"
        /\ worker[w].at = "free"
        /\ Claim(t, NewRun, FALSE, o)
        /\ worker' = IF ClaimHolds(o)
                     THEN [worker EXCEPT ![w] = [at |-> "claimed", task |-> t,
                                                 cand |-> NoCandidate, run |-> NewRun]]
                     ELSE worker
        /\ spent' = [spent EXCEPT !.faults = @ + FaultOf(o), !.runs = @ + 1, !.manual = @ + 1]
  BY ZenonT(30) DEF TriggerNow, Outcomes
<1>2. /\ ready /\ ExecLockFree /\ Runnable(t)
      /\ UNCHANGED <<now, projects, ready, since, pending, tick, used, fired>>
  BY DEF TriggerNow
<1>3. pending' \in [Task -> Candidate \union {NoCandidate}]
  BY <1>2 DEF Inv, Basics
<1>4. spent' \in SpentType /\ spent'.runs = spent.runs + 1
  <2>1. FaultOf(o) \in Nat /\ spent \in SpentType
    BY DEF FaultOf, Inv, Basics
  <2>2. spent' = [runs |-> spent.runs + 1, edits |-> spent.edits,
                  faults |-> spent.faults + FaultOf(o), crashes |-> spent.crashes,
                  manual |-> spent.manual + 1]
    BY <1>1, <2>1 DEF SpentType
  <2> QED
    BY <2>1, <2>2 DEF SpentType
<1>5. worker \in [Slot -> WorkerState]
  BY DEF Inv, Basics, WorkerState
<1>6. PICK new : new = [at |-> "claimed", task |-> t, cand |-> NoCandidate, run |-> NewRun]
  OBVIOUS
<1>7. NewRun \in RunId
  BY DEF NewRun, RunId, Inv, Basics, SpentType
<1>8. new \in WorkerState
  BY <1>6, <1>7 DEF WorkerState, HasExecLock
<1>9. worker' = IF o = "saved" THEN [worker EXCEPT ![w] = new] ELSE worker
  BY <1>1, <1>6 DEF ClaimHolds
<1>10. /\ worker' \in [Slot -> WorkerState]
       /\ \A v \in Slot \ {w} : worker'[v] = worker[v]
       /\ worker'[w] = IF o = "saved" THEN new ELSE worker[w]
  BY <1>5, <1>8, <1>9
<1>11. /\ \A v \in Slot \ {w} : worker[v].at \notin HasExecLock
       /\ ~ Claiming(w)
  BY <1>1, <1>2 DEF ExecLockFree, Claiming
<1>12. o # "saved" => /\ ~ Claiming(w)' /\ worker'[w].at \notin {"waiting", "locked"}
                      /\ worker'[w].at # "free" => worker'[w].task \in Task
  BY <1>1, <1>10 DEF Claiming
<1>13. o = "saved" => /\ worker'[w].at = "claimed" /\ worker'[w].task = t
                      /\ worker'[w].run = NewRun
                      /\ worker'[w].cand # NoCandidate =>
                           /\ FALSE /\ worker'[w].cand.due = mem[t].next
                           /\ worker'[w].cand.due # None /\ worker'[w].cand.due <= now
  BY <1>6, <1>10
<1> QED
  BY <1>1, <1>2, <1>3, <1>4, <1>10, <1>11, <1>12, <1>13, ClaimKeeps

\* The result of a run goes into the record that still carries it (finish_run).
LEMMA FinishRunKeeps ==
  ASSUME Inv, NEW w \in Slot, FinishRun(w)
  PROVE  Inv'
<1>1. PICK t, run, new :
        /\ t = worker[w].task /\ run = worker[w].run /\ t \in Task
        /\ worker' = [worker EXCEPT ![w] = new]
        /\ new = Idle \/ new = [worker[w] EXCEPT !.at = "releasing"]
        /\ worker[w].at \in {"claimed", "running"}
        /\ UNCHANGED <<now, projects, ready, since, gens, pending, tick, used, fired>>
  <2>1. worker[w].task \in Task
    BY DEF FinishRun, Inv, WorkersOK, WorkerOK
  <2>2. worker \in [Slot -> WorkerState]
    BY DEF Inv, Basics, WorkerState
  <2> QED
    BY <2>1, <2>2 DEF FinishRun, EndRun
<1>2. worker \in [Slot -> WorkerState] /\ new \in WorkerState
  BY <1>1 DEF Inv, Basics, WorkerState, Idle
<1>3. /\ \A v \in Slot \ {w} : worker'[v] = worker[v]
      /\ worker'[w].at \in {"free", "releasing"}
      /\ worker'[w].at # "free" => worker'[w].task = t
      /\ worker' \in [Slot -> WorkerState]
  BY <1>1, <1>2 DEF Idle, WorkerState
<1>4. ready
  BY <1>1 DEF Inv, FreshStart, Idle
<1>5. \A v \in Slot : ~ Claiming(v)'
  BY <1>1, <1>3 DEF Inv, OneExec, Claiming, HasExecLock
<1>6. CASE mem[t] = NoTask \/ mem[t].active # run
  <2>1. UNCHANGED <<disk, durable, mem, spent>>
    BY <1>1, <1>6 DEF FinishRun
  <2>2. Basics'
    BY <1>1, <1>3, <2>1 DEF Inv, Basics, WorkerState
  <2>3. WorkersOK' /\ OneExec' /\ FiredOK' /\ \A u \in Task : Quiet(u)
    <3>1. \A v \in Slot :
             \/ worker'[v] = worker[v]
             \/ /\ ~ Claiming(v)'
                /\ worker'[v].at # "free" => worker'[v].task \in Task
                /\ worker'[v].at \in {"waiting", "locked"} =>
                      worker'[v].cand \in Candidate /\ worker'[v].cand.due # None
      BY <1>1, <1>3, <1>5
    <3>2. \A v \in Slot : worker'[v].at \in HasExecLock => worker[v].at \in HasExecLock
      BY <1>3 DEF HasExecLock
    <3> QED
      BY <1>1, <2>1, <3>1, <3>2, WorkersMove
  <2>4. FilesOK' /\ ShownIsDurable' /\ UnusedIsBlank' /\ OnTime' /\ Recorded'
    BY <1>1, <2>1, <2>3, StoreStays, OldRecordsStay
  <2>5. FreshStart'
    BY <1>1, <1>4 DEF FreshStart
  <2> QED
    BY <2>2, <2>3, <2>4, <2>5 DEF Inv
<1>7. CASE mem[t] # NoTask /\ mem[t].active = run
  <2>1. PICK old : old = mem[t] /\ old # NoTask /\ old.active = run
    BY <1>7
  <2>2. Good(t, old) /\ Static(old) /\ old \in TaskRecord /\ t \in used
    <3>1. Good(t, old) /\ Static(old)
      BY <1>1, <2>1 DEF Inv, Recorded, Records, Good
    <3>2. t \in used
      BY <1>1, <2>1 DEF Inv, UnusedIsBlank
    <3> QED
      BY <3>1, <3>2 DEF Static
  <2>3. run \in RunId
    <3>1. run[1] = "run" /\ run[2] \in 1..spent.runs
      BY <1>1 DEF Inv, WorkersOK, WorkerOK, Claiming
    <3>2. run \in RunId \union {NoRun}
      BY <1>1, <1>2 DEF WorkerState
    <3> QED
      BY <3>1, <3>2 DEF NoRun
  <2>4. PICK app : /\ app = AppendResult(old, run) /\ app \in TaskRecord
                   /\ Len(app.runs) <= MaxTaskRuns /\ app.runs # <<>>
                   /\ app.sched = old.sched /\ app.next = old.next
                   /\ app.enabled = old.enabled
    BY <2>2, <2>3, AppendType DEF Static
  <2>5. PICK done : done = [app EXCEPT !.active = NoRun]
    OBVIOUS
  <2>6. /\ done \in TaskRecord /\ done.active = NoRun /\ done.runs = app.runs
        /\ done.sched = old.sched /\ done.next = old.next /\ done.enabled = old.enabled
    BY <2>4, <2>5 DEF TaskRecord
  <2>7. Static(done)
    BY <2>4, <2>6 DEF Static
  <2>8. PICK o \in {"saved", "unsure", "failed"} :
          /\ ProjectOf[t] = NoProject => o = "saved"
          /\ Persist(t, done, o)
          /\ Publish(t, [done EXCEPT !.unsaved = o # "saved"])
          /\ Spend("faults", FaultOf(o))
    <3>1. \E o \in Outcomes(t) :
            /\ Persist(t, done, o)
            /\ Publish(t, [done EXCEPT !.unsaved = o # "saved"])
            /\ Spend("faults", FaultOf(o))
      BY <1>1, <1>7, <2>1, <2>4, <2>5 DEF FinishRun
    <3> QED
      BY <3>1 DEF Outcomes
  <2>9. PICK b, clean, m :
          /\ b \in BOOLEAN /\ b = (o # "saved") /\ clean = [done EXCEPT !.unsaved = FALSE]
          /\ m = [done EXCEPT !.unsaved = b]
    OBVIOUS
  <2>10. \A r \in {clean, m} :
           /\ Static(r) /\ r.active = NoRun /\ r.runs = app.runs /\ r.next = old.next
           /\ r.sched = old.sched /\ r.enabled = old.enabled /\ r \in TaskRecord
           /\ r # NoTask
    <3>1. ASSUME NEW k \in BOOLEAN, NEW r, r = [done EXCEPT !.unsaved = k]
          PROVE  /\ Static(r) /\ r.active = NoRun /\ r.runs = app.runs /\ r.next = old.next
                 /\ r.sched = old.sched /\ r.enabled = old.enabled
      BY <2>6, <2>7, <3>1, CleanRecord
    <3>2. \A r : Static(r) => r \in TaskRecord /\ r # NoTask
      BY NoneAssumption DEF Static
    <3> QED
      BY <2>9, <3>1, <3>2
  <2>11. Shown(t, clean, o, m)
    <3>1. o # "saved" => m.unsaved
      <4>1. m.unsaved = b
        BY <2>6, <2>9 DEF TaskRecord
      <4> QED
        BY <2>9, <4>1
    <3>2. o = "saved" => m = clean
      BY <2>9
    <3> QED
      BY <2>10, <3>1, <3>2 DEF Shown
  <2>12. Stored(t, clean, o, m)
    <3>1. Basics /\ FilesOK /\ ShownIsDurable /\ t \in Task
      BY <1>1 DEF Inv
    <3>2. mem' = [mem EXCEPT ![t] = m]
      BY <2>8, <2>9 DEF Publish
    <3>3. m \in TaskRecord \union {NoTask} /\ clean = [done EXCEPT !.unsaved = FALSE]
      BY <2>9, <2>10
    <3>4. Persist(t, done, o) /\ (ProjectOf[t] = NoProject => o = "saved")
      BY <2>8
    <3> QED
      BY <2>6, <2>11, <3>1, <3>2, <3>3, <3>4, StoreKeeps
  <2>13. spent' \in SpentType /\ spent'.runs = spent.runs
    <3>1. FaultOf(o) \in Nat /\ spent \in SpentType
      BY DEF FaultOf, Inv, Basics
    <3> QED
      BY <2>8, <3>1 DEF Spend, SpentType
  <2>14. Basics'
    BY <1>1, <1>3, <2>12, <2>13 DEF Stored, Inv, Basics, WorkerState
  <2>15. WorkersOK'
    <3> SUFFICES ASSUME NEW v \in Slot
                 PROVE  WorkerOK(v)'
      BY DEF WorkersOK
    <3>1. WorkerOK(v) /\ ~ Claiming(v)'
      BY <1>5 DEF Inv, WorkersOK
    <3> QED
      BY <1>1, <1>3, <3>1 DEF WorkerOK, Claiming
  <2>16. OneExec'
    BY <1>3 DEF Inv, OneExec, HasExecLock
  <2>17. FiredOK'
    BY <1>1, <2>13 DEF Inv, FiredOK
  <2>18. \A u \in Task : Quiet(u)
    BY <1>1, <1>5, <2>13 DEF Quiet, Inv, Basics, SpentType
  <2>19. Recorded'
    <3> SUFFICES ASSUME NEW u \in Task, NEW r \in Records(u)'
                 PROVE  Good(u, r)'
      BY DEF Recorded
    <3>1. CASE r \in Records(u)
      <4>1. Good(u, r)
        BY <3>1 DEF Inv, Recorded
      <4> QED
        BY <2>18, <4>1, KeepsGood DEF Inv, Good
    <3>2. CASE u = t /\ r \in {clean, m}
      <4>1. Static(r) /\ r.active = NoRun /\ r.next = old.next
        BY <2>10, <3>2
      <4>2. run = old.active /\ r.runs = AppendResult(old, run).runs
        BY <2>1, <2>4, <2>10, <3>2
      <4>3. \A v \in Slot : ~ (Claiming(v)' /\ worker'[v].task = t)
        BY <1>5
      <4> QED
        BY <1>1, <2>2, <2>3, <2>18, <3>2, <4>1, <4>2, <4>3, SettledGood DEF Inv
    <3> QED
      BY <2>12, <3>1, <3>2 DEF Stored
  <2>20. FreshStart'
    BY <1>1, <1>4 DEF FreshStart
  <2>21. UnusedIsBlank'
    BY <1>1, <2>2, <2>12 DEF Stored, Inv, UnusedIsBlank
  <2>22. OnTime'
    <3> SUFFICES ASSUME NEW u \in Task, mem'[u] # NoTask, IsOnce(mem'[u]), mem'[u].enabled,
                        mem'[u].next # None
                 PROVE  mem'[u].next > since
      BY <1>1 DEF OnTime, IsOnce
    <3>1. CASE u # t
      BY <2>12, <3>1 DEF Stored, Inv, OnTime
    <3>2. CASE u = t
      <4>1. mem'[u] = m
        BY <2>12, <3>2 DEF Stored
      <4> QED
        BY <2>1, <2>10, <3>2, <4>1 DEF Inv, OnTime, IsOnce
    <3> QED
      BY <3>1, <3>2
  <2> QED
    BY <2>12, <2>14, <2>15, <2>16, <2>17, <2>19, <2>20, <2>21, <2>22 DEF Inv, Stored
<1> QED
  BY <1>6, <1>7

\* What holds of a task in memory.
LEMMA InMemory ==
  ASSUME Inv, NEW t \in Task, mem[t] # NoTask
  PROVE  /\ Static(mem[t]) /\ mem[t] \in TaskRecord /\ mem[t].sched \in Schedule /\ t \in used
         /\ used = used \union {t} /\ now \in Nat /\ since \in Nat /\ since <= now
         /\ IsOnce(mem[t]) /\ mem[t].enabled /\ mem[t].next # None => mem[t].next > since
<1>1. Static(mem[t])
  BY DEF Inv, Recorded, Records, Good
<1>2. t \in used
  BY DEF Inv, UnusedIsBlank
<1>3. mem[t] \in TaskRecord
  BY <1>1 DEF Static
<1>4. mem[t].sched \in Schedule
  BY <1>3 DEF TaskRecord, Schedule
<1>5. now \in Nat /\ since \in Nat /\ since <= now
  BY DEF Inv, Basics
<1>6. IsOnce(mem[t]) /\ mem[t].enabled /\ mem[t].next # None => mem[t].next > since
  BY DEF Inv, OnTime
<1> QED
  BY <1>1, <1>2, <1>3, <1>4, <1>5, <1>6

\* A task is created (upsert).
LEMMA CreateKeeps ==
  ASSUME Inv, NEW t \in Task, NEW s \in Schedules, Create(t, s)
  PROVE  Inv'
<1>1. s \in Schedule /\ now \in Nat /\ since \in Nat /\ since <= now
  BY ScheduleAssumption DEF Schedule, Inv, Basics
<1>2. PICK next \in Nat : next = NextAfter(s, now) /\ next # None /\ next > now
  BY <1>1, NextAfterType DEF Create
<1>3. PICK rec : rec = [sched |-> s, next |-> next, enabled |-> TRUE, runs |-> <<>>,
                        active |-> NoRun, unsaved |-> FALSE]
  OBVIOUS
<1>4. rec \in TaskRecord /\ Len(rec.runs) = 0 /\ rec.next # None
  BY <1>1, <1>2, <1>3 DEF TaskRecord, Schedule
<1>5. Static(rec)
  BY <1>4, RunsAssumption DEF Static
<1>6. /\ ready /\ t \notin used /\ CommitEdit(t, rec)
      /\ used' = used \union {t}
      /\ UNCHANGED <<now, projects, ready, since, tick, worker, fired>>
  BY <1>2, <1>3 DEF Create
<1>7. rec.active = NoRun /\ rec.runs = <<>> /\ rec.next > since
  BY <1>1, <1>2, <1>3
<1> QED
  BY <1>5, <1>6, <1>7, EditStep

\* A task is edited: renamed or timed afresh (update).
LEMMA UpdateKeeps ==
  ASSUME Inv, NEW t \in Task, NEW s \in Schedules, Update(t, s)
  PROVE  Inv'
<1>1. /\ ready /\ mem[t] # NoTask
      /\ UNCHANGED <<now, projects, ready, since, tick, worker, used, fired>>
  BY DEF Update
<1>2. PICK old : old = mem[t]
  OBVIOUS
<1>3. /\ Static(old) /\ old \in TaskRecord /\ used' = used \union {t}
      /\ now \in Nat /\ since \in Nat /\ since <= now
      /\ IsOnce(old) /\ old.enabled /\ old.next # None => old.next > since
  BY <1>1, <1>2, InMemory
<1>4. CASE s = mem[t].sched
  <2>1. CommitEdit(t, old)
    BY <1>2, <1>4 DEF Update
  <2> QED
    BY <1>1, <1>2, <1>3, <2>1, EditStep
<1>5. CASE s # mem[t].sched
  <2>1. s \in Schedule
    BY ScheduleAssumption DEF Schedule
  <2>2. PICK next \in Nat : next = NextAfter(s, now) /\ next # None /\ next > now
    BY <1>3, <1>5, <2>1, NextAfterType DEF Update
  <2>3. PICK rec : rec = [old EXCEPT !.sched = s, !.next = next]
    OBVIOUS
  <2>4. rec = [sched |-> s, next |-> next, enabled |-> old.enabled, runs |-> old.runs,
               active |-> old.active, unsaved |-> old.unsaved]
    BY <1>3, <2>3 DEF TaskRecord
  <2>5. Static(rec)
    BY <1>3, <2>1, <2>2, <2>4 DEF Static, TaskRecord, Schedule
  <2>6. CommitEdit(t, rec)
    BY <1>2, <1>5, <2>2, <2>3 DEF Update
  <2>7. rec.active = old.active /\ rec.runs = old.runs /\ rec.next > now /\ rec.next > since
    BY <1>3, <2>2, <2>4
  <2> QED
    BY <1>1, <1>2, <1>3, <2>5, <2>6, <2>7, EditStep
<1> QED
  BY <1>4, <1>5

\* A task is paused or resumed (set_enabled).
LEMMA SetEnabledKeeps ==
  ASSUME Inv, NEW t \in Task, NEW on \in BOOLEAN, SetEnabled(t, on)
  PROVE  Inv'
<1>1. /\ ready /\ mem[t] # NoTask
      /\ UNCHANGED <<now, projects, ready, since, tick, worker, used, fired>>
  BY DEF SetEnabled
<1>2. PICK old : old = mem[t]
  OBVIOUS
<1>3. /\ Static(old) /\ old \in TaskRecord /\ old.sched \in Schedule
      /\ used' = used \union {t}
      /\ now \in Nat /\ since \in Nat /\ since <= now
      /\ IsOnce(old) /\ old.enabled /\ old.next # None => old.next > since
  BY <1>1, <1>2, InMemory
<1>4. CASE on /\ ~ mem[t].enabled
  <2>1. PICK next \in Nat : next = NextAfter(old.sched, now) /\ next # None /\ next > now
    BY <1>2, <1>3, <1>4, NextAfterType DEF SetEnabled
  <2>2. PICK rec : rec = [old EXCEPT !.enabled = on, !.next = next]
    OBVIOUS
  <2>3. rec = [sched |-> old.sched, next |-> next, enabled |-> on, runs |-> old.runs,
               active |-> old.active, unsaved |-> old.unsaved]
    BY <1>3, <2>2 DEF TaskRecord
  <2>4. Static(rec)
    BY <1>3, <2>1, <2>3 DEF Static, TaskRecord
  <2>5. CommitEdit(t, rec)
    BY <1>2, <1>4, <2>1, <2>2 DEF SetEnabled
  <2>6. rec.active = old.active /\ rec.runs = old.runs /\ rec.next > now /\ rec.next > since
    BY <1>3, <2>1, <2>3
  <2> QED
    BY <1>1, <1>2, <1>3, <2>4, <2>5, <2>6, EditStep
<1>5. CASE ~ (on /\ ~ mem[t].enabled)
  <2>1. PICK rec : rec = [old EXCEPT !.enabled = on]
    OBVIOUS
  <2>2. /\ rec \in TaskRecord /\ rec.sched = old.sched /\ rec.next = old.next
        /\ rec.runs = old.runs /\ rec.active = old.active /\ rec.enabled = on
    BY <1>3, <2>1 DEF TaskRecord
  <2>3. Static(rec)
    BY <1>3, <2>2 DEF Static, IsOnce
  <2>4. CommitEdit(t, rec)
    BY <1>2, <1>5, <2>1 DEF SetEnabled
  <2>5. IsOnce(rec) /\ rec.enabled /\ rec.next # None => rec.next > since
    BY <1>2, <1>3, <1>5, <2>2 DEF IsOnce
  <2> QED
    BY <1>1, <1>2, <1>3, <2>2, <2>3, <2>4, <2>5, EditStep
<1> QED
  BY <1>4, <1>5

\* The first start finds files of earlier versions and nothing else.
LEMMA InitInv == Init => Inv
<1> SUFFICES ASSUME Init
             PROVE  Inv
  OBVIOUS
<1>1. /\ now = 1 /\ projects = Project /\ disk \in [Task -> InitialFiles \union {NoTask}]
      /\ \A t \in Task : ProjectOf[t] = NoProject => disk[t] = NoTask
      /\ durable = disk /\ ready = FALSE /\ since = 0 /\ mem = [t \in Task |-> NoTask]
      /\ gens = [t \in Task |-> 0] /\ pending = [t \in Task |-> NoCandidate]
      /\ tick = "retry" /\ worker = [w \in Slot |-> Idle]
      /\ used = {t \in Task : disk[t] # NoTask} /\ fired = {}
      /\ spent = [runs |-> 0, edits |-> 0, faults |-> 0, crashes |-> 0, manual |-> 0]
  BY DEF Init
<1>2. disk \in [Task -> TaskRecord \union {NoTask}]
  BY <1>1, FilesAssumption
<1>3. Idle \in WorkerState
  BY DEF Idle, WorkerState
<1>4. Basics
  <2>1. worker \in [Slot -> WorkerState]
    BY <1>1, <1>3
  <2>2. now \in 1..MaxNow /\ since \in 0..now
    BY <1>1, BoundAssumption
  <2>3. spent \in SpentType
    BY <1>1 DEF SpentType
  <2> QED
    BY <1>1, <1>2, <2>1, <2>2, <2>3 DEF Basics, WorkerState
<1>5. \A w \in Slot : worker[w] = Idle
  BY <1>1
<1>6. WorkersOK /\ OneExec /\ FreshStart
  BY <1>1, <1>5 DEF WorkersOK, WorkerOK, OneExec, FreshStart, Claiming, Idle, HasExecLock
<1>7. FiredOK
  BY <1>1 DEF FiredOK
<1>8. FilesOK /\ UnusedIsBlank /\ ShownIsDurable /\ OnTime
  BY <1>1, FilesAssumption DEF FilesOK, UnusedIsBlank, ShownIsDurable, OnTime
<1>9. Recorded
  <2> SUFFICES ASSUME NEW t \in Task, NEW rec \in Records(t)
               PROVE  Good(t, rec)
    BY DEF Recorded
  <2>1. rec \in InitialFiles
    BY <1>1 DEF Records
  <2>2. Static(rec)
    BY <2>1, FilesAssumption DEF Static, IsOnce
  <2>3. Numbered(rec)
    <3>1. spent.runs = 0
      BY <1>1
    <3>2. rec.active # NoRun => rec.active[1] = "run" /\ rec.active[2] = 0
      BY <2>1, FilesAssumption DEF NoRun
    <3>3. \A i \in DOMAIN rec.runs : rec.runs[i][1] = "run" => rec.runs[i][2] = 0
      BY <2>1, FilesAssumption
    <3> QED
      BY <3>1, <3>2, <3>3 DEF Numbered
  <2>4. Later(t, rec) /\ Held(t, rec) /\ Accounts(t, rec)
    BY <1>1, <1>5 DEF Later, Held, Accounts, Claiming, Idle
  <2> QED
    BY <2>2, <2>3, <2>4 DEF Good
<1> QED
  BY <1>4, <1>6, <1>7, <1>8, <1>9 DEF Inv

\* Steps of other components.
LEMMA Stutter == Inv /\ UNCHANGED vars => Inv'
<1> SUFFICES ASSUME Inv, UNCHANGED vars
             PROVE  Inv'
  OBVIOUS
<1>1. UNCHANGED <<now, projects, disk, durable, ready, since, mem, gens, pending, tick, worker,
                  used, fired, spent>>
  BY DEF vars
<1>2. Basics'
  BY <1>1 DEF Inv, Basics
<1>3. WorkersOK' /\ OneExec' /\ FiredOK' /\ \A t \in Task : Quiet(t)
  <2>1. now' \in Nat /\ now' >= now /\ spent' \in SpentType /\ spent'.runs >= spent.runs
    BY <1>1 DEF Inv, Basics, SpentType
  <2> QED
    BY <1>1, <2>1, WorkersStay
<1>4. FilesOK' /\ ShownIsDurable' /\ UnusedIsBlank' /\ OnTime' /\ Recorded'
  BY <1>1, <1>3, StoreStays, OldRecordsStay
<1>5. FreshStart'
  BY <1>1 DEF Inv, FreshStart
<1> QED
  BY <1>2, <1>3, <1>4, <1>5 DEF Inv

\* The inductive invariant holds in every reachable state: all copies of a record agree with
\* what was executed, what is claimed and what start-up recovers.
THEOREM Invariance == Spec => []Inv
<1>1. Inv /\ [Next]_vars => Inv'
  <2> SUFFICES ASSUME Inv, [Next]_vars
               PROVE  Inv'
    OBVIOUS
  <2>1. CASE Restore
    BY <2>1, RestoreKeeps
  <2>2. CASE \E t \in Task, s \in Schedules : Create(t, s) \/ Update(t, s)
    BY <2>2, CreateKeeps, UpdateKeeps
  <2>3. CASE \E t \in Task, on \in BOOLEAN : SetEnabled(t, on)
    BY <2>3, SetEnabledKeeps
  <2>4. CASE \E t \in Task : Remove(t)
    BY <2>4, RemoveKeeps
  <2>5. CASE \E p \in Project : DeleteProject(p) \/ DeleteProjectFails(p)
    BY <2>5, DeleteProjectKeeps
  <2>6. CASE RetryUnsaved
    BY <2>6, RetryUnsavedKeeps
  <2>7. CASE CollectDue
    BY <2>7, CollectDueKeeps
  <2>8. CASE \E w \in Slot : TakeExecLock(w)
    BY <2>8, TakeExecLockKeeps
  <2>9. CASE \E w \in Slot : WorkerStep(w)
    BY <2>9, ClaimScheduledKeeps, GiveBackKeeps, StartRunKeeps, FinishRunKeeps DEF WorkerStep
  <2>10. CASE \E t \in Task : TriggerNow(t)
    BY <2>10, TriggerNowKeeps
  <2>11. CASE Tick
    BY <2>11, TickKeeps
  <2>12. CASE Crash
    BY <2>12, CrashKeeps
  <2>13. CASE UNCHANGED vars
    BY <2>13, Stutter
  <2> QED
    BY <2>1, <2>2, <2>3, <2>4, <2>5, <2>6, <2>7, <2>8, <2>9, <2>10, <2>11, <2>12, <2>13
       DEF Next, Edit, Supervisor
<1> QED
  BY <1>1, InitInv, PTL DEF Spec

\* The variables keep their types and histories their bound (MAX_TASK_RUNS).
THEOREM TypeCorrect == Spec => []TypeOK
<1>1. Inv => TypeOK
  <2> SUFFICES ASSUME Inv
               PROVE  TypeOK
    OBVIOUS
  <2>1. \A t \in Task : \A rec \in {disk[t], durable[t], mem[t]} \ {NoTask} :
           Len(rec.runs) <= MaxTaskRuns
    BY DEF Inv, Recorded, Records, Good, Static
  <2>2. now \in 1..MaxNow /\ since \in 0..MaxNow
    BY BoundAssumption DEF Inv, Basics
  <2> QED
    BY <2>1, <2>2 DEF Inv, Basics, TypeOK
<1> QED
  BY <1>1, Invariance, PTL

\* No scheduled time is executed twice, and nothing that memory, disk or a power loss can bring
\* back has a time that was executed (claim_locked saves the next time before the run starts).
THEOREM ReplaySafe == Spec => []NoReplay
<1>1. Inv => NoReplay
  <2> SUFFICES ASSUME Inv
               PROVE  NoReplay
    OBVIOUS
  <2>1. \A f \in fired : f.task \in Task
    BY DEF Inv, Basics
  <2> QED
    BY <2>1 DEF Inv, FiredOK, Recorded, Good, Later, NoReplay
<1> QED
  BY <1>1, Invariance, PTL

\* Every execution is listed by every surviving copy of its task, as active or in the history,
\* until newer runs have pushed it out (claim_locked, finish_run, recover_task).
THEOREM RunsKept == Spec => []RunsAccounted
<1>1. Inv => RunsAccounted
  <2> SUFFICES ASSUME Inv, NEW f \in fired, NEW rec \in Records(f.task)
               PROVE  Covers(rec, f.run)
    BY DEF RunsAccounted, Covers, Lists, Newer
  <2>1. f.task \in Task
    BY DEF Inv, Basics
  <2> QED
    BY <2>1 DEF Inv, Recorded, Good, Accounts
<1> QED
  BY <1>1, Invariance, PTL

\* While a run executes, all copies of its task carry its claim, edits notwithstanding
\* (commit_edit takes the record that is in memory).
THEOREM ClaimsKept == Spec => []ClaimOutlivesRun
<1>1. Inv => ClaimOutlivesRun
  <2> SUFFICES ASSUME Inv, NEW w \in Slot, worker[w].at = "running",
                      NEW rec \in Records(worker[w].task)
               PROVE  rec.active = worker[w].run
    BY DEF ClaimOutlivesRun
  <2>1. worker[w].task \in Task
    BY DEF Inv, WorkersOK, WorkerOK
  <2> QED
    BY <2>1 DEF Inv, Recorded, Good, Held, Claiming
<1> QED
  BY <1>1, Invariance, PTL

\* What the task list shows without a warning survives a power loss (commit_edit, finish_run,
\* retry_unsaved: the mark of an unsaved result is set unless the write was confirmed).
THEOREM ListIsTrue == Spec => []ShownIsDurable
<1>1. Inv => ShownIsDurable
  BY DEF Inv
<1> QED
  BY <1>1, Invariance, PTL

\* A once without a next time has a run that tells why (claim_locked, recover_task).
THEOREM OnceKept == Spec => []OnceIsAnswered
<1>1. Inv => OnceIsAnswered
  BY DEF Inv, Recorded, Good, Static, IsOnce, OnceIsAnswered
<1> QED
  BY <1>1, Invariance, PTL

\* The only step from the execution lock to a claim.
LEMMA OnlyClaim ==
  ASSUME Basics, [Next]_vars, NEW w \in Slot, worker[w].at = "locked", worker'[w].at = "claimed"
  PROVE  ClaimScheduled(w)
<1>1. worker'[w] # worker[w] /\ worker \in [Slot -> WorkerState]
  BY DEF Basics, WorkerState
<1>2. ASSUME NEW v \in Slot, NEW new, worker' = [worker EXCEPT ![v] = new]
      PROVE  v = w /\ new.at = "claimed"
  BY <1>1, <1>2
<1>3. ~ CollectDue
  <2> SUFFICES ASSUME CollectDue
               PROVE  FALSE
    OBVIOUS
  <2>1. worker'[w].at \in {"waiting", worker[w].at}
    BY DEF CollectDue
  <2> QED
    BY <2>1
<1>4. ~ Restore /\ ~ Edit /\ ~ RetryUnsaved /\ ~ Tick /\ ~ UNCHANGED vars
  BY <1>1 DEF Restore, Edit, Create, Update, SetEnabled, Remove, DeleteProject,
              DeleteProjectFails, RetryUnsaved, Tick, vars
<1>5. ~ Crash
  BY DEF Crash, Idle
<1>6. \A v \in Slot : ~ TakeExecLock(v)
  BY <1>1 DEF TakeExecLock, Move
<1>7. \A t \in Task : ~ TriggerNow(t)
  <2> SUFFICES ASSUME NEW t \in Task, TriggerNow(t)
               PROVE  FALSE
    OBVIOUS
  <2>1. PICK v, new : /\ v \in Slot /\ worker[v].at = "free"
                      /\ worker' = worker \/ worker' = [worker EXCEPT ![v] = new]
    BY DEF TriggerNow
  <2> QED
    BY <1>1, <1>2, <2>1
<1>8. ASSUME NEW v \in Slot, WorkerStep(v)
      PROVE  ClaimScheduled(w)
  <2>1. CASE ClaimScheduled(v)
    <3>1. \A u \in Slot \ {v} : worker'[u] = worker[u]
      BY <1>1, <2>1 DEF ClaimScheduled
    <3> QED
      BY <1>1, <2>1, <3>1
  <2>2. ~ ClaimRejected(v)
    <3> SUFFICES ASSUME ClaimRejected(v)
                 PROVE  FALSE
      OBVIOUS
    <3>1. worker' = [worker EXCEPT ![v].at = "releasing"]
      BY DEF ClaimRejected, Move
    <3> QED
      BY <1>1, <3>1
  <2>3. ~ StartRun(v)
    <3> SUFFICES ASSUME StartRun(v)
                 PROVE  FALSE
      OBVIOUS
    <3>1. worker[v].at = "claimed" /\ worker' = [worker EXCEPT ![v].at = "running"]
      BY DEF StartRun, Move
    <3> QED
      BY <1>1, <3>1
  <2>4. ~ FinishRun(v)
    BY <1>1 DEF FinishRun, EndRun
  <2>5. ~ ReleasePending(v)
    BY <1>1 DEF ReleasePending
  <2> QED
    BY <1>8, <2>1, <2>2, <2>3, <2>4, <2>5 DEF WorkerStep
<1> QED
  BY <1>3, <1>4, <1>5, <1>6, <1>7, <1>8 DEF Next, Supervisor

\* What is claimed is enabled, unchanged and due in memory and on disk: a pause, an edit or a
\* deletion after the collection revokes the candidate (claim_locked compares generations).
THEOREM Revocation == Spec => RevokedNeverRuns
<1>1. ASSUME Inv, [Next]_vars, NEW w \in Slot, worker[w].at = "locked", worker'[w].at = "claimed"
      PROVE  /\ mem[worker[w].task] # NoTask
             /\ \A rec \in Records(worker[w].task) :
                  rec.enabled /\ rec.next = worker[w].cand.due /\ rec.next <= now
  <2> DEFINE t == worker[w].task
  <2>1. Authorised(w)
    BY <1>1, OnlyClaim DEF Inv, ClaimScheduled
  <2>2. /\ mem[t] # NoTask /\ ~ mem[t].unsaved /\ mem[t].enabled
        /\ mem[t].next = worker[w].cand.due /\ mem[t].next <= now
    BY <2>1 DEF Authorised, Runnable
  <2>3. t \in Task
    BY <1>1 DEF Inv, WorkersOK, WorkerOK
  <2>4. \A rec \in Records(t) : rec = mem[t]
    BY <1>1, <2>2, <2>3 DEF Inv, ShownIsDurable, FilesOK, Records
  <2> QED
    BY <2>2, <2>4
<1>2. Inv /\ [Next]_vars =>
        [\A w \in Slot : (worker[w].at = "locked" /\ worker'[w].at = "claimed") =>
           /\ mem[worker[w].task] # NoTask
           /\ \A rec \in Records(worker[w].task) :
                rec.enabled /\ rec.next = worker[w].cand.due /\ rec.next <= now]_vars
  BY <1>1
<1> QED
  BY <1>2, Invariance, PTL DEF Spec, RevokedNeverRuns

\* A once that passed before the application started is never executed (recover_task).
THEOREM OnTimeOnly == Spec => OnceRunsOnTime
<1>1. ASSUME Inv, [Next]_vars, NEW w \in Slot, worker[w].at = "locked",
             worker'[w].at = "claimed", mem[worker[w].task].sched.kind = "once"
      PROVE  worker[w].cand.due > since
  <2>1. Authorised(w)
    BY <1>1, OnlyClaim DEF Inv, ClaimScheduled
  <2>2. worker[w].task \in Task /\ worker[w].cand.due # None
    BY <1>1 DEF Inv, WorkersOK, WorkerOK
  <2> QED
    BY <1>1, <2>1, <2>2 DEF Authorised, Runnable, Inv, OnTime, IsOnce
<1>2. Inv /\ [Next]_vars =>
        [\A w \in Slot : (worker[w].at = "locked" /\ worker'[w].at = "claimed"
                              /\ mem[worker[w].task].sched.kind = "once") =>
           worker[w].cand.due > since]_vars
  BY <1>1
<1> QED
  BY <1>2, Invariance, PTL DEF Spec, OnceRunsOnTime

\* Nothing but a power loss brings back a task that is gone from memory and disk.
THEOREM Deletion == Spec => DeletedStaysDeleted
<1>1. ASSUME Inv, [Next]_vars, NEW t \in used, mem[t] = NoTask, disk[t] = NoTask
      PROVE  /\ mem'[t] = NoTask
             /\ disk'[t] = NoTask \/ (~ ready' /\ disk'[t] = durable[t])
  <2>1. /\ t \in Task /\ disk \in [Task -> TaskRecord \union {NoTask}]
        /\ mem \in [Task -> TaskRecord \union {NoTask}]
    BY <1>1 DEF Inv, Basics
  \* Whatever writes a record writes that of another task.
  <2>2. ASSUME NEW u \in Task \ {t}, NEW rec, NEW o, Persist(u, rec, o)
        PROVE  disk'[t] = NoTask
    BY <1>1, <2>1, <2>2 DEF Persist
  <2>3. ASSUME NEW u \in Task \ {t}, NEW rec, CommitEdit(u, rec)
        PROVE  mem'[t] = NoTask /\ disk'[t] = NoTask
    <3>1. disk'[t] = NoTask
      BY <2>2, <2>3 DEF CommitEdit
    <3>2. mem'[t] = NoTask
      BY <1>1, <2>1, <2>3 DEF CommitEdit, table, Publish
    <3> QED
      BY <3>1, <3>2
  <2>4. ASSUME NEW u \in Task \ {t}, NEW run, NEW scheduled, NEW o,
               Claim(u, run, scheduled, o)
        PROVE  mem'[t] = NoTask /\ disk'[t] = NoTask
    BY <1>1, <2>1, <2>2, <2>4 DEF Claim
  <2>5. CASE Restore
    <3>1. mem'[t] = NoTask /\ disk'[t] = disk[t]
      BY <1>1, <2>1, <2>5 DEF Restore
    <3> QED
      BY <1>1, <3>1
  <2>6. CASE Edit
    <3>1. ASSUME NEW u \in Task, NEW s \in Schedules, Create(u, s) \/ Update(u, s)
          PROVE  mem'[t] = NoTask /\ disk'[t] = NoTask
      <4>1. u # t
        BY <1>1, <3>1 DEF Create, Update
      <4>2. \E rec : CommitEdit(u, rec)
        BY <3>1 DEF Create, Update
      <4> QED
        BY <2>3, <4>1, <4>2
    <3>2. ASSUME NEW u \in Task, NEW on \in BOOLEAN, SetEnabled(u, on)
          PROVE  mem'[t] = NoTask /\ disk'[t] = NoTask
      <4>1. u # t
        BY <1>1, <3>2 DEF SetEnabled
      <4>2. \E rec : CommitEdit(u, rec)
        BY <3>2 DEF SetEnabled
      <4> QED
        BY <2>3, <4>1, <4>2
    <3>3. ASSUME NEW u \in Task, Remove(u)
          PROVE  mem'[t] = NoTask /\ disk'[t] = NoTask
      BY <1>1, <2>1, <3>3 DEF Remove, Publish
    <3>4. ASSUME NEW p \in Project, DeleteProject(p)
          PROVE  mem'[t] = NoTask /\ disk'[t] = NoTask
      BY <1>1, <2>1, <3>4 DEF DeleteProject
    <3>5. ASSUME NEW p \in Project, DeleteProjectFails(p)
          PROVE  mem'[t] = NoTask /\ disk'[t] = NoTask
      BY <1>1, <2>1, <3>5 DEF DeleteProjectFails
    <3> QED
      BY <2>6, <3>1, <3>2, <3>3, <3>4, <3>5 DEF Edit
  <2>7. CASE RetryUnsaved
    <3>1. mem'[t] = NoTask /\ disk'[t] = disk[t]
      BY <1>1, <2>1, <2>7 DEF RetryUnsaved
    <3> QED
      BY <1>1, <3>1
  <2>8. ASSUME NEW w \in Slot, ClaimScheduled(w)
        PROVE  mem'[t] = NoTask /\ disk'[t] = NoTask
    <3>1. worker[w].task \in Task /\ worker[w].task # t
      BY <1>1, <2>8 DEF ClaimScheduled, Authorised, Runnable, Inv, WorkersOK, WorkerOK
    <3>2. PICK u, o : u = worker[w].task /\ Claim(u, NewRun, TRUE, o)
      BY <2>8 DEF ClaimScheduled
    <3> QED
      BY <2>4, <3>1, <3>2
  <2>9. ASSUME NEW u \in Task, TriggerNow(u)
        PROVE  mem'[t] = NoTask /\ disk'[t] = NoTask
    <3>1. u # t
      BY <1>1, <2>9 DEF TriggerNow, Runnable
    <3>2. \E o : Claim(u, NewRun, FALSE, o)
      BY <2>9 DEF TriggerNow
    <3> QED
      BY <2>4, <3>1, <3>2
  <2>10. ASSUME NEW w \in Slot, FinishRun(w)
         PROVE  mem'[t] = NoTask /\ disk'[t] = NoTask
    <3>1. PICK u : u = worker[w].task /\ u \in Task
      BY <1>1, <2>10 DEF FinishRun, Inv, WorkersOK, WorkerOK
    <3>2. CASE mem[u] = NoTask \/ mem[u].active # worker[w].run
      BY <1>1, <2>10, <3>1, <3>2 DEF FinishRun
    <3>3. CASE mem[u] # NoTask /\ mem[u].active = worker[w].run
      <4>1. u # t
        BY <1>1, <3>3
      <4>2. PICK o, done, m : Persist(u, done, o) /\ Publish(u, m)
        BY <2>10, <3>1, <3>3 DEF FinishRun
      <4>3. mem'[t] = mem[t]
        BY <2>1, <4>1, <4>2 DEF Publish
      <4> QED
        BY <1>1, <2>2, <3>1, <4>1, <4>2, <4>3
    <3> QED
      BY <3>2, <3>3
  <2>11. CASE UNCHANGED <<mem, disk>>
    BY <1>1, <2>11
  <2>12. CASE Crash
    <3>1. mem'[t] = NoTask /\ ready' = FALSE /\ disk'[t] \in {disk[t], durable[t]}
      BY <2>1, <2>12 DEF Crash
    <3> QED
      BY <1>1, <3>1
  <2>13. ASSUME NEW w \in Slot,
                \/ TakeExecLock(w) \/ ClaimRejected(w) \/ StartRun(w) \/ ReleasePending(w)
         PROVE  UNCHANGED <<mem, disk>>
    BY <2>13 DEF TakeExecLock, ClaimRejected, StartRun, ReleasePending
  <2>14. CollectDue \/ Tick \/ UNCHANGED vars => UNCHANGED <<mem, disk>>
    BY DEF CollectDue, Tick, vars
  <2> QED
    BY <1>1, <2>5, <2>6, <2>7, <2>8, <2>9, <2>10, <2>11, <2>12, <2>13, <2>14
       DEF Next, Supervisor, WorkerStep
<1>2. Inv /\ [Next]_vars =>
        [\A t \in used : (mem[t] = NoTask /\ disk[t] = NoTask) =>
           /\ mem'[t] = NoTask
           /\ disk'[t] = NoTask \/ (~ ready' /\ disk'[t] = durable[t])]_vars
  BY <1>1
<1> QED
  BY <1>2, Invariance, PTL DEF Spec, DeletedStaysDeleted
=============================================================================
