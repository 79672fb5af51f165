--------------------------- MODULE ToolBatchProofs ---------------------------
(***************************************************************************)
(* The inductive invariant of ToolBatch, for any number of runtimes, calls,*)
(* paths and titles: writers exclude each other, and nothing that may write*)
(* passes the scope gate with a step nobody agreed to.                     *)
(***************************************************************************)
EXTENDS ToolBatch, TLAPS

\* What concerns the tasks and their files, and what concerns the plan.
TasksInv == TasksOK /\ StagesAreSound /\ LocksExclude /\ ClaimsAreSound
PlanInv == PlanOK /\ ScopeIsSound

\* The two halves make up the invariant.
LEMMA Halves == (IInv <=> TasksInv /\ PlanInv) /\ (TasksInv' /\ PlanInv' => IInv')
  BY DEF IInv, TypeOK, TasksInv, PlanInv

-----------------------------------------------------------------------------
(* Steps of one task *)

\* A call that writes names its paths.
LEMMA WritesHavePaths ==
    ASSUME TasksOK, NEW s \in Slot, IsWrite(s)
    PROVE  job[s].paths \subseteq Path
<1>1. job[s] \in Job
  BY DEF TasksOK
<1>2. job[s] \in [kind : WriteKind, paths : (SUBSET Path) \ {{}}]
  BY <1>1 DEF Job, WriteKind, IsWrite
<1> QED
  BY <1>2

\* A task that goes on to another stage before its claim disturbs no other task.
LEMMA MoveKeeps ==
    ASSUME TasksInv, NEW s \in Slot, NEW l \in Waiting \union {"claim"},
           Goto(s, l), l # "locks", l # "check", l # "gate", l = "claim" => IsWrite(s),
           l = "set" => job[s].kind = "plan",
           at[s] \notin {"none", "locks"}, ~ InFile(s), PastGate(s) \/ GateFree(s),
           l = "asking" => ScopeLockFree,
           UNCHANGED <<drive, stopped, budget, job, mark, files>>
    PROVE  TasksInv'
<1> USE DEF TasksInv
<1>1. TasksOK'
  BY DEF TasksOK, Goto, Waiting, files
<1>2. at' = [at EXCEPT ![s] = l] /\ at \in [Slot -> Waiting \union {"none", "claim", "read", "write"}]
  BY DEF Goto, TasksOK
<1>3. \A t \in Slot : /\ IsWrite(t)' = IsWrite(t) /\ held'[t] = held[t]
                      /\ t # s => at'[t] = at[t]
  BY <1>2 DEF IsWrite, files
<1>4. ~ InFile(s)' /\ at'[s] # "locks" /\ (at'[s] = "claim" => IsWrite(s)) /\ held[s] = {}
      /\ (at'[s] = "set" => job[s].kind = "plan")
  BY <1>2 DEF InFile, Waiting, StagesAreSound
<1>5. StagesAreSound'
  BY <1>2, <1>3, <1>4 DEF StagesAreSound, InFile, files
<1>6. \A t \in Slot : /\ t # s /\ RtOf[t] = RtOf[s] /\ IsWrite(s) /\ IsWrite(t) => ~ (PastGate(t) /\ PastGate(s)')
                      /\ t # s /\ at'[s] = "asking" => at[t] # "asking"
  BY <1>2 DEF LocksExclude, PastGate, GateFree, SlotsOf, ScopeLockFree
<1>7. LocksExclude'
  BY <1>2, <1>3, <1>6 DEF LocksExclude, PastGate, files
<1>8. ClaimsAreSound'
  BY DEF ClaimsAreSound, files
<1> QED
  BY <1>1, <1>5, <1>7, <1>8

\* Claims that are given back belong to a sub-agent without any task.
LEMMA ReleaseKeeps ==
    ASSUME TasksInv, NEW tasks \in SUBSET Slot, Released(tasks)
    PROVE  /\ claims' \in [Path -> Child \union {Nobody}] /\ touched' \in [Child -> SUBSET Path]
           /\ ClaimsAreSound'
           /\ \A t \in tasks : RtOf[t] \in Child =>
                \A p \in Path : claims[p] = RtOf[t] => claims'[p] = RtOf[t]
<1> USE DEF TasksInv
<1>1. /\ claims \in [Path -> Child \union {Nobody}] /\ touched \in [Child -> SUBSET Path]
      /\ Nobody \notin Child
  BY SlotAssumption DEF TasksOK, Runtime
<1>2. /\ claims' \in [Path -> Child \union {Nobody}] /\ touched' \in [Child -> SUBSET Path]
      /\ \A p \in Path : claims'[p] = claims[p] \/ claims'[p] = Nobody
      /\ \A r \in Child : \A p \in touched'[r] :
           ~ LeaseEnds(r, tasks) /\ p \in touched[r] /\ claims'[p] = claims[p]
  <2>1. \A r \in Child : \A p \in touched[r] : claims[p] = r /\ p \in Path
    BY <1>1 DEF ClaimsAreSound
  <2>2. DEFINE ends(r) == LeaseEnds(r, tasks)
  <2>3. /\ claims' = [p \in Path |-> IF claims[p] \in Child /\ ends(claims[p]) THEN Nobody ELSE claims[p]]
        /\ touched' = [r \in Child |-> IF ends(r) THEN {} ELSE touched[r]]
    BY DEF Released
  <2> HIDE DEF ends
  <2>4. /\ claims' \in [Path -> Child \union {Nobody}] /\ touched' \in [Child -> SUBSET Path]
        /\ \A p \in Path : claims'[p] = claims[p] \/ claims'[p] = Nobody
        /\ \A r \in Child : \A p \in touched'[r] : ~ ends(r) /\ p \in touched[r] /\ claims'[p] = claims[p]
    BY <1>1, <2>1, <2>3
  <2> QED
    BY <2>4 DEF ends
<1>3. ClaimsAreSound'
  BY <1>1, <1>2 DEF ClaimsAreSound
<1>4. \A t \in tasks : RtOf[t] \in Child =>
         \A p \in Path : claims[p] = RtOf[t] => claims'[p] = RtOf[t]
  BY DEF Released, LeaseEnds
<1> QED
  BY <1>2, <1>3, <1>4

\* A task that ends takes its locks with it and nobody else's claims.
LEMMA EndKeeps ==
    ASSUME TasksInv, NEW s \in Slot, End(s)
    PROVE  TasksInv'
<1> USE DEF TasksInv
<1>1. /\ Tasks \ {s} \in SUBSET Slot /\ Released(Tasks \ {s})
      /\ at' = [at EXCEPT ![s] = "none"] /\ held' = [held EXCEPT ![s] = {}]
      /\ job' = [job EXCEPT ![s] = NoJob] /\ mark' = [mark EXCEPT ![s] = "kept"]
      /\ UNCHANGED <<drive, stopped, budget>>
  BY DEF End, Tasks, Goto
<1>2. /\ claims' \in [Path -> Child \union {Nobody}] /\ touched' \in [Child -> SUBSET Path]
      /\ ClaimsAreSound'
      /\ \A t \in Tasks \ {s} : RtOf[t] \in Child =>
           \A p \in Path : claims[p] = RtOf[t] => claims'[p] = RtOf[t]
  BY <1>1, ReleaseKeeps
<1>3. NoJob \in Job
  BY DEF NoJob, Job
<1>4. TasksOK'
  BY <1>1, <1>2, <1>3 DEF TasksOK
<1>5. /\ at'[s] = "none" /\ held'[s] = {}
      /\ \A t \in Slot : t # s => /\ at'[t] = at[t] /\ held'[t] = held[t] /\ job'[t] = job[t]
  BY <1>1 DEF TasksOK
<1>6. \A t \in Slot : t # s => (IsWrite(t)' <=> IsWrite(t)) /\ (InFile(t)' <=> InFile(t))
  BY <1>5 DEF IsWrite, InFile
<1>7. ~ InFile(s)' /\ ~ PastGate(s)'
  BY <1>5 DEF InFile, PastGate
<1>8. ASSUME NEW t \in Slot, t # s, at[t] = "locks" \/ InFile(t), RtOf[t] \in Child
      PROVE  \A p \in job'[t].paths : claims'[p] = RtOf[t]
  <2>1. t \in Tasks \ {s} /\ IsWrite(t)
    BY <1>8 DEF Tasks, InFile, StagesAreSound
  <2>2. \A p \in job[t].paths : p \in Path /\ claims[p] = RtOf[t]
    BY <1>8, <2>1, WritesHavePaths DEF StagesAreSound
  <2> QED
    BY <1>2, <1>5, <1>8, <2>1, <2>2
<1>9. StagesAreSound'
  BY <1>5, <1>6, <1>7, <1>8 DEF StagesAreSound
<1>10. LocksExclude'
  BY <1>5, <1>6, <1>7 DEF LocksExclude, PastGate
<1> QED
  BY <1>2, <1>4, <1>9, <1>10

\* A claim is granted for all paths of the call, none of which anybody else is near.
LEMMA ClaimKeeps ==
    ASSUME TasksInv, NEW s \in Slot, Claim(s)
    PROVE  TasksInv'
<1> USE DEF TasksInv
<1>1. CASE End(s)
  BY <1>1, EndKeeps
<1> DEFINE r == RtOf[s]
<1>2. ASSUME ~ End(s)
      PROVE  /\ at[s] = "claim" /\ Goto(s, "locks")
             /\ UNCHANGED <<drive, stopped, budget, job, mark, held, touched>>
             /\ \/ /\ r \in Child
                   /\ \A p \in job[s].paths : ~ Conflict(r, p)
                   /\ claims' = [p \in Path |-> IF p \in job[s].paths THEN r ELSE claims[p]]
                \/ r = Main /\ UNCHANGED claims
  BY <1>2 DEF Claim, files
<1>3. CASE ~ End(s)
  <2> USE <1>2, <1>3
  <2>1. IsWrite(s) /\ job[s].paths \subseteq Path /\ held[s] = {}
    BY WritesHavePaths DEF StagesAreSound, InFile
  <2>2. /\ claims \in [Path -> Child \union {Nobody}] /\ Nobody \notin Child /\ Main \notin Child
        /\ \A p \in Path : <<p, p>> \in Clash
        /\ \A p, q \in Path : <<p, q>> \in Clash => <<q, p>> \in Clash
    BY SlotAssumption, ClashAssumption DEF TasksOK, Runtime
  <2>3. claims' \in [Path -> Child \union {Nobody}]
    BY <2>2
  <2>4. \A p \in Path : claims'[p] # claims[p] =>
            /\ r \in Child /\ p \in job[s].paths /\ claims[p] = Nobody /\ claims'[p] = r
            /\ \A q \in Path : <<p, q>> \in Clash => claims[q] \in {Nobody, r}
    BY <2>1, <2>2 DEF Conflict
  <2>5. at' = [at EXCEPT ![s] = "locks"] /\ TasksOK'
    BY <2>3 DEF Goto, TasksOK, Waiting
  <2>6. /\ at'[s] = "locks" /\ \A t \in Slot : t # s => at'[t] = at[t]
        /\ \A t \in Slot : IsWrite(t)' = IsWrite(t) /\ held'[t] = held[t] /\ job'[t] = job[t]
        /\ \A t \in Slot : InFile(t)' <=> InFile(t)
    BY <2>5 DEF TasksOK, IsWrite, InFile
  <2>7. ASSUME NEW t \in Slot, at'[t] = "locks" \/ InFile(t), RtOf[t] \in Child
        PROVE  \A p \in job[t].paths : claims'[p] = RtOf[t]
    <3>1. CASE t = s
      BY <2>1, <2>2, <2>7, <3>1
    <3>2. CASE t # s
      <4>1. IsWrite(t) /\ \A p \in job[t].paths : claims[p] = RtOf[t]
        BY <2>6, <2>7, <3>2 DEF StagesAreSound
      <4> QED
        BY <2>2, <2>4, <2>7, <4>1, WritesHavePaths
    <3> QED
      BY <3>1, <3>2
  <2>8. StagesAreSound'
    BY <2>1, <2>6, <2>7 DEF StagesAreSound
  <2>9. LocksExclude'
    BY <2>6 DEF LocksExclude, PastGate
  <2>10. ASSUME NEW p \in Path, NEW q \in Path, <<p, q>> \in Clash, Nobody \notin {claims'[p], claims'[q]}
         PROVE  claims'[p] = claims'[q]
    <3>1. CASE claims'[p] = claims[p] /\ claims'[q] = claims[q]
      BY <2>10, <3>1 DEF ClaimsAreSound
    <3>2. CASE claims'[p] # claims[p]
      BY <2>2, <2>4, <2>10, <3>2
    <3>3. CASE claims'[q] # claims[q]
      BY <2>2, <2>4, <2>10, <3>3
    <3> QED
      BY <3>1, <3>2, <3>3
  <2>11. \A a \in Child : \A p \in touched[a] : claims'[p] = a
    <3>1. \A a \in Child : \A p \in touched[a] : p \in Path /\ claims[p] = a
      BY DEF ClaimsAreSound, TasksOK
    <3> QED
      BY <2>2, <2>4, <3>1
  <2>12. ClaimsAreSound'
    BY <2>10, <2>11 DEF ClaimsAreSound
  <2> QED
    BY <2>5, <2>8, <2>9, <2>12
<1> QED
  BY <1>1, <1>3

\* A lock is taken only when nobody holds it.
LEMMA TakeLockKeeps ==
    ASSUME TasksInv, NEW s \in Slot, NEW p \in Path, TakeLock(s, p)
    PROVE  TasksInv'
<1> USE DEF TasksInv
<1> DEFINE l == IF held'[s] = job[s].paths THEN "read" ELSE "locks"
<1>1. /\ at[s] = "locks" /\ p \in job[s].paths \ held[s] /\ LockFree(p)
      /\ held' = [held EXCEPT ![s] = @ \union {p}] /\ at' = [at EXCEPT ![s] = l]
      /\ UNCHANGED <<drive, stopped, budget, job, mark, claims, touched>>
  BY DEF TakeLock, Goto
<1>2. TasksOK'
  BY <1>1 DEF TasksOK
<1>3. /\ held'[s] = held[s] \union {p} /\ at'[s] = l /\ l \in {"read", "locks"}
      /\ \A t \in Slot : t # s => held'[t] = held[t] /\ at'[t] = at[t]
      /\ \A t \in Slot : (IsWrite(t)' <=> IsWrite(t)) /\ job'[t] = job[t]
      /\ \A t \in Slot : t # s => (InFile(t)' <=> InFile(t))
      /\ InFile(s)' <=> held'[s] = job[s].paths
  BY <1>1 DEF TasksOK, IsWrite, InFile
<1>4. StagesAreSound'
  BY <1>1, <1>3 DEF StagesAreSound, InFile
<1>5. LocksExclude'
  BY <1>1, <1>3 DEF LocksExclude, PastGate, LockFree
<1>6. ClaimsAreSound'
  BY <1>1 DEF ClaimsAreSound
<1> QED
  BY <1>2, <1>4, <1>5, <1>6

\* Reading and writing happen under locks and claims.
LEMMA FileKeeps ==
    ASSUME TasksInv, NEW s \in Slot, InFile(s), NEW l \in {"write", "check"}, Goto(s, l),
           UNCHANGED <<drive, stopped, budget, job, mark, held, claims>>,
           UNCHANGED touched \/
             touched' = [r \in Child |-> IF r = RtOf[s] THEN touched[r] \union job[s].paths
                                         ELSE touched[r]]
    PROVE  TasksInv'
<1> USE DEF TasksInv
<1>1. at' = [at EXCEPT ![s] = l] /\ IsWrite(s) /\ job[s].paths \subseteq Path
  BY WritesHavePaths DEF Goto, StagesAreSound
<1>2. TasksOK'
  BY <1>1 DEF TasksOK, Waiting
<1>3. /\ at'[s] = l /\ InFile(s)' /\ held[s] = job[s].paths
      /\ \A t \in Slot : t # s => at'[t] = at[t]
      /\ \A t \in Slot : (IsWrite(t)' <=> IsWrite(t)) /\ (InFile(t)' <=> InFile(t))
  BY <1>1 DEF TasksOK, IsWrite, InFile, StagesAreSound
<1>4. StagesAreSound'
  BY <1>3 DEF StagesAreSound, InFile
<1>5. LocksExclude'
  BY <1>3 DEF LocksExclude, PastGate, InFile
<1>6. RtOf[s] \in Child => \A p \in job[s].paths : claims[p] = RtOf[s]
  BY DEF StagesAreSound
<1>7. ClaimsAreSound'
  BY <1>6 DEF ClaimsAreSound
<1> QED
  BY <1>2, <1>4, <1>5, <1>7

-----------------------------------------------------------------------------
(* Steps of a drive *)

\* A batch starts in slots without tasks.
LEMMA StartBatchKeeps ==
    ASSUME TasksInv, NEW r \in Runtime, NEW slots \in SUBSET SlotsOf(r),
           NEW excluded \in SUBSET slots, StartBatch(r, slots, excluded)
    PROVE  TasksInv'
<1> USE DEF TasksInv
<1>1. PICK tasks \in SUBSET slots, calls \in [slots -> UNION {Menu[s] : s \in slots}] :
         /\ \A s \in slots : calls[s] \in Menu[s]
         /\ job' = [s \in Slot |-> IF s \in tasks THEN calls[s] ELSE job[s]]
         /\ at' = [s \in Slot |-> IF s \in tasks THEN "gate" ELSE at[s]]
         /\ mark' = [s \in Slot |-> IF s \in tasks THEN "kept" ELSE mark[s]]
         /\ drive' = [drive EXCEPT ![r] = "batch"]
  BY DEF StartBatch
<1>2. /\ tasks \subseteq Slot /\ \A s \in tasks : at[s] = "none" /\ calls[s] \in Job
      /\ budget[r] > 0 /\ budget' = [budget EXCEPT ![r] = @ - 1]
      /\ UNCHANGED <<stopped, held, claims, touched>>
  BY <1>1, SlotAssumption DEF StartBatch, SlotsOf, Tasks, files
<1>3. TasksOK'
  BY <1>1, <1>2 DEF TasksOK, Waiting
<1>4. \A s \in Slot : /\ s \in tasks => at'[s] = "gate" /\ held[s] = {} /\ ~ InFile(s)' /\ ~ PastGate(s)'
                      /\ s \notin tasks => at'[s] = at[s] /\ job'[s] = job[s]
  BY <1>1, <1>2 DEF StagesAreSound, InFile, PastGate
<1>5. \A s \in Slot \ tasks : (IsWrite(s)' <=> IsWrite(s)) /\ (InFile(s)' <=> InFile(s))
                              /\ (PastGate(s)' <=> PastGate(s))
  BY <1>4 DEF IsWrite, InFile, PastGate
<1>6. StagesAreSound'
  BY <1>2, <1>4, <1>5 DEF StagesAreSound
<1>7. LocksExclude'
  BY <1>2, <1>4, <1>5 DEF LocksExclude
<1>8. ClaimsAreSound'
  BY <1>2 DEF ClaimsAreSound
<1> QED
  BY <1>3, <1>6, <1>7, <1>8

\* What else happens to a drive moves no task, and gives back claims nobody uses.
LEMMA DriveKeeps ==
    ASSUME TasksInv, NEW r \in Runtime,
           StartDrive(r) \/ Stop(r) \/ Abort(r) \/ Return(r) \/ EndDrive(r) \/ DropDrive(r)
    PROVE  TasksInv'
<1> USE DEF TasksInv
<1>1. /\ UNCHANGED <<job, at, held, budget>>
      /\ drive' \in [Runtime -> {"none", "live", "batch", "draining", "gone"}]
      /\ stopped' \in [Runtime -> BOOLEAN]
      /\ mark' \in [Slot -> {"kept", "aborted", "stray"}]
      /\ UNCHANGED <<claims, touched>> \/ Released(Tasks)
  BY DEF TasksOK, StartDrive, Stop, Abort, Return, EndDrive, DropDrive, files
<1>2. /\ claims' \in [Path -> Child \union {Nobody}] /\ touched' \in [Child -> SUBSET Path]
      /\ ClaimsAreSound'
      /\ \A t \in Tasks : RtOf[t] \in Child =>
           \A p \in Path : claims[p] = RtOf[t] => claims'[p] = RtOf[t]
  <2>1. CASE UNCHANGED <<claims, touched>>
    BY <2>1 DEF TasksOK, ClaimsAreSound
  <2>2. CASE Released(Tasks)
    BY <2>2, ReleaseKeeps DEF Tasks
  <2> QED
    BY <1>1, <2>1, <2>2
<1>3. TasksOK'
  BY <1>1, <1>2 DEF TasksOK
<1>4. \A t \in Slot : (IsWrite(t)' <=> IsWrite(t)) /\ (InFile(t)' <=> InFile(t))
                      /\ (PastGate(t)' <=> PastGate(t))
  BY <1>1 DEF IsWrite, InFile, PastGate
<1>5. ASSUME NEW t \in Slot, at[t] = "locks" \/ InFile(t), RtOf[t] \in Child
      PROVE  \A p \in job[t].paths : claims'[p] = RtOf[t]
  <2>1. t \in Tasks /\ IsWrite(t)
    BY <1>5 DEF Tasks, InFile, StagesAreSound
  <2> QED
    BY <1>2, <1>5, <2>1, WritesHavePaths DEF StagesAreSound
<1>6. StagesAreSound'
  BY <1>1, <1>4, <1>5 DEF StagesAreSound
<1>7. LocksExclude'
  BY <1>1, <1>4 DEF LocksExclude
<1> QED
  BY <1>2, <1>3, <1>6, <1>7

-----------------------------------------------------------------------------
(* The plan and its scope *)

\* Where neither the plan nor a card changes.
LEMMA PlanUntouched ==
    ASSUME PlanInv, UNCHANGED plan, \A t \in Slot : at'[t] = "asking" => at[t] = "asking"
    PROVE  PlanInv'
<1>1. UNCHANGED <<todos, scope, card, consented>>
  BY DEF plan
<1>2. NewTitles' = NewTitles /\ Refinements' = Refinements /\ Agreed' = Agreed
  BY <1>1 DEF NewTitles, Refinements, Unknown, Reworded, Agreed
<1> QED
  BY <1>1, <1>2 DEF PlanInv, PlanOK, ScopeIsSound

\* A rewording of an agreed step is agreed.
LEMMA RewordingsAreAgreed ==
    ASSUME PlanInv, NEW t \in Title, Reworded(t)
    PROVE  t \in Agreed
<1>1. PICK b \in scope.base : <<t, b>> \in Refines
  BY DEF Reworded
<1>2. b \in consented \/ \E c \in consented : <<b, c>> \in Refines
  BY DEF PlanInv, ScopeIsSound, Agreed
<1>3. b \in Title /\ consented \subseteq Title
  BY <1>1, PlanAssumption DEF PlanInv, PlanOK
<1>4. CASE b \in consented
  BY <1>1, <1>4 DEF Agreed
<1>5. CASE \E c \in consented : <<b, c>> \in Refines
  BY <1>1, <1>3, <1>5, PlanAssumption DEF Agreed
<1> QED
  BY <1>2, <1>4, <1>5

\* What the plan consists of.
LEMMA PlanParts ==
    ASSUME PlanInv
    PROVE  /\ NewTitles \subseteq Title /\ Refinements \subseteq Title /\ Refinements \subseteq Agreed
           /\ todos.titles \subseteq scope.base \union NewTitles \union Refinements
<1>1. NewTitles \subseteq Title /\ Refinements \subseteq Title
  BY DEF PlanInv, PlanOK, NewTitles, Refinements, Unknown
<1>2. Refinements \subseteq Agreed
  BY <1>1, RewordingsAreAgreed DEF Refinements
<1>3. todos.titles \subseteq scope.base \union NewTitles \union Refinements
  BY DEF NewTitles, Refinements, Unknown
<1> QED
  BY <1>1, <1>2, <1>3

\* The gate opens only for a plan within its scope.
LEMMA EnterScopeKeeps ==
    ASSUME IInv, NEW s \in Slot, EnterScope(s)
    PROVE  /\ IInv'
           /\ (at'[s] \notin {"none", "asking"} /\ scope.approved) => todos.titles \subseteq Agreed'
<1>1. TasksInv /\ PlanInv
  BY Halves
<1>2. at[s] = "scope" /\ ScopeLockFree /\ \A t \in Slot : at[t] # "asking"
  BY DEF EnterScope, ScopeLockFree
<1>3. ToolStage(s) \in {"claim", "set", "question", "busy"} /\ (ToolStage(s) = "claim" => IsWrite(s))
      /\ (ToolStage(s) = "set" => job[s].kind = "plan")
  BY DEF ToolStage
<1>4. at[s] \notin {"none", "locks"} /\ ~ InFile(s) /\ PastGate(s) /\ s \in DOMAIN at
  BY <1>1, <1>2 DEF InFile, PastGate, TasksInv, TasksOK
<1>5. CASE End(s) /\ UNCHANGED plan
  <2>1. \A t \in Slot : at'[t] = "asking" => at[t] = "asking"
    BY <1>4, <1>5 DEF End, Goto
  <2>2. at'[s] = "none"
    BY <1>4, <1>5 DEF End, Goto
  <2> QED
    BY <1>1, <1>5, <2>1, <2>2, EndKeeps, PlanUntouched, Halves
<1>6. CASE /\ ~ GateCloses /\ Goto(s, ToolStage(s))
           /\ UNCHANGED <<drive, stopped, budget, job, mark, files, plan>>
  <2>1. TasksInv'
    BY <1>1, <1>3, <1>4, <1>6, MoveKeeps DEF Waiting
  <2>2. \A t \in Slot : at'[t] = "asking" => at[t] = "asking"
    BY <1>3, <1>4, <1>6 DEF Goto
  <2>3. scope.approved => todos.titles \subseteq Agreed
    <3>1. CASE scope.allowed
      BY <1>1, <3>1 DEF PlanInv, PlanOK, ScopeIsSound, Agreed
    <3>2. CASE ~ scope.allowed
      BY <1>1, <1>6, <3>2, PlanParts DEF PlanInv, ScopeIsSound, GateCloses
    <3> QED
      BY <3>1, <3>2
  <2>4. Agreed' = Agreed
    BY <1>6 DEF plan, Agreed
  <2> QED
    BY <1>1, <1>6, <2>1, <2>2, <2>3, <2>4, PlanUntouched, Halves
<1>7. CASE /\ GateCloses /\ NewTitles = {} /\ Goto(s, ToolStage(s))
           /\ scope' = [scope EXCEPT !.expanded = FALSE, !.base = @ \union Refinements]
           /\ UNCHANGED <<drive, stopped, budget, job, mark, files, todos, card, consented>>
  <2>1. TasksInv'
    BY <1>1, <1>3, <1>4, <1>7, MoveKeeps DEF Waiting
  <2>2. \A t \in Slot : at'[t] # "asking"
    BY <1>2, <1>3, <1>4, <1>7 DEF Goto
  <2>3. todos.titles \subseteq Agreed /\ Agreed' = Agreed
    BY <1>1, <1>7, PlanParts DEF PlanInv, ScopeIsSound, Agreed
  <2>4. /\ scope'.base = scope.base \union Refinements /\ scope'.allowed = scope.allowed
        /\ PlanOK'
    BY <1>1, <1>7, PlanParts DEF PlanInv, PlanOK
  <2>5. NewTitles' = {}
    BY <1>1, <1>7, <2>4, PlanParts DEF NewTitles, Unknown
  <2>6. ScopeIsSound'
    BY <1>1, <1>7, <2>2, <2>3, <2>4, <2>5, PlanParts DEF PlanInv, ScopeIsSound
  <2> QED
    BY <2>1, <2>3, <2>4, <2>6, Halves DEF PlanInv
<1>8. CASE /\ GateCloses /\ Goto(s, "asking")
           /\ card' = [fresh |-> NewTitles, reworded |-> Refinements]
           /\ UNCHANGED <<drive, stopped, budget, job, mark, files, todos, scope, consented>>
  <2>1. TasksInv'
    BY <1>1, <1>2, <1>4, <1>8, MoveKeeps DEF Waiting
  <2>2. at'[s] = "asking"
    BY <1>4, <1>8 DEF Goto
  <2>3. NewTitles' = NewTitles /\ Refinements' = Refinements /\ Agreed' = Agreed
    BY <1>8 DEF NewTitles, Refinements, Unknown, Reworded, Agreed
  <2>4. PlanInv'
    BY <1>1, <1>8, <2>3, PlanParts DEF PlanInv, PlanOK, ScopeIsSound
  <2> QED
    BY <2>1, <2>2, <2>4, Halves
<1> QED
  BY <1>5, <1>6, <1>7, <1>8 DEF EnterScope

\* Consent covers all that the card shows, and the plan has not changed under the card.
LEMMA AllowScopeKeeps ==
    ASSUME IInv, NEW s \in Slot, NEW always \in BOOLEAN, AllowScope(s, always)
    PROVE  IInv' /\ todos.titles \subseteq Agreed'
<1>1. TasksInv /\ PlanInv
  BY Halves
<1>2. /\ at[s] = "asking" /\ card = [fresh |-> NewTitles, reworded |-> Refinements]
      /\ \A t \in Slot : t # s => at[t] # "asking"
  BY <1>1 DEF AllowScope, TasksInv, LocksExclude, PlanInv, ScopeIsSound
<1>3. ToolStage(s) \in {"claim", "set", "question", "busy"} /\ (ToolStage(s) = "claim" => IsWrite(s))
      /\ (ToolStage(s) = "set" => job[s].kind = "plan")
  BY DEF ToolStage
<1>4. ~ InFile(s) /\ PastGate(s) /\ s \in DOMAIN at
  BY <1>1, <1>2 DEF InFile, PastGate, TasksInv, TasksOK
<1>5. TasksInv' /\ \A t \in Slot : at'[t] # "asking"
  <2>1. Goto(s, ToolStage(s)) /\ UNCHANGED <<drive, stopped, budget, job, mark, files>>
    BY DEF AllowScope
  <2>2. TasksInv'
    BY <1>1, <1>2, <1>3, <1>4, <2>1, MoveKeeps DEF Waiting
  <2>3. \A t \in Slot : at'[t] # "asking"
    BY <1>2, <1>3, <1>4, <2>1 DEF Goto
  <2> QED
    BY <2>2, <2>3
<1>6. /\ scope' = [scope EXCEPT !.base = @ \union NewTitles \union Refinements,
                                !.allowed = @ \/ always, !.expanded = FALSE]
      /\ consented' = IF always THEN Title ELSE consented \union NewTitles
      /\ card' = NoCard /\ UNCHANGED todos
  BY <1>2 DEF AllowScope
<1>7. consented \subseteq consented' /\ NewTitles \subseteq consented' /\ Agreed \subseteq Agreed'
  BY <1>1, <1>6, PlanParts DEF PlanInv, PlanOK, Agreed
<1>8. scope'.base \subseteq Agreed'
  BY <1>1, <1>6, <1>7, PlanParts DEF PlanInv, PlanOK, ScopeIsSound, Agreed
<1>9. PlanOK' /\ scope'.base = scope.base \union NewTitles \union Refinements
  BY <1>1, <1>6, PlanParts DEF PlanInv, PlanOK, NoCard
<1>10. todos.titles \subseteq scope'.base /\ NewTitles' = {}
  BY <1>1, <1>6, <1>9, PlanParts DEF NewTitles, Unknown
<1>11. scope'.allowed => consented' = Title
  BY <1>1, <1>6, PlanParts DEF PlanInv, PlanOK, ScopeIsSound
<1> QED
  BY <1>5, <1>8, <1>9, <1>10, <1>11, Halves DEF PlanInv, ScopeIsSound

\* A call that ends with a card takes the card with it; a denial only adds to the denied.
LEMMA CardEndsKeeps ==
    ASSUME IInv, NEW s \in Slot, DenyScope(s) \/ DropTask(s)
    PROVE  IInv'
<1>1. TasksInv /\ PlanInv
  BY Halves
<1>2. TasksInv' /\ at' = [at EXCEPT ![s] = "none"] /\ UNCHANGED <<todos, consented>>
  BY <1>1, EndKeeps DEF DenyScope, DropTask, End, Goto
<1>3. /\ PlanOK'
      /\ /\ scope'.base = scope.base /\ scope'.allowed = scope.allowed
         /\ scope'.approved = scope.approved /\ scope'.expanded = scope.expanded
      /\ at[s] = "asking" \/ card' = card
  BY <1>1, <1>2 DEF DenyScope, DropTask, PlanInv, PlanOK, NoCard
<1>4. \A t \in Slot : at'[t] = "asking" => at[t] = "asking" /\ at[s] # "asking"
  BY <1>1, <1>2 DEF TasksInv, TasksOK, LocksExclude
<1>5. NewTitles' = NewTitles /\ Refinements' = Refinements /\ Agreed' = Agreed
  BY <1>2, <1>3 DEF NewTitles, Refinements, Unknown, Reworded, Agreed
<1>6. ScopeIsSound'
  BY <1>1, <1>2, <1>3, <1>4, <1>5 DEF PlanInv, ScopeIsSound
<1> QED
  BY <1>2, <1>3, <1>6, Halves DEF PlanInv

\* A new plan is marked when it goes beyond the scope; no card is open meanwhile.
LEMMA SetPlanKeeps ==
    ASSUME IInv, NEW s \in Slot, SetPlan(s)
    PROVE  IInv'
<1>1. TasksInv /\ PlanInv
  BY Halves
<1>2. /\ TasksInv' /\ at' = [at EXCEPT ![s] = "none"] /\ UNCHANGED <<card, consented>>
      /\ \A t \in Slot : at[t] # "asking"
  BY <1>1, EndKeeps DEF SetPlan, End, Goto, ScopeLockFree
<1>3. job[s] \in [kind : {"plan"}, titles : SUBSET Title, open : BOOLEAN]
  <2>1. job[s].kind = "plan" /\ job[s] \in Job
    BY <1>1 DEF SetPlan, TasksInv, TasksOK, StagesAreSound
  <2> QED
    BY <2>1 DEF Job, WriteKind
<1>4. /\ todos' = [titles |-> job[s].titles, open |-> job[s].open]
      /\ scope' = [scope EXCEPT !.expanded = @ \/ Expands(job[s].titles)]
      /\ Expands(job[s].titles) \in BOOLEAN
  BY DEF SetPlan, Expands
<1>5. /\ PlanOK' /\ todos'.titles = job[s].titles
      /\ scope'.base = scope.base /\ scope'.allowed = scope.allowed /\ scope'.approved = scope.approved
      /\ ~ scope'.expanded => ~ Expands(job[s].titles)
  BY <1>1, <1>2, <1>3, <1>4 DEF PlanInv, PlanOK
<1>6. Agreed' = Agreed /\ \A t \in Slot : at'[t] # "asking"
  BY <1>1, <1>2 DEF Agreed, TasksInv, TasksOK
<1>7. (scope'.approved /\ ~ scope'.allowed /\ ~ scope'.expanded) => NewTitles' = {}
  BY <1>5 DEF Expands, NewTitles, Unknown, Reworded
<1> QED
  BY <1>1, <1>2, <1>5, <1>6, <1>7, Halves DEF PlanInv, ScopeIsSound

\* An approval makes the plan the scope.
LEMMA ApproveKeeps ==
    ASSUME IInv, NEW s \in Slot, Approve(s)
    PROVE  IInv'
<1>1. TasksInv /\ PlanInv
  BY Halves
<1>2. /\ TasksInv' /\ at' = [at EXCEPT ![s] = "none"] /\ UNCHANGED <<todos, card>>
      /\ \A t \in Slot : at[t] # "asking"
  BY <1>1, EndKeeps DEF Approve, End, Goto, ScopeLockFree
<1>3. /\ scope' = [base |-> todos.titles, approved |-> TRUE, expanded |-> FALSE,
                   allowed |-> FALSE, denied |-> {}]
      /\ consented' = todos.titles
  BY DEF Approve
<1>4. PlanOK' /\ scope'.base \subseteq Agreed' /\ NewTitles' = {}
  BY <1>1, <1>2, <1>3 DEF PlanInv, PlanOK, Agreed, NewTitles, Unknown
<1>5. \A t \in Slot : at'[t] # "asking"
  BY <1>1, <1>2 DEF TasksInv, TasksOK
<1> QED
  BY <1>2, <1>3, <1>4, <1>5, Halves DEF PlanInv, ScopeIsSound

-----------------------------------------------------------------------------
(* The invariant *)

\* Nothing runs, holds or claims anything at the start, and no plan is agreed.
LEMMA Initially == Init => IInv
<1> SUFFICES ASSUME Init PROVE IInv
  OBVIOUS
<1> USE DEF Init
<1>1. NoJob \in Job /\ Nobody \notin Child
  BY SlotAssumption DEF NoJob, Job, Runtime
<1>2. TasksOK
  BY <1>1, PlanAssumption DEF TasksOK
<1>3. PlanOK
  BY PlanAssumption DEF PlanOK, NoCard
<1>4. StagesAreSound /\ LocksExclude /\ ClaimsAreSound
  BY DEF StagesAreSound, LocksExclude, ClaimsAreSound, InFile, PastGate
<1>5. ScopeIsSound
  BY DEF ScopeIsSound
<1> QED
  BY <1>2, <1>3, <1>4, <1>5, Halves DEF TasksInv, PlanInv

\* A drive leaves the plan alone.
LEMMA RuntimeStepKeeps ==
    ASSUME IInv, NEW r \in Runtime, RuntimeStep(r)
    PROVE  IInv' /\ \A s \in Slot : at'[s] # at[s] => at[s] = "none"
<1>1. TasksInv /\ PlanInv
  BY Halves
<1>2. CASE \E slots \in SUBSET SlotsOf(r) \ {{}} : \E excluded \in SUBSET slots :
              StartBatch(r, slots, excluded)
  <2> PICK slots \in SUBSET SlotsOf(r) \ {{}} :
              \E excluded \in SUBSET slots : StartBatch(r, slots, excluded)
    BY <1>2
  <2>1. PICK excluded \in SUBSET slots : StartBatch(r, slots, excluded)
    OBVIOUS
  <2>2. TasksInv' /\ UNCHANGED plan
    BY <1>1, <2>1, StartBatchKeeps DEF StartBatch
  <2>3. \A s \in Slot : at'[s] = at[s] \/ (at'[s] = "gate" /\ at[s] = "none")
    BY <2>1 DEF StartBatch, Tasks, SlotsOf
  <2> QED
    BY <1>1, <2>2, <2>3, PlanUntouched, Halves
<1>3. CASE StartDrive(r) \/ Stop(r) \/ Abort(r) \/ Return(r) \/ EndDrive(r) \/ DropDrive(r)
  <2>1. TasksInv' /\ UNCHANGED <<at, plan>>
    BY <1>1, <1>3, DriveKeeps DEF StartDrive, Stop, Abort, Return, EndDrive, DropDrive
  <2> QED
    BY <1>1, <2>1, PlanUntouched, Halves
<1> QED
  BY <1>2, <1>3 DEF RuntimeStep

\* Only the scope gate lets a call pass it, within the agreed scope.
LEMMA GateStepKeeps ==
    ASSUME IInv, NEW s \in Slot, GateStep(s)
    PROVE  /\ IInv' /\ \A t \in Slot : t # s => at'[t] = at[t]
           /\ (PassesScope(s) /\ scope.approved) => todos.titles \subseteq Agreed'
<1>1. /\ TasksInv /\ PlanInv /\ at \in [Slot -> Waiting \union {"none", "claim", "read", "write"}]
      /\ s \in DOMAIN at
  BY Halves DEF TasksInv, TasksOK
<1>2. ASSUME End(s)
      PROVE  TasksInv' /\ at'[s] = "none" /\ \A t \in Slot : t # s => at'[t] = at[t]
  BY <1>1, <1>2, EndKeeps DEF End, Goto
<1>3. ASSUME End(s), UNCHANGED plan
      PROVE  IInv' /\ at'[s] = "none" /\ \A t \in Slot : t # s => at'[t] = at[t]
  BY <1>1, <1>2, <1>3, PlanUntouched, Halves
<1>4. ASSUME NEW l \in {"confirm", "scope", "claim", "set", "question", "approve", "busy"},
             l = "claim" => IsWrite(s), l = "set" => job[s].kind = "plan", PastGate(s) \/ GateFree(s),
             at[s] \in {"gate", "confirm", "question"}, Goto(s, l),
             UNCHANGED <<drive, stopped, budget, job, mark, files, plan>>
      PROVE  IInv' /\ ~ PassesScope(s) /\ \A t \in Slot : t # s => at'[t] = at[t]
  <2>1. TasksInv'
    BY <1>1, <1>4, MoveKeeps DEF Waiting, InFile
  <2>2. at' = [at EXCEPT ![s] = l] /\ at'[s] # "asking"
    BY <1>1, <1>4 DEF Goto
  <2> QED
    BY <1>1, <1>4, <2>1, <2>2, PlanUntouched, Halves DEF PassesScope
<1>5. /\ ToolStage(s) \in {"claim", "set", "question", "busy"} /\ (ToolStage(s) = "claim" => IsWrite(s))
      /\ (ToolStage(s) = "set" => job[s].kind = "plan")
      /\ ScopeStage(s) \in {"scope", ToolStage(s)} /\ FirstStage(s) \in {"confirm", ScopeStage(s)}
  BY DEF ToolStage, ScopeStage, FirstStage
<1>6. CASE DropTask(s)
  <2>1. End(s)
    BY <1>6 DEF DropTask
  <2> QED
    BY <1>2, <1>6, <2>1, CardEndsKeeps DEF PassesScope
<1>7. CASE PassGate(s)
  BY <1>4, <1>5, <1>7 DEF PassGate
<1>8. CASE LeaveGate(s)
  BY <1>3, <1>8 DEF LeaveGate, PassesScope
<1>9. CASE ConfirmWrite(s)
  <2>1. at[s] = "confirm" /\ PastGate(s)
    BY <1>9 DEF ConfirmWrite, PastGate
  <2>2. CASE End(s) /\ UNCHANGED plan
    BY <1>3, <2>2 DEF PassesScope
  <2>3. CASE /\ Goto(s, ScopeStage(s))
             /\ UNCHANGED <<drive, stopped, budget, job, mark, files, plan>>
    BY <1>4, <1>5, <2>1, <2>3
  <2> QED
    BY <1>9, <2>2, <2>3 DEF ConfirmWrite
<1>10. CASE EnterScope(s)
  <2>1. \A t \in Slot : t # s => at'[t] = at[t]
    BY <1>1, <1>10 DEF EnterScope, End, Goto
  <2> QED
    BY <1>10, <2>1, EnterScopeKeeps DEF PassesScope
<1>11. CASE DenyScope(s)
  <2>1. End(s)
    BY <1>11 DEF DenyScope
  <2> QED
    BY <1>2, <1>11, <2>1, CardEndsKeeps DEF PassesScope
<1>12. CASE \E always \in BOOLEAN : AllowScope(s, always)
  <2>1. PICK always \in BOOLEAN : AllowScope(s, always)
    BY <1>12
  <2>2. \A t \in Slot : t # s => at'[t] = at[t]
    BY <1>1, <2>1 DEF AllowScope, Goto
  <2> QED
    BY <2>1, <2>2, AllowScopeKeeps
<1>13. CASE SetPlan(s)
  <2>1. End(s)
    BY <1>13 DEF SetPlan
  <2> QED
    BY <1>2, <1>13, <2>1, SetPlanKeeps DEF PassesScope
<1>14. CASE AnswerQuestion(s)
  <2>1. at[s] = "question" /\ PastGate(s)
    BY <1>14 DEF AnswerQuestion, PastGate
  <2>2. CASE End(s) /\ UNCHANGED plan
    BY <1>3, <2>2 DEF PassesScope
  <2>3. CASE /\ Goto(s, "approve")
             /\ UNCHANGED <<drive, stopped, budget, job, mark, files, plan>>
    BY <1>4, <2>1, <2>3
  <2> QED
    BY <1>14, <2>2, <2>3 DEF AnswerQuestion
<1>15. CASE Approve(s)
  <2>1. End(s)
    BY <1>15 DEF Approve
  <2> QED
    BY <1>2, <1>15, <2>1, ApproveKeeps DEF PassesScope
<1> QED
  BY <1>6, <1>7, <1>8, <1>9, <1>10, <1>11, <1>12, <1>13, <1>14, <1>15 DEF GateStep

\* The file tools leave the plan alone and start behind the scope gate.
LEMMA FileStepKeeps ==
    ASSUME IInv, NEW s \in Slot, FileStep(s)
    PROVE  /\ IInv' /\ \A t \in Slot : t # s => at'[t] = at[t]
           /\ at[s] \notin {"scope", "asking"}
<1>1. /\ TasksInv /\ PlanInv /\ s \in DOMAIN at
  BY Halves DEF TasksInv, TasksOK
<1>2. /\ at[s] \notin {"scope", "asking"}
      /\ \E l \in {"none", "locks", "read", "write", "check"} : Goto(s, l)
      /\ UNCHANGED plan
  BY DEF FileStep, Claim, TakeLock, LeaveLocks, Read, Write, WriteFails, EndCheck, EndBusy, End
<1>3. TasksInv'
  <2>1. CASE End(s)
    BY <1>1, <2>1, EndKeeps
  <2>2. CASE Claim(s)
    BY <1>1, <2>2, ClaimKeeps
  <2>3. CASE \E p \in Path : TakeLock(s, p)
    BY <1>1, <2>3, TakeLockKeeps
  <2>4. CASE Read(s) /\ ~ End(s)
    BY <1>1, <2>4, FileKeeps DEF Read, InFile, files
  <2>5. CASE Write(s)
    BY <1>1, <2>5, FileKeeps DEF Write, InFile
  <2> QED
    BY <2>1, <2>2, <2>3, <2>4, <2>5 DEF FileStep, LeaveLocks, WriteFails, EndCheck, EndBusy
<1>4. \A t \in Slot : /\ t # s => at'[t] = at[t]
                      /\ at'[t] = "asking" => at[t] = "asking"
  BY <1>1, <1>2 DEF Goto
<1> QED
  BY <1>1, <1>2, <1>3, <1>4, PlanUntouched, Halves

\* Whatever happens next keeps the invariant, and no call passes the scope gate with a
\* step that was not agreed to.
LEMMA NextKeeps ==
    ASSUME IInv, [Next]_vars
    PROVE  /\ IInv'
           /\ \A s \in Slot : (PassesScope(s) /\ scope.approved) => todos.titles \subseteq Agreed'
<1>1. CASE UNCHANGED vars
  <2>1. UNCHANGED <<drive, stopped, budget, job, at, mark, held, claims, touched, plan>>
    BY <1>1 DEF vars, control, files
  <2>2. TasksInv'
    BY <2>1, Halves DEF TasksInv, TasksOK, StagesAreSound, LocksExclude, ClaimsAreSound, InFile,
                        IsWrite, PastGate
  <2> QED
    BY <2>1, <2>2, PlanUntouched, Halves DEF PassesScope
<1>2. CASE \E r \in Runtime : RuntimeStep(r)
  BY <1>2, RuntimeStepKeeps DEF PassesScope
<1>3. CASE \E s \in Slot : GateStep(s)
  BY <1>3, GateStepKeeps DEF PassesScope
<1>4. CASE \E s \in Slot : FileStep(s)
  BY <1>4, FileStepKeeps DEF PassesScope
<1> QED
  BY <1>1, <1>2, <1>3, <1>4 DEF Next

-----------------------------------------------------------------------------
(* The theorems *)

\* The inductive invariant holds whatever the calls, stops and dropped drives of any
\* number of runtimes do to each other (tools/batch.rs, claims.rs, writelock.rs, plan.rs).
THEOREM BatchInvariant == Spec => []IInv
<1>1. Init => IInv
  BY Initially
<1>2. IInv /\ [Next]_vars => IInv'
  BY NextKeeps
<1> QED
  BY <1>1, <1>2, PTL DEF Spec

\* A file that a sub-agent wrote stays its own while its drive or a task of it lives.
THEOREM ClaimsAreExclusive == Spec => []ClaimsExclude
<1>1. IInv => ClaimsExclude
  <2> SUFFICES ASSUME IInv, NEW a \in Child, NEW b \in Child, a # b,
                      NEW p \in touched[a], NEW q \in touched[b], <<p, q>> \in Clash
               PROVE  FALSE
    BY DEF ClaimsExclude
  <2>1. claims[p] = a /\ claims[q] = b /\ p \in Path /\ q \in Path /\ Nobody \notin {a, b}
    BY SlotAssumption DEF IInv, TypeOK, TasksOK, ClaimsAreSound, Runtime
  <2> QED
    BY <2>1 DEF IInv, ClaimsAreSound
<1> QED
  BY <1>1, BatchInvariant, PTL

\* No two tasks stand between reading and writing the same file, nor do two of
\* sub-agents in overlapping directories.
THEOREM WritersAreExclusive == Spec => []WritersExclude
<1>1. IInv => WritersExclude
  <2> SUFFICES ASSUME IInv, NEW s \in Slot, NEW t \in Slot, s # t, InFile(s), InFile(t),
                      NEW p \in job[s].paths, NEW q \in job[t].paths, <<p, q>> \in Clash
               PROVE  p # q /\ Main \in {RtOf[s], RtOf[t]}
    BY DEF WritersExclude
  <2>1. held[s] = job[s].paths /\ held[t] = job[t].paths /\ IsWrite(s) /\ IsWrite(t)
    BY DEF IInv, StagesAreSound
  <2>2. p # q
    BY <2>1 DEF IInv, LocksExclude
  <2>3. ASSUME Main \notin {RtOf[s], RtOf[t]}
        PROVE  FALSE
    <3>1. RtOf[s] \in Child /\ RtOf[t] \in Child /\ Nobody \notin Child
      BY <2>3, SlotAssumption DEF Runtime
    <3>2. claims[p] = RtOf[s] /\ claims[q] = RtOf[t]
      BY <3>1 DEF IInv, StagesAreSound
    <3>3. p \in Path /\ q \in Path
      BY <2>1, WritesHavePaths DEF IInv, TypeOK
    <3>4. RtOf[s] = RtOf[t]
      BY <3>1, <3>2, <3>3 DEF IInv, ClaimsAreSound
    <3>5. PastGate(s) /\ PastGate(t)
      BY DEF InFile, PastGate
    <3> QED
      BY <2>1, <3>4, <3>5 DEF IInv, LocksExclude
  <2> QED
    BY <2>2, <2>3
<1> QED
  BY <1>1, BatchInvariant, PTL

\* Nothing that may write passes the scope gate under an approved plan as long as the plan
\* has a step that the user neither agreed to nor is a rewording of one.
THEOREM ScopeIsKept == Spec => ScopeIsAsked
<1>1. IInv /\ [Next]_vars =>
        [\A s \in Slot : (PassesScope(s) /\ scope.approved) => todos.titles \subseteq Agreed']_vars
  BY NextKeeps
<1> QED
  BY <1>1, BatchInvariant, PTL DEF Spec, ScopeIsAsked
=============================================================================
