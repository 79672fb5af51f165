------------------------------ MODULE ToolBatch ------------------------------
(***************************************************************************)
(* The tool calls of one step of a run: tools/batch.rs, which executes the *)
(* calls of a batch as parallel tasks, the gates a call passes, and the    *)
(* locks of the file tools.  The runtimes are the main session and its     *)
(* sub-agents, which work in one workspace at the same time.               *)
(*                                                                         *)
(* A call passes, in this order: the gate of its batch (writing calls one  *)
(* at a time, others by a semaphore), the confirmation of a write, the     *)
(* scope gate (steps outside the approved plan need the user's consent),   *)
(* the claim table (sub-agents keep the files they write to themselves)    *)
(* and the write locks of its paths, taken in sorted order.  The batch can *)
(* be stopped, and the whole drive can be dropped, while calls stand       *)
(* anywhere on that way: a task ends when it is next polled, not at once.  *)
(***************************************************************************)
EXTENDS Naturals, FiniteSets

CONSTANTS
    Main,           \* the runtime of the main session
    Child,          \* runtimes of sub-agents; each is driven once
    Slot,           \* places for the calls of a batch
    RtOf,           \* the runtime a slot belongs to
    Menu,           \* Menu[s]: the calls the model may make in slot s
    Path,           \* paths in the order of the write locks: an initial segment of Nat
    Clash,          \* pairs of paths of which one is the other or an ancestor of it
    Title,          \* titles of plan steps, up to numbering and other decoration
    Refines,        \* pairs <<t, b>>: t is another wording of the approved step b
    InitialTodos,   \* plans that the session may be loaded with
    Careful,        \* runtimes in the mode that confirms each write
    Permits,        \* size of the semaphore of a runtime
    Budgets,        \* bound: how many batches each runtime may run, one of several choices
    Nobody

Runtime == {Main} \union Child

WriteKind == {"edit", "delete"}
Job == [kind : WriteKind, paths : (SUBSET Path) \ {{}}]
         \union [kind : {"shell", "busy", "ask"}]
         \union [kind : {"plan"}, titles : SUBSET Title, open : BOOLEAN]

\* What a slot without a task holds.
NoJob == [kind |-> "busy"]

ASSUME PathAssumption == Path \subseteq Nat /\ IsFiniteSet(Path)
ASSUME ClashAssumption ==
    /\ Clash \subseteq Path \X Path
    /\ \A p \in Path : <<p, p>> \in Clash
    /\ \A p, q \in Path : <<p, q>> \in Clash => <<q, p>> \in Clash
ASSUME SlotAssumption ==
    /\ Main \notin Child /\ Nobody \notin Runtime
    /\ RtOf \in [Slot -> Runtime] /\ Menu \in [Slot -> SUBSET Job]
    /\ \A s \in Slot : RtOf[s] # Main =>
         \A j \in Menu[s] : j.kind \notin {"plan", "ask"}
ASSUME PlanAssumption ==
    /\ Refines \subseteq Title \X Title
    /\ \A a, b, c \in Title : (<<a, b>> \in Refines /\ <<b, c>> \in Refines) => <<a, c>> \in Refines
    /\ InitialTodos \subseteq SUBSET Title
    /\ Careful \subseteq Runtime /\ Permits \in Nat \ {0} /\ Budgets \subseteq [Runtime -> Nat]

VARIABLES
    drive,      \* "none", "live" between budget, "batch", "draining" or "gone"
    stopped,    \* the token of the runtime's current drive is cancelled
    budget,     \* batches the runtime may still run
    job,        \* the call in a slot
    at,         \* where its task stands; "none" when there is no task
    mark,       \* "kept" by its batch, "aborted", or "stray": its drive was dropped
    held,       \* write locks of the task
    claims,     \* claim table: the sub-agent that has claimed a path
    todos,      \* the current plan of the main session: titles, and whether a step is open
    scope,      \* approved baseline, expanded and allowed flags, denied titles
    card,       \* new and reworded titles on the card of the scope gate
    consented,  \* history: titles the user has agreed to since the last approval
    touched     \* history: paths a sub-agent wrote while its claims were in force

control == <<drive, stopped, budget, job, at, mark>>
files == <<held, claims, touched>>
plan == <<todos, scope, card, consented>>
vars == <<control, files, plan>>

-----------------------------------------------------------------------------
(* Helpers *)

SlotsOf(r) == {s \in Slot : RtOf[s] = r}
IsWrite(s) == job[s].kind \in WriteKind

\* Which calls go through the scope gate: the file tools, and commands in which
\* the write probe of the fence finds a target.
IsWriteChannel(s) == IsWrite(s) \/ job[s].kind = "shell"

\* A task sees a stopped run through the token of its drive.
Stopped(s) == stopped[RtOf[s]] \/ mark[s] # "kept"

NoCard == [fresh |-> {}, reworded |-> {}]

Goto(s, label) == at' = [at EXCEPT ![s] = label]

\* The gates of a batch are held to the end of the task.
PastGate(s) == at[s] \notin {"none", "gate"}
GateFree(s) ==
    IF IsWrite(s)
    THEN \A t \in SlotsOf(RtOf[s]) : IsWrite(t) => ~ PastGate(t)
    ELSE Cardinality({t \in SlotsOf(RtOf[s]) : ~ IsWrite(t) /\ PastGate(t)}) < Permits

\* The claims of a sub-agent last until its drive and all its tasks are gone.
LeaseEnds(r, tasks) ==
    /\ r \in Child /\ drive'[r] = "gone"
    /\ \A s \in tasks : RtOf[s] # r

Released(tasks) ==
    /\ claims' = [p \in Path |->
                    IF claims[p] \in Child /\ LeaseEnds(claims[p], tasks) THEN Nobody
                    ELSE claims[p]]
    /\ touched' = [r \in Child |-> IF LeaseEnds(r, tasks) THEN {} ELSE touched[r]]

Tasks == {s \in Slot : at[s] # "none"}

\* The task of a slot ends, and with it its locks and its share of the claims.
End(s) ==
    /\ Goto(s, "none")
    /\ held' = [held EXCEPT ![s] = {}]
    /\ job' = [job EXCEPT ![s] = NoJob]
    /\ mark' = [mark EXCEPT ![s] = "kept"]
    /\ UNCHANGED <<drive, stopped, budget>>
    /\ Released(Tasks \ {s})

-----------------------------------------------------------------------------
(* Drives and batches *)

Init ==
    /\ drive = [r \in Runtime |-> "none"]
    /\ stopped = [r \in Runtime |-> FALSE]
    /\ budget \in Budgets
    /\ job = [s \in Slot |-> NoJob]
    /\ at = [s \in Slot |-> "none"]
    /\ mark = [s \in Slot |-> "kept"]
    /\ held = [s \in Slot |-> {}]
    /\ claims = [p \in Path |-> Nobody]
    /\ todos \in [titles : InitialTodos, open : {TRUE}]
    /\ scope = [base |-> {}, approved |-> FALSE, expanded |-> FALSE,
                allowed |-> FALSE, denied |-> {}]
    /\ card = NoCard
    /\ consented = {}
    /\ touched = [r \in Child |-> {}]

\* The main session starts a run; a sub-agent is driven once.  A drive that will run no
\* batch is left out.
StartDrive(r) ==
    /\ budget[r] > 0
    /\ drive[r] = "none" \/ (r = Main /\ drive[r] = "gone")
    /\ drive' = [drive EXCEPT ![r] = "live"]
    /\ stopped' = [stopped EXCEPT ![r] = FALSE]
    /\ UNCHANGED <<budget, job, at, mark, files, plan>>

\* plan_gate_verdict, on the plan as it is when the batch starts.
PlanRefuses == todos.titles = {} \/ ~ todos.open

\* What becomes of a call before its task does anything: a question must be alone,
\* two calls that write the same paths refuse each other, tools that the mode
\* excludes and writes without an open plan are refused.
Refused(r, calls, excluded, s) ==
    \/ s \in excluded
    \/ calls[s].kind \in WriteKind /\
         \/ \E t \in DOMAIN calls \ {s} : /\ calls[t].kind \in WriteKind
                                          /\ calls[t].paths = calls[s].paths
         \/ /\ r = Main /\ PlanRefuses
            /\ \A t \in DOMAIN calls : calls[t].kind # "plan"

\* execute_batch_with_claim_lease: the calls that are not refused become tasks.
\* A batch in which a question is not alone is answered without any.
StartBatch(r, slots, excluded) ==
    /\ drive[r] = "live" /\ ~ stopped[r] /\ budget[r] > 0
    /\ slots \intersect Tasks = {}
    /\ \E calls \in [slots -> UNION {Menu[s] : s \in slots}] :
         LET alone == \A s \in slots : calls[s].kind = "ask" => slots = {s}
             tasks == {s \in slots : alone /\ ~ Refused(r, calls, excluded, s)}
         IN /\ \A s \in slots : calls[s] \in Menu[s]
            /\ job' = [s \in Slot |-> IF s \in tasks THEN calls[s] ELSE job[s]]
            /\ at' = [s \in Slot |-> IF s \in tasks THEN "gate" ELSE at[s]]
            /\ mark' = [s \in Slot |-> IF s \in tasks THEN "kept" ELSE mark[s]]
            /\ drive' = [drive EXCEPT ![r] = "batch"]
    /\ budget' = [budget EXCEPT ![r] = @ - 1]
    /\ UNCHANGED <<stopped, files, plan>>

\* The user stops the run, a parent takes its sub-agents with it.
Stop(r) ==
    /\ drive[r] \in {"live", "batch"} /\ ~ stopped[r]
    /\ stopped' = [stopped EXCEPT ![r] = TRUE]
    /\ UNCHANGED <<drive, budget, job, at, mark, files, plan>>

Running(r) == {s \in SlotsOf(r) \intersect Tasks : mark[s] # "stray"}

\* Fault: the batch only waits for its tasks.
AbortNothing(r) ==
    /\ drive[r] = "batch" /\ stopped[r]
    /\ drive' = [drive EXCEPT ![r] = "draining"]
    /\ UNCHANGED <<stopped, budget, job, at, mark, files, plan>>

\* The batch sees the stop and aborts its tasks.
Abort(r) ==
    /\ drive[r] = "batch" /\ stopped[r]
    /\ drive' = [drive EXCEPT ![r] = "draining"]
    /\ mark' = [s \in Slot |-> IF s \in Running(r) THEN "aborted" ELSE mark[s]]
    /\ UNCHANGED <<stopped, budget, job, at, files, plan>>

\* The last task has been joined; calls without a result are answered as cancelled.
Return(r) ==
    /\ drive[r] \in {"batch", "draining"} /\ Running(r) = {}
    /\ drive' = [drive EXCEPT ![r] = "live"]
    /\ UNCHANGED <<stopped, budget, job, at, mark, files, plan>>

\* The drive ends; its share of the claims goes with it.
EndDrive(r) ==
    /\ drive[r] = "live"
    /\ drive' = [drive EXCEPT ![r] = "gone"]
    /\ Released(Tasks)
    /\ UNCHANGED <<stopped, budget, job, at, mark, held, plan>>

\* Fault: the claims belong to the drive alone.
DropDriveWithClaims(r) ==
    /\ drive[r] \in {"live", "batch", "draining"}
    /\ drive' = [drive EXCEPT ![r] = "gone"]
    /\ stopped' = [stopped EXCEPT ![r] = TRUE]
    /\ mark' = [s \in Slot |-> IF s \in Running(r) THEN "stray" ELSE mark[s]]
    /\ Released(Tasks \ SlotsOf(r))
    /\ UNCHANGED <<budget, job, at, held, plan>>

\* The future of the drive is dropped, by a panic or because the batch of its parent
\* was aborted: the token is cancelled and the tasks are aborted, but nobody waits
\* for them.
DropDrive(r) ==
    /\ drive[r] \in {"live", "batch", "draining"}
    /\ drive' = [drive EXCEPT ![r] = "gone"]
    /\ stopped' = [stopped EXCEPT ![r] = TRUE]
    /\ mark' = [s \in Slot |-> IF s \in Running(r) THEN "stray" ELSE mark[s]]
    /\ Released(Tasks)
    /\ UNCHANGED <<budget, job, at, held, plan>>

\* Where a task waits: an abort takes effect there and nowhere else.
Waiting == {"gate", "confirm", "scope", "asking", "locks", "check", "busy", "set",
            "question", "approve"}

\* An aborted task is dropped at the point where it waits, a card with it.
DropTask(s) ==
    /\ at[s] \in Waiting /\ mark[s] # "kept"
    /\ card' = IF at[s] = "asking" THEN NoCard ELSE card
    /\ End(s) /\ UNCHANGED <<todos, scope, consented>>

-----------------------------------------------------------------------------
(* From the gate to the tool *)

\* The stage after the gate, after the confirmation, and after the scope gate.
ToolStage(s) ==
    CASE IsWrite(s) -> "claim"
      [] job[s].kind = "plan" -> "set"
      [] job[s].kind = "ask" -> "question"
      [] OTHER -> "busy"
ScopeStage(s) == IF RtOf[s] = Main /\ IsWriteChannel(s) THEN "scope" ELSE ToolStage(s)
FirstStage(s) == IF IsWrite(s) /\ RtOf[s] \in Careful THEN "confirm" ELSE ScopeStage(s)

\* The gate is free: the task goes on.
PassGate(s) ==
    /\ at[s] = "gate" /\ GateFree(s) /\ ~ Stopped(s)
    /\ Goto(s, FirstStage(s))
    /\ UNCHANGED <<drive, stopped, budget, job, mark, files, plan>>

\* The run is stopped while the task waits, or run_tool refuses the call: a duty that
\* is read only, a missing design, paths that belong to another unit of the workflow.
LeaveGate(s) ==
    /\ at[s] = "gate" /\ (Stopped(s) \/ GateFree(s))
    /\ End(s) /\ UNCHANGED plan

\* Approval of the write; no answer, a denial and a stop end the call.
ConfirmWrite(s) ==
    /\ at[s] = "confirm"
    /\ \/ /\ Goto(s, ScopeStage(s))
          /\ UNCHANGED <<drive, stopped, budget, job, mark, files, plan>>
       \/ End(s) /\ UNCHANGED plan

\* classify_new_todos: steps of the plan that the baseline does not know, and those
\* among them that only reword a step of it.
Reworded(t) == \E b \in scope.base : <<t, b>> \in Refines
Unknown == todos.titles \ scope.base
Refinements == {t \in Unknown : Reworded(t)}
NewTitles == {t \in Unknown : ~ Reworded(t)}

GateCloses == scope.approved /\ scope.expanded /\ ~ scope.allowed
ScopeLockFree == \A s \in Slot : at[s] # "asking"

\* The scope gate, evaluated under scope_gate_lock: it is open, or there is nothing new
\* any more, or the user has denied all of it before, or a card is opened, with the
\* lock kept.
EnterScope(s) ==
    /\ at[s] = "scope" /\ ScopeLockFree
    /\ \/ /\ ~ GateCloses
          /\ Goto(s, ToolStage(s))
          /\ UNCHANGED <<drive, stopped, budget, job, mark, files, plan>>
       \/ /\ GateCloses /\ NewTitles = {}
          /\ scope' = [scope EXCEPT !.expanded = FALSE, !.base = @ \union Refinements]
          /\ Goto(s, ToolStage(s))
          /\ UNCHANGED <<drive, stopped, budget, job, mark, files, todos, card, consented>>
       \/ /\ GateCloses /\ NewTitles # {} /\ NewTitles \subseteq scope.denied
          /\ End(s) /\ UNCHANGED plan
       \/ /\ GateCloses /\ ~ NewTitles \subseteq scope.denied
          /\ card' = [fresh |-> NewTitles, reworded |-> Refinements]
          /\ Goto(s, "asking")
          /\ UNCHANGED <<drive, stopped, budget, job, mark, files, todos, scope, consented>>

\* The user allows the steps shown, for this time or for all to come (or has chosen to
\* let a card be confirmed by its timeout).
AllowScope(s, always) ==
    /\ at[s] = "asking"
    /\ scope' = [scope EXCEPT !.base = @ \union card.fresh \union card.reworded,
                              !.allowed = @ \/ always, !.expanded = FALSE]
    /\ consented' = IF always THEN Title ELSE consented \union card.fresh
    /\ card' = NoCard
    /\ Goto(s, ToolStage(s))
    /\ UNCHANGED <<drive, stopped, budget, job, mark, files, todos>>

\* The user denies them; a stop that the card sees counts as a denial.
DenyScope(s) ==
    /\ at[s] = "asking"
    /\ scope' = [scope EXCEPT !.denied = @ \union card.fresh]
    /\ card' = NoCard
    /\ End(s) /\ UNCHANGED <<todos, consented>>

-----------------------------------------------------------------------------
(* The plan and the approval of a plan *)

\* The new plan goes beyond the approved one.
Expands(titles) ==
    scope.approved /\ ~ scope.allowed
    /\ \E t \in titles \ scope.base : ~ Reworded(t)

\* Fault: the plan is replaced without waiting for an open card.
SetPlanUnlocked(s) ==
    /\ at[s] = "set"
    /\ todos' = [titles |-> job[s].titles, open |-> job[s].open]
    /\ scope' = [scope EXCEPT !.expanded = @ \/ Expands(job[s].titles)]
    /\ End(s) /\ UNCHANGED <<card, consented>>

\* The plan tool replaces the plan, under the lock of the scope gate.
SetPlan(s) ==
    /\ at[s] = "set" /\ ScopeLockFree
    /\ todos' = [titles |-> job[s].titles, open |-> job[s].open]
    /\ scope' = [scope EXCEPT !.expanded = @ \/ Expands(job[s].titles)]
    /\ End(s) /\ UNCHANGED <<card, consented>>

\* The user approves the plan of the session, if there is one; every other answer, a
\* stop, and an approval that the preconditions refuse end the question.
AnswerQuestion(s) ==
    /\ at[s] = "question"
    /\ \/ /\ todos.titles # {}
          /\ Goto(s, "approve")
          /\ UNCHANGED <<drive, stopped, budget, job, mark, files, plan>>
       \/ End(s) /\ UNCHANGED plan

\* The approved titles become the baseline; what was allowed or denied before is void.
Approve(s) ==
    /\ at[s] = "approve" /\ ScopeLockFree
    /\ scope' = [base |-> todos.titles, approved |-> TRUE, expanded |-> FALSE,
                 allowed |-> FALSE, denied |-> {}]
    /\ consented' = todos.titles
    /\ End(s) /\ UNCHANGED <<todos, card>>

-----------------------------------------------------------------------------
(* The file tools *)

\* Fault: only the path itself is compared.
ConflictSamePath(r, p) == claims[p] \notin {Nobody, r}

\* Another sub-agent holds the path or one that contains it or lies in it.  A path
\* that the sub-agent has claimed itself is not looked at again.
Conflict(r, p) ==
    /\ claims[p] # r
    /\ \E q \in Path : <<p, q>> \in Clash /\ claims[q] \notin {Nobody, r}

\* The tool checks its paths and claims all of them or none; the main session needs no
\* claim.  It may refuse the call for its arguments or for a path outside the roots.
Claim(s) ==
    /\ at[s] = "claim"
    /\ \/ /\ RtOf[s] \in Child
          /\ \A p \in job[s].paths : ~ Conflict(RtOf[s], p)
          /\ claims' = [p \in Path |-> IF p \in job[s].paths THEN RtOf[s] ELSE claims[p]]
          /\ Goto(s, "locks")
          /\ UNCHANGED <<drive, stopped, budget, job, mark, held, touched, plan>>
       \/ /\ RtOf[s] = Main
          /\ Goto(s, "locks")
          /\ UNCHANGED <<drive, stopped, budget, job, mark, files, plan>>
       \/ End(s) /\ UNCHANGED plan

LockFree(p) == \A t \in Slot : p \notin held[t]

\* Fault: the locks are taken in the order of the arguments.
TakeAnyLock(s, p) ==
    /\ at[s] = "locks" /\ ~ Stopped(s)
    /\ p \in job[s].paths \ held[s] /\ LockFree(p)
    /\ held' = [held EXCEPT ![s] = @ \union {p}]
    /\ Goto(s, IF held'[s] = job[s].paths THEN "read" ELSE "locks")
    /\ UNCHANGED <<drive, stopped, budget, job, mark, claims, touched, plan>>

\* acquire_all: the write locks are taken one by one in the order of the paths.
TakeLock(s, p) ==
    /\ at[s] = "locks" /\ ~ Stopped(s)
    /\ p \in job[s].paths \ held[s] /\ LockFree(p)
    /\ \A q \in job[s].paths : q < p => q \in held[s]
    /\ held' = [held EXCEPT ![s] = @ \union {p}]
    /\ Goto(s, IF held'[s] = job[s].paths THEN "read" ELSE "locks")
    /\ UNCHANGED <<drive, stopped, budget, job, mark, claims, touched, plan>>

\* A stop ends the wait for the next lock.
LeaveLocks(s) ==
    /\ at[s] = "locks" /\ Stopped(s)
    /\ End(s) /\ UNCHANGED plan

\* All locks are held: the tool reads the files and prepares what it will write, or
\* finds that it cannot.
Read(s) ==
    /\ at[s] = "read"
    /\ \/ /\ Goto(s, "write")
          /\ UNCHANGED <<drive, stopped, budget, job, mark, files, plan>>
       \/ End(s) /\ UNCHANGED plan

\* It writes what it prepared, with no await since it read.  An edit then checks what
\* it wrote; a deletion has nothing to check and returns.
Write(s) ==
    /\ at[s] = "write"
    /\ Goto(s, "check")
    /\ touched' = [r \in Child |-> IF r = RtOf[s] THEN touched[r] \union job[s].paths
                                   ELSE touched[r]]
    /\ UNCHANGED <<drive, stopped, budget, job, mark, held, claims, plan>>

\* A write that fails is rolled back.
WriteFails(s) ==
    /\ at[s] = "write"
    /\ End(s) /\ UNCHANGED plan

\* The checks end by themselves or by their time limit, with the locks still held.
EndCheck(s) ==
    /\ at[s] = "check"
    /\ End(s) /\ UNCHANGED plan

\* A command, an MCP call or a sub-agent ends; nothing bounds how long that takes.
EndBusy(s) ==
    /\ at[s] = "busy"
    /\ End(s) /\ UNCHANGED plan

-----------------------------------------------------------------------------
(* Specification *)

RuntimeStep(r) ==
    \/ StartDrive(r) \/ Stop(r) \/ Abort(r) \/ Return(r) \/ EndDrive(r) \/ DropDrive(r)
    \/ \E slots \in SUBSET SlotsOf(r) \ {{}} :
         \E excluded \in SUBSET slots : StartBatch(r, slots, excluded)

GateStep(s) ==
    \/ DropTask(s) \/ PassGate(s) \/ LeaveGate(s) \/ ConfirmWrite(s) \/ EnterScope(s)
    \/ DenyScope(s) \/ \E always \in BOOLEAN : AllowScope(s, always)
    \/ SetPlan(s) \/ AnswerQuestion(s) \/ Approve(s)

FileStep(s) ==
    \/ Claim(s) \/ LeaveLocks(s) \/ Read(s) \/ Write(s) \/ WriteFails(s) \/ EndCheck(s)
    \/ EndBusy(s) \/ \E p \in Path : TakeLock(s, p)

Next ==
    \/ \E r \in Runtime : RuntimeStep(r)
    \/ \E s \in Slot : GateStep(s) \/ FileStep(s)

Spec == Init /\ [][Next]_vars

\* The executor polls every task that can go on, a write lock is a FIFO mutex, checks
\* have a time limit, and the loop of a batch notices a stop and the end of its tasks.
\* Nothing is assumed of the user, of commands or of new batches.
FileProgress(s) ==
    \/ DropTask(s) \/ Claim(s) \/ LeaveLocks(s) \/ Read(s) \/ Write(s) \/ WriteFails(s)
    \/ EndCheck(s)

Fairness ==
    /\ \A r \in Runtime : WF_vars(Abort(r) \/ Return(r))
    /\ \A s \in Slot : /\ WF_vars(FileProgress(s))
                      /\ SF_vars(\E p \in Path : TakeLock(s, p))

FairSpec == Spec /\ Fairness

-----------------------------------------------------------------------------
(* Properties *)

TasksOK ==
    /\ drive \in [Runtime -> {"none", "live", "batch", "draining", "gone"}]
    /\ stopped \in [Runtime -> BOOLEAN]
    /\ budget \in [Runtime -> Nat]
    /\ job \in [Slot -> Job]
    /\ at \in [Slot -> Waiting \union {"none", "claim", "read", "write"}]
    /\ mark \in [Slot -> {"kept", "aborted", "stray"}]
    /\ held \in [Slot -> SUBSET Path]
    /\ claims \in [Path -> Child \union {Nobody}]
    /\ touched \in [Child -> SUBSET Path]

PlanOK ==
    /\ todos \in [titles : SUBSET Title, open : BOOLEAN]
    /\ scope \in [base : SUBSET Title, approved : BOOLEAN, expanded : BOOLEAN,
                  allowed : BOOLEAN, denied : SUBSET Title]
    /\ card \in [fresh : SUBSET Title, reworded : SUBSET Title]
    /\ consented \in SUBSET Title

TypeOK == TasksOK /\ PlanOK

\* Under an approved plan nothing that may write gets past the scope gate while the plan
\* has a step that the user neither agreed to nor is a rewording of one, whatever
\* calls, plans and answers come in between.
Agreed == consented \union {t \in Title : \E b \in consented : <<t, b>> \in Refines}
PassesScope(s) == at[s] \in {"scope", "asking"} /\ at'[s] \notin {"none", "scope", "asking"}
ScopeIsAsked ==
    [][\A s \in Slot : (PassesScope(s) /\ scope.approved) => todos.titles \subseteq Agreed']_vars

\* A file that a sub-agent has written stays its own as long as its drive or any of its
\* tasks lives: no other sub-agent writes it, an ancestor of it, or something in it.
ClaimsExclude ==
    \A a, b \in Child : a # b =>
        \A p \in touched[a], q \in touched[b] : <<p, q>> \notin Clash

\* Between the reading and the writing of one task no other task writes the same file,
\* or, among sub-agents, an ancestor of it or something in it.
InFile(s) == at[s] \in {"read", "write", "check"}
WritersExclude ==
    \A s, t \in Slot : (s # t /\ InFile(s) /\ InFile(t)) =>
        \A p \in job[s].paths, q \in job[t].paths :
            <<p, q>> \in Clash => p # q /\ Main \in {RtOf[s], RtOf[t]}

\* Each stage of a call is reached by the calls it is for, with what it asks for in hand.
StagesAreSound ==
    \A s \in Slot :
        /\ at[s] \in {"claim", "locks"} \/ InFile(s) => IsWrite(s)
        /\ at[s] = "set" => job[s].kind = "plan"
        /\ InFile(s) => held[s] = job[s].paths
        /\ held[s] # {} => at[s] = "locks" \/ InFile(s)
        /\ (at[s] = "locks" \/ InFile(s)) /\ RtOf[s] \in Child
           => \A p \in job[s].paths : claims[p] = RtOf[s]

\* The write gate of a runtime, the write locks and the lock of the scope gate are mutexes.
LocksExclude ==
    \A s, t \in Slot : s # t =>
        /\ RtOf[s] = RtOf[t] /\ IsWrite(s) /\ IsWrite(t) => ~ (PastGate(s) /\ PastGate(t))
        /\ held[s] \intersect held[t] = {}
        /\ ~ (at[s] = "asking" /\ at[t] = "asking")

\* Claims of different sub-agents never overlap, and cover what was written.
ClaimsAreSound ==
    /\ \A p, q \in Path :
         (<<p, q>> \in Clash /\ Nobody \notin {claims[p], claims[q]}) => claims[p] = claims[q]
    /\ \A r \in Child : \A p \in touched[r] : claims[p] = r

\* The baseline holds nothing but what was agreed to; a plan that is not marked as
\* expanded stays within it; an open card shows all that is new.
ScopeIsSound ==
    /\ scope.base \subseteq Agreed
    /\ scope.allowed => consented = Title
    /\ (scope.approved /\ ~ scope.allowed /\ ~ scope.expanded) => NewTitles = {}
    /\ \A s \in Slot : at[s] = "asking" => card = [fresh |-> NewTitles, reworded |-> Refinements]

\* The inductive invariant behind the three properties above.
IInv == TypeOK /\ StagesAreSound /\ LocksExclude /\ ClaimsAreSound /\ ScopeIsSound

\* A stopped batch returns, whatever its calls are doing.
StopReturns ==
    \A r \in Runtime :
        (drive[r] \in {"batch", "draining"} /\ stopped[r]) ~> drive[r] \notin {"batch", "draining"}

\* No task waits for write locks for ever, without anybody stopping it.
LocksAreGranted == \A s \in Slot : at[s] = "locks" ~> at[s] # "locks"
=============================================================================
