----------------------------- MODULE McpManager -----------------------------
(***************************************************************************)
(* The pool of MCP connections (mcp/manager.rs), the operations on it      *)
(* (mcp/service.rs, host/commands/mcp.rs) and the calls of the agents.     *)
(*                                                                         *)
(* The sessions of one application share the servers of a configuration    *)
(* file.  Each session registers the servers it sees; an entry of the pool *)
(* is connected as long as a session refers to it, the user approved its   *)
(* configuration and the file still says so.  The pool is guarded by one   *)
(* lock that nobody holds across a handshake, CONFIG_COMMIT serializes     *)
(* most operations, and what a step learned under a lock is checked again  *)
(* by the generation of the entry.  A model calls a tool by the definition *)
(* that was current when its request was built.                            *)
(*                                                                         *)
(* One configuration file, one tool for each server, approvals for this    *)
(* start of the application only; the dropped service of an entry is       *)
(* closed by a detached task that touches nothing else.                    *)
(***************************************************************************)
EXTENDS Integers, FiniteSets

CONSTANTS
    Session,
    Agent,      \* the sessions with a running agent (a bound)
    Server,     \* names in the configuration file
    Cmd,        \* what a configuration starts
    Document,   \* the texts the user gives the file
    MaxServers, \* max_servers
    Caller,     \* operations of the user under way at once (a bound)
    Task,       \* spawned connections under way at once (a bound)
    MaxOps,     \* operations of the user (a bound)
    NoCfg, NoConn, Nobody

\* always_allow is the part of a configuration that a call may change.
Cfg == [cmd : Cmd, always : BOOLEAN]
\* The enabled servers.
File == [Server -> Cfg \union {NoCfg}]
\* A connection is named by the generation it was made in.
Conn == [gen : Nat, cfg : Cfg]

ASSUME McpAssumption ==
    /\ Document \subseteq File /\ Agent \subseteq Session
    /\ NoCfg \notin Cfg /\ NoConn \notin Conn /\ Nobody \notin Caller \union Session
    /\ MaxServers \in Nat /\ MaxOps \in Nat
    /\ IsFiniteSet(Server)

VARIABLES
    disk,       \* the configuration file
    life,       \* AgentCore::sessions
    commit,     \* CONFIG_COMMIT
    op,         \* the operation each caller is in
    ops         \* operations so far

\* McpManager
VARIABLES
    grant,      \* LaunchRegistry: the configuration approved for each server
    sessions,   \* the sessions registered
    seen,       \* their visible sets
    known,      \* the keys of the pool
    pool,       \* its entries
    task        \* the spawned calls of ensure_at

\* The agents.
VARIABLES
    listed,     \* snapshots: the definitions of each session's last request
    call        \* the MCP call of each session

\* History.
VARIABLES
    outrun,     \* entries that were last given a configuration the file no longer had
    forsaken    \* entries given one by a connect_named that connects others only, or left
                \* busy by a permit that was given up half way, until a task is admitted

registry == <<sessions, seen, known>>
agents == <<listed, call>>
vars == <<disk, life, commit, op, ops, grant, registry, pool, task, agents, outrun, forsaken>>

Nothing == [s \in Server |-> NoCfg]

State == {"starting", "ready", "stopped", "evicted", "error"}

Blank(cfg) == [cfg |-> cfg, launch |-> NoCfg, state |-> "starting", gen |-> 0,
               busy |-> FALSE, conn |-> NoConn, users |-> {}]

Idle == [pc |-> "idle", todo |-> {}, who |-> Nobody, want |-> Nothing, pending |-> Nothing,
         only |-> {}]
NoTask == [pc |-> "none"]
NoCall == [pc |-> "none"]

Init ==
    /\ disk \in Document
    /\ grant \in {Nothing, disk}
    /\ life = [x \in Session |-> "open"]
    /\ commit = Nobody
    /\ op = [c \in Caller |-> Idle] /\ ops = 0
    /\ sessions = {} /\ seen = [x \in Session |-> {}]
    /\ known = {} /\ pool = [s \in Server |-> Blank(NoCfg)]
    /\ task = [t \in Task |-> NoTask]
    /\ listed = [x \in Session |-> {}] /\ call = [x \in Session |-> NoCall]
    /\ outrun = {} /\ forsaken = {}

-----------------------------------------------------------------------------
(* Entries and permits *)

\* clear_connection, by callers that have taken the service out.
Cleared(e) == [e EXCEPT !.launch = NoCfg, !.busy = FALSE, !.conn = NoConn, !.gen = @ + 1]
Stopped(e) == [Cleared(e) EXCEPT !.state = "stopped"]

\* Permits share a token with the registry: one that the registry gives up is void in every
\* copy of it, in the tasks and in the entries.
Voided(S) == [t \in Task |-> IF task[t].pc # "none" /\ task[t].server \in S
                             THEN [task[t] EXCEPT !.permit = NoCfg] ELSE task[t]]

\* entry_ready
Ready(s) == s \in known /\ pool[s].state = "ready" /\ pool[s].launch = pool[s].cfg

-----------------------------------------------------------------------------
(* apply_sessions: the sessions X see exactly what want configures *)

Left(x, s, want) == s \in seen[x] /\ want[s] = NoCfg
Lost(X, want) ==
    {s \in known : /\ \E x \in X : Left(x, s, want)
                   /\ pool[s].users \subseteq {x \in X : Left(x, s, want)}}
\* Fault: an entry that is being connected keeps its configuration.
ChangedUnlessBusy(want) ==
    {s \in known : want[s] \notin {NoCfg, pool[s].cfg} /\ ~ pool[s].busy}
Changed(want) == {s \in known : want[s] \notin {NoCfg, pool[s].cfg}}
New(want) == {s \in Server \ known : want[s] # NoCfg}
Users(X, s, want) ==
    IF want[s] = NoCfg THEN pool[s].users \ {x \in X : Left(x, s, want)}
                       ELSE pool[s].users \union X

Applied(X, want) ==
    [s \in Server |->
        LET e == [(IF s \in known THEN pool[s] ELSE Blank(want[s])) EXCEPT
                     !.users = Users(X, s, want)]
        IN CASE s \in Lost(X, want) -> Stopped(e)
             [] s \in Changed(want) -> [Cleared(e) EXCEPT !.cfg = want[s], !.state = "starting"]
             [] OTHER -> e]

\* What is left to connect.  Where sessions are only brought up to date, that is what changed.
Pending(X, want, all) ==
    [s \in Server |->
        IF /\ all \/ s \in Changed(want) \union New(want)
           /\ Applied(X, want)[s].state # "ready" /\ ~ Applied(X, want)[s].busy
        THEN want[s] ELSE NoCfg]

\* The names are those the caller goes on to connect.
Apply(X, want, names) ==
    LET moved == Changed(want) \union New(want)
        revoked == {s \in Changed(want) : grant[s] # want[s]}
    IN /\ sessions' = sessions \union X
       /\ seen' = [x \in Session |-> IF x \in X THEN {s \in Server : want[s] # NoCfg}
                                                ELSE seen[x]]
       /\ known' = known \union New(want)
       /\ pool' = Applied(X, want)
       /\ grant' = [s \in Server |-> IF s \in revoked THEN NoCfg ELSE grant[s]]
       /\ task' = Voided(revoked)
       /\ outrun' = {s \in outrun : want[s] = NoCfg}
                     \union {s \in Server : want[s] \notin {NoCfg, disk[s]}}
       /\ forsaken' = (forsaken \ moved) \union (moved \ names)

\* connect_pending comes next, then the other sessions of an approval.
GoesOn(c, o) ==
    /\ op' = [op EXCEPT ![c] =
                  LET more == IF o.todo = {} THEN Idle ELSE [o EXCEPT !.who = Nobody]
                  IN IF o.pending # Nothing
                     THEN [more EXCEPT !.pc = "spawn", !.pending = o.pending]
                     ELSE IF o.todo # {} THEN [more EXCEPT !.pc = "name"] ELSE Idle]
    /\ commit' = IF commit = c /\ o.pending = Nothing THEN Nobody ELSE commit

-----------------------------------------------------------------------------
(* Operations of the user *)

\* Which name an operation goes by does not matter, nor which one a task.
IdleCaller == {c \in Caller : op[c].pc = "idle"}
FreeTask == {t \in Task : task[t].pc = "none"}

Begin(c) ==
    /\ c \in IdleCaller /\ c = CHOOSE d \in IdleCaller : TRUE
    /\ ops < MaxOps /\ ops' = ops + 1

\* save_configuration: the file is replaced, and approvals of what it no longer says void.
Save(c, new) ==
    /\ Begin(c) /\ commit = Nobody /\ new # disk
    /\ disk' = new
    /\ LET void == {s \in Server : grant[s] # new[s]}
       IN /\ grant' = [s \in Server |-> IF s \in void THEN NoCfg ELSE grant[s]]
          /\ task' = Voided(void)
          /\ pool' = [s \in Server |-> IF s \in void THEN [pool[s] EXCEPT !.launch = NoCfg]
                                                     ELSE pool[s]]
    /\ op' = [op EXCEPT ![c] = [Idle EXCEPT !.pc = "saved"]]
    /\ UNCHANGED <<life, commit, registry, agents, outrun, forsaken>>

\* After the guard is dropped: which sessions there are and what they see.
CollectSaved(c) ==
    /\ op[c].pc = "saved"
    /\ op' = [op EXCEPT ![c] = [@ EXCEPT !.pc = "reconcile", !.want = disk,
                                         !.todo = {x \in Session : life[x] # "gone"}]]
    /\ UNCHANGED <<disk, life, commit, ops, grant, registry, pool, task, agents, outrun, forsaken>>

Reconcile(c) ==
    /\ op[c].pc = "reconcile"
    /\ LET X == op[c].todo \intersect sessions
       IN IF X = {}
          THEN /\ op' = [op EXCEPT ![c] = Idle]
               /\ UNCHANGED <<commit, grant, registry, pool, task, outrun, forsaken>>
          ELSE /\ Apply(X, op[c].want, Server)
               /\ GoesOn(c, [op[c] EXCEPT !.todo = {}, !.pending = Pending(X, op[c].want, FALSE)])
    /\ UNCHANGED <<disk, life, ops, agents>>

\* mcp_connect of all servers (warm), under CONFIG_COMMIT until they are spawned.
Warm(c, x) ==
    /\ Begin(c) /\ commit = Nobody /\ life[x] = "open"
    /\ Apply({x}, disk, Server)
    /\ LET pending == Pending({x}, disk, TRUE)
       IN /\ op' = [op EXCEPT ![c] = IF pending = Nothing THEN Idle
                                     ELSE [Idle EXCEPT !.pc = "spawn", !.pending = pending]]
          /\ commit' = IF pending = Nothing THEN Nobody ELSE c
    /\ UNCHANGED <<disk, life, agents>>

\* connect_named reads the desired set: what the session has, and the named server as in
\* the file.
Desired(x, s, visible) ==
    [r \in Server |-> IF r = s THEN visible[r]
                      ELSE IF r \in seen[x] /\ r \in known THEN pool[r].cfg ELSE NoCfg]

Registering(x, s) == [Idle EXCEPT !.pc = "register", !.who = x, !.only = {s},
                                   !.want = Desired(x, s, disk)]

\* mcp_connect of one server, under CONFIG_COMMIT.
Connect(c, x, s) ==
    /\ Begin(c) /\ commit = Nobody /\ life[x] = "open"
    /\ commit' = c
    /\ op' = [op EXCEPT ![c] = Registering(x, s)]
    /\ UNCHANGED <<disk, life, grant, registry, pool, task, agents, outrun, forsaken>>

\* mcp_reconnect: disconnect gives CONFIG_COMMIT back first.
Reconnect(c, x, s) ==
    /\ Begin(c) /\ commit = Nobody /\ life[x] = "open" /\ disk[s] # NoCfg
    /\ pool' = IF s \in known THEN [pool EXCEPT ![s] = Stopped(@)] ELSE pool
    /\ op' = [op EXCEPT ![c] = [Idle EXCEPT !.pc = "reconnect", !.who = x, !.only = {s}]]
    /\ UNCHANGED <<disk, life, commit, grant, registry, task, agents, outrun, forsaken>>

ConnectAgain(c) ==
    /\ op[c].pc = "reconnect" /\ commit = Nobody
    /\ \E s \in op[c].only :
          IF life[op[c].who] = "open"
          THEN commit' = c /\ op' = [op EXCEPT ![c] = Registering(op[c].who, s)]
          ELSE op' = [op EXCEPT ![c] = Idle] /\ UNCHANGED commit
    /\ UNCHANGED <<disk, life, ops, grant, registry, pool, task, agents, outrun, forsaken>>

\* The second half of connect_named: the lock of the pool was free in between.
Register(c) ==
    /\ op[c].pc = "register"
    /\ LET o == op[c]
           pending == Pending({o.who}, o.want, TRUE)
       IN /\ Apply({o.who}, o.want, o.only)
          /\ GoesOn(c, [o EXCEPT !.pending = [s \in Server |-> IF s \in o.only THEN pending[s]
                                                               ELSE NoCfg]])
    /\ UNCHANGED <<disk, life, ops, agents>>

\* One server is handed to a task, with the generation it has by now.
Spawn(c, s, t) ==
    /\ op[c].pc = "spawn" /\ op[c].pending[s] # NoCfg
    /\ t \in FreeTask /\ t = CHOOSE u \in FreeTask : TRUE
    /\ task' = [task EXCEPT ![t] = [pc |-> "queued", server |-> s, cfg |-> op[c].pending[s],
                                    gen |-> pool[s].gen, permit |-> NoCfg]]
    /\ GoesOn(c, [op[c] EXCEPT !.pending[s] = NoCfg])
    /\ UNCHANGED <<disk, life, ops, grant, registry, pool, agents, outrun, forsaken>>

\* The user approves what the file says of a server; a different approval is replaced.
Approve(c, s) ==
    /\ Begin(c) /\ commit = Nobody /\ disk[s] # NoCfg
    /\ grant' = [grant EXCEPT ![s] = disk[s]]
    /\ task' = IF grant[s] = disk[s] THEN task ELSE Voided({s})
    /\ pool' = [pool EXCEPT ![s].launch = IF s \in known /\ pool[s].cfg = disk[s] THEN disk[s]
                                          ELSE NoCfg]
    /\ op' = [op EXCEPT ![c] = [Idle EXCEPT !.pc = "approved", !.only = {s}]]
    /\ UNCHANGED <<disk, life, commit, registry, agents, outrun, forsaken>>

\* Afterwards, without CONFIG_COMMIT: the sessions that see it are connected one by one.
CollectApproved(c) ==
    /\ op[c].pc = "approved"
    /\ LET open == {x \in Session : life[x] = "open"}
           gone == \E s \in op[c].only : disk[s] = NoCfg
       IN op' = [op EXCEPT ![c] = IF gone \/ open = {} THEN Idle
                                  ELSE [@ EXCEPT !.pc = "name", !.todo = open, !.want = disk]]
    /\ UNCHANGED <<disk, life, commit, ops, grant, registry, pool, task, agents, outrun, forsaken>>

\* Desired leaves the named server as it was collected.
Name(c, x) ==
    /\ op[c].pc = "name" /\ x \in op[c].todo
    /\ \E s \in op[c].only :
          op' = [op EXCEPT ![c] =
                    [op[c] EXCEPT !.pc = "register", !.who = x, !.todo = op[c].todo \ {x},
                                  !.want = Desired(x, s, op[c].want)]]
    /\ UNCHANGED <<disk, life, commit, ops, grant, registry, pool, task, agents, outrun, forsaken>>

\* set_launch_trust(false), twice: an approval given in between is taken back as well.
Revoked(s) ==
    /\ grant' = [grant EXCEPT ![s] = NoCfg]
    /\ task' = Voided({s})
    /\ pool' = IF s \in known THEN [pool EXCEPT ![s] = Stopped(@)] ELSE pool

Revoke(c, s) ==
    /\ Begin(c) /\ commit = Nobody /\ disk[s] # NoCfg
    /\ Revoked(s)
    /\ op' = [op EXCEPT ![c] = [Idle EXCEPT !.pc = "revoked", !.only = {s},
                                            !.want = [Nothing EXCEPT ![s] = disk[s]]]]
    /\ UNCHANGED <<disk, life, commit, registry, agents, outrun, forsaken>>

RevokeAgain(c) ==
    /\ op[c].pc = "revoked" /\ commit = Nobody
    /\ \E s \in op[c].only : IF disk[s] = op[c].want[s] THEN Revoked(s)
                             ELSE UNCHANGED <<grant, task, pool>>
    /\ op' = [op EXCEPT ![c] = Idle]
    /\ UNCHANGED <<disk, life, commit, ops, registry, agents, outrun, forsaken>>

\* disconnect of one server, which stays registered.
Disconnect(s) ==
    /\ ops < MaxOps /\ ops' = ops + 1
    /\ commit = Nobody /\ s \in known
    /\ pool' = [pool EXCEPT ![s] = Stopped(@)]
    /\ UNCHANGED <<disk, life, commit, op, grant, registry, task, agents, outrun, forsaken>>

\* delete_session and delete_project mark the session first (zombie); the latter does not wait
\* for its calls for ever.
Close(x) ==
    /\ ops < MaxOps /\ ops' = ops + 1
    /\ life[x] = "open"
    /\ life' = [life EXCEPT ![x] = "closed"]
    /\ UNCHANGED <<disk, commit, op, grant, registry, pool, task, agents, outrun, forsaken>>

\* Fault: only an established connection is taken down.
DroppedIfConnected(x) ==
    [s \in Server |->
        IF s \notin seen[x] \intersect known THEN pool[s]
        ELSE LET e == [pool[s] EXCEPT !.users = @ \ {x}]
             IN IF e.users = {} /\ e.conn # NoConn THEN Stopped(e) ELSE e]

\* release_session
Dropped(x) ==
    [s \in Server |->
        IF s \notin seen[x] \intersect known THEN pool[s]
        ELSE LET e == [pool[s] EXCEPT !.users = @ \ {x}]
             IN IF e.users = {} THEN Stopped(e) ELSE e]

Release(x) ==
    /\ commit = Nobody
    /\ pool' = Dropped(x)
    /\ sessions' = sessions \ {x}
    /\ seen' = [seen EXCEPT ![x] = {}]
    /\ listed' = [listed EXCEPT ![x] = {}]
    /\ UNCHANGED <<disk, commit, op, grant, known, task, call, outrun, forsaken>>

\* A closed session is then removed from AgentCore::sessions.
ReleaseClosed(x) ==
    /\ life[x] = "closed"
    /\ Release(x)
    /\ life' = [life EXCEPT ![x] = "gone"]
    /\ UNCHANGED ops

\* mcp_disconnect of all servers of an open session.
ReleaseOpen(x) ==
    /\ life[x] = "open" /\ x \in sessions
    /\ ops < MaxOps /\ ops' = ops + 1
    /\ Release(x)
    /\ UNCHANGED life

-----------------------------------------------------------------------------
(* ensure_at *)

OnlyTasks == UNCHANGED <<disk, life, commit, op, ops, grant, registry, agents, outrun, forsaken>>
Moves(t, pc) == task' = [task EXCEPT ![t].pc = pc]
Ends(t) == task' = [task EXCEPT ![t] = NoTask]
Current(t) == pool[task[t].server].gen = task[t].gen

\* connection_admission: a permit of the registry, or none.
Permit(t) ==
    /\ task[t].pc = "queued"
    /\ task' = IF grant[task[t].server] = task[t].cfg
               THEN [task EXCEPT ![t].pc = "permitted", ![t].permit = task[t].cfg]
               ELSE [task EXCEPT ![t].pc = "denied"]
    /\ UNCHANGED pool /\ OnlyTasks

Deny(t) ==
    /\ task[t].pc = "denied"
    /\ LET s == task[t].server
       IN pool' = IF pool[s].cfg = task[t].cfg /\ Current(t)
                  THEN [pool EXCEPT ![s].state = "stopped"] ELSE pool
    /\ Ends(t)
    /\ OnlyTasks

\* The entry is as the task was queued for it, and connected by nobody else.
Admits(t) ==
    LET e == pool[task[t].server]
    IN /\ task[t].permit = task[t].cfg
       /\ e.users # {} /\ e.cfg = task[t].cfg /\ Current(t)
       /\ ~ e.busy /\ e.state # "ready"

Admit(t) ==
    /\ task[t].pc = "permitted" /\ Admits(t)
    /\ LET s == task[t].server
       IN pool' = [pool EXCEPT ![s].gen = @ + 1, ![s].launch = task[t].permit, ![s].busy = TRUE]
    /\ task' = [task EXCEPT ![t].pc = "reserve", ![t].gen = @ + 1]
    /\ forsaken' = forsaken \ {task[t].server}
    /\ UNCHANGED <<disk, life, commit, op, ops, grant, registry, agents, outrun>>

\* Otherwise, or where the entry was evicted less than EVICT_DEBOUNCE ago.
TurnAway(t) ==
    /\ task[t].pc = "permitted"
    /\ ~ Admits(t) \/ pool[task[t].server].state = "evicted"
    /\ Ends(t)
    /\ UNCHANGED pool /\ OnlyTasks

\* reserve_slot: above the limit, entries that nobody refers to make room.
Evictable(s) ==
    {r \in known \ {s} : pool[r].users = {} /\ pool[r].state \notin {"starting", "evicted"}}
Surplus == Cardinality({r \in known : pool[r].state # "evicted"}) - MaxServers

\* set_starting follows: the entry may have been cleared since.
Reserve(t) ==
    /\ task[t].pc = "reserve"
    /\ \E V \in SUBSET Evictable(task[t].server) :
          /\ \/ Cardinality(V) = Surplus
             \/ V = {} /\ Surplus <= 0
             \/ V = Evictable(task[t].server) /\ Cardinality(V) < Surplus
          /\ pool' = [r \in Server |->
                        IF r \in V THEN [Cleared(pool[r]) EXCEPT !.state = "evicted"]
                        ELSE IF r = task[t].server /\ Current(t)
                             THEN [pool[r] EXCEPT !.state = "starting"] ELSE pool[r]]
    /\ IF Current(t) THEN Moves(t, "connect") ELSE Ends(t)
    /\ OnlyTasks

\* spawn_connect: the process was started, initialize and list_tools have answered, and neither
\* the permit nor the handshake was cancelled up to then.
Listed(t) ==
    /\ task[t].pc = "connect" /\ task[t].permit # NoCfg /\ Current(t)
    /\ Moves(t, "listed")
    /\ UNCHANGED pool /\ OnlyTasks

\* set_error: a failure, an INIT_TIMEOUT or a cancelled token; the process goes with it.
Fail(t) ==
    /\ task[t].pc = "connect"
    /\ LET s == task[t].server
       IN pool' = IF Current(t) THEN [pool EXCEPT ![s].busy = FALSE, ![s].state = "error"] ELSE pool
    /\ Ends(t)
    /\ OnlyTasks

\* set_ready asks for admission again before it takes the lock of the pool.
Recheck(t) ==
    /\ task[t].pc = "listed"
    /\ LET e == pool[task[t].server]
       IN Moves(t, IF Current(t) /\ e.launch = e.cfg THEN "publish" ELSE "refused")
    /\ UNCHANGED pool /\ OnlyTasks

Refuse(t) ==
    /\ task[t].pc = "refused"
    /\ pool' = IF Current(t) THEN [pool EXCEPT ![task[t].server] = Stopped(@)] ELSE pool
    /\ Ends(t)
    /\ OnlyTasks

\* What was voided in between leaves the entry busy.
Publish(t) ==
    /\ task[t].pc = "publish"
    /\ LET s == task[t].server
           made == [gen |-> task[t].gen, cfg |-> task[t].cfg]
           admitted == pool[s].launch = pool[s].cfg
       IN /\ pool' = IF Current(t) /\ admitted
                     THEN [pool EXCEPT ![s].conn = made, ![s].busy = FALSE, ![s].state = "ready"]
                     ELSE pool
          /\ forsaken' = IF Current(t) /\ ~ admitted THEN forsaken \union {s} ELSE forsaken
    /\ Ends(t)
    /\ UNCHANGED <<disk, life, commit, op, ops, grant, registry, agents, outrun>>

-----------------------------------------------------------------------------
(* The calls of the agents *)

\* Fault: a binding names its server and configuration only.
ValidByName(x, b) ==
    b.server \in seen[x] /\ Ready(b.server) /\ pool[b.server].cfg = b.cfg

\* validate_binding; the connection is what the definitions were listed from (history).
Valid(x, b) ==
    /\ b.server \in seen[x] /\ Ready(b.server)
    /\ pool[b.server].gen = b.gen /\ pool[b.server].cfg = b.cfg

OnlyAgents ==
    UNCHANGED <<disk, life, commit, op, ops, grant, registry, pool, task, outrun, forsaken>>

\* tool_snapshot_for: the definitions of a request to the model, as they stand when they are
\* kept (one that was not ready at the capture would be missing).
Snapshot(x) ==
    /\ x \in sessions /\ call[x].pc = "none"
    /\ listed' = [listed EXCEPT ![x] =
                     {[server |-> s, gen |-> pool[s].gen, cfg |-> pool[s].cfg,
                       conn |-> pool[s].conn] : s \in {s \in seen[x] : Ready(s)}}]
    /\ UNCHANGED call /\ OnlyAgents

\* The model asks for a call; request_binding.  The user is asked where the file does not
\* always allow it, and his answer is part of the next step.
Request(x, b) ==
    /\ call[x].pc = "none"
    /\ b \in listed[x] /\ Valid(x, b)
    /\ call' = [call EXCEPT ![x] = [pc |-> "bound", binding |-> b, over |-> NoConn]]
    /\ UNCHANGED listed /\ OnlyAgents

\* allow_binding, under CONFIG_COMMIT and then the lock of the pool: the file and the entry
\* allow the tool from now on, and the approval of the launch moves along.
Allow(x) ==
    /\ call[x].pc = "bound" /\ ~ call[x].binding.cfg.always /\ commit = Nobody
    /\ LET b == call[x].binding
           s == b.server
           next == [b.cfg EXCEPT !.always = TRUE]
       IN /\ Valid(x, b) /\ disk[s] = b.cfg
          /\ disk' = [disk EXCEPT ![s] = next]
          /\ grant' = [grant EXCEPT ![s] = next]
          /\ pool' = [pool EXCEPT ![s].cfg = next, ![s].launch = next]
          /\ call' = [call EXCEPT ![x].binding.cfg = next]
    /\ UNCHANGED <<life, commit, op, ops, registry, task, listed, outrun, forsaken>>

\* call_bound
Call(x) ==
    /\ call[x].pc = "bound" /\ Valid(x, call[x].binding)
    /\ call' = [call EXCEPT ![x].pc = "running", ![x].over = pool[call[x].binding.server].conn]
    /\ UNCHANGED listed /\ OnlyAgents

\* An answer, a timeout or a stop; a refusal by the user, or by a binding that is not valid.
EndCall(x) ==
    /\ call[x].pc # "none"
    /\ call' = [call EXCEPT ![x] = NoCall]
    /\ UNCHANGED listed /\ OnlyAgents

-----------------------------------------------------------------------------
TaskStep(t) ==
    \/ Permit(t) \/ Deny(t) \/ Admit(t) \/ TurnAway(t) \/ Reserve(t)
    \/ Listed(t) \/ Fail(t) \/ Recheck(t) \/ Refuse(t) \/ Publish(t)

CallerStep(c) ==
    \/ CollectSaved(c) \/ Reconcile(c) \/ Register(c) \/ CollectApproved(c) \/ RevokeAgain(c)
    \/ ConnectAgain(c)
    \/ \E x \in Session : Name(c, x)
    \/ \E s \in Server, t \in Task : Spawn(c, s, t)

UserStep ==
    \/ \E c \in Caller, new \in Document : Save(c, new)
    \/ \E c \in Caller, x \in Session : Warm(c, x)
    \/ \E c \in Caller, x \in Session, s \in Server : Connect(c, x, s) \/ Reconnect(c, x, s)
    \/ \E c \in Caller, s \in Server : Approve(c, s) \/ Revoke(c, s)
    \/ \E s \in Server : Disconnect(s)
    \/ \E x \in Session : Close(x) \/ ReleaseClosed(x) \/ ReleaseOpen(x)

AgentStep(x) ==
    \/ Snapshot(x) \/ Allow(x) \/ Call(x) \/ EndCall(x)
    \/ \E b \in listed[x] : Request(x, b)

Next ==
    \/ \E t \in Task : TaskStep(t)
    \/ \E c \in Caller : CallerStep(c)
    \/ UserStep
    \/ \E x \in Agent : AgentStep(x)

Spec == Init /\ [][Next]_vars

-----------------------------------------------------------------------------
(* Properties *)

CfgOrNone == Cfg \union {NoCfg}
Entry == [cfg : CfgOrNone, launch : CfgOrNone, state : State, gen : Nat, busy : BOOLEAN,
          conn : Conn \union {NoConn}, users : SUBSET Session]
Binding == [server : Server, gen : Nat, cfg : Cfg, conn : Conn]
OpRecord == [pc : {"idle", "saved", "reconcile", "spawn", "register", "reconnect", "approved",
                   "name", "revoked"},
             todo : SUBSET Session, who : Session \union {Nobody}, want : File, pending : File,
             only : SUBSET Server]
Op == {o \in OpRecord : o.pc \in {"register", "reconnect"} => o.who \in Session}
TaskRecord == [pc : {"queued", "permitted", "denied", "reserve", "connect", "listed", "refused",
                     "publish"},
               server : Server, cfg : Cfg, gen : Nat, permit : CfgOrNone]

\* The type invariant.
TypeOK ==
    /\ disk \in File /\ grant \in File
    /\ life \in [Session -> {"open", "closed", "gone"}]
    /\ commit \in Caller \union {Nobody}
    /\ op \in [Caller -> Op] /\ ops \in 0..MaxOps
    /\ sessions \in SUBSET Session /\ seen \in [Session -> SUBSET Server]
    /\ known \in SUBSET Server /\ pool \in [Server -> Entry]
    /\ task \in [Task -> TaskRecord \union {NoTask}]
    /\ listed \in [Session -> SUBSET Binding]
    /\ call \in [Session -> {NoCall} \union
                             [pc : {"bound", "running"}, binding : Binding,
                              over : Conn \union {NoConn}]]
    /\ outrun \in SUBSET Server /\ forsaken \in SUBSET Server

\* A call runs on the connection its definition was listed from, and that connection is of
\* the command that was bound, whatever was reconnected, reconfigured or allowed since
\* (validate_binding, clear_connection).
CallsReachTheirListing ==
    \A x \in Session : call[x].pc = "running" =>
        /\ call[x].over = call[x].binding.conn
        /\ call[x].over.cfg.cmd = call[x].binding.cfg.cmd

\* An entry that no session refers to has no connection and nobody who makes one for it
\* (apply_sessions, release_session, reserve_slot).
ReleasedIsReclaimed ==
    \A s \in Server : pool[s].users = {} => pool[s].conn = NoConn /\ ~ pool[s].busy

\* When nothing is under way, the entries that open sessions refer to have the saved
\* configuration, unless an operation was the last to configure them which had read the file
\* before it was replaced; and they are not busy, which would keep everyone from connecting
\* them, nor wait to be connected although they are approved, unless they were forsaken by a
\* connection to another server or by a permit given up half way (reconcile,
\* connect_pending, ensure_at).
Quiet == (\A c \in Caller : op[c].pc = "idle") /\ (\A t \in Task : task[t].pc = "none")
Referenced(s) == \E x \in pool[s].users : life[x] = "open"

QuietIsSettled ==
    Quiet => \A s \in known : Referenced(s) =>
                /\ s \notin outrun => pool[s].cfg = disk[s]
                /\ s \notin forsaken =>
                      /\ ~ pool[s].busy
                      /\ grant[s] = pool[s].cfg => pool[s].state # "starting"
=============================================================================
