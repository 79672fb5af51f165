-------------------------- MODULE McpManagerProofs --------------------------
(***************************************************************************)
(* What the generation of an entry protects, proved for any number of      *)
(* sessions, servers, tasks and operations.                                *)
(*                                                                         *)
(* Every step leaves an entry with the generation, connection and          *)
(* configured command it has (Kept), or clears it: it then has no          *)
(* connection, is not ready and has a new generation (Wiped).  Only two    *)
(* steps of a spawned task do more: the one that admits it opens a new     *)
(* generation, in which it is alone, and its last one makes the entry of   *)
(* that generation ready or not (Concludes).  What an agent holds of an    *)
(* older generation is therefore never valid again, and no entry is busy   *)
(* or connected for nobody.                                                *)
(*                                                                         *)
(* The second part follows the work instead: an entry that is outdated,    *)
(* waits or is busy has an operation or a task that sees to it (Updates,   *)
(* Hands, Takes, Drives), and a step that ends this one's part hands the   *)
(* entry to the next.                                                      *)
(***************************************************************************)
EXTENDS McpManager, TLAPS

AdmittedPc == {"reserve", "connect", "listed", "refused", "publish"}
Active(t) == task[t].pc # "none"
Admitted(t) == task[t].pc \in AdmittedPc

\* Tasks are of the present or an earlier generation of their entry.
TasksAreBehind == \A t \in Task : Active(t) => task[t].gen <= pool[task[t].server].gen

\* An admitted task of the present generation keeps its entry busy, alone.
AdmittedIsBusy ==
    \A t \in Task : Admitted(t) /\ Current(t) =>
        LET e == pool[task[t].server]
        IN e.busy /\ e.users # {} /\ e.cfg # NoCfg /\ e.cfg.cmd = task[t].cfg.cmd

AdmittedIsAlone ==
    \A t, u \in Task : /\ Admitted(t) /\ Admitted(u) /\ Current(t) /\ Current(u)
                       /\ task[t].server = task[u].server
                       => t = u

\* A ready entry has the connection of its generation.
ReadyIsConnected ==
    \A s \in Server : pool[s].state = "ready" =>
        /\ pool[s].conn # NoConn /\ pool[s].cfg # NoCfg
        /\ pool[s].conn.cfg.cmd = pool[s].cfg.cmd
        /\ ~ pool[s].busy

\* What is not registered is blank, and references are registered on both sides.
UnknownIsBlank == \A s \in Server \ known : pool[s] = Blank(NoCfg)

ReferencesAgree ==
    /\ \A x \in Session : seen[x] \subseteq known
    /\ \A x \in Session, s \in Server : x \in pool[s].users <=> s \in seen[x]

\* The definitions an agent holds: while their generation lasts, a ready entry still has
\* their connection.
Holds(b) ==
    LET e == pool[b.server]
    IN /\ b.conn # NoConn /\ b.conn.cfg.cmd = b.cfg.cmd
       /\ b.gen <= e.gen
       /\ b.gen = e.gen => ~ e.busy /\ (e.state = "ready" => e.conn = b.conn)

BindingsHold ==
    \A x \in Session :
        /\ \A b \in listed[x] : Holds(b)
        /\ call[x].pc # "none" => Holds(call[x].binding)

Inv ==
    /\ TypeOK
    /\ TasksAreBehind /\ AdmittedIsBusy /\ AdmittedIsAlone
    /\ ReadyIsConnected /\ UnknownIsBlank /\ ReferencesAgree
    /\ ReleasedIsReclaimed /\ BindingsHold /\ CallsReachTheirListing

-----------------------------------------------------------------------------
(* Type correctness *)

\* A new entry is an entry.
LEMMA BlankType == ASSUME NEW cfg \in CfgOrNone PROVE Blank(cfg) \in Entry
  BY DEF Blank, Entry, CfgOrNone, State, Conn

\* clear_connection yields an entry of the next generation, without a connection.
LEMMA ClearedType ==
  ASSUME NEW e \in Entry
  PROVE  /\ Cleared(e) \in Entry /\ Stopped(e) \in Entry
         /\ [Cleared(e) EXCEPT !.state = "evicted"] \in Entry
         /\ Cleared(e).gen = e.gen + 1 /\ Cleared(e).conn = NoConn /\ Cleared(e).busy = FALSE
         /\ Cleared(e).users = e.users /\ Cleared(e).cfg = e.cfg /\ Cleared(e).state = e.state
         /\ Cleared(e).launch = NoCfg
<1>1. NoCfg \in CfgOrNone /\ NoConn \in Conn \union {NoConn}
  BY DEF CfgOrNone
<1>2. e.gen + 1 \in Nat
  BY DEF Entry
<1>3. Cleared(e) \in Entry
  BY <1>1, <1>2 DEF Cleared, Entry
<1>4. [Cleared(e) EXCEPT !.state = "stopped"] \in Entry
  BY <1>3 DEF Entry, State
<1>5. [Cleared(e) EXCEPT !.state = "evicted"] \in Entry
  BY <1>3 DEF Entry, State
<1> QED
  BY <1>3, <1>4, <1>5 DEF Cleared, Stopped, Entry

\* The same of an entry that is given another state or configuration as well.
LEMMA ClearedFields ==
  ASSUME NEW e \in Entry
  PROVE  /\ Stopped(e).gen = e.gen + 1 /\ Stopped(e).conn = NoConn /\ Stopped(e).busy = FALSE
         /\ Stopped(e).state = "stopped" /\ Stopped(e).users = e.users
         /\ \A st \in State :
               LET f == [Cleared(e) EXCEPT !.state = st]
               IN /\ f.gen = e.gen + 1 /\ f.conn = NoConn /\ f.busy = FALSE
                  /\ f.state = st /\ f.users = e.users
         /\ \A cfg :
               LET f == [Cleared(e) EXCEPT !.cfg = cfg, !.state = "starting"]
               IN /\ f.gen = e.gen + 1 /\ f.conn = NoConn /\ f.busy = FALSE
                  /\ f.state = "starting" /\ f.users = e.users
<1> DEFINE c == Cleared(e)
<1>1. /\ c \in Entry /\ c.gen = e.gen + 1 /\ c.conn = NoConn /\ c.busy = FALSE /\ c.users = e.users
  BY ClearedType
<1>2. Stopped(e) = [c EXCEPT !.state = "stopped"]
  BY DEF Stopped
<1> HIDE DEF c
<1>3. Stopped(e).gen = e.gen + 1 /\ Stopped(e).conn = NoConn /\ Stopped(e).busy = FALSE
      /\ Stopped(e).state = "stopped" /\ Stopped(e).users = e.users
  BY <1>1, <1>2 DEF Entry
<1>4. ASSUME NEW st \in State
      PROVE  LET f == [c EXCEPT !.state = st]
             IN /\ f.gen = e.gen + 1 /\ f.conn = NoConn /\ f.busy = FALSE
                /\ f.state = st /\ f.users = e.users
  BY <1>1 DEF Entry
<1>5. ASSUME NEW cfg
      PROVE  LET f == [c EXCEPT !.cfg = cfg, !.state = "starting"]
             IN /\ f.gen = e.gen + 1 /\ f.conn = NoConn /\ f.busy = FALSE
                /\ f.state = "starting" /\ f.users = e.users
  BY <1>1 DEF Entry
<1> QED
  BY <1>3, <1>4, <1>5 DEF c

\* The other assignments to an entry.
LEMMA EntryType ==
  ASSUME NEW e \in Entry
  PROVE  /\ \A st \in State : /\ [e EXCEPT !.state = st] \in Entry
                              /\ [e EXCEPT !.busy = FALSE, !.state = st] \in Entry
         /\ \A f \in CfgOrNone : /\ [e EXCEPT !.launch = f] \in Entry
                                 /\ [e EXCEPT !.gen = e.gen + 1, !.launch = f, !.busy = TRUE] \in Entry
                                 /\ [e EXCEPT !.cfg = f, !.launch = f] \in Entry
         /\ \A m \in Conn, st \in State :
               [e EXCEPT !.conn = m, !.busy = FALSE, !.state = st] \in Entry
<1>1. ASSUME NEW st \in State
      PROVE  /\ [e EXCEPT !.state = st] \in Entry
             /\ [e EXCEPT !.busy = FALSE, !.state = st] \in Entry
  BY DEF Entry
<1>2. ASSUME NEW f \in CfgOrNone
      PROVE  /\ [e EXCEPT !.launch = f] \in Entry
             /\ [e EXCEPT !.gen = e.gen + 1, !.launch = f, !.busy = TRUE] \in Entry
             /\ [e EXCEPT !.cfg = f, !.launch = f] \in Entry
  <2>1. [e EXCEPT !.launch = f] \in Entry
    BY DEF Entry
  <2>2. e.gen + 1 \in Nat
    BY DEF Entry
  <2>3. [e EXCEPT !.gen = e.gen + 1, !.launch = f, !.busy = TRUE] \in Entry
    BY <2>2 DEF Entry
  <2>4. [e EXCEPT !.cfg = f, !.launch = f] \in Entry
    BY DEF Entry
  <2> QED
    BY <2>1, <2>3, <2>4
<1>3. ASSUME NEW m \in Conn, NEW st \in State
      PROVE  [e EXCEPT !.conn = m, !.busy = FALSE, !.state = st] \in Entry
  BY DEF Entry
<1> QED
  BY <1>1, <1>2, <1>3

\* Giving up permits leaves tasks tasks.
LEMMA VoidedType ==
  ASSUME TypeOK, NEW S
  PROVE  Voided(S) \in [Task -> TaskRecord \union {NoTask}]
  BY DEF TypeOK, Voided, TaskRecord, NoTask, CfgOrNone

\* apply_sessions yields entries, ...
LEMMA AppliedType ==
  ASSUME TypeOK, NEW X \in SUBSET Session, NEW want \in File
  PROVE  Applied(X, want) \in [Server -> Entry]
<1> SUFFICES ASSUME NEW s \in Server PROVE Applied(X, want)[s] \in Entry
  BY DEF Applied
<1> DEFINE d == IF s \in known THEN pool[s] ELSE Blank(want[s])
           e == [d EXCEPT !.users = Users(X, s, want)]
<1>1. want[s] \in CfgOrNone
  BY DEF File, CfgOrNone
<1>2. d \in Entry
  BY <1>1, BlankType DEF TypeOK
<1>3. Users(X, s, want) \in SUBSET Session
  BY DEF TypeOK, Users, Entry
<1>4. e \in Entry
  BY <1>2, <1>3 DEF Entry
<1>5. [Cleared(e) EXCEPT !.cfg = want[s], !.state = "starting"] \in Entry
  BY <1>1, <1>4, ClearedType DEF Entry, State
<1> QED
  BY <1>4, <1>5, ClearedType DEF Applied

\* ... and configurations to connect.
LEMMA PendingType ==
  ASSUME NEW X, NEW want \in File, NEW all
  PROVE  Pending(X, want, all) \in File
  BY DEF Pending, File

\* The empty file, and a caller that does nothing.
LEMMA NothingType == Nothing \in File /\ Idle \in Op
  BY DEF Nothing, File, Idle, Op, OpRecord

\* What a caller does after apply_sessions.
LEMMA GoesOnType ==
  ASSUME TypeOK, NEW c \in Caller, NEW o \in Op, GoesOn(c, o)
  PROVE  op' \in [Caller -> Op] /\ commit' \in Caller \union {Nobody}
<1> DEFINE more == IF o.todo = {} THEN Idle ELSE [o EXCEPT !.who = Nobody]
           next == IF o.pending # Nothing
                   THEN [more EXCEPT !.pc = "spawn", !.pending = o.pending]
                   ELSE IF o.todo # {} THEN [more EXCEPT !.pc = "name"] ELSE Idle
<1>1. more \in OpRecord
  BY NothingType DEF Op, OpRecord
<1>2. next \in Op
  <2>1. CASE o.pending # Nothing
    <3>1. o.pending \in File
      BY DEF Op, OpRecord
    <3> QED
      BY <1>1, <2>1, <3>1 DEF Op, OpRecord
  <2>2. CASE o.pending = Nothing
    BY <1>1, <2>2, NothingType DEF Op, OpRecord
  <2> QED
    BY <2>1, <2>2
<1>3. op' = [op EXCEPT ![c] = next]
  BY DEF GoesOn
<1> QED
  BY <1>2, <1>3 DEF TypeOK, GoesOn

\* apply_sessions as a whole.
LEMMA ApplyType ==
  ASSUME TypeOK, NEW X \in SUBSET Session, NEW want \in File, NEW names \in SUBSET Server,
         Apply(X, want, names)
  PROVE  /\ grant' \in File
         /\ sessions' \in SUBSET Session /\ seen' \in [Session -> SUBSET Server]
         /\ known' \in SUBSET Server /\ pool' \in [Server -> Entry]
         /\ task' \in [Task -> TaskRecord \union {NoTask}]
         /\ outrun' \in SUBSET Server /\ forsaken' \in SUBSET Server
<1>1. pool' \in [Server -> Entry]
  BY AppliedType DEF Apply
<1>2. task' \in [Task -> TaskRecord \union {NoTask}]
  BY VoidedType DEF Apply
<1>3. known' \in SUBSET Server
  BY DEF Apply, TypeOK, New
<1>4. outrun' \in SUBSET Server /\ forsaken' \in SUBSET Server
  BY DEF Apply, TypeOK, New, Changed
<1>5. grant' \in File
  BY DEF Apply, TypeOK, File
<1>6. sessions' \in SUBSET Session /\ seen' \in [Session -> SUBSET Server]
  BY DEF Apply, TypeOK
<1> QED
  BY <1>1, <1>2, <1>3, <1>4, <1>5, <1>6

\* The desired set of connect_named is a set of configurations.
LEMMA DesiredType ==
  ASSUME TypeOK, NEW x \in Session, NEW s \in Server, NEW visible \in File
  PROVE  Desired(x, s, visible) \in File
  BY DEF TypeOK, Desired, File, Entry, CfgOrNone

\* A caller that is about to register a session.
LEMMA RegisteringType ==
  ASSUME TypeOK, NEW x \in Session, NEW s \in Server
  PROVE  Registering(x, s) \in Op
<1>1. Desired(x, s, disk) \in File
  BY DesiredType DEF TypeOK
<1> QED
  BY <1>1, NothingType DEF Registering, Op, OpRecord

\* The types hold at the start.
LEMMA TypeInit == ASSUME Init PROVE TypeOK
<1>1. Blank(NoCfg) \in Entry
  BY BlankType DEF CfgOrNone
<1>2. disk \in File /\ grant \in File
  BY McpAssumption, NothingType DEF Init
<1>3. pool \in [Server -> Entry]
  BY <1>1 DEF Init
<1>4. op \in [Caller -> Op]
  BY NothingType DEF Init
<1>5. task \in [Task -> TaskRecord \union {NoTask}] /\ ops \in 0..MaxOps
  BY McpAssumption DEF Init
<1> QED
  BY <1>2, <1>3, <1>4, <1>5, McpAssumption DEF Init, TypeOK

\* An operation begins at an idle caller.
LEMMA BeginType ==
  ASSUME TypeOK, NEW c, Begin(c)
  PROVE  c \in Caller /\ op[c].pc = "idle" /\ ops' \in 0..MaxOps
  BY McpAssumption DEF Begin, IdleCaller, TypeOK

\* A revocation.
LEMMA RevokedType ==
  ASSUME TypeOK, NEW s \in Server,
         Revoked(s) \/ UNCHANGED <<grant, task, pool>>
  PROVE  /\ grant' \in File /\ pool' \in [Server -> Entry]
         /\ task' \in [Task -> TaskRecord \union {NoTask}]
<1>1. pool[s] \in Entry /\ Stopped(pool[s]) \in Entry
  BY ClearedType DEF TypeOK
<1>2. Voided({s}) \in [Task -> TaskRecord \union {NoTask}]
  BY VoidedType
<1>3. [grant EXCEPT ![s] = NoCfg] \in File
  BY DEF TypeOK, File
<1> QED
  BY <1>1, <1>2, <1>3 DEF Revoked, TypeOK

\* The later steps of an operation preserve the types.
LEMMA CallerType ==
  ASSUME TypeOK, NEW c \in Caller, CallerStep(c)
  PROVE  TypeOK'
<1> USE DEF TypeOK
<1>0. /\ op[c] \in Op /\ op[c].todo \in SUBSET Session /\ op[c].only \in SUBSET Server
      /\ op[c].want \in File /\ op[c].pending \in File
      /\ op[c].who \in Session \union {Nobody}
  BY DEF Op, OpRecord
<1>1. CASE CollectSaved(c)
  <2>1. [op[c] EXCEPT !.pc = "reconcile", !.want = disk,
                      !.todo = {x \in Session : life[x] # "gone"}] \in Op
    BY <1>0 DEF Op, OpRecord
  <2> QED
    BY <1>1, <2>1 DEF CollectSaved, registry, agents
<1>2. CASE Reconcile(c)
  <2> DEFINE X == op[c].todo \intersect sessions
  <2>1. CASE X = {}
    BY <1>2, <2>1, NothingType DEF Reconcile, registry, agents
  <2>2. CASE X # {}
    <3> DEFINE o == [op[c] EXCEPT !.todo = {}, !.pending = Pending(X, op[c].want, FALSE)]
    <3>1. Apply(X, op[c].want, Server) /\ GoesOn(c, o)
      BY <1>2, <2>2 DEF Reconcile
    <3>2. o \in Op
      BY <1>0, PendingType DEF Op, OpRecord
    <3>3. op' \in [Caller -> Op] /\ commit' \in Caller \union {Nobody}
      BY <3>1, <3>2, GoesOnType
    <3>4. X \in SUBSET Session
      BY <1>0
    <3> HIDE DEF X, o
    <3>5. /\ grant' \in File
          /\ sessions' \in SUBSET Session /\ seen' \in [Session -> SUBSET Server]
          /\ known' \in SUBSET Server /\ pool' \in [Server -> Entry]
          /\ task' \in [Task -> TaskRecord \union {NoTask}]
          /\ outrun' \in SUBSET Server /\ forsaken' \in SUBSET Server
      BY <1>0, <3>1, <3>4, ApplyType
    <3> QED
      BY <1>2, <3>3, <3>5 DEF Reconcile, agents
  <2> QED
    BY <2>1, <2>2
<1>3. CASE Register(c)
  <2> DEFINE o == op[c]
             pending == Pending({o.who}, o.want, TRUE)
             n == [o EXCEPT !.pending = [s \in Server |-> IF s \in o.only THEN pending[s] ELSE NoCfg]]
  <2>1. Apply({o.who}, o.want, o.only) /\ GoesOn(c, n)
    BY <1>3 DEF Register
  <2>2. n \in Op
    <3>1. pending \in File
      BY <1>0, PendingType
    <3> HIDE DEF pending
    <3>2. [s \in Server |-> IF s \in o.only THEN pending[s] ELSE NoCfg] \in File
      BY <3>1 DEF File
    <3> QED
      BY <1>0, <3>2 DEF Op, OpRecord
  <2>3. op' \in [Caller -> Op] /\ commit' \in Caller \union {Nobody}
    BY <2>1, <2>2, GoesOnType
  <2>4. {o.who} \in SUBSET Session
    BY <1>0, <1>3 DEF Register, Op
  <2> HIDE DEF n
  <2>5. /\ grant' \in File
        /\ sessions' \in SUBSET Session /\ seen' \in [Session -> SUBSET Server]
        /\ known' \in SUBSET Server /\ pool' \in [Server -> Entry]
        /\ task' \in [Task -> TaskRecord \union {NoTask}]
        /\ outrun' \in SUBSET Server /\ forsaken' \in SUBSET Server
    BY <1>0, <2>1, <2>4, ApplyType
  <2> QED
    BY <1>3, <2>3, <2>5 DEF Register, agents
<1>4. CASE CollectApproved(c)
  <2>1. [op[c] EXCEPT !.pc = "name", !.todo = {x \in Session : life[x] = "open"}, !.want = disk]
           \in Op
    BY <1>0 DEF Op, OpRecord
  <2> QED
    BY <1>4, <2>1, NothingType DEF CollectApproved, registry, agents
<1>5. CASE RevokeAgain(c)
  <2>1. PICK s \in op[c].only : IF disk[s] = op[c].want[s] THEN Revoked(s)
                                ELSE UNCHANGED <<grant, task, pool>>
    BY <1>5 DEF RevokeAgain
  <2>2. /\ grant' \in File /\ pool' \in [Server -> Entry]
        /\ task' \in [Task -> TaskRecord \union {NoTask}]
    BY <1>0, <2>1, RevokedType
  <2> QED
    BY <1>5, <2>2, NothingType DEF RevokeAgain, registry, agents
<1>6. CASE ConnectAgain(c)
  <2>1. PICK s \in op[c].only :
           IF life[op[c].who] = "open"
           THEN commit' = c /\ op' = [op EXCEPT ![c] = Registering(op[c].who, s)]
           ELSE op' = [op EXCEPT ![c] = Idle] /\ UNCHANGED commit
    BY <1>6 DEF ConnectAgain
  <2>2. Registering(op[c].who, s) \in Op
    BY <1>0, <1>6, RegisteringType DEF ConnectAgain, Op
  <2> QED
    BY <1>6, <2>1, <2>2, NothingType DEF ConnectAgain, registry, agents
<1>7. CASE \E x \in Session : Name(c, x)
  <2>1. PICK x \in Session : Name(c, x)
    BY <1>7
  <2>2. PICK s \in op[c].only :
           op' = [op EXCEPT ![c] =
                     [op[c] EXCEPT !.pc = "register", !.who = x, !.todo = op[c].todo \ {x},
                                   !.want = Desired(x, s, op[c].want)]]
    BY <2>1 DEF Name
  <2> DEFINE n == [op[c] EXCEPT !.pc = "register", !.who = x, !.todo = op[c].todo \ {x},
                                !.want = Desired(x, s, op[c].want)]
  <2>3. Desired(x, s, op[c].want) \in File
    BY <1>0, DesiredType
  <2>4. n \in Op
    BY <1>0, <2>3 DEF Op, OpRecord
  <2>5. op' \in [Caller -> Op]
    BY <2>2, <2>4 DEF Op
  <2> HIDE DEF n
  <2> QED
    BY <2>1, <2>5 DEF Name, registry, agents
<1>8. CASE \E s \in Server, t \in Task : Spawn(c, s, t)
  <2>1. PICK s \in Server, t \in Task : Spawn(c, s, t)
    BY <1>8
  <2> DEFINE n == [op[c] EXCEPT !.pending[s] = NoCfg]
             r == [pc |-> "queued", server |-> s, cfg |-> op[c].pending[s],
                   gen |-> pool[s].gen, permit |-> NoCfg]
  <2>2. n \in Op
    BY <1>0 DEF Op, OpRecord, File
  <2>3. op' \in [Caller -> Op] /\ commit' \in Caller \union {Nobody}
    BY <2>1, <2>2, GoesOnType DEF Spawn
  <2>4. r \in TaskRecord
    BY <1>0, <2>1 DEF Spawn, TaskRecord, File, CfgOrNone, Entry
  <2>5. task' = [task EXCEPT ![t] = r]
    BY <2>1 DEF Spawn
  <2> QED
    BY <2>1, <2>3, <2>4, <2>5 DEF Spawn, registry, agents
<1> QED
  BY <1>1, <1>2, <1>3, <1>4, <1>5, <1>6, <1>7, <1>8 DEF CallerStep

\* So do the first steps, ...
LEMMA UserType ==
  ASSUME TypeOK, UserStep
  PROVE  TypeOK'
<1> USE DEF TypeOK
<1>1. ASSUME NEW c \in Caller, NEW new \in Document, Save(c, new) PROVE TypeOK'
  <2> DEFINE void == {s \in Server : grant[s] # new[s]}
  <2>1. new \in File /\ ops' \in 0..MaxOps
    BY <1>1, McpAssumption, BeginType DEF Save
  <2>2. grant' \in File
    BY <1>1 DEF Save, File
  <2>3. task' \in [Task -> TaskRecord \union {NoTask}]
    BY <1>1, VoidedType DEF Save
  <2>4. pool' \in [Server -> Entry]
    <3>1. \A s \in Server : [pool[s] EXCEPT !.launch = NoCfg] \in Entry
      BY EntryType DEF CfgOrNone
    <3>2. pool' = [s \in Server |-> IF s \in void THEN [pool[s] EXCEPT !.launch = NoCfg]
                                                  ELSE pool[s]]
      BY <1>1 DEF Save
    <3> QED
      BY <3>1, <3>2
  <2>5. [Idle EXCEPT !.pc = "saved"] \in Op
    BY NothingType DEF Op, OpRecord
  <2> QED
    BY <1>1, <2>1, <2>2, <2>3, <2>4, <2>5 DEF Save, registry, agents
<1>2. ASSUME NEW c \in Caller, NEW x \in Session, Warm(c, x) PROVE TypeOK'
  <2> DEFINE pending == Pending({x}, disk, TRUE)
             n == IF pending = Nothing THEN Idle
                  ELSE [Idle EXCEPT !.pc = "spawn", !.pending = pending]
  <2>1. n \in Op
    BY PendingType, NothingType DEF Op, OpRecord
  <2>2. /\ Apply({x}, disk, Server) /\ ops' \in 0..MaxOps
        /\ op' = [op EXCEPT ![c] = n] /\ commit' = IF pending = Nothing THEN Nobody ELSE c
    BY <1>2, BeginType DEF Warm
  <2>3. /\ grant' \in File
        /\ sessions' \in SUBSET Session /\ seen' \in [Session -> SUBSET Server]
        /\ known' \in SUBSET Server /\ pool' \in [Server -> Entry]
        /\ task' \in [Task -> TaskRecord \union {NoTask}]
        /\ outrun' \in SUBSET Server /\ forsaken' \in SUBSET Server
    BY <2>2, ApplyType
  <2> HIDE DEF n, pending
  <2> QED
    BY <1>2, <2>1, <2>2, <2>3 DEF Warm, agents
<1>3. ASSUME NEW c \in Caller, NEW x \in Session, NEW s \in Server, Connect(c, x, s)
      PROVE  TypeOK'
  BY <1>3, RegisteringType, BeginType DEF Connect, registry, agents
<1>4. ASSUME NEW c \in Caller, NEW x \in Session, NEW s \in Server, Reconnect(c, x, s)
      PROVE  TypeOK'
  <2>1. [Idle EXCEPT !.pc = "reconnect", !.who = x, !.only = {s}] \in Op
    BY NothingType DEF Op, OpRecord
  <2>2. Stopped(pool[s]) \in Entry
    BY ClearedType
  <2> QED
    BY <1>4, <2>1, <2>2, BeginType DEF Reconnect, registry, agents
<1>5. ASSUME NEW c \in Caller, NEW s \in Server, Approve(c, s) PROVE TypeOK'
  <2>1. [Idle EXCEPT !.pc = "approved", !.only = {s}] \in Op
    BY NothingType DEF Op, OpRecord
  <2>2. pool' \in [Server -> Entry]
    <3> DEFINE f == IF s \in known /\ pool[s].cfg = disk[s] THEN disk[s] ELSE NoCfg
    <3>1. f \in CfgOrNone
      BY DEF File, CfgOrNone
    <3>2. [pool[s] EXCEPT !.launch = f] \in Entry
      BY <3>1, EntryType
    <3>3. pool' = [pool EXCEPT ![s] = [pool[s] EXCEPT !.launch = f]]
      BY <1>5 DEF Approve
    <3> QED
      BY <3>2, <3>3
  <2>3. task' \in [Task -> TaskRecord \union {NoTask}]
    BY <1>5, VoidedType DEF Approve
  <2>4. grant' \in File
    BY <1>5 DEF Approve, File
  <2> QED
    BY <1>5, <2>1, <2>2, <2>3, <2>4, BeginType DEF Approve, registry, agents
<1>6. ASSUME NEW c \in Caller, NEW s \in Server, Revoke(c, s) PROVE TypeOK'
  <2>1. [Nothing EXCEPT ![s] = disk[s]] \in File
    BY NothingType DEF File
  <2>2. [Idle EXCEPT !.pc = "revoked", !.only = {s},
                     !.want = [Nothing EXCEPT ![s] = disk[s]]] \in Op
    BY <2>1, NothingType DEF Op, OpRecord
  <2> QED
    BY <1>6, <2>2, RevokedType, BeginType DEF Revoke, registry, agents
<1>7. ASSUME NEW s \in Server, Disconnect(s) PROVE TypeOK'
  <2>1. Stopped(pool[s]) \in Entry
    BY ClearedType
  <2> QED
    BY <1>7, <2>1, McpAssumption DEF Disconnect, registry, agents
<1>8. ASSUME NEW x \in Session, Close(x) PROVE TypeOK'
  BY <1>8, McpAssumption DEF Close, registry, agents
<1>9. ASSUME NEW x \in Session, ReleaseClosed(x) \/ ReleaseOpen(x) PROVE TypeOK'
  <2>1. Release(x) /\ ops' \in 0..MaxOps /\ life' \in [Session -> {"open", "closed", "gone"}]
    BY <1>9, McpAssumption DEF ReleaseClosed, ReleaseOpen
  <2>2. ASSUME NEW s \in Server PROVE Dropped(x)[s] \in Entry
    <3>1. [pool[s] EXCEPT !.users = @ \ {x}] \in Entry
      BY DEF Entry
    <3> QED
      BY <3>1, ClearedType DEF Dropped
  <2>3. pool' \in [Server -> Entry]
    BY <2>1, <2>2 DEF Release, Dropped
  <2> QED
    BY <2>1, <2>3 DEF Release
<1> QED
  BY <1>1, <1>2, <1>3, <1>4, <1>5, <1>6, <1>7, <1>8, <1>9 DEF UserStep

\* ... those of the spawned tasks, ...
LEMMA TaskType ==
  ASSUME TypeOK, NEW t \in Task, TaskStep(t)
  PROVE  TypeOK'
<1> USE DEF TypeOK
<1>0. task[t] \in TaskRecord /\ task[t].server \in Server
  <2>1. task[t].pc # "none"
    BY DEF TaskStep, Permit, Deny, Admit, TurnAway, Reserve, Listed, Fail, Recheck, Refuse, Publish
  <2> QED
    BY <2>1 DEF NoTask, TaskRecord
<1>1. /\ task' \in [Task -> TaskRecord \union {NoTask}]
      /\ pool' \in [Server -> Entry]
      /\ outrun' \in SUBSET Server /\ forsaken' \in SUBSET Server
  <2> DEFINE s == task[t].server
  <2>1. CASE Permit(t)
    BY <1>0, <2>1 DEF Permit, OnlyTasks, TaskRecord, CfgOrNone
  <2>2. CASE Deny(t)
    <3>1. [pool[s] EXCEPT !.state = "stopped"] \in Entry
      BY <1>0, EntryType DEF State
    <3>2. pool' \in [Server -> Entry]
      BY <2>2, <3>1 DEF Deny
    <3> QED
      BY <1>0, <2>2, <3>2 DEF Deny, Ends, OnlyTasks
  <2>3. CASE Admit(t)
    <3>1. [pool[s] EXCEPT !.gen = pool[s].gen + 1, !.launch = task[t].permit, !.busy = TRUE] \in Entry
      BY <1>0, EntryType DEF TaskRecord
    <3>2. pool' = [pool EXCEPT ![s] = [pool[s] EXCEPT !.gen = pool[s].gen + 1,
                                                      !.launch = task[t].permit, !.busy = TRUE]]
      BY <2>3 DEF Admit
    <3>3. pool' \in [Server -> Entry]
      BY <3>1, <3>2
    <3>4. task' = [task EXCEPT ![t] = [task[t] EXCEPT !.pc = "reserve", !.gen = task[t].gen + 1]]
      BY <2>3 DEF Admit
    <3> QED
      BY <1>0, <2>3, <3>3, <3>4 DEF Admit, OnlyTasks, TaskRecord
  <2>4. CASE TurnAway(t)
    BY <1>0, <2>4 DEF TurnAway, Ends, OnlyTasks
  <2>5. CASE Reserve(t)
    <3>1. \A r \in Server : /\ [Cleared(pool[r]) EXCEPT !.state = "evicted"] \in Entry
                            /\ [pool[r] EXCEPT !.state = "starting"] \in Entry
      BY ClearedType, EntryType DEF State
    <3>2. pool' \in [Server -> Entry]
      BY <2>5, <3>1 DEF Reserve
    <3> QED
      BY SMTT(30), <1>0, <2>5, <3>2 DEF Reserve, Ends, Moves, OnlyTasks, TaskRecord
  <2>6. CASE Listed(t)
    BY <1>0, <2>6 DEF Listed, Moves, OnlyTasks, TaskRecord
  <2>7. CASE Fail(t)
    <3>1. [pool[s] EXCEPT !.busy = FALSE, !.state = "error"] \in Entry
      BY <1>0, EntryType DEF State
    <3>2. pool' \in [Server -> Entry]
      BY <2>7, <3>1 DEF Fail
    <3> QED
      BY <1>0, <2>7, <3>2 DEF Fail, Ends, OnlyTasks
  <2>8. CASE Recheck(t)
    BY <1>0, <2>8 DEF Recheck, Moves, OnlyTasks, TaskRecord
  <2>9. CASE Refuse(t)
    BY <1>0, <2>9, ClearedType DEF Refuse, Ends, OnlyTasks
  <2>10. CASE Publish(t)
    <3>1. [gen |-> task[t].gen, cfg |-> task[t].cfg] \in Conn
      BY <1>0 DEF TaskRecord, Conn
    <3>2. [pool[s] EXCEPT !.conn = [gen |-> task[t].gen, cfg |-> task[t].cfg],
                         !.busy = FALSE, !.state = "ready"] \in Entry
      BY <1>0, <3>1, EntryType DEF State
    <3>3. pool' \in [Server -> Entry]
      BY <2>10, <3>2 DEF Publish
    <3> QED
      BY <1>0, <2>10, <3>3 DEF Publish, Ends
  <2> QED
    BY <2>1, <2>2, <2>3, <2>4, <2>5, <2>6, <2>7, <2>8, <2>9, <2>10 DEF TaskStep
<1>2. UNCHANGED <<disk, life, commit, op, ops, grant, registry, agents>>
  BY DEF TaskStep, Permit, Deny, Admit, TurnAway, Reserve, Listed, Fail, Recheck, Refuse, Publish,
         OnlyTasks
<1> QED
  BY <1>1, <1>2 DEF registry, agents

\* ... and those of the agents, who list connections of ready entries only.
LEMMA AgentType ==
  ASSUME TypeOK, ReadyIsConnected, NEW x \in Session, AgentStep(x)
  PROVE  TypeOK'
<1> USE DEF TypeOK
<1> DEFINE Calls == {NoCall} \union [pc : {"bound", "running"}, binding : Binding,
                                     over : Conn \union {NoConn}]
<1>1. CASE Snapshot(x)
  <2> DEFINE bindings == {[server |-> s, gen |-> pool[s].gen, cfg |-> pool[s].cfg,
                           conn |-> pool[s].conn] : s \in {s \in seen[x] : Ready(s)}}
  <2>1. ASSUME NEW s \in Server, Ready(s)
        PROVE  [server |-> s, gen |-> pool[s].gen, cfg |-> pool[s].cfg, conn |-> pool[s].conn]
                  \in Binding
    BY <2>1 DEF Ready, ReadyIsConnected, Binding, Entry, CfgOrNone
  <2>2. bindings \in SUBSET Binding
    BY <2>1
  <2> HIDE DEF bindings
  <2>3. listed' = [listed EXCEPT ![x] = bindings]
    BY <1>1 DEF Snapshot, bindings
  <2> QED
    BY <1>1, <2>2, <2>3 DEF Snapshot, OnlyAgents, registry
<1>2. ASSUME NEW b \in listed[x], Request(x, b) PROVE TypeOK'
  <2>1. [pc |-> "bound", binding |-> b, over |-> NoConn] \in Calls
    OBVIOUS
  <2> QED
    BY <1>2, <2>1 DEF Request, OnlyAgents, registry
<1>3. CASE Allow(x)
  <2> DEFINE b == call[x].binding
             n == [b.cfg EXCEPT !.always = TRUE]
  <2>1. call[x] \in [pc : {"bound", "running"}, binding : Binding, over : Conn \union {NoConn}]
    BY <1>3 DEF Allow, NoCall
  <2>2. b \in Binding /\ b.server \in Server /\ b.cfg \in Cfg
    BY <2>1 DEF Binding
  <2>3. n \in Cfg /\ n \in CfgOrNone
    BY <2>2 DEF Cfg, CfgOrNone
  <2>4. [b EXCEPT !.cfg = n] \in Binding
    BY <2>2, <2>3 DEF Binding
  <2>5. [call[x] EXCEPT !.binding = [b EXCEPT !.cfg = n]] \in Calls
    BY <2>1, <2>4
  <2>6. [pool[b.server] EXCEPT !.cfg = n, !.launch = n] \in Entry
    BY <2>2, <2>3, EntryType
  <2>7. /\ pool' = [pool EXCEPT ![b.server] = [pool[b.server] EXCEPT !.cfg = n, !.launch = n]]
        /\ call' = [call EXCEPT ![x] = [call[x] EXCEPT !.binding = [b EXCEPT !.cfg = n]]]
        /\ disk' = [disk EXCEPT ![b.server] = n] /\ grant' = [grant EXCEPT ![b.server] = n]
    BY <1>3 DEF Allow
  <2> HIDE DEF n, b
  <2>8. disk' \in File /\ grant' \in File
    BY <2>2, <2>3, <2>7 DEF File
  <2>9. pool' \in [Server -> Entry]
    BY <2>6, <2>7
  <2>10. call' \in [Session -> Calls]
    BY <2>5, <2>7
  <2> QED
    BY <1>3, <2>8, <2>9, <2>10 DEF Allow, registry
<1>4. CASE Call(x)
  <2> DEFINE b == call[x].binding
  <2>1. call[x] \in [pc : {"bound", "running"}, binding : Binding, over : Conn \union {NoConn}]
    BY <1>4 DEF Call, NoCall
  <2>2. b.server \in Server
    BY <2>1 DEF Binding
  <2>3. pool[b.server].conn \in Conn \union {NoConn}
    BY <2>2 DEF Entry
  <2>4. [call[x] EXCEPT !.pc = "running", !.over = pool[b.server].conn] \in Calls
    BY <2>1, <2>3
  <2>5. call' = [call EXCEPT ![x] = [call[x] EXCEPT !.pc = "running", !.over = pool[b.server].conn]]
    BY <1>4 DEF Call
  <2>6. call' \in [Session -> Calls]
    BY <2>4, <2>5
  <2> QED
    BY <1>4, <2>6 DEF Call, OnlyAgents, registry
<1>5. CASE EndCall(x)
  BY <1>5 DEF EndCall, OnlyAgents, registry
<1> QED
  BY <1>1, <1>2, <1>3, <1>4, <1>5 DEF AgentStep

-----------------------------------------------------------------------------
(* What a step does to entries and tasks *)

\* An entry keeps its generation and with it all that was made in it, ...
Kept(e, f) ==
    /\ f.gen = e.gen /\ f.conn = e.conn /\ f.busy = e.busy
    /\ f.state = "ready" => e.state = "ready"
    /\ e.cfg # NoCfg /\ (f.busy \/ f.state = "ready") => f.cfg # NoCfg /\ f.cfg.cmd = e.cfg.cmd
    /\ f.users = {} => e.users = {}

\* ... or is cleared.
Wiped(e, f) == f.gen = e.gen + 1 /\ f.conn = NoConn /\ ~ f.busy /\ f.state # "ready"

\* A task ends, goes on, or is queued for the generation of its entry.
Follows(t) ==
    \/ task'[t].pc = "none"
    \/ /\ Active(t)
       /\ task'[t].server = task[t].server
       /\ task'[t].cfg = task[t].cfg /\ task'[t].gen = task[t].gen
       /\ task'[t].pc \in AdmittedPc => Admitted(t)
    \/ task'[t].pc \notin AdmittedPc /\ task'[t].gen = pool[task'[t].server].gen

Tame ==
    /\ \A s \in Server : Kept(pool[s], pool'[s]) \/ Wiped(pool[s], pool'[s])
    /\ \A t \in Task : Follows(t)

Core == /\ TasksAreBehind /\ AdmittedIsBusy /\ AdmittedIsAlone
        /\ ReadyIsConnected /\ ReleasedIsReclaimed

Carried == \A b \in Binding : Holds(b) => Holds(b)'

\* The fields of a task that is under way.
LEMMA TaskFields ==
  ASSUME TypeOK, NEW t \in Task, Active(t)
  PROVE  /\ task[t] \in TaskRecord /\ task[t].server \in Server /\ task[t].gen \in Nat
         /\ task[t].cfg \in Cfg /\ pool[task[t].server] \in Entry
         /\ pool[task[t].server].gen \in Nat
  BY DEF TypeOK, Active, NoTask, TaskRecord, Entry

\* A step under which entries are kept or cleared and tasks follow preserves what tasks,
\* entries and bindings owe each other.
LEMMA Keeping ==
  ASSUME TypeOK, TypeOK', Core, Tame
  PROVE  Core' /\ Carried
<1>1. \A s \in Server : pool[s] \in Entry /\ pool'[s] \in Entry /\ pool[s].gen \in Nat
                       /\ pool'[s].gen \in Nat
  BY DEF TypeOK, Entry
<1>2. ASSUME NEW t \in Task, Active(t)'
      PROVE  /\ task'[t].server \in Server /\ task'[t].gen \in Nat /\ task'[t].cfg \in Cfg
             /\ task'[t].gen <= pool[task'[t].server].gen
             /\ Admitted(t)' => /\ Active(t) /\ Admitted(t)
                                /\ task'[t].server = task[t].server
                                /\ task'[t].cfg = task[t].cfg /\ task'[t].gen = task[t].gen
  <2>1. task'[t].server \in Server /\ task'[t].gen \in Nat /\ task'[t].cfg \in Cfg
    BY <1>2 DEF TypeOK, Active, NoTask, TaskRecord
  <2>2. Follows(t)
    BY DEF Tame
  <2> QED
    BY <1>1, <1>2, <2>1, <2>2 DEF Follows, Active, Admitted, Core, TasksAreBehind
<1>3. ASSUME NEW s \in Server, NEW n \in Nat, n <= pool[s].gen, n = pool'[s].gen
      PROVE  Kept(pool[s], pool'[s]) /\ n = pool[s].gen
  BY <1>1, <1>3 DEF Tame, Kept, Wiped
<1>4. TasksAreBehind'
  <2> SUFFICES ASSUME NEW t \in Task, Active(t)'
               PROVE  task'[t].gen <= pool'[task'[t].server].gen
    BY DEF TasksAreBehind, Active
  <2> QED
    BY <1>1, <1>2 DEF Tame, Kept, Wiped
<1>5. ASSUME NEW t \in Task, Admitted(t)', Current(t)'
      PROVE  /\ Active(t)' /\ Admitted(t) /\ Current(t) /\ task'[t].server = task[t].server
             /\ task'[t].cfg = task[t].cfg
             /\ Kept(pool[task[t].server], pool'[task[t].server])
  <2>1. Active(t)'
    BY <1>5 DEF Active, Admitted, AdmittedPc
  <2> QED
    BY <1>2, <1>3, <1>5, <2>1 DEF Current
<1>6. AdmittedIsBusy'
  <2> SUFFICES ASSUME NEW t \in Task, Admitted(t)', Current(t)'
               PROVE  LET e == pool'[task'[t].server]
                      IN e.busy /\ e.users # {} /\ e.cfg # NoCfg /\ e.cfg.cmd = task'[t].cfg.cmd
    BY DEF AdmittedIsBusy, Admitted, Current
  <2> QED
    BY <1>5 DEF Core, AdmittedIsBusy, Kept
<1>7. AdmittedIsAlone'
  <2> SUFFICES ASSUME NEW t \in Task, NEW u \in Task, Admitted(t)', Admitted(u)',
                      Current(t)', Current(u)', task'[t].server = task'[u].server
               PROVE  t = u
    BY DEF AdmittedIsAlone, Admitted, Current
  <2> QED
    BY <1>5 DEF Core, AdmittedIsAlone
<1>8. ReadyIsConnected' /\ ReleasedIsReclaimed'
  BY DEF Core, Tame, Kept, Wiped, ReadyIsConnected, ReleasedIsReclaimed
<1>9. Carried
  <2> SUFFICES ASSUME NEW b \in Binding, Holds(b) PROVE Holds(b)'
    BY DEF Carried
  <2>1. b.server \in Server /\ b.gen \in Nat
    BY DEF Binding
  <2>2. b.gen <= pool'[b.server].gen
    BY <1>1, <2>1 DEF Tame, Kept, Wiped, Holds
  <2>3. b.gen = pool'[b.server].gen => Kept(pool[b.server], pool'[b.server])
                                       /\ b.gen = pool[b.server].gen
    BY <1>3, <2>1 DEF Holds
  <2> QED
    BY <2>2, <2>3 DEF Holds, Kept
<1> QED
  BY <1>4, <1>6, <1>7, <1>8, <1>9 DEF Core

Rest == UnknownIsBlank /\ ReferencesAgree

\* A task whose permit is given up follows.
LEMMA VoidedFollows ==
  ASSUME NEW S, task' = Voided(S)
  PROVE  \A t \in Task : Follows(t)
BY DEF Voided, Follows, Active, Admitted

\* Entries of sessions that are not touched.
LEMMA RestStays ==
  ASSUME TypeOK, Rest, UNCHANGED <<known, seen>>,
         \A s \in Server : /\ s \notin known => pool'[s] = pool[s]
                           /\ pool'[s].users = pool[s].users
  PROVE  Rest'
BY DEF Rest, UnknownIsBlank, ReferencesAgree

\* apply_sessions keeps or clears every entry, and registers references on both sides.
LEMMA ApplyKeeps ==
  ASSUME TypeOK, Rest, NEW X \in SUBSET Session, NEW want \in File, NEW names,
         Apply(X, want, names)
  PROVE  Tame /\ Rest'
<1>1. \A t \in Task : Follows(t)
  BY VoidedFollows DEF Apply
<1>2. /\ pool' = Applied(X, want) /\ known' = known \union New(want)
      /\ seen' = [x \in Session |-> IF x \in X THEN {s \in Server : want[s] # NoCfg} ELSE seen[x]]
  BY DEF Apply
<1>3. ASSUME NEW s \in Server
      PROVE  /\ Kept(pool[s], pool'[s]) \/ Wiped(pool[s], pool'[s])
             /\ s \notin known' => pool'[s] = Blank(NoCfg)
             /\ pool'[s].users = Users(X, s, want)
  <2> DEFINE d == IF s \in known THEN pool[s] ELSE Blank(want[s])
             e == [d EXCEPT !.users = Users(X, s, want)]
  <2>1. want[s] \in CfgOrNone /\ pool[s] \in Entry
    BY DEF File, CfgOrNone, TypeOK
  <2>2. d \in Entry
    BY <2>1, BlankType
  <2>3. Users(X, s, want) \in SUBSET Session
    BY <2>1 DEF Users, Entry
  <2>4. e \in Entry /\ e.users = Users(X, s, want) /\ e.gen = d.gen /\ e.conn = d.conn
        /\ e.busy = d.busy /\ e.state = d.state /\ e.cfg = d.cfg
    BY <2>2, <2>3 DEF Entry
  <2>5. s \notin known => /\ pool[s].users = {} /\ pool[s].state = "starting" /\ pool[s].busy = FALSE
                          /\ pool[s].conn = NoConn /\ pool[s].gen = 0 /\ pool[s].cfg = NoCfg
                          /\ d.users = {} /\ d.state = "starting" /\ d.busy = FALSE
                          /\ d.conn = NoConn /\ d.gen = 0
    BY DEF Rest, UnknownIsBlank, Blank
  <2>6. pool'[s] = CASE s \in Lost(X, want) -> Stopped(e)
                     [] s \in Changed(want) -> [Cleared(e) EXCEPT !.cfg = want[s], !.state = "starting"]
                     [] OTHER -> e
    BY <1>2 DEF Applied
  <2> HIDE DEF e, d
  <2>7. CASE s \in Lost(X, want)
    <3>1. pool'[s] = Stopped(e) /\ s \in known
      BY <2>6, <2>7 DEF Lost, Left, Changed
    <3>2. d = pool[s]
      BY <3>1 DEF d
    <3>3. /\ Stopped(e).gen = e.gen + 1 /\ Stopped(e).conn = NoConn /\ Stopped(e).busy = FALSE
          /\ Stopped(e).state = "stopped" /\ Stopped(e).users = e.users
      BY <2>4, ClearedFields
    <3> QED
      BY <1>2, <2>4, <3>1, <3>2, <3>3 DEF Wiped
  <2>8. CASE s \notin Lost(X, want) /\ s \in Changed(want)
    <3> DEFINE f == [Cleared(e) EXCEPT !.cfg = want[s], !.state = "starting"]
    <3>1. pool'[s] = f /\ s \in known
      BY <2>6, <2>8 DEF Changed
    <3>2. d = pool[s]
      BY <3>1 DEF d
    <3>3. /\ f.gen = e.gen + 1 /\ f.conn = NoConn /\ f.busy = FALSE
          /\ f.state = "starting" /\ f.users = e.users
      BY <2>4, ClearedFields
    <3> HIDE DEF f
    <3> QED
      BY <1>2, <2>4, <3>1, <3>2, <3>3 DEF Wiped
  <2>9. CASE s \notin Lost(X, want) /\ s \notin Changed(want)
    <3>1. pool'[s] = e
      BY <2>6, <2>9
    <3>2. s \in known => d = pool[s]
      BY DEF d
    <3>3. pool'[s].users = {} => pool[s].users = {}
      BY <2>1, <2>4, <2>5, <2>9, <3>1 DEF Users, Lost, Entry
    <3>4. Kept(pool[s], pool'[s])
      BY <2>4, <2>5, <3>1, <3>2, <3>3 DEF Kept
    <3>5. ASSUME s \notin known' PROVE pool'[s] = Blank(NoCfg)
      <4>1. want[s] = NoCfg /\ s \notin known
        BY <1>2, <3>5 DEF New
      <4>2. d = Blank(NoCfg)
        BY <4>1 DEF d
      <4>3. Users(X, s, want) = {}
        BY <2>5, <4>1 DEF Users
      <4> QED
        BY <3>1, <4>2, <4>3 DEF e, Blank
    <3> QED
      BY <2>4, <3>1, <3>4, <3>5
  <2> QED
    BY <2>7, <2>8, <2>9
<1>4. UnknownIsBlank'
  BY <1>3 DEF UnknownIsBlank
<1>5. ReferencesAgree'
  <2>1. \A x \in Session : seen'[x] \subseteq known'
    BY <1>2 DEF Rest, ReferencesAgree, TypeOK, New
  <2>2. ASSUME NEW x \in Session, NEW s \in Server
        PROVE  x \in pool'[s].users <=> s \in seen'[x]
    BY <1>2, <1>3 DEF Rest, ReferencesAgree, Users, Left
  <2> QED
    BY <2>1, <2>2 DEF ReferencesAgree
<1> QED
  BY <1>1, <1>3, <1>4, <1>5 DEF Tame, Rest

\* The pool is not touched.
LEMMA StillKeeps ==
  ASSUME TypeOK, Rest, UNCHANGED <<seen, known, pool>>, \A t \in Task : Follows(t)
  PROVE  Tame /\ Rest'
BY RestStays DEF Tame, Kept

\* A task that is not touched follows.
LEMMA UnchangedFollow ==
  ASSUME NEW t \in Task, task'[t] = task[t]
  PROVE  Follows(t)
BY DEF Follows, Active, Admitted

\* Some known entries are cleared.
LEMMA WipeKeeps ==
  ASSUME TypeOK, Rest, UNCHANGED <<seen, known>>, \A t \in Task : Follows(t),
         \A s \in Server : pool'[s] # pool[s] => s \in known /\ pool'[s] = Stopped(pool[s])
  PROVE  Tame /\ Rest'
<1>1. \A s \in Server : /\ pool[s] \in Entry
                        /\ Stopped(pool[s]).gen = pool[s].gen + 1 /\ Stopped(pool[s]).conn = NoConn
                        /\ Stopped(pool[s]).busy = FALSE /\ Stopped(pool[s]).state = "stopped"
                        /\ Stopped(pool[s]).users = pool[s].users
  BY ClearedFields DEF TypeOK
<1>2. \A s \in Server : Kept(pool[s], pool'[s]) \/ Wiped(pool[s], pool'[s])
  BY <1>1 DEF Kept, Wiped
<1>3. Rest'
  BY <1>1, RestStays
<1> QED
  BY <1>2, <1>3 DEF Tame

\* Permits come and go.
LEMMA LaunchKeeps ==
  ASSUME TypeOK, Rest, UNCHANGED <<seen, known>>, \A t \in Task : Follows(t),
         NEW f,
         \A s \in Server : pool'[s] = pool[s] \/ pool'[s] = [pool[s] EXCEPT !.launch = f[s]],
         \A s \in Server \ known : pool'[s] = pool[s] \/ f[s] = NoCfg
  PROVE  Tame /\ Rest'
<1>1. ASSUME NEW s \in Server
      PROVE  /\ Kept(pool[s], pool'[s]) /\ pool'[s].users = pool[s].users
             /\ s \notin known => pool'[s] = pool[s]
  <2> DEFINE g == [pool[s] EXCEPT !.launch = f[s]]
  <2>1. pool[s] \in Entry
    BY DEF TypeOK
  <2>2. /\ g.gen = pool[s].gen /\ g.conn = pool[s].conn /\ g.busy = pool[s].busy
        /\ g.state = pool[s].state /\ g.cfg = pool[s].cfg /\ g.users = pool[s].users
    BY <2>1 DEF Entry
  <2>3. s \notin known => pool[s].launch = NoCfg
    BY DEF Rest, UnknownIsBlank, Blank
  <2>4. [pool[s] EXCEPT !.launch = pool[s].launch] = pool[s]
    BY <2>1 DEF Entry
  <2>5. s \notin known /\ f[s] = NoCfg => g = pool[s]
    BY <2>3, <2>4
  <2>6. pool'[s] = pool[s] \/ pool'[s] = g
    OBVIOUS
  <2> HIDE DEF g
  <2> QED
    BY <2>2, <2>5, <2>6 DEF Kept
<1> QED
  BY <1>1, RestStays DEF Tame

\* A revocation clears the entry, if there is one.
LEMMA RevokedKeeps ==
  ASSUME TypeOK, Rest, UNCHANGED <<seen, known>>, NEW s \in Server, Revoked(s)
  PROVE  Tame /\ Rest'
<1>1. \A t \in Task : Follows(t)
  BY VoidedFollows DEF Revoked
<1>2. pool \in [Server -> Entry]
  BY DEF TypeOK
<1>3. \A r \in Server : pool'[r] # pool[r] => r \in known /\ pool'[r] = Stopped(pool[r])
  BY <1>2 DEF Revoked
<1> QED
  BY <1>1, <1>3, WipeKeeps

\* The later steps of an operation keep or clear entries, and leave the agents alone.
LEMMA CallerKeeps ==
  ASSUME TypeOK, Rest, NEW c \in Caller, CallerStep(c)
  PROVE  Tame /\ Rest' /\ UNCHANGED agents
<1>0. /\ op[c].todo \in SUBSET Session /\ op[c].only \in SUBSET Server
      /\ op[c].want \in File /\ op[c].who \in Session \union {Nobody}
  BY DEF TypeOK, Op, OpRecord
<1>1. CASE UNCHANGED <<registry, pool, task, agents>>
  BY <1>1, StillKeeps, UnchangedFollow DEF registry
<1>2. CASE Reconcile(c)
  <2> DEFINE X == op[c].todo \intersect sessions
  <2>1. CASE X = {}
    BY <1>1, <1>2, <2>1 DEF Reconcile
  <2>2. CASE X # {}
    BY <1>0, <1>2, <2>2, ApplyKeeps DEF Reconcile
  <2> QED
    BY <2>1, <2>2
<1>3. CASE Register(c)
  <2>1. {op[c].who} \in SUBSET Session
    BY <1>0, <1>3 DEF Register, TypeOK, Op
  <2> QED
    BY <1>0, <1>3, <2>1, ApplyKeeps DEF Register
<1>4. CASE RevokeAgain(c)
  <2>1. PICK s \in op[c].only : IF disk[s] = op[c].want[s] THEN Revoked(s)
                                ELSE UNCHANGED <<grant, task, pool>>
    BY <1>4 DEF RevokeAgain
  <2>2. UNCHANGED <<registry, agents>>
    BY <1>4 DEF RevokeAgain
  <2>3. CASE Revoked(s)
    BY <1>0, <2>2, <2>3, RevokedKeeps DEF registry
  <2> QED
    BY <1>1, <2>1, <2>2, <2>3
<1>5. ASSUME NEW s \in Server, NEW t \in Task, Spawn(c, s, t)
      PROVE  Tame /\ Rest' /\ UNCHANGED agents
  <2>1. Follows(t)
    BY <1>5 DEF Spawn, Follows, AdmittedPc, TypeOK
  <2>2. \A u \in Task : Follows(u)
    BY <1>5, <2>1, UnchangedFollow DEF Spawn, TypeOK
  <2> QED
    BY <1>5, <2>2, StillKeeps DEF Spawn, registry
<1> QED
  BY <1>1, <1>2, <1>3, <1>4, <1>5
  DEF CallerStep, CollectSaved, CollectApproved, ConnectAgain, Name

\* A release keeps or clears the entries of the session and gives up its references.
LEMMA ReleaseKeeps ==
  ASSUME TypeOK, Rest, NEW x \in Session, Release(x)
  PROVE  Tame /\ Rest'
<1>1. /\ pool' = Dropped(x) /\ seen' = [seen EXCEPT ![x] = {}] /\ known' = known
      /\ seen \in [Session -> SUBSET Server]
  BY DEF Release, TypeOK
<1>2. \A t \in Task : Follows(t)
  BY UnchangedFollow DEF Release
<1>3. ASSUME NEW s \in Server
      PROVE  /\ Kept(pool[s], pool'[s]) \/ Wiped(pool[s], pool'[s])
             /\ s \notin known => pool'[s] = pool[s]
             /\ pool'[s].users = pool[s].users \ {x}
  <2> DEFINE e == [pool[s] EXCEPT !.users = pool[s].users \ {x}]
  <2>1. pool[s] \in Entry
    BY DEF TypeOK
  <2>2. /\ e \in Entry /\ e.gen = pool[s].gen /\ e.conn = pool[s].conn /\ e.busy = pool[s].busy
        /\ e.state = pool[s].state /\ e.cfg = pool[s].cfg /\ e.users = pool[s].users \ {x}
    BY <2>1 DEF Entry
  <2>3. pool'[s] = IF s \notin seen[x] \intersect known THEN pool[s]
                   ELSE IF e.users = {} THEN Stopped(e) ELSE e
    BY <1>1 DEF Dropped
  <2> HIDE DEF e
  <2>4. CASE s \notin seen[x] \intersect known
    <3>1. pool'[s] = pool[s]
      BY <2>3, <2>4
    <3>2. s \notin seen[x]
      BY <2>4 DEF Rest, ReferencesAgree
    <3>3. x \notin pool[s].users
      BY <3>2 DEF Rest, ReferencesAgree
    <3> QED
      BY <2>1, <3>1, <3>3 DEF Kept, Entry
  <2>5. CASE s \in seen[x] \intersect known /\ e.users = {}
    BY ZenonT(30), <2>2, <2>3, <2>5, ClearedFields DEF Wiped
  <2>6. CASE s \in seen[x] \intersect known /\ e.users # {}
    BY <2>2, <2>3, <2>6 DEF Kept
  <2> QED
    BY <2>4, <2>5, <2>6
<1>4. UnknownIsBlank'
  BY <1>1, <1>3 DEF Rest, UnknownIsBlank
<1>5. ReferencesAgree'
  BY <1>1, <1>3 DEF Rest, ReferencesAgree
<1> QED
  BY <1>2, <1>3, <1>4, <1>5 DEF Tame, Rest

\* The first steps of an operation keep or clear entries; a release forgets definitions.
LEMMA UserKeeps ==
  ASSUME TypeOK, Rest, UserStep
  PROVE  /\ Tame /\ Rest'
         /\ \A x \in Session : listed'[x] \subseteq listed[x] /\ call'[x] = call[x]
<1> DEFINE Goal == /\ Tame /\ Rest'
                   /\ \A x \in Session : listed'[x] \subseteq listed[x] /\ call'[x] = call[x]
<1>1. ASSUME NEW c \in Caller, NEW new \in Document, Save(c, new) PROVE Goal
  <2> DEFINE f == [s \in Server |-> NoCfg]
  <2>1. \A t \in Task : Follows(t)
    BY <1>1, VoidedFollows DEF Save
  <2>2. \A s \in Server : pool'[s] = pool[s] \/ pool'[s] = [pool[s] EXCEPT !.launch = f[s]]
    BY <1>1 DEF Save
  <2>3. \A s \in Server : f[s] = NoCfg
    OBVIOUS
  <2>4. UNCHANGED <<seen, known>> /\ UNCHANGED agents
    BY <1>1 DEF Save, registry
  <2> HIDE DEF f
  <2>5. Tame /\ Rest'
    BY <2>1, <2>2, <2>3, <2>4, LaunchKeeps
  <2> QED
    BY <2>4, <2>5 DEF agents
<1>2. ASSUME NEW c \in Caller, NEW x \in Session, Warm(c, x) PROVE Goal
  <2>1. Tame /\ Rest'
    BY <1>2, ApplyKeeps DEF Warm, TypeOK
  <2> QED
    BY <1>2, <2>1 DEF Warm, agents
<1>3. ASSUME NEW c \in Caller, NEW x \in Session, NEW s \in Server, Connect(c, x, s) PROVE Goal
  <2>1. Tame /\ Rest'
    BY <1>3, StillKeeps, UnchangedFollow DEF Connect, registry
  <2> QED
    BY <1>3, <2>1 DEF Connect, agents
<1>4. ASSUME NEW s \in Server, UNCHANGED <<registry, task, agents>>,
             pool' = IF s \in known THEN [pool EXCEPT ![s] = Stopped(pool[s])] ELSE pool
      PROVE  Goal
  <2>1. pool \in [Server -> Entry]
    BY DEF TypeOK
  <2>2. \A r \in Server : pool'[r] # pool[r] => r \in known /\ pool'[r] = Stopped(pool[r])
    BY <1>4, <2>1
  <2>3. Tame /\ Rest'
    BY <1>4, <2>2, UnchangedFollow, WipeKeeps DEF registry
  <2> QED
    BY <1>4, <2>3 DEF agents
<1>5. ASSUME NEW c \in Caller, NEW x \in Session, NEW s \in Server, Reconnect(c, x, s) PROVE Goal
  BY <1>4, <1>5 DEF Reconnect
<1>6. ASSUME NEW s \in Server, Disconnect(s) PROVE Goal
  BY <1>4, <1>6 DEF Disconnect
<1>7. ASSUME NEW c \in Caller, NEW s \in Server, Approve(c, s) PROVE Goal
  <2> DEFINE d == IF s \in known /\ pool[s].cfg = disk[s] THEN disk[s] ELSE NoCfg
             f == [r \in Server |-> IF r = s THEN d ELSE pool[r].launch]
  <2>1. \A t \in Task : Follows(t)
    BY <1>7, VoidedFollows, UnchangedFollow DEF Approve
  <2>2. pool' = [pool EXCEPT ![s] = [pool[s] EXCEPT !.launch = d]] /\ pool \in [Server -> Entry]
    BY <1>7 DEF Approve, TypeOK
  <2>3. \A r \in Server : pool'[r] = pool[r] \/ pool'[r] = [pool[r] EXCEPT !.launch = f[r]]
    BY <2>2
  <2>4. \A r \in Server \ known : pool'[r] = pool[r] \/ f[r] = NoCfg
    BY <2>2
  <2>5. UNCHANGED <<seen, known>> /\ UNCHANGED agents
    BY <1>7 DEF Approve, registry
  <2> HIDE DEF f
  <2>6. Tame /\ Rest'
    BY <2>1, <2>3, <2>4, <2>5, LaunchKeeps
  <2> QED
    BY <2>5, <2>6 DEF agents
<1>8. ASSUME NEW c \in Caller, NEW s \in Server, Revoke(c, s) PROVE Goal
  <2>1. Tame /\ Rest'
    BY <1>8, RevokedKeeps DEF Revoke, registry
  <2> QED
    BY <1>8, <2>1 DEF Revoke, agents
<1>9. ASSUME NEW x \in Session, Close(x) PROVE Goal
  <2>1. Tame /\ Rest'
    BY <1>9, StillKeeps, UnchangedFollow DEF Close, registry
  <2> QED
    BY <1>9, <2>1 DEF Close, agents
<1>10. ASSUME NEW x \in Session, ReleaseClosed(x) \/ ReleaseOpen(x) PROVE Goal
  <2>1. Release(x)
    BY <1>10 DEF ReleaseClosed, ReleaseOpen
  <2>2. Tame /\ Rest'
    BY <2>1, ReleaseKeeps
  <2>3. \A y \in Session : listed'[y] \subseteq listed[y] /\ call'[y] = call[y]
    BY <2>1 DEF Release, TypeOK
  <2> QED
    BY <2>2, <2>3
<1> QED
  BY <1>1, <1>2, <1>3, <1>5, <1>6, <1>7, <1>8, <1>9, <1>10 DEF UserStep

\* Admission opens a new generation, in which the task is alone.
LEMMA AdmitKeeps ==
  ASSUME TypeOK, TypeOK', Core, Rest, NEW t \in Task, Admit(t)
  PROVE  Core' /\ Carried /\ Rest'
<1> DEFINE s == task[t].server
           e == pool[s]
           f == pool'[s]
<1>1. Active(t) /\ ~ Admitted(t)
  BY DEF Admit, Active, Admitted, AdmittedPc
<1>2. /\ s \in Server /\ task[t].gen \in Nat /\ task[t].cfg \in Cfg /\ e \in Entry /\ e.gen \in Nat
      /\ task[t] \in TaskRecord
  BY <1>1, TaskFields
<1>3. /\ e.users # {} /\ e.cfg = task[t].cfg /\ e.gen = task[t].gen /\ e.state # "ready"
  BY DEF Admit, Admits, Current
<1>4. /\ f.gen = e.gen + 1 /\ f.busy = TRUE /\ f.cfg = e.cfg /\ f.users = e.users
      /\ f.state = e.state /\ f.conn = e.conn
      /\ \A r \in Server : r # s => pool'[r] = pool[r]
  <2>1. pool' = [pool EXCEPT ![s] = [pool[s] EXCEPT !.gen = pool[s].gen + 1,
                                                    !.launch = task[t].permit, !.busy = TRUE]]
    BY DEF Admit
  <2>2. pool \in [Server -> Entry]
    BY DEF TypeOK
  <2> QED
    BY <1>2, <2>1, <2>2 DEF Entry
<1>5. /\ task'[t].pc = "reserve" /\ task'[t].gen = task[t].gen + 1
      /\ task'[t].server = s /\ task'[t].cfg = task[t].cfg
      /\ \A u \in Task : u # t => task'[u] = task[u]
  <2>1. task' = [task EXCEPT ![t] = [task[t] EXCEPT !.pc = "reserve", !.gen = task[t].gen + 1]]
    BY DEF Admit
  <2>2. task \in [Task -> TaskRecord \union {NoTask}]
    BY DEF TypeOK
  <2> QED
    BY <1>2, <2>1, <2>2 DEF TaskRecord
<1> HIDE DEF s, e, f
<1>6. ASSUME NEW u \in Task, u # t, Active(u)
      PROVE  /\ task[u].server \in Server /\ task[u].gen \in Nat
             /\ pool[task[u].server].gen \in Nat
             /\ task[u].gen <= pool[task[u].server].gen
             /\ task[u].server = s => task[u].gen # f.gen
  BY <1>2, <1>4, <1>6, TaskFields DEF Core, TasksAreBehind, e
<1>7. TasksAreBehind'
  <2> SUFFICES ASSUME NEW u \in Task, Active(u)'
               PROVE  task'[u].gen <= pool'[task'[u].server].gen
    BY DEF TasksAreBehind, Active
  <2>1. CASE u = t
    BY <1>2, <1>3, <1>4, <1>5, <2>1 DEF f
  <2>2. CASE u # t
    BY <1>2, <1>4, <1>5, <1>6, <2>2 DEF f, e, Active
  <2> QED
    BY <2>1, <2>2
<1>8. ASSUME NEW u \in Task, u # t, Admitted(u)', Current(u)'
      PROVE  Admitted(u) /\ Current(u) /\ task[u].server # s /\ task'[u] = task[u]
             /\ pool'[task[u].server] = pool[task[u].server]
  <2>1. Active(u) /\ task'[u] = task[u]
    BY <1>5, <1>8 DEF Active, Admitted, AdmittedPc
  <2>2. task[u].server # s
    BY <1>6, <1>8, <2>1 DEF Current, f
  <2> QED
    BY <1>4, <1>6, <1>8, <2>1, <2>2 DEF Current, Admitted
<1>9. AdmittedIsBusy'
  <2> SUFFICES ASSUME NEW u \in Task, Admitted(u)', Current(u)'
               PROVE  LET g == pool'[task'[u].server]
                      IN g.busy /\ g.users # {} /\ g.cfg # NoCfg /\ g.cfg.cmd = task'[u].cfg.cmd
    BY DEF AdmittedIsBusy, Admitted, Current
  <2>1. CASE u = t
    BY <1>2, <1>3, <1>4, <1>5, <2>1, McpAssumption DEF f
  <2>2. CASE u # t
    BY <1>8, <2>2 DEF Core, AdmittedIsBusy
  <2> QED
    BY <2>1, <2>2
<1>10. AdmittedIsAlone'
  <2> SUFFICES ASSUME NEW u \in Task, NEW v \in Task, Admitted(u)', Admitted(v)',
                      Current(u)', Current(v)', task'[u].server = task'[v].server
               PROVE  u = v
    BY DEF AdmittedIsAlone, Admitted, Current
  <2> QED
    BY <1>5, <1>8 DEF Core, AdmittedIsAlone
<1>11. ReadyIsConnected' /\ ReleasedIsReclaimed'
  BY <1>3, <1>4 DEF Core, ReadyIsConnected, ReleasedIsReclaimed, f, e
<1>12. Carried
  <2> SUFFICES ASSUME NEW b \in Binding, Holds(b) PROVE Holds(b)'
    BY DEF Carried
  <2>1. b.server \in Server /\ b.gen \in Nat
    BY DEF Binding
  <2>2. CASE b.server = s
    BY <1>2, <1>4, <2>1, <2>2 DEF Holds, e, f
  <2>3. CASE b.server # s
    BY <1>4, <2>1, <2>3 DEF Holds
  <2> QED
    BY <2>2, <2>3
<1>13. Rest'
  <2>1. s \in known
    BY <1>2, <1>3 DEF Rest, UnknownIsBlank, Blank, e
  <2>2. \A r \in Server : /\ r \notin known => pool'[r] = pool[r]
                          /\ pool'[r].users = pool[r].users
    BY <1>4, <2>1 DEF e, f
  <2> QED
    BY <2>2, RestStays DEF Admit, OnlyTasks, registry
<1> QED
  BY <1>7, <1>9, <1>10, <1>11, <1>12, <1>13 DEF Core

\* The current task of a generation ends its entry's connecting, with a service or without.
Concludes(t) ==
    LET s == task[t].server
        f == pool'[s]
    IN /\ Admitted(t) /\ Current(t)
       /\ f.gen = pool[s].gen /\ f.busy = FALSE /\ f.cfg = pool[s].cfg /\ f.users = pool[s].users
       /\ \/ f.state = "ready" /\ f.conn = [gen |-> task[t].gen, cfg |-> task[t].cfg]
          \/ f.state = "error" /\ f.conn = pool[s].conn
       /\ \A r \in Server : r # s => pool'[r] = pool[r]
       /\ task'[t].pc = "none"
       /\ \A u \in Task : u # t => task'[u] = task[u]

\* The end of a connection preserves what Core says, and what others hold.
LEMMA ConcludeKeeps ==
  ASSUME TypeOK, TypeOK', Core, Rest, UNCHANGED <<seen, known>>, NEW t \in Task, Concludes(t)
  PROVE  Core' /\ Carried /\ Rest'
<1> DEFINE s == task[t].server
           e == pool[s]
           f == pool'[s]
<1>1. Active(t) /\ Admitted(t) /\ Current(t)
  BY DEF Concludes, Active, Admitted, AdmittedPc
<1>2. /\ s \in Server /\ task[t].cfg \in Cfg /\ task[t].gen \in Nat /\ e \in Entry
  BY <1>1, TaskFields
<1>3. e.busy /\ e.users # {} /\ e.cfg # NoCfg /\ e.cfg.cmd = task[t].cfg.cmd
  BY <1>1 DEF Core, AdmittedIsBusy
<1>4. /\ f.gen = e.gen /\ f.busy = FALSE /\ f.cfg = e.cfg /\ f.users = e.users
      /\ \/ f.state = "ready" /\ f.conn = [gen |-> task[t].gen, cfg |-> task[t].cfg]
         \/ f.state = "error" /\ f.conn = e.conn
      /\ \A r \in Server : r # s => pool'[r] = pool[r]
      /\ task'[t].pc = "none"
      /\ \A u \in Task : u # t => task'[u] = task[u]
  BY DEF Concludes
<1> HIDE DEF s, e, f
<1>5. \A r \in Server : pool'[r].gen = pool[r].gen
  BY <1>4 DEF e, f
<1>6. TasksAreBehind'
  <2> SUFFICES ASSUME NEW u \in Task, Active(u)'
               PROVE  task'[u].gen <= pool'[task'[u].server].gen
    BY DEF TasksAreBehind, Active
  <2>1. u # t /\ task'[u] = task[u] /\ Active(u)
    BY <1>4 DEF Active
  <2> QED
    BY <1>5, <2>1, TaskFields DEF Core, TasksAreBehind
<1>7. ASSUME NEW u \in Task, Admitted(u)', Current(u)'
      PROVE  Admitted(u) /\ Current(u) /\ task'[u] = task[u]
             /\ pool'[task[u].server] = pool[task[u].server]
  <2>1. u # t /\ task'[u] = task[u] /\ Active(u) /\ Admitted(u)
    BY <1>4, <1>7 DEF Active, Admitted, AdmittedPc
  <2>2. task[u].server \in Server
    BY <2>1, TaskFields
  <2>3. Current(u)
    BY <1>5, <1>7, <2>1, <2>2 DEF Current
  <2>4. task[u].server # s
    BY <1>1, <2>1, <2>3 DEF Core, AdmittedIsAlone, s
  <2> QED
    BY <1>4, <2>1, <2>2, <2>3, <2>4
<1>8. AdmittedIsBusy'
  <2> SUFFICES ASSUME NEW u \in Task, Admitted(u)', Current(u)'
               PROVE  LET g == pool'[task'[u].server]
                      IN g.busy /\ g.users # {} /\ g.cfg # NoCfg /\ g.cfg.cmd = task'[u].cfg.cmd
    BY DEF AdmittedIsBusy, Admitted, Current
  <2> QED
    BY <1>7 DEF Core, AdmittedIsBusy
<1>9. AdmittedIsAlone'
  <2> SUFFICES ASSUME NEW u \in Task, NEW v \in Task, Admitted(u)', Admitted(v)',
                      Current(u)', Current(v)', task'[u].server = task'[v].server
               PROVE  u = v
    BY DEF AdmittedIsAlone, Admitted, Current
  <2> QED
    BY <1>7 DEF Core, AdmittedIsAlone
<1>10. ReadyIsConnected' /\ ReleasedIsReclaimed'
  <2>1. [gen |-> task[t].gen, cfg |-> task[t].cfg] # NoConn
    BY <1>2, McpAssumption DEF Conn
  <2> QED
    BY <1>3, <1>4, <2>1 DEF Core, ReadyIsConnected, ReleasedIsReclaimed, f, e
<1>11. Carried
  <2> SUFFICES ASSUME NEW b \in Binding, Holds(b) PROVE Holds(b)'
    BY DEF Carried
  <2>1. b.server \in Server /\ b.gen \in Nat
    BY DEF Binding
  <2>2. CASE b.server = s
    BY <1>3, <1>4, <2>1, <2>2 DEF Holds, e, f
  <2>3. CASE b.server # s
    BY <1>4, <2>1, <2>3 DEF Holds
  <2> QED
    BY <2>2, <2>3
<1>12. Rest'
  <2>1. s \in known
    BY <1>2, <1>3 DEF Rest, UnknownIsBlank, Blank, e
  <2>2. \A r \in Server : /\ r \notin known => pool'[r] = pool[r]
                          /\ pool'[r].users = pool[r].users
    BY <1>4, <2>1 DEF e, f
  <2> QED
    BY <2>2, RestStays
<1> QED
  BY <1>6, <1>8, <1>9, <1>10, <1>11, <1>12 DEF Core

\* One task moves and its entry stays.
LEMMA MoveFollows ==
  ASSUME NEW t \in Task, Active(t), \A u \in Task : u # t => task'[u] = task[u],
         \/ task'[t].pc = "none"
         \/ /\ task'[t].server = task[t].server
            /\ task'[t].cfg = task[t].cfg /\ task'[t].gen = task[t].gen
            /\ task'[t].pc \in AdmittedPc => Admitted(t)
  PROVE  \A u \in Task : Follows(u)
BY UnchangedFollow DEF Follows

\* An entry that is busy or has a configuration is registered.
LEMMA BusyIsKnown ==
  ASSUME Rest, NEW s \in Server, pool[s].busy \/ pool[s].cfg # NoCfg
  PROVE  s \in known
BY DEF Rest, UnknownIsBlank, Blank

\* The steps of a spawned task preserve it all: those that do more than keep or clear are
\* its admission and its end.
LEMMA TaskKeeps ==
  ASSUME TypeOK, TypeOK', Core, Rest, NEW t \in Task, TaskStep(t)
  PROVE  Core' /\ Carried /\ Rest' /\ UNCHANGED agents
<1> DEFINE s == task[t].server
<1>0. UNCHANGED <<seen, known>> /\ UNCHANGED agents
  BY DEF TaskStep, Permit, Deny, Admit, TurnAway, Reserve, Listed, Fail, Recheck, Refuse, Publish,
         OnlyTasks, registry
<1>1. Active(t)
  BY DEF TaskStep, Permit, Deny, Admit, TurnAway, Reserve, Listed, Fail, Recheck, Refuse, Publish,
         Active
<1>2. /\ task[t] \in TaskRecord /\ s \in Server /\ task[t].cfg \in Cfg /\ pool[s] \in Entry
      /\ pool \in [Server -> Entry] /\ task \in [Task -> TaskRecord \union {NoTask}]
  BY <1>1, TaskFields DEF TypeOK
<1>3. Admitted(t) /\ Current(t) => /\ pool[s].busy /\ pool[s].users # {} /\ pool[s].cfg # NoCfg
                                  /\ s \in known
  BY <1>2, BusyIsKnown DEF Core, AdmittedIsBusy
<1>4. CASE Permit(t) \/ TurnAway(t) \/ Listed(t) \/ Recheck(t)
  <2>1. pool' = pool
    BY <1>4 DEF Permit, TurnAway, Listed, Recheck
  <2>2. \A u \in Task : Follows(u)
    <3>1. CASE Permit(t)
      BY <1>1, <1>2, <3>1, MoveFollows DEF Permit, AdmittedPc, TaskRecord
    <3>2. CASE TurnAway(t)
      BY <1>1, <1>2, <3>2, MoveFollows DEF TurnAway, Ends, NoTask
    <3>3. CASE Listed(t) \/ Recheck(t)
      <4>1. Admitted(t)
        BY <3>3 DEF Listed, Recheck, Admitted, AdmittedPc
      <4>2. PICK pc \in AdmittedPc : task' = [task EXCEPT ![t] = [task[t] EXCEPT !.pc = pc]]
        BY <3>3 DEF Listed, Recheck, Moves, AdmittedPc
      <4> QED
        BY <1>1, <1>2, <4>1, <4>2, MoveFollows DEF TaskRecord
    <3> QED
      BY <1>4, <3>1, <3>2, <3>3
  <2> QED
    BY <1>0, <2>1, <2>2, StillKeeps, Keeping
<1>5. CASE Deny(t)
  <2>1. \A u \in Task : Follows(u)
    BY <1>1, <1>2, <1>5, MoveFollows DEF Deny, Ends, NoTask
  <2>2. CASE pool' = pool
    BY <1>0, <2>1, <2>2, StillKeeps, Keeping
  <2>3. CASE pool' # pool
    <3>1. /\ pool' = [pool EXCEPT ![s] = [pool[s] EXCEPT !.state = "stopped"]]
          /\ pool[s].cfg = task[t].cfg
      BY <1>5, <2>3 DEF Deny
    <3>2. s \in known
      BY <1>2, <3>1, BusyIsKnown, McpAssumption
    <3>3. \A r \in Server : /\ Kept(pool[r], pool'[r])
                            /\ pool'[r].users = pool[r].users
                            /\ r \notin known => pool'[r] = pool[r]
      BY <1>2, <3>1, <3>2 DEF Kept, Entry
    <3>4. Rest'
      BY <1>0, <3>3, RestStays
    <3>5. Tame
      BY <2>1, <3>3 DEF Tame
    <3> QED
      BY <1>0, <3>4, <3>5, Keeping
  <2> QED
    BY <2>2, <2>3
<1>6. CASE Admit(t)
  BY <1>0, <1>6, AdmitKeeps
<1>7. CASE Reserve(t)
  <2>1. \A u \in Task : Follows(u)
    <3>1. Admitted(t)
      BY <1>7 DEF Reserve, Admitted, AdmittedPc
    <3>2. \/ task' = [task EXCEPT ![t] = NoTask]
          \/ task' = [task EXCEPT ![t] = [task[t] EXCEPT !.pc = "connect"]]
      BY <1>7 DEF Reserve, Ends, Moves
    <3> QED
      BY <1>1, <1>2, <3>1, <3>2, MoveFollows DEF NoTask, TaskRecord
  <2>2. PICK V \in SUBSET Evictable(s) :
           pool' = [r \in Server |->
                      IF r \in V THEN [Cleared(pool[r]) EXCEPT !.state = "evicted"]
                      ELSE IF r = s /\ Current(t)
                           THEN [pool[r] EXCEPT !.state = "starting"] ELSE pool[r]]
    BY <1>7 DEF Reserve
  <2>3. V \subseteq known
    BY <2>2 DEF Evictable
  <2>4. ASSUME NEW r \in Server
        PROVE  /\ Kept(pool[r], pool'[r]) \/ Wiped(pool[r], pool'[r])
               /\ pool'[r].users = pool[r].users
               /\ r \notin known => pool'[r] = pool[r]
    <3>1. pool[r] \in Entry
      BY DEF TypeOK
    <3>2. CASE r \in V
      <4>1. pool'[r] = [Cleared(pool[r]) EXCEPT !.state = "evicted"]
        BY <2>2, <3>2
      <4>2. /\ pool'[r].gen = pool[r].gen + 1 /\ pool'[r].conn = NoConn
            /\ pool'[r].busy = FALSE /\ pool'[r].state = "evicted"
            /\ pool'[r].users = pool[r].users
        BY <3>1, <4>1, ClearedType DEF Entry
      <4>3. r \in known
        BY <2>3, <3>2
      <4> QED
        BY <4>2, <4>3 DEF Wiped
    <3>3. CASE r \notin V /\ r = s /\ Current(t)
      <4>1. pool'[r] = [pool[r] EXCEPT !.state = "starting"]
        BY <2>2, <3>3
      <4>2. r \in known
        BY <1>3, <1>7, <3>3 DEF Reserve, Admitted, AdmittedPc
      <4> QED
        BY <3>1, <4>1, <4>2 DEF Kept, Entry
    <3>4. CASE r \notin V /\ ~ (r = s /\ Current(t))
      BY <2>2, <3>4 DEF Kept
    <3> QED
      BY <3>2, <3>3, <3>4
  <2> QED
    BY <1>0, <2>1, <2>4, RestStays, Keeping DEF Tame
<1>8. CASE Refuse(t)
  <2>1. \A u \in Task : Follows(u)
    BY <1>1, <1>2, <1>8, MoveFollows DEF Refuse, Ends, NoTask
  <2>2. Admitted(t)
    BY <1>8 DEF Refuse, Admitted, AdmittedPc
  <2>3. \A r \in Server : pool'[r] # pool[r] => r \in known /\ pool'[r] = Stopped(pool[r])
    BY <1>2, <1>3, <1>8, <2>2 DEF Refuse
  <2> QED
    BY <1>0, <2>1, <2>3, WipeKeeps, Keeping
<1>9. CASE Fail(t) \/ Publish(t)
  <2>1. \A u \in Task : Follows(u)
    BY <1>1, <1>2, <1>9, MoveFollows DEF Fail, Publish, Ends, NoTask
  <2>2. CASE pool' = pool
    BY <1>0, <2>1, <2>2, StillKeeps, Keeping
  <2>3. CASE pool' # pool
    <3>1. Admitted(t)
      BY <1>9 DEF Fail, Publish, Admitted, AdmittedPc
    <3>2. /\ task'[t].pc = "none" /\ \A u \in Task : u # t => task'[u] = task[u]
      BY <1>2, <1>9 DEF Fail, Publish, Ends, NoTask
    <3>3. /\ Current(t)
          /\ \/ pool' = [pool EXCEPT ![s] = [pool[s] EXCEPT !.busy = FALSE, !.state = "error"]]
             \/ pool' = [pool EXCEPT ![s] = [pool[s] EXCEPT
                            !.conn = [gen |-> task[t].gen, cfg |-> task[t].cfg],
                            !.busy = FALSE, !.state = "ready"]]
      BY <1>9, <2>3 DEF Fail, Publish
    <3>4. /\ pool'[s].gen = pool[s].gen /\ pool'[s].busy = FALSE /\ pool'[s].cfg = pool[s].cfg
          /\ pool'[s].users = pool[s].users
      <4> DEFINE f == [pool[s] EXCEPT !.busy = FALSE, !.state = "error"]
                 g == [pool[s] EXCEPT !.conn = [gen |-> task[t].gen, cfg |-> task[t].cfg],
                                      !.busy = FALSE, !.state = "ready"]
      <4>1. /\ f.gen = pool[s].gen /\ f.busy = FALSE /\ f.cfg = pool[s].cfg
            /\ f.users = pool[s].users
        BY <1>2 DEF Entry
      <4>2. /\ g.gen = pool[s].gen /\ g.busy = FALSE /\ g.cfg = pool[s].cfg
            /\ g.users = pool[s].users
        BY <1>2 DEF Entry
      <4>3. pool'[s] = f \/ pool'[s] = g
        BY <1>2, <3>3
      <4> HIDE DEF f, g
      <4> QED
        BY <4>1, <4>2, <4>3
    <3>5. \/ pool'[s].state = "ready" /\ pool'[s].conn = [gen |-> task[t].gen, cfg |-> task[t].cfg]
          \/ pool'[s].state = "error" /\ pool'[s].conn = pool[s].conn
      BY <1>2, <3>3 DEF Entry
    <3>6. \A r \in Server : r # s => pool'[r] = pool[r]
      BY <1>2, <3>3
    <3>7. Concludes(t)
      BY <3>1, <3>2, <3>3, <3>4, <3>5, <3>6 DEF Concludes
    <3> QED
      BY <1>0, <3>7, ConcludeKeeps
  <2> QED
    BY <2>2, <2>3
<1> QED
  BY <1>4, <1>5, <1>6, <1>7, <1>8, <1>9 DEF TaskStep

-----------------------------------------------------------------------------
(* The agents and what they hold *)

\* What agent x holds after a step holds then.
HoldsAfter(x) ==
    \A b \in Binding :
        (b \in listed'[x] \/ (call'[x].pc # "none" /\ call'[x].binding = b)) => Holds(b)'

\* The invariant of the bindings, session by session.
LEMMA AllHold ==
  ASSUME TypeOK', \A x \in Session : HoldsAfter(x)
  PROVE  BindingsHold'
<1>1. \A x \in Session : /\ listed'[x] \in SUBSET Binding
                         /\ call'[x].pc # "none" => call'[x].binding \in Binding
  BY DEF TypeOK, NoCall
<1> QED
  BY <1>1 DEF HoldsAfter, BindingsHold, Holds

\* Bindings that are carried over and not replaced still hold.
LEMMA BindingsStay ==
  ASSUME TypeOK, Carried, BindingsHold, NEW x \in Session,
         listed'[x] \subseteq listed[x], call'[x] = call[x]
  PROVE  HoldsAfter(x)
BY DEF Carried, BindingsHold, HoldsAfter

\* Allowing a tool leaves the entry with its connection, under a configuration of the same
\* command.
LEMMA AllowKeeps ==
  ASSUME TypeOK, Rest, NEW x \in Session, Allow(x)
  PROVE  Tame /\ Rest'
<1> DEFINE b == call[x].binding
           n == [b.cfg EXCEPT !.always = TRUE]
           s == b.server
<1>1. b \in Binding /\ s \in Server /\ b.cfg \in Cfg
  BY DEF TypeOK, Allow, NoCall, Binding
<1>2. n # NoCfg /\ n.cmd = b.cfg.cmd
  BY <1>1, McpAssumption DEF Cfg
<1>3. pool' = [pool EXCEPT ![s] = [pool[s] EXCEPT !.cfg = n, !.launch = n]]
  BY DEF Allow
<1>4. s \in known /\ pool[s].cfg = b.cfg /\ pool[s] \in Entry /\ pool \in [Server -> Entry]
  BY <1>1 DEF Allow, Valid, Ready, TypeOK
<1>5. UNCHANGED <<seen, known, task>>
  BY DEF Allow, registry
<1> DEFINE f == [pool[s] EXCEPT !.cfg = n, !.launch = n]
<1> HIDE DEF n
<1>6. /\ f.gen = pool[s].gen /\ f.conn = pool[s].conn /\ f.busy = pool[s].busy
      /\ f.state = pool[s].state /\ f.cfg = n /\ f.users = pool[s].users
  BY <1>4 DEF Entry
<1>7. pool'[s] = f /\ \A r \in Server : r # s => pool'[r] = pool[r]
  BY <1>1, <1>3, <1>4
<1> HIDE DEF f, s, b
<1>8. \A r \in Server : Kept(pool[r], pool'[r])
  BY <1>2, <1>4, <1>6, <1>7 DEF Kept
<1>9. Rest'
  BY <1>4, <1>5, <1>6, <1>7, RestStays
<1> QED
  BY <1>5, <1>8, <1>9, UnchangedFollow DEF Tame

\* A definition of a ready entry.
LEMMA ListedHolds ==
  ASSUME TypeOK, ReadyIsConnected, NEW s \in Server, Ready(s)
  PROVE  Holds([server |-> s, gen |-> pool[s].gen, cfg |-> pool[s].cfg, conn |-> pool[s].conn])
BY DEF TypeOK, Entry, ReadyIsConnected, Ready, Holds

\* The steps of the agents preserve it all.
LEMMA AgentKeeps ==
  ASSUME Inv, TypeOK', NEW x \in Session, AgentStep(x)
  PROVE  Core' /\ Rest' /\ BindingsHold' /\ CallsReachTheirListing'
<1>0. TypeOK /\ Core /\ Rest /\ BindingsHold /\ CallsReachTheirListing /\ ReadyIsConnected
  BY DEF Inv, Core, Rest
<1>1. Tame /\ Rest'
  <2>1. CASE Allow(x)
    BY <1>0, <2>1, AllowKeeps
  <2>2. CASE OnlyAgents
    BY <1>0, <2>2, StillKeeps, UnchangedFollow DEF OnlyAgents, registry
  <2> QED
    BY <2>1, <2>2 DEF AgentStep, Snapshot, Request, Call, EndCall
<1>2. Core' /\ Carried
  BY <1>0, <1>1, Keeping
<1>3. ASSUME NEW y \in Session, listed'[y] = listed[y], call'[y] = call[y]
      PROVE  HoldsAfter(y)
  BY <1>0, <1>2, <1>3, BindingsStay
<1>4. \A y \in Session : y # x => listed'[y] = listed[y] /\ call'[y] = call[y]
  BY <1>0 DEF AgentStep, Snapshot, Request, Allow, Call, EndCall, TypeOK
<1>5. SUFFICES /\ HoldsAfter(x)
               /\ call'[x].pc = "running" => /\ call'[x].over = call'[x].binding.conn
                                             /\ call'[x].over.cfg.cmd = call'[x].binding.cfg.cmd
  <2>1. \A y \in Session : HoldsAfter(y)
    BY <1>3, <1>4, <1>5
  <2>2. CallsReachTheirListing'
    BY <1>0, <1>4, <1>5 DEF CallsReachTheirListing
  <2> QED
    BY <1>1, <1>2, <2>1, <2>2, AllHold
<1>6. /\ listed \in [Session -> SUBSET Binding] /\ listed[x] \in SUBSET Binding
      /\ call \in [Session -> {NoCall} \union [pc : {"bound", "running"}, binding : Binding,
                                               over : Conn \union {NoConn}]]
  BY <1>0 DEF TypeOK
<1>7. \A b \in Binding : (b \in listed[x] \/ (call[x].pc # "none" /\ call[x].binding = b))
                        => Holds(b) /\ Holds(b)'
  BY <1>0, <1>2 DEF BindingsHold, Carried
<1>8. CASE Snapshot(x)
  <2>1. UNCHANGED <<pool, known, call>>
    BY <1>8 DEF Snapshot, OnlyAgents, registry
  <2>2. ASSUME NEW b \in Binding, b \in listed'[x] PROVE Holds(b)'
    <3>1. PICK s \in seen[x] : /\ Ready(s)
                               /\ b = [server |-> s, gen |-> pool[s].gen, cfg |-> pool[s].cfg,
                                       conn |-> pool[s].conn]
      BY <1>6, <1>8, <2>2 DEF Snapshot
    <3>2. s \in Server
      BY <1>0 DEF TypeOK
    <3>3. Holds(b)
      BY <1>0, <3>1, <3>2, ListedHolds
    <3> QED
      BY <2>1, <3>3 DEF Holds
  <2> QED
    BY <1>0, <1>7, <2>1, <2>2 DEF CallsReachTheirListing, HoldsAfter
<1>9. ASSUME NEW b \in listed[x], Request(x, b)
      PROVE  /\ listed'[x] = listed[x] /\ call'[x].pc = "bound" /\ call'[x].binding = b
  BY <1>6, <1>9 DEF Request
<1>10. CASE \E b \in listed[x] : Request(x, b)
  BY <1>6, <1>7, <1>9, <1>10 DEF HoldsAfter
<1>11. CASE Allow(x)
  <2>1. /\ call[x].pc = "bound"
        /\ call[x] \in [pc : {"bound", "running"}, binding : Binding, over : Conn \union {NoConn}]
    BY <1>6, <1>11 DEF Allow, NoCall
  <2>2. PICK b \in Binding : b = call[x].binding
    BY <2>1
  <2>3. PICK n \in Cfg : n = [b.cfg EXCEPT !.always = TRUE] /\ n.cmd = b.cfg.cmd
    <3>1. b.cfg \in Cfg
      BY DEF Binding
    <3>2. /\ [b.cfg EXCEPT !.always = TRUE] \in Cfg
          /\ [b.cfg EXCEPT !.always = TRUE].cmd = b.cfg.cmd
      BY <3>1 DEF Cfg
    <3> QED
      BY <3>2
  <2>4. PICK m \in Binding : /\ m = [b EXCEPT !.cfg = n] /\ m.cfg = n
                             /\ m.server = b.server /\ m.gen = b.gen /\ m.conn = b.conn
    <3> DEFINE m == [b EXCEPT !.cfg = n]
    <3>1. /\ m \in Binding /\ m.cfg = n
          /\ m.server = b.server /\ m.gen = b.gen /\ m.conn = b.conn
      BY DEF Binding
    <3> HIDE DEF m
    <3>2. m = [b EXCEPT !.cfg = n]
      BY DEF m
    <3> QED
      BY <3>1, <3>2
  <2>5. call' = [call EXCEPT ![x] = [call[x] EXCEPT !.binding = m]] /\ listed' = listed
    BY <1>11, <2>2, <2>3, <2>4 DEF Allow
  <2>6. call'[x].pc = "bound" /\ call'[x].binding = m
    BY <1>6, <2>1, <2>5
  <2>7. Holds(b)'
    BY <1>7, <2>1, <2>2
  <2>8. Holds(m)'
    BY <2>3, <2>4, <2>7 DEF Holds
  <2> QED
    BY <1>7, <2>5, <2>6, <2>8 DEF HoldsAfter
<1>12. CASE Call(x)
  <2>1. /\ call[x].pc = "bound" /\ Valid(x, call[x].binding)
        /\ call[x] \in [pc : {"bound", "running"}, binding : Binding, over : Conn \union {NoConn}]
    BY <1>6, <1>12 DEF Call, NoCall
  <2>2. PICK b \in Binding : b = call[x].binding
    BY <2>1
  <2>3. Holds(b) /\ Holds(b)'
    BY <1>7, <2>1, <2>2
  <2>4. call' = [call EXCEPT ![x] = [call[x] EXCEPT !.pc = "running",
                                                    !.over = pool[b.server].conn]]
        /\ listed' = listed
    BY <1>12, <2>2 DEF Call, OnlyAgents
  <2>5. call'[x].pc = "running" /\ call'[x].binding = b /\ call'[x].over = pool[b.server].conn
    BY <1>6, <2>1, <2>2, <2>4
  <2>6. pool[b.server].conn = b.conn /\ b.conn.cfg.cmd = b.cfg.cmd
    BY <2>1, <2>2, <2>3 DEF Valid, Ready, Holds
  <2> QED
    BY <1>7, <2>3, <2>4, <2>5, <2>6 DEF HoldsAfter
<1>13. CASE EndCall(x)
  BY <1>6, <1>7, <1>13 DEF EndCall, NoCall, HoldsAfter
<1> QED
  BY <1>8, <1>10, <1>11, <1>12, <1>13 DEF AgentStep

-----------------------------------------------------------------------------
(* The theorems *)

\* The inductive invariant holds at the start ...
LEMMA InvInit == ASSUME Init PROVE Inv
<1>1. TypeOK
  BY TypeInit
<1>2. \A t \in Task : task[t].pc = "none"
  BY DEF Init, NoTask
<1>3. \A s \in Server : pool[s] = Blank(NoCfg)
  BY DEF Init
<1>4. TasksAreBehind /\ AdmittedIsBusy /\ AdmittedIsAlone
  BY <1>2 DEF TasksAreBehind, AdmittedIsBusy, AdmittedIsAlone, Active, Admitted, AdmittedPc
<1>5. ReadyIsConnected /\ UnknownIsBlank /\ ReferencesAgree /\ ReleasedIsReclaimed
  BY <1>3 DEF Init, ReadyIsConnected, UnknownIsBlank, ReferencesAgree, ReleasedIsReclaimed, Blank
<1>6. BindingsHold /\ CallsReachTheirListing
  BY DEF Init, BindingsHold, CallsReachTheirListing, NoCall
<1> QED
  BY <1>1, <1>4, <1>5, <1>6 DEF Inv

\* ... and every step preserves it.
LEMMA InvNext == ASSUME Inv, [Next]_vars PROVE Inv'
<1>0. TypeOK /\ Core /\ Rest /\ BindingsHold /\ CallsReachTheirListing /\ ReadyIsConnected
  BY DEF Inv, Core, Rest
<1>1. SUFFICES TypeOK' /\ Core' /\ Rest' /\ BindingsHold' /\ CallsReachTheirListing'
  BY DEF Inv, Core, Rest
<1>2. ASSUME TypeOK', Core', Carried, Rest',
             \A x \in Session : listed'[x] \subseteq listed[x] /\ call'[x] = call[x]
      PROVE  TypeOK' /\ Core' /\ Rest' /\ BindingsHold' /\ CallsReachTheirListing'
  <2>1. BindingsHold'
    BY <1>0, <1>2, BindingsStay, AllHold
  <2>2. CallsReachTheirListing'
    BY <1>0, <1>2 DEF CallsReachTheirListing
  <2> QED
    BY <1>2, <2>1, <2>2
<1>3. ASSUME NEW t \in Task, TaskStep(t)
      PROVE  TypeOK' /\ Core' /\ Rest' /\ BindingsHold' /\ CallsReachTheirListing'
  <2>1. TypeOK'
    BY <1>0, <1>3, TaskType
  <2>2. Core' /\ Carried /\ Rest' /\ UNCHANGED agents
    BY <1>0, <1>3, <2>1, TaskKeeps
  <2> QED
    BY <1>2, <2>1, <2>2 DEF agents
<1>4. ASSUME NEW c \in Caller, CallerStep(c)
      PROVE  TypeOK' /\ Core' /\ Rest' /\ BindingsHold' /\ CallsReachTheirListing'
  <2>1. TypeOK'
    BY <1>0, <1>4, CallerType
  <2>2. Tame /\ Rest' /\ UNCHANGED agents
    BY <1>0, <1>4, CallerKeeps
  <2>3. Core' /\ Carried
    BY <1>0, <2>1, <2>2, Keeping
  <2> QED
    BY <1>2, <2>1, <2>2, <2>3 DEF agents
<1>5. CASE UserStep
  <2>1. TypeOK'
    BY <1>0, <1>5, UserType
  <2>2. /\ Tame /\ Rest'
        /\ \A x \in Session : listed'[x] \subseteq listed[x] /\ call'[x] = call[x]
    BY <1>0, <1>5, UserKeeps
  <2>3. Core' /\ Carried
    BY <1>0, <2>1, <2>2, Keeping
  <2> QED
    BY <1>2, <2>1, <2>2, <2>3
<1>6. ASSUME NEW x \in Agent, AgentStep(x)
      PROVE  TypeOK' /\ Core' /\ Rest' /\ BindingsHold' /\ CallsReachTheirListing'
  <2>1. x \in Session
    BY McpAssumption
  <2>2. TypeOK'
    BY <1>0, <1>6, <2>1, AgentType
  <2> QED
    BY <1>6, <2>1, <2>2, AgentKeeps
<1>7. CASE UNCHANGED vars
  <2>1. UNCHANGED <<disk, life, commit, op, ops, grant, sessions, seen, known, pool, task,
                    listed, call, outrun, forsaken>>
    BY <1>7 DEF vars, registry, agents
  <2>2. TypeOK'
    BY <1>0, <2>1 DEF TypeOK
  <2>3. Tame /\ Rest'
    BY <1>0, <2>1, StillKeeps, UnchangedFollow
  <2>4. Core' /\ Carried
    BY <1>0, <2>2, <2>3, Keeping
  <2> QED
    BY <1>2, <2>1, <2>2, <2>3, <2>4
<1> QED
  BY <1>3, <1>4, <1>5, <1>6, <1>7 DEF Next

\* The inductive invariant holds in every reachable state: entries, tasks, references and
\* what the agents hold agree with each other through their generations.
THEOREM Invariance == Spec => []Inv
<1>1. Init => Inv
  BY InvInit
<1>2. Inv /\ [Next]_vars => Inv'
  BY InvNext
<1> QED
  BY <1>1, <1>2, PTL DEF Spec

\* Whatever is reconnected, reconfigured, released or allowed between the request to the model
\* and its call: the call runs on the connection its definition was listed from, which is of
\* the command that was bound (validate_binding, clear_connection).
THEOREM CallSafety == Spec => []CallsReachTheirListing
<1>1. Inv => CallsReachTheirListing
  BY DEF Inv
<1> QED
  BY <1>1, Invariance, PTL

\* No task can put a service into an entry that no session refers to (release_session,
\* apply_sessions, reserve_slot, set_ready).
THEOREM Reclaimed == Spec => []ReleasedIsReclaimed
<1>1. Inv => ReleasedIsReclaimed
  BY DEF Inv
<1> QED
  BY <1>1, Invariance, PTL

\* The variables keep their types.
THEOREM TypeCorrect == Spec => []TypeOK
<1>1. Inv => TypeOK
  BY DEF Inv
<1> QED
  BY <1>1, Invariance, PTL

-----------------------------------------------------------------------------
(* Entries that wait are somebody's work *)

\* A session refers to a server by being registered.
SeenIsRegistered == \A x \in Session : seen[x] # {} => x \in sessions

\* What is approved is what the file says, or nothing.
GrantIsSaved == \A s \in Server : grant[s] \in {NoCfg, disk[s]}

\* An entry has a configuration, and waits only for sessions that refer to it.
KnownIsConfigured == \A s \in known : pool[s].cfg # NoCfg
StartingIsUsed == \A s \in known : pool[s].state = "starting" => pool[s].users # {}

\* An entry is busy by an admitted task of its generation.
Drives(t, s) == Admitted(t) /\ Current(t) /\ task[t].server = s
BusyIsDriven == \A s \in known \ forsaken : pool[s].busy => \E t \in Task : Drives(t, s)

\* An operation that will give the entry what the file says.
Updates(c, x, s) ==
    \/ op[c].pc = "saved"
    \/ op[c].pc = "reconcile" /\ op[c].want[s] = disk[s] /\ x \in op[c].todo

Outdated(s, x) ==
    /\ s \in known \ outrun /\ pool[s].cfg # disk[s]
    /\ x \in pool[s].users /\ life[x] = "open"

OutdatedIsUpdated ==
    \A s \in Server, x \in Session : Outdated(s, x) => \E c \in Caller : Updates(c, x, s)

\* An operation that will hand the entry to a task.
Hands(c, s) ==
    \/ op[c].pc = "approved" /\ op[c].only = {s}
    \/ op[c].pc \in {"name", "register"} /\ op[c].only = {s} /\ op[c].want[s] = disk[s]
    \/ op[c].pc = "spawn" /\ op[c].pending[s] = pool[s].cfg

\* A task that will connect the entry, or say that it is not connected.
Takes(t, s) ==
    /\ task[t].pc \in {"queued", "permitted", "denied"}
    /\ task[t].server = s /\ task[t].cfg = pool[s].cfg /\ Current(t)
    /\ task[t].pc = "permitted" => task[t].permit = task[t].cfg

Waits(s) ==
    /\ s \in known \ forsaken /\ pool[s].state = "starting" /\ grant[s] = pool[s].cfg
    /\ \E x \in Session : life[x] = "open"

Handled(s) ==
    \/ \E c \in Caller : Hands(c, s)
    \/ \E t \in Task : Takes(t, s) \/ Drives(t, s)

WaitingIsHandled == \A s \in Server : Waits(s) => Handled(s)

Registered == SeenIsRegistered /\ GrantIsSaved /\ KnownIsConfigured /\ StartingIsUsed

Settled == Registered /\ BusyIsDriven /\ OutdatedIsUpdated /\ WaitingIsHandled

\* Tasks under way are not touched, but for their permits.
TasksStay ==
    \A t \in Task : Active(t) => /\ task'[t].pc = task[t].pc /\ task'[t].server = task[t].server
                                 /\ task'[t].cfg = task[t].cfg /\ task'[t].gen = task[t].gen

PermitsStay(s) == \A t \in Task : Active(t) /\ task[t].server = s => task'[t].permit = task[t].permit

\* Giving up permits touches nothing else.
LEMMA VoidedStays ==
  ASSUME TypeOK, NEW S, task' = Voided(S)
  PROVE  TasksStay /\ \A s \in Server \ S : PermitsStay(s)
<1>1. ASSUME NEW t \in Task, Active(t)
      PROVE  /\ task'[t].pc = task[t].pc /\ task'[t].server = task[t].server
             /\ task'[t].cfg = task[t].cfg /\ task'[t].gen = task[t].gen
             /\ task[t].server \notin S => task'[t] = task[t]
  <2>1. task[t] \in TaskRecord
    BY <1>1, TaskFields
  <2>2. task'[t] = IF task[t].server \in S THEN [task[t] EXCEPT !.permit = NoCfg] ELSE task[t]
    BY <1>1 DEF Voided, Active
  <2> QED
    BY <2>1, <2>2 DEF TaskRecord
<1> QED
  BY <1>1 DEF TasksStay, PermitsStay

\* Tasks that are not touched.
LEMMA UnchangedStay ==
  ASSUME task' = task
  PROVE  TasksStay /\ \A s \in Server : PermitsStay(s)
BY DEF TasksStay, PermitsStay

\* An operation that is not touched hands the entry on as before, ...
LEMMA HandsStay ==
  ASSUME NEW d \in Caller, NEW s \in Server, op'[d] = op[d], disk'[s] = disk[s],
         pool'[s].cfg = pool[s].cfg
  PROVE  Hands(d, s) => Hands(d, s)'
BY DEF Hands

\* ... and so do the tasks.
LEMMA DrivesStay ==
  ASSUME NEW t \in Task, NEW s \in Server, TasksStay, pool'[s].gen = pool[s].gen, Drives(t, s)
  PROVE  Drives(t, s)'
BY DEF Drives, Admitted, AdmittedPc, Current, TasksStay, Active

\* ... and the tasks that will take their permits up.
LEMMA TakesStay ==
  ASSUME NEW t \in Task, NEW s \in Server, TasksStay, PermitsStay(s), pool'[s].gen = pool[s].gen,
         pool'[s].cfg = pool[s].cfg, Takes(t, s)
  PROVE  Takes(t, s)'
BY DEF Takes, Current, TasksStay, PermitsStay, Active

\* An entry that stays busy in its generation stays driven.
LEMMA BusyStays ==
  ASSUME NEW s \in Server, BusyIsDriven, TasksStay,
         s \in known' \ forsaken' /\ pool'[s].busy =>
            s \in known \ forsaken /\ pool[s].busy /\ pool'[s].gen = pool[s].gen
  PROVE  s \in known' \ forsaken' /\ pool'[s].busy => \E t \in Task : Drives(t, s)'
<1> SUFFICES ASSUME s \in known' \ forsaken', pool'[s].busy PROVE \E t \in Task : Drives(t, s)'
  OBVIOUS
<1>1. PICK t \in Task : Drives(t, s)
  BY DEF BusyIsDriven
<1> QED
  BY <1>1, DrivesStay

\* An entry that goes on waiting stays handled, if its callers see to it.
LEMMA WaitStays ==
  ASSUME NEW s \in Server, WaitingIsHandled, TasksStay,
         Waits(s)' => /\ Waits(s) /\ PermitsStay(s)
                      /\ pool'[s].cfg = pool[s].cfg /\ pool'[s].gen = pool[s].gen,
         \A c \in Caller : Hands(c, s) /\ Waits(s) /\ Waits(s)' => Handled(s)'
  PROVE  Waits(s)' => Handled(s)'
<1> SUFFICES ASSUME Waits(s)' PROVE Handled(s)'
  OBVIOUS
<1>1. Handled(s) /\ Waits(s)
  BY DEF WaitingIsHandled
<1>2. ASSUME NEW c \in Caller, Hands(c, s) PROVE Handled(s)'
  BY <1>1, <1>2
<1>3. ASSUME NEW t \in Task, Takes(t, s) PROVE Handled(s)'
  BY <1>3, TakesStay DEF Handled
<1>4. ASSUME NEW t \in Task, Drives(t, s) PROVE Handled(s)'
  BY <1>4, DrivesStay DEF Handled
<1> QED
  BY <1>1, <1>2, <1>3, <1>4 DEF Handled

\* What is approved and waits is what the file says.
LEMMA WaitsIs ==
  ASSUME NEW s \in Server, Registered, Waits(s)
  PROVE  /\ s \in known /\ pool[s].cfg # NoCfg /\ grant[s] = pool[s].cfg /\ disk[s] = pool[s].cfg
         /\ pool[s].users # {} /\ pool[s].state = "starting"
BY DEF Registered, KnownIsConfigured, GrantIsSaved, StartingIsUsed, Waits

-----------------------------------------------------------------------------
\* What a task does: the entries it leaves busy, and those it leaves waiting.
BusyRest(t, r) ==
    \/ ~ pool'[r].busy \/ r \in forsaken' \/ Drives(t, r)'
    \/ pool'[r].busy = pool[r].busy /\ pool'[r].gen = pool[r].gen /\ ~ Drives(t, r)

WaitRest(t, r) ==
    \/ pool'[r].state # "starting" \/ r \in forsaken' \/ Drives(t, r)'
    \/ /\ pool'[r] = pool[r] /\ ~ Drives(t, r)
       /\ Takes(t, r) => Takes(t, r)' \/ pool[r].busy \/ ~ Waits(r)

\* Stopping an entry leaves its configuration.
LEMMA StoppedCfg == ASSUME NEW e \in Entry PROVE Stopped(e).cfg = e.cfg
<1> DEFINE c == Cleared(e)
<1>1. c \in Entry /\ c.cfg = e.cfg /\ Stopped(e) = [c EXCEPT !.state = "stopped"]
  BY ClearedType DEF Stopped
<1> HIDE DEF c
<1> QED
  BY <1>1 DEF Entry

\* A step of a task that leaves the other tasks and the configuration settles what it touches.
LEMMA TaskSettles ==
  ASSUME TypeOK, Settled, NEW t \in Task,
         UNCHANGED <<disk, grant, life, op, known, seen, sessions, outrun>>,
         \A s \in forsaken : s \in forsaken' \/ Drives(t, s)',
         \A u \in Task : u # t => task'[u] = task[u],
         \A r \in Server : /\ pool'[r].cfg = pool[r].cfg /\ pool'[r].users = pool[r].users
                           /\ \/ pool'[r].state # "starting" \/ pool[r].state = "starting"
                              \/ pool[r].users # {}
                           /\ BusyRest(t, r) /\ WaitRest(t, r)
  PROVE  Settled'
<1>1. known \subseteq Server
  BY DEF TypeOK
<1>2. Registered'
  BY <1>1 DEF Settled, Registered, SeenIsRegistered, GrantIsSaved, KnownIsConfigured, StartingIsUsed
<1>3. ASSUME NEW r \in known \ forsaken', pool'[r].busy PROVE \E u \in Task : Drives(u, r)'
  <2>1. CASE Drives(t, r)'
    BY <2>1
  <2>2. CASE ~ Drives(t, r)'
    <3>1. pool[r].busy /\ pool'[r].gen = pool[r].gen /\ ~ Drives(t, r) /\ r \notin forsaken
      BY <1>1, <1>3, <2>2 DEF BusyRest
    <3>2. PICK u \in Task : Drives(u, r)
      BY <1>3, <3>1 DEF Settled, BusyIsDriven
    <3>3. task'[u] = task[u]
      BY <3>1, <3>2
    <3> QED
      BY <3>1, <3>2, <3>3 DEF Drives, Admitted, Current
  <2> QED
    BY <2>1, <2>2
<1>4. BusyIsDriven'
  BY <1>3 DEF BusyIsDriven
<1>5. OutdatedIsUpdated'
  <2>1. ASSUME NEW s \in Server, NEW x \in Session, Outdated(s, x)'
        PROVE  \E c \in Caller : Updates(c, x, s)'
    <3>1. Outdated(s, x)
      BY <2>1 DEF Outdated
    <3>2. PICK c \in Caller : Updates(c, x, s)
      BY <3>1 DEF Settled, OutdatedIsUpdated
    <3> QED
      BY <3>2 DEF Updates
  <2> QED
    BY <2>1 DEF OutdatedIsUpdated
<1>6. ASSUME NEW s \in Server, Waits(s)' PROVE Handled(s)'
  <2>1. CASE Drives(t, s)'
    BY <2>1 DEF Handled
  <2>2. CASE ~ Drives(t, s)'
    <3>1. /\ pool'[s] = pool[s] /\ ~ Drives(t, s)
          /\ Takes(t, s) => Takes(t, s)' \/ pool[s].busy \/ ~ Waits(s)
      BY <1>6, <2>2 DEF WaitRest, Waits
    <3>2. Waits(s)
      BY <1>6, <2>2, <3>1 DEF Waits
    <3>3. CASE \E c \in Caller : Hands(c, s)
      BY <3>1, <3>3, HandsStay DEF Handled
    <3>4. ASSUME NEW u \in Task, Drives(u, s) PROVE Handled(s)'
      <4>1. task'[u] = task[u]
        BY <3>1, <3>4
      <4> QED
        BY <3>1, <3>4, <4>1 DEF Handled, Drives, Admitted, Current
    <3>5. ASSUME NEW u \in Task, u # t, Takes(u, s) PROVE Handled(s)'
      <4>1. task'[u] = task[u]
        BY <3>5
      <4> QED
        BY <3>1, <3>5, <4>1 DEF Handled, Takes, Current
    <3>6. CASE Takes(t, s)
      <4>1. CASE Takes(t, s)'
        BY <4>1 DEF Handled
      <4>2. CASE pool[s].busy
        <5>1. s \in known \ forsaken
          BY <3>2 DEF Waits
        <5> QED
          BY <3>4, <4>2, <5>1 DEF Settled, BusyIsDriven
      <4> QED
        BY <3>1, <3>2, <3>6, <4>1, <4>2
    <3> QED
      BY <3>2, <3>3, <3>4, <3>5, <3>6 DEF Settled, WaitingIsHandled, Handled
  <2> QED
    BY <2>1, <2>2
<1>7. WaitingIsHandled'
  BY <1>6 DEF WaitingIsHandled
<1> QED
  BY <1>2, <1>4, <1>5, <1>7 DEF Settled

\* A task that does not touch the pool.
LEMMA StillSettles ==
  ASSUME TypeOK, Settled, NEW t \in Task,
         UNCHANGED <<disk, grant, life, op, known, seen, sessions, pool, outrun, forsaken>>,
         \A u \in Task : u # t => task'[u] = task[u],
         \A r \in Server : Drives(t, r) => Drives(t, r)',
         \A r \in Server : Takes(t, r) => Takes(t, r)' \/ pool[r].busy \/ ~ Waits(r)
  PROVE  Settled'
BY TaskSettles DEF BusyRest, WaitRest

\* One that changes the entry of its server only.
LEMMA OwnSettles ==
  ASSUME TypeOK, Settled, NEW t \in Task, NEW e,
         UNCHANGED <<disk, grant, life, op, known, seen, sessions, outrun>>,
         \A s \in forsaken : s \in forsaken',
         \A u \in Task : u # t => task'[u] = task[u],
         Active(t), pool' = [pool EXCEPT ![task[t].server] = e],
         e.cfg = pool[task[t].server].cfg, e.users = pool[task[t].server].users,
         e.state # "starting",
         \/ ~ e.busy
         \/ /\ e.busy = pool[task[t].server].busy /\ e.gen = pool[task[t].server].gen
            /\ ~ Admitted(t)
  PROVE  Settled'
<1>1. task[t].server \in Server /\ pool \in [Server -> Entry]
  BY TaskFields DEF TypeOK
<1>2. ASSUME NEW r \in Server
      PROVE  /\ pool'[r].cfg = pool[r].cfg /\ pool'[r].users = pool[r].users
             /\ \/ pool'[r].state # "starting" \/ pool[r].state = "starting"
             /\ BusyRest(t, r) /\ WaitRest(t, r)
  <2>1. CASE r = task[t].server
    BY <1>1, <2>1 DEF BusyRest, WaitRest, Drives
  <2>2. CASE r # task[t].server
    <3>1. pool'[r] = pool[r] /\ ~ Drives(t, r) /\ ~ Takes(t, r)
      BY <1>1, <2>2 DEF Drives, Takes
    <3> QED
      BY <3>1 DEF BusyRest, WaitRest
  <2> QED
    BY <2>1, <2>2
<1> QED
  BY <1>2, TaskSettles

\* Every step of a task leaves the entries settled.
LEMMA TaskStepSettles ==
  ASSUME Inv, Inv', Settled, NEW t \in Task, TaskStep(t)
  PROVE  Settled'
<1>0. UNCHANGED <<disk, grant, life, op, known, seen, sessions, outrun>>
  BY DEF TaskStep, Permit, Deny, Admit, TurnAway, Reserve, Listed, Fail, Recheck, Refuse, Publish,
         OnlyTasks, registry
<1>k. ASSUME Deny(t) \/ Reserve(t) \/ Fail(t) \/ Refuse(t) \/ Publish(t)
      PROVE  \A r \in forsaken : r \in forsaken'
  BY <1>k DEF Deny, Reserve, Fail, Refuse, Publish, OnlyTasks
<1>1. Active(t)
  BY DEF TaskStep, Permit, Deny, Admit, TurnAway, Reserve, Listed, Fail, Recheck, Refuse, Publish,
         Active
<1>s. PICK s \in Server : s = task[t].server
  BY <1>1, TaskFields DEF Inv
<1>2. /\ task[t] \in TaskRecord /\ task[t].cfg \in Cfg /\ pool[s] \in Entry
      /\ pool \in [Server -> Entry] /\ task \in [Task -> TaskRecord \union {NoTask}] /\ TypeOK
      /\ task[t].server = s
  BY <1>1, <1>s, TaskFields DEF TypeOK, Inv
<1>3. \A u \in Task : u # t => task'[u] = task[u]
  BY <1>2 DEF TaskStep, Permit, Deny, Admit, TurnAway, Reserve, Listed, Fail, Recheck, Refuse,
         Publish, Moves, Ends
<1>4. CASE Permit(t)
  <2>1. /\ task'[t].server = s /\ task'[t].cfg = task[t].cfg /\ task'[t].gen = task[t].gen
        /\ task'[t].pc \in {"permitted", "denied"}
        /\ task'[t].pc = "permitted" => task'[t].permit = task[t].cfg
    BY <1>2, <1>4 DEF Permit, TaskRecord
  <2>2. pool' = pool /\ forsaken' = forsaken
    BY <1>4 DEF Permit, OnlyTasks
  <2>3. \A r \in Server : ~ Drives(t, r)
    BY <1>4 DEF Permit, Drives, Admitted, AdmittedPc
  <2>4. \A r \in Server : Takes(t, r) => Takes(t, r)'
    BY <1>2, <2>1, <2>2 DEF Takes, Current
  <2> QED
    BY <1>0, <1>2, <1>3, <2>2, <2>3, <2>4, StillSettles
<1>5. CASE Deny(t)
  <2>1. ~ Admitted(t) /\ forsaken' = forsaken
    BY <1>5 DEF Deny, Admitted, AdmittedPc, OnlyTasks
  <2>2. CASE pool[s].cfg = task[t].cfg /\ Current(t)
    <3> DEFINE e == [pool[s] EXCEPT !.state = "stopped"]
    <3>1. pool' = [pool EXCEPT ![s] = e]
      BY <1>2, <1>5, <2>2 DEF Deny
    <3>2. /\ e.cfg = pool[s].cfg /\ e.users = pool[s].users /\ e.state = "stopped"
          /\ e.busy = pool[s].busy /\ e.gen = pool[s].gen
      BY <1>2 DEF Entry
    <3> HIDE DEF e
    <3> QED
      BY <1>k, <1>5, <1>0, <1>1, <1>2, <1>3, <2>1, <3>1, <3>2, OwnSettles
  <2>3. CASE ~ (pool[s].cfg = task[t].cfg /\ Current(t))
    <3>1. pool' = pool /\ \A r \in Server : ~ Takes(t, r) /\ ~ Drives(t, r)
      BY <1>2, <1>5, <2>1, <2>3 DEF Deny, Takes, Drives
    <3> QED
      BY <1>0, <1>2, <1>3, <2>1, <3>1, StillSettles
  <2> QED
    BY <2>2, <2>3
<1>6. CASE Admit(t)
  <2> DEFINE e == [pool[s] EXCEPT !.gen = pool[s].gen + 1, !.launch = task[t].permit, !.busy = TRUE]
  <2>1. pool' = [pool EXCEPT ![s] = e]
    BY <1>2, <1>6 DEF Admit
  <2>2. /\ e.cfg = pool[s].cfg /\ e.users = pool[s].users /\ e.state = pool[s].state
        /\ e.gen = pool[s].gen + 1 /\ pool[s].users # {}
    BY <1>2, <1>6 DEF Entry, Admit, Admits
  <2> HIDE DEF e
  <2>3. /\ task'[t].pc = "reserve" /\ task'[t].server = s /\ task'[t].gen = pool[s].gen + 1
    BY <1>2, <1>6 DEF Admit, Admits, Current, TaskRecord
  <2>4. Drives(t, s)'
    BY <1>2, <2>1, <2>2, <2>3 DEF Drives, Admitted, AdmittedPc, Current
  <2>d. \A r \in forsaken : r \in forsaken' \/ Drives(t, r)'
    BY <1>2, <1>6, <2>4 DEF Admit
  <2>5. ASSUME NEW r \in Server
        PROVE  /\ pool'[r].cfg = pool[r].cfg /\ pool'[r].users = pool[r].users
               /\ \/ pool'[r].state # "starting" \/ pool[r].state = "starting"
                  \/ pool[r].users # {}
               /\ BusyRest(t, r) /\ WaitRest(t, r)
    <3>1. CASE r = s
      BY <1>2, <2>1, <2>2, <2>4, <3>1 DEF BusyRest, WaitRest
    <3>2. CASE r # s
      <4>1. pool'[r] = pool[r] /\ ~ Drives(t, r) /\ ~ Takes(t, r)
        BY <1>2, <2>1, <3>2 DEF Drives, Takes
      <4> QED
        BY <4>1 DEF BusyRest, WaitRest
    <3> QED
      BY <3>1, <3>2
  <2> QED
    BY <1>0, <1>2, <1>3, <2>d, <2>5, TaskSettles
<1>7. CASE TurnAway(t)
  <2>1. pool' = pool /\ forsaken' = forsaken /\ \A r \in Server : ~ Drives(t, r)
    BY <1>7 DEF TurnAway, OnlyTasks, Drives, Admitted, AdmittedPc
  <2>2. ASSUME NEW r \in Server, Takes(t, r), Waits(r) PROVE pool[r].busy
    <3>1. pool[r].state = "starting" /\ pool[r].users # {}
      BY <2>2, WaitsIs DEF Settled
    <3> QED
      BY <1>7, <2>2, <3>1 DEF TurnAway, Admits, Takes
  <2> QED
    BY <1>0, <1>2, <1>3, <2>1, <2>2, StillSettles
<1>8. CASE Reserve(t)
  <2>0. PICK V \in SUBSET Evictable(task[t].server) :
          pool' = [r \in Server |->
                        IF r \in V THEN [Cleared(pool[r]) EXCEPT !.state = "evicted"]
                        ELSE IF r = task[t].server /\ Current(t)
                             THEN [pool[r] EXCEPT !.state = "starting"] ELSE pool[r]]
    BY <1>8 DEF Reserve
  <2>1. /\ V \in SUBSET Evictable(s)
        /\ \A r \in Server :
              pool'[r] = IF r \in V THEN [Cleared(pool[r]) EXCEPT !.state = "evicted"]
                         ELSE IF r = s /\ Current(t)
                              THEN [pool[r] EXCEPT !.state = "starting"] ELSE pool[r]
    BY <1>2, <2>0
  <2>2. s \notin V /\ Admitted(t)
    BY <1>8, <2>1 DEF Evictable, Reserve, Admitted, AdmittedPc
  <2>3. ASSUME NEW r \in V
        PROVE  r \in Server /\ pool'[r].cfg = pool[r].cfg /\ pool'[r].users = pool[r].users
               /\ pool'[r].state = "evicted" /\ ~ pool'[r].busy
    <3>1. r \in Server
      BY <1>2 DEF Evictable, TypeOK
    <3>2. Cleared(pool[r]) \in Entry /\ Cleared(pool[r]).cfg = pool[r].cfg
          /\ Cleared(pool[r]).users = pool[r].users /\ Cleared(pool[r]).busy = FALSE
      BY <1>2, <3>1, ClearedType
    <3>3. pool'[r] = [Cleared(pool[r]) EXCEPT !.state = "evicted"]
      BY <2>1, <3>1
    <3> QED
      BY <3>1, <3>2, <3>3 DEF Entry
  <2>4. \A r \in Server : r \notin V /\ r # s => pool'[r] = pool[r]
    BY <2>1
  <2>5. CASE Current(t)
    <3>1. pool'[s] = [pool[s] EXCEPT !.state = "starting"]
      BY <1>2, <2>1, <2>2, <2>5
    <3>2. pool'[s].cfg = pool[s].cfg /\ pool'[s].users = pool[s].users /\ pool'[s].gen = pool[s].gen
      BY <1>2, <3>1 DEF Entry
    <3>3. task'[t].pc = "connect" /\ task'[t].server = s /\ task'[t].gen = task[t].gen
      BY <1>2, <1>8, <2>5 DEF Reserve, Moves, TaskRecord
    <3>4. Drives(t, s)'
      BY <1>2, <2>5, <3>2, <3>3 DEF Drives, Admitted, AdmittedPc, Current
    <3>5. pool[s].users # {}
      BY <1>2, <2>2, <2>5 DEF Inv, AdmittedIsBusy
    <3>6. ASSUME NEW r \in Server
          PROVE  /\ pool'[r].cfg = pool[r].cfg /\ pool'[r].users = pool[r].users
                 /\ \/ pool'[r].state # "starting" \/ pool[r].state = "starting"
                    \/ pool[r].users # {}
                 /\ BusyRest(t, r) /\ WaitRest(t, r)
      <4>1. CASE r = s
        BY <3>2, <3>4, <3>5, <4>1 DEF BusyRest, WaitRest
      <4>2. CASE r \in V
        BY <2>3, <4>2 DEF BusyRest, WaitRest
      <4>3. CASE r # s /\ r \notin V
        <5>1. pool'[r] = pool[r] /\ ~ Drives(t, r) /\ ~ Takes(t, r)
          BY <1>2, <2>4, <4>3 DEF Drives, Takes
        <5> QED
          BY <5>1 DEF BusyRest, WaitRest
      <4> QED
        BY <4>1, <4>2, <4>3
    <3> QED
      BY <1>k, <1>8, <1>0, <1>2, <1>3, <3>6, TaskSettles
  <2>6. CASE ~ Current(t)
    <3>1. ASSUME NEW r \in Server
          PROVE  /\ pool'[r].cfg = pool[r].cfg /\ pool'[r].users = pool[r].users
                 /\ \/ pool'[r].state # "starting" \/ pool[r].state = "starting"
                 /\ BusyRest(t, r) /\ WaitRest(t, r)
      <4>1. CASE r \in V
        BY <2>3, <4>1 DEF BusyRest, WaitRest
      <4>2. CASE r \notin V
        <5>1. pool'[r] = pool[r] /\ ~ Drives(t, r) /\ ~ Takes(t, r)
          BY <2>1, <2>6, <4>2 DEF Drives, Takes
        <5> QED
          BY <5>1 DEF BusyRest, WaitRest
      <4> QED
        BY <4>1, <4>2
    <3> QED
      BY <1>k, <1>8, <1>0, <1>2, <1>3, <3>1, TaskSettles
  <2> QED
    BY <2>5, <2>6
<1>9. CASE Listed(t) \/ Recheck(t)
  <2>1. pool' = pool /\ forsaken' = forsaken /\ \A r \in Server : ~ Takes(t, r)
    BY <1>9 DEF Listed, Recheck, OnlyTasks, Takes
  <2>2. task'[t].pc \in AdmittedPc /\ task'[t].server = s /\ task'[t].gen = task[t].gen
    BY <1>2, <1>9 DEF Listed, Recheck, Moves, TaskRecord, AdmittedPc
  <2>3. \A r \in Server : Drives(t, r) => Drives(t, r)'
    BY <1>2, <2>1, <2>2 DEF Drives, Admitted, Current
  <2> QED
    BY <1>0, <1>2, <1>3, <2>1, <2>3, StillSettles
<1>10. ASSUME ~ Current(t), pool' = pool, forsaken' = forsaken
       PROVE  Settled'
  <2>1. \A r \in Server : ~ Drives(t, r) /\ ~ Takes(t, r)
    BY <1>10 DEF Drives, Takes
  <2> QED
    BY <1>0, <1>2, <1>3, <1>10, <2>1, StillSettles
<1>11. CASE Fail(t)
  <2>1. CASE Current(t)
    <3> DEFINE e == [pool[s] EXCEPT !.busy = FALSE, !.state = "error"]
    <3>1. pool' = [pool EXCEPT ![s] = e]
      BY <1>2, <1>11, <2>1 DEF Fail
    <3>2. /\ e.cfg = pool[s].cfg /\ e.users = pool[s].users /\ e.state = "error" /\ ~ e.busy
      BY <1>2 DEF Entry
    <3> HIDE DEF e
    <3> QED
      BY <1>k, <1>11, <1>0, <1>1, <1>2, <1>3, <3>1, <3>2, OwnSettles
  <2> QED
    BY <1>10, <1>11, <2>1 DEF Fail, OnlyTasks
<1>12. CASE Refuse(t)
  <2>1. CASE Current(t)
    <3> DEFINE e == Stopped(pool[s])
    <3>1. pool' = [pool EXCEPT ![s] = e]
      BY <1>2, <1>12, <2>1 DEF Refuse
    <3>2. /\ e.cfg = pool[s].cfg /\ e.users = pool[s].users /\ e.state = "stopped" /\ ~ e.busy
      BY <1>2, ClearedFields, StoppedCfg
    <3> HIDE DEF e
    <3> QED
      BY <1>k, <1>12, <1>0, <1>1, <1>2, <1>3, <3>1, <3>2, OwnSettles
  <2> QED
    BY <1>10, <1>12, <2>1 DEF Refuse, OnlyTasks
<1>13. CASE Publish(t)
  <2> DEFINE made == [gen |-> task[t].gen, cfg |-> task[t].cfg]
             e == [pool[s] EXCEPT !.conn = made, !.busy = FALSE, !.state = "ready"]
  <2>1. CASE Current(t) /\ pool[s].launch = pool[s].cfg
    <3>1. pool' = [pool EXCEPT ![s] = e]
      BY <1>2, <1>13, <2>1 DEF Publish
    <3>2. /\ e.cfg = pool[s].cfg /\ e.users = pool[s].users /\ e.state = "ready" /\ ~ e.busy
      BY <1>2 DEF Entry
    <3> HIDE DEF e
    <3> QED
      BY <1>k, <1>13, <1>0, <1>1, <1>2, <1>3, <3>1, <3>2, OwnSettles
  <2>2. CASE Current(t) /\ pool[s].launch # pool[s].cfg
    <3>1. pool' = pool /\ s \in forsaken'
      BY <1>2, <1>13, <2>2 DEF Publish
    <3>2. \A r \in Server : r # s => ~ Drives(t, r) /\ ~ Takes(t, r)
      BY <1>2 DEF Drives, Takes
    <3>3. \A r \in Server : BusyRest(t, r) /\ WaitRest(t, r)
      BY <3>1, <3>2 DEF BusyRest, WaitRest
    <3> QED
      BY <1>k, <1>13, <1>0, <1>2, <1>3, <3>1, <3>3, TaskSettles
  <2>3. CASE ~ Current(t)
    BY <1>10, <1>13, <2>3 DEF Publish
  <2> QED
    BY <2>1, <2>2, <2>3
<1> QED
  BY <1>4, <1>5, <1>6, <1>7, <1>8, <1>9, <1>11, <1>12, <1>13 DEF TaskStep

-----------------------------------------------------------------------------
\* What apply_sessions does to an entry.
Moved(want) == Changed(want) \union New(want)

\* apply_sessions registers what is new and gives every entry the users that want it.
LEMMA ApplyIs ==
  ASSUME TypeOK, Rest, NEW X \in SUBSET Session, NEW want \in File, NEW names,
         Apply(X, want, names), NEW s \in Server
  PROVE  /\ s \in known' <=> s \in known \/ s \in New(want)
         /\ pool'[s].users = Users(X, s, want)
         /\ s \in Moved(want) => /\ want[s] # NoCfg /\ pool'[s].cfg = want[s]
                                 /\ pool'[s].state = "starting" /\ ~ pool'[s].busy
         /\ s \in known \ Moved(want) =>
               /\ pool'[s].cfg = pool[s].cfg /\ want[s] \in {NoCfg, pool[s].cfg}
               /\ \/ s \in Lost(X, want) /\ pool'[s].state = "stopped" /\ ~ pool'[s].busy
                  \/ /\ s \notin Lost(X, want) /\ pool'[s].state = pool[s].state
                     /\ pool'[s].busy = pool[s].busy /\ pool'[s].gen = pool[s].gen
<1> DEFINE d == IF s \in known THEN pool[s] ELSE Blank(want[s])
           e == [d EXCEPT !.users = Users(X, s, want)]
<1>1. want[s] \in CfgOrNone /\ pool[s] \in Entry
  BY DEF File, CfgOrNone, TypeOK
<1>2. d \in Entry
  BY <1>1, BlankType
<1>3. Users(X, s, want) \in SUBSET Session
  BY <1>1 DEF Users, Entry
<1>4. e \in Entry /\ e.users = Users(X, s, want) /\ e.gen = d.gen /\ e.busy = d.busy
      /\ e.state = d.state /\ e.cfg = d.cfg
  BY <1>2, <1>3 DEF Entry
<1>5. /\ pool'[s] = CASE s \in Lost(X, want) -> Stopped(e)
                     [] s \in Changed(want) -> [Cleared(e) EXCEPT !.cfg = want[s], !.state = "starting"]
                     [] OTHER -> e
      /\ known' = known \union New(want)
  BY DEF Apply, Applied
<1>6. s \in known => d = pool[s]
  OBVIOUS
<1>7. s \notin known => d.cfg = want[s] /\ d.state = "starting" /\ ~ d.busy
  BY DEF Blank
<1>8. s \in Lost(X, want) => /\ s \in known /\ want[s] = NoCfg
                          /\ s \notin Moved(want) /\ s \notin Changed(want)
                          /\ s \notin New(want)
  BY DEF Lost, Left, Moved, Changed, New
<1> HIDE DEF d, e
<1>9. CASE s \in Lost(X, want)
  <2>1. /\ Stopped(e).busy = FALSE /\ Stopped(e).state = "stopped" /\ Stopped(e).users = e.users
        /\ Stopped(e).cfg = e.cfg
    BY <1>4, ClearedFields, StoppedCfg
  <2> QED
    <3>1. pool'[s] = Stopped(e)
      BY <1>5, <1>8, <1>9
    <3> QED
      BY <1>4, <1>5, <1>6, <1>8, <1>9, <2>1, <3>1
<1>10. CASE s \notin Lost(X, want) /\ s \in Changed(want)
  <2> DEFINE c == Cleared(e)
             f == [c EXCEPT !.cfg = want[s], !.state = "starting"]
  <2>1. c \in Entry /\ c.busy = FALSE /\ c.users = e.users
    BY <1>4, ClearedType
  <2>2. pool'[s] = f
    BY <1>5, <1>10
  <2> HIDE DEF c
  <2>3. f.cfg = want[s] /\ f.state = "starting" /\ f.busy = FALSE /\ f.users = e.users
    BY <2>1 DEF Entry
  <2>4. s \in known /\ want[s] # NoCfg /\ s \in Moved(want)
    BY <1>10 DEF Changed, Moved
  <2> HIDE DEF f
  <2> QED
    BY <1>4, <1>5, <2>2, <2>3, <2>4
<1>11. CASE s \notin Lost(X, want) /\ s \notin Changed(want)
  <2>1. pool'[s] = e
    BY <1>5, <1>11
  <2>2. CASE s \in known
    <3>1. s \notin Moved(want) /\ s \notin New(want) /\ (want[s] \in {NoCfg, pool[s].cfg} \/ pool[s].busy)
      BY <1>11, <2>2 DEF Moved, Changed, New
    <3>2. want[s] \in {NoCfg, pool[s].cfg}
      BY <1>11, <2>2 DEF Changed
    <3> QED
      BY <1>4, <1>5, <1>6, <1>11, <2>1, <2>2, <3>1, <3>2
  <2>3. CASE s \notin known
    <3>1. s \in Moved(want) => want[s] # NoCfg
      BY <2>3 DEF Moved, Changed, New
    <3> QED
      BY <1>4, <1>5, <1>7, <2>1, <2>3, <3>1
  <2> QED
    BY <2>2, <2>3
<1> QED
  BY <1>9, <1>10, <1>11

\* What it leaves to connect.
LEMMA MovedIsPending ==
  ASSUME NEW X, NEW want, NEW names, NEW all, Apply(X, want, names), NEW s \in Server,
         s \in Moved(want), pool'[s].state # "ready", ~ pool'[s].busy
  PROVE  Pending(X, want, all)[s] = want[s]
BY DEF Apply, Pending, Moved

\* ... and every entry, when all are to be connected.
LEMMA AllArePending ==
  ASSUME NEW X, NEW want, NEW names, Apply(X, want, names), NEW s \in Server,
         pool'[s].state # "ready", ~ pool'[s].busy
  PROVE  Pending(X, want, TRUE)[s] = want[s]
BY DEF Apply, Pending

\* What is not outrun was given what the file says, ...
LEMMA ApplyOutruns ==
  ASSUME NEW X, NEW want, NEW names, Apply(X, want, names), NEW s \in Server, s \notin outrun'
  PROVE  want[s] \in {NoCfg, disk[s]} /\ (want[s] = NoCfg => s \notin outrun)
BY DEF Apply

\* ... and what is not forsaken, to be connected by the one who gave it.
LEMMA ApplyForsakes ==
  ASSUME TypeOK, Rest, NEW X \in SUBSET Session, NEW want \in File, NEW names,
         Apply(X, want, names), NEW s \in Server, s \in known' \ forsaken'
  PROVE  /\ s \in Moved(want) => s \in names
         /\ s \notin Moved(want) => s \in known \ forsaken
<1>1. forsaken' = (forsaken \ Moved(want)) \union (Moved(want) \ names)
  BY DEF Apply, Moved
<1>2. s \in known \/ s \in New(want)
  BY ApplyIs
<1> QED
  BY <1>1, <1>2 DEF Moved

\* Permits are given up for what changed only.
LEMMA ApplyVoids ==
  ASSUME TypeOK, NEW X, NEW want, NEW names, Apply(X, want, names)
  PROVE  TasksStay /\ \A s \in Server : s \notin Moved(want) => PermitsStay(s)
<1>1. PICK S \in SUBSET Changed(want) : task' = Voided(S)
  BY DEF Apply
<1> QED
  BY <1>1, VoidedStays DEF Moved

\* An entry that waits was moved, or waited before.
LEMMA ApplyWaits ==
  ASSUME Inv, Settled, NEW X \in SUBSET Session, NEW want \in File, NEW names \in SUBSET Server,
         Apply(X, want, names), disk' = disk, life' = life,
         NEW s \in Server, Waits(s)', ~ (s \in names /\ s \in Moved(want))
  PROVE  /\ Waits(s) /\ PermitsStay(s) /\ s \in known \ Moved(want)
         /\ pool'[s].cfg = pool[s].cfg /\ pool'[s].gen = pool[s].gen
<1>0. TypeOK /\ Rest /\ Registered
  BY DEF Inv, Rest, Settled
<1>1. s \in known' \ forsaken' /\ pool'[s].state = "starting" /\ grant'[s] = pool'[s].cfg
  BY DEF Waits
<1>2. s \notin Moved(want) /\ s \in known \ forsaken
  BY <1>0, <1>1, ApplyForsakes
<1>3. /\ pool'[s].cfg = pool[s].cfg /\ pool'[s].gen = pool[s].gen
      /\ pool[s].state = "starting"
  <2>1. /\ pool'[s].cfg = pool[s].cfg
        /\ \/ pool'[s].state = "stopped"
           \/ pool'[s].state = pool[s].state /\ pool'[s].gen = pool[s].gen
    BY <1>0, <1>2, ApplyIs
  <2> QED
    BY <1>1, <2>1
<1>4. pool[s].cfg # NoCfg
  BY <1>0, <1>2 DEF Registered, KnownIsConfigured
<1>5. grant'[s] \in {NoCfg, grant[s]}
  BY DEF Apply
<1>6. Waits(s)
  BY <1>1, <1>2, <1>3, <1>4, <1>5 DEF Waits
<1> QED
  BY <1>0, <1>2, <1>3, <1>6, ApplyVoids

\* Sessions that are brought up to date see nothing outdated.
LEMMA ApplySees ==
  ASSUME Inv, Settled, NEW X \in SUBSET Session, NEW want \in File, NEW names,
         Apply(X, want, names), disk' = disk, life' = life,
         NEW s \in Server, NEW x \in Session, Outdated(s, x)'
  PROVE  Outdated(s, x) /\ x \in sessions \ X /\ pool'[s].cfg = pool[s].cfg
<1>0. TypeOK /\ Rest /\ Registered
  BY DEF Inv, Rest, Settled
<1>1. s \in known' \ outrun' /\ pool'[s].cfg # disk[s] /\ x \in pool'[s].users /\ life[x] = "open"
  BY DEF Outdated
<1>2. want[s] \in {NoCfg, disk[s]} /\ (want[s] = NoCfg => s \notin outrun)
  BY <1>1, ApplyOutruns
<1>3. s \in Moved(want) => want[s] # NoCfg /\ pool'[s].cfg = want[s]
  BY <1>0, ApplyIs
<1>4. s \in known /\ s \notin Moved(want)
  BY <1>0, <1>1, <1>2, <1>3, ApplyIs DEF Moved
<1>5. pool'[s].cfg = pool[s].cfg /\ want[s] \in {NoCfg, pool[s].cfg}
  BY <1>0, <1>4, ApplyIs
<1>6. want[s] = NoCfg /\ s \notin outrun
  BY <1>1, <1>2, <1>5
<1>7. pool'[s].users = Users(X, s, want)
  BY <1>0, ApplyIs
<1>8. x \in pool[s].users /\ ~ (x \in X /\ Left(x, s, want))
  BY <1>1, <1>6, <1>7 DEF Users
<1>9. s \in seen[x]
  BY <1>0, <1>8 DEF Rest, ReferencesAgree
<1>10. x \notin X /\ x \in sessions
  BY <1>0, <1>6, <1>8, <1>9 DEF Left, Registered, SeenIsRegistered
<1> QED
  BY <1>1, <1>4, <1>5, <1>6, <1>8, <1>10 DEF Outdated

\* Approvals, configurations, references and busy entries stay as they should be.
LEMMA ApplySettles ==
  ASSUME Inv, Settled, NEW X \in SUBSET Session, X # {}, NEW want \in File,
         NEW names \in SUBSET Server, Apply(X, want, names), disk' = disk, life' = life
  PROVE  Registered' /\ BusyIsDriven' /\ TasksStay
<1>0. TypeOK /\ Rest /\ known \subseteq Server /\ Registered
  BY DEF Inv, Rest, TypeOK, Settled
<1>1. TasksStay
  BY <1>0, ApplyVoids
<1>2. known' \subseteq Server
  BY <1>0 DEF Apply, New
<1>3. \A s \in Server : s \in known' \ forsaken' /\ s \notin Moved(want) => s \in known \ forsaken
  BY <1>0, ApplyForsakes
<1>4. SeenIsRegistered'
  BY <1>0 DEF Registered, SeenIsRegistered, Apply, TypeOK
<1>5. GrantIsSaved'
  BY <1>0 DEF Registered, GrantIsSaved, Apply
<1>6. KnownIsConfigured'
  <2>1. ASSUME NEW s \in Server, s \in known' PROVE pool'[s].cfg # NoCfg
    <3>1. CASE s \in Moved(want)
      <4>1. want[s] # NoCfg /\ pool'[s].cfg = want[s]
        BY <1>0, <3>1, ApplyIs
      <4> QED
        BY <4>1
    <3>2. CASE s \notin Moved(want)
      <4>1. s \in known
        BY <1>0, <2>1, <3>2, ApplyIs DEF Moved
      <4>2. pool'[s].cfg = pool[s].cfg
        BY <1>0, <3>2, <4>1, ApplyIs
      <4> QED
        BY <1>0, <4>1, <4>2 DEF Registered, KnownIsConfigured
    <3> QED
      BY <3>1, <3>2
  <2> QED
    BY <1>2, <2>1 DEF KnownIsConfigured
<1>7. StartingIsUsed'
  <2>1. ASSUME NEW s \in Server, s \in known', pool'[s].state = "starting" PROVE pool'[s].users # {}
    <3>1. pool'[s].users = Users(X, s, want)
      BY <1>0, ApplyIs
    <3>2. CASE s \in Moved(want)
      <4>1. want[s] # NoCfg
        BY <1>0, <3>2, ApplyIs
      <4> QED
        BY <3>1, <4>1 DEF Users
    <3>3. CASE s \notin Moved(want)
      <4>1. s \in known
        BY <1>0, <2>1, <3>3, ApplyIs DEF Moved
      <4>2. s \notin Lost(X, want) /\ pool[s].state = "starting"
        BY <1>0, <2>1, <3>3, <4>1, ApplyIs
      <4>3. pool[s].users # {}
        BY <1>0, <4>1, <4>2 DEF Registered, StartingIsUsed
      <4> QED
        BY <3>1, <4>1, <4>2, <4>3 DEF Users, Lost, Left
    <3> QED
      BY <3>2, <3>3
  <2> QED
    BY <1>2, <2>1 DEF StartingIsUsed
<1>8. BusyIsDriven'
  <2>1. ASSUME NEW s \in Server, s \in known' \ forsaken', pool'[s].busy
        PROVE  s \in known \ forsaken /\ pool[s].busy /\ pool'[s].gen = pool[s].gen
    <3>1. s \notin Moved(want)
      BY <1>0, <2>1, ApplyIs
    <3>2. s \in known \ forsaken
      BY <1>3, <2>1, <3>1
    <3> QED
      BY <1>0, <2>1, <3>1, <3>2, ApplyIs
  <2>2. \A s \in Server : s \in known' \ forsaken' /\ pool'[s].busy => \E t \in Task : Drives(t, s)'
    BY <1>1, <2>1, BusyStays DEF Settled
  <2> QED
    BY <1>2, <2>2 DEF BusyIsDriven
<1> QED
  BY <1>0, <1>1, <1>4, <1>5, <1>6, <1>7, <1>8 DEF Registered

\* Entries that are kept or stopped under tasks that go on.
LEMMA PoolSettles ==
  ASSUME TypeOK, Settled, UNCHANGED <<known, outrun, forsaken>>, TasksStay,
         \A s \in Server : /\ pool'[s].cfg = pool[s].cfg
                           /\ pool'[s].busy => pool[s].busy /\ pool'[s].gen = pool[s].gen
                           /\ s \in known /\ pool'[s].state = "starting" =>
                                 /\ pool[s].state = "starting"
                                 /\ pool'[s].users = {} => pool[s].users = {}
  PROVE  KnownIsConfigured' /\ StartingIsUsed' /\ BusyIsDriven'
<1>1. known \subseteq Server /\ Registered /\ BusyIsDriven
  BY DEF TypeOK, Settled
<1>2. KnownIsConfigured' /\ StartingIsUsed'
  BY <1>1 DEF Registered, KnownIsConfigured, StartingIsUsed
<1>3. \A s \in Server : s \in known' \ forsaken' /\ pool'[s].busy => \E t \in Task : Drives(t, s)'
  BY <1>1, BusyStays
<1> QED
  BY <1>1, <1>2, <1>3 DEF BusyIsDriven

\* An entry that is kept, stopped or left by sessions, under an approval that is kept or
\* given up.
Eases(s) ==
    /\ pool'[s].cfg = pool[s].cfg
    /\ \A x \in pool'[s].users : x \in pool[s].users
    /\ pool'[s].busy => pool[s].busy /\ pool'[s].gen = pool[s].gen
    /\ s \in known /\ pool'[s].state = "starting" =>
          /\ pool[s].state = "starting" /\ pool'[s].gen = pool[s].gen
          /\ pool'[s].users = {} => pool[s].users = {}
    /\ grant'[s] # NoCfg => grant'[s] = grant[s] /\ PermitsStay(s)

\* A step of an operation that approves nothing and gives no entry a configuration.  (It is
\* that of no caller where c is none.)
LEMMA OpSettles ==
  ASSUME TypeOK, Settled, NEW c, UNCHANGED <<known, outrun, forsaken, disk>>, TasksStay,
         SeenIsRegistered',
         \A d \in Caller : d # c => op'[d] = op[d],
         \A x \in Session : life'[x] = "open" => life[x] = "open",
         \A s \in Server : Eases(s),
         c \in Caller => \A s \in Server, x \in Session :
                            Outdated(s, x) /\ Updates(c, x, s) => Updates(c, x, s)',
         c \in Caller => \A s \in Server : Waits(s) /\ Hands(c, s) /\ Waits(s)' => Handled(s)'
  PROVE  Settled'
<1>1. KnownIsConfigured' /\ StartingIsUsed' /\ BusyIsDriven'
  BY PoolSettles DEF Eases
<1>2. known \subseteq Server /\ Registered
  BY DEF TypeOK, Settled
<1>3. Registered'
  BY <1>1, <1>2 DEF Registered, GrantIsSaved, Eases
<1>4. OutdatedIsUpdated'
  <2>1. ASSUME NEW s \in Server, NEW x \in Session, Outdated(s, x)'
        PROVE  \E d \in Caller : Updates(d, x, s)'
    <3>1. Outdated(s, x)
      BY <2>1 DEF Outdated, Eases
    <3>2. PICK d \in Caller : Updates(d, x, s)
      BY <3>1 DEF Settled, OutdatedIsUpdated
    <3>3. CASE d = c
      BY <3>1, <3>2, <3>3
    <3>4. CASE d # c
      <4>1. Updates(d, x, s)'
        BY <3>2, <3>4 DEF Updates
      <4> QED
        BY <4>1
    <3> QED
      BY <3>3, <3>4
  <2> QED
    BY <2>1 DEF OutdatedIsUpdated
<1>5. ASSUME NEW s \in Server PROVE Waits(s)' => Handled(s)'
  <2>1. ASSUME Waits(s)'
        PROVE  /\ Waits(s) /\ PermitsStay(s)
               /\ pool'[s].cfg = pool[s].cfg /\ pool'[s].gen = pool[s].gen
    <3>1. s \in known /\ pool[s].cfg # NoCfg /\ grant'[s] = pool[s].cfg /\ pool'[s].state = "starting"
      BY <1>2, <2>1 DEF Waits, Registered, KnownIsConfigured, Eases
    <3>2. grant'[s] = grant[s] /\ PermitsStay(s) /\ pool[s].state = "starting"
          /\ pool'[s].cfg = pool[s].cfg /\ pool'[s].gen = pool[s].gen
      BY <2>1, <3>1 DEF Eases, Waits
    <3> QED
      BY <2>1, <3>1, <3>2 DEF Waits
  <2>2. ASSUME NEW d \in Caller, Hands(d, s), Waits(s), Waits(s)' PROVE Handled(s)'
    <3>1. CASE d = c
      BY <2>2, <3>1
    <3>2. CASE d # c
      <4>1. Hands(d, s)'
        BY <2>2, <3>2, HandsStay DEF Eases
      <4> QED
        BY <4>1 DEF Handled
    <3> QED
      BY <3>1, <3>2
  <2> QED
    BY <2>1, <2>2, WaitStays DEF Settled
<1>6. WaitingIsHandled'
  BY <1>5 DEF WaitingIsHandled
<1> QED
  BY <1>1, <1>3, <1>4, <1>6 DEF Settled

\* One that only moves the operation on.
LEMMA OpMoves ==
  ASSUME TypeOK, Settled, NEW c,
         UNCHANGED <<known, outrun, forsaken, disk, life, seen, sessions, pool, grant>>, TasksStay,
         \A s \in Server : PermitsStay(s),
         \A d \in Caller : d # c => op'[d] = op[d],
         c \in Caller => \A s \in Server, x \in Session :
                            Outdated(s, x) /\ Updates(c, x, s) => Updates(c, x, s)',
         c \in Caller => \A s \in Server : Waits(s) /\ Hands(c, s) /\ Waits(s)' => Handled(s)'
  PROVE  Settled'
<1>1. SeenIsRegistered'
  BY DEF Settled, Registered, SeenIsRegistered
<1>2. \A s \in Server : Eases(s)
  BY DEF Eases
<1> QED
  BY <1>1, <1>2, OpSettles

\* An operation that applies a configuration and goes on to connect what it changed.
LEMMA ApplyMoves ==
  ASSUME Inv, Settled, NEW X \in SUBSET Session, X # {}, NEW want \in File,
         NEW names \in SUBSET Server, Apply(X, want, names), disk' = disk, life' = life,
         NEW c \in Caller, \A d \in Caller : d # c => op'[d] = op[d],
         \A s \in Server : s \in names /\ s \in Moved(want) => Hands(c, s)',
         \A s \in Server, x \in Session :
            Outdated(s, x) /\ Updates(c, x, s) /\ x \in sessions \ X => Updates(c, x, s)',
         \A s \in Server : Waits(s) /\ Hands(c, s) /\ Waits(s)' => Handled(s)'
  PROVE  Settled'
<1>1. Registered' /\ BusyIsDriven' /\ TasksStay
  BY ApplySettles
<1>2. ASSUME NEW s \in Server, NEW x \in Session, Outdated(s, x)'
      PROVE  \E d \in Caller : Updates(d, x, s)'
  <2>1. Outdated(s, x) /\ x \in sessions \ X
    BY <1>2, ApplySees
  <2>2. PICK d \in Caller : Updates(d, x, s)
    BY <2>1 DEF Settled, OutdatedIsUpdated
  <2>3. CASE d = c
    BY <2>1, <2>2, <2>3
  <2>4. CASE d # c
    <3>1. Updates(d, x, s)'
      BY <2>2, <2>4 DEF Updates
    <3> QED
      BY <3>1
  <2> QED
    BY <2>3, <2>4
<1>3. ASSUME NEW s \in Server PROVE Waits(s)' => Handled(s)'
  <2>1. CASE s \in names /\ s \in Moved(want)
    <3>1. Hands(c, s)'
      BY <2>1
    <3> QED
      BY <3>1 DEF Handled
  <2>2. CASE ~ (s \in names /\ s \in Moved(want))
    <3>1. Waits(s)' => /\ Waits(s) /\ PermitsStay(s)
                       /\ pool'[s].cfg = pool[s].cfg /\ pool'[s].gen = pool[s].gen
      BY <2>2, ApplyWaits
    <3>2. ASSUME NEW d \in Caller, Hands(d, s), Waits(s), Waits(s)' PROVE Handled(s)'
      <4>1. CASE d = c
        BY <3>2, <4>1
      <4>2. CASE d # c
        <5>1. Hands(d, s)'
          BY <3>1, <3>2, <4>2, HandsStay
        <5> QED
          BY <5>1 DEF Handled
      <4> QED
        BY <4>1, <4>2
    <3> QED
      BY <1>1, <3>1, <3>2, WaitStays DEF Settled
  <2> QED
    BY <2>1, <2>2
<1>4. OutdatedIsUpdated' /\ WaitingIsHandled'
  BY <1>2, <1>3 DEF OutdatedIsUpdated, WaitingIsHandled
<1> QED
  BY <1>1, <1>4 DEF Settled

-----------------------------------------------------------------------------
\* What a caller hands on after apply_sessions.
LEMMA GoesOnIs ==
  ASSUME TypeOK, NEW c \in Caller, NEW o \in Op, GoesOn(c, o)
  PROVE  /\ \A d \in Caller : d # c => op'[d] = op[d]
         /\ \A s \in Server : o.pending[s] # NoCfg =>
               op'[c].pc = "spawn" /\ op'[c].pending[s] = o.pending[s]
<1> DEFINE more == IF o.todo = {} THEN Idle ELSE [o EXCEPT !.who = Nobody]
           next == IF o.pending # Nothing
                   THEN [more EXCEPT !.pc = "spawn", !.pending = o.pending]
                   ELSE IF o.todo # {} THEN [more EXCEPT !.pc = "name"] ELSE Idle
<1>1. op' = [op EXCEPT ![c] = next] /\ op \in [Caller -> Op]
  BY DEF GoesOn, TypeOK
<1>2. more \in OpRecord
  BY NothingType DEF Op, OpRecord
<1>3. ASSUME NEW s \in Server, o.pending[s] # NoCfg
      PROVE  next.pc = "spawn" /\ next.pending = o.pending
  <2>1. o.pending # Nothing
    BY <1>3 DEF Nothing
  <2> HIDE DEF more
  <2> QED
    BY <1>2, <2>1 DEF OpRecord
<1> HIDE DEF next
<1> QED
  BY <1>1, <1>3

\* An entry that a caller moved and left to be connected is handed on by it.
LEMMA MovedIsHanded ==
  ASSUME TypeOK, Rest, NEW X \in SUBSET Session, NEW want \in File, NEW names, NEW all,
         Apply(X, want, names), NEW c \in Caller, NEW s \in Server, s \in Moved(want),
         Pending(X, want, all)[s] # NoCfg =>
            op'[c].pc = "spawn" /\ op'[c].pending[s] = Pending(X, want, all)[s]
  PROVE  Hands(c, s)'
<1>1. want[s] # NoCfg /\ pool'[s].cfg = want[s] /\ pool'[s].state = "starting" /\ ~ pool'[s].busy
  BY ApplyIs
<1>2. pool'[s].state # "ready"
  BY <1>1
<1>3. Pending(X, want, all)[s] = want[s]
  BY <1>1, <1>2, MovedIsPending
<1> QED
  BY <1>1, <1>3 DEF Hands

\* reconcile
LEMMA ReconcileSettles ==
  ASSUME Inv, Settled, NEW c \in Caller, Reconcile(c)
  PROVE  Settled'
<1> DEFINE X == op[c].todo \intersect sessions
<1>0. /\ TypeOK /\ Rest /\ op[c] \in Op /\ op[c].want \in File /\ op[c].pc = "reconcile"
      /\ op[c].todo \in SUBSET Session /\ Registered
  BY DEF Inv, Rest, TypeOK, Op, OpRecord, Reconcile, Settled
<1>1. \A s \in Server : ~ Hands(c, s)
  BY <1>0 DEF Hands
<1>2. ASSUME NEW s \in Server, NEW x \in Session, Outdated(s, x), Updates(c, x, s) PROVE x \in X
  <2>1. x \in op[c].todo /\ s \in seen[x]
    BY <1>0, <1>2 DEF Updates, Outdated, Rest, ReferencesAgree
  <2> QED
    BY <1>0, <2>1 DEF Registered, SeenIsRegistered
<1>3. CASE X = {}
  <2>1. /\ op' = [op EXCEPT ![c] = Idle]
        /\ UNCHANGED <<known, outrun, forsaken, disk, life, seen, sessions, pool, grant, task>>
    BY <1>3 DEF Reconcile, registry
  <2>2. \A d \in Caller : d # c => op'[d] = op[d]
    BY <1>0, <2>1 DEF TypeOK
  <2> QED
    BY <1>0, <1>1, <1>2, <1>3, <2>1, <2>2, UnchangedStay, OpMoves
<1>4. CASE X # {}
  <2> DEFINE o == [op[c] EXCEPT !.todo = {}, !.pending = Pending(X, op[c].want, FALSE)]
  <2>1. Apply(X, op[c].want, Server) /\ GoesOn(c, o) /\ disk' = disk /\ life' = life
    BY <1>4 DEF Reconcile
  <2>2. Pending(X, op[c].want, FALSE) \in File
    BY <1>0, PendingType
  <2>3. o \in Op /\ o.pending = Pending(X, op[c].want, FALSE)
    BY <1>0, <2>2 DEF Op, OpRecord
  <2> HIDE DEF o
  <2>4. /\ \A d \in Caller : d # c => op'[d] = op[d]
        /\ \A s \in Server : Pending(X, op[c].want, FALSE)[s] # NoCfg =>
              op'[c].pc = "spawn" /\ op'[c].pending[s] = Pending(X, op[c].want, FALSE)[s]
    <3>1. /\ \A d \in Caller : d # c => op'[d] = op[d]
          /\ \A s \in Server : o.pending[s] # NoCfg =>
                op'[c].pc = "spawn" /\ op'[c].pending[s] = o.pending[s]
      BY <1>0, <2>1, <2>3, GoesOnIs
    <3> QED
      BY <2>3, <3>1
  <2> HIDE DEF X
  <2>5. X \in SUBSET Session
    BY <1>0 DEF X, TypeOK
  <2>6. \A s \in Server : s \in Moved(op[c].want) => Hands(c, s)'
    BY ZenonT(30), <1>0, <2>1, <2>4, <2>5, MovedIsHanded
  <2> QED
    BY <1>0, <1>1, <1>2, <1>4, <2>1, <2>4, <2>5, <2>6, ApplyMoves
<1> QED
  BY <1>3, <1>4

\* The second half of connect_named.
LEMMA RegisterSettles ==
  ASSUME Inv, Inv', Settled, NEW c \in Caller, Register(c)
  PROVE  Settled'
<1> DEFINE X == {op[c].who}
           all == Pending(X, op[c].want, TRUE)
           mine == [s \in Server |-> IF s \in op[c].only THEN all[s] ELSE NoCfg]
           o == [op[c] EXCEPT !.pending = mine]
<1>0. /\ TypeOK /\ Rest /\ op[c] \in Op /\ op[c].want \in File /\ op[c].pc = "register"
      /\ X \in SUBSET Session /\ X # {} /\ op[c].only \in SUBSET Server /\ Registered
  BY DEF Inv, Rest, TypeOK, Op, OpRecord, Register, Settled
<1>1. Apply(X, op[c].want, op[c].only) /\ GoesOn(c, o) /\ disk' = disk /\ life' = life
  BY DEF Register
<1>2. all \in File
  BY <1>0, PendingType
<1>3. mine \in File
  BY <1>2 DEF File
<1>4. o \in Op /\ o.pending = mine
  <2> HIDE DEF mine
  <2> QED
    BY <1>0, <1>3 DEF Op, OpRecord
<1> HIDE DEF o
<1>5. /\ \A d \in Caller : d # c => op'[d] = op[d]
      /\ \A s \in Server : mine[s] # NoCfg =>
            op'[c].pc = "spawn" /\ op'[c].pending[s] = mine[s]
  <2> HIDE DEF mine
  <2> QED
    BY <1>0, <1>1, <1>4, GoesOnIs
<1>6. \A s \in Server : s \in op[c].only /\ all[s] # NoCfg =>
         op'[c].pc = "spawn" /\ op'[c].pending[s] = all[s]
  BY <1>5
<1> HIDE DEF X
<1>7. \A s \in Server : s \in op[c].only /\ s \in Moved(op[c].want) => Hands(c, s)'
  BY <1>0, <1>1, <1>6, MovedIsHanded
<1>8. BusyIsDriven'
  BY <1>0, <1>1, ApplySettles
<1>9. ASSUME NEW s \in Server, Waits(s), Hands(c, s), Waits(s)' PROVE Handled(s)'
  <2>1. s \in op[c].only /\ op[c].want[s] = pool[s].cfg /\ pool[s].cfg # NoCfg
    BY <1>0, <1>9, WaitsIs DEF Hands
  <2>2. CASE s \in Moved(op[c].want)
    <3>1. Hands(c, s)'
      BY <1>7, <2>1, <2>2
    <3> QED
      BY <3>1 DEF Handled
  <2>3. CASE s \notin Moved(op[c].want)
    <3> DEFINE want == op[c].want
    <3> HIDE DEF want
    <3>0. want \in File /\ Apply(X, want, op[c].only) /\ s \notin Moved(want)
      BY <1>0, <1>1, <2>3 DEF want
    <3>1. pool'[s].cfg = pool[s].cfg
      BY <1>0, <1>1, <1>9, <3>0, ApplyWaits
    <3>2. s \in known' \ forsaken' /\ pool'[s].state = "starting"
      BY <1>9 DEF Waits
    <3>3. CASE pool'[s].busy
      <4>1. PICK t \in Task : Drives(t, s)'
        BY <1>8, <3>2, <3>3 DEF BusyIsDriven
      <4> QED
        BY <4>1 DEF Handled
    <3>4. CASE ~ pool'[s].busy
      <4>0. pool'[s].state # "ready"
        BY <3>2
      <4>1. Pending(X, want, TRUE)[s] = want[s]
        BY <3>0, <3>4, <4>0, AllArePending
      <4>2. op'[c].pc = "spawn" /\ op'[c].pending[s] = pool'[s].cfg
        BY <1>6, <2>1, <3>1, <4>1 DEF want
      <4> QED
        BY <4>2 DEF Handled, Hands
    <3> QED
      BY <3>3, <3>4
  <2> QED
    BY <2>2, <2>3
<1>10. \A s \in Server, x \in Session : ~ Updates(c, x, s)
  BY <1>0 DEF Updates
<1> QED
  BY <1>0, <1>1, <1>5, <1>7, <1>9, <1>10, ApplyMoves

\* A revocation, and a disconnect.
LEMMA RevokedEases ==
  ASSUME TypeOK, NEW s \in Server, Revoked(s)
  PROVE  TasksStay /\ \A r \in Server : Eases(r)
<1>1. pool \in [Server -> Entry] /\ grant \in File
  BY DEF TypeOK
<1>2. TasksStay /\ \A r \in Server : r # s => PermitsStay(r)
  BY VoidedStays DEF Revoked
<1>3. ASSUME NEW r \in Server PROVE Eases(r)
  <2>1. CASE r = s
    <3>1. grant'[s] = NoCfg
      BY <1>1 DEF Revoked, File
    <3>2. (pool'[s] = pool[s] /\ s \notin known) \/ pool'[s] = Stopped(pool[s])
      BY <1>1 DEF Revoked
    <3>3. /\ Stopped(pool[s]).cfg = pool[s].cfg /\ Stopped(pool[s]).users = pool[s].users
          /\ Stopped(pool[s]).busy = FALSE /\ Stopped(pool[s]).state = "stopped"
      BY <1>1, ClearedFields, StoppedCfg
    <3> QED
      BY <2>1, <3>1, <3>2, <3>3 DEF Eases
  <2>2. CASE r # s
    <3>1. pool'[r] = pool[r] /\ grant'[r] = grant[r]
      BY <1>1, <2>2 DEF Revoked, File
    <3> QED
      BY <1>2, <2>2, <3>1 DEF Eases
  <2> QED
    BY <2>1, <2>2
<1> QED
  BY <1>2, <1>3

\* An entry that is stopped waits for nobody.
LEMMA StoppedEases ==
  ASSUME TypeOK, NEW s \in Server, UNCHANGED <<grant, task>>,
         pool' = [pool EXCEPT ![s] = Stopped(pool[s])] \/ pool' = pool
  PROVE  TasksStay /\ \A r \in Server : Eases(r)
<1>1. TasksStay /\ \A r \in Server : PermitsStay(r)
  BY UnchangedStay
<1>2. /\ pool \in [Server -> Entry]
      /\ Stopped(pool[s]).cfg = pool[s].cfg /\ Stopped(pool[s]).users = pool[s].users
      /\ Stopped(pool[s]).busy = FALSE /\ Stopped(pool[s]).state = "stopped"
  BY ClearedFields, StoppedCfg DEF TypeOK
<1>3. ASSUME NEW r \in Server PROVE Eases(r)
  <2>1. CASE pool'[r] = pool[r]
    BY <1>1, <2>1 DEF Eases
  <2>2. CASE pool'[r] # pool[r]
    <3>1. r = s /\ pool'[s] = Stopped(pool[s])
      BY <1>2, <2>2
    <3> QED
      BY <1>1, <1>2, <3>1 DEF Eases
  <2> QED
    BY <2>1, <2>2
<1> QED
  BY <1>1, <1>3

\* The later steps of an operation.
LEMMA CallerSettles ==
  ASSUME Inv, Inv', Settled, NEW c \in Caller, CallerStep(c)
  PROVE  Settled'
<1>0. /\ TypeOK /\ op[c] \in Op /\ op \in [Caller -> Op] /\ Registered
      /\ op[c].todo \in SUBSET Session /\ op[c].only \in SUBSET Server
      /\ op[c].want \in File /\ op[c].pending \in File
  BY DEF Inv, TypeOK, Op, OpRecord, Settled
<1> DEFINE Same == UNCHANGED <<known, outrun, forsaken, disk, life, seen, sessions, pool, grant>>
<1>1. ASSUME NEW o, op' = [op EXCEPT ![c] = o] PROVE \A d \in Caller : d # c => op'[d] = op[d]
  BY <1>0, <1>1
<1>2. ASSUME task' = task PROVE TasksStay /\ \A s \in Server : PermitsStay(s)
  BY <1>2, UnchangedStay
<1>3. CASE CollectSaved(c)
  <2> DEFINE o == [op[c] EXCEPT !.pc = "reconcile", !.want = disk,
                                !.todo = {x \in Session : life[x] # "gone"}]
  <2>1. op[c].pc = "saved" /\ op' = [op EXCEPT ![c] = o] /\ Same /\ task' = task
    BY <1>3 DEF CollectSaved, registry
  <2>2. o.pc = "reconcile" /\ o.want = disk /\ o.todo = {x \in Session : life[x] # "gone"}
    BY <1>0 DEF Op, OpRecord
  <2> HIDE DEF o
  <2>3. op'[c] = o
    BY <1>0, <2>1
  <2>4. \A s \in Server, x \in Session : Outdated(s, x) => Updates(c, x, s)'
    BY <2>1, <2>2, <2>3 DEF Outdated, Updates
  <2>5. \A s \in Server : ~ Hands(c, s)
    BY <2>1 DEF Hands
  <2> QED
    BY <1>0, <1>1, <1>2, <2>1, <2>4, <2>5, OpMoves
<1>4. CASE CollectApproved(c)
  <2> DEFINE open == {x \in Session : life[x] = "open"}
             o == [op[c] EXCEPT !.pc = "name", !.todo = open, !.want = disk]
  <2>1. /\ op[c].pc = "approved" /\ Same /\ task' = task
        /\ op' = [op EXCEPT ![c] = IF (\E s \in op[c].only : disk[s] = NoCfg) \/ open = {} THEN Idle
                                   ELSE o]
    BY <1>4 DEF CollectApproved, registry
  <2>2. o.pc = "name" /\ o.want = disk /\ o.only = op[c].only
    BY <1>0 DEF Op, OpRecord
  <2> HIDE DEF o
  <2>3. ASSUME NEW s \in Server, Waits(s), Hands(c, s) PROVE Handled(s)'
    <3>1. op[c].only = {s} /\ disk[s] # NoCfg /\ open # {}
      BY <1>0, <2>1, <2>3, WaitsIs DEF Hands, Waits
    <3>2. op'[c] = o
      BY <1>0, <2>1, <3>1
    <3>3. Hands(c, s)'
      BY <2>1, <2>2, <3>1, <3>2 DEF Hands
    <3> QED
      BY <3>3 DEF Handled
  <2>4. \A s \in Server, x \in Session : ~ Updates(c, x, s)
    BY <2>1 DEF Updates
  <2> HIDE DEF open
  <2> QED
    BY <1>0, <1>1, <1>2, <2>1, <2>3, <2>4, OpMoves
<1>5. CASE ConnectAgain(c)
  <2>1. op[c].pc = "reconnect" /\ Same /\ task' = task
    BY <1>5 DEF ConnectAgain, registry
  <2>2. \A d \in Caller : d # c => op'[d] = op[d]
    BY <1>0, <1>5 DEF ConnectAgain
  <2>3. /\ \A s \in Server : ~ Hands(c, s)
        /\ \A s \in Server, x \in Session : ~ Updates(c, x, s)
    BY <2>1 DEF Updates, Hands
  <2> QED
    BY <1>0, <1>2, <2>1, <2>2, <2>3, OpMoves
<1>6. ASSUME NEW y \in Session, Name(c, y) PROVE Settled'
  <2>1. PICK r \in op[c].only :
          op' = [op EXCEPT ![c] =
                    [op[c] EXCEPT !.pc = "register", !.who = y, !.todo = op[c].todo \ {y},
                                  !.want = Desired(y, r, op[c].want)]]
    BY <1>6 DEF Name
  <2> DEFINE o == [op[c] EXCEPT !.pc = "register", !.who = y, !.todo = op[c].todo \ {y},
                                !.want = Desired(y, r, op[c].want)]
  <2>2. op[c].pc = "name" /\ Same /\ task' = task
    BY <1>6 DEF Name, registry
  <2>3. o.pc = "register" /\ o.want = Desired(y, r, op[c].want) /\ o.only = op[c].only
    BY <1>0 DEF Op, OpRecord
  <2>4. op'[c] = o
    BY <1>0, <2>1
  <2> HIDE DEF o
  <2>5. ASSUME NEW s \in Server, Hands(c, s) PROVE Handled(s)'
    <3>1. op[c].only = {s} /\ op[c].want[s] = disk[s]
      BY <2>2, <2>5 DEF Hands
    <3>2. o.want[s] = op[c].want[s]
      BY <2>3, <3>1 DEF Desired
    <3>3. Hands(c, s)'
      BY <2>2, <2>3, <2>4, <3>1, <3>2 DEF Hands
    <3> QED
      BY <3>3 DEF Handled
  <2>6. \A s \in Server, x \in Session : ~ Updates(c, x, s)
    BY <2>2 DEF Updates
  <2> QED
    BY <1>0, <1>1, <1>2, <2>1, <2>2, <2>5, <2>6, OpMoves
<1>7. ASSUME NEW r \in Server, NEW t \in Task, Spawn(c, r, t) PROVE Settled'
  <2> DEFINE o == [op[c] EXCEPT !.pending[r] = NoCfg]
             new == [pc |-> "queued", server |-> r, cfg |-> op[c].pending[r],
                     gen |-> pool[r].gen, permit |-> NoCfg]
  <2>1. /\ op[c].pc = "spawn" /\ ~ Active(t) /\ Same
        /\ task' = [task EXCEPT ![t] = new] /\ GoesOn(c, o)
    BY <1>7 DEF Spawn, registry, FreeTask, Active
  <2>2. o \in Op /\ \A s \in Server : o.pending[s] = IF s = r THEN NoCfg ELSE op[c].pending[s]
    <3>1. [op[c].pending EXCEPT ![r] = NoCfg] \in File
      BY <1>0 DEF File
    <3>2. o = [op[c] EXCEPT !.pending = [op[c].pending EXCEPT ![r] = NoCfg]]
      BY <1>0 DEF Op, OpRecord
    <3> QED
      BY <1>0, <3>1, <3>2 DEF Op, OpRecord, File
  <2> HIDE DEF o
  <2>3. /\ \A d \in Caller : d # c => op'[d] = op[d]
        /\ \A s \in Server : o.pending[s] # NoCfg =>
              op'[c].pc = "spawn" /\ op'[c].pending[s] = o.pending[s]
    BY <1>0, <2>1, <2>2, GoesOnIs
  <2>4. task'[t] = new /\ \A u \in Task : u # t => task'[u] = task[u]
    BY <1>0, <2>1 DEF TypeOK
  <2>5. TasksStay /\ \A s \in Server : PermitsStay(s)
    BY <2>1, <2>4 DEF TasksStay, PermitsStay
  <2>6. ASSUME NEW s \in Server, Waits(s), Hands(c, s) PROVE Handled(s)'
    <3>1. op[c].pending[s] = pool[s].cfg /\ pool[s].cfg # NoCfg
      BY <1>0, <2>1, <2>6, WaitsIs DEF Hands
    <3>2. CASE s = r
      <4>1. Takes(t, s)'
        BY <2>1, <2>4, <3>1, <3>2 DEF Takes, Current
      <4> QED
        BY <4>1 DEF Handled
    <3>3. CASE s # r
      <4>1. op'[c].pc = "spawn" /\ op'[c].pending[s] = pool[s].cfg
        BY <2>2, <2>3, <3>1, <3>3
      <4>2. Hands(c, s)'
        BY <2>1, <4>1 DEF Hands
      <4> QED
        BY <4>2 DEF Handled
    <3> QED
      BY <3>2, <3>3
  <2>7. \A s \in Server, x \in Session : ~ Updates(c, x, s)
    BY <2>1 DEF Updates
  <2> QED
    BY <1>0, <2>1, <2>3, <2>5, <2>6, <2>7, OpMoves
<1>8. CASE RevokeAgain(c)
  <2>1. PICK s \in Server : Revoked(s) \/ UNCHANGED <<grant, task, pool>>
    BY <1>0, <1>8 DEF RevokeAgain
  <2>2. /\ op[c].pc = "revoked" /\ op' = [op EXCEPT ![c] = Idle]
        /\ UNCHANGED <<known, outrun, forsaken, disk, life, seen, sessions>>
    BY <1>8 DEF RevokeAgain, registry
  <2>3. TasksStay /\ \A r \in Server : Eases(r)
    BY <1>0, <2>1, RevokedEases, StoppedEases
  <2>4. /\ \A r \in Server : ~ Hands(c, r)
        /\ \A r \in Server, x \in Session : ~ Updates(c, x, r)
    BY <2>2 DEF Updates, Hands
  <2>5. SeenIsRegistered'
    BY <1>0, <2>2 DEF Registered, SeenIsRegistered
  <2> QED
    BY <1>0, <1>1, <2>2, <2>3, <2>4, <2>5, OpSettles
<1> QED
  BY <1>3, <1>4, <1>5, <1>6, <1>7, <1>8, ReconcileSettles, RegisterSettles DEF CallerStep

\* Approvals are given up for what the file no longer says.
LEMMA SaveSettles ==
  ASSUME Inv, Settled, NEW c \in Caller, NEW new \in Document, Save(c, new)
  PROVE  Settled'
<1> DEFINE void == {s \in Server : grant[s] # new[s]}
<1>0. TypeOK /\ Registered /\ pool \in [Server -> Entry] /\ op \in [Caller -> Op]
  BY DEF Inv, TypeOK, Settled
<1>1. /\ disk' = new /\ UNCHANGED <<known, outrun, forsaken, life, seen, sessions>>
      /\ op' = [op EXCEPT ![c] = [Idle EXCEPT !.pc = "saved"]] /\ op[c].pc = "idle"
  BY <1>0, BeginType DEF Save, registry
<1>2. TasksStay /\ \A s \in Server \ void : PermitsStay(s)
  BY <1>0, VoidedStays DEF Save
<1>3. ASSUME NEW s \in Server
      PROVE  /\ pool'[s].cfg = pool[s].cfg /\ pool'[s].users = pool[s].users
             /\ pool'[s].state = pool[s].state /\ pool'[s].gen = pool[s].gen
             /\ pool'[s].busy = pool[s].busy
  <2>1. pool'[s] = pool[s] \/ pool'[s] = [pool[s] EXCEPT !.launch = NoCfg]
    BY DEF Save
  <2> QED
    BY <1>0, <2>1 DEF Entry
<1>4. \A s \in Server : grant'[s] = IF grant[s] # new[s] THEN NoCfg ELSE grant[s]
  BY DEF Save
<1>5. KnownIsConfigured' /\ StartingIsUsed' /\ BusyIsDriven'
  BY <1>0, <1>1, <1>2, <1>3, PoolSettles
<1>6. SeenIsRegistered' /\ GrantIsSaved'
  BY <1>0, <1>1, <1>4 DEF Registered, SeenIsRegistered, GrantIsSaved
<1>7. op'[c].pc = "saved" /\ \A d \in Caller : d # c => op'[d] = op[d]
  BY <1>0, <1>1 DEF Idle
<1>8. \A x \in Session, s \in Server : Updates(c, x, s)'
  BY <1>7 DEF Updates
<1>9. OutdatedIsUpdated'
  BY <1>8 DEF OutdatedIsUpdated
<1>10. ASSUME NEW s \in Server PROVE Waits(s)' => Handled(s)'
  <2>1. ASSUME Waits(s)'
        PROVE  /\ Waits(s) /\ PermitsStay(s) /\ disk'[s] = disk[s]
               /\ pool'[s].cfg = pool[s].cfg /\ pool'[s].gen = pool[s].gen
    <3>1. s \in known /\ grant'[s] = pool[s].cfg /\ pool[s].cfg # NoCfg
      BY <1>0, <1>1, <1>3, <2>1 DEF Waits, Registered, KnownIsConfigured
    <3>2. grant[s] = new[s] /\ grant[s] = pool[s].cfg
      BY <1>4, <3>1
    <3>3. disk'[s] = disk[s]
      BY <1>0, <1>1, <3>1, <3>2 DEF Registered, GrantIsSaved
    <3> QED
      BY <1>1, <1>2, <1>3, <2>1, <3>2, <3>3 DEF Waits
  <2>2. ASSUME NEW d \in Caller, Hands(d, s), Waits(s), Waits(s)' PROVE Handled(s)'
    <3>1. d # c
      BY <1>1, <2>2 DEF Hands
    <3>2. Hands(d, s)'
      BY <1>7, <2>1, <2>2, <3>1, HandsStay
    <3> QED
      BY <3>2 DEF Handled
  <2> QED
    BY <1>2, <2>1, <2>2, WaitStays DEF Settled
<1>11. WaitingIsHandled'
  BY <1>10 DEF WaitingIsHandled
<1> QED
  BY <1>5, <1>6, <1>9, <1>11 DEF Settled, Registered

\* What the user approves is what his operation goes on to connect.
LEMMA ApproveSettles ==
  ASSUME Inv, Settled, NEW c \in Caller, NEW r \in Server, Approve(c, r)
  PROVE  Settled'
<1>0. /\ TypeOK /\ Registered /\ pool \in [Server -> Entry] /\ op \in [Caller -> Op]
      /\ grant \in File
  BY DEF Inv, TypeOK, Settled
<1>1. /\ UNCHANGED <<known, outrun, forsaken, disk, life, seen, sessions>> /\ op[c].pc = "idle"
      /\ op' = [op EXCEPT ![c] = [Idle EXCEPT !.pc = "approved", !.only = {r}]]
  BY <1>0, BeginType DEF Approve, registry
<1>2. TasksStay /\ \A s \in Server : s # r => PermitsStay(s)
  BY <1>0, VoidedStays, UnchangedStay DEF Approve
<1>3. ASSUME NEW s \in Server
      PROVE  /\ pool'[s].cfg = pool[s].cfg /\ pool'[s].users = pool[s].users
             /\ pool'[s].state = pool[s].state /\ pool'[s].gen = pool[s].gen
             /\ pool'[s].busy = pool[s].busy
  <2>1. PICK f : pool' = [pool EXCEPT ![r].launch = f]
    BY DEF Approve
  <2>2. pool'[s] = pool[s] \/ pool'[s] = [pool[s] EXCEPT !.launch = f]
    BY <1>0, <2>1
  <2> QED
    BY <1>0, <2>2 DEF Entry
<1>4. \A s \in Server : grant'[s] = IF s = r THEN disk[s] ELSE grant[s]
  BY <1>0 DEF Approve, File
<1>5. KnownIsConfigured' /\ StartingIsUsed' /\ BusyIsDriven'
  BY <1>0, <1>1, <1>2, <1>3, PoolSettles
<1>6. SeenIsRegistered' /\ GrantIsSaved'
  BY <1>0, <1>1, <1>4 DEF Registered, SeenIsRegistered, GrantIsSaved
<1>7. /\ op'[c].pc = "approved" /\ op'[c].only = {r}
      /\ \A d \in Caller : d # c => op'[d] = op[d]
  BY <1>0, <1>1 DEF Idle
<1>8. ASSUME NEW s \in Server, NEW x \in Session, Outdated(s, x)'
      PROVE  \E d \in Caller : Updates(d, x, s)'
  <2>1. Outdated(s, x)
    BY <1>1, <1>3, <1>8 DEF Outdated
  <2>2. PICK d \in Caller : Updates(d, x, s)
    BY <2>1 DEF Settled, OutdatedIsUpdated
  <2>3. d # c
    BY <1>1, <2>2 DEF Updates
  <2>4. Updates(d, x, s)'
    BY <1>1, <1>7, <2>2, <2>3 DEF Updates
  <2> QED
    BY <2>4
<1>9. ASSUME NEW s \in Server PROVE Waits(s)' => Handled(s)'
  <2>1. CASE s = r
    <3>1. Hands(c, s)'
      BY <1>7, <2>1 DEF Hands
    <3> QED
      BY <3>1 DEF Handled
  <2>2. CASE s # r
    <3>1. Waits(s)' => /\ Waits(s) /\ PermitsStay(s)
                       /\ pool'[s].cfg = pool[s].cfg /\ pool'[s].gen = pool[s].gen
      BY <1>1, <1>2, <1>3, <1>4, <2>2 DEF Waits
    <3>2. ASSUME NEW d \in Caller, Hands(d, s), Waits(s), Waits(s)' PROVE Handled(s)'
      <4>1. d # c
        BY <1>1, <3>2 DEF Hands
      <4>2. Hands(d, s)'
        BY <1>1, <1>3, <1>7, <3>2, <4>1, HandsStay
      <4> QED
        BY <4>2 DEF Handled
    <3> QED
      BY <1>2, <3>1, <3>2, WaitStays DEF Settled
  <2> QED
    BY <2>1, <2>2
<1>10. OutdatedIsUpdated' /\ WaitingIsHandled'
  BY <1>8, <1>9 DEF OutdatedIsUpdated, WaitingIsHandled
<1> QED
  BY <1>5, <1>6, <1>10 DEF Settled, Registered

\* mcp_connect of all servers.
LEMMA WarmSettles ==
  ASSUME Inv, Settled, NEW c \in Caller, NEW x \in Session, Warm(c, x)
  PROVE  Settled'
<1> DEFINE X == {x}
           pending == Pending(X, disk, TRUE)
<1>0. TypeOK /\ Rest /\ disk \in File /\ op \in [Caller -> Op] /\ op[c].pc = "idle"
  BY BeginType DEF Inv, Rest, TypeOK, Warm
<1>1. /\ Apply(X, disk, Server) /\ disk' = disk /\ life' = life
      /\ op' = [op EXCEPT ![c] = IF pending = Nothing THEN Idle
                                 ELSE [Idle EXCEPT !.pc = "spawn", !.pending = pending]]
  BY DEF Warm
<1>2. \A d \in Caller : d # c => op'[d] = op[d]
  BY <1>0, <1>1
<1>3. \A s \in Server : pending[s] # NoCfg => op'[c].pc = "spawn" /\ op'[c].pending[s] = pending[s]
  <2> HIDE DEF pending
  <2>1. \A s \in Server : pending[s] # NoCfg => pending # Nothing
    BY DEF Nothing
  <2> QED
    BY <1>0, <1>1, <2>1 DEF Idle
<1>4. X \in SUBSET Session /\ X # {}
  OBVIOUS
<1> HIDE DEF X
<1>5. ASSUME NEW s \in Server, s \in Moved(disk) PROVE Hands(c, s)'
  <2>1. Pending(X, disk, TRUE)[s] # NoCfg =>
           op'[c].pc = "spawn" /\ op'[c].pending[s] = Pending(X, disk, TRUE)[s]
    BY <1>3
  <2>2. Apply(X, disk, Server)
    BY <1>1
  <2> HIDE DEF pending
  <2> QED
    BY <1>0, <1>4, <1>5, <2>1, <2>2, MovedIsHanded
<1>6. /\ \A s \in Server : ~ Hands(c, s)
      /\ \A s \in Server, y \in Session : ~ Updates(c, y, s)
  BY <1>0 DEF Updates, Hands
<1> QED
  BY <1>0, <1>1, <1>2, <1>4, <1>5, <1>6, ApplyMoves

\* Sessions leave their entries, and the last one stops each.
LEMMA ReleaseSettles ==
  ASSUME Inv, Settled, NEW x \in Session, Release(x),
         \A y \in Session : life'[y] = "open" => life[y] = "open"
  PROVE  Settled'
<1>0. /\ TypeOK /\ Rest /\ Registered /\ pool \in [Server -> Entry]
      /\ seen \in [Session -> SUBSET Server]
  BY DEF Inv, Rest, TypeOK, Settled
<1>1. /\ UNCHANGED <<known, outrun, forsaken, disk, op, grant, task>> /\ pool' = Dropped(x)
      /\ sessions' = sessions \ {x} /\ seen' = [seen EXCEPT ![x] = {}]
  BY DEF Release
<1>2. TasksStay /\ \A s \in Server : PermitsStay(s)
  BY <1>1, UnchangedStay
<1>3. ASSUME NEW s \in Server PROVE Eases(s)
  <2> DEFINE e == [pool[s] EXCEPT !.users = pool[s].users \ {x}]
  <2>1. /\ e \in Entry /\ e.cfg = pool[s].cfg /\ e.gen = pool[s].gen /\ e.busy = pool[s].busy
        /\ e.state = pool[s].state /\ e.users = pool[s].users \ {x}
    BY <1>0 DEF Entry
  <2>2. pool'[s] = IF s \notin seen[x] \intersect known THEN pool[s]
                   ELSE IF e.users = {} THEN Stopped(e) ELSE e
    BY <1>1 DEF Dropped
  <2> HIDE DEF e
  <2>3. /\ Stopped(e).cfg = e.cfg /\ Stopped(e).users = e.users
        /\ Stopped(e).busy = FALSE /\ Stopped(e).state = "stopped"
    BY <2>1, ClearedFields, StoppedCfg
  <2>4. CASE pool'[s] = pool[s]
    BY <1>1, <1>2, <2>4 DEF Eases
  <2>5. CASE pool'[s] = Stopped(e)
    BY <1>1, <1>2, <2>1, <2>3, <2>5 DEF Eases
  <2>6. CASE pool'[s] = e /\ e.users # {}
    BY <1>1, <1>2, <2>1, <2>6 DEF Eases
  <2> QED
    BY <2>2, <2>4, <2>5, <2>6
<1>4. SeenIsRegistered'
  BY <1>0, <1>1 DEF Registered, SeenIsRegistered
<1>5. Nobody \notin Caller
  BY McpAssumption
<1> QED
  BY <1>0, <1>1, <1>2, <1>3, <1>4, <1>5, OpSettles

\* The first steps of an operation.
LEMMA UserSettles ==
  ASSUME Inv, Settled, UserStep
  PROVE  Settled'
<1>0. TypeOK /\ Registered /\ op \in [Caller -> Op]
  BY DEF Inv, TypeOK, Settled
<1>1. ASSUME NEW c \in Caller, op[c].pc = "idle"
      PROVE  /\ \A s \in Server : ~ Hands(c, s)
             /\ \A s \in Server, x \in Session : ~ Updates(c, x, s)
  BY <1>1 DEF Updates, Hands
<1>2. ASSUME UNCHANGED <<seen, sessions>> PROVE SeenIsRegistered'
  BY <1>0, <1>2 DEF Registered, SeenIsRegistered
<1>3. ASSUME NEW c \in Caller, NEW x \in Session, NEW s \in Server, Connect(c, x, s) PROVE Settled'
  <2>1. /\ op[c].pc = "idle" /\ op' = [op EXCEPT ![c] = Registering(x, s)] /\ task' = task
        /\ UNCHANGED <<known, outrun, forsaken, disk, life, seen, sessions, pool, grant>>
    BY <1>0, <1>3, BeginType DEF Connect, registry
  <2>2. \A d \in Caller : d # c => op'[d] = op[d]
    BY <1>0, <2>1
  <2>3. TasksStay /\ \A r \in Server : PermitsStay(r)
    BY <2>1, UnchangedStay
  <2> QED
    BY <1>0, <1>1, <2>1, <2>2, <2>3, OpMoves
<1>4. ASSUME NEW c \in Caller, NEW x \in Session, NEW s \in Server, Reconnect(c, x, s)
      PROVE  Settled'
  <2>1. /\ op[c].pc = "idle"
        /\ op' = [op EXCEPT ![c] = [Idle EXCEPT !.pc = "reconnect", !.who = x, !.only = {s}]]
        /\ UNCHANGED <<known, outrun, forsaken, disk, life, seen, sessions, grant, task>>
        /\ pool' = [pool EXCEPT ![s] = Stopped(pool[s])] \/ pool' = pool
    BY <1>0, <1>4, BeginType DEF Reconnect, registry
  <2>2. \A d \in Caller : d # c => op'[d] = op[d]
    BY <1>0, <2>1
  <2>3. TasksStay /\ \A r \in Server : Eases(r)
    BY <1>0, <2>1, StoppedEases
  <2> QED
    BY <1>0, <1>1, <1>2, <2>1, <2>2, <2>3, OpSettles
<1>5. ASSUME NEW c \in Caller, NEW s \in Server, Revoke(c, s) PROVE Settled'
  <2>1. /\ op[c].pc = "idle" /\ Revoked(s)
        /\ op' = [op EXCEPT ![c] = [Idle EXCEPT !.pc = "revoked", !.only = {s},
                                            !.want = [Nothing EXCEPT ![s] = disk[s]]]]
        /\ UNCHANGED <<known, outrun, forsaken, disk, life, seen, sessions>>
    BY <1>0, <1>5, BeginType DEF Revoke, registry
  <2>2. \A d \in Caller : d # c => op'[d] = op[d]
    BY <1>0, <2>1
  <2>3. TasksStay /\ \A r \in Server : Eases(r)
    BY <1>0, <2>1, RevokedEases
  <2> QED
    BY <1>0, <1>1, <1>2, <2>1, <2>2, <2>3, OpSettles
<1>6. ASSUME NEW s \in Server, Disconnect(s) PROVE Settled'
  <2>1. /\ UNCHANGED <<known, outrun, forsaken, disk, life, seen, sessions, grant, task, op>>
        /\ pool' = [pool EXCEPT ![s] = Stopped(pool[s])]
    BY <1>6 DEF Disconnect, registry
  <2>2. TasksStay /\ \A r \in Server : Eases(r)
    BY <1>0, <2>1, StoppedEases
  <2> QED
    BY <1>0, <1>2, <2>1, <2>2, OpSettles, McpAssumption
<1>7. ASSUME NEW x \in Session, Close(x) PROVE Settled'
  <2>1. /\ UNCHANGED <<known, outrun, forsaken, disk, seen, sessions, grant, task, op, pool>>
        /\ life' = [life EXCEPT ![x] = "closed"]
    BY <1>7 DEF Close, registry
  <2>2. TasksStay /\ \A r \in Server : PermitsStay(r)
    BY <2>1, UnchangedStay
  <2>3. \A r \in Server : Eases(r)
    BY <2>1, <2>2 DEF Eases
  <2>4. \A y \in Session : life'[y] = "open" => life[y] = "open"
    BY <2>1 DEF Inv, TypeOK
  <2> QED
    BY <1>0, <1>2, <2>1, <2>2, <2>3, <2>4, OpSettles, McpAssumption
<1>8. ASSUME NEW x \in Session, ReleaseClosed(x) \/ ReleaseOpen(x) PROVE Settled'
  <2>1. Release(x) /\ \A y \in Session : life'[y] = "open" => life[y] = "open"
    BY <1>0, <1>8 DEF ReleaseClosed, ReleaseOpen, TypeOK
  <2> QED
    BY <2>1, ReleaseSettles
<1> QED
  BY <1>3, <1>4, <1>5, <1>6, <1>7, <1>8, SaveSettles, ApproveSettles, WarmSettles DEF UserStep

\* What an always-allow changes, it changes in the file, the approval and the entry at once.
LEMMA AllowSettles ==
  ASSUME Inv, Settled, NEW x \in Session, Allow(x)
  PROVE  Settled'
<1> DEFINE b == call[x].binding
           next == [b.cfg EXCEPT !.always = TRUE]
<1>1. b \in Binding
  BY DEF Inv, TypeOK, Allow, NoCall
<1>2. PICK r \in Server : r = b.server
  BY <1>1 DEF Binding
<1>3. next # NoCfg
  <2>1. next \in Cfg
    BY <1>1 DEF Binding, Cfg
  <2> QED
    BY <2>1, McpAssumption
<1>4. /\ Valid(x, b) /\ disk' = [disk EXCEPT ![r] = next] /\ grant' = [grant EXCEPT ![r] = next]
      /\ pool' = [pool EXCEPT ![r] = [pool[r] EXCEPT !.cfg = next, !.launch = next]]
      /\ UNCHANGED <<known, outrun, forsaken, life, op, seen, sessions, task>>
  BY <1>2 DEF Allow, registry
<1> HIDE DEF next
<1>5. /\ TypeOK /\ Registered /\ pool \in [Server -> Entry] /\ known \subseteq Server
      /\ disk \in File /\ grant \in File
  BY DEF Inv, TypeOK, Settled
<1>6. pool[r].state = "ready"
  BY <1>2, <1>4 DEF Valid, Ready
<1>7. /\ pool'[r].cfg = next /\ pool'[r].users = pool[r].users /\ pool'[r].state = "ready"
      /\ pool'[r].gen = pool[r].gen /\ pool'[r].busy = pool[r].busy
      /\ disk'[r] = next /\ grant'[r] = next
  BY <1>4, <1>5, <1>6 DEF Entry, File
<1>8. \A s \in Server : s # r => pool'[s] = pool[s] /\ disk'[s] = disk[s] /\ grant'[s] = grant[s]
  BY <1>4, <1>5 DEF File
<1>9. TasksStay /\ \A s \in Server : PermitsStay(s)
  BY <1>4, UnchangedStay
<1>10. Registered'
  <2>1. SeenIsRegistered'
    BY <1>4, <1>5 DEF Registered, SeenIsRegistered
  <2>2. GrantIsSaved'
    BY <1>5, <1>7, <1>8 DEF Registered, GrantIsSaved
  <2>3. KnownIsConfigured'
    BY <1>3, <1>4, <1>5, <1>7, <1>8 DEF Registered, KnownIsConfigured
  <2>4. StartingIsUsed'
    BY <1>4, <1>5, <1>7, <1>8 DEF Registered, StartingIsUsed
  <2> QED
    BY <2>1, <2>2, <2>3, <2>4 DEF Registered
<1>11. BusyIsDriven'
  <2>1. ASSUME NEW s \in Server
        PROVE  s \in known' \ forsaken' /\ pool'[s].busy => \E t \in Task : Drives(t, s)'
    <3>1. pool'[s].busy = pool[s].busy /\ pool'[s].gen = pool[s].gen
      BY <1>7, <1>8
    <3> QED
      BY <1>4, <1>9, <3>1, BusyStays DEF Settled
  <2> QED
    BY <1>4, <1>5, <2>1 DEF BusyIsDriven
<1>12. ASSUME NEW s \in Server, NEW y \in Session, Outdated(s, y)'
       PROVE  \E d \in Caller : Updates(d, y, s)'
  <2>1. s # r
    BY <1>7, <1>12 DEF Outdated
  <2>2. Outdated(s, y)
    BY <1>4, <1>8, <1>12, <2>1 DEF Outdated
  <2>3. PICK d \in Caller : Updates(d, y, s)
    BY <2>2 DEF Settled, OutdatedIsUpdated
  <2>4. Updates(d, y, s)'
    BY <1>4, <1>8, <2>1, <2>3 DEF Updates
  <2> QED
    BY <2>4
<1>13. ASSUME NEW s \in Server PROVE Waits(s)' => Handled(s)'
  <2>1. Waits(s)' => /\ Waits(s) /\ PermitsStay(s) /\ s # r
                     /\ pool'[s].cfg = pool[s].cfg /\ pool'[s].gen = pool[s].gen
    BY <1>4, <1>7, <1>8, <1>9 DEF Waits
  <2>2. ASSUME NEW d \in Caller, Hands(d, s), Waits(s), Waits(s)' PROVE Handled(s)'
    <3>1. Hands(d, s)'
      BY <1>4, <1>8, <2>1, <2>2, HandsStay
    <3> QED
      BY <3>1 DEF Handled
  <2> QED
    BY <1>9, <2>1, <2>2, WaitStays DEF Settled
<1>14. OutdatedIsUpdated' /\ WaitingIsHandled'
  BY <1>12, <1>13 DEF OutdatedIsUpdated, WaitingIsHandled
<1> QED
  BY <1>10, <1>11, <1>14 DEF Settled

\* Nothing that the pool and the operations on it are made of changes.
LEMMA NothingSettles ==
  ASSUME Inv, Settled,
         UNCHANGED <<disk, life, op, grant, sessions, seen, known, pool, task, outrun, forsaken>>
  PROVE  Settled'
<1>1. TypeOK /\ TasksStay /\ \A s \in Server : PermitsStay(s)
  BY UnchangedStay DEF Inv
<1> QED
  BY <1>1, OpMoves, McpAssumption

\* At the start nothing is registered.
LEMMA SettledInit == ASSUME Init PROVE Settled
<1>1. /\ known = {} /\ \A x \in Session : seen[x] = {}
      /\ \A s \in Server : grant[s] \in {NoCfg, disk[s]}
  BY DEF Init, Nothing
<1> QED
  BY <1>1 DEF Settled, Registered, SeenIsRegistered, GrantIsSaved, KnownIsConfigured,
              StartingIsUsed, BusyIsDriven, OutdatedIsUpdated, WaitingIsHandled, Outdated, Waits

\* Every step preserves it.
LEMMA SettledNext == ASSUME Inv, Inv', Settled, [Next]_vars PROVE Settled'
<1>1. ASSUME NEW x \in Agent, AgentStep(x) PROVE Settled'
  <2>1. x \in Session
    BY McpAssumption
  <2>2. CASE Allow(x)
    BY <2>1, <2>2, AllowSettles
  <2>3. CASE OnlyAgents
    BY <2>3, NothingSettles DEF OnlyAgents, registry
  <2> QED
    BY <1>1, <2>2, <2>3 DEF AgentStep, Snapshot, Request, Call, EndCall
<1>2. CASE UNCHANGED vars
  BY <1>2, NothingSettles DEF vars, registry
<1> QED
  BY <1>1, <1>2, TaskStepSettles, CallerSettles, UserSettles DEF Next

\* In every reachable state an entry that is outdated is the work of an operation under way,
\* unless one that had read the file before was the last to configure it; and an entry that is
\* busy, or approved and waiting to be connected, is the work of a task or operation under way,
\* unless a connection to another server configured it or a permit that was given up half way
\* left it busy, and no task was admitted to it since (apply_sessions, connect_pending,
\* ensure_at, set_ready, set_launch_trust).
THEOREM WorkIsOwned == Spec => []Settled
<1>1. Init => Settled
  BY SettledInit
<1>2. Inv /\ Inv' /\ Settled /\ [Next]_vars => Settled'
  BY SettledNext
<1> QED
  BY <1>1, <1>2, Invariance, PTL DEF Spec

\* When nothing is under way, the entries that open sessions refer to have the saved
\* configuration, unless an operation with an earlier reading of the file was the last to
\* configure them; and they neither are busy nor wait, approved, to be connected, unless they
\* were forsaken (reconcile, connect_pending, ensure_at).
THEOREM NothingIsLeft == Spec => []QuietIsSettled
<1>1. ASSUME TypeOK, Settled PROVE QuietIsSettled
  <2> SUFFICES ASSUME Quiet, NEW s \in known, NEW x \in pool[s].users, life[x] = "open"
               PROVE  /\ s \notin outrun => pool[s].cfg = disk[s]
                      /\ s \notin forsaken =>
                            /\ ~ pool[s].busy
                            /\ grant[s] = pool[s].cfg => pool[s].state # "starting"
    BY DEF QuietIsSettled, Referenced
  <2>1. s \in Server /\ x \in Session
    BY <1>1 DEF TypeOK, Entry
  <2>2. \A c \in Caller : ~ Updates(c, x, s) /\ ~ Hands(c, s)
    BY DEF Quiet, Updates, Hands
  <2>3. \A t \in Task : ~ Takes(t, s) /\ ~ Drives(t, s)
    BY DEF Quiet, Takes, Drives, Admitted, AdmittedPc
  <2>4. ~ Outdated(s, x)
    BY <1>1, <2>1, <2>2 DEF Settled, OutdatedIsUpdated
  <2>5. ~ Waits(s)
    BY <1>1, <2>1, <2>2, <2>3 DEF Settled, WaitingIsHandled, Handled
  <2>6. s \notin forsaken => ~ pool[s].busy
    BY <1>1, <2>3 DEF Settled, BusyIsDriven
  <2> QED
    BY <2>1, <2>4, <2>5, <2>6 DEF Outdated, Waits
<1>2. Inv /\ Settled => QuietIsSettled
  BY <1>1 DEF Inv
<1> QED
  BY <1>2, Invariance, WorkIsOwned, PTL
=============================================================================
