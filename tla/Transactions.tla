----------------------------- MODULE Transactions -----------------------------
(***************************************************************************)
(* All-or-nothing writes to several shared files                           *)
(* (core/process_coordination/transaction.rs, commit in workspace.rs).     *)
(*                                                                         *)
(* A commit stages every write in a temporary file next to its target,     *)
(* replaces the journal (from then on the transaction is decided), renames *)
(* the temporaries one by one and removes the journal.  A process that     *)
(* starts rolls forward what it finds in the journal directory and         *)
(* discards what was never decided.  Both hold transactions.lock, which    *)
(* the OS drops when the process dies; any single file operation may fail. *)
(***************************************************************************)
EXTENDS Naturals, Sequences, FiniteSets

CONSTANTS
    Proc,       \* processes that commit, one thread each
    Tx,         \* calls of commit
    Id,         \* transaction ids, "<resource>@<generation>"
    Path,       \* target files
    IdOf,       \* the id of each call: calls under one lease share it
    GenOf,      \* the lease generation of each call
    WritesOf,   \* the targets of each call, in order
    MaxFaults,  \* failing file operations (a bound)
    NoProc, NoTx, Missing, Old

ASSUME TxAssumption ==
    /\ IdOf \in [Tx -> Id] /\ GenOf \in [Tx -> Nat]
    /\ \A x \in Tx : WritesOf[x] \in Seq(Path) /\ Len(WritesOf[x]) > 0
    \* plan_writes refuses anything else before it touches a file
    /\ \A x \in Tx : \A i, j \in DOMAIN WritesOf[x] : WritesOf[x][i] = WritesOf[x][j] => i = j
    /\ MaxFaults \in Nat /\ NoTx \notin Tx /\ NoProc \notin Proc

VARIABLES
    lock,       \* transactions.lock
    target,     \* content of each target: the transaction that wrote it
    temp,       \* temporary file of each write: "none", "part" or "full"
    pending,    \* pending/<id>.json: the call whose temporaries it lists
    journal,    \* journal/<id>.json
    jtemp,      \* .cw-tmp-* in the journal directory, per call that wrote it
    proc,       \* the processes
    valid,      \* calls whose lease is still in force
    begun,      \* calls made so far
    decided,    \* history: the calls that were decided, oldest first
    applied,    \* history: indices of the writes that reached their targets
    undone,     \* history: calls whose journal could not be written
    faults      \* failed operations so far

vars == <<lock, target, temp, pending, journal, jtemp, proc, valid, begun, decided,
          applied, undone, faults>>

FileState == {"none", "part", "full"}
Writes(x) == DOMAIN WritesOf[x]
Down == [at |-> "down", tx |-> NoTx, k |-> 0, left |-> {}, ids |-> {}]

Committing == {"stage", "write", "undo", "jcreate", "jwrite", "jrename", "clear", "apply", "seal"}
Recovering == {"list", "pick", "roll", "rremove"}
Holding == {"pend"} \union Committing \union Recovering
Process == [at : {"down", "refused", "idle", "wait", "rwait"} \union Holding,
            tx : Tx \union {NoTx}, k : Nat, left : SUBSET Tx, ids : SUBSET Id]

TypeOK ==
    /\ lock \in Proc \union {NoProc}
    /\ target \in [Path -> Tx \union {Missing, Old}]
    /\ temp = [x \in Tx |-> temp[x]] /\ applied \in [Tx -> SUBSET Nat]
    /\ \A x \in Tx : temp[x] \in [Writes(x) -> FileState] /\ applied[x] \subseteq Writes(x)
    /\ pending \in [Id -> Tx \union {NoTx}] /\ journal \in [Id -> Tx \union {NoTx}]
    /\ jtemp \in [Tx -> FileState]
    /\ proc \in [Proc -> Process]
    /\ valid \subseteq Tx /\ begun \subseteq Tx /\ decided \in Seq(Tx)
    /\ undone \subseteq Tx /\ faults \in 0..MaxFaults
    /\ \A p \in Proc : lock = p <=> proc[p].at \in Holding

Init ==
    /\ lock = NoProc
    /\ target \in [Path -> {Missing, Old}]
    /\ temp = [x \in Tx |-> [k \in Writes(x) |-> "none"]]
    /\ pending = [i \in Id |-> NoTx]
    /\ journal = [i \in Id |-> NoTx]
    /\ jtemp = [x \in Tx |-> "none"]
    /\ proc = [p \in Proc |-> Down]
    /\ valid = Tx /\ begun = {}
    /\ decided = <<>>
    /\ applied = [x \in Tx |-> {}]
    /\ undone = {}
    /\ faults = 0

Goto(p, at) == proc' = [proc EXCEPT ![p].at = at]
Step(p, at, k) == proc' = [proc EXCEPT ![p].at = at, ![p].k = k]

\* The call returns, with or without an error, and drops the lock.
Return(p) ==
    /\ proc' = [proc EXCEPT ![p] = [Down EXCEPT !.at = "idle"]]
    /\ lock' = NoProc

\* Start-up fails on a recovery error: the application does not run.
Refuse(p) ==
    /\ proc' = [proc EXCEPT ![p] = [Down EXCEPT !.at = "refused"]]
    /\ lock' = NoProc

Fault(n) == faults + n <= MaxFaults /\ faults' = faults + n

Remove(x, ks) ==
    temp' = [temp EXCEPT ![x] = [k \in Writes(x) |-> IF k \in ks THEN "none" ELSE @[k]]]

-----------------------------------------------------------------------------
(* Committing *)

\* FileCoordinator::commit: the lease is compared before any lock is taken.
Begin(p, x) ==
    /\ proc[p].at = "idle"
    /\ x \notin begun /\ x \in valid
    /\ proc' = [proc EXCEPT ![p] = [Down EXCEPT !.at = "wait", !.tx = x]]
    /\ begun' = begun \union {x}
    /\ UNCHANGED <<lock, target, temp, pending, journal, jtemp, valid, decided, applied, undone,
                   faults>>

TakeCommitLock(p) ==
    /\ proc[p].at = "wait" /\ lock = NoProc
    /\ lock' = p
    /\ Goto(p, "pend")
    /\ UNCHANGED <<target, temp, pending, journal, jtemp, valid, begun, decided, applied, undone,
                   faults>>

\* write_pending: announce the temporaries before the first one exists.
WritePending(p) ==
    /\ proc[p].at = "pend"
    /\ \/ /\ pending' = [pending EXCEPT ![IdOf[proc[p].tx]] = proc[p].tx]
          /\ Step(p, "stage", 1)
          /\ UNCHANGED <<lock, faults>>
       \/ Fault(1) /\ Return(p) /\ UNCHANGED pending
    /\ UNCHANGED <<target, temp, journal, jtemp, valid, begun, decided, applied, undone>>

\* stage: create the next temporary file ...
CreateTemp(p) ==
    LET x == proc[p].tx
    IN /\ proc[p].at = "stage"
       /\ temp' = [temp EXCEPT ![x][proc[p].k] = "part"]
       /\ Goto(p, "write")
       /\ UNCHANGED <<lock, target, pending, journal, jtemp, valid, begun, decided, applied, undone,
                      faults>>

\* ... and write it.
WriteTemp(p) ==
    LET x == proc[p].tx
        k == proc[p].k
    IN /\ proc[p].at = "write"
       /\ temp' = [temp EXCEPT ![x][k] = "full"]
       /\ IF k = Len(WritesOf[x]) THEN Step(p, "jcreate", 0) ELSE Step(p, "stage", k + 1)
       /\ UNCHANGED <<lock, target, pending, journal, jtemp, valid, begun, decided, applied, undone,
                      faults>>

\* Either fails: the temporaries that were completed are to be removed.
StageFails(p) ==
    /\ proc[p].at \in {"stage", "write"}
    /\ Fault(1)
    /\ Step(p, "undo", 1)
    /\ UNCHANGED <<lock, target, temp, pending, journal, jtemp, valid, begun, decided, applied,
                   undone>>

\* discard: one completed temporary at a time; a removal that fails is only logged.
UndoNext(p) ==
    LET x == proc[p].tx
        k == proc[p].k
    IN /\ proc[p].at = "undo" /\ k <= Len(WritesOf[x])
       /\ \/ temp[x][k] = "full" /\ Remove(x, {k}) /\ UNCHANGED faults
          \/ temp[x][k] # "full" /\ UNCHANGED <<temp, faults>>
          \/ temp[x][k] = "full" /\ Fault(1) /\ UNCHANGED temp
       /\ Step(p, "undo", k + 1)
       /\ UNCHANGED <<lock, target, pending, journal, jtemp, valid, begun, decided, applied,
                      undone>>

\* Then the announcement is withdrawn, and with it the trace of whatever stayed.
UndoDone(p) ==
    /\ proc[p].at = "undo" /\ proc[p].k > Len(WritesOf[proc[p].tx])
    /\ \/ pending' = [pending EXCEPT ![IdOf[proc[p].tx]] = NoTx] /\ UNCHANGED faults
       \/ Fault(1) /\ UNCHANGED pending
    /\ Return(p)
    /\ UNCHANGED <<target, temp, journal, jtemp, valid, begun, decided, applied, undone>>

\* create_dir_all of a target's directory fails: an early return that cleans nothing.
DirectoryFails(p) ==
    /\ proc[p].at = "stage"
    /\ Fault(1) /\ Return(p)
    /\ UNCHANGED <<target, temp, pending, journal, jtemp, valid, begun, decided, applied, undone>>

\* record_intent: the journal is a temporary file first, in the same directory ...
CreateJournal(p) ==
    /\ proc[p].at = "jcreate"
    /\ jtemp' = [jtemp EXCEPT ![proc[p].tx] = "part"]
    /\ Goto(p, "jwrite")
    /\ UNCHANGED <<lock, target, temp, pending, journal, valid, begun, decided, applied, undone,
                   faults>>

WriteJournal(p) ==
    /\ proc[p].at = "jwrite"
    /\ jtemp' = [jtemp EXCEPT ![proc[p].tx] = "full"]
    /\ Goto(p, "jrename")
    /\ UNCHANGED <<lock, target, temp, pending, journal, valid, begun, decided, applied, undone,
                   faults>>

\* ... and the rename decides the transaction.
Decide(p) ==
    LET x == proc[p].tx
    IN /\ proc[p].at = "jrename"
       /\ jtemp' = [jtemp EXCEPT ![x] = "none"]
       /\ journal' = [journal EXCEPT ![IdOf[x]] = x]
       /\ decided' = Append(decided, x)
       /\ Goto(p, "clear")
       /\ UNCHANGED <<lock, target, temp, pending, valid, begun, applied, undone,
                   faults>>

\* The journal cannot be written.  A failed write or sync leaves its temporary file,
\* complete or not; a failed rename removes it, unless that fails as well.
DecideFails(p) ==
    LET x == proc[p].tx
    IN /\ \/ proc[p].at = "jcreate" /\ Fault(1) /\ UNCHANGED jtemp
          \/ /\ proc[p].at = "jwrite" /\ Fault(1)
             /\ \E left \in {"part", "full"} : jtemp' = [jtemp EXCEPT ![x] = left]
          \/ proc[p].at = "jrename" /\ Fault(1) /\ jtemp' = [jtemp EXCEPT ![x] = "none"]
          \/ proc[p].at = "jrename" /\ Fault(2) /\ UNCHANGED jtemp
       /\ undone' = undone \union {x}
       /\ Step(p, "undo", 1)
       /\ UNCHANGED <<lock, target, temp, pending, journal, valid, begun, decided, applied>>

\* clear_pending; a failure is ignored.
ClearPending(p) ==
    /\ proc[p].at = "clear"
    /\ \/ pending' = [pending EXCEPT ![IdOf[proc[p].tx]] = NoTx] /\ UNCHANGED faults
       \/ Fault(1) /\ UNCHANGED pending
    /\ Step(p, "apply", 1)
    /\ UNCHANGED <<lock, target, temp, journal, jtemp, valid, begun, decided, applied, undone>>

\* One write of apply: rename the temporary, unless that happened before.
RenameNext(p) ==
    LET x == proc[p].tx
        k == proc[p].k
    IN /\ \/ /\ temp[x][k] # "none"
             /\ temp' = [temp EXCEPT ![x][k] = "none"]
             /\ target' = [target EXCEPT ![WritesOf[x][k]] = x]
             /\ applied' = [applied EXCEPT ![x] = @ \union {k}]
          \/ /\ temp[x][k] = "none" /\ target[WritesOf[x][k]] # Missing
             /\ UNCHANGED <<temp, target, applied>>
       /\ Step(p, IF k < Len(WritesOf[x]) THEN proc[p].at
                  ELSE IF proc[p].at = "apply" THEN "seal" ELSE "rremove", k + 1)
       /\ UNCHANGED <<lock, pending, journal, jtemp, valid, begun, decided, undone, faults>>

Apply(p) == proc[p].at = "apply" /\ RenameNext(p)

\* Fault: the error path removes the journal as well.
ApplyFailsSealed(p) ==
    /\ proc[p].at = "apply"
    /\ Fault(1) /\ Return(p)
    /\ journal' = [journal EXCEPT ![IdOf[proc[p].tx]] = NoTx]
    /\ UNCHANGED <<target, temp, pending, jtemp, valid, begun, decided, applied, undone>>

\* A rename fails midway: the error is returned and the journal stays.
ApplyFails(p) ==
    /\ proc[p].at = "apply"
    /\ Fault(1) /\ Return(p)
    /\ UNCHANGED <<target, temp, pending, journal, jtemp, valid, begun, decided, applied, undone>>

Seal(p) ==
    /\ proc[p].at = "seal"
    /\ \/ journal' = [journal EXCEPT ![IdOf[proc[p].tx]] = NoTx] /\ UNCHANGED faults
       \/ Fault(1) /\ UNCHANGED journal
    /\ Return(p)
    /\ UNCHANGED <<target, temp, pending, jtemp, valid, begun, decided, applied, undone>>

-----------------------------------------------------------------------------
(* Recovering *)

\* recover_shared_transactions runs before the application is up.
Start(p) ==
    /\ proc[p].at \in {"down", "refused"}
    /\ Goto(p, "rwait")
    /\ UNCHANGED <<lock, target, temp, pending, journal, jtemp, valid, begun, decided, applied, undone,
                   faults>>

TakeRecoverLock(p) ==
    /\ proc[p].at = "rwait" /\ lock = NoProc
    /\ lock' = p
    /\ Goto(p, "list")
    /\ UNCHANGED <<target, temp, pending, journal, jtemp, valid, begun, decided, applied, undone,
                   faults>>

\* JournalStore::list parses every file of the directory, its temporaries included.
Listed ==
    {x \in Tx : jtemp[x] = "full"} \union {journal[i] : i \in {i \in Id : journal[i] # NoTx}}

Jammed == \E x \in Tx : jtemp[x] = "part"

List(p) ==
    /\ proc[p].at = "list"
    /\ ~ Jammed
    /\ proc' = [proc EXCEPT ![p] = [Down EXCEPT !.at = "pick", !.left = Listed,
                                               !.ids = {IdOf[x] : x \in Listed}]]
    /\ UNCHANGED <<lock, target, temp, pending, journal, jtemp, valid, begun, decided, applied, undone,
                   faults>>

\* A journal that does not parse, or cannot be read, might be a decided
\* transaction: recovery stops, and the start with it (journal_unreadable).
ListFails(p) ==
    /\ proc[p].at = "list"
    /\ \/ Jammed /\ UNCHANGED faults
       \/ Fault(1)
    /\ Refuse(p)
    /\ UNCHANGED <<target, temp, pending, journal, jtemp, valid, begun, decided, applied, undone>>

\* Fault: the newest generation is rolled forward first.
PickNewest(p) ==
    /\ proc[p].at = "pick"
    /\ \E x \in proc[p].left :
         /\ \A y \in proc[p].left : GenOf[y] <= GenOf[x]
         /\ proc' = [proc EXCEPT ![p].at = "roll", ![p].tx = x, ![p].k = 1]
         /\ decided' = IF \E i \in DOMAIN decided : decided[i] = x THEN decided
                       ELSE Append(decided, x)
    /\ UNCHANGED <<lock, target, temp, pending, journal, jtemp, valid, begun, applied, undone,
                   faults>>

\* The oldest generation is rolled forward first.  A complete temporary journal
\* counts: its transaction is decided by being found.
Pick(p) ==
    /\ proc[p].at = "pick"
    /\ \E x \in proc[p].left :
         /\ \A y \in proc[p].left : GenOf[x] <= GenOf[y]
         /\ proc' = [proc EXCEPT ![p].at = "roll", ![p].tx = x, ![p].k = 1]
         /\ decided' = IF \E i \in DOMAIN decided : decided[i] = x THEN decided
                       ELSE Append(decided, x)
    /\ UNCHANGED <<lock, target, temp, pending, journal, jtemp, valid, begun, applied, undone,
                   faults>>

Roll(p) == proc[p].at = "roll" /\ RenameNext(p)

\* A rename fails, or neither the temporary nor the target exists
\* (transaction_data_lost).
RollFails(p) ==
    LET x == proc[p].tx
        k == proc[p].k
    IN /\ proc[p].at = "roll"
       /\ \/ temp[x][k] = "none" /\ target[WritesOf[x][k]] = Missing /\ UNCHANGED faults
          \/ Fault(1)
       /\ Refuse(p)
       /\ UNCHANGED <<target, temp, pending, journal, jtemp, valid, begun, decided, applied, undone>>

\* The transaction is complete; an error keeps the journal and ends the start.
RemoveJournal(p) ==
    LET x == proc[p].tx
    IN /\ proc[p].at = "rremove"
       /\ \/ /\ journal' = [journal EXCEPT ![IdOf[x]] = NoTx]
             /\ proc' = [proc EXCEPT ![p].at = "pick", ![p].tx = NoTx, ![p].k = 0,
                                     ![p].left = @ \ {x}]
             /\ UNCHANGED <<lock, faults>>
          \/ Fault(1) /\ Refuse(p) /\ UNCHANGED journal
       /\ UNCHANGED <<target, temp, pending, jtemp, valid, begun, decided, applied, undone>>

\* Fault: what is announced is discarded before the journal is rolled forward.
DiscardFirst(p) ==
    /\ proc[p].at = "pick"
    /\ \E i \in Id : /\ pending[i] # NoTx
                     /\ Remove(pending[i], Writes(pending[i]))
                     /\ pending' = [pending EXCEPT ![i] = NoTx]
    /\ UNCHANGED <<lock, target, journal, jtemp, proc, valid, begun, decided, applied, undone,
                   faults>>

\* What is announced and was not decided when the journals were listed is
\* discarded, its announcement with it; a removal that fails is only logged.
DiscardPending(p) ==
    /\ proc[p].at = "pick" /\ proc[p].left = {}
    /\ \E i \in Id \ proc[p].ids :
         LET x == pending[i]
         IN /\ x # NoTx
            /\ \/ /\ Remove(x, Writes(x))
                  /\ pending' = [pending EXCEPT ![i] = NoTx]
                  /\ UNCHANGED faults
               \/ /\ Fault(1)
                  /\ \/ Remove(x, Writes(x)) /\ UNCHANGED pending
                     \/ /\ \E k \in Writes(x) : Remove(x, Writes(x) \ {k})
                        /\ pending' = [pending EXCEPT ![i] = NoTx]
            /\ proc' = [proc EXCEPT ![p].ids = @ \union {i}]
    /\ UNCHANGED <<lock, target, journal, jtemp, valid, begun, decided, applied, undone>>

\* discard_orphan_temps: the journal directory's own temporaries go, but for those whose
\* removal fails, which is only logged; the application is up.
EndRecovery(p) ==
    /\ proc[p].at = "pick" /\ proc[p].left = {}
    /\ \A i \in Id \ proc[p].ids : pending[i] = NoTx
    /\ \/ jtemp' = [x \in Tx |-> "none"] /\ UNCHANGED faults
       \/ /\ Fault(1)
          /\ \E kept \in SUBSET Tx :
                jtemp' = [x \in Tx |-> IF x \in kept THEN jtemp[x] ELSE "none"]
    /\ Return(p)
    /\ UNCHANGED <<target, temp, pending, journal, valid, begun, decided, applied, undone>>

\* A directory that cannot be read refuses the start, after all was recovered.
EndFails(p) ==
    /\ proc[p].at = "pick" /\ proc[p].left = {}
    /\ \A i \in Id \ proc[p].ids : pending[i] = NoTx
    /\ Fault(1) /\ Refuse(p)
    /\ UNCHANGED <<target, temp, pending, journal, jtemp, valid, begun, decided, applied, undone>>

-----------------------------------------------------------------------------
(* The environment *)

Crash(p) ==
    /\ proc[p].at # "down"
    /\ proc' = [proc EXCEPT ![p] = Down]
    /\ lock' = IF lock = p THEN NoProc ELSE lock
    /\ UNCHANGED <<target, temp, pending, journal, jtemp, valid, begun, decided, applied, undone,
                   faults>>

\* The lease a call was made under is given back by its owner, or reclaimed.
LeaseEnds(x) ==
    /\ x \in valid
    /\ valid' = {y \in valid : IdOf[y] # IdOf[x]}
    /\ UNCHANGED <<lock, target, temp, pending, journal, jtemp, proc, begun, decided, applied, undone,
                   faults>>

-----------------------------------------------------------------------------
CommitStep(p) ==
    \/ TakeCommitLock(p) \/ WritePending(p) \/ CreateTemp(p) \/ WriteTemp(p)
    \/ StageFails(p) \/ DirectoryFails(p) \/ UndoNext(p) \/ UndoDone(p)
    \/ CreateJournal(p) \/ WriteJournal(p) \/ Decide(p) \/ DecideFails(p)
    \/ ClearPending(p) \/ Apply(p) \/ ApplyFails(p) \/ Seal(p)

RecoverStep(p) ==
    \/ Start(p) \/ TakeRecoverLock(p) \/ List(p) \/ ListFails(p)
    \/ Pick(p) \/ Roll(p) \/ RollFails(p) \/ RemoveJournal(p)
    \/ DiscardPending(p) \/ EndRecovery(p) \/ EndFails(p)

Next ==
    \/ \E p \in Proc : CommitStep(p) \/ RecoverStep(p) \/ Crash(p)
    \/ \E p \in Proc, x \in Tx : Begin(p, x)
    \/ \E x \in Tx : LeaseEnds(x)

Spec == Init /\ [][Next]_vars

-----------------------------------------------------------------------------
(* Properties *)

Decided(x) == \E i \in DOMAIN decided : decided[i] = x

\* No other call was made under the lease of this one.
Alone(x) == \A y \in begun : IdOf[y] = IdOf[x] => y = x

\* A transaction that reached some of its targets and not yet all is in the journal
\* directory, so that the next start completes it: none is left half applied.
\* Calls whose journal could not be written are left out: their error path removes
\* temporaries while a complete temporary of the journal may stay (DecideFails, Pick);
\* so are calls that share a lease, and with it the file of the journal.
AllOrNothing ==
    \A x \in Tx \ undone : Alone(x) => applied[x] \in {{}, Writes(x)} \/ x \in Listed

\* Nothing reaches a target before the transaction is decided, and what is missing
\* of a journalled one is complete on disk: rolling forward never finds data lost
\* and never renames a half-written file.
JournalIsRedeemable ==
    \A x \in Tx :
        /\ applied[x] # {} => Decided(x)
        /\ journal[IdOf[x]] = x => \A k \in Writes(x) \ applied[x] : temp[x][k] = "full"

\* Of two transactions that one recovery completes, the one with the older lease
\* never overwrites the newer.
NewestLeaseWins ==
    [][\A p \in Proc, q \in Path :
         (proc[p].at = "roll" /\ target'[q] # target[q]) =>
             \A y \in Tx : (/\ target[q] = y /\ Alone(y)
                             /\ IdOf[y] \in proc[p].ids /\ y \notin proc[p].left) =>
                 GenOf[y] <= GenOf[proc[p].tx]]_vars

\* transaction.rs:18 and :421 promise that what a crash leaves of an undecided
\* transaction is discarded, the temporary of its journal included: with working
\* file operations a start goes through.
StartIsNotRefused == faults = 0 => \A p \in Proc : proc[p].at # "refused"
=============================================================================
