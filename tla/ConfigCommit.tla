---------------------------- MODULE ConfigCommit ----------------------------
(***************************************************************************)
(* Serialized configuration commits (core/config_commit.rs).               *)
(*                                                                         *)
(* Instances of the application share config.json, the journal of the      *)
(* commits and the keyring of the system.  A save is an operation with an  *)
(* id of its own, drafted on a snapshot and sent again when its answer was *)
(* lost.  A commit records its intent, writes the new secrets under        *)
(* accounts never used before, replaces config.json, which is the only     *)
(* commit point, and then its receipt.  A start loads the configuration,   *)
(* notes the digest of the file and cleans up accounts nobody refers to.   *)
(***************************************************************************)
EXTENDS Naturals, FiniteSets

CONSTANTS
    Instance,   \* instances of the application
    Op,         \* operation ids (a bound on the saves)
    Account,    \* keyring accounts; each generated name is fresh once
    Legacy,     \* those with a name of an older version (not valid_cleanup_account)
    Keep,       \* 128: newest receipts kept without accounts
    MaxRecords, \* MAX_RECORDS
    MaxExpired, \* the tombstones are saturated (TOMBSTONE_BITS / 2)
    MaxFaults,  \* failing writes, deletions and reads (a bound)
    MaxCrashes, \* (a bound)
    Kinds,      \* kinds of patches drafted
    NoOp, NoAccount, Plain, NoDraft, NoRecord, NoJob, NoDigest

ASSUME ConfigAssumption ==
    /\ NoOp \notin Op /\ NoAccount \notin Account /\ Plain \notin Account /\ NoAccount # Plain
    /\ NoJob \notin Instance /\ Legacy \subseteq Account
    /\ Kinds \subseteq {"page", "prune", "role", "skill", "fonts", "secure"}
    /\ MaxFaults \in Nat /\ MaxCrashes \in Nat /\ Keep \in Nat

\* Shared: the files and the keyring.
VARIABLES
    disk,       \* config.json
    records,    \* the records of credential-commits.json, by operation
    expired,    \* its tombstones
    keyring,    \* what an account holds: nothing, a write cut short, the whole pool
    lock        \* config-transaction.lock

\* Each instance.
VARIABLES
    phase,      \* its start-up
    boot,       \* its starts; with the instance this is boot_id
    mem,        \* AgentCore::cfg
    digest,     \* last_disk_digest
    blocked,    \* recovery_block
    versions,   \* page_version and the version of the role
    job         \* the commit it works on

\* The clients, and the history.
VARIABLES
    draft,      \* what each operation was drafted as, and on what
    told,       \* operations that were answered as saved
    applied,    \* history: operations that reached their commit point
    raced,      \* history: the starts that noted the digest of a file they had not loaded
    defaulted,  \* history: the starts that could not read it and took the default
    faults, crashes

files == <<disk, records, expired, keyring>>
instance == <<phase, boot, mem, digest, blocked, versions>>
clients == <<draft, told>>
vars == <<files, lock, instance, job, clients, applied, raced, defaulted, faults, crashes>>

\* What the properties tell apart in a configuration: who saved it last, which save set
\* its page fields and the model of a role, and where the secrets of its provider are.
Config == [last : Op \union {NoOp}, page : Op \union {NoOp}, role : Op \union {NoOp},
           cred : Account \union {NoAccount, Plain}]

\* A record keeps the operations recorded before it in place of its position.
Record == [accounts : SUBSET Account, committed : BOOLEAN, older : SUBSET Op]

Edits == {"keep", "append", "replace", "clear"}

Draft == [kind : {"page", "prune", "role", "skill", "fonts", "secure"}, edit : Edits,
          boot : Instance \X Nat, version : Nat, base : Config]

Journal == [Op -> Record \union {NoRecord}]

Job == [op : Op, new : Config, account : Account \union {NoAccount}, journal : Journal,
        expired : SUBSET Op, step : {"intent", "secret", "config", "receipt"}]

ASSUME ConfigMarkers == NoRecord \notin Record /\ NoJob \notin Job /\ NoDigest \notin Config

TypeOK ==
    /\ disk \in Config /\ records \in Journal /\ expired \subseteq Op
    /\ keyring \in [Account -> {"none", "part", "full"}]
    /\ lock \in Instance \union {NoJob}
    /\ phase \in [Instance -> {"down", "loaded", "noted", "cleaned", "up"}]
    /\ boot \in [Instance -> Nat]
    /\ mem \in [Instance -> Config] /\ digest \in [Instance -> Config \union {NoDigest}]
    /\ blocked \subseteq Instance
    /\ versions \in [Instance -> [page : Nat, role : Nat]]
    /\ job \in [Instance -> Job \union {NoJob}]
    /\ draft \in [Op -> Draft \union {NoDraft}]
    /\ told \subseteq Op /\ applied \subseteq Op
    /\ raced \subseteq Instance \X Nat /\ defaulted \subseteq Instance \X Nat
    /\ faults \in Nat /\ crashes \in Nat

Blank == [last |-> NoOp, page |-> NoOp, role |-> NoOp, cred |-> NoAccount]

\* A configuration of an earlier version may still hold its keys in plain text, or in an
\* account that no journal knows.
Init ==
    /\ disk \in {[Blank EXCEPT !.cred = c] : c \in Account \union {NoAccount, Plain}}
    /\ records = [o \in Op |-> NoRecord] /\ expired = {}
    /\ keyring = [a \in Account |-> IF a = disk.cred THEN "full" ELSE "none"]
    /\ lock = NoJob
    /\ phase = [i \in Instance |-> "down"]
    /\ boot = [i \in Instance |-> 0]
    /\ mem = [i \in Instance |-> disk] /\ digest = [i \in Instance |-> disk]
    /\ blocked = {} /\ raced = {} /\ defaulted = {}
    /\ versions = [i \in Instance |-> [page |-> 0, role |-> 0]]
    /\ job = [i \in Instance |-> NoJob]
    /\ draft = [o \in Op |-> NoDraft]
    /\ told = {} /\ applied = {}
    /\ faults = 0 /\ crashes = 0

Fault == faults < MaxFaults /\ faults' = faults + 1
Up == {i \in Instance : phase[i] = "up"}
Recorded(j) == {o \in Op : j[o] # NoRecord}
Registered(j) == UNION {j[o].accounts : o \in Recorded(j)}

\* The account of the provider (provider_account).
AccountsOf(c) == {c.cred} \intersect Account

\* A write that reports a failure left the old file, or the new one whose durability is
\* not known (write_journal takes that warning for a failure).
WritesJournal(j, x) == records' = j /\ expired' = x
JournalWriteFails(j, x) ==
    Fault /\ (WritesJournal(j, x) \/ UNCHANGED <<records, expired>>)

-----------------------------------------------------------------------------
(* The start of an instance: bootstrap and setup *)

\* ConfigState::load_from; a file that cannot be read counts as the default configuration.
Load(i) ==
    /\ phase[i] = "down"
    /\ phase' = [phase EXCEPT ![i] = "loaded"]
    /\ boot' = [boot EXCEPT ![i] = @ + 1]
    /\ \/ mem' = [mem EXCEPT ![i] = disk] /\ UNCHANGED <<defaulted, faults>>
       \/ /\ mem' = [mem EXCEPT ![i] = Blank]
          /\ defaulted' = defaulted \union {<<i, boot'[i]>>} /\ Fault
    /\ versions' = [versions EXCEPT ![i] = [page |-> 0, role |-> 0]]
    /\ blocked' = blocked \ {i}
    /\ UNCHANGED <<files, lock, digest, job, clients, applied, raced, crashes>>

\* with_coordination reads the file a second time, for its digest; without one no save
\* will find the file unchanged.
NoteDigest(i) ==
    /\ phase[i] = "loaded"
    /\ phase' = [phase EXCEPT ![i] = "noted"]
    /\ \/ /\ digest' = [digest EXCEPT ![i] = disk]
          /\ raced' = IF disk # mem[i] THEN raced \union {<<i, boot[i]>>} ELSE raced
          /\ UNCHANGED faults
       \/ digest' = [digest EXCEPT ![i] = NoDigest] /\ UNCHANGED raced /\ Fault
    /\ UNCHANGED <<files, lock, boot, mem, blocked, versions, job, clients, applied, defaulted,
                   crashes>>

\* Fault: whatever the record does not call committed is deleted.
CollectUncommitted(j) ==
    UNION {j[o].accounts : o \in {q \in Recorded(j) : ~ j[q].committed}}

\* The registered accounts that config.json does not refer to.
Collectable(j) == Registered(j) \ AccountsOf(disk)

\* recover, under the file lock: accounts nobody refers to are deleted one by one,
\* some in vain ...
RecoverDeletes(i) ==
    /\ phase[i] = "noted" /\ lock = NoJob
    /\ \E gone \in SUBSET Collectable(records) :
        /\ keyring' = [a \in Account |-> IF a \in gone THEN "none" ELSE keyring[a]]
        /\ \/ gone = Collectable(records) /\ UNCHANGED faults
           \/ gone # Collectable(records) /\ Fault
    /\ lock' = i
    /\ phase' = [phase EXCEPT ![i] = "cleaned"]
    /\ UNCHANGED <<disk, records, expired, boot, mem, digest, blocked, versions, job, clients,
                   applied, raced, defaulted, crashes>>

\* Receipts without accounts that are not among the newest become tombstones
\* (compact_journal).
Stale(j) ==
    {o \in Recorded(j) :
        /\ j[o].accounts = {}
        /\ Cardinality({q \in Recorded(j) : q = o \/ o \in j[q].older}) > Keep}
Compacted(j) == [o \in Op |-> IF o \in Stale(j) THEN NoRecord ELSE j[o]]

\* ... and the journal is written without them.  A commit that was cut off after its
\* commit point is found by the operation named in config.json.
RecoverWrites(i) ==
    /\ phase[i] = "cleaned"
    /\ LET settled == [o \in Op |->
               IF records[o] = NoRecord THEN NoRecord
               ELSE [records[o] EXCEPT
                        !.committed = @ \/ disk.last = o,
                        !.accounts = {a \in @ : a \in AccountsOf(disk) \/ keyring[a] # "none"}]]
           gone == expired \union Stale(settled)
       IN  \/ /\ Cardinality(gone) < MaxExpired
              /\ WritesJournal(Compacted(settled), gone) /\ UNCHANGED faults
           \/ JournalWriteFails(Compacted(settled), gone)
           \/ Cardinality(gone) >= MaxExpired /\ UNCHANGED <<records, expired, faults>>
    /\ lock' = NoJob
    /\ phase' = [phase EXCEPT ![i] = "up"]
    /\ UNCHANGED <<disk, keyring, boot, mem, digest, blocked, versions, job, clients, applied,
                   raced, defaulted, crashes>>

\* config.json cannot be read: nothing is deleted, and this instance saves nothing any more.
RecoverRefused(i) ==
    /\ phase[i] = "noted" /\ lock = NoJob /\ Fault
    /\ blocked' = blocked \union {i}
    /\ phase' = [phase EXCEPT ![i] = "up"]
    /\ UNCHANGED <<files, lock, boot, mem, digest, versions, job, clients, applied, raced,
                   defaulted, crashes>>

-----------------------------------------------------------------------------
(* The clients *)

\* A client drafts a save on the snapshot of an instance.
DraftSave(i, o, kind, edit) ==
    /\ phase[i] = "up" /\ draft[o] = NoDraft
    /\ edit # "keep" => kind = "page"
    /\ kind = "secure" => mem[i].cred = Plain
    /\ draft' = [draft EXCEPT ![o] =
           [kind |-> kind, edit |-> edit, boot |-> <<i, boot[i]>>, base |-> mem[i],
            version |-> IF kind = "role" THEN versions[i].role ELSE versions[i].page]]
    /\ UNCHANGED <<files, lock, instance, job, told, applied, raced, defaulted, faults, crashes>>

\* Fault: no commit looks at the file first.
Unchecked(i) == i \notin blocked

\* check_no_external_change and readable_config: the file is the one last seen.
Checked(i) == digest[i] = disk /\ i \notin blocked

\* What replay answers for an operation: it is saved, or it must not be tried again.
Replayed(i, o) == mem[i].last = o \/ (records[o] # NoRecord /\ records[o].committed)

\* Fault: an operation whose receipt is gone counts as new.
NewIfForgotten(i, o) == ~Replayed(i, o) /\ records[o] = NoRecord

Fresh(i, o) == ~Replayed(i, o) /\ records[o] = NoRecord /\ o \notin expired

\* The receipt of an operation that was committed before is repeated.
Replay(i, o) ==
    /\ phase[i] = "up" /\ lock = NoJob /\ draft[o] # NoDraft
    /\ Checked(i)
    /\ Replayed(i, o)
    /\ told' = told \union {o}
    /\ UNCHANGED <<files, lock, instance, job, draft, applied, raced, defaulted, faults, crashes>>

\* A draft is committed only on the version it was made from (check_version).
Current(i, o) ==
    LET d == draft[o] IN
    d.kind \in {"page", "prune", "role"} =>
        /\ d.boot = <<i, boot[i]>>
        /\ d.version = IF d.kind = "role" THEN versions[i].role ELSE versions[i].page

\* Fault: a save of the page brings its own idea of the role along.
PatchedWithRole(i, o) ==
    LET d == draft[o]  c == [mem[i] EXCEPT !.last = o] IN
    CASE d.kind = "page" -> [c EXCEPT !.page = o, !.role = d.base.role]
      [] d.kind = "prune" -> [c EXCEPT !.page = o, !.role = o]
      [] d.kind = "role" -> [c EXCEPT !.role = o]
      [] d.kind = "skill" -> [c EXCEPT !.page = o]
      [] OTHER -> c

\* The patch on the configuration in memory.  A page save keeps the fields that are saved
\* at once (preserve_instant_fields); one that removes the model of the role resets it.
Patched(i, o) ==
    LET d == draft[o]  c == [mem[i] EXCEPT !.last = o] IN
    CASE d.kind = "page" -> [c EXCEPT !.page = o]
      [] d.kind = "prune" -> [c EXCEPT !.page = o, !.role = o]
      [] d.kind = "role" -> [c EXCEPT !.role = o]
      [] d.kind = "skill" -> [c EXCEPT !.page = o]
      [] OTHER -> c

\* A new pool is prepared by an edit that adds keys and whenever keys are still plain.
NeedsAccount(i, o) ==
    draft[o].edit \in {"append", "replace"} \/ (draft[o].edit = "keep" /\ mem[i].cred = Plain)

\* An append reads the old pool first.
Readable(i, o) ==
    draft[o].edit = "append" => \A a \in AccountsOf(mem[i]) : keyring[a] = "full"

\* Fault: the account that is replaced is not registered.
IntentWithoutRetired(i, o, c, a, j) ==
    [accounts |-> {a} \intersect Account, committed |-> FALSE, older |-> Recorded(j)]

\* The record of the intent: the new account, and the old one unless it is registered or
\* its name is not one that the clean-up would accept.
Intent(i, o, c, a, j) ==
    [accounts |-> ({a} \intersect Account)
                    \union ((AccountsOf(mem[i]) \ (AccountsOf(c) \union Legacy)) \ Registered(j)),
     committed |-> FALSE, older |-> Recorded(j)]

\* commit_with up to the intent: everything is checked and prepared before anything is
\* written.  The account is a new UUID, which nothing names yet.
Begin(i, o, a) ==
    /\ phase[i] = "up" /\ lock = NoJob /\ draft[o] # NoDraft
    /\ Checked(i)
    /\ Fresh(i, o) /\ Current(i, o) /\ Readable(i, o)
    /\ IF NeedsAccount(i, o)
       THEN /\ a \in Account \ Legacy /\ keyring[a] = "none" /\ a # disk.cred
            /\ \A n \in Instance : a # mem[n].cred
            /\ \A q \in Recorded(records) : a \notin records[q].accounts
       ELSE a = NoAccount
    /\ LET c == [Patched(i, o) EXCEPT
                   !.cred = IF NeedsAccount(i, o) THEN a
                            ELSE IF draft[o].edit = "clear" THEN NoAccount ELSE @]
           j == Compacted(records)
           gone == expired \union Stale(records)
       IN  /\ Cardinality(gone) < MaxExpired
           /\ Cardinality(Recorded(j)) < MaxRecords
           /\ job' = [job EXCEPT ![i] =
                 [op |-> o, new |-> c, account |-> a, step |-> "intent", expired |-> gone,
                  journal |-> [j EXCEPT ![o] = Intent(i, o, c, a, j)]]]
    /\ lock' = i
    /\ UNCHANGED <<files, instance, clients, applied, raced, defaulted, faults, crashes>>

\* config.json cannot be read before a commit: the instance saves nothing any more.
Unreadable(i) ==
    /\ phase[i] = "up" /\ lock = NoJob /\ i \notin blocked /\ Fault
    /\ blocked' = blocked \union {i}
    /\ UNCHANGED <<files, lock, phase, boot, mem, digest, versions, job, clients, applied, raced,
                   defaulted, crashes>>

-----------------------------------------------------------------------------
(* The commit, under the file lock *)

At(i, step) == job[i] # NoJob /\ job[i].step = step
Goto(i, step) == job' = [job EXCEPT ![i].step = step]
Stop(i) == job' = [job EXCEPT ![i] = NoJob] /\ lock' = NoJob

\* The intent reaches the disk before any secret does; a failure ends the commit.
WriteIntent(i) ==
    /\ At(i, "intent")
    /\ \/ /\ WritesJournal(job[i].journal, job[i].expired)
          /\ Goto(i, IF job[i].account = NoAccount THEN "config" ELSE "secret")
          /\ UNCHANGED <<lock, faults>>
       \/ JournalWriteFails(job[i].journal, job[i].expired) /\ Stop(i)
    /\ UNCHANGED <<disk, keyring, instance, clients, applied, raced, defaulted, crashes>>

\* discard_candidates: a deletion that fails is left to the next start.
Discarded(i) ==
    /\ Stop(i)
    /\ \/ job[i].account = NoAccount /\ UNCHANGED keyring
       \/ /\ job[i].account # NoAccount
          /\ \E left \in {"none", "part", "full"} :
                keyring' = [keyring EXCEPT ![job[i].account] = left]

\* The pool is written and read back.
WriteSecret(i) ==
    /\ At(i, "secret")
    /\ \/ /\ keyring' = [keyring EXCEPT ![job[i].account] = "full"]
          /\ Goto(i, "config") /\ UNCHANGED <<lock, faults>>
       \/ Fault /\ Discarded(i)
    /\ UNCHANGED <<disk, records, expired, instance, clients, applied, raced, defaulted, crashes>>

\* config.json is replaced: the commit point.  What was written is published at once.
WriteConfig(i) ==
    /\ At(i, "config")
    /\ LET c == job[i].new  old == mem[i] IN
       /\ disk' = c
       /\ digest' = [digest EXCEPT ![i] = c]
       /\ mem' = [mem EXCEPT ![i] = c]
       /\ versions' = [versions EXCEPT ![i] =
             [page |-> @.page + IF <<c.page, c.cred>> # <<old.page, old.cred>> THEN 1 ELSE 0,
              role |-> @.role + IF c.role # old.role THEN 1 ELSE 0]]
       /\ applied' = applied \union {job[i].op}
    /\ Goto(i, "receipt")
    /\ UNCHANGED <<records, expired, keyring, lock, phase, boot, blocked, clients, raced,
                   defaulted, faults, crashes>>

\* It cannot be replaced: the candidates are discarded and nothing has changed.
WriteConfigFails(i) ==
    /\ At(i, "config") /\ Fault
    /\ Discarded(i)
    /\ UNCHANGED <<disk, records, expired, instance, clients, applied, raced, defaulted, crashes>>

\* The receipt is saved, or left for later with a warning; it is answered either way.  The
\* answer may be lost: clients send operations again whatever they were told.
WriteReceipt(i) ==
    /\ At(i, "receipt")
    /\ LET o == job[i].op
           j == [job[i].journal EXCEPT ![o].committed = TRUE]
       IN  /\ \/ WritesJournal(j, job[i].expired) /\ UNCHANGED faults
              \/ JournalWriteFails(j, job[i].expired)
           /\ told' = told \union {o}
    /\ Stop(i)
    /\ UNCHANGED <<disk, keyring, instance, draft, applied, raced, defaulted, crashes>>

\* The process ends at any moment; the system drops its lock.
Crash(i) ==
    /\ phase[i] # "down" /\ crashes < MaxCrashes
    /\ crashes' = crashes + 1
    /\ phase' = [phase EXCEPT ![i] = "down"]
    /\ job' = [job EXCEPT ![i] = NoJob]
    /\ lock' = IF lock = i THEN NoJob ELSE lock
    /\ \/ UNCHANGED keyring
       \/ At(i, "secret") /\ keyring' \in {[keyring EXCEPT ![job[i].account] = w] : w \in {"part", "full"}}
    /\ UNCHANGED <<disk, records, expired, boot, mem, digest, blocked, versions, clients, applied,
                   raced, defaulted, faults>>

-----------------------------------------------------------------------------
Next ==
    \E i \in Instance :
        \/ Load(i) \/ NoteDigest(i) \/ RecoverDeletes(i) \/ RecoverWrites(i) \/ RecoverRefused(i)
        \/ \E o \in Op, kind \in Kinds, edit \in Edits : DraftSave(i, o, kind, edit)
        \/ \E o \in Op : Replay(i, o)
        \/ \E o \in Op, a \in Account \union {NoAccount} : Begin(i, o, a)
        \/ Unreadable(i)
        \/ WriteIntent(i) \/ WriteSecret(i) \/ WriteConfig(i) \/ WriteConfigFails(i)
        \/ WriteReceipt(i) \/ Crash(i)

Spec == Init /\ [][Next]_vars
-----------------------------------------------------------------------------
(* Properties *)

\* The secrets that the saved configuration refers to are in the keyring, complete, at
\* every moment: whatever fails or crashes, the last configuration stays usable.  It takes
\* that every start had in memory the file whose digest it noted (ExternalChangeIsSeen).
SecretsAvailable == raced = {} => \A a \in AccountsOf(disk) : keyring[a] = "full"

\* No secret is lost track of: what is in the keyring is referred to by the configuration
\* or registered for the clean-up, since accounts are never enumerated.  It takes that no
\* start fell back to the default configuration, which knows no accounts, and then noted
\* the digest of the file; and the accounts of older versions are kept on purpose.
SecretsRegistered ==
    defaulted \intersect raced = {} => \A a \in Account \ Legacy :
        keyring[a] # "none" => a \in AccountsOf(disk) \/ a \in Registered(records)

\* An operation is carried out once at most, however often it is sent again, to
\* whichever instance, after whatever crash, and after its receipt was compacted.
AtMostOnce == [][ \A i \in Instance, o \in Op :
                     (At(i, "config") /\ job[i].op = o /\ disk' # disk) => o \notin applied ]_vars

\* A save replaces a value only by its own: a draft made from an older page is refused, and
\* a page save does not bring an old role back.
NothingReverted ==
    [][ \A i \in Instance : (At(i, "config") /\ mem'[i] # mem[i]) =>
            LET o == job[i].op IN
            /\ mem'[i].page \in {mem[i].page, o}
            /\ mem'[i].role \in {mem[i].role, o}
            /\ draft[o].kind \in {"page", "prune"} => draft[o].base.page = mem[i].page
            /\ draft[o].kind = "role" => draft[o].base.role = mem[i].role ]_vars

\* A save does not overwrite what another instance has saved meanwhile, except in a start
\* that had not in memory the file whose digest it noted, because it read two versions or
\* because only the second reading succeeded.
NoBlindOverwrite ==
    [][ \A i \in Instance :
            At(i, "config") /\ disk' # disk => disk = mem[i] \/ <<i, boot[i]>> \in raced ]_vars

\* ... the exception must not be there: a commit is checked against the file on disk.
ExternalChangeIsSeen ==
    [][ \A i \in Instance : At(i, "config") /\ disk' # disk => disk = mem[i] ]_vars
-----------------------------------------------------------------------------
(* The inductive invariant *)

\* Whoever is in the middle of a commit or of the clean-up has the file lock, and commits
\* on the file it last saw.
Locked ==
    \A i \in Instance :
        /\ phase[i] = "cleaned" => lock = i
        /\ job[i] # NoJob => lock = i /\ phase[i] = "up" /\ digest[i] = disk

\* The file last seen is the configuration in memory.
InSync ==
    \A i \in Instance :
        phase[i] \in {"noted", "cleaned", "up"} =>
            digest[i] \in {mem[i], NoDigest} \/ <<i, boot[i]>> \in raced

\* An operation that reached its commit point leaves a trace for ever, and a receipt or
\* the answer to a client stands for an operation that did.
Remembered ==
    /\ applied \subseteq Recorded(records) \union expired
    /\ \A o \in Recorded(records) : records[o].committed => o \in applied
    /\ {disk.last} \union {mem[i].last : i \in Instance} \subseteq applied \union {NoOp}
    /\ told \subseteq applied

\* A start that took the default configuration does not know the file.
Deaf(i) ==
    /\ phase[i] # "down" /\ <<i, boot[i]>> \in defaulted
    /\ phase[i] # "loaded" => digest[i] = NoDigest

\* A secret that no record names is the one everybody refers to who may save.
Traced ==
    defaulted \intersect raced = {} =>
        \A a \in Account \ Legacy : keyring[a] # "none" /\ a \notin Registered(records) =>
            /\ disk.cred = a
            /\ \A i \in Instance : phase[i] # "down" => mem[i].cred = a \/ Deaf(i)

\* What a commit is going to write.
Prepared(b, m) ==
    /\ b.op \notin applied /\ b.new.last = b.op
    /\ b.new.cred \in {b.account, m.cred, NoAccount}
    /\ AccountsOf(m) \ (AccountsOf(b.new) \union Legacy) \subseteq Registered(b.journal)
    /\ b.account \in Account => b.account # disk.cred
    /\ b.step = "config" /\ b.account \in Account => keyring[b.account] = "full"

\* The journal a commit writes says no less than the one it read.
Extends(b) ==
    /\ Registered(records) \subseteq Registered(b.journal)
    /\ Recorded(records) \union expired \subseteq Recorded(b.journal) \union b.expired
    /\ \A o \in Recorded(b.journal) : b.journal[o].committed => o \in applied

JobsPrepared ==
    \A i \in Instance : job[i] # NoJob =>
        /\ job[i].journal[job[i].op] # NoRecord
        /\ job[i].account \in Account => job[i].account \in job[i].journal[job[i].op].accounts
        /\ job[i].step = "intent" => Extends(job[i])
        /\ job[i].step # "intent" => records = job[i].journal /\ expired = job[i].expired
        /\ job[i].step # "receipt" => Prepared(job[i], mem[i])
        /\ job[i].step = "receipt" => job[i].op \in applied
        /\ job[i].step = "secret" => job[i].account \in Account

IInv == TypeOK /\ Locked /\ InSync /\ Remembered /\ Traced /\ JobsPrepared /\ SecretsAvailable
=============================================================================
