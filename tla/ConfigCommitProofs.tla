------------------------- MODULE ConfigCommitProofs -------------------------
(***************************************************************************)
(* Proofs about ConfigCommit: the secrets of the saved configuration stay  *)
(* available, none is lost track of, an operation is carried out once, and *)
(* a save overwrites nothing unseen, for any number of instances,          *)
(* operations, accounts, failures and crashes.                             *)
(***************************************************************************)
EXTENDS ConfigCommit, TLAPS

USE ConfigAssumption, ConfigMarkers DEF files, instance, clients, Fault

\* A draft that still has the version of its instance was made on what the instance has.
Drafted ==
    \A o \in Op, i \in Instance : draft[o] # NoDraft /\ draft[o].boot[1] = i =>
        /\ draft[o].boot[2] <= boot[i]
        /\ draft[o].boot[2] = boot[i] =>
             /\ draft[o].kind \in {"page", "prune"} =>
                  /\ draft[o].version <= versions[i].page
                  /\ draft[o].version = versions[i].page => draft[o].base.page = mem[i].page
             /\ draft[o].kind = "role" =>
                  /\ draft[o].version <= versions[i].role
                  /\ draft[o].version = versions[i].role => draft[o].base.role = mem[i].role

\* A commit under way was checked against the versions, and changes what it says it does.
JobsAreCurrent ==
    \A i \in Instance, o \in Op :
        job[i] # NoJob /\ job[i].step # "receipt" /\ job[i].op = o =>
            /\ draft[o] # NoDraft /\ Current(i, o)
            /\ job[i].new.page \in {mem[i].page, o}
            /\ job[i].new.role \in {mem[i].role, o}

LEMMA RegisteredIs ==
    ASSUME NEW j, NEW a
    PROVE  a \in Registered(j) <=> \E o \in Op : j[o] # NoRecord /\ a \in j[o].accounts
BY Zenon DEF Registered, Recorded

\* Whoever has the file lock is alone with a commit or a clean-up.
LEMMA Alone ==
    ASSUME Locked
    PROVE  /\ lock = NoJob => \A n \in Instance : job[n] = NoJob /\ phase[n] # "cleaned"
           /\ \A i, n \in Instance : (job[i] # NoJob \/ phase[i] = "cleaned") /\ n # i =>
                 job[n] = NoJob /\ phase[n] # "cleaned"
BY DEF Locked

\* A commit moves on to another step and is otherwise as it was.
LEMMA GotoIs ==
    ASSUME TypeOK, NEW i \in Instance, job[i] # NoJob,
           NEW s \in {"intent", "secret", "config", "receipt"}, Goto(i, s)
    PROVE  /\ job' \in [Instance -> Job \union {NoJob}]
           /\ job'[i] # NoJob /\ job'[i].step = s
           /\ job'[i].op = job[i].op /\ job'[i].new = job[i].new
           /\ job'[i].account = job[i].account
           /\ job'[i].journal = job[i].journal /\ job'[i].expired = job[i].expired
           /\ \A n \in Instance : n # i => job'[n] = job[n]
<1> DEFINE b == job[i]
           c == [b EXCEPT !.step = s]
<1>1. b \in Job
  BY DEF TypeOK
<1>2. c \in Job /\ c.step = s /\ c.op = b.op /\ c.new = b.new /\ c.account = b.account
      /\ c.journal = b.journal /\ c.expired = b.expired
  <2> HIDE DEF b
  <2> QED BY <1>1 DEF Job
<1>3. job' = [job EXCEPT ![i] = c]
  BY DEF Goto
<1> HIDE DEF b, c
<1>4. job'[i] = c /\ \A n \in Instance : n # i => job'[n] = job[n]
  BY <1>3 DEF TypeOK
<1>5. job' \in [Instance -> Job \union {NoJob}]
  BY <1>2, <1>3 DEF TypeOK
<1> QED
  BY <1>2, <1>4, <1>5 DEF b

\* A commit ends.
LEMMA StopIs ==
    ASSUME TypeOK, NEW i \in Instance, Stop(i)
    PROVE  /\ job' \in [Instance -> Job \union {NoJob}]
           /\ job'[i] = NoJob /\ lock' = NoJob
           /\ \A n \in Instance : n # i => job'[n] = job[n]
BY DEF TypeOK, Stop

\* Compaction drops only records without accounts, and remembers their operations.
LEMMA CompactedIs ==
    ASSUME NEW j \in Journal
    PROVE  /\ Compacted(j) \in Journal
           /\ Stale(j) \subseteq Op
           /\ \A a : a \in Registered(Compacted(j)) <=> a \in Registered(j)
           /\ Recorded(j) \subseteq Recorded(Compacted(j)) \union Stale(j)
           /\ \A o \in Op : Compacted(j)[o] \in {j[o], NoRecord}
<1> DEFINE c == Compacted(j)
<1>1. /\ c \in Journal /\ Stale(j) \subseteq Op
      /\ \A o \in Op : c[o] = IF o \in Stale(j) THEN NoRecord ELSE j[o]
  BY DEF Compacted, Journal, Stale, Recorded
<1>2. \A o \in Op : o \in Stale(j) => j[o] # NoRecord /\ j[o].accounts = {}
  BY DEF Stale, Recorded
<1> HIDE DEF c
<1>3. ASSUME NEW a
      PROVE  a \in Registered(c) <=> a \in Registered(j)
  BY <1>1, <1>2, RegisteredIs
<1>4. Recorded(j) \subseteq Recorded(c) \union Stale(j)
  BY <1>1 DEF Recorded
<1> QED
  BY <1>1, <1>3, <1>4 DEF c

LEMMA PatchedIs ==
    ASSUME NEW i \in Instance, NEW o \in Op, mem[i] \in Config
    PROVE  /\ Patched(i, o) \in Config /\ Patched(i, o).last = o /\ Patched(i, o).cred = mem[i].cred
           /\ Patched(i, o).page \in {mem[i].page, o} /\ Patched(i, o).role \in {mem[i].role, o}
<1> DEFINE m == mem[i]
           Sound(c) == /\ c \in Config /\ c.last = o /\ c.cred = m.cred
                       /\ c.page \in {m.page, o} /\ c.role \in {m.role, o}
<1>1. LET c == [m EXCEPT !.last = o] IN
        /\ Sound(c)
        /\ Sound([c EXCEPT !.page = o])
        /\ Sound([c EXCEPT !.role = o])
        /\ Sound([c EXCEPT !.page = o, !.role = o])
  <2>1. m \in Config
    OBVIOUS
  <2> HIDE DEF m
  <2> QED BY <2>1 DEF Config
<1> QED
  BY <1>1 DEF Patched

LEMMA InitHolds == Init => IInv
<1> SUFFICES ASSUME Init PROVE IInv
  OBVIOUS
<1>1. disk \in Config /\ disk.last = NoOp
  BY DEF Init, Blank, Config
<1>2. TypeOK
  BY <1>1 DEF Init, TypeOK, Journal
<1>3. Locked /\ InSync /\ JobsPrepared
  BY DEF Init, Locked, InSync, JobsPrepared
<1>4. Remembered
  BY <1>1 DEF Init, Remembered, Recorded
<1>5. Traced /\ SecretsAvailable
  BY <1>1 DEF Init, Traced, Deaf, SecretsAvailable, AccountsOf
<1> QED
  BY <1>2, <1>3, <1>4, <1>5 DEF IInv

LEMMA LoadKeeps ==
    ASSUME IInv, NEW i \in Instance, Load(i)
    PROVE  IInv'
<1> USE DEF IInv, Load
<1>1. /\ mem' \in [Instance -> Config] /\ faults' \in Nat /\ defaulted' \subseteq Instance \X Nat
      /\ mem'[i].last \in {disk.last, NoOp} /\ \A n \in Instance : n # i => mem'[n] = mem[n]
  BY DEF TypeOK, Blank, Config
<1>TypeOK. TypeOK'
  BY <1>1 DEF TypeOK
<1>Locked. Locked'
  BY DEF Locked, TypeOK
<1>InSync. InSync'
  BY DEF InSync, TypeOK
<1>Remembered. Remembered'
  BY <1>1 DEF Remembered, TypeOK, Recorded
<1>Traced. Traced'
  BY DEF Traced, Deaf, TypeOK, Registered, Recorded
<1>JobsPrepared. JobsPrepared'
  <2>1. \A n \in Instance : job[n] # NoJob => mem'[n] = mem[n]
    BY DEF Locked, TypeOK
  <2> QED
    BY SMTT(30), <2>1 DEF JobsPrepared, Extends, Prepared, Registered, Recorded
<1>SecretsAvailable. SecretsAvailable'
  BY DEF SecretsAvailable, AccountsOf, TypeOK
<1> QED
  BY <1>TypeOK, <1>Locked, <1>InSync, <1>Remembered, <1>Traced, <1>JobsPrepared, <1>SecretsAvailable

LEMMA NoteDigestKeeps ==
    ASSUME IInv, NEW i \in Instance, NoteDigest(i)
    PROVE  IInv'
<1> USE DEF IInv, NoteDigest
<1>TypeOK. TypeOK'
  BY DEF TypeOK
<1>Locked. Locked'
  BY DEF Locked, TypeOK
<1>InSync. InSync'
  BY DEF InSync, TypeOK
<1>Remembered. Remembered'
  BY DEF Remembered, TypeOK, Recorded
<1>Traced. Traced'
  BY DEF Traced, Deaf, TypeOK, Registered, Recorded
<1>JobsPrepared. JobsPrepared'
  BY DEF JobsPrepared, TypeOK, Extends, Prepared, Registered, Recorded
<1>SecretsAvailable. SecretsAvailable'
  BY DEF SecretsAvailable, AccountsOf, TypeOK
<1> QED
  BY <1>TypeOK, <1>Locked, <1>InSync, <1>Remembered, <1>Traced, <1>JobsPrepared, <1>SecretsAvailable

LEMMA RecoverDeletesKeeps ==
    ASSUME IInv, NEW i \in Instance, RecoverDeletes(i)
    PROVE  IInv'
<1> USE DEF IInv, RecoverDeletes
<1>TypeOK. TypeOK'
  BY DEF TypeOK
<1>Locked. Locked'
  BY Alone DEF Locked, TypeOK
<1>InSync. InSync'
  BY DEF InSync, TypeOK
<1>Remembered. Remembered'
  BY DEF Remembered, TypeOK, Recorded
<1>Traced. Traced'
  BY RegisteredIs DEF Traced, Deaf, TypeOK, Collectable, Registered, Recorded
<1>JobsPrepared. JobsPrepared'
  BY Alone DEF JobsPrepared, TypeOK
<1>SecretsAvailable. SecretsAvailable'
  BY DEF SecretsAvailable, Collectable, AccountsOf, TypeOK
<1> QED
  BY <1>TypeOK, <1>Locked, <1>InSync, <1>Remembered, <1>Traced, <1>JobsPrepared, <1>SecretsAvailable

LEMMA RecoverRefusedKeeps ==
    ASSUME IInv, NEW i \in Instance, RecoverRefused(i)
    PROVE  IInv'
<1> USE DEF IInv, RecoverRefused
<1>TypeOK. TypeOK'
  BY DEF TypeOK
<1>Locked. Locked'
  BY DEF Locked, TypeOK
<1>InSync. InSync'
  BY DEF InSync, TypeOK
<1>Remembered. Remembered'
  BY DEF Remembered, TypeOK, Recorded
<1>Traced. Traced'
  BY DEF Traced, Deaf, TypeOK, Registered, Recorded
<1>JobsPrepared. JobsPrepared'
  BY Alone DEF JobsPrepared, TypeOK
<1>SecretsAvailable. SecretsAvailable'
  BY DEF SecretsAvailable, AccountsOf, TypeOK
<1> QED
  BY <1>TypeOK, <1>Locked, <1>InSync, <1>Remembered, <1>Traced, <1>JobsPrepared, <1>SecretsAvailable

LEMMA DraftSaveKeeps ==
    ASSUME IInv, NEW i \in Instance, NEW o \in Op,
           NEW kind \in Kinds, NEW edit \in Edits, DraftSave(i, o, kind, edit)
    PROVE  IInv'
<1> USE DEF IInv, DraftSave
<1>TypeOK. TypeOK'
  BY DEF TypeOK, Draft
<1>Locked. Locked'
  BY DEF Locked, TypeOK
<1>InSync. InSync'
  BY DEF InSync, TypeOK
<1>Remembered. Remembered'
  BY DEF Remembered, TypeOK, Recorded
<1>Traced. Traced'
  BY DEF Traced, Deaf, TypeOK, Registered, Recorded
<1>JobsPrepared. JobsPrepared'
  BY SMTT(60) DEF JobsPrepared, Extends, Prepared, Registered, Recorded, AccountsOf
<1>SecretsAvailable. SecretsAvailable'
  BY DEF SecretsAvailable, AccountsOf, TypeOK
<1> QED
  BY <1>TypeOK, <1>Locked, <1>InSync, <1>Remembered, <1>Traced, <1>JobsPrepared, <1>SecretsAvailable

LEMMA ReplayKeeps ==
    ASSUME IInv, NEW i \in Instance, NEW o \in Op, Replay(i, o)
    PROVE  IInv'
<1> USE DEF IInv, Replay
<1>TypeOK. TypeOK'
  BY DEF TypeOK
<1>Locked. Locked'
  BY DEF Locked, TypeOK
<1>InSync. InSync'
  BY DEF InSync, TypeOK
<1>Remembered. Remembered'
  BY DEF Remembered, Replayed, TypeOK, Recorded
<1>Traced. Traced'
  BY DEF Traced, Deaf, TypeOK, Registered, Recorded
<1>JobsPrepared. JobsPrepared'
  BY DEF JobsPrepared, TypeOK, Extends, Prepared, Registered, Recorded
<1>SecretsAvailable. SecretsAvailable'
  BY DEF SecretsAvailable, AccountsOf, TypeOK
<1> QED
  BY <1>TypeOK, <1>Locked, <1>InSync, <1>Remembered, <1>Traced, <1>JobsPrepared, <1>SecretsAvailable

LEMMA UnreadableKeeps ==
    ASSUME IInv, NEW i \in Instance, Unreadable(i)
    PROVE  IInv'
<1> USE DEF IInv, Unreadable
<1>TypeOK. TypeOK'
  BY DEF TypeOK
<1>Locked. Locked'
  BY DEF Locked, TypeOK
<1>InSync. InSync'
  BY DEF InSync, TypeOK
<1>Remembered. Remembered'
  BY DEF Remembered, TypeOK, Recorded
<1>Traced. Traced'
  BY DEF Traced, Deaf, TypeOK, Registered, Recorded
<1>JobsPrepared. JobsPrepared'
  BY DEF JobsPrepared, TypeOK, Extends, Prepared, Registered, Recorded
<1>SecretsAvailable. SecretsAvailable'
  BY DEF SecretsAvailable, AccountsOf, TypeOK
<1> QED
  BY <1>TypeOK, <1>Locked, <1>InSync, <1>Remembered, <1>Traced, <1>JobsPrepared, <1>SecretsAvailable

\* What the clean-up makes of a journal: an account goes only when it is empty and not
\* referred to, and the operation of config.json is committed.
LEMMA SettledIs ==
    ASSUME TypeOK, NEW s,
           s = [o \in Op |->
               IF records[o] = NoRecord THEN NoRecord
               ELSE [records[o] EXCEPT
                        !.committed = @ \/ disk.last = o,
                        !.accounts = {a \in @ : a \in AccountsOf(disk) \/ keyring[a] # "none"}]]
    PROVE  /\ s \in Journal
           /\ \A o \in Op : s[o] = NoRecord <=> records[o] = NoRecord
           /\ \A o \in Recorded(records) : s[o].committed => records[o].committed \/ disk.last = o
           /\ \A a : a \in Registered(records) /\ keyring[a] # "none" => a \in Registered(s)
<1>1. ASSUME NEW o \in Op, records[o] # NoRecord
      PROVE  /\ s[o] \in Record
             /\ s[o].committed => records[o].committed \/ disk.last = o
             /\ s[o].accounts = {a \in records[o].accounts : a \in AccountsOf(disk) \/ keyring[a] # "none"}
  <2> DEFINE r == records[o]
             acc == {a \in r.accounts : a \in AccountsOf(disk) \/ keyring[a] # "none"}
             com == r.committed \/ disk.last = o
  <2>1. r \in Record
    BY <1>1 DEF TypeOK, Journal
  <2>2. s[o] = [r EXCEPT !.committed = com, !.accounts = acc]
    BY <1>1
  <2>3. com \in BOOLEAN /\ acc \in SUBSET Account
    BY <2>1 DEF Record
  <2>4. s[o] = [accounts |-> acc, committed |-> com, older |-> r.older]
    <3> HIDE DEF r, acc, com
    <3> QED BY <2>1, <2>2 DEF Record
  <2>5. s[o] \in Record
    <3> HIDE DEF acc, com
    <3> QED BY <2>1, <2>3, <2>4 DEF Record
  <2> QED
    BY <2>4, <2>5
<1>2. ASSUME NEW o \in Op
      PROVE  s[o] = NoRecord <=> records[o] = NoRecord
  BY <1>1
<1>3. s \in Journal
  BY <1>1 DEF Journal
<1>4. ASSUME NEW a, a \in Registered(records), keyring[a] # "none"
      PROVE  a \in Registered(s)
  BY ZenonT(30), <1>1, <1>2, <1>4, RegisteredIs
<1> QED
  BY <1>1, <1>2, <1>3, <1>4 DEF Recorded

\* The clean-up loses no account that still holds a secret, and no trace of an operation.
LEMMA RecoverJournal ==
    ASSUME TypeOK, Remembered, NEW i \in Instance, RecoverWrites(i)
    PROVE  /\ records' \in Journal /\ expired' \subseteq Op /\ faults' \in Nat
           /\ \A a : a \in Registered(records) /\ keyring[a] # "none" => a \in Registered(records')
           /\ Recorded(records) \union expired \subseteq Recorded(records') \union expired'
           /\ \A o \in Recorded(records') : records'[o].committed => o \in applied
<1> DEFINE s == [o \in Op |->
               IF records[o] = NoRecord THEN NoRecord
               ELSE [records[o] EXCEPT
                        !.committed = @ \/ disk.last = o,
                        !.accounts = {a \in @ : a \in AccountsOf(disk) \/ keyring[a] # "none"}]]
<1>1. /\ \/ records' = Compacted(s) /\ expired' = expired \union Stale(s)
         \/ UNCHANGED <<records, expired>>
  BY Zenon DEF RecoverWrites, WritesJournal, JournalWriteFails
<1>e. faults' = faults \/ faults' = faults + 1
  BY Zenon DEF RecoverWrites, WritesJournal, JournalWriteFails
<1>f. faults' \in Nat
  BY <1>e DEF TypeOK
<1>2. /\ s \in Journal
      /\ \A o \in Op : s[o] = NoRecord <=> records[o] = NoRecord
      /\ \A o \in Recorded(records) : s[o].committed => records[o].committed \/ disk.last = o
      /\ \A a : a \in Registered(records) /\ keyring[a] # "none" => a \in Registered(s)
  <2> HIDE DEF s
  <2> QED BY SettledIs DEF s
<1> HIDE DEF s
<1>3. CASE UNCHANGED <<records, expired>>
  BY <1>f, <1>3 DEF TypeOK, Remembered, Registered, Recorded
<1>4. CASE records' = Compacted(s) /\ expired' = expired \union Stale(s)
  <2>1. /\ records' \in Journal /\ Stale(s) \subseteq Op
        /\ \A a : a \in Registered(records') <=> a \in Registered(s)
        /\ Recorded(s) \subseteq Recorded(records') \union Stale(s)
        /\ \A o \in Op : records'[o] \in {s[o], NoRecord}
    BY <1>2, <1>4, CompactedIs
  <2>2. Recorded(s) = Recorded(records)
    BY <1>2 DEF Recorded
  <2>3. \A o \in Recorded(records') : records'[o].committed => o \in applied
    BY <2>1, <2>2, <1>2 DEF Remembered, Recorded, TypeOK
  <2> QED
    BY <2>1, <2>2, <2>3, <1>f, <1>2, <1>4 DEF TypeOK
<1> QED
  BY <1>1, <1>3, <1>4

LEMMA RecoverWritesKeeps ==
    ASSUME IInv, NEW i \in Instance, RecoverWrites(i)
    PROVE  IInv'
<1> USE DEF IInv
<1>TypeOK. TypeOK'
  BY RecoverJournal DEF RecoverWrites, TypeOK
<1>Locked. Locked'
  BY Alone DEF RecoverWrites, Locked, TypeOK
<1>InSync. InSync'
  BY DEF RecoverWrites, InSync, TypeOK
<1>Remembered. Remembered'
  <2>1. /\ records' \in Journal /\ expired' \subseteq Op
        /\ \A a : a \in Registered(records) /\ keyring[a] # "none" => a \in Registered(records')
        /\ Recorded(records) \union expired \subseteq Recorded(records') \union expired'
        /\ \A o \in Recorded(records') : records'[o].committed => o \in applied
    BY RecoverJournal
  <2>2. /\ UNCHANGED <<disk, keyring, mem, digest, boot, raced, defaulted, told, applied>>
        /\ \A n \in Instance : phase'[n] # "down" => phase[n] \notin {"down", "loaded"} \/ phase'[n] = phase[n]
    BY DEF RecoverWrites, TypeOK
  <2> QED
    BY <2>1, <2>2 DEF Remembered
<1>Traced. Traced'
  <2>1. /\ records' \in Journal /\ expired' \subseteq Op
        /\ \A a : a \in Registered(records) /\ keyring[a] # "none" => a \in Registered(records')
        /\ Recorded(records) \union expired \subseteq Recorded(records') \union expired'
        /\ \A o \in Recorded(records') : records'[o].committed => o \in applied
    BY RecoverJournal
  <2>2. /\ UNCHANGED <<disk, keyring, mem, digest, boot, raced, defaulted, told, applied>>
        /\ \A n \in Instance : phase'[n] # "down" => phase[n] \notin {"down", "loaded"} \/ phase'[n] = phase[n]
    BY DEF RecoverWrites, TypeOK
  <2> QED
    BY <2>1, <2>2 DEF Traced, Deaf
<1>JobsPrepared. JobsPrepared'
  BY Alone DEF RecoverWrites, JobsPrepared, Locked, TypeOK
<1>SecretsAvailable. SecretsAvailable'
  BY DEF RecoverWrites, SecretsAvailable, AccountsOf
<1> QED
  BY <1>TypeOK, <1>Locked, <1>InSync, <1>Remembered, <1>Traced, <1>JobsPrepared, <1>SecretsAvailable

\* What a save prepares under the lock.
LEMMA BeginIs ==
    ASSUME IInv, NEW i \in Instance, NEW o \in Op, NEW a \in Account \union {NoAccount}, Begin(i, o, a)
    PROVE  /\ job' \in [Instance -> Job \union {NoJob}]
           /\ \A n \in Instance : n # i => job'[n] = job[n]
           /\ job'[i] # NoJob /\ job'[i].op = o /\ job'[i].account = a /\ job'[i].step = "intent"
           /\ job'[i].new.last = o /\ job'[i].new.cred \in {a, mem[i].cred, NoAccount}
           /\ job'[i].new.page \in {mem[i].page, o} /\ job'[i].new.role \in {mem[i].role, o}
           /\ job'[i].journal[o] # NoRecord
           /\ a \in Account => /\ a \in job'[i].journal[o].accounts
                               /\ a # disk.cred
           /\ AccountsOf(mem[i]) \ (AccountsOf(job'[i].new) \union Legacy)
                \subseteq Registered(job'[i].journal)
           /\ Extends(job'[i])
           /\ o \notin applied
<1> DEFINE c == [Patched(i, o) EXCEPT
                   !.cred = IF NeedsAccount(i, o) THEN a
                            ELSE IF draft[o].edit = "clear" THEN NoAccount ELSE @]
           j == Compacted(records)
           gone == expired \union Stale(records)
           r == Intent(i, o, c, a, j)
           k == [j EXCEPT ![o] = r]
           b == [op |-> o, new |-> c, account |-> a, step |-> "intent", expired |-> gone,
                 journal |-> k]
<1> USE DEF IInv
<1>1. job' = [job EXCEPT ![i] = b]
  BY Zenon DEF Begin
<1>2. /\ c \in Config /\ c.last = o /\ c.cred \in {a, mem[i].cred, NoAccount}
      /\ c.page \in {mem[i].page, o} /\ c.role \in {mem[i].role, o}
  <2> DEFINE p == Patched(i, o)
             v == IF NeedsAccount(i, o) THEN a
                  ELSE IF draft[o].edit = "clear" THEN NoAccount ELSE p.cred
  <2>1. p \in Config /\ p.last = o /\ p.cred = mem[i].cred
        /\ p.page \in {mem[i].page, o} /\ p.role \in {mem[i].role, o}
    BY PatchedIs DEF TypeOK
  <2>2. v \in Account \union {NoAccount, Plain} /\ v \in {a, mem[i].cred, NoAccount}
    <3> HIDE DEF p
    <3> QED BY <2>1 DEF Config
  <2>3. c = [p EXCEPT !.cred = v]
    OBVIOUS
  <2>4. [p EXCEPT !.cred = v] \in Config /\ [p EXCEPT !.cred = v].last = o
        /\ [p EXCEPT !.cred = v].cred = v
        /\ [p EXCEPT !.cred = v].page = p.page /\ [p EXCEPT !.cred = v].role = p.role
    <3> HIDE DEF p, v
    <3> QED BY <2>1, <2>2 DEF Config
  <2> QED
    BY <2>1, <2>2, <2>3, <2>4
<1> HIDE DEF c
<1>3. /\ j \in Journal /\ gone \subseteq Op
      /\ \A x : x \in Registered(j) <=> x \in Registered(records)
      /\ Recorded(records) \union expired \subseteq Recorded(j) \union gone
      /\ \A q \in Op : j[q] \in {records[q], NoRecord}
  BY CompactedIs DEF TypeOK
<1> HIDE DEF j, gone
<1>4. /\ r \in Record /\ r.committed = FALSE
      /\ r.accounts = ({a} \intersect Account)
                        \union ((AccountsOf(mem[i]) \ (AccountsOf(c) \union Legacy)) \ Registered(j))
  BY DEF Intent, Record, AccountsOf, Recorded
<1> HIDE DEF r
<1>5. records[o] = NoRecord /\ o \notin expired
  BY DEF Begin, Fresh
<1>6. j[o] = NoRecord
  BY <1>3, <1>5
<1>7. /\ k \in Journal /\ k[o] = r /\ \A q \in Op : q # o => k[q] = j[q]
  BY <1>3, <1>4 DEF Journal
<1> HIDE DEF k
<1>8. r # NoRecord
  BY <1>4
<1>9. \A x : x \in Registered(k) <=> x \in Registered(j) \/ x \in r.accounts
  BY <1>6, <1>7, <1>8, RegisteredIs
<1>10. b \in Job /\ b # NoJob /\ b.op = o /\ b.account = a /\ b.step = "intent"
       /\ b.new = c /\ b.journal = k /\ b.expired = gone
  BY <1>2, <1>3, <1>7 DEF Job
<1> HIDE DEF b
<1>11. /\ job' \in [Instance -> Job \union {NoJob}] /\ job'[i] = b
       /\ \A n \in Instance : n # i => job'[n] = job[n]
  BY <1>1, <1>10 DEF TypeOK
<1>12. AccountsOf(mem[i]) \ (AccountsOf(c) \union Legacy) \subseteq Registered(k)
  BY <1>4, <1>9
<1>13. Extends(b)
  <2>1. Registered(records) \subseteq Registered(k)
    BY <1>3, <1>9
  <2>2. Recorded(records) \union expired \subseteq Recorded(k) \union gone
    BY <1>3, <1>6, <1>7 DEF Recorded
  <2>3. \A q \in Recorded(k) : k[q].committed => q \in applied
    BY <1>3, <1>4, <1>7 DEF Recorded, Remembered
  <2> QED
    BY <2>1, <2>2, <2>3, <1>10 DEF Extends
<1>14. o \notin applied
  BY <1>5 DEF Remembered, Recorded
<1>15. a \in Account => a \in r.accounts /\ a # disk.cred
  BY <1>4 DEF Begin
<1> QED
  BY <1>2, <1>7, <1>8, <1>10, <1>11, <1>12, <1>13, <1>14, <1>15

LEMMA BeginKeeps ==
    ASSUME IInv, NEW i \in Instance, NEW o \in Op, NEW a \in Account \union {NoAccount}, Begin(i, o, a)
    PROVE  IInv'
<1> USE DEF IInv
<1>1. /\ phase[i] = "up" /\ digest[i] = disk /\ lock = NoJob /\ lock' = i
      /\ UNCHANGED <<files, instance, clients, applied, raced, defaulted, faults, crashes>>
  BY DEF Begin, Checked
<1>2. TypeOK'
  BY <1>1, BeginIs DEF TypeOK
<1>3. Locked'
  BY <1>1, BeginIs, Alone DEF Locked
<1>4. InSync' /\ Remembered' /\ Traced' /\ SecretsAvailable'
  BY <1>1 DEF InSync, Remembered, Traced, Deaf, SecretsAvailable, Registered, Recorded
<1>5. JobsPrepared'
  <2> SUFFICES ASSUME NEW n \in Instance, job'[n] # NoJob
               PROVE  (/\ job[n].journal[job[n].op] # NoRecord
                       /\ job[n].account \in Account => job[n].account \in job[n].journal[job[n].op].accounts
                       /\ job[n].step = "intent" => Extends(job[n])
                       /\ job[n].step # "intent" => records = job[n].journal /\ expired = job[n].expired
                       /\ job[n].step # "receipt" => Prepared(job[n], mem[n])
                       /\ job[n].step = "receipt" => job[n].op \in applied
                       /\ job[n].step = "secret" => job[n].account \in Account)'
    BY DEF JobsPrepared
  <2>1. n = i
    BY <1>1, BeginIs, Alone
  <2>2. Extends(job[i])'
    BY <1>1, BeginIs DEF Extends, Registered, Recorded
  <2>3. Prepared(job[i], mem[i])'
    BY <1>1, BeginIs DEF Prepared, AccountsOf, Registered, Recorded
  <2> QED
    BY <2>1, <2>2, <2>3, BeginIs
<1> QED
  BY <1>2, <1>3, <1>4, <1>5

\* The only commit is the one that has the lock.
LEMMA OnlyJob ==
    ASSUME IInv, NEW i \in Instance, job[i] # NoJob
    PROVE  /\ lock = i /\ phase[i] = "up" /\ digest[i] = disk
           /\ \A n \in Instance : n # i => job[n] = NoJob /\ phase[n] # "cleaned"
           /\ job[i] \in Job /\ job[i].journal \in Journal /\ job[i].new \in Config
           /\ job[i].op \in Op /\ job[i].expired \subseteq Op
           /\ job[i].account \in Account \union {NoAccount}
<1>1. job[i] \in Job
  BY DEF IInv, TypeOK
<1>2. /\ job[i].journal \in Journal /\ job[i].new \in Config
      /\ job[i].op \in Op /\ job[i].expired \subseteq Op
      /\ job[i].account \in Account \union {NoAccount}
  BY <1>1 DEF Job
<1> QED
  BY <1>1, <1>2, Alone DEF IInv, Locked

LEMMA WriteIntentKeeps ==
    ASSUME IInv, NEW i \in Instance, WriteIntent(i)
    PROVE  IInv'
<1> DEFINE b == job[i]
<1> USE DEF IInv
<1>1. b # NoJob /\ b.step = "intent"
  BY DEF WriteIntent, At
<1>2. UNCHANGED <<disk, keyring, instance, clients, applied, raced, defaulted, crashes>>
  BY DEF WriteIntent
<1>3. /\ b.journal[b.op] # NoRecord
      /\ b.account \in Account => b.account \in b.journal[b.op].accounts
      /\ Extends(b) /\ Prepared(b, mem[i])
  BY <1>1 DEF JobsPrepared
<1>4. /\ \/ records' = b.journal /\ expired' = b.expired
         \/ UNCHANGED <<records, expired>>
      /\ faults' = faults \/ faults' = faults + 1
  BY Zenon DEF WriteIntent, WritesJournal, JournalWriteFails
<1>5. \/ /\ records' = b.journal /\ expired' = b.expired
         /\ Goto(i, IF b.account = NoAccount THEN "config" ELSE "secret") /\ lock' = lock
      \/ Stop(i)
  BY Zenon DEF WriteIntent, WritesJournal
<1>6. /\ Registered(records) \subseteq Registered(records')
      /\ Recorded(records) \union expired \subseteq Recorded(records') \union expired'
      /\ \A o \in Recorded(records') : records'[o].committed => o \in applied
      /\ records' \in Journal /\ expired' \subseteq Op /\ faults' \in Nat
  BY <1>1, <1>3, <1>4, OnlyJob DEF Extends, TypeOK, Remembered
<1>7. InSync' /\ Remembered' /\ Traced' /\ SecretsAvailable'
  BY <1>2, <1>6 DEF InSync, Remembered, Traced, Deaf, SecretsAvailable
<1>8. CASE Stop(i)
  <2>1. TypeOK'
    BY <1>2, <1>6, <1>8, StopIs DEF TypeOK
  <2>2. Locked' /\ JobsPrepared'
    BY <1>1, <1>2, <1>8, StopIs, OnlyJob DEF Locked, JobsPrepared
  <2> QED
    BY <2>1, <2>2, <1>7
<1>9. CASE /\ records' = b.journal /\ expired' = b.expired
           /\ Goto(i, IF b.account = NoAccount THEN "config" ELSE "secret") /\ lock' = lock
  <2> DEFINE s == IF b.account = NoAccount THEN "config" ELSE "secret"
  <2>1. /\ job' \in [Instance -> Job \union {NoJob}]
        /\ job'[i] # NoJob /\ job'[i].step = s
        /\ job'[i].op = b.op /\ job'[i].new = b.new
        /\ job'[i].account = b.account
        /\ job'[i].journal = b.journal /\ job'[i].expired = b.expired
        /\ \A n \in Instance : n # i => job'[n] = job[n]
    BY <1>1, <1>9, GotoIs
  <2>2. TypeOK'
    BY <1>2, <1>6, <1>9, <2>1 DEF TypeOK
  <2>3. Locked'
    BY <1>1, <1>2, <1>9, <2>1, OnlyJob DEF Locked
  <2>4. Prepared(job[i], mem[i])'
    BY <1>1, <1>2, <1>3, <2>1, OnlyJob DEF Prepared, AccountsOf, Registered, Recorded
  <2>5. JobsPrepared'
    BY <1>1, <1>2, <1>3, <1>9, <2>1, <2>4, OnlyJob DEF JobsPrepared
  <2> QED
    BY <2>2, <2>3, <2>5, <1>7
<1> QED
  BY <1>5, <1>8, <1>9

\* Whatever becomes of the account of an unfinished commit concerns nobody else.
LEMMA CandidateIs ==
    ASSUME IInv, NEW i \in Instance, job[i] # NoJob, job[i].step \in {"secret", "config"},
           keyring' \in [Account -> {"none", "part", "full"}],
           \A a \in Account : a # job[i].account => keyring'[a] = keyring[a],
           UNCHANGED <<disk, records, raced, defaulted, boot, mem, digest>>,
           \A n \in Instance : phase'[n] \in {phase[n], "down"}
    PROVE  Traced' /\ SecretsAvailable'
<1> USE DEF IInv
<1> DEFINE b == job[i]
<1>a. /\ b.journal[b.op] # NoRecord /\ records = b.journal /\ b.op \in Op
      /\ b.account \in Account => b.account \in b.journal[b.op].accounts
      /\ Prepared(b, mem[i])
  BY OnlyJob DEF JobsPrepared
<1>1. b.account \in Account => b.account \in Registered(records) /\ b.account # disk.cred
  BY <1>a, RegisteredIs DEF Prepared
<1>2. Traced'
  BY <1>1 DEF Traced, Deaf, Registered, Recorded
<1>3. SecretsAvailable'
  BY <1>1 DEF SecretsAvailable, AccountsOf
<1> QED BY <1>2, <1>3

LEMMA DiscardedKeeps ==
    ASSUME IInv, NEW i \in Instance, job[i] # NoJob, job[i].step \in {"secret", "config"}, Fault,
           Discarded(i),
           UNCHANGED <<disk, records, expired, instance, clients, applied, raced, defaulted, crashes>>
    PROVE  IInv'
<1> USE DEF IInv
<1>0. \/ keyring' = keyring
      \/ \E left \in {"none", "part", "full"} : keyring' = [keyring EXCEPT ![job[i].account] = left]
  BY Zenon DEF Discarded
<1>1. /\ keyring' \in [Account -> {"none", "part", "full"}]
      /\ \A a \in Account : a # job[i].account => keyring'[a] = keyring[a]
  BY <1>0 DEF TypeOK
<1>2. Traced' /\ SecretsAvailable'
  BY <1>1, CandidateIs
<1>3. Stop(i)
  BY DEF Discarded
<1>4. TypeOK'
  BY <1>1, <1>3, StopIs DEF TypeOK
<1>5. Locked' /\ JobsPrepared'
  BY <1>3, StopIs, OnlyJob DEF Locked, JobsPrepared
<1>6. InSync' /\ Remembered'
  BY DEF InSync, Remembered, Recorded
<1> QED
  BY <1>2, <1>4, <1>5, <1>6

LEMMA WriteSecretKeeps ==
    ASSUME IInv, NEW i \in Instance, WriteSecret(i)
    PROVE  IInv'
<1> DEFINE b == job[i]
<1> USE DEF IInv
<1>1. b # NoJob /\ b.step = "secret"
  BY DEF WriteSecret, At
<1>2. UNCHANGED <<disk, records, expired, instance, clients, applied, raced, defaulted, crashes>>
  BY DEF WriteSecret
<1>3. CASE Fault /\ Discarded(i)
  BY <1>1, <1>2, <1>3, DiscardedKeeps
<1>4. CASE /\ keyring' = [keyring EXCEPT ![b.account] = "full"] /\ Goto(i, "config")
           /\ UNCHANGED <<lock, faults>>
  <2>1. /\ b.journal[b.op] # NoRecord
        /\ b.account \in Account /\ b.account \in b.journal[b.op].accounts
        /\ records = b.journal /\ expired = b.expired /\ Prepared(b, mem[i])
    BY <1>1 DEF JobsPrepared
  <2>2. /\ job' \in [Instance -> Job \union {NoJob}]
        /\ job'[i] # NoJob /\ job'[i].step = "config"
        /\ job'[i].op = b.op /\ job'[i].new = b.new
        /\ job'[i].account = b.account
        /\ job'[i].journal = b.journal /\ job'[i].expired = b.expired
        /\ \A n \in Instance : n # i => job'[n] = job[n]
    BY <1>1, <1>4, GotoIs
  <2>3. /\ keyring' \in [Account -> {"none", "part", "full"}]
        /\ \A a \in Account : a # b.account => keyring'[a] = keyring[a]
        /\ keyring'[b.account] = "full"
    BY <1>4, <2>1 DEF TypeOK
  <2>4. Traced' /\ SecretsAvailable'
    BY <1>1, <1>2, <2>3, CandidateIs
  <2>5. TypeOK'
    BY <1>2, <1>4, <2>2, <2>3 DEF TypeOK
  <2>6. Locked'
    BY <1>1, <1>2, <1>4, <2>2, OnlyJob DEF Locked
  <2>7. InSync' /\ Remembered'
    BY <1>2 DEF InSync, Remembered, Recorded
  <2>8. Prepared(job[i], mem[i])'
    BY <1>2, <2>1, <2>2, <2>3 DEF Prepared, AccountsOf, Registered, Recorded
  <2>9. JobsPrepared'
    BY <1>1, <1>2, <2>1, <2>2, <2>8, OnlyJob DEF JobsPrepared
  <2> QED
    BY <2>4, <2>5, <2>6, <2>7, <2>9
<1> QED
  BY <1>3, <1>4 DEF WriteSecret

LEMMA WriteConfigFailsKeeps ==
    ASSUME IInv, NEW i \in Instance, WriteConfigFails(i)
    PROVE  IInv'
BY DiscardedKeeps DEF WriteConfigFails, At

\* The commit point.
LEMMA WriteConfigKeeps ==
    ASSUME IInv, NEW i \in Instance, WriteConfig(i)
    PROVE  IInv'
<1> DEFINE b == job[i]
           c == b.new
<1> USE DEF IInv
<1>1. b # NoJob /\ b.step = "config"
  BY DEF WriteConfig, At
<1>2. /\ UNCHANGED <<records, expired, keyring, lock, phase, boot, blocked, clients, raced,
                     defaulted, faults, crashes>>
      /\ disk' = c /\ digest' = [digest EXCEPT ![i] = c] /\ mem' = [mem EXCEPT ![i] = c]
      /\ applied' = applied \union {b.op} /\ Goto(i, "receipt")
  BY DEF WriteConfig
<1>3. /\ b.journal[b.op] # NoRecord
      /\ b.account \in Account => b.account \in b.journal[b.op].accounts
      /\ records = b.journal /\ expired = b.expired /\ Prepared(b, mem[i])
  BY <1>1 DEF JobsPrepared
<1>4. /\ job' \in [Instance -> Job \union {NoJob}]
      /\ job'[i] # NoJob /\ job'[i].step = "receipt"
      /\ job'[i].op = b.op /\ job'[i].new = b.new
      /\ job'[i].account = b.account
      /\ job'[i].journal = b.journal /\ job'[i].expired = b.expired
      /\ \A n \in Instance : n # i => job'[n] = job[n]
  BY <1>1, <1>2, GotoIs
<1>5. /\ mem' \in [Instance -> Config] /\ digest' \in [Instance -> Config \union {NoDigest}] /\ disk' \in Config
      /\ mem'[i] = c /\ digest'[i] = c
      /\ \A n \in Instance : n # i => mem'[n] = mem[n] /\ digest'[n] = digest[n]
  BY <1>1, <1>2, OnlyJob DEF TypeOK
<1>6. versions' \in [Instance -> [page : Nat, role : Nat]]
  <2> DEFINE x == IF <<c.page, c.cred>> # <<mem[i].page, mem[i].cred>> THEN 1 ELSE 0
             y == IF c.role # mem[i].role THEN 1 ELSE 0
  <2>1. versions' = [versions EXCEPT ![i] = [page |-> versions[i].page + x, role |-> versions[i].role + y]]
    BY DEF WriteConfig, TypeOK
  <2>2. versions[i].page + x \in Nat /\ versions[i].role + y \in Nat
    BY DEF TypeOK
  <2> QED
    BY <2>1, <2>2 DEF TypeOK
<1>7. TypeOK'
  BY <1>1, <1>2, <1>4, <1>5, <1>6, OnlyJob DEF TypeOK
<1>8. Locked'
  BY <1>1, <1>2, <1>4, <1>5, OnlyJob DEF Locked
<1>9. InSync'
  BY <1>2, <1>5 DEF InSync
<1>10. b.op \in Op /\ b.op \in Recorded(records) /\ c.last = b.op
  BY <1>1, <1>3, OnlyJob DEF Recorded, Prepared
<1>11. Remembered'
  BY <1>2, <1>5, <1>10 DEF Remembered, Recorded
<1>12. Traced'
  <2> SUFFICES ASSUME defaulted \intersect raced = {}, NEW a \in Account \ Legacy,
                      keyring[a] # "none", a \notin Registered(records)
               PROVE  /\ c.cred = a
                      /\ \A n \in Instance : phase[n] # "down" => mem'[n].cred = a \/ Deaf(n)'
    BY <1>2 DEF Traced, Registered, Recorded
  <2>1. disk.cred = a /\ \A n \in Instance : phase[n] # "down" => mem[n].cred = a \/ Deaf(n)
    BY DEF Traced
  <2>2. mem[i].cred = a
    <3>1. phase[i] = "up" /\ digest[i] = disk
      BY <1>1, OnlyJob
    <3>2. ~ Deaf(i)
      BY <3>1 DEF Deaf, TypeOK
    <3> QED
      BY <2>1, <3>1, <3>2
  <2>3. c.cred = a
    BY <1>3, <2>2 DEF Prepared, AccountsOf
  <2>4. \A n \in Instance : n # i /\ Deaf(n) => Deaf(n)'
    BY <1>2, <1>5 DEF Deaf
  <2> QED
    BY <1>5, <2>1, <2>3, <2>4
<1>13. SecretsAvailable'
  <2> SUFFICES ASSUME raced = {}, NEW a \in Account, a = c.cred
               PROVE  keyring[a] = "full"
    BY <1>2 DEF SecretsAvailable, AccountsOf
  <2>1. mem[i] = disk
    BY <1>1, OnlyJob DEF InSync, TypeOK
  <2>2. c.cred \in {b.account, disk.cred, NoAccount}
    BY <1>3, <2>1 DEF Prepared
  <2> QED
    BY <1>1, <1>3, <2>2 DEF Prepared, SecretsAvailable, AccountsOf
<1>14. JobsPrepared'
  BY <1>1, <1>2, <1>3, <1>4, OnlyJob DEF JobsPrepared
<1> QED
  BY <1>7, <1>8, <1>9, <1>11, <1>12, <1>13, <1>14

LEMMA WriteReceiptKeeps ==
    ASSUME IInv, NEW i \in Instance, WriteReceipt(i)
    PROVE  IInv'
<1> DEFINE b == job[i]
           j == [b.journal EXCEPT ![b.op].committed = TRUE]
<1> USE DEF IInv
<1>1. b # NoJob /\ b.step = "receipt" /\ Stop(i)
  BY DEF WriteReceipt, At
<1>2. /\ UNCHANGED <<disk, keyring, instance, draft, applied, raced, defaulted, crashes>>
      /\ told' = told \union {b.op}
  BY DEF WriteReceipt
<1>3. b.journal[b.op] # NoRecord /\ records = b.journal /\ expired = b.expired /\ b.op \in applied
  BY <1>1 DEF JobsPrepared
<1>4. /\ \/ records' = j /\ expired' = b.expired
         \/ UNCHANGED <<records, expired>>
      /\ faults' = faults \/ faults' = faults + 1
  BY Zenon DEF WriteReceipt, WritesJournal, JournalWriteFails
<1>5. /\ j \in Journal /\ j[b.op].committed = TRUE /\ j[b.op] # NoRecord
      /\ j[b.op].accounts = records[b.op].accounts
      /\ \A o \in Op : o # b.op => j[o] = records[o]
  <2> DEFINE r == b.journal[b.op]
             t == [r EXCEPT !.committed = TRUE]
  <2>1. r \in Record
    BY <1>1, <1>3, OnlyJob DEF Journal
  <2>2. t \in Record /\ t.committed = TRUE /\ t.accounts = r.accounts
    <3> HIDE DEF r
    <3> QED BY <2>1 DEF Record
  <2>3. j = [b.journal EXCEPT ![b.op] = t]
    OBVIOUS
  <2> HIDE DEF j, t
  <2>4. /\ j \in Journal /\ j[b.op] = t /\ \A o \in Op : o # b.op => j[o] = b.journal[o]
    BY <1>1, <2>2, <2>3, OnlyJob DEF Journal
  <2> QED
    BY <1>3, <2>2, <2>4
<1> HIDE DEF j
<1>6. /\ records' \in Journal /\ expired' \subseteq Op /\ faults' \in Nat
      /\ \A a : a \in Registered(records) => a \in Registered(records')
      /\ Recorded(records') = Recorded(records) /\ expired' = expired
      /\ \A o \in Recorded(records') : records'[o].committed => o \in applied
  <2>1. CASE UNCHANGED <<records, expired>>
    BY <1>4, <2>1 DEF TypeOK, Remembered, Registered, Recorded
  <2>2. CASE records' = j /\ expired' = b.expired
    <3>1. \A a : a \in Registered(records) => a \in Registered(records')
      BY <1>3, <1>5, <2>2, RegisteredIs
    <3>2. Recorded(records') = Recorded(records)
      BY <1>3, <1>5, <2>2 DEF Recorded
    <3>3. \A o \in Recorded(records') : records'[o].committed => o \in applied
      BY <1>3, <1>5, <2>2, <3>2 DEF Remembered, Recorded
    <3>4. records' \in Journal /\ expired' = expired /\ faults' \in Nat /\ expired' \subseteq Op
      BY <1>3, <1>4, <1>5, <2>2 DEF TypeOK
    <3> QED
      BY <3>1, <3>2, <3>3, <3>4
  <2> QED BY <1>4, <2>1, <2>2
<1>7. TypeOK'
  BY SMTT(30), <1>1, <1>2, <1>6, StopIs, OnlyJob DEF TypeOK
<1>8. Locked' /\ JobsPrepared'
  BY <1>1, <1>2, StopIs, OnlyJob DEF Locked, JobsPrepared
<1>9. InSync' /\ SecretsAvailable'
  BY <1>2 DEF InSync, SecretsAvailable
<1>10. Remembered'
  BY <1>2, <1>3, <1>6 DEF Remembered
<1>11. Traced'
  BY <1>2, <1>6 DEF Traced, Deaf
<1> QED
  BY <1>7, <1>8, <1>9, <1>10, <1>11

LEMMA CrashKeeps ==
    ASSUME IInv, NEW i \in Instance, Crash(i)
    PROVE  IInv'
<1> USE DEF IInv
<1>1. /\ phase' = [phase EXCEPT ![i] = "down"] /\ job' = [job EXCEPT ![i] = NoJob]
      /\ lock' = IF lock = i THEN NoJob ELSE lock
      /\ crashes' = crashes + 1
      /\ UNCHANGED <<disk, records, expired, boot, mem, digest, blocked, versions, clients,
                     applied, raced, defaulted, faults>>
  BY DEF Crash
<1>2. /\ phase' \in [Instance -> {"down", "loaded", "noted", "cleaned", "up"}]
      /\ \A n \in Instance : phase'[n] = IF n = i THEN "down" ELSE phase[n]
      /\ job' \in [Instance -> Job \union {NoJob}]
      /\ \A n \in Instance : job'[n] = IF n = i THEN NoJob ELSE job[n]
  BY <1>1 DEF TypeOK
<1>3. \/ keyring' = keyring
      \/ /\ job[i] # NoJob /\ job[i].step = "secret"
         /\ keyring' \in [Account -> {"none", "part", "full"}]
         /\ \A a \in Account : a # job[i].account => keyring'[a] = keyring[a]
  BY DEF Crash, At, TypeOK
<1>4. TypeOK'
  BY <1>1, <1>2, <1>3 DEF TypeOK
<1>5. Locked'
  BY <1>1, <1>2 DEF Locked
<1>6. InSync' /\ Remembered'
  BY <1>1, <1>2 DEF InSync, Remembered, Recorded
<1>7. Traced' /\ SecretsAvailable'
  <2>1. CASE keyring' = keyring
    BY <1>1, <1>2, <2>1 DEF Traced, Deaf, SecretsAvailable, Registered, Recorded, TypeOK
  <2>2. CASE /\ job[i] # NoJob /\ job[i].step = "secret"
             /\ keyring' \in [Account -> {"none", "part", "full"}]
             /\ \A a \in Account : a # job[i].account => keyring'[a] = keyring[a]
    BY <1>1, <1>2, <2>2, CandidateIs
  <2> QED BY <1>3, <2>1, <2>2
<1>8. JobsPrepared'
  <2>1. CASE keyring' = keyring
    <3>1. \A n \in Instance : n # i /\ Extends(job[n]) => Extends(job[n])'
      BY <1>1, <1>2 DEF Extends, Registered, Recorded
    <3>2. \A n \in Instance : n # i /\ Prepared(job[n], mem[n]) => Prepared(job[n], mem[n])'
      BY <1>1, <1>2, <2>1 DEF Prepared, Registered, Recorded, AccountsOf
    <3> QED
      BY <1>1, <1>2, <3>1, <3>2 DEF JobsPrepared
  <2>2. CASE job[i] # NoJob
    BY <1>2, <2>2, OnlyJob DEF JobsPrepared
  <2> QED
    BY <1>3, <2>1, <2>2
<1> QED
  BY <1>4, <1>5, <1>6, <1>7, <1>8

LEMMA StutterKeeps == IInv /\ UNCHANGED vars => IInv'
<1> SUFFICES ASSUME IInv, UNCHANGED vars PROVE IInv'
  OBVIOUS
<1> USE DEF vars, IInv
<1>1. TypeOK'
  BY DEF TypeOK
<1>2. Locked' /\ InSync' /\ Remembered' /\ Traced' /\ SecretsAvailable'
  BY DEF Locked, InSync, Remembered, Traced, Deaf, SecretsAvailable, Registered, Recorded
<1>3. JobsPrepared'
  BY DEF JobsPrepared, Extends, Prepared, Registered, Recorded
<1> QED
  BY <1>1, <1>2, <1>3

LEMMA NextKeeps == IInv /\ [Next]_vars => IInv'
<1> SUFFICES ASSUME IInv, Next PROVE IInv'
  BY StutterKeeps
<1>1. PICK i \in Instance :
        \/ Load(i) \/ NoteDigest(i) \/ RecoverDeletes(i) \/ RecoverWrites(i) \/ RecoverRefused(i)
        \/ \E o \in Op, kind \in Kinds, edit \in Edits : DraftSave(i, o, kind, edit)
        \/ \E o \in Op : Replay(i, o)
        \/ \E o \in Op, a \in Account \union {NoAccount} : Begin(i, o, a)
        \/ Unreadable(i)
        \/ WriteIntent(i) \/ WriteSecret(i) \/ WriteConfig(i) \/ WriteConfigFails(i)
        \/ WriteReceipt(i) \/ Crash(i)
  BY Zenon DEF Next
<1>2. CASE Load(i) \/ NoteDigest(i) \/ RecoverDeletes(i) \/ RecoverWrites(i) \/ RecoverRefused(i)
  BY <1>2, LoadKeeps, NoteDigestKeeps, RecoverDeletesKeeps, RecoverWritesKeeps, RecoverRefusedKeeps
<1>3. CASE \/ \E o \in Op, kind \in Kinds, edit \in Edits : DraftSave(i, o, kind, edit)
           \/ \E o \in Op : Replay(i, o)
           \/ \E o \in Op, a \in Account \union {NoAccount} : Begin(i, o, a)
           \/ Unreadable(i)
  BY <1>3, DraftSaveKeeps, ReplayKeeps, BeginKeeps, UnreadableKeeps
<1>4. CASE \/ WriteIntent(i) \/ WriteSecret(i) \/ WriteConfig(i) \/ WriteConfigFails(i)
           \/ WriteReceipt(i) \/ Crash(i)
  BY <1>4, WriteIntentKeeps, WriteSecretKeeps, WriteConfigKeeps, WriteConfigFailsKeeps,
     WriteReceiptKeeps, CrashKeeps
<1> QED
  BY <1>1, <1>2, <1>3, <1>4

\* The invariant of configuration commits holds for every number of instances, operations,
\* accounts, failing writes and crashes.
THEOREM CommitInvariant == Spec => []IInv
<1> QED
  BY InitHolds, NextKeeps, PTL DEF Spec

\* The secrets of the saved configuration stay in the keyring, complete: a commit writes new
\* accounts only, and the clean-up spares what config.json refers to.
THEOREM SecretsStayAvailable == Spec => []SecretsAvailable
<1>1. IInv => SecretsAvailable
  BY DEF IInv
<1> QED
  BY <1>1, CommitInvariant, PTL

\* No secret is lost track of: intents are recorded before secrets are written, and accounts
\* that a commit retires are recorded before config.json drops them.  Excepted are the
\* accounts with a name of an older version, and everything once a start has taken the
\* default configuration in place of a file whose digest it noted.
THEOREM NoSecretIsLost == Spec => []SecretsRegistered
<1>1. IInv => SecretsRegistered
  BY DEF IInv, Traced, Deaf, SecretsRegistered, AccountsOf
<1> QED
  BY <1>1, CommitInvariant, PTL

\* An operation is carried out once at most: it leaves a record or a tombstone for ever, and
\* a commit begins only without either.
THEOREM CarriedOutOnce == Spec => AtMostOnce
<1>1. IInv => (\A i \in Instance, o \in Op : At(i, "config") /\ job[i].op = o => o \notin applied)
  BY DEF IInv, JobsPrepared, Prepared, At
<1>2. IInv => (\A i \in Instance, o \in Op :
                 (At(i, "config") /\ job[i].op = o /\ disk' # disk) => o \notin applied)
  BY <1>1
<1> QED
  BY <1>2, CommitInvariant, PTL DEF AtMostOnce

\* A save overwrites nothing that its instance has not seen, unless its start had not in
\* memory the file whose digest it noted: it saw two versions, or only the second reading
\* succeeded and it began with the default configuration.
THEOREM OverwritesWhatItSaw == Spec => NoBlindOverwrite
<1>1. IInv => (\A i \in Instance :
                 At(i, "config") /\ disk' # disk => disk = mem[i] \/ <<i, boot[i]>> \in raced)
  BY DEF IInv, TypeOK, Locked, InSync, At
<1> QED
  BY <1>1, CommitInvariant, PTL DEF NoBlindOverwrite

-----------------------------------------------------------------------------
(* Drafts and versions *)

LEMMA DraftIs ==
    ASSUME TypeOK, NEW o \in Op, draft[o] # NoDraft
    PROVE  /\ draft[o].boot[1] \in Instance /\ draft[o].boot[2] \in Nat
           /\ draft[o].boot = <<draft[o].boot[1], draft[o].boot[2]>>
           /\ draft[o].version \in Nat
BY DEF TypeOK, Draft

\* Only a start and a commit point change what an instance has or its versions, and only
\* drafting makes drafts.
LEMMA Unversioned ==
    ASSUME Next
    PROVE  \/ UNCHANGED <<draft, boot, versions, mem>>
           \/ \E i \in Instance : Load(i) \/ WriteConfig(i)
           \/ \E i \in Instance, o \in Op, kind \in Kinds, edit \in Edits : DraftSave(i, o, kind, edit)
<1>1. PICK i \in Instance :
        \/ Load(i) \/ NoteDigest(i) \/ RecoverDeletes(i) \/ RecoverWrites(i) \/ RecoverRefused(i)
        \/ \E o \in Op, kind \in Kinds, edit \in Edits : DraftSave(i, o, kind, edit)
        \/ \E o \in Op : Replay(i, o)
        \/ \E o \in Op, a \in Account \union {NoAccount} : Begin(i, o, a)
        \/ Unreadable(i)
        \/ WriteIntent(i) \/ WriteSecret(i) \/ WriteConfig(i) \/ WriteConfigFails(i)
        \/ WriteReceipt(i) \/ Crash(i)
  BY Zenon DEF Next
<1>2. CASE NoteDigest(i) \/ RecoverDeletes(i) \/ RecoverWrites(i) \/ RecoverRefused(i)
           \/ Unreadable(i) \/ WriteIntent(i) \/ WriteSecret(i) \/ WriteConfigFails(i)
           \/ WriteReceipt(i) \/ Crash(i)
  BY <1>2 DEF NoteDigest, RecoverDeletes, RecoverWrites, RecoverRefused, Unreadable,
     WriteIntent, WriteSecret, WriteConfigFails, WriteReceipt, Crash
<1>3. CASE \E o \in Op : Replay(i, o)
  BY <1>3 DEF Replay
<1>4. CASE \E o \in Op, a \in Account \union {NoAccount} : Begin(i, o, a)
  BY <1>4 DEF Begin
<1> QED
  BY <1>1, <1>2, <1>3, <1>4

LEMMA DraftedKeeps ==
    ASSUME IInv, Drafted, [Next]_vars
    PROVE  Drafted'
<1>1. TypeOK
  BY DEF IInv
<1>2. CASE UNCHANGED <<draft, boot, versions, mem>>
  BY <1>2 DEF Drafted
<1>3. ASSUME NEW i \in Instance, Load(i) PROVE Drafted'
  <2>1. /\ draft' = draft
        /\ boot[i] \in Nat /\ boot'[i] = boot[i] + 1
        /\ \A n \in Instance : n # i =>
             boot'[n] = boot[n] /\ versions'[n] = versions[n] /\ mem'[n] = mem[n]
    BY <1>1, <1>3 DEF Load, TypeOK
  <2> QED
    BY <1>1, <2>1, DraftIs DEF Drafted
<1>4. ASSUME NEW i \in Instance, WriteConfig(i) PROVE Drafted'
  <2> DEFINE c == job[i].new
             v == [page |-> versions[i].page + (IF <<c.page, c.cred>> # <<mem[i].page, mem[i].cred>> THEN 1 ELSE 0),
                   role |-> versions[i].role + (IF c.role # mem[i].role THEN 1 ELSE 0)]
  <2>1. /\ draft' = draft /\ boot' = boot
        /\ mem' = [mem EXCEPT ![i] = c] /\ versions' = [versions EXCEPT ![i] = v]
    BY <1>4 DEF WriteConfig
  <2>2. versions[i].page \in Nat /\ versions[i].role \in Nat
    BY <1>1 DEF TypeOK
  <2>3. /\ v.page \in Nat /\ v.page >= versions[i].page
        /\ c.page # mem[i].page => v.page > versions[i].page
        /\ v.role \in Nat /\ v.role >= versions[i].role
        /\ c.role # mem[i].role => v.role > versions[i].role
    BY <2>2
  <2> HIDE DEF c, v
  <2>4. /\ mem'[i] = c /\ versions'[i] = v
        /\ \A n \in Instance : n # i => versions'[n] = versions[n] /\ mem'[n] = mem[n]
    BY <1>1, <2>1 DEF TypeOK
  <2>5. ASSUME NEW o \in Op, draft[o] # NoDraft, draft[o].boot[1] = i, draft[o].boot[2] = boot[i]
        PROVE  /\ draft[o].kind \in {"page", "prune"} =>
                    /\ draft[o].version <= v.page
                    /\ draft[o].version = v.page => draft[o].base.page = c.page
               /\ draft[o].kind = "role" =>
                    /\ draft[o].version <= v.role
                    /\ draft[o].version = v.role => draft[o].base.role = c.role
    <3>1. draft[o].version \in Nat
      BY <1>1, <2>5, DraftIs
    <3> QED
      BY <2>2, <2>3, <2>5, <3>1 DEF Drafted
  <2> QED
    BY <2>1, <2>4, <2>5 DEF Drafted
<1>5. ASSUME NEW i \in Instance, NEW o \in Op, NEW kind \in Kinds, NEW edit \in Edits,
             DraftSave(i, o, kind, edit)
      PROVE  Drafted'
  <2> DEFINE d == [kind |-> kind, edit |-> edit, boot |-> <<i, boot[i]>>, base |-> mem[i],
                   version |-> IF kind = "role" THEN versions[i].role ELSE versions[i].page]
  <2>1. draft' = [draft EXCEPT ![o] = d] /\ UNCHANGED <<boot, versions, mem>>
    BY <1>5 DEF DraftSave
  <2>2. /\ draft'[o] = d
        /\ \A q \in Op : q # o => draft'[q] = draft[q]
    BY <1>1, <2>1 DEF TypeOK
  <2>3. /\ d.boot[1] = i /\ d.boot[2] = boot[i] /\ boot[i] \in Nat
        /\ d.kind \in {"page", "prune"} => d.version = versions[i].page /\ d.base.page = mem[i].page
        /\ d.kind = "role" => d.version = versions[i].role /\ d.base.role = mem[i].role
        /\ versions[i].page \in Nat /\ versions[i].role \in Nat
    BY <1>1 DEF TypeOK
  <2> HIDE DEF d
  <2> QED
    BY <2>1, <2>2, <2>3 DEF Drafted
<1>6. CASE UNCHANGED vars
  BY <1>2, <1>6 DEF vars
<1> QED
  BY <1>2, <1>3, <1>4, <1>5, <1>6, Unversioned

\* Commits that are not changed, or that end, on drafts and instances that are not changed.
LEMMA JobsStay ==
    ASSUME JobsAreCurrent,
           \A n \in Instance : job'[n] # NoJob /\ job'[n].step # "receipt" =>
             /\ job[n] # NoJob /\ job[n].step # "receipt"
             /\ job'[n].op = job[n].op /\ job'[n].new = job[n].new
             /\ mem'[n] = mem[n] /\ versions'[n] = versions[n] /\ boot'[n] = boot[n]
             /\ draft[job[n].op] # NoDraft => draft'[job[n].op] = draft[job[n].op]
    PROVE  JobsAreCurrent'
<1> SUFFICES ASSUME NEW i \in Instance, NEW o \in Op,
                    job'[i] # NoJob, job'[i].step # "receipt", job'[i].op = o
             PROVE  /\ draft'[o] # NoDraft /\ Current(i, o)'
                    /\ job'[i].new.page \in {mem'[i].page, o}
                    /\ job'[i].new.role \in {mem'[i].role, o}
  BY DEF JobsAreCurrent
<1>1. /\ job[i] # NoJob /\ job[i].step # "receipt" /\ job[i].op = o
      /\ job'[i].new = job[i].new
      /\ mem'[i] = mem[i] /\ versions'[i] = versions[i] /\ boot'[i] = boot[i]
      /\ draft[o] # NoDraft => draft'[o] = draft[o]
  OBVIOUS
<1>2. /\ draft[o] # NoDraft /\ Current(i, o)
      /\ job[i].new.page \in {mem[i].page, o} /\ job[i].new.role \in {mem[i].role, o}
  BY <1>1 DEF JobsAreCurrent
<1>3. Current(i, o)'
  BY <1>1, <1>2 DEF Current
<1> QED
  BY <1>1, <1>2, <1>3

LEMMA JobsCurrentKeeps ==
    ASSUME IInv, JobsAreCurrent, [Next]_vars
    PROVE  JobsAreCurrent'
<1>1. TypeOK /\ Locked
  BY DEF IInv
<1>2. CASE UNCHANGED <<job, draft, boot, versions, mem>>
  BY <1>2, JobsStay
<1>3. ASSUME NEW i \in Instance, Load(i) PROVE JobsAreCurrent'
  <2>1. job[i] = NoJob
    BY <1>1, <1>3 DEF Load, Locked
  <2>2. \A n \in Instance : n # i => boot'[n] = boot[n] /\ versions'[n] = versions[n] /\ mem'[n] = mem[n]
    BY <1>1, <1>3 DEF Load, TypeOK
  <2> QED
    BY <1>3, <2>1, <2>2, JobsStay DEF Load
<1>4. ASSUME NEW i \in Instance, NEW o \in Op, NEW kind \in Kinds, NEW edit \in Edits,
             DraftSave(i, o, kind, edit)
      PROVE  JobsAreCurrent'
  <2>1. /\ draft[o] = NoDraft /\ UNCHANGED <<job, boot, versions, mem>>
        /\ \A q \in Op : q # o => draft'[q] = draft[q]
    BY <1>1, <1>4 DEF DraftSave, TypeOK
  <2>2. \A n \in Instance : job[n] # NoJob => job[n].op \in Op
    BY OnlyJob
  <2> QED
    BY <2>1, <2>2, JobsStay
<1>5. ASSUME NEW i \in Instance, NEW o \in Op, NEW a \in Account \union {NoAccount}, Begin(i, o, a)
      PROVE  JobsAreCurrent'
  <2>1. /\ \A n \in Instance : n # i => job'[n] = job[n]
        /\ job'[i] # NoJob /\ job'[i].op = o
        /\ job'[i].new.page \in {mem[i].page, o} /\ job'[i].new.role \in {mem[i].role, o}
    BY <1>5, BeginIs
  <2>2. draft[o] # NoDraft /\ Current(i, o) /\ UNCHANGED <<draft, boot, versions, mem>>
    BY <1>5 DEF Begin
  <2>3. Current(i, o)'
    BY <2>2 DEF Current
  <2> SUFFICES ASSUME NEW n \in Instance, NEW q \in Op,
                      job'[n] # NoJob, job'[n].step # "receipt", job'[n].op = q
               PROVE  /\ draft'[q] # NoDraft /\ Current(n, q)'
                      /\ job'[n].new.page \in {mem'[n].page, q}
                      /\ job'[n].new.role \in {mem'[n].role, q}
    BY DEF JobsAreCurrent
  <2>4. CASE n = i
    BY <2>1, <2>2, <2>3, <2>4
  <2>5. CASE n # i
    <3>1. /\ draft[q] # NoDraft /\ Current(n, q)
          /\ job[n].new.page \in {mem[n].page, q} /\ job[n].new.role \in {mem[n].role, q}
      BY <2>1, <2>5 DEF JobsAreCurrent
    <3>2. Current(n, q)'
      BY <2>2, <3>1 DEF Current
    <3> QED
      BY <2>1, <2>2, <2>5, <3>1, <3>2
  <2> QED
    BY <2>4, <2>5
<1>6. ASSUME NEW i \in Instance, job[i] # NoJob,
             \/ Stop(i)
             \/ \E s \in {"secret", "config"} : Goto(i, s) /\ job[i].step # "receipt",
             UNCHANGED <<draft, boot, versions, mem>>
      PROVE  JobsAreCurrent'
  <2>1. CASE Stop(i)
    BY <1>1, <1>6, <2>1, StopIs, JobsStay
  <2>2. CASE \E s \in {"secret", "config"} : Goto(i, s) /\ job[i].step # "receipt"
    BY <1>1, <1>6, <2>2, GotoIs, JobsStay
  <2> QED
    BY <1>6, <2>1, <2>2
<1>7. ASSUME NEW i \in Instance, WriteIntent(i) \/ WriteSecret(i) \/ WriteConfigFails(i) \/ WriteReceipt(i)
      PROVE  JobsAreCurrent'
  BY <1>6, <1>7 DEF WriteIntent, WriteSecret, WriteConfigFails, WriteReceipt, Discarded, At
<1>8. ASSUME NEW i \in Instance, WriteConfig(i) PROVE JobsAreCurrent'
  <2>1. /\ job[i] # NoJob /\ Goto(i, "receipt") /\ UNCHANGED <<draft, boot>>
    BY <1>8 DEF WriteConfig, At
  <2>2. /\ job'[i].step = "receipt" /\ \A n \in Instance : n # i => job'[n] = job[n]
    BY <1>1, <2>1, GotoIs
  <2>3. \A n \in Instance : n # i => versions'[n] = versions[n] /\ mem'[n] = mem[n]
    BY <1>1, <1>8 DEF WriteConfig, TypeOK
  <2> QED
    BY <2>1, <2>2, <2>3, JobsStay
<1>9. ASSUME NEW i \in Instance, Crash(i) PROVE JobsAreCurrent'
  <2>1. /\ job'[i] = NoJob /\ \A n \in Instance : n # i => job'[n] = job[n]
        /\ UNCHANGED <<draft, boot, versions, mem>>
    BY <1>1, <1>9 DEF Crash, TypeOK
  <2> QED
    BY <2>1, JobsStay
<1>10. ASSUME NEW i \in Instance,
              \/ NoteDigest(i) \/ RecoverDeletes(i) \/ RecoverWrites(i) \/ RecoverRefused(i)
              \/ Unreadable(i) \/ \E o \in Op : Replay(i, o)
       PROVE  JobsAreCurrent'
  BY <1>2, <1>10 DEF NoteDigest, RecoverDeletes, RecoverWrites, RecoverRefused, Unreadable, Replay
<1>11. CASE UNCHANGED vars
  BY <1>2, <1>11 DEF vars
<1>12. ASSUME Next PROVE JobsAreCurrent'
  BY <1>3, <1>4, <1>5, <1>7, <1>8, <1>9, <1>10, <1>12 DEF Next
<1> QED
  BY <1>11, <1>12

\* Drafts and the commits made of them agree with the versions of their instance.
THEOREM DraftsAreVersioned == Spec => [](Drafted /\ JobsAreCurrent)
<1>1. Init => Drafted /\ JobsAreCurrent
  BY DEF Init, Drafted, JobsAreCurrent
<1>2. IInv /\ Drafted /\ JobsAreCurrent /\ [Next]_vars => (Drafted /\ JobsAreCurrent)'
  BY DraftedKeeps, JobsCurrentKeeps
<1> QED
  BY <1>1, <1>2, CommitInvariant, PTL DEF Spec

\* A save replaces a value only by its own, and one drafted on an older page or role never
\* reaches its commit point.
THEOREM NoSaveIsReverted == Spec => NothingReverted
<1> DEFINE Reverts(i) == LET o == job[i].op IN
             ~ (/\ mem'[i].page \in {mem[i].page, o}
                /\ mem'[i].role \in {mem[i].role, o}
                /\ draft[o].kind \in {"page", "prune"} => draft[o].base.page = mem[i].page
                /\ draft[o].kind = "role" => draft[o].base.role = mem[i].role)
<1>1. ASSUME IInv, Drafted, JobsAreCurrent, [Next]_vars, NEW i \in Instance, At(i, "config"),
             mem'[i] # mem[i]
      PROVE  ~ Reverts(i)
  <2> DEFINE o == job[i].op
  <2>1. TypeOK /\ job[i] # NoJob /\ job[i].step = "config" /\ phase[i] = "up"
        /\ \A n \in Instance : n # i => job[n] = NoJob
    BY <1>1, OnlyJob DEF At, IInv
  <2>2. WriteConfig(i)
    <3>1. Next /\ mem' # mem
      BY <1>1 DEF vars
    <3>2. ASSUME NEW n \in Instance, Load(n) PROVE FALSE
      BY <1>1, <2>1, <3>2 DEF Load, TypeOK
    <3>3. ASSUME NEW n \in Instance, WriteConfig(n) PROVE n = i
      BY <2>1, <3>3 DEF WriteConfig, At
    <3>4. ASSUME NEW n \in Instance, NEW q \in Op, NEW kind \in Kinds, NEW edit \in Edits,
                 DraftSave(n, q, kind, edit)
          PROVE  FALSE
      BY <3>1, <3>4 DEF DraftSave
    <3> QED
      BY <3>1, <3>2, <3>3, <3>4, Unversioned
  <2>3. mem'[i] = job[i].new
    BY <2>1, <2>2 DEF WriteConfig, TypeOK
  <2>4. /\ draft[o] # NoDraft /\ Current(i, o) /\ o \in Op
        /\ mem'[i].page \in {mem[i].page, o} /\ mem'[i].role \in {mem[i].role, o}
    BY <1>1, <2>1, <2>3, OnlyJob DEF JobsAreCurrent
  <2>5. draft[o].kind \in {"page", "prune", "role"} =>
          /\ draft[o].boot[1] = i /\ draft[o].boot[2] = boot[i]
          /\ draft[o].version = IF draft[o].kind = "role" THEN versions[i].role ELSE versions[i].page
    BY <2>4 DEF Current
  <2>6. draft[o].kind \in {"page", "prune"} => draft[o].base.page = mem[i].page
    BY <1>1, <2>4, <2>5 DEF Drafted
  <2>7. draft[o].kind = "role" => draft[o].base.role = mem[i].role
    BY <1>1, <2>4, <2>5 DEF Drafted
  <2> QED
    BY <2>4, <2>6, <2>7
<1> DEFINE Kept == \A i \in Instance : At(i, "config") /\ mem'[i] # mem[i] => ~ Reverts(i)
<1>2. IInv /\ Drafted /\ JobsAreCurrent /\ [Next]_vars => Kept
  BY <1>1
<1>3. Kept <=> (\A i \in Instance : At(i, "config") /\ mem'[i] # mem[i] =>
        LET o == job[i].op IN
        /\ mem'[i].page \in {mem[i].page, o}
        /\ mem'[i].role \in {mem[i].role, o}
        /\ draft[o].kind \in {"page", "prune"} => draft[o].base.page = mem[i].page
        /\ draft[o].kind = "role" => draft[o].base.role = mem[i].role)
  OBVIOUS
<1> HIDE DEF Kept
<1> QED
  BY <1>2, <1>3, CommitInvariant, DraftsAreVersioned, PTL DEF NothingReverted, Spec
=============================================================================
