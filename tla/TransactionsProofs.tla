------------------------- MODULE TransactionsProofs -------------------------
(***************************************************************************)
(* Proofs about Transactions: what reached some targets of a call reaches  *)
(* all of them, what a journal promises is on disk, and the newest lease   *)
(* wins, for any number of processes, calls, targets and failures.         *)
(***************************************************************************)
EXTENDS Transactions, TLAPS, SequenceTheorems

\* A process that carries out a call, and one that has not decided it yet.
Making == {"wait", "pend"} \union Committing
Undecided == {"wait", "pend", "stage", "write", "jcreate", "jwrite", "jrename"}
\* A recovery that has listed the journals.
Rolling == {"pick", "roll", "rremove"}

\* What is missing of a transaction lies complete beside its target.
Redeemable(x) == \A k \in Writes(x) \ applied[x] : temp[x][k] = "full"

\* The variables of a process fit its place.
ShapeOf(p) ==
    /\ proc[p].at \in Making \union {"roll", "rremove"} => proc[p].tx \in Tx
    /\ proc[p].at \in {"stage", "write", "apply", "roll"} => proc[p].k \in Writes(proc[p].tx)
    /\ proc[p].at = "undo" => proc[p].k > 0
    /\ proc[p].at \notin Rolling => proc[p].left = {}

\* Nobody makes a call twice.
CallsAreOwn ==
    /\ \A p, q \in Proc :
         proc[p].at \in Making /\ proc[q].at \in Making /\ proc[p].tx = proc[q].tx => p = q
    /\ \A p \in Proc : proc[p].at \in Making => proc[p].tx \in begun

\* What carries the name of a call was written after it began.
FilesAreNamed ==
    /\ \A i \in Id : pending[i] \in Tx => pending[i] \in begun /\ IdOf[pending[i]] = i
    /\ \A i \in Id : journal[i] \in Tx => journal[i] \in begun \ undone /\ IdOf[journal[i]] = i
    /\ \A x \in Tx : jtemp[x] # "none" => x \in begun
    /\ undone \subseteq begun

\* A decided transaction can be completed.
DiskIsRedeemable ==
    /\ \A x \in Listed \ undone : Redeemable(x)
    /\ \A x \in Tx : applied[x] # {} => Decided(x)

\* How far the call of a process is.
CommitOf(p) ==
    LET x == proc[p].tx
        k == proc[p].k
    IN /\ proc[p].at \in Undecided => x \notin undone /\ journal[IdOf[x]] # x
       /\ proc[p].at \in {"wait", "pend", "stage", "write", "jcreate"} => jtemp[x] = "none"
       /\ proc[p].at = "jwrite" => jtemp[x] # "full"
       /\ proc[p].at \in {"stage", "write"} => \A j \in 1 .. k - 1 : temp[x][j] = "full"
       /\ proc[p].at \in {"jcreate", "jwrite", "jrename"} =>
            \A j \in Writes(x) : temp[x][j] = "full"
       /\ proc[p].at = "undo" =>
            journal[IdOf[x]] # x /\ (jtemp[x] = "full" => x \in undone)
       /\ proc[p].at \in {"clear", "apply", "seal"} => journal[IdOf[x]] = x /\ Decided(x)
       /\ proc[p].at = "apply" => 1 .. k - 1 \subseteq applied[x]
       /\ proc[p].at = "seal" => Writes(x) \subseteq applied[x]

\* How far the recovery of a process is.
RecoveryOf(p) ==
    LET x == proc[p].tx
    IN proc[p].at \in Rolling =>
         /\ \A y \in Listed : IdOf[y] \in proc[p].ids
         /\ \A y \in Listed \ undone : y \in proc[p].left \/ applied[y] = Writes(y)
         /\ \A y \in proc[p].left :
              /\ y \in begun /\ (y \in Listed \/ ~ Alone(y))
              /\ y \notin undone => Redeemable(y)
         /\ proc[p].at # "pick" =>
              x \in proc[p].left /\ Decided(x) /\ \A y \in proc[p].left : GenOf[x] <= GenOf[y]
         /\ proc[p].at = "roll" /\ x \notin undone => 1 .. proc[p].k - 1 \subseteq applied[x]
         /\ proc[p].at = "rremove" /\ x \notin undone => applied[x] = Writes(x)

\* Of what one recovery lists, the older leases come first.
OldestFirst(p) ==
    proc[p].at \in Rolling =>
        \A y \in Tx : Alone(y) /\ IdOf[y] \in proc[p].ids /\ y \notin proc[p].left =>
            \A z \in proc[p].left : GenOf[y] <= GenOf[z]

IInv ==
    /\ TypeOK /\ CallsAreOwn /\ FilesAreNamed /\ DiskIsRedeemable /\ AllOrNothing
    /\ \A p \in Proc : ShapeOf(p) /\ CommitOf(p) /\ RecoveryOf(p) /\ OldestFirst(p)

-----------------------------------------------------------------------------
(* Operators *)

USE TxAssumption DEF Making, Undecided, Rolling, Holding, Committing, Recovering, FileState

LEMMA ProcIs ==
    ASSUME TypeOK, NEW p \in Proc, NEW v \in Process, proc' = [proc EXCEPT ![p] = v]
    PROVE  proc' \in [Proc -> Process] /\ proc'[p] = v
           /\ \A q \in Proc : q # p => proc'[q] = proc[q]
BY DEF TypeOK

\* A process goes to another place with what it has.
LEMMA StepIs ==
    ASSUME TypeOK, NEW p \in Proc, NEW s \in {"refused", "idle", "wait", "rwait"} \union Holding,
           NEW k \in Nat, Step(p, s, k)
    PROVE  /\ proc' \in [Proc -> Process]
           /\ proc'[p].at = s /\ proc'[p].k = k
           /\ proc'[p].tx = proc[p].tx /\ proc'[p].left = proc[p].left
           /\ proc'[p].ids = proc[p].ids
           /\ \A q \in Proc : q # p => proc'[q] = proc[q]
<1> DEFINE b == proc[p]
           v == [b EXCEPT !.at = s, !.k = k]
<1>1. b \in Process
  BY DEF TypeOK
<1>2. v \in Process /\ v.at = s /\ v.k = k /\ v.tx = b.tx /\ v.left = b.left /\ v.ids = b.ids
  <2> HIDE DEF b
  <2> QED BY <1>1 DEF Process
<1>3. proc' = [proc EXCEPT ![p] = v]
  BY DEF Step
<1> HIDE DEF v
<1> QED
  BY <1>2, <1>3, ProcIs

LEMMA GotoIs ==
    ASSUME TypeOK, NEW p \in Proc, NEW s \in {"refused", "idle", "wait", "rwait"} \union Holding,
           Goto(p, s)
    PROVE  /\ proc' \in [Proc -> Process]
           /\ proc'[p].at = s /\ proc'[p].k = proc[p].k
           /\ proc'[p].tx = proc[p].tx /\ proc'[p].left = proc[p].left
           /\ proc'[p].ids = proc[p].ids
           /\ \A q \in Proc : q # p => proc'[q] = proc[q]
<1> DEFINE b == proc[p]
           v == [b EXCEPT !.at = s]
<1>1. b \in Process
  BY DEF TypeOK
<1>2. v \in Process /\ v.at = s /\ v.k = b.k /\ v.tx = b.tx /\ v.left = b.left /\ v.ids = b.ids
  <2> HIDE DEF b
  <2> QED BY <1>1 DEF Process
<1>3. proc' = [proc EXCEPT ![p] = v]
  BY DEF Goto
<1> HIDE DEF v
<1> QED
  BY <1>2, <1>3, ProcIs

\* The temporaries of one call change, those of the others do not.
LEMMA TempIs ==
    ASSUME TypeOK, NEW x \in Tx, NEW f \in [Writes(x) -> FileState],
           temp' = [temp EXCEPT ![x] = f]
    PROVE  /\ temp' = [y \in Tx |-> temp'[y]] /\ temp'[x] = f
           /\ \A y \in Tx : y # x => temp'[y] = temp[y]
           /\ \A y \in Tx : temp'[y] \in [Writes(y) -> FileState]
<1>1. temp = [y \in Tx |-> temp[y]]
  BY DEF TypeOK
<1>2. temp' = [y \in Tx |-> IF y = x THEN f ELSE temp[y]]
  BY <1>1
<1>3. /\ temp' = [y \in Tx |-> temp'[y]] /\ temp'[x] = f
      /\ \A y \in Tx : y # x => temp'[y] = temp[y]
  BY <1>2
<1> QED
  BY <1>3 DEF TypeOK

LEMMA WriteIs ==
    ASSUME TypeOK, NEW x \in Tx, NEW k \in Writes(x), NEW s \in FileState,
           temp' = [temp EXCEPT ![x][k] = s]
    PROVE  /\ temp' = [y \in Tx |-> temp'[y]]
           /\ \A y \in Tx : y # x => temp'[y] = temp[y]
           /\ temp'[x][k] = s /\ \A j \in Writes(x) : j # k => temp'[x][j] = temp[x][j]
           /\ \A y \in Tx : temp'[y] \in [Writes(y) -> FileState]
<1> DEFINE b == temp[x]
           f == [b EXCEPT ![k] = s]
<1>1. b \in [Writes(x) -> FileState]
  BY DEF TypeOK
<1>2. /\ f \in [Writes(x) -> FileState]
      /\ f[k] = s /\ \A j \in Writes(x) : j # k => f[j] = b[j]
  <2> HIDE DEF b
  <2> QED BY <1>1
<1>3. temp' = [temp EXCEPT ![x] = f]
  OBVIOUS
<1> HIDE DEF f
<1> QED
  BY <1>2, <1>3, TempIs

LEMMA RemoveIs ==
    ASSUME TypeOK, NEW x \in Tx, NEW ks, Remove(x, ks)
    PROVE  /\ temp' = [y \in Tx |-> temp'[y]]
           /\ \A y \in Tx : y # x => temp'[y] = temp[y]
           /\ \A j \in Writes(x) : temp'[x][j] = IF j \in ks THEN "none" ELSE temp[x][j]
           /\ \A y \in Tx : temp'[y] \in [Writes(y) -> FileState]
<1> DEFINE f == [k \in Writes(x) |-> IF k \in ks THEN "none" ELSE temp[x][k]]
<1>1. f \in [Writes(x) -> FileState]
  BY DEF TypeOK
<1>2. temp = [y \in Tx |-> temp[y]]
  BY DEF TypeOK
<1>3. temp' = [temp EXCEPT ![x] = f]
  BY <1>2 DEF Remove
<1>4. \A j \in Writes(x) : f[j] = IF j \in ks THEN "none" ELSE temp[x][j]
  OBVIOUS
<1> HIDE DEF f
<1> QED
  BY <1>1, <1>3, <1>4, TempIs

LEMMA WritesIs ==
    ASSUME NEW x \in Tx
    PROVE  Writes(x) = 1 .. Len(WritesOf[x]) /\ Len(WritesOf[x]) \in Nat /\ 1 \in Writes(x)
BY DEF Writes

\* What a recovery lists: complete journals, those under a temporary name included.
LEMMA ListedIs ==
    ASSUME TypeOK, FilesAreNamed
    PROVE  \A x : x \in Listed <=> x \in Tx /\ (jtemp[x] = "full" \/ journal[IdOf[x]] = x)
BY DEF Listed, FilesAreNamed, TypeOK

LEMMA ListedThen ==
    ASSUME TypeOK', FilesAreNamed'
    PROVE  \A x : x \in Listed' <=> x \in Tx /\ (jtemp'[x] = "full" \/ journal'[IdOf[x]] = x)
BY DEF Listed, FilesAreNamed, TypeOK

LEMMA AloneShrinks ==
    ASSUME begun \subseteq begun', NEW x, Alone(x)'
    PROVE  Alone(x)
BY DEF Alone

LEMMA DecidedGrows ==
    ASSUME decided \in Seq(Tx), NEW x \in Tx, decided' = Append(decided, x)
    PROVE  Decided(x)' /\ \A y : Decided(y) => Decided(y)'
<1>1. Len(decided) \in Nat /\ Len(decided') = Len(decided) + 1
      /\ decided'[Len(decided) + 1] = x
      /\ \A i \in 1 .. Len(decided) : decided'[i] = decided[i]
      /\ DOMAIN decided = 1 .. Len(decided) /\ DOMAIN decided' = 1 .. Len(decided')
  BY AppendProperties
<1>2. Len(decided) + 1 \in DOMAIN decided' /\ DOMAIN decided \subseteq DOMAIN decided'
  BY <1>1
<1>3. Decided(x)'
  BY <1>1, <1>2 DEF Decided
<1>4. ASSUME NEW y, Decided(y) PROVE Decided(y)'
  BY <1>1, <1>2, <1>4 DEF Decided
<1> QED
  BY <1>3, <1>4

LEMMA InitHolds == Init => IInv
<1> SUFFICES ASSUME Init PROVE IInv
  OBVIOUS
<1>1. TypeOK
  BY DEF Init, TypeOK, Down, Process
<1>2. CallsAreOwn /\ FilesAreNamed
  BY DEF Init, Down, CallsAreOwn, FilesAreNamed
<1>3. \A x : x \notin Listed
  BY <1>1, <1>2, ListedIs DEF Init
<1>4. DiskIsRedeemable /\ AllOrNothing
  BY <1>3 DEF Init, DiskIsRedeemable, AllOrNothing
<1>5. \A p \in Proc : ShapeOf(p) /\ CommitOf(p) /\ RecoveryOf(p) /\ OldestFirst(p)
  BY DEF Init, Down, ShapeOf, CommitOf, RecoveryOf, OldestFirst
<1> QED
  BY <1>1, <1>2, <1>4, <1>5 DEF IInv

-----------------------------------------------------------------------------
(* Frames *)

\* One process moves and the files stay as they are.
LEMMA MoveKeeps ==
    ASSUME IInv, TypeOK', NEW p \in Proc, begun \subseteq begun',
           UNCHANGED <<temp, pending, journal, jtemp, decided, applied, undone>>,
           \A q \in Proc : q # p => proc'[q] = proc[q],
           ShapeOf(p)', CommitOf(p)', RecoveryOf(p)', OldestFirst(p)',
           proc'[p].at \in Making =>
             /\ proc'[p].tx \in begun'
             /\ \A q \in Proc : q # p /\ proc[q].at \in Making => proc[q].tx # proc'[p].tx
    PROVE  IInv'
<1> USE DEF IInv
<1>1. CallsAreOwn'
  BY DEF CallsAreOwn
<1>2. FilesAreNamed'
  BY DEF FilesAreNamed
<1>3. Listed' = Listed
  BY DEF Listed
<1>4. /\ \A x : Redeemable(x)' <=> Redeemable(x)
      /\ \A x : Decided(x)' <=> Decided(x)
      /\ \A x : Alone(x)' => Alone(x)
  BY AloneShrinks DEF Redeemable, Decided
<1>5. DiskIsRedeemable'
  BY <1>3, <1>4 DEF DiskIsRedeemable
<1>6. AllOrNothing'
  BY <1>3, <1>4 DEF AllOrNothing
<1>7. ASSUME NEW q \in Proc
      PROVE  (ShapeOf(q) /\ CommitOf(q) /\ RecoveryOf(q) /\ OldestFirst(q))'
  <2>1. CASE q = p
    BY <2>1
  <2>2. CASE q # p
    <3>4. ShapeOf(q)'
      BY <2>2 DEF ShapeOf
    <3>1. CommitOf(q)'
      <4>1. CommitOf(q) /\ proc'[q] = proc[q]
        BY <2>2
      <4> HIDE DEF IInv
      <4> QED
        BY <4>1 DEF CommitOf, Decided
    <3>2. RecoveryOf(q)'
      BY <1>3, <1>4, <2>2 DEF RecoveryOf
    <3>3. OldestFirst(q)'
      BY <1>4, <2>2 DEF OldestFirst
    <3> QED
      BY <3>1, <3>2, <3>3, <3>4
  <2> QED
    BY <2>1, <2>2
<1> QED
  BY <1>1, <1>2, <1>5, <1>6, <1>7

\* The holder of the lock works on the files: the others wait, at rest or with calls of
\* which the files say nothing yet.
LEMMA HolderKeeps ==
    ASSUME IInv, TypeOK', NEW p \in Proc, proc[p].at \in Holding, begun' = begun,
           \A q \in Proc : q # p => proc'[q] = proc[q],
           ShapeOf(p)', CommitOf(p)', RecoveryOf(p)', OldestFirst(p)',
           FilesAreNamed', DiskIsRedeemable', AllOrNothing',
           proc'[p].at \in Making => proc'[p].tx = proc[p].tx /\ proc[p].at \in Making,
           \A x \in Tx : \/ proc[p].at \in Making /\ x = proc[p].tx
                        \/ /\ x \in undone' => x \in undone
                           /\ journal'[IdOf[x]] = x => journal[IdOf[x]] = x
                           /\ jtemp'[x] = jtemp[x] \/ jtemp'[x] = "none"
    PROVE  IInv'
<1> USE DEF IInv
<1>1. CallsAreOwn'
  BY DEF CallsAreOwn
<1>2. ASSUME NEW q \in Proc, q # p
      PROVE  proc[q].at \notin Holding /\ proc'[q] = proc[q]
  BY <1>2 DEF TypeOK
<1>3. ASSUME NEW q \in Proc, q # p
      PROVE  (ShapeOf(q) /\ CommitOf(q) /\ RecoveryOf(q) /\ OldestFirst(q))'
  <2>1. ShapeOf(q)'
    BY <1>2, <1>3 DEF ShapeOf
  <2>2. RecoveryOf(q)' /\ OldestFirst(q)'
    BY <1>2, <1>3 DEF RecoveryOf, OldestFirst
  <2>3. CASE proc[q].at = "wait"
    <3>1. proc[q].tx \in Tx /\ ~ (proc[p].at \in Making /\ proc[q].tx = proc[p].tx)
      BY <1>3, <2>3 DEF CallsAreOwn, ShapeOf
    <3>2. CommitOf(q)
      BY <1>3
    <3> QED
      BY SMTT(30), <1>2, <1>3, <2>1, <2>2, <2>3, <3>1, <3>2 DEF CommitOf
  <2>4. CASE proc[q].at # "wait"
    <3>1. CommitOf(q)'
      BY <1>2, <1>3, <2>4 DEF CommitOf
    <3> QED
      BY <2>1, <2>2, <3>1
  <2> QED
    BY <2>3, <2>4
<1> QED
  BY <1>1, <1>3

-----------------------------------------------------------------------------
(* Steps that leave the files alone *)

LEMMA BeginKeeps ==
    ASSUME IInv, NEW p \in Proc, NEW x \in Tx, Begin(p, x)
    PROVE  IInv'
<1> USE DEF IInv, Begin
<1> DEFINE v == [Down EXCEPT !.at = "wait", !.tx = x]
<1>1. v \in Process /\ v.at = "wait" /\ v.tx = x /\ v.left = {}
  BY DEF Down, Process
<1> HIDE DEF v
<1>2. /\ proc' \in [Proc -> Process] /\ proc'[p] = v
      /\ \A q \in Proc : q # p => proc'[q] = proc[q]
  BY <1>1, ProcIs DEF v
<1>3. TypeOK'
  BY <1>1, <1>2 DEF TypeOK
<1>4. ShapeOf(p)' /\ RecoveryOf(p)' /\ OldestFirst(p)'
  BY <1>1, <1>2 DEF ShapeOf, RecoveryOf, OldestFirst
<1>5. x \notin undone /\ journal[IdOf[x]] # x /\ jtemp[x] = "none"
  BY DEF FilesAreNamed, TypeOK
<1>6. CommitOf(p)'
  BY <1>1, <1>2, <1>5 DEF CommitOf
<1>7. \A q \in Proc : q # p /\ proc[q].at \in Making => proc[q].tx # x
  BY DEF CallsAreOwn
<1> QED
  BY <1>1, <1>2, <1>3, <1>4, <1>6, <1>7, MoveKeeps

\* A process that stops committing or recovering, or takes no part in either.
LEMMA RestKeeps ==
    ASSUME IInv, NEW p \in Proc, NEW v \in Process, v.at \in {"down", "refused", "idle"},
           v.left = {}, proc' = [proc EXCEPT ![p] = v],
           lock' = IF lock = p THEN NoProc ELSE lock,
           faults' \in 0 .. MaxFaults,
           UNCHANGED <<target, temp, pending, journal, jtemp, valid, begun, decided, applied,
                       undone>>
    PROVE  IInv'
<1>1. /\ proc' \in [Proc -> Process] /\ proc'[p] = v
      /\ \A q \in Proc : q # p => proc'[q] = proc[q]
  BY ProcIs DEF IInv
<1>2. TypeOK'
  BY <1>1 DEF IInv, TypeOK
<1>3. ShapeOf(p)' /\ CommitOf(p)' /\ RecoveryOf(p)' /\ OldestFirst(p)'
  BY <1>1 DEF ShapeOf, CommitOf, RecoveryOf, OldestFirst
<1> QED
  BY <1>1, <1>2, <1>3, MoveKeeps

LEMMA ReturnKeeps ==
    ASSUME IInv, NEW p \in Proc, proc[p].at \in Holding, Return(p) \/ Refuse(p),
           faults' \in 0 .. MaxFaults,
           UNCHANGED <<target, temp, pending, journal, jtemp, valid, begun, decided, applied,
                       undone>>
    PROVE  IInv'
<1>1. lock = p
  BY DEF IInv, TypeOK
<1>2. ASSUME NEW s \in {"refused", "idle"}
      PROVE  LET v == [Down EXCEPT !.at = s] IN v \in Process /\ v.at = s /\ v.left = {}
  BY DEF Down, Process
<1>3. PICK s \in {"refused", "idle"} : proc' = [proc EXCEPT ![p] = [Down EXCEPT !.at = s]]
  BY DEF Return, Refuse
<1> QED
  BY <1>1, <1>2, <1>3, RestKeeps DEF Return, Refuse

LEMMA FaultIs ==
    ASSUME TypeOK, NEW n \in {1, 2}, Fault(n)
    PROVE  faults' \in 0 .. MaxFaults
BY DEF TypeOK, Fault

LEMMA FailuresKeep ==
    ASSUME IInv, NEW p \in Proc,
           \/ DirectoryFails(p) \/ ListFails(p) \/ ApplyFails(p) \/ RollFails(p)
           \/ EndFails(p)
    PROVE  IInv'
<1>1. faults' \in 0 .. MaxFaults
  BY FaultIs DEF IInv, TypeOK, DirectoryFails, ListFails, ApplyFails, RollFails,
         EndFails
<1> QED
  BY <1>1, ReturnKeeps DEF DirectoryFails, ListFails, ApplyFails, RollFails,
         EndFails

LEMMA CrashKeeps ==
    ASSUME IInv, NEW p \in Proc, Crash(p)
    PROVE  IInv'
<1>1. Down \in Process /\ Down.at = "down" /\ Down.left = {}
  BY DEF Down, Process
<1>2. faults' \in 0 .. MaxFaults
  BY DEF Crash, IInv, TypeOK
<1> QED
  BY <1>1, <1>2, RestKeeps DEF Crash

LEMMA LeaseEndsKeeps ==
    ASSUME IInv, NEW x \in Tx, LeaseEnds(x)
    PROVE  IInv'
<1>1. TypeOK'
  BY DEF IInv, TypeOK, LeaseEnds
<1>2. CASE Proc = {}
  <2>1. CallsAreOwn' /\ FilesAreNamed'
    BY DEF IInv, LeaseEnds, CallsAreOwn, FilesAreNamed
  <2>2. DiskIsRedeemable'
    BY DEF IInv, LeaseEnds, DiskIsRedeemable, Listed, Redeemable, Decided
  <2>3. AllOrNothing'
    BY DEF IInv, LeaseEnds, AllOrNothing, Alone, Listed
  <2> QED
    BY <1>1, <1>2, <2>1, <2>2, <2>3 DEF IInv
<1>3. CASE Proc # {}
  <2>1. PICK p \in Proc : TRUE
    BY <1>3
  <2>2. ShapeOf(p)' /\ CommitOf(p)' /\ RecoveryOf(p)' /\ OldestFirst(p)'
    <3>1. ShapeOf(p) /\ CommitOf(p) /\ RecoveryOf(p) /\ OldestFirst(p)
      BY DEF IInv
    <3>2. ShapeOf(p)' /\ CommitOf(p)'
      BY <3>1 DEF LeaseEnds, ShapeOf, CommitOf, Decided
    <3>3. RecoveryOf(p)'
      BY <3>1 DEF LeaseEnds, RecoveryOf, Decided, Redeemable, Alone, Listed
    <3>4. OldestFirst(p)'
      BY <3>1 DEF LeaseEnds, OldestFirst, Alone
    <3> QED
      BY <3>2, <3>3, <3>4
  <2> QED
    BY <1>1, <2>2, MoveKeeps DEF LeaseEnds, IInv, CallsAreOwn
<1> QED
  BY <1>2, <1>3

LEMMA TakeCommitLockKeeps ==
    ASSUME IInv, NEW p \in Proc, TakeCommitLock(p)
    PROVE  IInv'
<1> USE DEF TakeCommitLock
<1>1. /\ proc' \in [Proc -> Process]
      /\ proc'[p].at = "pend" /\ proc'[p].tx = proc[p].tx /\ proc'[p].left = proc[p].left
      /\ \A q \in Proc : q # p => proc'[q] = proc[q]
  BY GotoIs DEF IInv
<1>2. TypeOK'
  BY <1>1 DEF IInv, TypeOK
<1>3. ShapeOf(p) /\ CommitOf(p) /\ CallsAreOwn
  BY DEF IInv
<1>4. ShapeOf(p)' /\ CommitOf(p)'
  BY <1>1, <1>3 DEF ShapeOf, CommitOf
<1>5. RecoveryOf(p)' /\ OldestFirst(p)'
  BY <1>1 DEF RecoveryOf, OldestFirst
<1> QED
  BY <1>1, <1>2, <1>3, <1>4, <1>5, MoveKeeps DEF CallsAreOwn

LEMMA StartKeeps ==
    ASSUME IInv, NEW p \in Proc, Start(p) \/ TakeRecoverLock(p)
    PROVE  IInv'
<1> USE DEF Start, TakeRecoverLock
<1>1. /\ proc' \in [Proc -> Process]
      /\ proc'[p].at = (IF lock' = lock THEN "rwait" ELSE "list")
      /\ proc'[p].left = proc[p].left
      /\ \A q \in Proc : q # p => proc'[q] = proc[q]
  BY GotoIs DEF IInv
<1>2. TypeOK'
  BY <1>1 DEF IInv, TypeOK
<1>3. ShapeOf(p)
  BY DEF IInv
<1>4. ShapeOf(p)' /\ CommitOf(p)' /\ RecoveryOf(p)' /\ OldestFirst(p)'
  BY <1>1, <1>3 DEF ShapeOf, CommitOf, RecoveryOf, OldestFirst
<1> QED
  BY <1>1, <1>2, <1>4, MoveKeeps

LEMMA StageFailsKeeps ==
    ASSUME IInv, NEW p \in Proc, StageFails(p)
    PROVE  IInv'
<1> USE DEF StageFails
<1>1. /\ proc' \in [Proc -> Process]
      /\ proc'[p].at = "undo" /\ proc'[p].k = 1 /\ proc'[p].tx = proc[p].tx
      /\ proc'[p].left = proc[p].left
      /\ \A q \in Proc : q # p => proc'[q] = proc[q]
  BY StepIs DEF IInv
<1>2. TypeOK'
  BY <1>1, FaultIs DEF IInv, TypeOK
<1>3. ShapeOf(p) /\ CommitOf(p) /\ CallsAreOwn
  BY DEF IInv
<1>4. ShapeOf(p)' /\ CommitOf(p)'
  BY <1>1, <1>3 DEF ShapeOf, CommitOf
<1>5. RecoveryOf(p)' /\ OldestFirst(p)'
  BY <1>1 DEF RecoveryOf, OldestFirst
<1> QED
  BY <1>1, <1>2, <1>3, <1>4, <1>5, MoveKeeps DEF CallsAreOwn

LEMMA ListKeeps ==
    ASSUME IInv, NEW p \in Proc, List(p)
    PROVE  IInv'
<1> USE DEF List
<1> DEFINE v == [Down EXCEPT !.at = "pick", !.left = Listed, !.ids = {IdOf[x] : x \in Listed}]
<1>0. /\ \A x : x \in Listed <=> x \in Tx /\ (jtemp[x] = "full" \/ journal[IdOf[x]] = x)
      /\ DiskIsRedeemable /\ FilesAreNamed
  BY ListedIs DEF IInv
<1>1. v \in Process /\ v.at = "pick" /\ v.left = Listed /\ v.ids = {IdOf[x] : x \in Listed}
  <2>1. Listed \in SUBSET Tx /\ {IdOf[x] : x \in Listed} \in SUBSET Id
    BY <1>0
  <2>2. ASSUME NEW l \in SUBSET Tx, NEW i \in SUBSET Id
        PROVE  LET w == [Down EXCEPT !.at = "pick", !.left = l, !.ids = i]
               IN w \in Process /\ w.at = "pick" /\ w.left = l /\ w.ids = i
    BY DEF Down, Process
  <2> QED
    BY <2>1, <2>2
<1> HIDE DEF v
<1>2. /\ proc' \in [Proc -> Process] /\ proc'[p] = v
      /\ \A q \in Proc : q # p => proc'[q] = proc[q]
  BY <1>1, ProcIs DEF v, IInv
<1>3. TypeOK'
  BY <1>1, <1>2 DEF IInv, TypeOK
<1>4. ShapeOf(p)' /\ CommitOf(p)'
  BY <1>1, <1>2 DEF ShapeOf, CommitOf
<1>5. Listed' = Listed /\ \A x : Redeemable(x)' <=> Redeemable(x)
  BY DEF Listed, Redeemable
<1>6. ASSUME NEW y \in Listed PROVE y \in begun
  <2>1. y \in Tx /\ IdOf[y] \in Id /\ (jtemp[y] = "full" \/ journal[IdOf[y]] = y)
    BY <1>0
  <2> QED
    BY <1>0, <2>1 DEF FilesAreNamed
<1>7. RecoveryOf(p)'
  <2>1. \A y \in Listed' : IdOf[y] \in v.ids /\ y \in v.left
    BY <1>1, <1>5
  <2>2. \A y \in v.left : y \in begun' /\ y \in Listed' /\ (y \notin undone' => Redeemable(y)')
    BY <1>0, <1>1, <1>5, <1>6 DEF DiskIsRedeemable
  <2> QED
    BY <1>1, <1>2, <2>1, <2>2 DEF RecoveryOf
<1>8. OldestFirst(p)'
  <2>1. ASSUME NEW y \in Tx, Alone(y)', IdOf[y] \in v.ids PROVE y \in Listed
    <3>1. PICK z \in Listed : IdOf[z] = IdOf[y]
      BY <1>1, <2>1
    <3>2. z \in begun /\ Alone(y)
      BY <1>6, <2>1 DEF Alone
    <3> QED
      BY <3>1, <3>2 DEF Alone
  <2> QED
    BY <1>1, <1>2, <2>1 DEF OldestFirst
<1> QED
  BY <1>1, <1>2, <1>3, <1>4, <1>7, <1>8, MoveKeeps

-----------------------------------------------------------------------------
(* Steps of a commit *)

LEMMA RestIs ==
    ASSUME TypeOK, NEW p \in Proc, Return(p) \/ Refuse(p)
    PROVE  /\ proc' \in [Proc -> Process] /\ proc'[p].at \in {"refused", "idle"}
           /\ \A q \in Proc : q # p => proc'[q] = proc[q]
           /\ ShapeOf(p)' /\ CommitOf(p)' /\ RecoveryOf(p)' /\ OldestFirst(p)'
<1>1. ASSUME NEW s \in {"refused", "idle"}
      PROVE  LET v == [Down EXCEPT !.at = s] IN v \in Process /\ v.at = s /\ v.left = {}
  BY DEF Down, Process
<1>2. PICK s \in {"refused", "idle"} : proc' = [proc EXCEPT ![p] = [Down EXCEPT !.at = s]]
  BY DEF Return, Refuse
<1>3. /\ proc' \in [Proc -> Process] /\ proc'[p].at = s /\ proc'[p].left = {}
      /\ \A q \in Proc : q # p => proc'[q] = proc[q]
  BY <1>1, <1>2, ProcIs
<1>4. ShapeOf(p)' /\ CommitOf(p)' /\ RecoveryOf(p)' /\ OldestFirst(p)'
  BY <1>3 DEF ShapeOf, CommitOf, RecoveryOf, OldestFirst
<1> QED
  BY <1>3, <1>4

\* What the invariant says of the files when no journal changes.
LEMMA SameJournals ==
    ASSUME TypeOK, DiskIsRedeemable, AllOrNothing,
           UNCHANGED <<journal, jtemp, begun, decided, applied, undone>>
    PROVE  /\ Listed' = Listed /\ AllOrNothing'
           /\ \A x : (Decided(x)' <=> Decided(x)) /\ (Alone(x)' <=> Alone(x))
           /\ temp' = temp => DiskIsRedeemable'
           /\ \A x \in Tx : x \notin Listed \ undone /\ (\A y \in Tx : y # x => temp'[y] = temp[y])
                            => DiskIsRedeemable'
<1>1. Listed' = Listed
  BY DEF Listed
<1>2. \A x : (Decided(x)' <=> Decided(x)) /\ (Alone(x)' <=> Alone(x))
  BY DEF Decided, Alone
<1>3. AllOrNothing'
  BY <1>1, <1>2 DEF AllOrNothing
<1>4. ASSUME NEW x \in Tx, x \notin Listed \ undone, \A y \in Tx : y # x => temp'[y] = temp[y]
      PROVE  DiskIsRedeemable'
  <2>1. Listed \subseteq Tx
    BY DEF Listed, TypeOK
  <2>2. \A y \in Listed \ undone : Redeemable(y)' <=> Redeemable(y)
    BY <1>4, <2>1 DEF Redeemable
  <2> QED
    BY <1>1, <1>2, <2>2 DEF DiskIsRedeemable
<1>5. temp' = temp => DiskIsRedeemable'
  BY <1>1, <1>2 DEF DiskIsRedeemable, Redeemable
<1> QED
  BY <1>1, <1>2, <1>3, <1>4, <1>5

LEMMA WritePendingKeeps ==
    ASSUME IInv, NEW p \in Proc, WritePending(p)
    PROVE  IInv'
<1> USE DEF WritePending
<1>1. ShapeOf(p) /\ CommitOf(p) /\ CallsAreOwn /\ FilesAreNamed /\ TypeOK
      /\ DiskIsRedeemable /\ AllOrNothing
  BY DEF IInv
<1>2. CASE Fault(1) /\ Return(p) /\ UNCHANGED pending
  BY <1>1, <1>2, FaultIs, ReturnKeeps
<1>3. CASE /\ pending' = [pending EXCEPT ![IdOf[proc[p].tx]] = proc[p].tx]
           /\ Step(p, "stage", 1)
           /\ UNCHANGED <<lock, faults>>
  <2>1. /\ proc' \in [Proc -> Process]
        /\ proc'[p].at = "stage" /\ proc'[p].k = 1 /\ proc'[p].tx = proc[p].tx
        /\ proc'[p].left = proc[p].left
        /\ \A q \in Proc : q # p => proc'[q] = proc[q]
    BY <1>1, <1>3, StepIs
  <2>2. TypeOK'
    BY <1>1, <1>3, <2>1 DEF TypeOK, ShapeOf
  <2>3. FilesAreNamed'
    BY <1>1, <1>3 DEF FilesAreNamed, CallsAreOwn, ShapeOf, TypeOK
  <2>4. DiskIsRedeemable' /\ AllOrNothing'
    BY <1>1, SameJournals
  <2>5. ShapeOf(p)'
    BY <1>1, <2>1, WritesIs DEF ShapeOf
  <2>6. CommitOf(p)' /\ RecoveryOf(p)' /\ OldestFirst(p)'
    BY <1>1, <2>1 DEF CommitOf, RecoveryOf, OldestFirst
  <2> QED
    BY <2>1, <2>2, <2>3, <2>4, <2>5, <2>6, HolderKeeps
<1> QED
  BY <1>2, <1>3

LEMMA CreateTempKeeps ==
    ASSUME IInv, NEW p \in Proc, CreateTemp(p)
    PROVE  IInv'
<1> USE DEF CreateTemp
<1> DEFINE x == proc[p].tx
           k == proc[p].k
<1>1. ShapeOf(p) /\ CommitOf(p) /\ FilesAreNamed /\ TypeOK /\ DiskIsRedeemable /\ AllOrNothing
  BY DEF IInv
<1>2. x \in Tx /\ k \in Writes(x)
  BY <1>1 DEF ShapeOf
<1>3. /\ temp' = [y \in Tx |-> temp'[y]]
      /\ \A y \in Tx : y # x => temp'[y] = temp[y]
      /\ temp'[x][k] = "part" /\ \A j \in Writes(x) : j # k => temp'[x][j] = temp[x][j]
      /\ \A y \in Tx : temp'[y] \in [Writes(y) -> FileState]
  BY <1>1, <1>2, WriteIs
<1>4. /\ proc' \in [Proc -> Process]
      /\ proc'[p].at = "write" /\ proc'[p].k = k /\ proc'[p].tx = x
      /\ proc'[p].left = proc[p].left
      /\ \A q \in Proc : q # p => proc'[q] = proc[q]
  BY <1>1, GotoIs
<1>5. TypeOK'
  BY <1>1, <1>3, <1>4 DEF TypeOK
<1>6. x \notin Listed
  BY <1>1, <1>2, ListedIs DEF CommitOf
<1>7. DiskIsRedeemable' /\ AllOrNothing'
  BY <1>1, <1>2, <1>3, <1>6, SameJournals
<1>8. FilesAreNamed'
  BY <1>1 DEF FilesAreNamed
<1>9. ShapeOf(p)' /\ RecoveryOf(p)' /\ OldestFirst(p)'
  BY <1>1, <1>4 DEF ShapeOf, RecoveryOf, OldestFirst
<1>10. \A j \in 1 .. k - 1 : temp[x][j] = "full" /\ j \in Writes(x) /\ j # k
  BY <1>1, <1>2, WritesIs DEF CommitOf
<1>11. CommitOf(p)'
  BY SMTT(30), <1>1, <1>3, <1>4, <1>10 DEF CommitOf
<1> QED
  BY <1>4, <1>5, <1>7, <1>8, <1>9, <1>11, HolderKeeps

LEMMA WriteTempKeeps ==
    ASSUME IInv, NEW p \in Proc, WriteTemp(p)
    PROVE  IInv'
<1> USE DEF WriteTemp
<1> DEFINE x == proc[p].tx
           k == proc[p].k
<1>1. ShapeOf(p) /\ CommitOf(p) /\ FilesAreNamed /\ TypeOK /\ DiskIsRedeemable /\ AllOrNothing
  BY DEF IInv
<1>2. x \in Tx /\ k \in Writes(x)
  BY <1>1 DEF ShapeOf
<1>3. /\ temp' = [y \in Tx |-> temp'[y]]
      /\ \A y \in Tx : y # x => temp'[y] = temp[y]
      /\ temp'[x][k] = "full" /\ \A j \in Writes(x) : j # k => temp'[x][j] = temp[x][j]
      /\ \A y \in Tx : temp'[y] \in [Writes(y) -> FileState]
  BY <1>1, <1>2, WriteIs
<1>4. /\ proc' \in [Proc -> Process] /\ proc'[p].tx = x /\ proc'[p].left = proc[p].left
      /\ \/ k = Len(WritesOf[x]) /\ proc'[p].at = "jcreate"
         \/ k # Len(WritesOf[x]) /\ proc'[p].at = "stage" /\ proc'[p].k = k + 1
      /\ \A q \in Proc : q # p => proc'[q] = proc[q]
  BY SMTT(30), <1>1, <1>2, WritesIs, StepIs
<1>5. TypeOK'
  BY <1>1, <1>3, <1>4 DEF TypeOK
<1>6. x \notin Listed
  BY <1>1, <1>2, ListedIs DEF CommitOf
<1>7. DiskIsRedeemable' /\ AllOrNothing'
  BY <1>1, <1>2, <1>3, <1>6, SameJournals
<1>8. FilesAreNamed'
  BY <1>1 DEF FilesAreNamed
<1>9. ShapeOf(p)' /\ RecoveryOf(p)' /\ OldestFirst(p)'
  <2>1. k # Len(WritesOf[x]) => k + 1 \in Writes(x)
    BY <1>2, WritesIs
  <2>2. ShapeOf(p)'
    BY <1>1, <1>2, <1>4, <2>1 DEF ShapeOf
  <2>3. RecoveryOf(p)' /\ OldestFirst(p)'
    BY <1>4 DEF RecoveryOf, OldestFirst
  <2> QED
    BY <2>2, <2>3
<1>10. \A j \in 1 .. k : temp'[x][j] = "full"
  <2>1. \A j \in 1 .. k - 1 : temp[x][j] = "full" /\ j \in Writes(x) /\ j # k
    BY <1>1, <1>2, WritesIs DEF CommitOf
  <2> QED
    BY <1>2, <1>3, <2>1, WritesIs
<1>11. CommitOf(p)'
  <2>1. k = Len(WritesOf[x]) => \A j \in Writes(x) : temp'[x][j] = "full"
    BY <1>2, <1>10, WritesIs
  <2>2. (k + 1) - 1 = k
    BY <1>2, WritesIs
  <2> HIDE DEF x, k
  <2>3. /\ x \notin undone /\ journal[IdOf[x]] # x /\ jtemp[x] = "none"
    BY <1>1 DEF CommitOf, x
  <2> QED
    BY <1>4, <1>10, <2>1, <2>2, <2>3 DEF CommitOf
<1> QED
  BY <1>4, <1>5, <1>7, <1>8, <1>9, <1>11, HolderKeeps

LEMMA UndoNextKeeps ==
    ASSUME IInv, NEW p \in Proc, UndoNext(p)
    PROVE  IInv'
<1> USE DEF UndoNext
<1> DEFINE x == proc[p].tx
           k == proc[p].k
<1>1. ShapeOf(p) /\ CommitOf(p) /\ FilesAreNamed /\ TypeOK /\ DiskIsRedeemable /\ AllOrNothing
  BY DEF IInv
<1>2. x \in Tx /\ k \in Nat /\ k > 0
  BY <1>1 DEF ShapeOf, TypeOK, Process
<1>3. /\ temp' = [y \in Tx |-> temp'[y]]
      /\ \A y \in Tx : y # x => temp'[y] = temp[y]
      /\ \A y \in Tx : temp'[y] \in [Writes(y) -> FileState]
  <2>1. CASE temp' = temp
    BY <1>1, <2>1 DEF TypeOK
  <2>2. CASE Remove(x, {k})
    BY <1>1, <1>2, <2>2, RemoveIs
  <2> QED
    BY <2>1, <2>2
<1>4. /\ proc' \in [Proc -> Process] /\ proc'[p].at = "undo" /\ proc'[p].k = k + 1
      /\ proc'[p].tx = x /\ proc'[p].left = proc[p].left
      /\ \A q \in Proc : q # p => proc'[q] = proc[q]
  <2>1. Step(p, "undo", k + 1)
    OBVIOUS
  <2>2. TypeOK /\ k + 1 \in Nat /\ "undo" \in Holding
    BY <1>1, <1>2 DEF Holding, Committing
  <2> HIDE DEF x, k, UndoNext
  <2> QED
    BY SMTT(30), <2>1, <2>2, StepIs DEF x
<1>5. TypeOK'
  <2>1. faults' \in 0 .. MaxFaults
    BY <1>1, FaultIs DEF TypeOK
  <2> QED
    BY <1>1, <1>3, <1>4, <2>1 DEF TypeOK
<1>6. x \notin Listed \ undone
  BY <1>1, <1>2, ListedIs DEF CommitOf
<1>7. DiskIsRedeemable' /\ AllOrNothing'
  BY <1>1, <1>2, <1>3, <1>6, SameJournals
<1>8. FilesAreNamed'
  BY <1>1 DEF FilesAreNamed
<1>9. ShapeOf(p)' /\ RecoveryOf(p)' /\ OldestFirst(p)'
  BY <1>1, <1>2, <1>4 DEF ShapeOf, RecoveryOf, OldestFirst
<1>10. CommitOf(p)'
  BY <1>1, <1>4 DEF CommitOf
<1> QED
  BY <1>4, <1>5, <1>7, <1>8, <1>9, <1>10, HolderKeeps

LEMMA UndoDoneKeeps ==
    ASSUME IInv, NEW p \in Proc, UndoDone(p)
    PROVE  IInv'
<1> USE DEF UndoDone
<1>1. ShapeOf(p) /\ FilesAreNamed /\ TypeOK /\ DiskIsRedeemable /\ AllOrNothing
  BY DEF IInv
<1>2. /\ proc' \in [Proc -> Process] /\ proc'[p].at \in {"refused", "idle"}
      /\ \A q \in Proc : q # p => proc'[q] = proc[q]
      /\ ShapeOf(p)' /\ CommitOf(p)' /\ RecoveryOf(p)' /\ OldestFirst(p)'
  BY <1>1, RestIs
<1>3. faults' \in 0 .. MaxFaults
  BY <1>1, FaultIs DEF TypeOK
<1>4. TypeOK'
  <2>1. lock = p /\ lock' = NoProc
    BY <1>1 DEF TypeOK, Return
  <2>2. pending' \in [Id -> Tx \union {NoTx}]
    BY <1>1 DEF TypeOK
  <2> QED
    BY <1>1, <1>2, <1>3, <2>1, <2>2 DEF TypeOK
<1>5. FilesAreNamed'
  BY ZenonT(30), <1>1 DEF FilesAreNamed, TypeOK
<1>6. DiskIsRedeemable' /\ AllOrNothing'
  BY <1>1, SameJournals
<1> QED
  BY <1>2, <1>4, <1>5, <1>6, HolderKeeps

LEMMA ClearPendingKeeps ==
    ASSUME IInv, NEW p \in Proc, ClearPending(p)
    PROVE  IInv'
<1> USE DEF ClearPending
<1>1. ShapeOf(p) /\ CommitOf(p) /\ FilesAreNamed /\ TypeOK /\ DiskIsRedeemable /\ AllOrNothing
  BY DEF IInv
<1>2. /\ proc' \in [Proc -> Process] /\ proc'[p].at = "apply" /\ proc'[p].k = 1
      /\ proc'[p].tx = proc[p].tx /\ proc'[p].left = proc[p].left
      /\ \A q \in Proc : q # p => proc'[q] = proc[q]
  BY <1>1, StepIs
<1>3. faults' \in 0 .. MaxFaults
  BY <1>1, FaultIs DEF TypeOK
<1>4. TypeOK'
  BY <1>1, <1>2, <1>3 DEF TypeOK
<1>5. FilesAreNamed'
  BY ZenonT(30), <1>1 DEF FilesAreNamed, TypeOK
<1>6. DiskIsRedeemable' /\ AllOrNothing'
  BY <1>1, SameJournals
<1>7. ShapeOf(p)' /\ RecoveryOf(p)' /\ OldestFirst(p)'
  BY <1>1, <1>2, WritesIs DEF ShapeOf, RecoveryOf, OldestFirst
<1>8. CommitOf(p)'
  BY <1>1, <1>2 DEF CommitOf, Decided
<1> QED
  BY <1>2, <1>4, <1>5, <1>6, <1>7, <1>8, HolderKeeps

\* The temporary of an undecided journal: it lists its call once it is complete.
LEMMA CreateJournalKeeps ==
    ASSUME IInv, NEW p \in Proc, CreateJournal(p) \/ WriteJournal(p)
    PROVE  IInv'
<1> USE DEF CreateJournal, WriteJournal
<1> DEFINE x == proc[p].tx
<1>1. ShapeOf(p) /\ CommitOf(p) /\ CallsAreOwn /\ FilesAreNamed /\ TypeOK
      /\ DiskIsRedeemable /\ AllOrNothing
  BY DEF IInv
<1>2. x \in Tx /\ x \in begun /\ jtemp[x] # "full" /\ journal[IdOf[x]] # x /\ x \notin undone
      /\ Redeemable(x)
  BY <1>1 DEF ShapeOf, CallsAreOwn, CommitOf, Redeemable
<1>3. /\ proc' \in [Proc -> Process] /\ proc'[p].tx = x /\ proc'[p].left = proc[p].left
      /\ proc'[p].at \in {"jwrite", "jrename"}
      /\ \A q \in Proc : q # p => proc'[q] = proc[q]
      /\ jtemp' = [jtemp EXCEPT ![x] = IF proc'[p].at = "jwrite" THEN "part" ELSE "full"]
  BY <1>1, GotoIs
<1>4. TypeOK'
  BY <1>1, <1>2, <1>3 DEF TypeOK
<1>5. FilesAreNamed'
  BY <1>1, <1>2, <1>3 DEF FilesAreNamed, TypeOK
<1>6. \A y : y \in Listed' <=> y \in Listed \/ (y = x /\ proc'[p].at = "jrename")
  <2>1. \A y : y \in Listed' <=> y \in Tx /\ (jtemp'[y] = "full" \/ journal'[IdOf[y]] = y)
    BY <1>4, <1>5, ListedThen
  <2>2. \A y : y \in Listed <=> y \in Tx /\ (jtemp[y] = "full" \/ journal[IdOf[y]] = y)
    BY <1>1, ListedIs
  <2>3. \A y \in Tx : y # x => jtemp'[y] = jtemp[y]
    BY <1>1, <1>3 DEF TypeOK
  <2>4. jtemp'[x] = IF proc'[p].at = "jwrite" THEN "part" ELSE "full"
    BY <1>1, <1>2, <1>3 DEF TypeOK
  <2> HIDE DEF x, CreateJournal, WriteJournal
  <2>5. journal' = journal
    BY DEF CreateJournal, WriteJournal
  <2>6. x \in Listed' <=> proc'[p].at = "jrename"
    BY <1>2, <1>3, <2>1, <2>4, <2>5
  <2>7. \A y : y # x => (y \in Listed' <=> y \in Listed)
    BY <2>1, <2>2, <2>3, <2>5
  <2>8. x \notin Listed
    BY <1>2, <2>2
  <2> QED
    BY <2>6, <2>7, <2>8
<1>7. \A y : (Decided(y)' <=> Decided(y)) /\ (Alone(y)' <=> Alone(y)) /\ (Redeemable(y)' <=> Redeemable(y))
  BY DEF Decided, Alone, Redeemable
<1>8. DiskIsRedeemable'
  BY <1>1, <1>2, <1>6, <1>7 DEF DiskIsRedeemable
<1>9. AllOrNothing'
  BY <1>1, <1>6, <1>7 DEF AllOrNothing
<1>10. ShapeOf(p)' /\ RecoveryOf(p)' /\ OldestFirst(p)'
  BY <1>1, <1>3 DEF ShapeOf, RecoveryOf, OldestFirst
<1>11. CommitOf(p)'
  <2>1. jtemp'[x] = IF proc'[p].at = "jwrite" THEN "part" ELSE "full"
    BY <1>1, <1>2, <1>3 DEF TypeOK
  <2>2. \A j \in Writes(x) : temp[x][j] = "full"
    BY <1>1 DEF CommitOf
  <2> HIDE DEF x
  <2> QED
    BY <1>2, <1>3, <2>1, <2>2 DEF CommitOf
<1> QED
  BY <1>3, <1>4, <1>5, <1>8, <1>9, <1>10, <1>11, HolderKeeps DEF TypeOK, IInv

LEMMA DecideKeeps ==
    ASSUME IInv, NEW p \in Proc, Decide(p)
    PROVE  IInv'
<1> USE DEF Decide
<1>1. ShapeOf(p) /\ CommitOf(p) /\ CallsAreOwn /\ FilesAreNamed /\ TypeOK
      /\ DiskIsRedeemable /\ AllOrNothing
  BY DEF IInv
<1>0. PICK x \in Tx : x = proc[p].tx
  BY <1>1 DEF ShapeOf
<1>2. x \in begun /\ x \notin undone /\ Redeemable(x)
  BY <1>0, <1>1 DEF CallsAreOwn, CommitOf, Redeemable
<1>3. /\ proc' \in [Proc -> Process] /\ proc'[p].tx = x /\ proc'[p].left = proc[p].left
      /\ proc'[p].at = "clear"
      /\ \A q \in Proc : q # p => proc'[q] = proc[q]
  BY <1>0, <1>1, GotoIs
<1>4. /\ journal'[IdOf[x]] = x /\ jtemp'[x] = "none"
      /\ \A i \in Id : i # IdOf[x] => journal'[i] = journal[i]
      /\ \A y \in Tx : y # x => jtemp'[y] = jtemp[y]
      /\ journal' \in [Id -> Tx \union {NoTx}] /\ jtemp' \in [Tx -> FileState]
  BY <1>0, <1>1, <1>2 DEF TypeOK
<1>5. /\ Decided(x)' /\ \A y : Decided(y) => Decided(y)'
      /\ decided' \in Seq(Tx)
  <2>1. decided \in Seq(Tx) /\ decided' = Append(decided, x)
    BY <1>0, <1>1 DEF TypeOK
  <2>2. decided' \in Seq(Tx)
    BY <2>1, AppendProperties
  <2> QED
    BY <2>1, <2>2, DecidedGrows
<1>6. TypeOK'
  BY <1>1, <1>3, <1>4, <1>5 DEF TypeOK
<1>7. FilesAreNamed'
  BY <1>1, <1>2, <1>4 DEF FilesAreNamed
<1>8. /\ \A y \in Listed' : y = x \/ y \in Listed
      /\ x \in Listed'
      /\ \A y \in Listed : y \in Listed' \/ (y # x /\ IdOf[y] = IdOf[x])
  <2>1. \A y : y \in Listed' <=> y \in Tx /\ (jtemp'[y] = "full" \/ journal'[IdOf[y]] = y)
    BY <1>6, <1>7, ListedThen
  <2>2. \A y : y \in Listed <=> y \in Tx /\ (jtemp[y] = "full" \/ journal[IdOf[y]] = y)
    BY <1>1, ListedIs
  <2>3. \A y \in Tx : IdOf[y] \in Id
    OBVIOUS
  <2>4. x \in Listed' /\ \A y \in Listed' : y = x \/ y \in Listed
    BY <1>0, <1>4, <2>1, <2>2, <2>3
  <2>5. ASSUME NEW y \in Listed, y \notin Listed' PROVE y # x /\ IdOf[y] = IdOf[x]
    BY <1>0, <1>4, <2>1, <2>2, <2>3, <2>4, <2>5
  <2> QED
    BY <2>4, <2>5
<1>9. \A y : (Alone(y)' <=> Alone(y)) /\ (Redeemable(y)' <=> Redeemable(y))
  BY DEF Alone, Redeemable
<1>10. DiskIsRedeemable'
  BY <1>1, <1>2, <1>5, <1>8, <1>9 DEF DiskIsRedeemable
<1>11. AllOrNothing'
  BY <1>1, <1>2, <1>8, <1>9 DEF AllOrNothing, Alone
<1>12. ShapeOf(p)' /\ RecoveryOf(p)' /\ OldestFirst(p)'
  BY <1>1, <1>3 DEF ShapeOf, RecoveryOf, OldestFirst
<1>13. CommitOf(p)'
  BY <1>3, <1>4, <1>5 DEF CommitOf, Decided
<1>14. \A y \in Tx : y # x => (journal'[IdOf[y]] = y => journal[IdOf[y]] = y)
  BY <1>4
<1> QED
  BY <1>0, <1>3, <1>4, <1>6, <1>7, <1>10, <1>11, <1>12, <1>13, <1>14, HolderKeeps

LEMMA DecideFailsKeeps ==
    ASSUME IInv, NEW p \in Proc, DecideFails(p)
    PROVE  IInv'
<1> USE DEF DecideFails
<1> DEFINE x == proc[p].tx
<1>1. ShapeOf(p) /\ CommitOf(p) /\ CallsAreOwn /\ FilesAreNamed /\ TypeOK
      /\ DiskIsRedeemable /\ AllOrNothing
  BY DEF IInv
<1>2. x \in Tx /\ x \in begun /\ journal[IdOf[x]] # x
  BY <1>1 DEF ShapeOf, CallsAreOwn, CommitOf
<1>3. /\ proc' \in [Proc -> Process] /\ proc'[p].tx = x /\ proc'[p].left = proc[p].left
      /\ proc'[p].at = "undo" /\ proc'[p].k = 1
      /\ \A q \in Proc : q # p => proc'[q] = proc[q]
  BY <1>1, StepIs
<1>4. /\ \A y \in Tx : y # x => jtemp'[y] = jtemp[y]
      /\ jtemp' \in [Tx -> FileState] /\ undone' = undone \union {x}
  BY <1>1, <1>2 DEF TypeOK
<1>5. faults' \in 0 .. MaxFaults
  BY <1>1, FaultIs
<1>6. TypeOK'
  BY <1>1, <1>2, <1>3, <1>4, <1>5 DEF TypeOK
<1>7. FilesAreNamed'
  BY <1>1, <1>2, <1>4 DEF FilesAreNamed
<1>8. \A y : y # x => (y \in Listed' <=> y \in Listed)
  <2>1. \A y : y \in Listed' <=> y \in Tx /\ (jtemp'[y] = "full" \/ journal'[IdOf[y]] = y)
    BY <1>6, <1>7, ListedThen
  <2>2. \A y : y \in Listed <=> y \in Tx /\ (jtemp[y] = "full" \/ journal[IdOf[y]] = y)
    BY <1>1, ListedIs
  <2> QED
    BY <1>2, <1>4, <2>1, <2>2
<1>9. \A y : (Decided(y)' <=> Decided(y)) /\ (Alone(y)' <=> Alone(y)) /\ (Redeemable(y)' <=> Redeemable(y))
  BY DEF Decided, Alone, Redeemable
<1>10. DiskIsRedeemable'
  BY <1>1, <1>4, <1>8, <1>9 DEF DiskIsRedeemable
<1>11. AllOrNothing'
  BY <1>1, <1>4, <1>8, <1>9 DEF AllOrNothing
<1>12. ShapeOf(p)' /\ RecoveryOf(p)' /\ OldestFirst(p)'
  BY <1>1, <1>3 DEF ShapeOf, RecoveryOf, OldestFirst
<1>13. CommitOf(p)'
  <2> HIDE DEF x
  <2> QED
    BY <1>2, <1>3, <1>4 DEF CommitOf
<1> QED
  BY <1>3, <1>4, <1>6, <1>7, <1>10, <1>11, <1>12, <1>13, HolderKeeps

\* One write of a decided transaction: done now, or done before.
LEMMA RenameIs ==
    ASSUME IInv, NEW p \in Proc, NEW x \in Tx, NEW k \in Writes(x), proc[p].tx = x, proc[p].k = k,
           proc[p].at \in {"apply", "roll"}, RenameNext(p),
           Decided(x), x \in Listed \/ ~ Alone(x), x \notin undone => Redeemable(x)
    PROVE  /\ TypeOK' /\ FilesAreNamed' /\ DiskIsRedeemable' /\ AllOrNothing'
           /\ proc'[p].tx = x /\ proc'[p].left = proc[p].left /\ proc'[p].ids = proc[p].ids
           /\ \/ k < Len(WritesOf[x]) /\ proc'[p].at = proc[p].at /\ proc'[p].k = k + 1
              \/ k = Len(WritesOf[x])
                 /\ proc'[p].at = IF proc[p].at = "apply" THEN "seal" ELSE "rremove"
           /\ \A q \in Proc : q # p => proc'[q] = proc[q]
           /\ Listed' = Listed /\ \A y : Decided(y)' <=> Decided(y)
           /\ \A y : Alone(y)' <=> Alone(y)
           /\ \A y \in Tx : Redeemable(y) => Redeemable(y)'
           /\ \A y \in Tx : applied[y] \subseteq applied'[y] /\ applied'[y] \subseteq Writes(y)
           /\ x \notin undone => k \in applied'[x]
<1>1. FilesAreNamed /\ TypeOK /\ DiskIsRedeemable /\ AllOrNothing
  BY DEF IInv
<1>2. k \in Nat /\ k \in 1 .. Len(WritesOf[x]) /\ Len(WritesOf[x]) \in Nat
  BY WritesIs
<1>3. /\ proc' \in [Proc -> Process]
      /\ proc'[p].tx = x /\ proc'[p].left = proc[p].left /\ proc'[p].ids = proc[p].ids
      /\ \/ k < Len(WritesOf[x]) /\ proc'[p].at = proc[p].at /\ proc'[p].k = k + 1
         \/ k = Len(WritesOf[x])
            /\ proc'[p].at = IF proc[p].at = "apply" THEN "seal" ELSE "rremove"
      /\ \A q \in Proc : q # p => proc'[q] = proc[q]
  <2> DEFINE s == IF k < Len(WritesOf[x]) THEN proc[p].at
                  ELSE IF proc[p].at = "apply" THEN "seal" ELSE "rremove"
  <2>1. s \in Holding /\ Step(p, s, k + 1)
    BY DEF RenameNext
  <2>2. /\ proc' \in [Proc -> Process] /\ proc'[p].at = s /\ proc'[p].k = k + 1
        /\ proc'[p].tx = proc[p].tx /\ proc'[p].left = proc[p].left /\ proc'[p].ids = proc[p].ids
        /\ \A q \in Proc : q # p => proc'[q] = proc[q]
    <3> HIDE DEF s
    <3> QED
      BY <1>1, <1>2, <2>1, StepIs
  <2> QED
    BY <1>2, <2>2
<1>4. /\ temp' = [y \in Tx |-> temp'[y]]
      /\ \A y \in Tx : y # x => temp'[y] = temp[y] /\ applied'[y] = applied[y]
      /\ \A y \in Tx : temp'[y] \in [Writes(y) -> FileState]
      /\ target' \in [Path -> Tx \union {Missing, Old}]
      /\ applied' \in [Tx -> SUBSET Nat]
      /\ applied[x] \subseteq applied'[x] /\ applied'[x] \subseteq applied[x] \union {k}
      /\ \A j \in Writes(x) : j # k => temp'[x][j] = temp[x][j]
      /\ temp[x][k] # "none" => k \in applied'[x]
      /\ temp[x][k] = "none" => temp'[x] = temp[x] /\ applied'[x] = applied[x]
  <2>1. CASE /\ temp[x][k] # "none"
             /\ temp' = [temp EXCEPT ![x][k] = "none"]
             /\ target' = [target EXCEPT ![WritesOf[x][k]] = x]
             /\ applied' = [applied EXCEPT ![x] = @ \union {k}]
    <3>1. /\ temp' = [y \in Tx |-> temp'[y]]
          /\ \A y \in Tx : y # x => temp'[y] = temp[y]
          /\ \A j \in Writes(x) : j # k => temp'[x][j] = temp[x][j]
          /\ \A y \in Tx : temp'[y] \in [Writes(y) -> FileState]
      <4>1. temp' = [temp EXCEPT ![x][k] = "none"]
        BY <2>1
      <4>2. temp' = [y \in Tx |-> temp'[y]]
        BY <1>1, <4>1, WriteIs
      <4>3. \A y \in Tx : y # x => temp'[y] = temp[y]
        BY <1>1, <4>1, WriteIs
      <4>4. \A j \in Writes(x) : j # k => temp'[x][j] = temp[x][j]
        BY <1>1, <4>1, WriteIs
      <4>5. \A y \in Tx : temp'[y] \in [Writes(y) -> FileState]
        BY <1>1, <4>1, WriteIs
      <4> QED
        BY <4>2, <4>3, <4>4, <4>5
    <3>2. /\ applied' \in [Tx -> SUBSET Nat] /\ applied'[x] = applied[x] \union {k}
          /\ \A y \in Tx : y # x => applied'[y] = applied[y]
      BY <1>1, <1>2, <2>1 DEF TypeOK
    <3>3. target' \in [Path -> Tx \union {Missing, Old}]
      BY <1>1, <2>1 DEF TypeOK
    <3> QED
      BY <2>1, <3>1, <3>2, <3>3
  <2>2. CASE /\ temp[x][k] = "none"
             /\ UNCHANGED <<temp, target, applied>>
    BY <1>1, <2>2 DEF TypeOK
  <2> QED
    BY <2>1, <2>2 DEF RenameNext
<1>5. TypeOK'
  <2>1. ASSUME NEW y \in Tx PROVE applied'[y] \subseteq Writes(y)
    <3>1. applied[y] \subseteq Writes(y)
      BY <1>1 DEF TypeOK
    <3>2. applied'[y] \subseteq applied[y] \union {k} /\ (y # x => applied'[y] = applied[y])
      BY <1>4
    <3>3. k \in Writes(x)
      OBVIOUS
    <3> QED
      BY <3>1, <3>2, <3>3
  <2> QED
    BY <1>1, <1>3, <1>4, <2>1 DEF TypeOK, RenameNext
<1>6. FilesAreNamed'
  BY <1>1 DEF FilesAreNamed, RenameNext
<1>7. Listed' = Listed /\ \A y : (Decided(y)' <=> Decided(y)) /\ (Alone(y)' <=> Alone(y))
  BY DEF Listed, Decided, Alone, RenameNext
<1>8. x \notin undone => k \in applied'[x]
  BY <1>4 DEF Redeemable
<1>9. ASSUME NEW y \in Tx, Redeemable(y) PROVE Redeemable(y)'
  <2>1. CASE y # x
    BY SMTT(30), <1>4, <1>9, <2>1 DEF Redeemable
  <2>2. CASE y = x
    <3>1. ASSUME NEW j \in Writes(x), j \notin applied'[x] PROVE temp'[x][j] = "full"
      <4>1. j \notin applied[x] /\ temp[x][j] = "full"
        BY <1>4, <1>9, <2>2, <3>1 DEF Redeemable
      <4> QED
        BY <1>4, <3>1, <4>1
    <3> QED
      BY <2>2, <3>1 DEF Redeemable
  <2> QED
    BY <2>1, <2>2
<1>10. Listed \subseteq Tx
  BY <1>1, ListedIs
<1>11. DiskIsRedeemable'
  <2>1. \A y \in Tx : applied'[y] # {} => Decided(y)'
    BY SMTT(30), <1>1, <1>4, <1>7 DEF DiskIsRedeemable
  <2>2. \A y \in Listed' \ undone' : Redeemable(y)'
    BY <1>1, <1>7, <1>9, <1>10 DEF DiskIsRedeemable, RenameNext
  <2> QED
    BY <2>1, <2>2 DEF DiskIsRedeemable
<1>12. AllOrNothing'
  BY SMTT(30), <1>1, <1>4, <1>7 DEF AllOrNothing, RenameNext
<1> QED
  BY <1>3, <1>4, <1>5, <1>6, <1>7, <1>8, <1>9, <1>11, <1>12 DEF TypeOK

LEMMA ApplyKeeps ==
    ASSUME IInv, NEW p \in Proc, Apply(p)
    PROVE  IInv'
<1>1. ShapeOf(p) /\ CommitOf(p) /\ FilesAreNamed /\ TypeOK /\ DiskIsRedeemable
  BY DEF IInv
<1>2. proc[p].at = "apply" /\ RenameNext(p)
  BY DEF Apply
<1>0. PICK x \in Tx : x = proc[p].tx
  BY <1>1, <1>2 DEF ShapeOf
<1>3. PICK k \in Writes(x) : x = proc[p].tx /\ k = proc[p].k
  BY <1>0, <1>1, <1>2 DEF ShapeOf
<1>4. journal[IdOf[x]] = x /\ Decided(x) /\ 1 .. k - 1 \subseteq applied[x]
  BY <1>1, <1>2, <1>3 DEF CommitOf, Decided
<1>5. x \in Listed /\ x \notin undone
  BY <1>1, <1>4, ListedIs DEF FilesAreNamed
<1>6. Redeemable(x)
  BY <1>1, <1>5 DEF DiskIsRedeemable
<1>7. /\ TypeOK' /\ FilesAreNamed' /\ DiskIsRedeemable' /\ AllOrNothing'
      /\ proc'[p].tx = x /\ proc'[p].left = proc[p].left
      /\ \/ k < Len(WritesOf[x]) /\ proc'[p].at = "apply" /\ proc'[p].k = k + 1
         \/ k = Len(WritesOf[x]) /\ proc'[p].at = "seal"
      /\ \A q \in Proc : q # p => proc'[q] = proc[q]
      /\ \A y : Decided(y)' <=> Decided(y)
      /\ applied[x] \subseteq applied'[x] /\ k \in applied'[x]
  BY <1>2, <1>3, <1>4, <1>5, <1>6, RenameIs
<1>8. k \in 1 .. Len(WritesOf[x]) /\ Len(WritesOf[x]) \in Nat /\ Writes(x) = 1 .. Len(WritesOf[x])
  BY WritesIs
<1>9. 1 .. k \subseteq applied'[x]
  BY <1>4, <1>7, <1>8
<1>10. ShapeOf(p)' /\ RecoveryOf(p)' /\ OldestFirst(p)'
  BY <1>1, <1>2, <1>7, <1>8 DEF ShapeOf, RecoveryOf, OldestFirst
<1>11. CommitOf(p)'
  <2>1. journal'[IdOf[x]] = x /\ Decided(x)'
    BY <1>2, <1>4, <1>7 DEF RenameNext
  <2>2. (k + 1) - 1 = k
    BY <1>8
  <2> QED
    BY <1>7, <1>8, <1>9, <2>1, <2>2 DEF CommitOf, Decided
<1> QED
  BY <1>1, <1>2, <1>3, <1>7, <1>10, <1>11, HolderKeeps DEF RenameNext

LEMMA SealKeeps ==
    ASSUME IInv, NEW p \in Proc, Seal(p)
    PROVE  IInv'
<1> USE DEF Seal
<1>1. ShapeOf(p) /\ CommitOf(p) /\ CallsAreOwn /\ FilesAreNamed /\ TypeOK
      /\ DiskIsRedeemable /\ AllOrNothing
  BY DEF IInv
<1>2. CASE Fault(1) /\ UNCHANGED journal
  BY <1>1, <1>2, FaultIs, ReturnKeeps
<1>3. CASE journal' = [journal EXCEPT ![IdOf[proc[p].tx]] = NoTx] /\ UNCHANGED faults
  <2>1. PICK x \in Tx : x = proc[p].tx
    BY <1>1 DEF ShapeOf
  <2>2. journal[IdOf[x]] = x /\ applied[x] = Writes(x)
    BY <1>1, <2>1 DEF CommitOf, TypeOK
  <2>3. /\ proc' \in [Proc -> Process] /\ proc'[p].at \in {"refused", "idle"}
        /\ \A q \in Proc : q # p => proc'[q] = proc[q]
        /\ ShapeOf(p)' /\ CommitOf(p)' /\ RecoveryOf(p)' /\ OldestFirst(p)'
    BY <1>1, RestIs
  <2>4. /\ journal' \in [Id -> Tx \union {NoTx}] /\ journal'[IdOf[x]] = NoTx
        /\ \A i \in Id : i # IdOf[x] => journal'[i] = journal[i]
    BY <1>1, <1>3, <2>1 DEF TypeOK
  <2>5. lock = p /\ lock' = NoProc
    BY <1>1 DEF TypeOK, Return
  <2>6. TypeOK'
    BY ZenonT(30), <1>1, <1>3, <2>3, <2>4, <2>5 DEF TypeOK
  <2>7. FilesAreNamed'
    BY <1>1, <2>4 DEF FilesAreNamed
  <2>8. Listed' \subseteq Listed /\ Listed \subseteq Listed' \union {x}
    <3>1. \A y : y \in Listed' <=> y \in Tx /\ (jtemp'[y] = "full" \/ journal'[IdOf[y]] = y)
      BY <2>6, <2>7, ListedThen
    <3>2. \A y : y \in Listed <=> y \in Tx /\ (jtemp[y] = "full" \/ journal[IdOf[y]] = y)
      BY <1>1, ListedIs
    <3>3. \A y \in Tx : IdOf[y] \in Id
      OBVIOUS
    <3> QED
      BY <2>2, <2>4, <3>1, <3>2, <3>3
  <2>9. \A y : (Alone(y)' <=> Alone(y)) /\ (Redeemable(y)' <=> Redeemable(y)) /\ (Decided(y)' <=> Decided(y))
    BY DEF Alone, Redeemable, Decided
  <2>10. DiskIsRedeemable'
    BY <1>1, <2>8, <2>9 DEF DiskIsRedeemable
  <2>11. AllOrNothing'
    BY <1>1, <2>2, <2>8, <2>9 DEF AllOrNothing
  <2>12. \A y \in Tx : journal'[IdOf[y]] = y => journal[IdOf[y]] = y
    BY <2>4
  <2> QED
    BY <2>3, <2>6, <2>7, <2>10, <2>11, <2>12, HolderKeeps
<1> QED
  BY <1>2, <1>3

-----------------------------------------------------------------------------
(* Steps of a recovery *)

LEMMA PickKeeps ==
    ASSUME IInv, NEW p \in Proc, Pick(p)
    PROVE  IInv'
<1>1. RecoveryOf(p) /\ OldestFirst(p) /\ FilesAreNamed /\ TypeOK /\ DiskIsRedeemable /\ AllOrNothing
      /\ proc[p].at = "pick"
  BY DEF IInv, Pick
<1>2. PICK x \in proc[p].left :
        /\ \A y \in proc[p].left : GenOf[x] <= GenOf[y]
        /\ proc' = [proc EXCEPT ![p].at = "roll", ![p].tx = x, ![p].k = 1]
        /\ decided' = IF \E i \in DOMAIN decided : decided[i] = x THEN decided
                      ELSE Append(decided, x)
  BY DEF Pick
<1>3. x \in Tx /\ proc[p].left \subseteq Tx /\ proc[p].ids \subseteq Id
  BY <1>1, <1>2 DEF TypeOK, Process
<1>4. /\ proc' \in [Proc -> Process]
      /\ proc'[p].at = "roll" /\ proc'[p].tx = x /\ proc'[p].k = 1
      /\ proc'[p].left = proc[p].left /\ proc'[p].ids = proc[p].ids
      /\ \A q \in Proc : q # p => proc'[q] = proc[q]
  <2> DEFINE b == proc[p]
             v == [b EXCEPT !.at = "roll", !.tx = x, !.k = 1]
  <2>1. b \in Process
    BY <1>1 DEF TypeOK
  <2>2. v \in Process /\ v.at = "roll" /\ v.tx = x /\ v.k = 1 /\ v.left = b.left /\ v.ids = b.ids
    <3> HIDE DEF b
    <3> QED BY <1>3, <2>1 DEF Process
  <2>3. proc' = [proc EXCEPT ![p] = v]
    BY <1>2
  <2> HIDE DEF v
  <2> QED
    BY <1>1, <2>2, <2>3, ProcIs
<1>5. /\ decided' \in Seq(Tx)
      /\ Decided(x)' /\ \A y : Decided(y) => Decided(y)'
  <2>1. CASE Decided(x)
    <3>1. decided' = decided
      BY <1>2, <2>1 DEF Decided
    <3> QED
      BY <1>1, <2>1, <3>1 DEF Decided, TypeOK
  <2>2. CASE ~ Decided(x)
    <3>1. decided' = Append(decided, x) /\ decided \in Seq(Tx)
      BY <1>1, <1>2, <2>2 DEF Decided, TypeOK
    <3>2. decided' \in Seq(Tx)
      BY <1>3, <3>1, AppendProperties
    <3> QED
      BY <1>3, <3>1, <3>2, DecidedGrows
  <2> QED
    BY <2>1, <2>2
<1>6. TypeOK'
  BY <1>1, <1>4, <1>5 DEF TypeOK, Pick
<1>7. FilesAreNamed'
  BY <1>1 DEF FilesAreNamed, Pick
<1>8. Listed' = Listed /\ \A y : (Alone(y)' <=> Alone(y)) /\ (Redeemable(y)' <=> Redeemable(y))
  BY DEF Listed, Alone, Redeemable, Pick
<1>9. DiskIsRedeemable'
  BY <1>1, <1>5, <1>8 DEF DiskIsRedeemable, Pick
<1>10. AllOrNothing'
  BY <1>1, <1>8 DEF AllOrNothing, Pick
<1>11. ShapeOf(p)' /\ CommitOf(p)'
  BY <1>3, <1>4, WritesIs DEF ShapeOf, CommitOf
<1>12. OldestFirst(p)'
  BY <1>1, <1>4, <1>8 DEF OldestFirst
<1>13. RecoveryOf(p)'
  <2>1. /\ \A y \in Listed : IdOf[y] \in proc[p].ids
        /\ \A y \in Listed \ undone : y \in proc[p].left \/ applied[y] = Writes(y)
        /\ \A y \in proc[p].left : y \in begun /\ (y \in Listed \/ ~ Alone(y))
                                    /\ (y \notin undone => Redeemable(y))
    BY <1>1 DEF RecoveryOf
  <2>2. undone' = undone /\ begun' = begun /\ applied' = applied
    BY DEF Pick
  <2> QED
    BY <1>2, <1>4, <1>5, <1>8, <2>1, <2>2 DEF RecoveryOf, Decided
<1> QED
  BY <1>1, <1>4, <1>6, <1>7, <1>9, <1>10, <1>11, <1>12, <1>13, HolderKeeps DEF Pick

LEMMA RollKeeps ==
    ASSUME IInv, NEW p \in Proc, Roll(p)
    PROVE  IInv'
<1>1. ShapeOf(p) /\ RecoveryOf(p) /\ OldestFirst(p) /\ FilesAreNamed /\ TypeOK /\ DiskIsRedeemable
  BY DEF IInv
<1>2. proc[p].at = "roll" /\ RenameNext(p)
  BY DEF Roll
<1>0. PICK x \in Tx : x = proc[p].tx
  BY <1>1, <1>2 DEF ShapeOf
<1>3. PICK k \in Writes(x) : x = proc[p].tx /\ k = proc[p].k
  BY <1>0, <1>1, <1>2 DEF ShapeOf
<1>4. /\ \A y \in Listed : IdOf[y] \in proc[p].ids
      /\ \A y \in Listed \ undone : y \in proc[p].left \/ applied[y] = Writes(y)
      /\ \A y \in proc[p].left : y \in begun /\ (y \in Listed \/ ~ Alone(y))
                                  /\ (y \notin undone => Redeemable(y))
      /\ x \in proc[p].left /\ Decided(x) /\ \A y \in proc[p].left : GenOf[x] <= GenOf[y]
      /\ x \notin undone => 1 .. k - 1 \subseteq applied[x]
  BY <1>1, <1>2, <1>3 DEF RecoveryOf, Decided
<1>5. /\ TypeOK' /\ FilesAreNamed' /\ DiskIsRedeemable' /\ AllOrNothing'
      /\ proc'[p].tx = x /\ proc'[p].left = proc[p].left /\ proc'[p].ids = proc[p].ids
      /\ \/ k < Len(WritesOf[x]) /\ proc'[p].at = "roll" /\ proc'[p].k = k + 1
         \/ k = Len(WritesOf[x]) /\ proc'[p].at = "rremove"
      /\ \A q \in Proc : q # p => proc'[q] = proc[q]
      /\ Listed' = Listed /\ \A y : Decided(y)' <=> Decided(y)
      /\ \A y : Alone(y)' <=> Alone(y)
      /\ \A y \in Tx : Redeemable(y) => Redeemable(y)'
      /\ \A y \in Tx : applied[y] \subseteq applied'[y] /\ applied'[y] \subseteq Writes(y)
      /\ x \notin undone => k \in applied'[x]
  BY <1>2, <1>3, <1>4, RenameIs
<1>6. k \in 1 .. Len(WritesOf[x]) /\ Len(WritesOf[x]) \in Nat /\ Writes(x) = 1 .. Len(WritesOf[x])
  BY WritesIs
<1>7. x \notin undone => 1 .. k \subseteq applied'[x]
  <2>1. ASSUME x \notin undone, NEW j \in 1 .. k PROVE j \in applied'[x]
    <3>1. j = k \/ j \in 1 .. k - 1
      BY <1>6
    <3> QED
      BY <1>4, <1>5, <2>1, <3>1
  <2> QED
    BY <2>1
<1>8. ShapeOf(p)' /\ CommitOf(p)'
  BY <1>5, <1>6 DEF ShapeOf, CommitOf
<1>9. OldestFirst(p)'
  BY <1>1, <1>2, <1>5 DEF OldestFirst
<1>10. undone' = undone /\ begun' = begun
  BY <1>2 DEF RenameNext
<1>11. RecoveryOf(p)'
  <2>1. proc[p].left \subseteq Tx /\ Listed \subseteq Tx
    BY <1>1, ListedIs DEF TypeOK, Process
  <2>2. \A y \in Listed \ undone : y \in proc[p].left \/ applied'[y] = Writes(y)
    <3>1. ASSUME NEW y \in Listed \ undone, y \notin proc[p].left PROVE applied'[y] = Writes(y)
      <4>1. y \in Tx /\ applied[y] = Writes(y)
        BY <1>4, <2>1, <3>1
      <4>2. applied[y] \subseteq applied'[y] /\ applied'[y] \subseteq Writes(y)
        BY <1>5, <4>1
      <4> QED
        BY <4>1, <4>2, Zenon
    <3> QED
      BY <3>1
  <2>3. (k + 1) - 1 = k
    BY <1>6
  <2>4. \A y \in proc[p].left : y \notin undone => Redeemable(y)'
    BY <1>4, <1>5, <2>1
  <2>5. x \notin undone /\ k = Len(WritesOf[x]) => applied'[x] = Writes(x)
    BY <1>5, <1>6, <1>7
  <2>6. Decided(x)'
    BY <1>4, <1>5
  <2> QED
    BY <1>4, <1>5, <1>7, <1>10, <2>2, <2>3, <2>4, <2>5, <2>6 DEF RecoveryOf, Decided
<1> QED
  BY <1>1, <1>2, <1>5, <1>8, <1>9, <1>10, <1>11, HolderKeeps DEF RenameNext

\* The completed transaction leaves the directory.  If the file is that of another call under
\* the same lease, neither call was alone.
LEMMA RemoveJournalKeeps ==
    ASSUME IInv, NEW p \in Proc, RemoveJournal(p)
    PROVE  IInv'
<1>1. ShapeOf(p) /\ RecoveryOf(p) /\ OldestFirst(p) /\ FilesAreNamed /\ TypeOK
      /\ DiskIsRedeemable /\ AllOrNothing /\ proc[p].at = "rremove"
  BY DEF IInv, RemoveJournal
<1>2. PICK x \in Tx : x = proc[p].tx
  BY <1>1 DEF ShapeOf
<1>3. CASE Fault(1) /\ Refuse(p) /\ UNCHANGED journal
  BY <1>1, <1>3, FaultIs, ReturnKeeps DEF RemoveJournal
<1>4. CASE /\ journal' = [journal EXCEPT ![IdOf[x]] = NoTx]
           /\ proc' = [proc EXCEPT ![p].at = "pick", ![p].tx = NoTx, ![p].k = 0,
                                   ![p].left = @ \ {x}]
           /\ UNCHANGED <<lock, faults>>
  <2>1. /\ \A y \in Listed : IdOf[y] \in proc[p].ids
        /\ \A y \in Listed \ undone : y \in proc[p].left \/ applied[y] = Writes(y)
        /\ \A y \in proc[p].left : y \in begun /\ (y \in Listed \/ ~ Alone(y))
                                    /\ (y \notin undone => Redeemable(y))
        /\ x \in proc[p].left /\ \A y \in proc[p].left : GenOf[x] <= GenOf[y]
        /\ x \notin undone => applied[x] = Writes(x)
    BY <1>1, <1>2 DEF RecoveryOf
  <2>2. /\ proc' \in [Proc -> Process]
        /\ proc'[p].at = "pick" /\ proc'[p].left = proc[p].left \ {x} /\ proc'[p].ids = proc[p].ids
        /\ \A q \in Proc : q # p => proc'[q] = proc[q]
    <3> DEFINE b == proc[p]
               v == [b EXCEPT !.at = "pick", !.tx = NoTx, !.k = 0, !.left = @ \ {x}]
    <3>1. b \in Process
      BY <1>1 DEF TypeOK
    <3>2. v \in Process /\ v.at = "pick" /\ v.left = b.left \ {x} /\ v.ids = b.ids
      <4> HIDE DEF b
      <4> QED BY <3>1 DEF Process
    <3>3. proc' = [proc EXCEPT ![p] = v]
      BY <1>4
    <3> HIDE DEF v
    <3> QED
      BY <1>1, <3>2, <3>3, ProcIs
  <2>3. /\ journal' \in [Id -> Tx \union {NoTx}] /\ journal'[IdOf[x]] = NoTx
        /\ \A i \in Id : i # IdOf[x] => journal'[i] = journal[i]
    BY <1>1, <1>4 DEF TypeOK
  <2>4. UNCHANGED <<target, temp, pending, jtemp, valid, begun, decided, applied, undone>>
    BY DEF RemoveJournal
  <2>5. TypeOK'
    BY <1>1, <1>4, <2>2, <2>3, <2>4 DEF TypeOK
  <2>6. FilesAreNamed'
    BY <1>1, <2>3, <2>4 DEF FilesAreNamed
  <2>7. /\ Listed' \subseteq Listed /\ Listed \subseteq Tx
        /\ \A y \in Listed : y \in Listed' \/ IdOf[y] = IdOf[x]
    <3>1. \A y : y \in Listed' <=> y \in Tx /\ (jtemp'[y] = "full" \/ journal'[IdOf[y]] = y)
      BY <2>5, <2>6, ListedThen
    <3>2. \A y : y \in Listed <=> y \in Tx /\ (jtemp[y] = "full" \/ journal[IdOf[y]] = y)
      BY <1>1, ListedIs
    <3>3. \A y \in Tx : IdOf[y] \in Id
      OBVIOUS
    <3> QED
      BY <2>3, <2>4, <3>1, <3>2, <3>3
  <2>8. \A y : (Alone(y)' <=> Alone(y)) /\ (Redeemable(y)' <=> Redeemable(y)) /\ (Decided(y)' <=> Decided(y))
    BY <2>4 DEF Alone, Redeemable, Decided
  <2>9. \A y \in Listed : y \in Listed' \/ y = x \/ ~ Alone(y)
    BY <2>1, <2>7 DEF Alone
  <2>10. DiskIsRedeemable'
    BY <1>1, <2>4, <2>7, <2>8 DEF DiskIsRedeemable
  <2>11. AllOrNothing'
    <3>1. ASSUME NEW y \in Tx, y \notin undone, Alone(y)
          PROVE  applied[y] \in {{}, Writes(y)} \/ y \in Listed'
      BY <1>1, <2>1, <2>9, <3>1 DEF AllOrNothing
    <3> QED
      BY <2>4, <2>8, <3>1 DEF AllOrNothing
  <2>12. ShapeOf(p)' /\ CommitOf(p)'
    BY <2>2 DEF ShapeOf, CommitOf
  <2>13. OldestFirst(p)'
    <3>1. ASSUME NEW y \in Tx, Alone(y), IdOf[y] \in proc[p].ids, y \notin proc[p].left \ {x},
                 NEW z \in proc[p].left \ {x}
          PROVE  GenOf[y] <= GenOf[z]
      BY <1>1, <2>1, <3>1 DEF OldestFirst
    <3> QED
      BY <2>2, <2>8, <3>1 DEF OldestFirst
  <2>14. RecoveryOf(p)'
    <3>1. \A y \in Listed' : IdOf[y] \in proc[p].ids
      BY <2>1, <2>7
    <3>2. \A y \in Listed' \ undone : y \in proc[p].left \ {x} \/ applied[y] = Writes(y)
      BY <2>1, <2>7
    <3>3. \A y \in proc[p].left \ {x} : y \in begun /\ (y \in Listed' \/ ~ Alone(y))
                                          /\ (y \notin undone => Redeemable(y))
      BY <2>1, <2>9
    <3> QED
      BY <2>2, <2>4, <2>8, <3>1, <3>2, <3>3 DEF RecoveryOf
  <2>15. \A y \in Tx : journal'[IdOf[y]] = y => journal[IdOf[y]] = y
    BY <2>3
  <2> QED
    BY <1>1, <2>2, <2>4, <2>5, <2>6, <2>10, <2>11, <2>12, <2>13, <2>14, <2>15, HolderKeeps
<1> QED
  BY <1>2, <1>3, <1>4 DEF RemoveJournal

LEMMA DiscardPendingKeeps ==
    ASSUME IInv, NEW p \in Proc, DiscardPending(p)
    PROVE  IInv'
<1>1. RecoveryOf(p) /\ OldestFirst(p) /\ FilesAreNamed /\ TypeOK
      /\ DiskIsRedeemable /\ AllOrNothing /\ proc[p].at = "pick" /\ proc[p].left = {}
  BY DEF IInv, DiscardPending
<1>2. PICK i \in Id \ proc[p].ids :
        /\ pending[i] # NoTx
        /\ \/ /\ Remove(pending[i], Writes(pending[i]))
              /\ pending' = [pending EXCEPT ![i] = NoTx]
              /\ UNCHANGED faults
           \/ /\ Fault(1)
              /\ \/ Remove(pending[i], Writes(pending[i])) /\ UNCHANGED pending
                 \/ /\ \E k \in Writes(pending[i]) : Remove(pending[i], Writes(pending[i]) \ {k})
                    /\ pending' = [pending EXCEPT ![i] = NoTx]
        /\ proc' = [proc EXCEPT ![p].ids = @ \union {i}]
  BY DEF DiscardPending
<1>3. PICK x \in Tx : x = pending[i]
  BY <1>1, <1>2 DEF TypeOK
<1>4. x \in begun /\ IdOf[x] = i /\ x \notin Listed
  BY <1>1, <1>2, <1>3 DEF FilesAreNamed, RecoveryOf
<1>5. PICK ks : Remove(x, ks)
  BY <1>2, <1>3
<1>6. /\ temp' = [y \in Tx |-> temp'[y]]
      /\ \A y \in Tx : y # x => temp'[y] = temp[y]
      /\ \A y \in Tx : temp'[y] \in [Writes(y) -> FileState]
  BY <1>1, <1>5, RemoveIs
<1>7. UNCHANGED <<lock, target, journal, jtemp, valid, begun, decided, applied, undone>>
  BY DEF DiscardPending
<1>8. /\ proc' \in [Proc -> Process]
      /\ proc'[p].at = "pick" /\ proc'[p].left = {} /\ proc'[p].ids = proc[p].ids \union {i}
      /\ \A q \in Proc : q # p => proc'[q] = proc[q]
  <2> DEFINE b == proc[p]
             v == [b EXCEPT !.ids = @ \union {i}]
  <2>1. b \in Process
    BY <1>1 DEF TypeOK
  <2>2. v \in Process /\ v.at = b.at /\ v.left = b.left /\ v.ids = b.ids \union {i}
    <3> HIDE DEF b
    <3> QED BY <2>1 DEF Process
  <2>3. proc' = [proc EXCEPT ![p] = v]
    BY <1>2
  <2> HIDE DEF v
  <2> QED
    BY <1>1, <2>2, <2>3, ProcIs
<1>9. faults' \in 0 .. MaxFaults
  BY <1>1, <1>2, FaultIs DEF TypeOK
<1>10. pending' \in [Id -> Tx \union {NoTx}] /\ \A j \in Id : pending'[j] \in {pending[j], NoTx}
  BY <1>1, <1>2 DEF TypeOK
<1>11. TypeOK'
  BY <1>1, <1>6, <1>7, <1>8, <1>9, <1>10 DEF TypeOK
<1>12. FilesAreNamed'
  BY <1>1, <1>7, <1>10 DEF FilesAreNamed
<1>13. /\ DiskIsRedeemable' /\ AllOrNothing' /\ Listed' = Listed
       /\ \A y : Alone(y)' <=> Alone(y)
  BY <1>1, <1>4, <1>6, <1>7, SameJournals
<1>14. ShapeOf(p)' /\ CommitOf(p)' /\ OldestFirst(p)'
  BY <1>8 DEF ShapeOf, CommitOf, OldestFirst
<1>15. RecoveryOf(p)'
  BY <1>1, <1>7, <1>8, <1>13 DEF RecoveryOf
<1> QED
  BY <1>1, <1>7, <1>8, <1>11, <1>12, <1>13, <1>14, <1>15, HolderKeeps

LEMMA EndRecoveryKeeps ==
    ASSUME IInv, NEW p \in Proc, EndRecovery(p)
    PROVE  IInv'
<1> USE DEF EndRecovery
<1>1. RecoveryOf(p) /\ FilesAreNamed /\ TypeOK /\ DiskIsRedeemable /\ AllOrNothing
  BY DEF IInv
<1>2. /\ proc' \in [Proc -> Process] /\ proc'[p].at \in {"refused", "idle"}
      /\ \A q \in Proc : q # p => proc'[q] = proc[q]
      /\ ShapeOf(p)' /\ CommitOf(p)' /\ RecoveryOf(p)' /\ OldestFirst(p)'
  BY <1>1, RestIs
<1>3. /\ jtemp' \in [Tx -> FileState] /\ \A y \in Tx : jtemp'[y] \in {jtemp[y], "none"}
      /\ faults' \in 0 .. MaxFaults
  BY <1>1, FaultIs DEF TypeOK, FileState
<1>4. TypeOK'
  <2>1. lock = p /\ lock' = NoProc
    BY <1>1 DEF TypeOK, Return
  <2> QED
    BY <1>1, <1>2, <1>3, <2>1 DEF TypeOK
<1>5. FilesAreNamed'
  BY <1>1, <1>3 DEF FilesAreNamed
<1>6. Listed' \subseteq Listed
  <2>1. \A y : y \in Listed' <=> y \in Tx /\ (jtemp'[y] = "full" \/ journal'[IdOf[y]] = y)
    BY <1>4, <1>5, ListedThen
  <2>2. \A y : y \in Listed <=> y \in Tx /\ (jtemp[y] = "full" \/ journal[IdOf[y]] = y)
    BY <1>1, ListedIs
  <2> QED
    BY <1>3, <2>1, <2>2
<1>7. \A y : (Alone(y)' <=> Alone(y)) /\ (Redeemable(y)' <=> Redeemable(y)) /\ (Decided(y)' <=> Decided(y))
  BY DEF Alone, Redeemable, Decided
<1>8. DiskIsRedeemable'
  BY <1>1, <1>6, <1>7 DEF DiskIsRedeemable
<1>9. \A y \in Listed \ undone : applied[y] = Writes(y)
  BY <1>1 DEF RecoveryOf
<1>10. AllOrNothing'
  BY <1>1, <1>7, <1>9 DEF AllOrNothing
<1> QED
  BY <1>1, <1>2, <1>3, <1>4, <1>5, <1>8, <1>10, HolderKeeps

LEMMA NextKeeps ==
    ASSUME IInv, [Next]_vars
    PROVE  IInv'
<1>1. CASE UNCHANGED vars
  <2>3. TypeOK /\ CallsAreOwn /\ FilesAreNamed /\ DiskIsRedeemable /\ AllOrNothing
    BY DEF IInv
  <2>4. TypeOK'
    BY <1>1, <2>3 DEF vars, TypeOK
  <2>5. CallsAreOwn' /\ FilesAreNamed'
    BY <1>1, <2>3 DEF vars, CallsAreOwn, FilesAreNamed
  <2>6. DiskIsRedeemable' /\ AllOrNothing'
    BY <1>1, <2>3, SameJournals DEF vars
  <2>1. TypeOK' /\ CallsAreOwn' /\ FilesAreNamed' /\ DiskIsRedeemable' /\ AllOrNothing'
    BY <2>4, <2>5, <2>6
  <2>2. ASSUME NEW p \in Proc
        PROVE  (ShapeOf(p) /\ CommitOf(p) /\ RecoveryOf(p) /\ OldestFirst(p))'
    <3>1. ShapeOf(p) /\ CommitOf(p) /\ RecoveryOf(p) /\ OldestFirst(p)
      BY DEF IInv
    <3>2. ShapeOf(p)' /\ CommitOf(p)'
      BY <1>1, <3>1 DEF vars, ShapeOf, CommitOf, Decided
    <3>3. RecoveryOf(p)' /\ OldestFirst(p)'
      BY <1>1, <3>1 DEF vars, RecoveryOf, OldestFirst, Redeemable, Listed, Decided, Alone
    <3> QED
      BY <3>2, <3>3
  <2> QED
    BY <2>1, <2>2 DEF IInv
<1>2. ASSUME NEW p \in Proc, CommitStep(p)
      PROVE  IInv'
  BY <1>2, TakeCommitLockKeeps, WritePendingKeeps, CreateTempKeeps, WriteTempKeeps,
     StageFailsKeeps, FailuresKeep, UndoNextKeeps, UndoDoneKeeps, CreateJournalKeeps,
     DecideKeeps, DecideFailsKeeps, ClearPendingKeeps, ApplyKeeps, SealKeeps DEF CommitStep
<1>3. ASSUME NEW p \in Proc, RecoverStep(p)
      PROVE  IInv'
  BY <1>3, StartKeeps, ListKeeps, FailuresKeep, PickKeeps, RollKeeps, RemoveJournalKeeps,
     DiscardPendingKeeps, EndRecoveryKeeps DEF RecoverStep
<1> QED
  BY <1>1, <1>2, <1>3, CrashKeeps, BeginKeeps, LeaseEndsKeeps DEF Next

-----------------------------------------------------------------------------
(* Theorems *)

\* The invariant of shared transactions, with the types: it holds for every number of
\* processes, calls, targets, failing operations and crashes.
THEOREM TransactionInvariant == Spec => []IInv
<1> QED
  BY InitHolds, NextKeeps, PTL DEF Spec

\* A transaction of its own lease that reached some of its targets and not all is in the
\* journal directory, wherever its process or a recovery of it was interrupted.
THEOREM NoneIsHalfApplied == Spec => []AllOrNothing
<1>1. IInv => AllOrNothing
  BY DEF IInv
<1> QED
  BY <1>1, TransactionInvariant, PTL

\* What the journal promises lies on disk: rolling a transaction forward finds a complete
\* temporary for every target that was not reached.
THEOREM JournalsAreRedeemable == Spec => []JournalIsRedeemable
<1>1. ASSUME IInv PROVE JournalIsRedeemable
  <2>1. TypeOK /\ FilesAreNamed /\ DiskIsRedeemable
    BY <1>1 DEF IInv
  <2>2. \A x \in Tx : journal[IdOf[x]] = x => x \in Listed \ undone
    BY <2>1, ListedIs DEF FilesAreNamed
  <2> QED
    BY <2>1, <2>2 DEF DiskIsRedeemable, Redeemable, JournalIsRedeemable
<1> QED
  BY <1>1, TransactionInvariant, PTL

\* A recovery never puts the content of an older lease over that of a newer one.
THEOREM NewestWins == Spec => NewestLeaseWins
<1>1. ASSUME IInv, NEW p \in Proc, proc[p].at = "roll", NEW y \in Tx, Alone(y),
             IdOf[y] \in proc[p].ids, y \notin proc[p].left
      PROVE  GenOf[y] <= GenOf[proc[p].tx]
  <2>1. RecoveryOf(p) /\ OldestFirst(p)
    BY <1>1 DEF IInv
  <2> QED
    BY <1>1, <2>1 DEF RecoveryOf, OldestFirst
<1>2. IInv => [\A p \in Proc, q \in Path :
                 (proc[p].at = "roll" /\ target'[q] # target[q]) =>
                   \A y \in Tx : (/\ target[q] = y /\ Alone(y)
                                   /\ IdOf[y] \in proc[p].ids /\ y \notin proc[p].left) =>
                       GenOf[y] <= GenOf[proc[p].tx]]_vars
  BY <1>1
<1> QED
  BY <1>2, TransactionInvariant, PTL DEF NewestLeaseWins
=============================================================================
