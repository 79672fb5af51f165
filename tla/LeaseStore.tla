----------------------------- MODULE LeaseStore -----------------------------
(***************************************************************************)
(* The cross-process lease store of CodeWave                               *)
(* (core/process_coordination/owner.rs and DiskLock in mod.rs).            *)
(*                                                                         *)
(* One lease is one file.  A claim takes the resource's OS file lock,      *)
(* creates the file with O_EXCL, draws a generation from a counter file    *)
(* under a second lock, and only then writes the record: between the two   *)
(* file operations the file exists and cannot be parsed.  A process may    *)
(* die between any two steps; the OS then drops its locks and the disk     *)
(* stays as it is.  A file may fail to be read: a lease then counts as     *)
(* absent or unreadable, and the counter as 0, so that generations start   *)
(* again.  Callers are threads; several share a process id.                *)
(***************************************************************************)
EXTENDS Naturals, FiniteSets

CONSTANTS
    Caller,     \* threads that call the store
    Pid,        \* operating system processes
    PidOf,      \* the process each caller lives in
    Resource,   \* lease keys ("history:<id>", a canonical root, ...)
    Run,        \* claim identities: (session, root run, attempt)
    Claims,     \* what each caller claims: (resource, run) pairs
    Reaper,     \* callers that use force_release (external: none at present)
    MaxGen,     \* u64::MAX: the generation after which the counter is exhausted
    MaxLost,    \* bound of the model: how often the counter is misread
    NoFile,     \* the lease file does not exist
    Blank,      \* the lease file exists and does not parse
    NoLease,    \* no call in progress
    NoCaller    \* a free lock

\* A lease record; generation 0 is never granted.
Lease == [res : Resource, run : Run, pid : Pid, gen : 0..MaxGen]

ASSUME PidAssumption == PidOf \in [Caller -> Pid]
ASSUME ClaimsAssumption == Claims \in [Caller -> SUBSET (Resource \X Run)]
ASSUME ReaperAssumption == Reaper \subseteq Caller
ASSUME MaxGenAssumption == MaxGen \in Nat /\ MaxLost \in Nat
ASSUME SentinelAssumption ==
    /\ NoFile \notin Lease /\ Blank \notin Lease /\ NoFile # Blank
    /\ NoLease \notin Lease /\ NoCaller \notin Caller

VARIABLES
    file,       \* lease file of each resource
    gen,        \* the counter file
    ownerLock,  \* owner-locks/<digest>.lock: the caller that has it
    genLock,    \* generation.lock
    pc,         \* where each caller is
    lease,      \* the lease each caller is building or giving back
    alive,      \* processes that have not died
    issued,     \* history: every record ever written to disk
    held,       \* history: granted leases neither given back nor removed by force
    lost        \* history: how often the counter was read as 0 although it was not

vars == <<file, gen, ownerLock, genLock, pc, lease, alive, issued, held, lost>>

\* Claim: gate -> create -> draw -> count -> write.  Release: rgate -> check ->
\* remove.  Forced release: fgate -> fremove.
Acquiring == {"gate", "create", "draw", "count", "write"}
Releasing == {"rgate", "check", "remove"}
Forcing == {"fgate", "fremove"}
HasOwnerLock == {"create", "draw", "count", "write", "check", "remove", "fremove"}
Control == {"idle", "dead"} \union Acquiring \union Releasing \union Forcing

\* The file of the resource a caller is working on.
FileOf(c) == file[lease[c].res]

TypeOK ==
    /\ file \in [Resource -> Lease \union {NoFile, Blank}]
    /\ gen \in 0..MaxGen
    /\ ownerLock \in [Resource -> Caller \union {NoCaller}]
    /\ genLock \in Caller \union {NoCaller}
    /\ pc \in [Caller -> Control]
    /\ lease \in [Caller -> Lease \union {NoLease}]
    /\ \A c \in Caller : lease[c] = NoLease <=> pc[c] \in {"idle", "dead"}
    /\ alive \subseteq Pid
    /\ issued \subseteq Lease
    /\ held \subseteq Lease
    /\ lost \in 0..MaxLost

Init ==
    /\ file = [r \in Resource |-> NoFile]
    /\ gen = 0
    /\ ownerLock = [r \in Resource |-> NoCaller]
    /\ genLock = NoCaller
    /\ pc = [c \in Caller |-> "idle"]
    /\ lease = [c \in Caller |-> NoLease]
    /\ alive = Pid
    /\ issued = {}
    /\ held = {}
    /\ lost = 0

Goto(c, at) == pc' = [pc EXCEPT ![c] = at]
WriteFile(c, f) == file' = [file EXCEPT ![lease[c].res] = f]

\* Return to the application, dropping the gate.
Return(c) ==
    /\ Goto(c, "idle")
    /\ ownerLock' = [ownerLock EXCEPT ![lease[c].res] = NoCaller]
    /\ lease' = [lease EXCEPT ![c] = NoLease]

\* Take the OS lock of the resource; blocks while another caller has it.
TakeGate(c, at, next) ==
    /\ pc[c] = at
    /\ ownerLock[lease[c].res] = NoCaller
    /\ ownerLock' = [ownerLock EXCEPT ![lease[c].res] = c]
    /\ Goto(c, next)
    /\ UNCHANGED <<file, gen, genLock, lease, alive, issued, held, lost>>

\* The lock file cannot be opened or locked: the call returns the error.
GateFails(c) ==
    /\ pc[c] \in {"gate", "rgate", "fgate"}
    /\ Goto(c, "idle")
    /\ lease' = [lease EXCEPT ![c] = NoLease]
    /\ UNCHANGED <<file, gen, ownerLock, genLock, alive, issued, held, lost>>

-----------------------------------------------------------------------------
(* Claiming *)

\* A run is driven by one task: it does not claim and give back concurrently.
RunQuiet(r, i) ==
    \A d \in Caller : lease[d] # NoLease => ~ (lease[d].res = r /\ lease[d].run = i)

CallAcquire(c, r, i) ==
    /\ pc[c] = "idle"
    /\ <<r, i>> \in Claims[c]
    /\ RunQuiet(r, i)
    /\ lease' = [lease EXCEPT ![c] = [res |-> r, run |-> i, pid |-> PidOf[c], gen |-> 0]]
    /\ Goto(c, "gate")
    /\ UNCHANGED <<file, gen, ownerLock, genLock, alive, issued, held, lost>>

AcquireGate(c) == TakeGate(c, "gate", "create")

\* O_CREAT|O_EXCL succeeded: an empty file now stands for the lease.
CreateNew(c) ==
    /\ pc[c] = "create"
    /\ FileOf(c) = NoFile
    /\ WriteFile(c, Blank)
    /\ Goto(c, "draw")
    /\ UNCHANGED <<gen, ownerLock, genLock, lease, alive, issued, held, lost>>

\* AlreadyExists: the caller's own lease is returned to it once more; another
\* holder (resource_held, stale_generation) or a file that cannot be read or
\* parsed (lease_unreadable) is an error that changes nothing.
FindHolder(c) ==
    /\ pc[c] = "create"
    /\ FileOf(c) # NoFile
    /\ held' \in {held, held \union {l \in {FileOf(c)} \ {Blank} :
                                       l.pid = PidOf[c] /\ l.run = lease[c].run}}
    /\ Return(c)
    /\ UNCHANGED <<file, gen, genLock, alive, issued, lost>>

\* What the counter says: a file that is missing, cannot be read or does not
\* parse counts as 0 (unwrap_or(0)).
Draw(c, n) ==
    /\ pc[c] = "draw"
    /\ n < MaxGen
    /\ lease' = [lease EXCEPT ![c].gen = n + 1]
    /\ lost' = IF n = gen THEN lost ELSE lost + 1
    /\ lost' <= MaxLost
    /\ Goto(c, "count")

\* Fault: the counter is read without its lock.
ReadGenerationUnlocked(c) ==
    /\ \E n \in {gen, 0} : Draw(c, n)
    /\ UNCHANGED <<file, gen, ownerLock, genLock, alive, issued, held>>

\* next_generation: read the counter under generation.lock ...
ReadGeneration(c) ==
    /\ genLock = NoCaller
    /\ genLock' = c
    /\ \E n \in {gen, 0} : Draw(c, n)
    /\ UNCHANGED <<file, gen, ownerLock, alive, issued, held>>

\* ... and replace it before the lock is dropped.
WriteGeneration(c) ==
    /\ pc[c] = "count"
    /\ gen' = lease[c].gen
    /\ genLock' = NoCaller
    /\ Goto(c, "write")
    /\ UNCHANGED <<file, ownerLock, lease, alive, issued, held, lost>>

\* generation_exhausted, or the counter cannot be replaced: the placeholder is
\* removed, and stays behind when the removal fails too (its result is ignored).
DrawFails(c) ==
    /\ \/ pc[c] = "draw" /\ genLock = NoCaller
       \/ pc[c] = "count"
    /\ genLock' = NoCaller
    /\ \E left \in {NoFile, Blank} : WriteFile(c, left)
    /\ Return(c)
    /\ UNCHANGED <<gen, alive, issued, held, lost>>

WriteRecord(c) ==
    /\ pc[c] = "write"
    /\ WriteFile(c, lease[c])
    /\ issued' = issued \union {lease[c]}
    /\ held' = held \union {lease[c]}
    /\ Return(c)
    /\ UNCHANGED <<gen, genLock, alive, lost>>

\* The write or the sync failed.  The file is removed; when that fails as well
\* it keeps whatever was written, the whole record included.
WriteFails(c) ==
    /\ pc[c] = "write"
    /\ \E left \in {NoFile, Blank, lease[c]} :
         /\ WriteFile(c, left)
         /\ issued' = issued \union ({left} \ {NoFile, Blank})
    /\ Return(c)
    /\ UNCHANGED <<gen, genLock, alive, held, lost>>

-----------------------------------------------------------------------------
(* Giving back *)

\* A process gives back a lease of its own, possibly one it gave back long ago
\* (a late completion).
CallRelease(c, l) ==
    /\ pc[c] = "idle"
    /\ l \in issued /\ l.pid = PidOf[c]
    /\ RunQuiet(l.res, l.run)
    /\ lease' = [lease EXCEPT ![c] = l]
    /\ held' = held \ {l}
    /\ Goto(c, "rgate")
    /\ UNCHANGED <<file, gen, ownerLock, genLock, alive, issued, lost>>

\* recover_session_owner_if_proven: the record is read without the lock, its
\* process is proven gone, and that record is then released.
CallRecover(c, r) ==
    /\ pc[c] = "idle"
    /\ file[r] \in Lease
    /\ file[r].pid \notin alive
    /\ lease' = [lease EXCEPT ![c] = file[r]]
    /\ held' = held \ {file[r]}
    /\ Goto(c, "rgate")
    /\ UNCHANGED <<file, gen, ownerLock, genLock, alive, issued, lost>>

ReleaseGate(c) == TakeGate(c, "rgate", "check")

\* Fault: a release removes whatever lease it finds.
CheckAnyGeneration(c) ==
    /\ pc[c] = "check"
    /\ FileOf(c) \notin {NoFile, Blank}
    /\ Goto(c, "remove")
    /\ UNCHANGED <<file, gen, ownerLock, genLock, lease, alive, issued, held, lost>>

CheckGeneration(c) ==
    /\ pc[c] = "check"
    /\ FileOf(c) \notin {NoFile, Blank}
    /\ FileOf(c).gen = lease[c].gen
    /\ Goto(c, "remove")
    /\ UNCHANGED <<file, gen, ownerLock, genLock, lease, alive, issued, held, lost>>

\* Fault: the early return of a refused release keeps the lock.
RefuseReleaseLocked(c) ==
    /\ pc[c] = "check"
    /\ Goto(c, "idle")
    /\ lease' = [lease EXCEPT ![c] = NoLease]
    /\ UNCHANGED <<file, gen, ownerLock, genLock, alive, issued, held, lost>>

\* generation_mismatch, or no_lease: the file is missing, does not parse or
\* cannot be read.  Nothing is removed.
RefuseRelease(c) ==
    /\ pc[c] = "check"
    /\ Return(c)
    /\ UNCHANGED <<file, gen, genLock, alive, issued, held, lost>>

\* remove_file; an I/O error leaves the record and is returned.
RemoveFile(c) ==
    /\ pc[c] = "remove"
    /\ \E left \in {NoFile, FileOf(c)} : WriteFile(c, left)
    /\ Return(c)
    /\ UNCHANGED <<gen, genLock, alive, issued, held, lost>>

\* force_release: the caller has to know that the holder exited.  It names the
\* resource, and what the file holds by then is removed, whatever its generation.
CallForceRelease(c, r) ==
    /\ c \in Reaper
    /\ pc[c] = "idle"
    /\ file[r] \in Lease
    /\ file[r].pid \notin alive
    /\ lease' = [lease EXCEPT ![c] = file[r]]
    /\ Goto(c, "fgate")
    /\ UNCHANGED <<file, gen, ownerLock, genLock, alive, issued, held, lost>>

ForceGate(c) == TakeGate(c, "fgate", "fremove")

ForceRemove(c) ==
    /\ pc[c] = "fremove"
    /\ \/ UNCHANGED <<file, held>>         \* no_lease, or the removal fails
       \/ /\ FileOf(c) \notin {NoFile, Blank}
          /\ WriteFile(c, NoFile)
          /\ held' = held \ {FileOf(c)}
    /\ Return(c)
    /\ UNCHANGED <<gen, genLock, alive, issued, lost>>

\* A process dies wherever its threads are; the OS drops its file locks.
Crash(p) ==
    /\ p \in alive
    /\ alive' = alive \ {p}
    /\ pc' = [c \in Caller |-> IF PidOf[c] = p THEN "dead" ELSE pc[c]]
    /\ lease' = [c \in Caller |-> IF PidOf[c] = p THEN NoLease ELSE lease[c]]
    /\ ownerLock' = [r \in Resource |->
                       IF ownerLock[r] # NoCaller /\ PidOf[ownerLock[r]] = p
                       THEN NoCaller ELSE ownerLock[r]]
    /\ genLock' = IF genLock # NoCaller /\ PidOf[genLock] = p THEN NoCaller ELSE genLock
    /\ UNCHANGED <<file, gen, issued, held, lost>>

-----------------------------------------------------------------------------
Claim(c) ==
    \/ \E r \in Resource, i \in Run : CallAcquire(c, r, i)
    \/ AcquireGate(c) \/ GateFails(c) \/ CreateNew(c) \/ FindHolder(c)
    \/ ReadGeneration(c) \/ WriteGeneration(c) \/ DrawFails(c)
    \/ WriteRecord(c) \/ WriteFails(c)

GiveBack(c) ==
    \/ \E l \in issued : CallRelease(c, l)
    \/ \E r \in Resource : CallRecover(c, r) \/ CallForceRelease(c, r)
    \/ ReleaseGate(c) \/ CheckGeneration(c) \/ RefuseRelease(c) \/ RemoveFile(c)
    \/ ForceGate(c) \/ ForceRemove(c)

Next ==
    \/ \E c \in Caller : Claim(c) \/ GiveBack(c)
    \/ \E p \in Pid : Crash(p)

\* The steps a call takes by itself; an error at the gate is not one of them.
Step(c) ==
    \/ AcquireGate(c) \/ CreateNew(c) \/ FindHolder(c)
    \/ ReadGeneration(c) \/ WriteGeneration(c) \/ DrawFails(c)
    \/ WriteRecord(c) \/ WriteFails(c)
    \/ ReleaseGate(c) \/ CheckGeneration(c) \/ RefuseRelease(c) \/ RemoveFile(c)
    \/ ForceGate(c) \/ ForceRemove(c)

\* A running thread is scheduled, and the OS grants a lock that is free again
\* and again to each thread that waits for it.
Fairness == \A c \in Caller : SF_vars(Step(c))

Spec == Init /\ [][Next]_vars
FairSpec == Spec /\ Fairness

-----------------------------------------------------------------------------
(* The contract this module implements: a file that does not parse is not a   *)
(* lease in force, but it is not free either.                                 *)
Contract == INSTANCE FencedLock WITH
    NoOwner <- NoFile,
    owner <- [r \in Resource |-> IF file[r] = Blank THEN NoFile ELSE file[r]],
    granted <- issued,
    lost <- lost > 0

\* The lease store implements the fenced lock of the coordination contract: one
\* owner at a time whatever fails, and grants in order of their generations
\* unless the counter was misread.
ImplementsContract == Contract!FSpec

-----------------------------------------------------------------------------
(* Properties *)

\* Generations tell leases apart as long as the counter is read: a generation
\* then names one lease for ever, and a release that checks it cannot take a
\* successor's lease for its own.
UniqueGenerations ==
    lost = 0 => \A l, m \in issued : l.gen = m.gen => l = m

\* Whatever is on disk was granted for its resource and, unless the counter was
\* misread, is the newest such lease: a holder that was superseded can find out
\* by comparing generations.
NewestOnDisk ==
    \A r \in Resource : file[r] \in Lease =>
        /\ file[r] \in issued /\ file[r].res = r
        /\ lost = 0 => \A l \in issued : l.res = r => l.gen <= file[r].gen

\* The counter was misread and a lease's generation issued again for its resource.
Reissued(l) == \E m \in issued : m # l /\ m.res = l.res /\ m.gen = l.gen

\* A granted lease stays on disk until its holder gives it back or is proven
\* gone, or its file is removed by force: late releases, failed claims of others
\* and crashes never remove it, unless its resource had another lease with the
\* very same generation.
HeldOnDisk == \A l \in held : file[l.res] = l \/ Reissued(l)

\* The file system steps of a claim and of a release exclude each other, and
\* what a caller learned under a lock still holds when it acts on it.
LocksExclude ==
    /\ \A c \in Caller : pc[c] \in HasOwnerLock => ownerLock[lease[c].res] = c
    /\ \A c \in Caller : pc[c] = "count" => genLock = c /\ (lost > 0 \/ lease[c].gen = gen + 1)
    /\ \A c \in Caller : pc[c] \in {"draw", "count", "write"} => FileOf(c) = Blank
    /\ \A c \in Caller : pc[c] = "remove" =>
         FileOf(c) \notin {NoFile, Blank} /\ FileOf(c).gen = lease[c].gen

\* Unless it was misread, the counter is never behind a lease, also while a claim
\* is being written or after a process died between the counter and the record: a
\* drawn generation is new to every other claim and above all leases of its
\* resource.
CounterCovers == lost = 0 =>
    /\ \A l \in issued : l.gen \in 1..gen
    /\ \A c \in Caller : pc[c] = "write" => lease[c].gen \in 1..gen
    /\ \A c \in Caller, l \in issued : pc[c] \in {"count", "write"} =>
         l.gen # lease[c].gen /\ (l.res = lease[c].res => l.gen < lease[c].gen)
    /\ \A c, d \in Caller : (pc[c] = "write" /\ pc[d] = "write" /\ c # d) =>
         lease[c].gen # lease[d].gen

\* A caller that claims names its own process, one that gives back names a
\* lease that was issued and that its holder no longer counts on; the two are
\* never under way for the same run of a live process.
CallsAreSound ==
    /\ \A c \in Caller : pc[c] # "dead" => PidOf[c] \in alive
    /\ \A c \in Caller : pc[c] \in Acquiring => lease[c].pid = PidOf[c]
    /\ \A c \in Caller : pc[c] \in Releasing \union Forcing => lease[c] \in issued
    /\ \A c \in Caller : pc[c] \in Releasing => lease[c] \notin held
    /\ \A c, d \in Caller :
         (pc[c] \in Releasing /\ pc[d] \in Acquiring /\ lease[c].pid \in alive) =>
             ~ (lease[c].res = lease[d].res /\ lease[c].run = lease[d].run)

\* The inductive invariant behind the contract.
IInv ==
    /\ TypeOK /\ UniqueGenerations /\ NewestOnDisk
    /\ LocksExclude /\ CounterCovers /\ CallsAreSound

\* Every call returns to the application unless its process dies.
CallsReturn == \A c \in Caller : pc[c] \notin {"idle", "dead"} ~> pc[c] \in {"idle", "dead"}
=============================================================================
