----------------------------- MODULE FencedLock -----------------------------
(***************************************************************************)
(* What the lease store promises, without files, locks or crashes: a table *)
(* of owners in which a resource has at most one owner at a time and every *)
(* grant carries a generation that no grant before it had and that is      *)
(* above all earlier ones of the same resource.  The count of generations  *)
(* may get lost; from then on only the single owner is promised.  The      *)
(* trait documentation in core/coordinator.rs states this contract;        *)
(* LeaseStore implements it.                                               *)
(***************************************************************************)
EXTENDS Naturals

CONSTANTS
    Resource,
    Lease,      \* possible leases: records with at least fields res and gen
    NoOwner

\* What the theorems about this contract ask of the constants.
LeaseAssumption ==
    /\ \A l \in Lease : l.res \in Resource /\ l.gen \in Nat
    /\ NoOwner \notin Lease

VARIABLES
    owner,      \* the lease in force for each resource
    granted,    \* history: every lease granted so far
    lost        \* the count of generations was lost

fvars == <<owner, granted, lost>>

FTypeOK ==
    /\ owner \in [Resource -> Lease \union {NoOwner}]
    /\ granted \subseteq Lease
    /\ lost \in BOOLEAN

FInit ==
    /\ owner = [r \in Resource |-> NoOwner]
    /\ granted = {}
    /\ lost = FALSE

\* A free resource is granted, under a fresh generation unless the count was lost.
Grant(l) ==
    /\ owner[l.res] = NoOwner
    /\ lost \/ \A m \in granted : m.gen # l.gen /\ (m.res = l.res => m.gen < l.gen)
    /\ owner' = [owner EXCEPT ![l.res] = l]
    /\ granted' = granted \union {l}
    /\ UNCHANGED lost

\* The owner gives the resource back, or it is reclaimed from a dead owner.
Free(r) ==
    /\ owner[r] # NoOwner
    /\ owner' = [owner EXCEPT ![r] = NoOwner]
    /\ UNCHANGED <<granted, lost>>

\* The counter behind the generations is lost.
Lose ==
    /\ lost' = TRUE
    /\ UNCHANGED <<owner, granted>>

FNext ==
    \/ \E l \in Lease : Grant(l)
    \/ \E r \in Resource : Free(r)
    \/ Lose

FSpec == FInit /\ [][FNext]_fvars

\* Of two leases ever granted for a resource only the later one can be in force,
\* unless the count was lost: comparing generations with the table detects every
\* stale holder.
Fenced ==
    ~lost => \A l, m \in granted : (l.res = m.res /\ l.gen < m.gen) => owner[l.res] # l

\* The lease in force was granted, belongs to its resource and, unless the count
\* was lost, is the newest.
OwnerIsNewest ==
    \A r \in Resource : owner[r] # NoOwner =>
        /\ owner[r] \in granted /\ owner[r].res = r
        /\ ~lost => \A l \in granted : l.res = r => l.gen <= owner[r].gen

\* Unless the count was lost, a generation names one lease.
GenerationNamesLease == ~lost => \A l, m \in granted : l.gen = m.gen => l = m

FInv == FTypeOK /\ OwnerIsNewest /\ GenerationNamesLease
=============================================================================
