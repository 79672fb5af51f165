------------------------------ MODULE Guardian ------------------------------
(***************************************************************************)
(* The process guardian of a workspace root                                *)
(* (core/process_coordination/guardian.rs, WorkspaceGuard in workspace.rs).*)
(*                                                                         *)
(* A run holds the lease of its root and launches a guardian, a process of *)
(* its own.  Every command of the run first registers its process group    *)
(* with the guardian and only then executes; the guardian puts an anchor   *)
(* process into the group.  When the host asks for it, or dies, the        *)
(* guardian kills the groups, waits until they are empty, writes a receipt *)
(* and gives the lease back.  When the guardian dies, the anchors kill     *)
(* their groups and the lease stays.  A host has one more guardian without *)
(* a root for the commands of its servers, which the others depend on.     *)
(***************************************************************************)
EXTENDS Naturals, FiniteSets

CONSTANTS
    Host,       \* desktop processes
    Run,        \* runs, all in the same workspace root
    Server,     \* guardians without a root, launched before any run of the host
    HostOf,     \* the host of each run and server
    Command,    \* guarded commands, each leading a process group of its own
    GuardOf,    \* the run or server each command belongs to
    MaxFaults,  \* deaths of guardians and anchors, failed writes, expired deadlines (a bound)
    NoRun       \* nobody holds the root

Guard == Run \union Server

ASSUME GuardAssumption ==
    /\ HostOf \in [Guard -> Host] /\ GuardOf \in [Command -> Guard]
    /\ MaxFaults \in Nat /\ NoRun \notin Guard /\ Run \intersect Server = {}

VARIABLES
    up,         \* hosts that are alive
    root,       \* the run whose lease is in force
    call,       \* what the host does about each guardian
    settled,    \* WorkspaceGuard::settlement
    guard,      \* where each guardian process is
    groups,     \* the groups each guardian watches
    receipt,    \* completed/<digest>.json: guardians that proved their clean-up
    leader,     \* the first process of each command's group
    members,    \* commands with other processes in their group
    anchor,     \* the anchor process of each group
    orphaned,   \* history: guardians that stopped because their host was gone
    faults      \* faults so far

vars == <<up, root, call, settled, guard, groups, receipt, leader, members, anchor, orphaned,
          faults>>

\* Commands that execute something: the leader or what it left in the background.
Executing(c) == leader[c] = "running" \/ c \in members
\* kill(-pgid, 0)
GroupAlive(c) == leader[c] \in {"asking", "acked", "running"} \/ c \in members \/ anchor[c] = "alive"
GuardAlive(g) == guard[g] \notin {"none", "gone"}

TypeOK ==
    /\ up \subseteq Host /\ root \in Run \union {NoRun}
    /\ call \in [Guard -> {"none", "launch", "open", "sent", "wait", "closed"}]
    /\ settled \in [Guard -> {"no", "ok", "err"}]
    /\ guard \in [Guard -> {"none", "starting", "serving", "settling", "quiet", "proved", "gone"}]
    /\ groups \in [Guard -> SUBSET Command]
    /\ \A c \in Command, g \in Guard : c \in groups[g] => GuardOf[c] = g
    /\ receipt \subseteq Guard /\ orphaned \subseteq Guard
    /\ leader \in [Command -> {"new", "asking", "acked", "running", "gone"}]
    /\ members \subseteq Command
    /\ anchor \in [Command -> {"none", "alive", "killed", "lost"}]
    /\ faults \in 0..MaxFaults
    \* nothing executes before its group is registered
    /\ \A c \in Command : Executing(c) => anchor[c] # "none"

Init ==
    /\ up = Host /\ root = NoRun
    /\ call = [g \in Guard |-> "none"]
    /\ settled = [g \in Guard |-> "no"]
    /\ guard = [g \in Guard |-> "none"]
    /\ groups = [g \in Guard |-> {}]
    /\ receipt = {} /\ orphaned = {}
    /\ leader = [c \in Command |-> "new"]
    /\ members = {}
    /\ anchor = [c \in Command |-> "none"]
    /\ faults = 0

Fault == faults < MaxFaults /\ faults' = faults + 1
HostUp(g) == HostOf[g] \in up
Guards(g, at) == guard' = [guard EXCEPT ![g] = at]
Calls(g, at) == call' = [call EXCEPT ![g] = at]
FreeRoot(g) == root' = IF root = g THEN NoRun ELSE root

\* SIGKILL to the whole group, its anchor included.
KillGroup(c) ==
    /\ leader' = [leader EXCEPT ![c] = "gone"]
    /\ members' = members \ {c}
    /\ anchor' = [anchor EXCEPT ![c] = IF @ = "alive" THEN "killed" ELSE @]

-----------------------------------------------------------------------------
(* The host *)

\* WorkspaceGuard::acquire takes the lease of the root; the application does not
\* come up without its server guardian.  A server has a resource of its own.
Acquire(g) ==
    /\ HostUp(g) /\ call[g] = "none"
    /\ \/ /\ g \in Run /\ root = NoRun
          /\ \A s \in Server : HostOf[s] = HostOf[g] => call[s] \notin {"none", "launch"}
          /\ root' = g
       \/ g \in Server /\ UNCHANGED root
    /\ Calls(g, "launch")
    /\ UNCHANGED <<up, settled, guard, groups, receipt, leader, members, anchor, orphaned, faults>>

\* launch: the guardian process is spawned ...
Launch(g) ==
    /\ HostUp(g) /\ call[g] = "launch" /\ guard[g] = "none"
    /\ Guards(g, "starting")
    /\ UNCHANGED <<up, root, call, settled, groups, receipt, leader, members, anchor, orphaned,
                   faults>>

\* ... and has published its address ...
Launched(g) ==
    /\ HostUp(g) /\ call[g] = "launch" /\ guard[g] = "serving"
    /\ Calls(g, "open")
    /\ UNCHANGED <<up, root, settled, guard, groups, receipt, leader, members, anchor, orphaned,
                   faults>>

\* ... or it exits or the deadline passes: it is killed and the lease given back.
LaunchFails(g) ==
    /\ HostUp(g) /\ call[g] = "launch"
    /\ Fault
    /\ Guards(g, "gone")
    /\ Calls(g, "closed")
    /\ \/ FreeRoot(g) /\ settled' = [settled EXCEPT ![g] = "ok"]
       \/ UNCHANGED root /\ settled' = [settled EXCEPT ![g] = "err"]
    /\ UNCHANGED <<up, groups, receipt, leader, members, anchor, orphaned>>

\* A tool got its invocation while the guard was there and spawns the command,
\* possibly after the run began to settle.
Spawn(c) ==
    /\ HostUp(GuardOf[c]) /\ call[GuardOf[c]] \in {"open", "sent", "wait"}
    /\ leader[c] = "new"
    /\ leader' = [leader EXCEPT ![c] = "asking"]
    /\ UNCHANGED <<up, root, call, settled, guard, groups, receipt, members, anchor, orphaned,
                   faults>>

\* A tool that is cancelled or timed out kills the group it spawned (terminate_tree:
\* SIGTERM, which is AnchorDies and the command's own steps, then SIGKILL).
Cancel(c) ==
    /\ HostUp(GuardOf[c]) /\ leader[c] # "new" /\ GroupAlive(c)
    /\ KillGroup(c)
    /\ UNCHANGED <<up, root, call, settled, guard, groups, receipt, orphaned, faults>>

Settle(g, result) ==
    /\ settled' = [settled EXCEPT ![g] = result]
    /\ Calls(g, "closed")

\* settle: a receipt is enough; otherwise the guardian is asked to finish.
AskFinish(g) ==
    /\ HostUp(g) /\ call[g] = "open"
    /\ \/ g \in receipt /\ Settle(g, "ok")
       \/ g \notin receipt /\ Calls(g, "sent") /\ UNCHANGED settled
    /\ UNCHANGED <<up, root, guard, groups, receipt, leader, members, anchor, orphaned, faults>>

\* The connection is refused or closed, or no reply comes in time.
FinishUnanswered(g) ==
    /\ HostUp(g) /\ call[g] = "sent"
    /\ \/ guard[g] # "serving" /\ UNCHANGED faults
       \/ Fault
    /\ Settle(g, "err")
    /\ UNCHANGED <<up, root, guard, groups, receipt, leader, members, anchor, orphaned>>

\* Fault: the exit of the guardian is taken for a proof.
FinishExits(g) ==
    /\ HostUp(g) /\ call[g] = "wait" /\ guard[g] = "gone"
    /\ Settle(g, "ok")
    /\ UNCHANGED <<up, root, guard, groups, receipt, leader, members, anchor, orphaned, faults>>

\* finish waits for the guardian to exit and then asks for its receipt; the
\* deadline leaves the result unknown.
Finished(g) ==
    /\ HostUp(g) /\ call[g] = "wait"
    /\ \/ guard[g] = "gone" /\ Settle(g, IF g \in receipt THEN "ok" ELSE "err") /\ UNCHANGED faults
       \/ guard[g] # "gone" /\ Fault /\ Settle(g, "err")
    /\ UNCHANGED <<up, root, guard, groups, receipt, leader, members, anchor, orphaned>>

\* settle once more: only the receipt turns an unknown result into a proven one.
Reconcile(g) ==
    /\ HostUp(g) /\ settled[g] = "err" /\ g \in receipt
    /\ settled' = [settled EXCEPT ![g] = "ok"]
    /\ UNCHANGED <<up, root, call, guard, groups, receipt, leader, members, anchor, orphaned,
                   faults>>

\* Dropping the client asks once more and ignores what comes of it.
DropFinish(g) ==
    /\ HostUp(g) /\ call[g] = "closed" /\ settled[g] = "err" /\ guard[g] = "serving"
    /\ Guards(g, "settling")
    /\ UNCHANGED <<up, root, call, settled, groups, receipt, leader, members, anchor, orphaned,
                   faults>>

HostDies(p) ==
    /\ p \in up
    /\ up' = up \ {p}
    /\ UNCHANGED <<root, call, settled, guard, groups, receipt, leader, members, anchor, orphaned,
                   faults>>

-----------------------------------------------------------------------------
(* A command *)

\* The guarded-exec helper gets no acceptance (the guardian is gone, settling, sees
\* no parent, cannot prove the group, or is late) and exits without executing.
Refused(c) ==
    /\ leader[c] = "asking"
    /\ leader' = [leader EXCEPT ![c] = "gone"]
    /\ UNCHANGED <<up, root, call, settled, guard, groups, receipt, members, anchor, orphaned,
                   faults>>

Exec(c) ==
    /\ leader[c] = "acked"
    /\ leader' = [leader EXCEPT ![c] = "running"]
    /\ UNCHANGED <<up, root, call, settled, guard, groups, receipt, members, anchor, orphaned,
                   faults>>

\* The command leaves processes in the background, ends, or they end.
Fork(c) ==
    /\ leader[c] = "running" /\ c \notin members
    /\ members' = members \union {c}
    /\ UNCHANGED <<up, root, call, settled, guard, groups, receipt, leader, anchor, orphaned, faults>>

LeaderExits(c) ==
    /\ leader[c] \in {"acked", "running"}
    /\ leader' = [leader EXCEPT ![c] = "gone"]
    /\ UNCHANGED <<up, root, call, settled, guard, groups, receipt, members, anchor, orphaned,
                   faults>>

MembersExit(c) ==
    /\ c \in members
    /\ members' = members \ {c}
    /\ UNCHANGED <<up, root, call, settled, guard, groups, receipt, leader, anchor, orphaned, faults>>

\* The anchor polls the guardian's identity and kills its group when it is gone.
AnchorKills(c) ==
    /\ anchor[c] = "alive" /\ guard[GuardOf[c]] = "gone"
    /\ KillGroup(c)
    /\ UNCHANGED <<up, root, call, settled, guard, groups, receipt, orphaned, faults>>

\* SIGTERM to the group, which a time-out of the host sends first and a script may send
\* itself: the anchor dies of it, a command that ignores it goes on.
AnchorDies(c) ==
    /\ anchor[c] = "alive"
    /\ Fault
    /\ anchor' = [anchor EXCEPT ![c] = "lost"]
    /\ UNCHANGED <<up, root, call, settled, guard, groups, receipt, leader, members, orphaned>>

-----------------------------------------------------------------------------
(* The guardian *)

\* It binds its socket and publishes the address.
Serve(g) ==
    /\ guard[g] = "starting"
    /\ Guards(g, "serving")
    /\ UNCHANGED <<up, root, call, settled, groups, receipt, leader, members, anchor, orphaned,
                   faults>>

\* Fault: the group is registered without an anchor.
RegisterUnanchored(c) ==
    LET g == GuardOf[c]
    IN /\ guard[g] = "serving" /\ HostUp(g) /\ leader[c] = "asking"
       /\ groups' = [groups EXCEPT ![g] = @ \union {c}]
       /\ anchor' = [anchor EXCEPT ![c] = IF @ = "none" THEN "killed" ELSE @]
       /\ leader' = [leader EXCEPT ![c] = "acked"]
       /\ UNCHANGED <<up, root, call, settled, guard, receipt, members, orphaned, faults>>

\* A live leader of its own group asks: the anchor joins, the group is watched, the
\* answer goes out.  It may get lost (the helper asks again or gives up); asking
\* again registers nothing twice.
Register(c) ==
    LET g == GuardOf[c]
    IN /\ guard[g] = "serving" /\ HostUp(g) /\ leader[c] = "asking"
       /\ groups' = [groups EXCEPT ![g] = @ \union {c}]
       /\ anchor' = [anchor EXCEPT ![c] = IF @ = "none" THEN "alive" ELSE @]
       /\ \E reply \in {"acked", "asking", "gone"} : leader' = [leader EXCEPT ![c] = reply]
       /\ UNCHANGED <<up, root, call, settled, guard, receipt, members, orphaned, faults>>

\* The top of the loop: what the leader of a group left behind is killed through the
\* anchor, and an empty group is forgotten.
Sweep(c) ==
    LET g == GuardOf[c]
    IN /\ guard[g] = "serving" /\ c \in groups[g] /\ leader[c] = "gone"
       /\ \/ anchor[c] = "alive" /\ KillGroup(c) /\ UNCHANGED groups
          \/ /\ ~ GroupAlive(c)
             /\ groups' = [groups EXCEPT ![g] = @ \ {c}]
             /\ UNCHANGED <<leader, members, anchor>>
       /\ UNCHANGED <<up, root, call, settled, guard, receipt, orphaned, faults>>

\* The host is confirmed gone: the loop ends.
HostGone(g) ==
    /\ guard[g] = "serving" /\ ~ HostUp(g)
    /\ Guards(g, "settling")
    /\ orphaned' = orphaned \union {g}
    /\ UNCHANGED <<up, root, call, settled, groups, receipt, leader, members, anchor, faults>>

\* finish: the loop ends as well.
AcceptFinish(g) ==
    /\ guard[g] = "serving" /\ call[g] = "sent"
    /\ Guards(g, "settling")
    /\ Calls(g, "wait")
    /\ UNCHANGED <<up, root, settled, groups, receipt, leader, members, anchor, orphaned, faults>>

\* Fault: only a group whose leader is there is killed.
TerminateLeaders(g) ==
    /\ guard[g] = "settling"
    /\ \E c \in groups[g] :
         anchor[c] = "alive" /\ leader[c] # "gone" /\ KillGroup(c)
    /\ UNCHANGED <<up, root, call, settled, guard, groups, receipt, orphaned, faults>>

\* Every group is killed, provided its anchor proves that it still is that group.
Terminate(g) ==
    /\ guard[g] = "settling"
    /\ \E c \in groups[g] : anchor[c] = "alive" /\ KillGroup(c)
    /\ UNCHANGED <<up, root, call, settled, guard, groups, receipt, orphaned, faults>>

\* Fault: a dependency is only waited for when its guardian died.
ServersTrusted(g) ==
    \A s \in Server : (HostOf[s] = HostOf[g] /\ g \in Run) => s \in receipt \/ GuardAlive(s)

\* A server's clean-up has to be proven, unless host and server guardian go on.
ServersDone(g) ==
    \A s \in Server : (HostOf[s] = HostOf[g] /\ g \in Run) =>
        s \in receipt \/ (HostUp(g) /\ GuardAlive(s))

\* Fault: nobody waits for the groups that were killed.
QuietAtOnce(g) ==
    /\ guard[g] = "settling"
    /\ ServersDone(g)
    /\ Guards(g, "quiet")
    /\ UNCHANGED <<up, root, call, settled, groups, receipt, leader, members, anchor, orphaned,
                   faults>>

Quiet(g) ==
    /\ guard[g] = "settling"
    /\ \A c \in groups[g] : ~ GroupAlive(c)
    /\ ServersDone(g)
    /\ Guards(g, "quiet")
    /\ UNCHANGED <<up, root, call, settled, groups, receipt, leader, members, anchor, orphaned,
                   faults>>

WriteProof(g) ==
    /\ guard[g] = "quiet"
    /\ receipt' = receipt \union {g}
    /\ Guards(g, "proved")
    /\ UNCHANGED <<up, root, call, settled, groups, leader, members, anchor, orphaned, faults>>

Release(g) ==
    /\ guard[g] = "proved"
    /\ FreeRoot(g)
    /\ Guards(g, "gone")
    /\ UNCHANGED <<up, call, settled, groups, receipt, leader, members, anchor, orphaned, faults>>

\* The guardian exits without a proof, or without giving the lease back: it is
\* killed, its deadline passes while something is alive, a write or an accept fails.
GuardDies(g) ==
    /\ GuardAlive(g)
    /\ Fault
    /\ Guards(g, "gone")
    /\ UNCHANGED <<up, root, call, settled, groups, receipt, leader, members, anchor, orphaned>>

-----------------------------------------------------------------------------
GuardStep(g) ==
    \/ Serve(g) \/ HostGone(g) \/ AcceptFinish(g) \/ Terminate(g) \/ Quiet(g)
    \/ WriteProof(g) \/ Release(g)

HostStep(g) ==
    \/ Acquire(g) \/ Launch(g) \/ Launched(g) \/ LaunchFails(g)
    \/ AskFinish(g) \/ FinishUnanswered(g) \/ Finished(g) \/ Reconcile(g)
    \/ DropFinish(g)

CommandStep(c) ==
    \/ Spawn(c) \/ Cancel(c) \/ Refused(c) \/ Exec(c) \/ Fork(c) \/ LeaderExits(c)
    \/ MembersExit(c) \/ AnchorKills(c) \/ AnchorDies(c) \/ Register(c) \/ Sweep(c)

Next ==
    \/ \E g \in Guard : GuardStep(g) \/ HostStep(g) \/ GuardDies(g)
    \/ \E c \in Command : CommandStep(c)
    \/ \E p \in Host : HostDies(p)

\* Guardians and anchors poll, and a helper gives up at its deadlines.  Nothing is
\* assumed of hosts, and commands need never end by themselves.
Fairness ==
    /\ \A g \in Guard : WF_vars(GuardStep(g))
    /\ \A c \in Command : WF_vars(Sweep(c)) /\ WF_vars(AnchorKills(c)) /\ WF_vars(Refused(c))

Spec == Init /\ [][Next]_vars
FairSpec == Spec /\ Fairness

-----------------------------------------------------------------------------
(* Properties *)

\* As long as anything a run started executes, the run has the root: no other run
\* ever works in it next to the leftovers of an earlier one, whoever died.
RootCoversCommands ==
    \A c \in Command : (Executing(c) /\ GuardOf[c] \in Run) => root = GuardOf[c]

\* A clean-up that was reported as done is done for good: nothing of the run executes
\* any more, although its tools may have spawned commands while it settled.
SettledIsClean ==
    \A c \in Command : settled[GuardOf[c]] = "ok" => ~ Executing(c)

\* The receipt of a run whose host is gone also covers the commands of the host's
\* servers: the root is not handed on while one of them executes.
OrphanReceiptCoversServers ==
    \A g \in Run \intersect orphaned \intersect receipt, c \in Command :
        (GuardOf[c] \in Server /\ HostOf[GuardOf[c]] = HostOf[g]) => ~ Executing(c)

\* A process that executes the command or is about to; it needs no more permission.
Admitted(c) == leader[c] \in {"acked", "running"} \/ c \in members
\* No command was ever spawned, or all of them are proven gone.
Withdrawn(g) == g \in receipt \/ \A c \in Command : GuardOf[c] = g => leader[c] = "new"
Emptied(g) == guard[g] \in {"quiet", "proved"} \/ g \in receipt

\* Admitted processes are in a group that their guardian watches until it ends, and
\* a guardian that found its groups empty never has admitted ones again.
AdmittedAreWatched ==
    /\ \A c \in Command : Admitted(c) =>
         /\ anchor[c] # "none"
         /\ guard[GuardOf[c]] = "gone" \/ c \in groups[GuardOf[c]]
    /\ \A c \in Command : Emptied(GuardOf[c]) => ~ Admitted(c)
    /\ \A g \in receipt : guard[g] \in {"proved", "gone"}

\* Who may still admit a command or has admitted one holds the root.
RootIsKept ==
    /\ \A g \in Run : GuardAlive(g) => root = g
    /\ \A g \in Run : (call[g] = "launch" /\ HostUp(g)) => root = g
    /\ \A c \in Command : (Admitted(c) /\ GuardOf[c] \in Run) => root = GuardOf[c]

\* The host's view of a guardian never runs ahead of what happened.
CallsAreSound ==
    /\ \A c \in Command : call[GuardOf[c]] \in {"none", "launch"} => leader[c] = "new" /\ c \notin members
    /\ \A c \in Command : leader[c] = "new" => c \notin members /\ anchor[c] = "none"
    /\ \A g \in Guard : call[g] = "none" => guard[g] = "none"
    /\ \A g \in Guard : (call[g] = "launch" /\ HostUp(g)) =>
                             guard[g] \in {"none", "starting", "serving", "gone"}
    /\ \A g \in Guard : settled[g] # "no" => call[g] = "closed"
    /\ \A g \in Guard : settled[g] = "ok" => Withdrawn(g)

\* What lets an orphaned guardian pass its servers stays true.
OrphansWait ==
    \A g \in orphaned :
        /\ ~ HostUp(g)
        /\ (Emptied(g) /\ g \in Run) => \A s \in Server : HostOf[s] = HostOf[g] => s \in receipt

\* The inductive invariant behind the three.
IInv == TypeOK /\ AdmittedAreWatched /\ RootIsKept /\ CallsAreSound /\ OrphansWait

\* guardian.rs:2: what a host that died has started is killed, by its guardian or,
\* when that died as well, by the anchors - also what was asking for permission.
OrphansDie ==
    \A c \in Command : (~ HostUp(GuardOf[c])) ~>
        ((leader[c] \in {"new", "gone"} /\ c \notin members) \/ anchor[c] = "lost")

\* docs/technical-design.md:57 promises that the registered subtree of a host that was
\* killed is reclaimed: nothing it started goes on for ever.
SubtreeReclaimed ==
    \A c \in Command : (~ HostUp(GuardOf[c])) ~> (leader[c] \in {"new", "gone"} /\ c \notin members)

\* The root of a host that died is freed, once a guardian was there to do it.
RootIsFreed ==
    \A g \in Run : (~ HostUp(g) /\ guard[g] = "serving") ~> (root # g \/ faults > 0)
=============================================================================
