---------------------------- MODULE SchedulerMC ----------------------------
(* Small instances of Scheduler. *)
EXTENDS Scheduler, TLC
CONSTANTS t1, t2, p1

MCTask == {t1, t2}
MCOneTask == {t1}
MCOneProjectOf == [t \in MCOneTask |-> p1]
MCProject == {p1}
\* t1 belongs to a project, t2 to a session without one.
MCProjectOf == [t \in MCTask |-> IF t = t1 THEN p1 ELSE NoProject]

Once(n) == [kind |-> "once", n |-> n]
Every(n) == [kind |-> "every", n |-> n]
Cron(n) == [kind |-> "cron", n |-> n]

File(s, next, active) ==
    [sched |-> s, next |-> next, enabled |-> TRUE, runs |-> <<>>, active |-> active,
     unsaved |-> FALSE]

\* Left by the previous process: a once that passed meanwhile, a repeating task
\* that is overdue, a cron time of the old UTC computation, an interrupted
\* manual run of a once that is due.
MCFiles ==
    {File(Once(1), 1, NoRun), File(Every(1), 1, NoRun), File(Cron(2), 1, NoRun),
     File(Once(1), 1, <<"run", 0>>)}
MCSchedules == {Once(2), Every(1), Cron(2)}
MCTwoSchedules == {Once(3), Every(1)}
\* The liveness run: repeating tasks only.
MCEvery == {Every(1)}
MCEveryFiles == {File(Every(1), 1, NoRun)}
MCSymmetry == Permutations(Slot)
=============================================================================
