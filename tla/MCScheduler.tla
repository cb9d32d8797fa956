---------------------------- MODULE MCScheduler ----------------------------
(***************************************************************************)
(* Instances of the scheduler for TLC: two schedules share a job with a    *)
(* ceiling of its own, a third fires another job.                          *)
(***************************************************************************)
EXTENDS SchedulerProperties, TLC

CONSTANTS every, once, other, work, chore

MCJobOf    == (every :> work) @@ (once :> work) @@ (other :> chore)
MCJobLimit == (work :> 1) @@ (chore :> 2)
MCAttempts == (work :> 1) @@ (chore :> 2)

\* The safety run: "every", whose job has room for one, skips beside itself and
\* is held back beside "once"; "other", whose job has room for two, is held back
\* or replaces what it overlaps.
MCPolicies == (every :> {"skip"}) @@ (once :> {"allow"})
                @@ (other :> {"replace", "queue"})

\* The liveness run: the policies that hold a run back or end one.
MCFewPolicies == (every :> {"queue"}) @@ (once :> {"allow"}) @@ (other :> {"replace"})
=============================================================================
