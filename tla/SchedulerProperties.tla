------------------------ MODULE SchedulerProperties ------------------------
(***************************************************************************)
(* What makes the scheduler correct.                                       *)
(***************************************************************************)
EXTENDS Scheduler

\* The types of the variables, and where a synchronous loop can stand.
TypeOK ==
    /\ running \in BOOLEAN /\ registered \subseteq Jobs
    /\ overlap \in [Schedules -> {"allow", "skip", "queue", "replace"}]
    /\ status \in [Schedules -> {"unborn", "active", "paused", "completed", "cancelled"}]
    /\ later \subseteq Schedules /\ due \in Seq(Schedules)
    /\ pendingRuns \in [Schedules -> 0 .. MAX_PENDING_RUNS]
    /\ pending \in Seq(Schedules)
    /\ exec \in [Execs -> Execution \union {None}]
    /\ timer \in {"off", "head", "far"}
    /\ turn \in [kind : {"none", "tick", "drain"}, left : Seq(Schedules),
                 calling : Schedules \union {None}]
    /\ stopper \in {"idle", "waiting", "returned", "timedOut"}
    /\ awaited \subseteq Execs /\ aborting \in BOOLEAN
    /\ cancelCalls \subseteq Schedules

\* No more executions than the ceilings allow.
CeilingsAreKept ==
    /\ Cardinality(Active) <= MaxConcurrency
    /\ \A j \in Jobs : Cardinality(ExecutionsOfJob(j)) <= JobLimit[j]

\* No two executions of a schedule that its overlap policy keeps apart.
OverlapIsKept ==
    \A s \in Schedules :
        \A e, f \in ExecutionsOf(s) :
            \/ e = f \/ overlap[s] = "allow"
            \/ overlap[s] = "replace" /\ (exec[e].aborted \/ exec[f].aborted)

\* "maxConcurrency bounds executions in flight across all schedules", and
\* JobOptions.concurrency those of one job, whether tick() or drainPending()
\* starts them, and counting an execution whose handler is being called.  The
\* policies "skip" and "queue" never run a schedule beside itself, and "replace"
\* leaves at most one execution that was not told to abort.
LimitsAreKept == CeilingsAreKept /\ OverlapIsKept

\* A fire time is neither lost nor doubled: no schedule is in the queue twice, one
\* that is active is in it, unless tick() is at work on it, one that is gone is
\* not, and a run that is held back is found again by drainPending(), which looks
\* at no schedule outside pending.
FireTimesAreKept ==
    /\ IsInjective(due)
    /\ \A s \in Schedules :
           /\ ~(s \in later /\ Contains(due, s))
           /\ status[s] = "active" /\ turn.calling # s => s \in later \/ Contains(due, s)
           /\ status[s] \in {"unborn", "completed", "cancelled"} =>
                  s \notin later /\ ~Contains(due, s)
           /\ pendingRuns[s] > 0 => Contains(pending, s)

\* cancel() "aborts any in-flight run and removes the schedule": a recurring
\* schedule that was cancelled runs nothing that was not told to abort.  stop()
\* waits for the jobs "to settle": once it has returned nothing runs until the next
\* start(), unless its timeoutMs ran out.  Then, as while it waits, only what was
\* under way when it was called goes on, all of it told to abort if the scheduler
\* was stopped without drain.
SilenceIsKept ==
    /\ \A s \in cancelCalls \intersect Recurring :
           \A e \in ExecutionsOf(s) : exec[e].aborted
    /\ stopper = "returned" => Active = {}
    /\ stopper \in {"waiting", "timedOut"} => Active \subseteq awaited
    /\ aborting => \A e \in Active : exec[e].aborted

\* cancel() of every schedule, as the handle's documentation has it: it is false
\* for a one-shot whose run is held back, see SchedulerCancelled.cfg.
CancelledStaysSilent ==
    \A s \in cancelCalls : \A e \in ExecutionsOf(s) : exec[e].aborted

----------------------------------------------------------------------------

\* A fire time that has come is dispatched, or its schedule paused or gone.
DueIsServed ==
    \A s \in Schedules :
        (running /\ Contains(due, s)) ~> (~running \/ ~Contains(due, s))

\* "A fire time arriving at the ceiling is held and dispatched when an execution
\* finishes, not dropped": while something runs, its end leads to every held-back
\* run, once no recurring schedule keeps filling the ceiling before it.
HeldRunStarts ==
    <>[](\A s \in Recurring : status[s] # "active") =>
        \A s \in Schedules :
            (running /\ pendingRuns[s] > 0 /\ Active # {})
                ~> (~running \/ pendingRuns[s] = 0)
=============================================================================
