----------------------------- MODULE Scheduler -----------------------------
(***************************************************************************)
(* The scheduler of @zudojs/scheduler: schedules wait in a queue for their *)
(* fire time, one timer wakes tick(), a dispatch starts an execution or    *)
(* holds the run back, and the end of an execution dispatches what was     *)
(* held back.                                                              *)
(*                                                                         *)
(* Time is abstracted to "not yet due" (later) and "due" (a sequence in    *)
(* fire-time order).  tick() and drainPending() are synchronous loops that *)
(* call a job's handler up to its first await in the middle: they are      *)
(* turns of several steps, during which only the handler that is being     *)
(* called can reach the scheduler, with the operations of Reentrant.       *)
(***************************************************************************)
EXTENDS Integers, FiniteSets, Sequences, SequencesExt

CONSTANTS
    Schedules,       \* the schedules that after(), at(), every(), cron() create
    Jobs,            \* the defined jobs
    JobOf,           \* the job a schedule fires
    Recurring,       \* schedules of every() and cron(); the others are one-shots
    CatchUp,         \* recurring schedules whose misfire policy is "catch-up"
    Policies,        \* the overlap policies a schedule may be created with
    JobLimit,        \* JobOptions.concurrency of a job
    MaxAttempts,     \* the attempts of a job's retry policy
    MaxConcurrency,  \* the ceiling over all executions
    MAX_PENDING_RUNS,\* held-back runs kept per schedule
    Removable,       \* jobs that may be unregistered
    StopKinds,       \* how stop() is called: "abort", "drain"
    Reentrant,       \* operations a handler calls before its first await
    Execs,           \* identities of executions, reused when they have ended
    None

Execution == [of : Schedules, attempt : Nat, aborted : BOOLEAN,
              phase : {"sync", "attempt", "sleep"}]

ASSUME SchedulerAssumption ==
    /\ MaxConcurrency \in Nat \ {0}
    /\ MAX_PENDING_RUNS \in Nat \ {0}
    /\ JobOf \in [Schedules -> Jobs]
    /\ JobLimit \in [Jobs -> Nat \ {0}]
    /\ MaxAttempts \in [Jobs -> Nat \ {0}]
    /\ Policies \in [Schedules -> SUBSET {"allow", "skip", "queue", "replace"}]
    /\ CatchUp \subseteq Recurring /\ Recurring \subseteq Schedules
    /\ IsFiniteSet(Execs) /\ Cardinality(Execs) >= MaxConcurrency
    /\ None \notin Schedules /\ None \notin Jobs /\ None \notin Execution

VARIABLES
    running,      \* Scheduler.running
    registered,   \* the jobs in the registry
    overlap,      \* the overlap policy in force for a schedule
    status,       \* state of each schedule; "active" and "paused" ones are live
    later,        \* queued schedules that are not due yet
    due,          \* queued schedules that are due, earliest fire time first
    pendingRuns,  \* held-back runs of each schedule
    pending,      \* schedules with held-back runs, in insertion order
    exec,         \* the executions
    timer,        \* "off", "head": armed for the head of the queue, "far"
    turn,         \* the synchronous loop under way
    stopper,      \* the last stop() call: "idle", "waiting", "returned", "timedOut"
    awaited,      \* executions it waits for, or left when its timeoutMs ran out
    aborting,     \* the scheduler was stopped by a stop() without drain (history)
    cancelCalls   \* schedules whose handle.cancel() was called (history)

setup     == <<registered, overlap>>
queueVars == <<later, due>>
heldVars  == <<pendingRuns, pending>>
stopVars  == <<stopper, awaited, aborting>>
vars == <<running, setup, status, queueVars, heldVars, exec, timer,
          turn, stopVars, cancelCalls>>

Idle == [kind |-> "none", left |-> <<>>, calling |-> None]

Live(s) == status[s] \in {"active", "paused"}
Active  == {e \in Execs : exec[e] # None}
InFlight == {e \in Active : exec[e].phase # "sync"}
ExecutionsOf(s)    == {e \in Active : exec[e].of = s}
ExecutionsOfJob(j) == {e \in Active : JobOf[exec[e].of] = j}

\* What tick(), drainPending() and calculateDelay() compare with the ceiling.
AtCeiling == Cardinality(InFlight) >= MaxConcurrency

Init ==
    /\ running = FALSE /\ registered = Jobs
    /\ overlap = [s \in Schedules |-> "allow"]
    /\ status = [s \in Schedules |-> "unborn"]
    /\ later = {} /\ due = <<>>
    /\ pendingRuns = [s \in Schedules |-> 0] /\ pending = <<>>
    /\ exec = [e \in Execs |-> None]
    /\ timer = "off" /\ turn = Idle
    /\ stopper = "idle" /\ awaited = {} /\ aborting = FALSE
    /\ cancelCalls = {}

----------------------------------------------------------------------------
(* Helpers shared by the operations *)

Without(seq, s) ==
    IF Contains(seq, s) THEN RemoveAt(seq, CHOOSE i \in 1..Len(seq) : seq[i] = s) ELSE seq

\* queue.remove(s); queue.enqueue() of an entry due in the future or now.
Unqueue(s)      == /\ later' = later \ {s}
                   /\ due' = Without(due, s)
EnqueueLater(s) == /\ later' = later \union {s}
                   /\ due' = Without(due, s)
EnqueueNow(s)   == /\ later' = later \ {s}
                   /\ due' = Append(Without(due, s), s)

\* rearm() on the state after the step.
Rearm ==
    timer' = IF ~running' THEN timer
             ELSE IF later' = {} /\ due' = <<>> THEN "far"
             ELSE IF Cardinality({e \in Execs : exec'[e] # None /\ exec'[e].phase # "sync"})
                       >= MaxConcurrency
             THEN "far" ELSE "head"

Aborted(E) == [e \in Execs |-> IF e \in E /\ exec[e] # None
                               THEN [exec[e] EXCEPT !.aborted = TRUE] ELSE exec[e]]

DropHeld(s) == /\ pendingRuns' = [pendingRuns EXCEPT ![s] = 0]
               /\ pending' = Without(pending, s)

\* retire() with dropPending; the one-shot's retirement in Reschedule keeps them.
RetireDropping(s, state) == /\ status' = [status EXCEPT ![s] = state]
                            /\ DropHeld(s)
                            /\ Unqueue(s)

\* Mutant: MAX_PENDING_RUNS is not enforced.
DeferUncapped(s) ==
    /\ pendingRuns' = [pendingRuns EXCEPT ![s] = @ + 1]
    /\ pending' = IF Contains(pending, s) THEN pending ELSE Append(pending, s)

\* defer(): the record joins pending, which keeps the place of one that is in it.
Defer(s) ==
    IF pendingRuns[s] >= MAX_PENDING_RUNS
    THEN UNCHANGED heldVars
    ELSE /\ pendingRuns' = [pendingRuns EXCEPT ![s] = @ + 1]
         /\ pending' = IF Contains(pending, s) THEN pending ELSE Append(pending, s)

\* Mutant: "queue" falls through to "allow", as it once did.
FateQueueAllows(s) ==
    LET job == JobOf[s] IN
    IF job \notin registered THEN "orphan"
    ELSE IF status[s] \in {"cancelled", "paused"} THEN "drop"
    ELSE IF ExecutionsOf(s) # {} /\ overlap[s] = "skip" THEN "drop"
    ELSE IF Cardinality(ExecutionsOfJob(job)) >= JobLimit[job] THEN "defer"
    ELSE "start"

\* What dispatch() decides about a fire time of s.
Fate(s) ==
    LET job == JobOf[s] IN
    IF job \notin registered THEN "orphan"
    ELSE IF status[s] \in {"cancelled", "paused"} THEN "drop"
    ELSE IF ExecutionsOf(s) # {} /\ overlap[s] = "skip" THEN "drop"
    ELSE IF ExecutionsOf(s) # {} /\ overlap[s] = "queue" THEN "defer"
    ELSE IF Cardinality(ExecutionsOfJob(job)) >= JobLimit[job] THEN "defer"
    ELSE "start"

\* The executions a dispatch that is not dropped aborts first.
Superseded(s) == IF overlap[s] = "replace" THEN ExecutionsOf(s) ELSE {}

\* dispatch() starts an execution and calls the handler.
Begin(s) ==
    LET e == CHOOSE x \in Execs : exec[x] = None IN
    exec' = [Aborted(Superseded(s)) EXCEPT
               ![e] = [of |-> s, attempt |-> 1, aborted |-> FALSE, phase |-> "sync"]]

\* reschedule(): a one-shot is retired and still owed its held-back runs; a
\* recurring schedule is queued again, a catch-up one perhaps for a time past.
Reschedule(s, behind) ==
    IF s \in Recurring
    THEN /\ \/ /\ later' = later \union {s}
               /\ due' = behind
            \/ /\ s \in CatchUp
               /\ \E i \in 1 .. Len(behind) + 1 : due' = InsertAt(behind, i, s)
               /\ UNCHANGED later
         /\ UNCHANGED status
    ELSE /\ status' = [status EXCEPT ![s] = "completed"]
         /\ due' = behind
         /\ UNCHANGED later

----------------------------------------------------------------------------
(* tick(): dispatches what is due, up to the ceiling *)

\* The timer armed for the head of the queue fires once that is due.  A tick with
\* nothing due, or after the 24 days of a "far" timer, only arms the timer again.
TickBegin ==
    /\ turn = Idle /\ timer = "head" /\ due # <<>>
    /\ turn' = [Idle EXCEPT !.kind = "tick"]
    /\ UNCHANGED <<running, setup, status, queueVars, heldVars, exec, timer,
                   stopVars, cancelCalls>>

Looping(kind) == turn.kind = kind /\ turn.calling = None

TickEnd ==
    /\ Looping("tick")
    /\ \/ due = <<>>
       \/ due # <<>> /\ status[Head(due)] = "active" /\ AtCeiling
    /\ turn' = Idle
    /\ UNCHANGED <<running, setup, status, queueVars, heldVars, exec,
                   stopVars, cancelCalls>>
    /\ Rearm

\* The entry of a schedule that was paused while its handler was called.
TickSkip ==
    /\ Looping("tick") /\ due # <<>>
    /\ status[Head(due)] # "active"
    /\ due' = Tail(due)
    /\ UNCHANGED <<running, setup, status, later, heldVars, exec, timer, turn,
                   stopVars, cancelCalls>>

TickDispatch ==
    /\ Looping("tick") /\ due # <<>>
    /\ ~AtCeiling
    /\ LET s == Head(due) IN
       /\ status[s] = "active"
       /\ \/ /\ Fate(s) = "orphan"
             /\ RetireDropping(s, "cancelled")
             /\ UNCHANGED <<exec, turn>>
          \/ /\ Fate(s) = "drop"
             /\ Reschedule(s, Tail(due))
             /\ UNCHANGED <<heldVars, exec, turn>>
          \/ /\ Fate(s) = "defer"
             /\ Defer(s)
             /\ exec' = Aborted(Superseded(s))
             /\ Reschedule(s, Tail(due))
             /\ UNCHANGED turn
          \/ /\ Fate(s) = "start"
             /\ Begin(s)
             /\ due' = Tail(due)
             /\ turn' = [turn EXCEPT !.calling = s]
             /\ UNCHANGED <<status, later, heldVars>>
    /\ UNCHANGED <<running, setup, timer, stopVars, cancelCalls>>

----------------------------------------------------------------------------
(* drainPending(): dispatches held-back runs that can now proceed *)

\* The record has nothing left to dispatch; the last one ends the loop.
DrainNext ==
    /\ Looping("drain") /\ turn.left # <<>>
    /\ LET s == Head(turn.left) IN
       /\ pendingRuns[s] = 0
       /\ pending' = Without(pending, s)
       /\ turn' = [turn EXCEPT !.left = Tail(@)]
    /\ UNCHANGED <<running, setup, status, queueVars, pendingRuns, exec, timer,
                   stopVars, cancelCalls>>

\* Capacity ran out, or every record was visited: the timer is armed again.
DrainEnd ==
    /\ Looping("drain")
    /\ \/ turn.left = <<>>
       \/ turn.left # <<>> /\ pendingRuns[Head(turn.left)] > 0 /\ AtCeiling
    /\ turn' = Idle
    /\ UNCHANGED <<running, setup, status, queueVars, heldVars, exec,
                   stopVars, cancelCalls>>
    /\ Rearm

DrainDispatch ==
    /\ Looping("drain") /\ turn.left # <<>>
    /\ ~AtCeiling
    /\ LET s == Head(turn.left)
           OneLess == pendingRuns' = [pendingRuns EXCEPT ![s] = @ - 1]
       IN
       /\ pendingRuns[s] > 0
       /\ \/ /\ Fate(s) = "orphan"
             /\ RetireDropping(s, "cancelled")
             /\ UNCHANGED <<exec, turn>>
          \/ /\ Fate(s) = "drop"
             /\ OneLess
             /\ UNCHANGED <<status, queueVars, pending, exec, turn>>
          \/ /\ Fate(s) = "defer"
             /\ exec' = Aborted(Superseded(s))
             /\ turn' = [turn EXCEPT !.left = Tail(@)]
             /\ UNCHANGED <<status, queueVars, heldVars>>
          \/ /\ Fate(s) = "start"
             /\ OneLess
             /\ Begin(s)
             /\ turn' = [turn EXCEPT !.calling = s]
             /\ UNCHANGED <<status, queueVars, pending>>
    /\ UNCHANGED <<running, setup, timer, stopVars, cancelCalls>>

\* Mutant: tick() queues a schedule that its handler has cancelled.
HandlerAwaitsGone ==
    /\ turn.calling # None
    /\ exec' = [e \in Execs |-> IF e \in Active \ InFlight
                                THEN [exec[e] EXCEPT !.phase = "attempt"]
                                ELSE exec[e]]
    /\ IF turn.kind = "tick"
       THEN Reschedule(turn.calling, due)
       ELSE UNCHANGED <<status, queueVars>>
    /\ turn' = [turn EXCEPT !.calling = None]
    /\ UNCHANGED <<running, setup, heldVars, timer, stopVars, cancelCalls>>

\* The handler reaches its first await: dispatch() adds the execution to
\* inFlight, and tick() queues the next fire time of a schedule still live.
HandlerAwaits ==
    /\ turn.calling # None
    /\ LET s == turn.calling IN
       /\ exec' = [e \in Execs |-> IF e \in Active \ InFlight
                                   THEN [exec[e] EXCEPT !.phase = "attempt"]
                                   ELSE exec[e]]
       /\ IF turn.kind = "tick" /\ Live(s)
          THEN Reschedule(s, due)
          ELSE UNCHANGED <<status, queueVars>>
    /\ turn' = [turn EXCEPT !.calling = None]
    /\ UNCHANGED <<running, setup, heldVars, timer, stopVars, cancelCalls>>

----------------------------------------------------------------------------
(* JobExecutor.execute(): the attempts of one execution *)

\* An attempt fails or times out and a retry is left: the executor sleeps.
AttemptFails(e) ==
    /\ turn = Idle
    /\ e \in Active /\ exec[e].phase = "attempt" /\ ~exec[e].aborted
    /\ exec[e].attempt < MaxAttempts[JobOf[exec[e].of]]
    /\ exec' = [exec EXCEPT ![e].phase = "sleep"]
    /\ UNCHANGED <<running, setup, status, queueVars, heldVars, timer, turn,
                   stopVars, cancelCalls>>

RetryWakes(e) ==
    /\ turn = Idle
    /\ e \in Active /\ exec[e].phase = "sleep" /\ ~exec[e].aborted
    /\ exec' = [exec EXCEPT ![e].phase = "attempt", ![e].attempt = @ + 1]
    /\ UNCHANGED <<running, setup, status, queueVars, heldVars, timer, turn,
                   stopVars, cancelCalls>>

\* Mutant: the end of an execution drains nothing.
SettleUndrained(e) ==
    /\ turn = Idle
    /\ e \in Active /\ (exec[e].phase = "attempt" \/ exec[e].aborted)
    /\ exec' = [exec EXCEPT ![e] = None]
    /\ awaited' = awaited \ {e}
    /\ UNCHANGED <<running, setup, status, queueVars, heldVars, turn, stopper,
                   aborting, cancelCalls>>
    /\ Rearm

\* Mutant: a stopped scheduler drains as well.
SettleDrainsStopped(e) ==
    /\ turn = Idle
    /\ e \in Active /\ (exec[e].phase = "attempt" \/ exec[e].aborted)
    /\ exec' = [exec EXCEPT ![e] = None]
    /\ awaited' = awaited \ {e}
    /\ UNCHANGED <<running, setup, status, queueVars, heldVars, stopper,
                   aborting, cancelCalls>>
    /\ turn' = [Idle EXCEPT !.kind = "drain", !.left = pending]
    /\ UNCHANGED timer

\* The execution ends: it succeeded, it ran out of attempts or it was aborted,
\* in its sleep too.  A handler that ignores its signal ends by its timeout.
Settle(e) ==
    /\ turn = Idle
    /\ e \in Active /\ (exec[e].phase = "attempt" \/ exec[e].aborted)
    /\ exec' = [exec EXCEPT ![e] = None]
    /\ awaited' = awaited \ {e}
    /\ UNCHANGED <<running, setup, status, queueVars, heldVars, stopper,
                   aborting, cancelCalls>>
    /\ IF running /\ pending # <<>>
       THEN /\ turn' = [Idle EXCEPT !.kind = "drain", !.left = pending]
            /\ UNCHANGED timer
       ELSE /\ UNCHANGED turn
            /\ Rearm

----------------------------------------------------------------------------
(* Operations of the user and, before its first await, of a handler *)

MayCall(op) == turn = Idle \/ (turn.calling # None /\ op \in Reentrant)

\* Mutant: a schedule added after start() does not arm the timer again.
ScheduleJobUnarmed(s) ==
    /\ MayCall("schedule")
    /\ status[s] = "unborn" /\ JobOf[s] \in registered
    /\ status' = [status EXCEPT ![s] = "active"]
    /\ \E policy \in Policies[s] : overlap' = [overlap EXCEPT ![s] = policy]
    /\ EnqueueLater(s) \/ (s \notin Recurring /\ EnqueueNow(s))
    /\ UNCHANGED <<running, registered, heldVars, exec, timer, turn, stopVars,
                   cancelCalls>>

\* after(), at(), every(), cron(): a date already past runs at once, unless the
\* misfire policy refuses it.
ScheduleJob(s) ==
    /\ MayCall("schedule")
    /\ status[s] = "unborn" /\ JobOf[s] \in registered
    /\ status' = [status EXCEPT ![s] = "active"]
    /\ \E policy \in Policies[s] : overlap' = [overlap EXCEPT ![s] = policy]
    /\ EnqueueLater(s) \/ (s \notin Recurring /\ EnqueueNow(s))
    /\ UNCHANGED <<running, registered, heldVars, exec, turn, stopVars, cancelCalls>>
    /\ Rearm

Pause(s) ==
    /\ MayCall("pause") /\ Live(s)
    /\ status' = [status EXCEPT ![s] = "paused"]
    /\ Unqueue(s)
    /\ UNCHANGED <<running, setup, heldVars, exec, timer, turn, stopVars,
                   cancelCalls>>

\* resume() of a paused schedule; a one-shot whose time has passed runs now or,
\* by its misfire policy, is retired with what it held back.
Resume(s) ==
    /\ turn = Idle /\ status[s] = "paused"
    /\ \/ /\ EnqueueLater(s) \/ (s \notin Recurring /\ EnqueueNow(s))
          /\ status' = [status EXCEPT ![s] = "active"]
          /\ UNCHANGED heldVars
          /\ UNCHANGED <<running, setup, exec, turn, stopVars, cancelCalls>>
          /\ Rearm
       \/ /\ s \notin Recurring
          /\ RetireDropping(s, "completed")
          /\ UNCHANGED <<running, setup, exec, timer, turn, stopVars, cancelCalls>>

\* Mutant: cancel() removes the schedule and leaves its executions alone.
CancelUnaborted(s) ==
    /\ MayCall("cancel") /\ status[s] # "unborn"
    /\ cancelCalls' = cancelCalls \union {s}
    /\ IF Live(s) THEN RetireDropping(s, "cancelled")
                  ELSE UNCHANGED <<status, queueVars, heldVars>>
    /\ UNCHANGED <<running, setup, exec, timer, turn, stopVars>>

\* cancel(): aborts what runs under the schedule's id; a schedule that is no
\* longer live, as a one-shot that was dispatched, keeps its held-back runs.
Cancel(s) ==
    /\ MayCall("cancel") /\ status[s] # "unborn"
    /\ cancelCalls' = cancelCalls \union {s}
    /\ exec' = Aborted(ExecutionsOf(s))
    /\ IF Live(s) THEN RetireDropping(s, "cancelled")
                  ELSE UNCHANGED <<status, queueVars, heldVars>>
    /\ UNCHANGED <<running, setup, timer, turn, stopVars>>

\* JobRegistry.unregister() under live schedules.
Unregister(j) ==
    /\ turn = Idle /\ j \in registered \cap Removable
    /\ registered' = registered \ {j}
    /\ UNCHANGED <<running, overlap, status, queueVars, heldVars, exec, timer, turn,
                   stopVars, cancelCalls>>

\* start() ticks at once.
Start ==
    /\ turn = Idle /\ ~running
    /\ running' = TRUE
    /\ turn' = [Idle EXCEPT !.kind = "tick"]
    /\ stopper' = "idle" /\ awaited' = {} /\ aborting' = FALSE
    /\ UNCHANGED <<setup, status, queueVars, heldVars, exec, timer, cancelCalls>>

\* settle(): the call waits for the executions in flight at this moment.
WaitForAll ==
    /\ stopper' = IF InFlight = {} THEN "returned" ELSE "waiting"
    /\ awaited' = InFlight

\* stop(): an abort discards the held-back runs, a drain keeps them.
Stop(kind) ==
    /\ MayCall("stop") /\ running
    /\ running' = FALSE /\ timer' = "off"
    /\ IF kind = "abort"
       THEN /\ exec' = Aborted(Active)
            /\ pendingRuns' = [s \in Schedules |->
                                 IF Contains(pending, s) THEN 0 ELSE pendingRuns[s]]
            /\ pending' = <<>>
       ELSE UNCHANGED <<exec, heldVars>>
    /\ WaitForAll /\ aborting' = (kind = "abort")
    /\ UNCHANGED <<setup, status, queueVars, turn, cancelCalls>>

\* stop() of a scheduler that is not running aborts nothing, however it is called.
\* One called while another waits would wait for the same executions.
StopAgain ==
    /\ MayCall("stop") /\ ~running /\ stopper # "waiting"
    /\ WaitForAll
    /\ UNCHANGED <<running, setup, status, queueVars, heldVars, exec, timer, turn,
                   aborting, cancelCalls>>

StopReturns ==
    /\ turn = Idle
    /\ stopper = "waiting" /\ awaited = {}
    /\ stopper' = "returned"
    /\ UNCHANGED <<running, setup, status, queueVars, heldVars, exec, timer, turn,
                   awaited, aborting, cancelCalls>>

\* timeoutMs, if it was given: stop() returns, and what it waited for goes on.
StopTimesOut ==
    /\ turn = Idle
    /\ stopper = "waiting" /\ awaited # {}
    /\ stopper' = "timedOut"
    /\ UNCHANGED <<running, setup, status, queueVars, heldVars, exec, timer, turn,
                   awaited, aborting, cancelCalls>>

\* The clock reaches the fire time of a queued schedule.
FireTimeComes(s) ==
    /\ turn = Idle /\ s \in later
    /\ EnqueueNow(s)
    /\ UNCHANGED <<running, setup, status, heldVars, exec, timer, turn, stopVars,
                   cancelCalls>>

----------------------------------------------------------------------------

TurnStep == \/ TickEnd \/ TickSkip \/ TickDispatch
            \/ DrainNext \/ DrainEnd \/ DrainDispatch
            \/ HandlerAwaits

Progress(e) == AttemptFails(e) \/ RetryWakes(e) \/ Settle(e)

Next ==
    \/ TickBegin \/ TurnStep \/ Start \/ StopAgain \/ StopReturns \/ StopTimesOut
    \/ \E e \in Execs : Progress(e)
    \/ \E s \in Schedules : \/ ScheduleJob(s) \/ Pause(s) \/ Resume(s) \/ Cancel(s)
                            \/ FireTimeComes(s)
    \/ \E j \in Jobs : Unregister(j)
    \/ \E kind \in StopKinds : Stop(kind)

Spec == Init /\ [][Next]_vars

\* The event loop runs a turn to its end, fires the timer that is due, ends every
\* attempt by its timeout however busy it is, and resumes stop().  Nobody has to
\* call anything.
Fairness ==
    /\ WF_vars(TurnStep) /\ WF_vars(StopReturns) /\ WF_vars(TickBegin)
    /\ \A e \in Execs : SF_vars(Progress(e))

FairSpec == Spec /\ Fairness
=============================================================================
