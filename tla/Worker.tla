------------------------------- MODULE Worker -------------------------------
(***************************************************************************)
(* createWorker(): the poll loop, its claims and their jobs, and start(),  *)
(* stop() and forceStop(), from await to await.  The queue is the Queue    *)
(* interface as the worker uses it: a claim or a release takes effect when *)
(* it is called, and is answered later.                                    *)
(***************************************************************************)
EXTENDS Integers, FiniteSets

CONSTANTS
    Job, NoJob,     \* the jobs of the queue
    Concurrency,
    Poll,           \* bound: polls that may be under way at once
    StopCall,       \* bound: stop() calls that drain at once
    MaxStarts,      \* bound: successful start() calls
    MaxRuns,        \* bound: the runs of each job
    Late,           \* jobs whose processor is registered late
    Failing         \* the calls of the queue that may reject, and whether onError
                    \* may throw

ASSUME WorkerConstants ==
    /\ IsFiniteSet(Job) /\ NoJob \notin Job
    /\ Concurrency \in Nat \ {0}
    /\ IsFiniteSet(Poll) /\ Poll # {}
    /\ MaxStarts \in Nat /\ MaxRuns \in [Job -> Nat]
    /\ Late \subseteq Job
    /\ Failing \subseteq {"claim", "release", "onError"}

VARIABLES
    state,
    controller,     \* which start() made the current abortController
    aborted,        \* the controllers that have been aborted
    armed,          \* pollTimer
    polling,
    poll, hand,     \* where each poll is, and the job it holds
    activeJobs,
    drains,         \* the stop() calls that wait for activeJobs
    job,            \* where each job is
    runs,           \* how often it was run
    signal,         \* the controller whose signal it was given
    strays,         \* running jobs that were started on a stopped worker
    processors,     \* jobs with a registered processor
    open            \* the queue is not closed

loopVars  == <<armed, polling, poll, hand>>
jobVars   == <<job, runs, signal, strays>>
lifeVars  == <<state, controller, aborted, drains>>
queueVars == <<processors, open>>
vars == <<lifeVars, loopVars, activeJobs, jobVars, queueVars>>

Running == { j \in Job : job[j] = "running" }

Init ==
    /\ state = "created" /\ controller = 0 /\ aborted = {} /\ drains = {}
    /\ armed = FALSE /\ polling = FALSE
    /\ poll = [p \in Poll |-> "idle"] /\ hand = [p \in Poll |-> NoJob]
    /\ activeJobs = 0
    /\ job = [j \in Job |-> "absent"] /\ runs = [j \in Job |-> 0]
    /\ signal = [j \in Job |-> 0] /\ strays = {}
    /\ processors = Job \ Late /\ open = TRUE

\* scheduleNextPoll(): one timer at most, and none unless the worker runs.
ScheduleNextPoll == armed' = (armed \/ state = "running")

-----------------------------------------------------------------------------
(* The poll loop *)

Phase(p, phase, j) ==
    /\ poll' = [poll EXCEPT ![p] = phase]
    /\ hand' = [hand EXCEPT ![p] = j]

\* Mutant: a second poll does not see the one that awaits its claim.
MayPollTwice == state = "running" /\ controller \notin aborted

\* The early return of poll().
MayPoll == ~polling /\ state = "running" /\ controller \notin aborted

\* The timer fires and poll() has nothing to do, or no slot to do it in.
PollSkips ==
    /\ armed
    /\ ~MayPoll \/ activeJobs >= Concurrency
    /\ armed' = (MayPoll /\ activeJobs >= Concurrency)
    /\ UNCHANGED <<lifeVars, polling, poll, hand, activeJobs, jobVars, queueVars>>

PollBegins(p) ==
    /\ armed /\ MayPoll /\ activeJobs < Concurrency
    /\ poll[p] = "idle"
    /\ p = CHOOSE q \in Poll : poll[q] = "idle"
    /\ armed' = FALSE /\ polling' = TRUE
    /\ UNCHANGED <<lifeVars, activeJobs, runs, signal, strays, queueVars>>

Claimable == { j \in processors : job[j] = "waiting" }

PollClaims(p, j) ==
    /\ PollBegins(p)
    /\ j \in Claimable
    /\ Phase(p, "claiming", j)
    /\ job' = [job EXCEPT ![j] = "claimed"]

PollFindsNone(p) ==
    /\ PollBegins(p)
    /\ Claimable = {}
    /\ Phase(p, "claiming", NoJob)
    /\ UNCHANGED job

PollRejects(p) ==
    /\ PollBegins(p)
    /\ "claim" \in Failing
    /\ Phase(p, "failing", NoJob)
    /\ UNCHANGED job

\* The poll is over: polling is reset, and the next one is armed.
EndPoll(p) ==
    /\ Phase(p, "idle", NoJob)
    /\ polling' = FALSE
    /\ ScheduleNextPoll

\* Mutant: a claim that found nothing arms no poll.
ClaimedNoneUnarmed(p) ==
    /\ poll[p] = "claiming" /\ hand[p] = NoJob
    /\ Phase(p, "idle", NoJob)
    /\ polling' = FALSE
    /\ UNCHANGED <<lifeVars, armed, activeJobs, jobVars, queueVars>>

ClaimedNone(p) ==
    /\ poll[p] = "claiming" /\ hand[p] = NoJob
    /\ EndPoll(p)
    /\ UNCHANGED <<lifeVars, activeJobs, jobVars, queueVars>>

\* The claimed job runs, whatever has become of the worker in between.
StartsJob(p) ==
    LET j == hand[p] IN
    /\ poll[p] = "claiming" /\ j \in processors
    /\ EndPoll(p)
    /\ activeJobs' = activeJobs + 1
    /\ job' = [job EXCEPT ![j] = "running"]
    /\ runs' = [runs EXCEPT ![j] = @ + 1]
    /\ signal' = [signal EXCEPT ![j] = controller]
    /\ strays' = IF state \in {"running", "draining"} THEN strays ELSE strays \cup {j}
    /\ UNCHANGED <<lifeVars, queueVars>>

\* The queue was closed in between and has no processor left: releaseJob().
ReleasesJob(p) ==
    LET j == hand[p] IN
    /\ poll[p] = "claiming" /\ j \in Job \ processors
    /\ Phase(p, "releasing", NoJob)
    /\ job' = [job EXCEPT ![j] = "waiting"]
    /\ UNCHANGED <<lifeVars, armed, polling, activeJobs, runs, signal, strays, queueVars>>

ReleaseRejects(p) ==
    LET j == hand[p] IN
    /\ poll[p] = "claiming" /\ j \in Job \ processors
    /\ "release" \in Failing
    /\ Phase(p, "failing", j)
    /\ UNCHANGED <<lifeVars, armed, polling, activeJobs, jobVars, queueVars>>

Released(p) ==
    /\ poll[p] = "releasing"
    /\ EndPoll(p)
    /\ UNCHANGED <<lifeVars, activeJobs, jobVars, queueVars>>

\* runPoll()'s catch: onError is told, and the next poll is armed unless it throws.
\* A job whose release failed stays claimed, by nobody.
PollFails(p) ==
    /\ poll[p] = "failing"
    /\ Phase(p, "idle", NoJob) /\ polling' = FALSE
    /\ ScheduleNextPoll \/ ("onError" \in Failing /\ UNCHANGED armed)
    /\ UNCHANGED <<lifeVars, activeJobs, jobVars, queueVars>>

PollStep(p) ==
    \/ PollFindsNone(p) \/ PollRejects(p) \/ ClaimedNone(p) \/ StartsJob(p)
    \/ ReleasesJob(p) \/ ReleaseRejects(p) \/ Released(p) \/ PollFails(p)
    \/ \E j \in Job : PollClaims(p, j)

\* Mutant: the slot of a job that ends after stop() is not given back.
JobEndsUncounted(j) ==
    /\ job[j] = "running"
    /\ \E next \in {"done"} \cup IF runs[j] < MaxRuns[j] THEN {"absent"} ELSE {} :
           job' = [job EXCEPT ![j] = next]
    /\ strays' = strays \ {j} /\ signal' = [signal EXCEPT ![j] = 0]
    /\ activeJobs' = IF state = "running" THEN activeJobs - 1 ELSE activeJobs
    /\ ScheduleNextPoll
    /\ UNCHANGED <<lifeVars, polling, poll, hand, runs, queueVars>>

\* runJob() settles, with a retry to come or for good: a slot is free.
JobEnds(j) ==
    /\ job[j] = "running"
    /\ \E next \in {"done"} \cup IF runs[j] < MaxRuns[j] THEN {"absent"} ELSE {} :
           job' = [job EXCEPT ![j] = next]
    /\ strays' = strays \ {j} /\ signal' = [signal EXCEPT ![j] = 0]
    /\ activeJobs' = activeJobs - 1
    /\ ScheduleNextPoll
    /\ UNCHANGED <<lifeVars, polling, poll, hand, runs, queueVars>>

-----------------------------------------------------------------------------
(* The queue *)

\* A job is added, or its delay or backoff has elapsed: onJobReady().
JobReady(j) ==
    /\ open /\ job[j] = "absent"
    /\ runs[j] < MaxRuns[j]
    /\ job' = [job EXCEPT ![j] = "waiting"]
    /\ armed' = (armed \/ (state = "running" /\ activeJobs < Concurrency))
    /\ UNCHANGED <<lifeVars, polling, poll, hand, activeJobs, runs, signal,
                   strays, queueVars>>

\* Nobody is told, so the next poll finds out.
Register(j) ==
    /\ open /\ j \in Late \ processors
    /\ processors' = processors \cup {j}
    /\ UNCHANGED <<lifeVars, loopVars, activeJobs, jobVars, open>>

\* close(): it hands out nothing more, announces nothing, and forgets its
\* processors.
Close ==
    /\ open' = FALSE /\ processors' = {}
    /\ UNCHANGED <<lifeVars, loopVars, activeJobs, jobVars>>

-----------------------------------------------------------------------------
(* start(), stop() and forceStop() *)

Start ==
    /\ state \in {"created", "stopped"} /\ controller < MaxStarts
    /\ state' = "running"
    /\ controller' = controller + 1
    /\ armed' = TRUE
    /\ UNCHANGED <<aborted, drains, polling, poll, hand, activeJobs, jobVars, queueVars>>

\* stop() of a running worker; any other returns having cleared the timer.
Stop(c) ==
    /\ state = "running" /\ c \notin drains
    /\ armed' = FALSE
    /\ IF activeJobs > 0
         THEN state' = "draining" /\ drains' = drains \cup {c}
         ELSE state' = "stopped" /\ UNCHANGED drains
    /\ UNCHANGED <<controller, aborted, polling, poll, hand, activeJobs, jobVars, queueVars>>

\* Mutant: the jobs that outlast the drain are left alone.
DrainExpiresUnaborted(c) ==
    /\ c \in drains /\ activeJobs > 0
    /\ state' = "stopped" /\ armed' = FALSE
    /\ drains' = drains \ {c}
    /\ UNCHANGED <<controller, aborted, polling, poll, hand, activeJobs, jobVars, queueVars>>

Drained(c) ==
    /\ c \in drains /\ activeJobs = 0
    /\ state' = "stopped" /\ armed' = FALSE
    /\ drains' = drains \ {c}
    /\ UNCHANGED <<controller, aborted, polling, poll, hand, activeJobs, jobVars, queueVars>>

\* onError is told that jobs are left, and they are aborted unless it throws.
DrainExpires(c) ==
    /\ c \in drains /\ activeJobs > 0
    /\ drains' = drains \ {c}
    /\ \/ /\ aborted' = aborted \cup {controller}
          /\ state' = "stopped" /\ armed' = FALSE
       \/ "onError" \in Failing /\ UNCHANGED <<aborted, state, armed>>
    /\ UNCHANGED <<controller, polling, poll, hand, activeJobs, jobVars, queueVars>>

ForceStop ==
    /\ aborted' = aborted \cup ({controller} \ {0})
    /\ state' = "stopped" /\ armed' = FALSE
    /\ UNCHANGED <<controller, drains, polling, poll, hand, activeJobs, jobVars, queueVars>>

-----------------------------------------------------------------------------
Next ==
    \/ PollSkips
    \/ \E p \in Poll : PollStep(p)
    \/ \E j \in Job : JobEnds(j) \/ JobReady(j) \/ Register(j)
    \/ Close \/ Start \/ ForceStop
    \/ \E c \in StopCall : Stop(c) \/ Drained(c) \/ DrainExpires(c)

Spec == Init /\ [][Next]_vars

\* Timers fire, calls of the queue are answered and jobs end; the deadline of
\* a drain passes; a queue with a job to hand out does not fail every claim.
Fairness ==
    /\ WF_vars(PollSkips)
    /\ \A p \in Poll : WF_vars(PollStep(p))
    /\ SF_vars(\E p \in Poll, j \in Job : PollClaims(p, j))
    /\ \A j \in Job : WF_vars(JobEnds(j))
    /\ \A c \in StopCall : WF_vars(Drained(c) \/ DrainExpires(c))

FairSpec == Spec /\ Fairness
=============================================================================
