------------------------------ MODULE JobQueue ------------------------------
(***************************************************************************)
(* InMemoryQueue: jobs, the poller's tick, claims and the runs of          *)
(* processJob(), from await to await.  A value of Run is one claim of one  *)
(* consumer and the run it becomes.  The poller is one consumer; others    *)
(* (workers, an application) go through claimNextJob(), runJob() and       *)
(* releaseJob().  Without OwnRun, autoProcess is off.                      *)
(***************************************************************************)
EXTENDS Integers, FiniteSets, Sequences, SequencesExt

CONSTANTS
    Job, NoJob,     \* the jobs that may be added
    OwnRun,         \* bound: claims of the poller and their unsettled processors
    OtherRun,       \* bound: the same of other consumers
    NoRun,
    Key, NoKey,     \* deduplication keys
    MaxAttempts,    \* the attempts option
    Concurrency,    \* the concurrency of the poller
    Retain,         \* retainSettledJobs
    MaxStalled,     \* maxStalledCount
    External,       \* what other consumers do with a claim
    Stalls,         \* stalledAfter is set
    Slow,           \* a consumer may hold a claim longer than stalledAfter
    Pauses,         \* pause() is called
    Timeouts,       \* processors may outlast the timeout
    Graceful,       \* ... but not the grace after it
    Drains          \* running jobs do not outlast closeTimeout

Run == OwnRun \cup OtherRun

ASSUME QueueConstants ==
    /\ IsFiniteSet(Job) /\ OwnRun \cap OtherRun = {}
    /\ NoJob \notin Job /\ NoRun \notin Run /\ NoKey \notin Key
    /\ MaxAttempts \in Nat /\ Concurrency \in Nat \ {0}
    /\ Retain \in Nat /\ MaxStalled \in Nat \ {0}
    /\ External \subseteq {"run", "release", "die"}
    /\ Stalls \in BOOLEAN /\ Slow \in BOOLEAN
    /\ Pauses \in BOOLEAN /\ Timeouts \in BOOLEAN
    /\ Graceful \in BOOLEAN /\ Drains \in BOOLEAN

VARIABLES
    state,          \* the state of each job; "none" before add(), "gone" after
    attempt,
    key,            \* deduplicationKey
    stalls,         \* stalledCounts
    dedup,          \* deduplicationIndex
    settledOrder,
    paused,
    closing,        \* where close() is; the queue is disposed unless "open"
    activeCount,
    inFlight,       \* the keys of the inFlight map
    ticking,
    dispatching,    \* the claim that processTick() awaits
    taken,          \* the job of a claim, read before the await
    snapshot,       \* its attempt then
    pc,             \* where the consumer, then the run of the claim, is
    processing      \* runs whose processor has not settled

jobVars  == <<state, attempt, key, stalls, dedup, settledOrder>>
slotVars == <<activeCount, inFlight>>
tickVars == <<ticking, dispatching>>
runVars  == <<taken, snapshot, pc, processing>>
vars == <<jobVars, paused, closing, slotVars, tickVars, runVars>>

Pending   == {"scheduled", "waiting", "active", "retrying", "failed"}
Settled   == {"completed", "dead"}
Terminal  == Settled \cup {"failed"}
JobState  == Pending \cup Settled \cup {"none", "gone"}
InRun     == {"running", "grace", "storing"}
disposed  == closing # "open"

\* A job runs at least once, and no later than with its last attempt left.
Limit == IF MaxAttempts = 0 THEN 1 ELSE MaxAttempts

TypeOK ==
    /\ state \in [Job -> JobState]
    /\ attempt \in [Job -> 0..Limit]
    /\ key \in [Job -> Key \cup {NoKey}]
    /\ stalls \in [Job -> 0..MaxStalled - 1]
    /\ dedup \in [Key -> Job \cup {NoJob}]
    /\ settledOrder \in Seq(Job) /\ Len(settledOrder) <= Retain
    /\ paused \in BOOLEAN
    /\ closing \in {"open", "draining", "closed"}
    /\ activeCount \in Int
    /\ inFlight \subseteq Job
    /\ ticking \in BOOLEAN
    /\ dispatching \in Run \cup {NoRun}
    /\ taken \in [Run -> Job \cup {NoJob}]
    /\ snapshot \in [Run -> 0..Limit - 1]
    /\ pc \in [Run -> {"free", "claimed"} \cup InRun]
    /\ processing \subseteq Run

Init ==
    /\ state = [j \in Job |-> "none"] /\ attempt = [j \in Job |-> 0]
    /\ key = [j \in Job |-> NoKey] /\ stalls = [j \in Job |-> 0]
    /\ dedup = [k \in Key |-> NoJob] /\ settledOrder = <<>>
    /\ paused = FALSE /\ closing = "open"
    /\ activeCount = 0 /\ inFlight = {}
    /\ ticking = FALSE /\ dispatching = NoRun
    /\ taken = [r \in Run |-> NoJob] /\ snapshot = [r \in Run |-> 0]
    /\ pc = [r \in Run |-> "free"] /\ processing = {}

InMap(j) == state[j] \notin {"none", "gone"}

\* A tick begins on a timer, so what can happen while it awaits its claim is
\* what the processors it has started do; no timer fires in between.
BetweenTurns == dispatching = NoRun
InATurn      == BetweenTurns \/ activeCount > 0

-----------------------------------------------------------------------------
(* Settling *)

\* Mutant: nobody hears that a job settled.
RecordSettledUnheard(js, next, counts) ==
    /\ state' = next /\ stalls' = counts
    /\ UNCHANGED <<settledOrder, dedup>>

\* recordSettled() of the jobs js, shown as settled in next: the keys they own
\* are free again, and the oldest settled jobs are forgotten.
RecordSettled(js, next, counts) ==
    LET order     == settledOrder \o js
        excess    == IF Len(order) > Retain THEN Len(order) - Retain ELSE 0
        forgotten == { j \in ToSet(SubSeq(order, 1, excess)) : next[j] \in Terminal }
    IN  /\ state' = [j \in Job |-> IF j \in forgotten THEN "gone" ELSE next[j]]
        /\ stalls' = [j \in Job |-> IF j \in forgotten THEN 0 ELSE counts[j]]
        /\ settledOrder' = SubSeq(order, excess + 1, Len(order))
        /\ dedup' = [k \in Key |-> IF dedup[k] \in ToSet(js) THEN NoJob ELSE dedup[k]]

-----------------------------------------------------------------------------
(* Producing and scheduling *)

\* A paused queue refuses (pauseRejectsAdd), and so does a key whose job is
\* still in the map.
Duplicate(k) == k # NoKey /\ dedup[k] # NoJob /\ InMap(dedup[k])

Add(j, k, delayed) ==
    /\ InATurn /\ ~disposed /\ ~paused /\ state[j] = "none"
    /\ ~Duplicate(k)
    /\ state' = [state EXCEPT ![j] = IF delayed THEN "scheduled" ELSE "waiting"]
    /\ key' = [key EXCEPT ![j] = k]
    /\ dedup' = IF k = NoKey THEN dedup ELSE [dedup EXCEPT ![k] = j]
    /\ UNCHANGED <<attempt, stalls, settledOrder, paused, closing, slotVars,
                   tickVars, runVars>>

Promote(j, from) ==
    /\ BetweenTurns /\ ~disposed /\ state[j] = from
    /\ state' = [state EXCEPT ![j] = "waiting"]
    /\ UNCHANGED <<attempt, key, stalls, dedup, settledOrder, paused, closing,
                   slotVars, tickVars, runVars>>

\* The timer of a delayed job, and of a retry; close() clears both.
ScheduledDue(j) == Promote(j, "scheduled")
RetryDue(j)     == Promote(j, "retrying")

-----------------------------------------------------------------------------
(* Claiming *)

Runnable == IF paused \/ disposed THEN {} ELSE { j \in Job : state[j] = "waiting" }

\* Which of the runnable jobs comes first, by priority and age, is left open.
Claim(r) ==
    /\ pc[r] = "free" /\ r \notin processing
    /\ \E j \in Runnable :
          /\ state' = [state EXCEPT ![j] = "active"]
          /\ taken' = [taken EXCEPT ![r] = j]
          /\ snapshot' = [snapshot EXCEPT ![r] = attempt[j]]
    /\ pc' = [pc EXCEPT ![r] = "claimed"]
    /\ UNCHANGED <<attempt, key, stalls, dedup, settledOrder, processing>>

\* runJob() up to its first await: the processor has started.  It writes the
\* job it was given, whatever became of it since the claim.
RunJob(r) ==
    LET j == taken[r]
    IN  IF closing = "closed"
        THEN /\ pc' = [pc EXCEPT ![r] = "free"]
             /\ taken' = [taken EXCEPT ![r] = NoJob]
             /\ state' = [state EXCEPT ![j] = IF @ = "active" THEN "waiting" ELSE @]
             /\ UNCHANGED <<attempt, slotVars, processing>>
        ELSE /\ pc' = [pc EXCEPT ![r] = "running"]
             /\ processing' = processing \cup {r}
             /\ state' = [state EXCEPT ![j] = "active"]
             /\ attempt' = [attempt EXCEPT ![j] = snapshot[r]]
             /\ inFlight' = inFlight \cup {j}
             /\ activeCount' = activeCount + 1
             /\ UNCHANGED taken

\* A tick promotes the delayed jobs whose timer is late ...
TickStarts(due) ==
    /\ BetweenTurns /\ ~ticking /\ ~paused /\ ~disposed
    /\ ticking' = TRUE
    /\ state' = [j \in Job |-> IF j \in due /\ state[j] = "scheduled"
                               THEN "waiting" ELSE state[j]]
    /\ UNCHANGED <<attempt, key, stalls, dedup, settledOrder, paused, closing,
                   slotVars, dispatching, runVars>>

\* Mutant: the limit is checked off by one.
MayClaimOneMore == OwnRun # {} /\ activeCount <= Concurrency /\ Runnable # {}

MayClaim == OwnRun # {} /\ activeCount < Concurrency /\ Runnable # {}

\* ... claims jobs while there is room ...
TickClaims(r) ==
    /\ ticking /\ BetweenTurns /\ MayClaim
    /\ Claim(r)
    /\ dispatching' = r
    /\ UNCHANGED <<paused, closing, slotVars, ticking>>

TickDispatches(r) ==
    /\ dispatching = r
    /\ RunJob(r)
    /\ dispatching' = NoRun
    /\ UNCHANGED <<key, stalls, dedup, settledOrder, paused, closing, ticking, snapshot>>

\* Mutants: running jobs are reclaimed; none is.
MayBeStalledRunning(j) ==
    /\ Stalls /\ state[j] = "active"
    /\ Slow \/ \A r \in Run : pc[r] = "claimed" => taken[r] # j

NeverStalled(j) == FALSE

\* Active, not run here, and claimed longer than stalledAfter ago.
MayBeStalled(j) ==
    /\ Stalls /\ state[j] = "active" /\ j \notin inFlight
    /\ Slow \/ \A r \in Run : pc[r] = "claimed" => taken[r] # j

\* ... and reclaims stalled ones, for good when they stalled too often.
TickEnds(stalled) ==
    LET dead == { j \in stalled : stalls[j] + 1 >= MaxStalled }
    IN  /\ ticking /\ BetweenTurns /\ ~MayClaim
        /\ \A j \in stalled : MayBeStalled(j)
        /\ \E js \in SetToSeqs(dead) :
              RecordSettled(js, [j \in Job |-> IF j \in dead THEN "dead"
                                               ELSE IF j \in stalled THEN "waiting"
                                               ELSE state[j]],
                            [j \in Job |-> IF j \in dead THEN 0
                                           ELSE IF j \in stalled THEN stalls[j] + 1
                                           ELSE stalls[j]])
        /\ ticking' = FALSE
        /\ UNCHANGED <<attempt, key, paused, closing, slotVars, dispatching, runVars>>

-----------------------------------------------------------------------------
(* Other consumers *)

Holds(r) == InATurn /\ pc[r] = "claimed"

ExternalClaims(r) ==
    /\ InATurn
    /\ Claim(r)
    /\ UNCHANGED <<paused, closing, slotVars, tickVars>>

ExternalRuns(r) ==
    /\ Holds(r) /\ "run" \in External
    /\ RunJob(r)
    /\ UNCHANGED <<key, stalls, dedup, settledOrder, paused, closing, tickVars, snapshot>>

\* releaseJob() asks for an active job, not for the caller's claim.
ExternalReleases(r) ==
    /\ Holds(r) /\ "release" \in External
    /\ pc' = [pc EXCEPT ![r] = "free"]
    /\ taken' = [taken EXCEPT ![r] = NoJob]
    /\ state' = [state EXCEPT ![taken[r]] = IF @ = "active" THEN "waiting" ELSE @]
    /\ UNCHANGED <<attempt, key, stalls, dedup, settledOrder, paused, closing,
                   slotVars, tickVars, snapshot, processing>>

ExternalDies(r) ==
    /\ Holds(r) /\ "die" \in External
    /\ pc' = [pc EXCEPT ![r] = "free"]
    /\ taken' = [taken EXCEPT ![r] = NoJob]
    /\ UNCHANGED <<jobVars, paused, closing, slotVars, tickVars, snapshot, processing>>

-----------------------------------------------------------------------------
(* A run *)

\* The finally of runJob(): the slot is free.
RunEnds(r) ==
    /\ pc' = [pc EXCEPT ![r] = "free"]
    /\ inFlight' = inFlight \ {taken[r]}
    /\ activeCount' = activeCount - 1

Succeeds(r) ==
    /\ pc[r] = "running"
    /\ attempt' = [attempt EXCEPT ![taken[r]] = snapshot[r]]
    /\ RecordSettled(<<taken[r]>>, [state EXCEPT ![taken[r]] = "completed"], stalls)
    /\ processing' = processing \ {r}
    /\ RunEnds(r)
    /\ UNCHANGED <<key, paused, closing, tickVars, taken, snapshot>>

\* Mutant: one retry too many.
HandleFailureOnceMore(r, unrecoverable) ==
    LET j == taken[r]
        retries == ~unrecoverable /\ snapshot[r] + 1 <= MaxAttempts
    IN  /\ attempt' = [attempt EXCEPT ![j] = snapshot[r] + 1]
        /\ state' = [state EXCEPT ![j] = IF retries THEN "retrying" ELSE "failed"]
        /\ IF retries THEN RunEnds(r)
           ELSE pc' = [pc EXCEPT ![r] = "storing"] /\ UNCHANGED slotVars
        /\ UNCHANGED <<key, stalls, dedup, settledOrder, paused, closing, tickVars,
                       taken, snapshot>>

\* handleJobFailure() up to its await of the dead letter store.
HandleFailure(r, unrecoverable) ==
    LET j == taken[r]
        retries == ~unrecoverable /\ snapshot[r] + 1 < MaxAttempts
    IN  /\ attempt' = [attempt EXCEPT ![j] = snapshot[r] + 1]
        /\ state' = [state EXCEPT ![j] = IF retries THEN "retrying" ELSE "failed"]
        /\ IF retries THEN RunEnds(r)
           ELSE pc' = [pc EXCEPT ![r] = "storing"] /\ UNCHANGED slotVars
        /\ UNCHANGED <<key, stalls, dedup, settledOrder, paused, closing, tickVars,
                       taken, snapshot>>

Fails(r) ==
    /\ pc[r] = "running"
    /\ processing' = processing \ {r}
    /\ \E unrecoverable \in BOOLEAN : HandleFailure(r, unrecoverable)

\* Mutant: the timeout retries the job beside its processor.
TimesOutAtOnce(r) ==
    /\ BetweenTurns /\ Timeouts /\ pc[r] = "running"
    /\ UNCHANGED processing
    /\ HandleFailure(r, FALSE)

\* The timeout rejects while the processor runs on.
TimesOut(r) ==
    /\ BetweenTurns /\ Timeouts /\ pc[r] = "running"
    /\ pc' = [pc EXCEPT ![r] = "grace"]
    /\ UNCHANGED <<jobVars, paused, closing, slotVars, tickVars, taken, snapshot, processing>>

SettlesInGrace(r) ==
    /\ pc[r] = "grace"
    /\ processing' = processing \ {r}
    /\ HandleFailure(r, FALSE)

GraceExpires(r) ==
    /\ BetweenTurns /\ ~Graceful /\ pc[r] = "grace"
    /\ UNCHANGED processing
    /\ HandleFailure(r, FALSE)

\* The store has taken the job, or refused to: the code goes on in both cases.
DeadLettered(r) ==
    /\ pc[r] = "storing"
    /\ attempt' = [attempt EXCEPT ![taken[r]] = snapshot[r] + 1]
    /\ RecordSettled(<<taken[r]>>, [state EXCEPT ![taken[r]] = "dead"], stalls)
    /\ RunEnds(r)
    /\ UNCHANGED <<key, paused, closing, tickVars, taken, snapshot, processing>>

\* A processor nobody waits for settles.
AbandonedEnds(r) ==
    /\ r \in processing /\ pc[r] \notin {"running", "grace"}
    /\ processing' = processing \ {r}
    /\ UNCHANGED <<jobVars, paused, closing, slotVars, tickVars, taken, snapshot, pc>>

-----------------------------------------------------------------------------
(* pause(), resume() and close() *)

Pause ==
    /\ Pauses /\ InATurn /\ ~paused
    /\ paused' = TRUE
    /\ UNCHANGED <<jobVars, closing, slotVars, tickVars, runVars>>

Resume ==
    /\ InATurn /\ paused /\ ~disposed
    /\ paused' = FALSE
    /\ UNCHANGED <<jobVars, closing, slotVars, tickVars, runVars>>

Close ==
    /\ InATurn /\ ~disposed
    /\ closing' = "draining"
    /\ UNCHANGED <<jobVars, paused, slotVars, tickVars, runVars>>

\* What close() does once it has drained.
ClearAll ==
    /\ closing' = "closed"
    /\ state' = [j \in Job |-> IF InMap(j) THEN "gone" ELSE state[j]]
    /\ dedup' = [k \in Key |-> NoJob]
    /\ settledOrder' = <<>>
    /\ stalls' = [j \in Job |-> 0]
    /\ inFlight' = {} /\ activeCount' = 0 /\ paused' = FALSE
    /\ UNCHANGED <<attempt, key, tickVars, runVars>>

\* Mutant: close() does not wait for the runs.
CloseAtOnce == closing = "draining" /\ BetweenTurns /\ ClearAll

CloseDrained ==
    /\ closing = "draining" /\ BetweenTurns /\ activeCount = 0
    /\ ClearAll

\* closeTimeout, and the window after the abort, have passed.
CloseGivesUp ==
    /\ closing = "draining" /\ BetweenTurns /\ activeCount > 0 /\ ~Drains
    /\ ClearAll

-----------------------------------------------------------------------------

Runs(r) == \/ Succeeds(r) \/ Fails(r) \/ TimesOut(r)
           \/ SettlesInGrace(r) \/ GraceExpires(r) \/ DeadLettered(r)

Consumes(r) == ExternalRuns(r) \/ ExternalReleases(r) \/ ExternalDies(r)

Next ==
    \/ \E j \in Job : \/ \E k \in Key \cup {NoKey}, delayed \in BOOLEAN : Add(j, k, delayed)
                      \/ ScheduledDue(j) \/ RetryDue(j)
    \/ \E jobs \in SUBSET Job : TickStarts(jobs) \/ TickEnds(jobs)
    \/ \E r \in OwnRun : TickClaims(r) \/ TickDispatches(r)
    \/ \E r \in OtherRun : ExternalClaims(r) \/ Consumes(r)
    \/ \E r \in Run : Runs(r) \/ AbandonedEnds(r)
    \/ Pause \/ Resume \/ Close \/ CloseDrained \/ CloseGivesUp

Spec == Init /\ [][Next]_vars

\* The poll timer is always armed again, timers fire, the dead letter store
\* settles, and a consumer runs, releases or forgets what it claimed.  That
\* abandoned processors end serves the bound on runs only.
Fairness ==
    /\ \A j \in Job : /\ WF_vars(ScheduledDue(j)) /\ WF_vars(RetryDue(j))
                      /\ SF_vars(\E jobs \in SUBSET Job : j \in jobs /\ TickEnds(jobs))
    /\ WF_vars(\E jobs \in SUBSET Job : TickStarts(jobs))
    /\ WF_vars(\E jobs \in SUBSET Job : TickEnds(jobs))
    /\ WF_vars(\E r \in OwnRun : TickClaims(r))
    /\ \A r \in OwnRun : WF_vars(TickDispatches(r))
    /\ \A r \in OtherRun : WF_vars(Consumes(r))
    /\ \A r \in Run : WF_vars(Runs(r)) /\ WF_vars(AbandonedEnds(r))
    /\ WF_vars(CloseDrained \/ CloseGivesUp)

FairSpec == Spec /\ Fairness
=============================================================================
