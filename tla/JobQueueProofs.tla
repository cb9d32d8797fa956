--------------------------- MODULE JobQueueProofs ---------------------------
(***************************************************************************)
(* Proofs about the in-memory queue, for every number of jobs, consumers   *)
(* and keys and every mix of options.                                      *)
(***************************************************************************)
EXTENDS JobQueueProperties, SequenceLemmas

-----------------------------------------------------------------------------
(* Types.  That a claim is made with an attempt left, and that only a run  *)
(* that keeps an attempt is retried, is what keeps attempts below the      *)
(* limit.                                                                  *)

Runnables == {"none", "scheduled", "waiting", "active", "retrying"}

AttemptsLeft == \A j \in Job : state[j] \in Runnables => attempt[j] < Limit

ClaimsHaveJobs == \A r \in Run : pc[r] # "free" => taken[r] \in Job

TypeInv == TypeOK /\ AttemptsLeft /\ ClaimsHaveJobs

\* Nobody else touches the claim that the tick awaits.
TickHoldsItsClaim ==
    dispatching # NoRun => dispatching \in OwnRun /\ pc[dispatching] = "claimed"

LEMMA LimitIsPositive == Limit \in Nat \ {0}
BY QueueConstants DEF Limit

\* What recordSettled() leaves behind is well formed, and it forgets only
\* finished jobs.
LEMMA RecordSettledTypes ==
  ASSUME TypeOK, NEW js \in Seq(Job), NEW next \in [Job -> JobState],
         NEW counts \in [Job -> 0..MaxStalled - 1],
         RecordSettled(js, next, counts)
  PROVE  /\ state' \in [Job -> JobState]
         /\ \A j \in Job : state'[j] = next[j] \/ (state'[j] = "gone" /\ next[j] \in Terminal)
         /\ stalls' \in [Job -> 0..MaxStalled - 1]
         /\ settledOrder' \in Seq(Job) /\ Len(settledOrder') <= Retain
         /\ dedup' \in [Key -> Job \cup {NoJob}]
<1> DEFINE order  == settledOrder \o js
           excess == IF Len(order) > Retain THEN Len(order) - Retain ELSE 0
           forgotten == { j \in ToSet(SubSeq(order, 1, excess)) : next[j] \in Terminal }
<1>1. order \in Seq(Job)
  BY ConcatProperties DEF TypeOK
<1>2. /\ Len(order) \in Nat /\ Retain \in Nat
      /\ excess \in 0..Len(order) /\ Len(order) - excess <= Retain
  <2>1. Len(order) \in Nat /\ Retain \in Nat
    BY <1>1, LenProperties, QueueConstants
  <2> HIDE DEF order
  <2> QED
    BY <2>1
<1>3. /\ state' = [j \in Job |-> IF j \in forgotten THEN "gone" ELSE next[j]]
      /\ stalls' = [j \in Job |-> IF j \in forgotten THEN 0 ELSE counts[j]]
      /\ settledOrder' = SubSeq(order, excess + 1, Len(order))
      /\ dedup' = [k \in Key |-> IF dedup[k] \in ToSet(js) THEN NoJob ELSE dedup[k]]
  BY DEF RecordSettled
<1>4. settledOrder' \in Seq(Job) /\ Len(settledOrder') <= Retain
  <2> HIDE DEF order, excess
  <2> QED
    BY <1>1, <1>2, <1>3, DropProperties
<1>5. \A j \in forgotten : next[j] \in Terminal
  OBVIOUS
<1>6. MaxStalled \in Nat \ {0}
  BY QueueConstants
<1> HIDE DEF order, excess, forgotten
<1>7. /\ state' \in [Job -> JobState]
      /\ \A j \in Job : state'[j] = next[j] \/ (state'[j] = "gone" /\ next[j] \in Terminal)
  BY <1>3, <1>5 DEF JobState
<1>8. stalls' \in [Job -> 0..MaxStalled - 1]
  BY <1>3, <1>6
<1>9. dedup' \in [Key -> Job \cup {NoJob}]
  BY <1>3 DEF TypeOK
<1> QED
  BY <1>4, <1>7, <1>8, <1>9

LEMMA ClaimTypes ==
  ASSUME TypeInv, NEW r \in Run, Claim(r)
  PROVE  /\ state' \in [Job -> JobState]
         /\ taken' \in [Run -> Job \cup {NoJob}]
         /\ snapshot' \in [Run -> 0..Limit - 1]
         /\ pc' \in [Run -> {"free", "claimed"} \cup InRun]
         /\ \A j \in Job : state'[j] \in Runnables => state[j] \in Runnables
         /\ \A q \in Run : pc'[q] # "free" => taken'[q] \in Job
<1> USE LimitIsPositive
<1>1. PICK j \in Job : /\ state[j] = "waiting"
                       /\ state' = [state EXCEPT ![j] = "active"]
                       /\ taken' = [taken EXCEPT ![r] = j]
                       /\ snapshot' = [snapshot EXCEPT ![r] = attempt[j]]
  BY DEF Claim, Runnable
<1>2. attempt[j] \in 0..Limit - 1
  BY <1>1 DEF TypeInv, TypeOK, AttemptsLeft, Runnables
<1>3. pc' = [pc EXCEPT ![r] = "claimed"]
  BY DEF Claim
<1> QED
  BY <1>1, <1>2, <1>3
  DEF TypeInv, TypeOK, ClaimsHaveJobs, JobState, Pending, Runnables

LEMMA RunJobTypes ==
  ASSUME TypeInv, NEW r \in Run, pc[r] = "claimed", RunJob(r)
  PROVE  /\ state' \in [Job -> JobState]
         /\ attempt' \in [Job -> 0..Limit]
         /\ taken' \in [Run -> Job \cup {NoJob}]
         /\ pc' \in [Run -> {"free", "claimed"} \cup InRun]
         /\ processing' \subseteq Run
         /\ activeCount' \in Int /\ inFlight' \subseteq Job
         /\ \A j \in Job : state'[j] \in Runnables => attempt'[j] < Limit
         /\ \A q \in Run : pc'[q] # "free" => taken'[q] \in Job
<1> USE LimitIsPositive
<1> DEFINE j == taken[r]
<1>1. j \in Job /\ snapshot[r] \in 0..Limit - 1
  BY DEF TypeInv, TypeOK, ClaimsHaveJobs
<1>2. CASE closing = "closed"
  <2>1. /\ pc' = [pc EXCEPT ![r] = "free"]
        /\ taken' = [taken EXCEPT ![r] = NoJob]
        /\ state' = [state EXCEPT ![j] = IF @ = "active" THEN "waiting" ELSE @]
        /\ UNCHANGED <<attempt, activeCount, inFlight, processing>>
    BY <1>2 DEF RunJob, slotVars
  <2> HIDE DEF j
  <2>2. /\ state' \in [Job -> JobState]
        /\ \A i \in Job : state'[i] \in Runnables => state[i] \in Runnables
    BY <1>1, <2>1 DEF TypeInv, TypeOK, JobState, Pending, Runnables
  <2>3. /\ pc' \in [Run -> {"free", "claimed"} \cup InRun]
        /\ \A q \in Run : pc'[q] # "free" => taken'[q] \in Job
    BY <2>1 DEF TypeInv, TypeOK, ClaimsHaveJobs
  <2> QED
    BY <2>1, <2>2, <2>3 DEF TypeInv, TypeOK, AttemptsLeft
<1>3. CASE closing # "closed"
  <2>1. /\ pc' = [pc EXCEPT ![r] = "running"]
        /\ processing' = processing \cup {r}
        /\ state' = [state EXCEPT ![j] = "active"]
        /\ attempt' = [attempt EXCEPT ![j] = snapshot[r]]
        /\ inFlight' = inFlight \cup {j}
        /\ activeCount' = activeCount + 1
        /\ taken' = taken
    BY <1>3 DEF RunJob
  <2> HIDE DEF j
  <2>2. /\ state' \in [Job -> JobState] /\ attempt' \in [Job -> 0..Limit]
        /\ \A i \in Job : state'[i] \in Runnables => attempt'[i] < Limit
    BY <1>1, <2>1 DEF TypeInv, TypeOK, AttemptsLeft, JobState, Pending, Runnables
  <2>3. /\ pc' \in [Run -> {"free", "claimed"} \cup InRun]
        /\ \A q \in Run : pc'[q] # "free" => taken'[q] \in Job
    BY <1>1, <2>1 DEF TypeInv, TypeOK, ClaimsHaveJobs, InRun
  <2> QED
    BY <1>1, <2>1, <2>2, <2>3 DEF TypeInv, TypeOK
<1> QED
  BY <1>2, <1>3

LEMMA RunEndsTypes ==
  ASSUME TypeInv, NEW r \in Run, RunEnds(r)
  PROVE  /\ pc' \in [Run -> {"free", "claimed"} \cup InRun]
         /\ activeCount' \in Int /\ inFlight' \subseteq Job
         /\ \A q \in Run : pc'[q] # "free" => pc[q] # "free"
BY DEF RunEnds, TypeInv, TypeOK

LEMMA HandleFailureTypes ==
  ASSUME TypeInv, NEW r \in Run, NEW unrecoverable \in BOOLEAN, pc[r] # "free",
         HandleFailure(r, unrecoverable), processing' \subseteq Run
  PROVE  TypeInv'
<1> USE LimitIsPositive
<1> DEFINE j == taken[r]
           retries == ~unrecoverable /\ snapshot[r] + 1 < MaxAttempts
<1>1. j \in Job /\ snapshot[r] \in 0..Limit - 1
  BY DEF TypeInv, TypeOK, ClaimsHaveJobs
<1>2. /\ attempt' = [attempt EXCEPT ![j] = snapshot[r] + 1]
      /\ state' = [state EXCEPT ![j] = IF retries THEN "retrying" ELSE "failed"]
      /\ IF retries THEN RunEnds(r)
         ELSE pc' = [pc EXCEPT ![r] = "storing"] /\ UNCHANGED slotVars
      /\ UNCHANGED <<key, stalls, dedup, settledOrder, paused, closing, tickVars,
                     taken, snapshot>>
  BY DEF HandleFailure
<1>3. retries => snapshot[r] + 1 < Limit
  BY <1>1, QueueConstants DEF Limit
<1>4. /\ pc' \in [Run -> {"free", "claimed"} \cup InRun]
      /\ activeCount' \in Int /\ inFlight' \subseteq Job
      /\ \A q \in Run : pc'[q] # "free" => pc[q] # "free"
  BY <1>2, RunEndsTypes DEF TypeInv, TypeOK, InRun, slotVars
<1>5. /\ state' \in [Job -> JobState] /\ attempt' \in [Job -> 0..Limit]
      /\ AttemptsLeft'
  <2> HIDE DEF j, retries
  <2>1. state' \in [Job -> JobState] /\ attempt' \in [Job -> 0..Limit]
    BY <1>1, <1>2 DEF TypeInv, TypeOK, JobState, Pending
  <2>2. ASSUME NEW i \in Job, state'[i] \in Runnables PROVE attempt'[i] < Limit
    BY <1>1, <1>2, <1>3, <2>2 DEF TypeInv, TypeOK, AttemptsLeft, Runnables
  <2> QED
    BY <2>1, <2>2 DEF AttemptsLeft
<1>6. ClaimsHaveJobs'
  BY <1>2, <1>4 DEF TypeInv, ClaimsHaveJobs
<1> QED
  BY <1>2, <1>4, <1>5, <1>6 DEF TypeInv, TypeOK, tickVars

LEMMA SettlesTypes ==
  ASSUME TypeInv, NEW r \in Run, pc[r] # "free", NEW last \in {"completed", "dead"},
         RecordSettled(<<taken[r]>>, [state EXCEPT ![taken[r]] = last], stalls),
         RunEnds(r), NEW n \in 0..Limit,
         attempt' = [attempt EXCEPT ![taken[r]] = n],
         processing' \subseteq Run,
         UNCHANGED <<key, paused, closing, tickVars, taken, snapshot>>
  PROVE  TypeInv'
<1> USE LimitIsPositive
<1> DEFINE j == taken[r]
           next == [state EXCEPT ![j] = last]
<1>1. j \in Job /\ <<j>> \in Seq(Job)
  BY DEF TypeInv, TypeOK, ClaimsHaveJobs
<1>2. next \in [Job -> JobState]
  BY <1>1 DEF TypeInv, TypeOK, JobState, Settled, Pending
<1>3. /\ state' \in [Job -> JobState]
      /\ \A i \in Job : state'[i] = next[i] \/ (state'[i] = "gone" /\ next[i] \in Terminal)
      /\ stalls' \in [Job -> 0..MaxStalled - 1]
      /\ settledOrder' \in Seq(Job) /\ Len(settledOrder') <= Retain
      /\ dedup' \in [Key -> Job \cup {NoJob}]
  BY <1>1, <1>2, RecordSettledTypes DEF TypeInv, TypeOK
<1>4. /\ pc' \in [Run -> {"free", "claimed"} \cup InRun]
      /\ activeCount' \in Int /\ inFlight' \subseteq Job
      /\ \A q \in Run : pc'[q] # "free" => pc[q] # "free"
  BY RunEndsTypes
<1>5. attempt' \in [Job -> 0..Limit]
  BY <1>1 DEF TypeInv, TypeOK
<1>6. AttemptsLeft'
  <2> SUFFICES ASSUME NEW i \in Job, state'[i] \in Runnables
               PROVE  attempt'[i] < Limit
    BY DEF AttemptsLeft
  <2>1. i # j /\ state[i] \in Runnables
    BY <1>1, <1>3 DEF Runnables, TypeInv, TypeOK
  <2> QED
    BY <1>1, <2>1 DEF TypeInv, TypeOK, AttemptsLeft
<1>7. ClaimsHaveJobs'
  BY <1>4 DEF TypeInv, ClaimsHaveJobs
<1> QED
  BY <1>3, <1>4, <1>5, <1>6, <1>7 DEF TypeInv, TypeOK, tickVars

LEMMA TickEndsTypes ==
  ASSUME TypeInv, NEW stalled \in SUBSET Job, TickEnds(stalled)
  PROVE  TypeInv'
<1> DEFINE dead == { j \in stalled : stalls[j] + 1 >= MaxStalled }
           next == [j \in Job |-> IF j \in dead THEN "dead"
                                  ELSE IF j \in stalled THEN "waiting"
                                  ELSE state[j]]
           counts == [j \in Job |-> IF j \in dead THEN 0
                                    ELSE IF j \in stalled THEN stalls[j] + 1
                                    ELSE stalls[j]]
<1>1. PICK js \in SetToSeqs(dead) : RecordSettled(js, next, counts)
  BY DEF TickEnds
<1>2. js \in Seq(Job)
  <2>1. dead \in SUBSET Job
    OBVIOUS
  <2>2. IsFiniteSet(dead)
    BY <2>1, QueueConstants, FS_Subset
  <2> HIDE DEF dead
  <2> QED
    BY <2>1, <2>2, SetToSeqsProperties
<1>3. next \in [Job -> JobState]
  BY DEF TypeInv, TypeOK, JobState, Settled, Pending
<1>4. counts \in [Job -> 0..MaxStalled - 1]
  BY QueueConstants DEF TypeInv, TypeOK
<1>5. \A j \in stalled : state[j] = "active"
  BY DEF TickEnds, MayBeStalled
<1>6. \A j \in Job : next[j] \in Runnables => state[j] \in Runnables
  BY <1>5 DEF Runnables
<1> HIDE DEF next, counts
<1>7. /\ state' \in [Job -> JobState]
      /\ \A j \in Job : state'[j] = next[j] \/ (state'[j] = "gone" /\ next[j] \in Terminal)
      /\ stalls' \in [Job -> 0..MaxStalled - 1]
      /\ settledOrder' \in Seq(Job) /\ Len(settledOrder') <= Retain
      /\ dedup' \in [Key -> Job \cup {NoJob}]
  BY <1>1, <1>2, <1>3, <1>4, RecordSettledTypes DEF TypeInv
<1>8. /\ ticking' = FALSE
      /\ UNCHANGED <<attempt, key, paused, closing, slotVars, dispatching, runVars>>
  BY DEF TickEnds
<1>9. AttemptsLeft' /\ ClaimsHaveJobs'
  BY <1>6, <1>7, <1>8 DEF TypeInv, AttemptsLeft, ClaimsHaveJobs, Runnables, runVars
<1> QED
  BY <1>7, <1>8, <1>9 DEF TypeInv, TypeOK, slotVars, runVars

-----------------------------------------------------------------------------

LEMMA TypeInvInit == Init => TypeInv /\ TickHoldsItsClaim
<1> SUFFICES ASSUME Init PROVE TypeInv /\ TickHoldsItsClaim
  OBVIOUS
<1>1. settledOrder \in Seq(Job) /\ Len(settledOrder) = 0
  BY EmptySeq DEF Init
<1>2. /\ state \in [Job -> JobState] /\ key \in [Job -> Key \cup {NoKey}]
      /\ attempt \in [Job -> 0..Limit] /\ stalls \in [Job -> 0..MaxStalled - 1]
      /\ dedup \in [Key -> Job \cup {NoJob}]
      /\ taken \in [Run -> Job \cup {NoJob}] /\ snapshot \in [Run -> 0..Limit - 1]
      /\ pc \in [Run -> {"free", "claimed"} \cup InRun]
  BY LimitIsPositive, QueueConstants DEF Init, JobState
<1>3. AttemptsLeft /\ ClaimsHaveJobs /\ TickHoldsItsClaim
  BY LimitIsPositive DEF Init, AttemptsLeft, ClaimsHaveJobs, TickHoldsItsClaim
<1>4. Retain \in Nat
  BY QueueConstants
<1>5. paused \in BOOLEAN /\ ticking \in BOOLEAN
  BY Zenon DEF Init
<1>6. closing = "open" /\ activeCount = 0 /\ dispatching = NoRun
  BY DEF Init
<1>7. inFlight \subseteq Job /\ processing \subseteq Run
  BY Zenon DEF Init
<1> QED
  <2>1. TypeOK
    BY <1>1, <1>2, <1>4, <1>5, <1>6, <1>7 DEF TypeOK
  <2> QED
    BY <1>3, <2>1 DEF TypeInv

LEMMA TypeInvNext ==
  ASSUME TypeInv, TickHoldsItsClaim, [Next]_vars
  PROVE  TypeInv'
<1> USE LimitIsPositive
<1>1. ASSUME NEW j \in Job, NEW k \in Key \cup {NoKey}, NEW delayed \in BOOLEAN,
             Add(j, k, delayed)
      PROVE  TypeInv'
  <2>1. state' \in [Job -> JobState]
    BY <1>1 DEF Add, TypeInv, TypeOK, JobState, Pending
  <2>2. \A i \in Job : state'[i] \in Runnables => state[i] \in Runnables
    BY <1>1 DEF Add, TypeInv, TypeOK, Runnables
  <2>3. key' \in [Job -> Key \cup {NoKey}] /\ dedup' \in [Key -> Job \cup {NoJob}]
    BY <1>1 DEF Add, TypeInv, TypeOK
  <2>4. UNCHANGED <<attempt, stalls, settledOrder, paused, closing, slotVars, tickVars, runVars>>
    BY <1>1 DEF Add
  <2> QED
    BY <2>1, <2>2, <2>3, <2>4
    DEF TypeInv, TypeOK, AttemptsLeft, ClaimsHaveJobs, slotVars, tickVars, runVars
<1>2. ASSUME NEW j \in Job, ScheduledDue(j) \/ RetryDue(j)
      PROVE  TypeInv'
  <2>1. PICK from \in {"scheduled", "retrying"} : Promote(j, from)
    BY <1>2 DEF ScheduledDue, RetryDue
  <2>2. /\ state' \in [Job -> JobState]
        /\ \A i \in Job : state'[i] \in Runnables => state[i] \in Runnables
    BY <2>1 DEF Promote, TypeInv, TypeOK, JobState, Pending, Runnables
  <2>3. UNCHANGED <<attempt, key, stalls, dedup, settledOrder, paused, closing,
                    slotVars, tickVars, runVars>>
    BY <2>1 DEF Promote
  <2> QED
    BY <2>2, <2>3
    DEF TypeInv, TypeOK, AttemptsLeft, ClaimsHaveJobs, slotVars, tickVars, runVars
<1>3. ASSUME NEW due \in SUBSET Job, TickStarts(due)
      PROVE  TypeInv'
  <2>1. /\ state' \in [Job -> JobState]
        /\ \A i \in Job : state'[i] \in Runnables => state[i] \in Runnables
    BY <1>3 DEF TickStarts, TypeInv, TypeOK, JobState, Pending, Runnables
  <2>2. /\ ticking' = TRUE
        /\ UNCHANGED <<attempt, key, stalls, dedup, settledOrder, paused, closing,
                       slotVars, dispatching, runVars>>
    BY <1>3 DEF TickStarts
  <2> QED
    BY <2>1, <2>2
    DEF TypeInv, TypeOK, AttemptsLeft, ClaimsHaveJobs, slotVars, runVars
<1>4. ASSUME NEW stalled \in SUBSET Job, TickEnds(stalled)
      PROVE  TypeInv'
  BY <1>4, TickEndsTypes
<1>5. ASSUME NEW r \in Run, TickClaims(r) \/ ExternalClaims(r)
      PROVE  TypeInv'
  <2>1. Claim(r) /\ UNCHANGED <<paused, closing, slotVars, ticking>>
    BY <1>5 DEF TickClaims, ExternalClaims, tickVars
  <2>2. dispatching' \in Run \cup {NoRun}
    BY <1>5 DEF TickClaims, ExternalClaims, tickVars, TypeInv, TypeOK
  <2>3. UNCHANGED <<attempt, key, stalls, dedup, settledOrder, processing>>
    BY <2>1 DEF Claim
  <2> QED
    BY <2>1, <2>2, <2>3, ClaimTypes
    DEF TypeInv, TypeOK, AttemptsLeft, ClaimsHaveJobs, slotVars
<1>6. ASSUME NEW r \in Run, pc[r] = "claimed", RunJob(r),
             UNCHANGED <<key, stalls, dedup, settledOrder, paused, closing, ticking, snapshot>>,
             dispatching' \in Run \cup {NoRun}
      PROVE  TypeInv'
  BY <1>6, RunJobTypes DEF TypeInv, TypeOK, AttemptsLeft, ClaimsHaveJobs
<1>7. ASSUME NEW r \in OtherRun, ExternalReleases(r) \/ ExternalDies(r)
      PROVE  TypeInv'
  <2>1. r \in Run /\ taken[r] \in Job
    BY <1>7 DEF Run, ExternalReleases, ExternalDies, Holds, TypeInv, ClaimsHaveJobs
  <2>2. /\ state' \in [Job -> JobState]
        /\ \A i \in Job : state'[i] \in Runnables => state[i] \in Runnables
    BY <1>7, <2>1
    DEF ExternalReleases, ExternalDies, jobVars, TypeInv, TypeOK, JobState, Pending, Runnables
  <2>3. /\ pc' = [pc EXCEPT ![r] = "free"]
        /\ taken' = [taken EXCEPT ![r] = NoJob]
        /\ UNCHANGED <<attempt, key, stalls, dedup, settledOrder, paused, closing,
                       slotVars, tickVars, snapshot, processing>>
    BY <1>7 DEF ExternalReleases, ExternalDies, jobVars
  <2> QED
    BY <2>1, <2>2, <2>3
    DEF TypeInv, TypeOK, AttemptsLeft, ClaimsHaveJobs, slotVars, tickVars
<1>8. ASSUME NEW r \in Run, Runs(r)
      PROVE  TypeInv'
  <2>1. CASE Succeeds(r)
    <3>1. snapshot[r] \in 0..Limit
      BY DEF TypeInv, TypeOK
    <3> QED
      BY <2>1, <3>1, SettlesTypes DEF Succeeds, TypeInv, TypeOK
  <2>2. CASE Fails(r)
    BY <2>2, HandleFailureTypes DEF Fails, TypeInv, TypeOK
  <2>3. CASE TimesOut(r)
    <3>1. pc' = [pc EXCEPT ![r] = "grace"] /\ pc[r] = "running"
      BY <2>3 DEF TimesOut
    <3>2. UNCHANGED <<jobVars, paused, closing, slotVars, tickVars, taken, snapshot, processing>>
      BY <2>3 DEF TimesOut
    <3> QED
      BY <3>1, <3>2 DEF TypeInv, TypeOK, AttemptsLeft, ClaimsHaveJobs, InRun,
                        jobVars, slotVars, tickVars
  <2>4. CASE SettlesInGrace(r)
    BY <2>4, HandleFailureTypes DEF SettlesInGrace, TypeInv, TypeOK
  <2>5. CASE GraceExpires(r)
    BY <2>5, HandleFailureTypes DEF GraceExpires, TypeInv, TypeOK
  <2>6. CASE DeadLettered(r)
    <3>1. snapshot[r] + 1 \in 0..Limit
      BY DEF TypeInv, TypeOK
    <3> QED
      BY <2>6, <3>1, SettlesTypes DEF DeadLettered, TypeInv, TypeOK
  <2> QED
    BY <1>8, <2>1, <2>2, <2>3, <2>4, <2>5, <2>6 DEF Runs
<1>9. ASSUME NEW r \in Run, AbandonedEnds(r)
      PROVE  TypeInv'
  BY <1>9 DEF AbandonedEnds, TypeInv, TypeOK, AttemptsLeft, ClaimsHaveJobs,
              jobVars, slotVars, tickVars
<1>10. ASSUME Pause \/ Resume \/ Close
       PROVE  TypeInv'
  BY <1>10 DEF Pause, Resume, Close, TypeInv, TypeOK, AttemptsLeft, ClaimsHaveJobs,
               jobVars, slotVars, tickVars, runVars
<1>11. ASSUME ClearAll
       PROVE  TypeInv'
  <2>1. /\ state' \in [Job -> JobState]
        /\ \A i \in Job : state'[i] \in Runnables => state[i] \in Runnables
    BY <1>11 DEF ClearAll, TypeInv, TypeOK, JobState, Runnables
  <2>2. settledOrder' \in Seq(Job) /\ Len(settledOrder') <= Retain
    BY <1>11, EmptySeq, QueueConstants DEF ClearAll
  <2>3. stalls' \in [Job -> 0..MaxStalled - 1] /\ dedup' \in [Key -> Job \cup {NoJob}]
    BY <1>11, QueueConstants DEF ClearAll
  <2>4. closing' = "closed" /\ activeCount' = 0 /\ UNCHANGED <<attempt, key, tickVars, runVars>>
    BY <1>11 DEF ClearAll
  <2>5. inFlight' \subseteq Job /\ paused' \in BOOLEAN
    BY <1>11, Zenon DEF ClearAll
  <2>6. TypeOK'
    BY <2>1, <2>2, <2>3, <2>4, <2>5 DEF TypeInv, TypeOK, tickVars, runVars
  <2>7. AttemptsLeft' /\ ClaimsHaveJobs'
    BY <2>1, <2>4 DEF TypeInv, AttemptsLeft, ClaimsHaveJobs, runVars
  <2> QED
    BY <2>6, <2>7 DEF TypeInv
<1>12. CASE UNCHANGED vars
  BY <1>12 DEF TypeInv, TypeOK, AttemptsLeft, ClaimsHaveJobs,
               vars, jobVars, slotVars, tickVars, runVars
<1>13. ASSUME NEW r \in OwnRun, TickDispatches(r)
       PROVE  TypeInv'
  <2>1. r \in Run /\ r # NoRun
    BY QueueConstants DEF Run
  <2>2. pc[r] = "claimed" /\ RunJob(r) /\ dispatching' = NoRun
    BY <1>13, <2>1 DEF TickDispatches, TickHoldsItsClaim
  <2>3. UNCHANGED <<key, stalls, dedup, settledOrder, paused, closing, ticking, snapshot>>
    BY <1>13 DEF TickDispatches
  <2> QED
    BY <1>6, <2>1, <2>2, <2>3
<1>14. ASSUME NEW r \in OtherRun, ExternalRuns(r)
       PROVE  TypeInv'
  <2>1. r \in Run /\ pc[r] = "claimed" /\ RunJob(r)
    BY <1>14 DEF ExternalRuns, Holds, Run
  <2>2. UNCHANGED <<key, stalls, dedup, settledOrder, paused, closing, ticking, snapshot>>
    BY <1>14 DEF ExternalRuns, tickVars
  <2>3. dispatching' \in Run \cup {NoRun}
    BY <1>14 DEF ExternalRuns, tickVars, TypeInv, TypeOK
  <2> QED
    BY <1>6, <2>1, <2>2, <2>3
<1>15. OwnRun \subseteq Run /\ OtherRun \subseteq Run
  BY DEF Run
<1> QED
  <2>1. Next \/ UNCHANGED vars
    OBVIOUS
  <2> QED
    BY <1>1, <1>2, <1>3, <1>4, <1>5, <1>7, <1>8, <1>9, <1>10, <1>11, <1>12, <1>13,
       <1>14, <1>15, <2>1
    DEF Next, Consumes, CloseDrained, CloseGivesUp

LEMMA TickHoldsItsClaimNext ==
  ASSUME TypeInv, TickHoldsItsClaim, [Next]_vars
  PROVE  TickHoldsItsClaim'
<1>1. OwnRun \subseteq Run /\ OtherRun \subseteq Run /\ OwnRun \cap OtherRun = {}
  BY QueueConstants DEF Run
<1>2. ASSUME UNCHANGED dispatching,
             \A r \in OwnRun : pc[r] = "claimed" => pc'[r] = "claimed"
      PROVE  TickHoldsItsClaim'
  BY <1>2 DEF TickHoldsItsClaim
<1>3. ASSUME NEW r \in OwnRun, TickClaims(r)
      PROVE  TickHoldsItsClaim'
  BY <1>1, <1>3 DEF TickClaims, Claim, TickHoldsItsClaim, TypeInv, TypeOK
<1>4. ASSUME NEW r \in OwnRun, TickDispatches(r)
      PROVE  TickHoldsItsClaim'
  BY <1>4 DEF TickDispatches, TickHoldsItsClaim
<1>5. ASSUME NEW r \in OtherRun, ExternalClaims(r) \/ Consumes(r)
      PROVE  TickHoldsItsClaim'
  <2>1. UNCHANGED dispatching
    BY <1>5 DEF Consumes, ExternalClaims, ExternalRuns, ExternalReleases, ExternalDies, tickVars
  <2>2. \E p \in {"free", "claimed", "running"} : pc' = [pc EXCEPT ![r] = p]
    BY <1>5
    DEF Consumes, ExternalClaims, Claim, ExternalRuns, RunJob, ExternalReleases, ExternalDies
  <2> QED
    BY <1>1, <1>2, <2>1, <2>2 DEF TypeInv, TypeOK
<1>6. ASSUME NEW r \in Run, Runs(r)
      PROVE  TickHoldsItsClaim'
  <2>1. UNCHANGED dispatching
    BY <1>6 DEF Runs, Succeeds, Fails, TimesOut, SettlesInGrace, GraceExpires,
                DeadLettered, HandleFailure, tickVars
  <2>2. \E p \in {"free", "grace", "storing"} : pc' = [pc EXCEPT ![r] = p]
    BY <1>6 DEF Runs, Succeeds, Fails, TimesOut, SettlesInGrace, GraceExpires,
                DeadLettered, HandleFailure, RunEnds
  <2>3. pc[r] # "claimed"
    BY <1>6 DEF Runs, Succeeds, Fails, TimesOut, SettlesInGrace, GraceExpires, DeadLettered
  <2> QED
    BY <1>1, <1>2, <2>1, <2>2, <2>3 DEF TypeInv, TypeOK
<1>7. ASSUME UNCHANGED <<dispatching, pc>>
      PROVE  TickHoldsItsClaim'
  BY <1>7 DEF TickHoldsItsClaim
<1>8. ASSUME \/ \E j \in Job, k \in Key \cup {NoKey}, delayed \in BOOLEAN : Add(j, k, delayed)
             \/ \E j \in Job : ScheduledDue(j) \/ RetryDue(j)
             \/ \E jobs \in SUBSET Job : TickStarts(jobs) \/ TickEnds(jobs)
      PROVE  UNCHANGED <<dispatching, pc>>
  BY <1>8 DEF Add, ScheduledDue, RetryDue, Promote, TickStarts, TickEnds, tickVars, runVars
<1>9. ASSUME \/ \E r \in Run : AbandonedEnds(r)
             \/ Pause \/ Resume \/ Close \/ ClearAll \/ UNCHANGED vars
      PROVE  UNCHANGED <<dispatching, pc>>
  BY <1>9 DEF AbandonedEnds, Pause, Resume, Close, ClearAll, vars, tickVars, runVars
<1> QED
  <2>1. Next \/ UNCHANGED vars
    OBVIOUS
  <2> QED
    BY <1>3, <1>4, <1>5, <1>6, <1>7, <1>8, <1>9, <2>1
    DEF Next, CloseDrained, CloseGivesUp

\* Every reachable state of the queue is well formed: no attempt beyond the
\* limit, no stall count beyond maxStalledCount, and never more settled jobs
\* in the order of settling than retainSettledJobs (add() to close() of
\* inMemoryQueue.core.ts).
THEOREM QueueTypes == Spec => []TypeOK
<1>1. Init => TypeInv /\ TickHoldsItsClaim
  BY TypeInvInit
<1>2. TypeInv /\ TickHoldsItsClaim /\ [Next]_vars => (TypeInv /\ TickHoldsItsClaim)'
  BY TypeInvNext, TickHoldsItsClaimNext
<1>3. TypeInv => TypeOK
  BY DEF TypeInv
<1> QED
  BY <1>1, <1>2, <1>3, PTL DEF Spec

-----------------------------------------------------------------------------
(* Slots.  activeCount counts the runs under way until close() clears it,  *)
(* whoever started them, and the tick checks it before it awaits a claim:  *)
(* there is still room when the claim is there.                            *)

RunsAreCounted ==
    /\ IsFiniteSet(Running)
    /\ closing # "closed" => activeCount = Cardinality(Running)

RoomIsKept ==
    /\ Cardinality(Running \cap OwnRun) <= Concurrency
    /\ dispatching # NoRun => Cardinality(Running \cap OwnRun) < Concurrency

SlotInv == RunsAreCounted /\ RoomIsKept

LEMMA OwnRunsAreFinite ==
  ASSUME RunsAreCounted
  PROVE  /\ IsFiniteSet(Running \cap OwnRun)
         /\ Cardinality(Running \cap OwnRun) \in Nat /\ Cardinality(Running) \in Nat
         /\ Cardinality(Running \cap OwnRun) <= Cardinality(Running)
BY FS_Subset, FS_CardinalityType DEF RunsAreCounted

\* A run frees its slot when it ends.
LEMMA RunEndsSlots ==
  ASSUME TypeInv, SlotInv, NEW r \in Run, pc[r] \in InRun, RunEnds(r),
         UNCHANGED <<closing, dispatching>>
  PROVE  SlotInv'
<1>1. Running' = Running \ {r} /\ r \in Running
  BY DEF Running, RunEnds, TypeInv, TypeOK, InRun
<1>2. /\ IsFiniteSet(Running')
      /\ Cardinality(Running') = Cardinality(Running) - 1
  BY <1>1, FS_RemoveElement DEF SlotInv, RunsAreCounted
<1>3. RunsAreCounted'
  BY <1>2 DEF SlotInv, RunsAreCounted, RunEnds
<1>4. /\ IsFiniteSet(Running \cap OwnRun)
      /\ Cardinality(Running \cap OwnRun) \in Nat
      /\ Cardinality(Running' \cap OwnRun) \in Nat
  BY <1>3, OwnRunsAreFinite, FS_CardinalityType, FS_Subset DEF SlotInv, RunsAreCounted
<1>5. Cardinality(Running' \cap OwnRun) <= Cardinality(Running \cap OwnRun)
  <2>1. Running' \cap OwnRun \in SUBSET (Running \cap OwnRun)
    BY <1>1
  <2> QED
    BY <1>4, <2>1, FS_Subset
<1>6. Concurrency \in Nat
  BY QueueConstants
<1> QED
  BY <1>3, <1>4, <1>5, <1>6 DEF SlotInv, RoomIsKept

LEMMA SlotsUnchanged ==
  ASSUME SlotInv, Running' = Running, dispatching' \in {dispatching, NoRun},
         closing' = "closed" \/ UNCHANGED <<closing, activeCount>>
  PROVE  SlotInv'
BY DEF SlotInv, RunsAreCounted, RoomIsKept

LEMMA FailureSlots ==
  ASSUME TypeInv, SlotInv, NEW r \in Run, pc[r] \in InRun, NEW u \in BOOLEAN,
         HandleFailure(r, u)
  PROVE  SlotInv'
<1>1. UNCHANGED <<closing, dispatching>>
  BY DEF HandleFailure, tickVars
<1>2. CASE RunEnds(r)
  BY <1>1, <1>2, RunEndsSlots
<1>3. CASE pc' = [pc EXCEPT ![r] = "storing"] /\ UNCHANGED slotVars
  <2>1. Running' = Running
    BY <1>3 DEF Running, TypeInv, TypeOK, InRun
  <2> QED
    BY <1>1, <1>3, <2>1, SlotsUnchanged DEF slotVars
<1> QED
  BY <1>2, <1>3 DEF HandleFailure

\* A run takes its slot before its processor has started, unless the queue is
\* closed.  Only the tick has to have room for it.
LEMMA RunJobSlots ==
  ASSUME TypeInv, SlotInv, NEW r \in Run, pc[r] = "claimed", RunJob(r), UNCHANGED closing,
         \/ r \in OwnRun /\ dispatching = r /\ dispatching' = NoRun /\ r # NoRun
         \/ r \notin OwnRun /\ UNCHANGED dispatching
  PROVE  SlotInv'
<1>1. CASE closing = "closed"
  <2>1. Running' = Running
    BY <1>1 DEF RunJob, Running, TypeInv, TypeOK, InRun
  <2> QED
    BY <1>1, <2>1, SlotsUnchanged
<1>2. CASE closing # "closed"
  <2>1. Running' = Running \cup {r} /\ r \notin Running /\ activeCount' = activeCount + 1
    BY <1>2 DEF RunJob, Running, TypeInv, TypeOK, InRun
  <2>2. IsFiniteSet(Running') /\ Cardinality(Running') = Cardinality(Running) + 1
    BY <2>1, FS_AddElement DEF SlotInv, RunsAreCounted
  <2>3. RunsAreCounted'
    BY <1>2, <2>1, <2>2 DEF SlotInv, RunsAreCounted
  <2>4. /\ IsFiniteSet(Running \cap OwnRun)
        /\ Cardinality(Running \cap OwnRun) \in Nat
    BY OwnRunsAreFinite DEF SlotInv
  <2>5. CASE r \in OwnRun /\ dispatching = r /\ dispatching' = NoRun /\ r # NoRun
    <3>1. Running' \cap OwnRun = (Running \cap OwnRun) \cup {r}
      BY <2>1, <2>5
    <3>2. Cardinality(Running' \cap OwnRun) = Cardinality(Running \cap OwnRun) + 1
      BY <2>1, <2>4, <3>1, FS_AddElement
    <3>3. Cardinality(Running \cap OwnRun) < Concurrency /\ Concurrency \in Nat
      BY <2>5, QueueConstants DEF SlotInv, RoomIsKept
    <3> QED
      BY <2>3, <2>4, <2>5, <3>2, <3>3 DEF SlotInv, RoomIsKept
  <2>6. CASE r \notin OwnRun /\ UNCHANGED dispatching
    <3>1. Running' \cap OwnRun = Running \cap OwnRun
      BY <2>1, <2>6
    <3> QED
      BY <2>3, <2>6, <3>1 DEF SlotInv, RoomIsKept
  <2> QED
    BY <2>5, <2>6
<1> QED
  BY <1>1, <1>2

LEMMA SlotInvInit == Init => SlotInv
<1> SUFFICES ASSUME Init PROVE SlotInv
  OBVIOUS
<1>1. Running = {} /\ Running \cap OwnRun = {}
  BY DEF Init, Running, InRun
<1>2. activeCount = 0 /\ dispatching = NoRun
  BY DEF Init
<1>3. Concurrency \in Nat
  BY QueueConstants
<1> QED
  BY <1>1, <1>2, <1>3, FS_EmptySet DEF SlotInv, RunsAreCounted, RoomIsKept

LEMMA SlotInvNext ==
  ASSUME TypeInv, TickHoldsItsClaim, SlotInv, [Next]_vars
  PROVE  SlotInv'
<1>1. OwnRun \subseteq Run /\ OtherRun \subseteq Run /\ OwnRun \cap OtherRun = {}
  BY QueueConstants DEF Run
<1>2. ASSUME NEW r \in OwnRun, TickClaims(r)
      PROVE  SlotInv'
  <2>1. /\ pc[r] = "free" /\ pc' = [pc EXCEPT ![r] = "claimed"]
        /\ UNCHANGED <<closing, activeCount>>
        /\ activeCount < Concurrency /\ Runnable # {}
    BY <1>2 DEF TickClaims, Claim, MayClaim, slotVars
  <2>2. Running' = Running
    BY <1>1, <2>1 DEF Running, TypeInv, TypeOK, InRun
  <2>3. closing # "closed"
    BY <2>1 DEF Runnable, disposed
  <2>4. Cardinality(Running \cap OwnRun) < Concurrency
    <3>1. activeCount = Cardinality(Running) /\ Concurrency \in Nat
      BY <2>3, QueueConstants DEF SlotInv, RunsAreCounted
    <3> QED
      BY <2>1, <3>1, OwnRunsAreFinite DEF SlotInv
  <2> QED
    BY <2>1, <2>2, <2>4 DEF SlotInv, RunsAreCounted, RoomIsKept
<1>3. ASSUME NEW r \in OwnRun, TickDispatches(r)
      PROVE  SlotInv'
  <2>1. r \in Run /\ r # NoRun /\ dispatching = r /\ dispatching' = NoRun /\ RunJob(r)
    BY <1>1, <1>3, QueueConstants DEF TickDispatches
  <2>2. pc[r] = "claimed" /\ UNCHANGED closing
    BY <1>3, <2>1 DEF TickDispatches, TickHoldsItsClaim
  <2> QED
    BY <2>1, <2>2, RunJobSlots
<1>4. ASSUME NEW r \in OtherRun, ExternalRuns(r)
      PROVE  SlotInv'
  <2>1. r \in Run /\ r \notin OwnRun
    BY <1>1
  <2>2. pc[r] = "claimed" /\ RunJob(r) /\ UNCHANGED <<closing, dispatching>>
    BY <1>4 DEF ExternalRuns, Holds, tickVars
  <2> QED
    BY <2>1, <2>2, RunJobSlots
<1>5. ASSUME NEW r \in OtherRun, ExternalClaims(r) \/ ExternalReleases(r) \/ ExternalDies(r)
      PROVE  SlotInv'
  <2>1. UNCHANGED <<closing, activeCount, dispatching>>
    BY <1>5 DEF ExternalClaims, ExternalReleases, ExternalDies, tickVars, slotVars
  <2>2. \E p \in {"free", "claimed"} : pc' = [pc EXCEPT ![r] = p]
    BY <1>5 DEF ExternalClaims, Claim, ExternalReleases, ExternalDies
  <2>3. pc[r] \in {"free", "claimed"}
    BY <1>5 DEF ExternalClaims, Claim, ExternalReleases, ExternalDies, Holds
  <2>4. Running' = Running
    BY <1>1, <2>2, <2>3 DEF Running, TypeInv, TypeOK, InRun
  <2> QED
    BY <2>1, <2>4, SlotsUnchanged
<1>6. ASSUME NEW r \in Run, Succeeds(r) \/ DeadLettered(r)
      PROVE  SlotInv'
  BY <1>6, RunEndsSlots DEF Succeeds, DeadLettered, tickVars, InRun
<1>7. ASSUME NEW r \in Run, Fails(r) \/ SettlesInGrace(r) \/ GraceExpires(r)
      PROVE  SlotInv'
  <2>1. pc[r] \in InRun
    BY <1>7 DEF Fails, SettlesInGrace, GraceExpires, InRun
  <2>2. \E u \in BOOLEAN : HandleFailure(r, u)
    BY <1>7 DEF Fails, SettlesInGrace, GraceExpires
  <2> QED
    BY <2>1, <2>2, FailureSlots
<1>8. ASSUME NEW r \in Run, TimesOut(r)
      PROVE  SlotInv'
  <2>1. Running' = Running
    BY <1>8 DEF TimesOut, Running, TypeInv, TypeOK, InRun
  <2> QED
    BY <1>8, <2>1, SlotsUnchanged DEF TimesOut, slotVars, tickVars
<1>9. ASSUME \/ \E j \in Job, k \in Key \cup {NoKey}, delayed \in BOOLEAN : Add(j, k, delayed)
             \/ \E j \in Job : ScheduledDue(j) \/ RetryDue(j)
             \/ \E jobs \in SUBSET Job : TickStarts(jobs) \/ TickEnds(jobs)
             \/ \E r \in Run : AbandonedEnds(r)
             \/ Pause \/ Resume \/ UNCHANGED vars
      PROVE  UNCHANGED <<pc, dispatching, closing, activeCount>>
  BY <1>9 DEF Add, ScheduledDue, RetryDue, Promote, TickStarts, TickEnds, AbandonedEnds,
              Pause, Resume, vars, tickVars, runVars, slotVars
<1>10. ASSUME UNCHANGED <<pc, dispatching, closing, activeCount>>
       PROVE  SlotInv'
  BY <1>10, SlotsUnchanged DEF Running
<1>11. ASSUME Close
       PROVE  SlotInv'
  <2>1. UNCHANGED <<pc, dispatching, activeCount>> /\ closing = "open"
    BY <1>11 DEF Close, disposed, runVars, tickVars, slotVars
  <2>2. Running' = Running
    BY <2>1 DEF Running
  <2> QED
    BY <2>1, <2>2 DEF SlotInv, RunsAreCounted, RoomIsKept
<1>12. ASSUME ClearAll
       PROVE  SlotInv'
  <2>1. UNCHANGED <<pc, dispatching>> /\ closing' = "closed"
    BY <1>12 DEF ClearAll, runVars, tickVars
  <2> QED
    BY <2>1, SlotsUnchanged DEF Running
<1> QED
  <2>1. Next \/ UNCHANGED vars
    OBVIOUS
  <2> QED
    BY <1>2, <1>3, <1>4, <1>5, <1>6, <1>7, <1>8, <1>9, <1>10, <1>11, <1>12, <2>1
    DEF Next, Runs, Consumes, CloseDrained, CloseGivesUp

\* The poller never has more runs under way than its concurrency, however its
\* awaits of a claim interleave with the runs and with other consumers
\* (processTick() and runJob() of inMemoryQueue.core.ts).
ConcurrencyIsKept == Cardinality(Running \cap OwnRun) <= Concurrency

LEMMA PollerKeepsConcurrency == Spec => []ConcurrencyIsKept
<1>1. Init => TypeInv /\ TickHoldsItsClaim /\ SlotInv
  BY TypeInvInit, SlotInvInit
<1>2. TypeInv /\ TickHoldsItsClaim /\ SlotInv /\ [Next]_vars
        => (TypeInv /\ TickHoldsItsClaim /\ SlotInv)'
  BY TypeInvNext, TickHoldsItsClaimNext, SlotInvNext
<1>3. SlotInv => ConcurrencyIsKept
  BY DEF SlotInv, RoomIsKept, ConcurrencyIsKept
<1> QED
  BY <1>1, <1>2, <1>3, PTL DEF Spec

-----------------------------------------------------------------------------
(* History.  Every settled job stands in the order of settling until it is *)
(* forgotten, so that the bound on the order bounds the jobs kept.         *)

SettledAreListed ==
    \A j \in Job : state[j] \in Settled => j \in ToSet(settledOrder)

\* recordSettled() lists what settles, and forgets what it drops.
LEMMA RecordSettledLists ==
  ASSUME TypeOK, SettledAreListed, NEW js \in Seq(Job), NEW next \in [Job -> JobState],
         NEW counts, RecordSettled(js, next, counts),
         \A j \in Job : next[j] \in Settled => state[j] \in Settled \/ j \in ToSet(js)
  PROVE  SettledAreListed'
<1> DEFINE order  == settledOrder \o js
           excess == IF Len(order) > Retain THEN Len(order) - Retain ELSE 0
           dropped == ToSet(SubSeq(order, 1, excess))
           forgotten == { j \in dropped : next[j] \in Terminal }
<1>1. order \in Seq(Job) /\ Len(order) \in Nat /\ Retain \in Nat
  <2>1. order \in Seq(Job)
    BY ConcatProperties DEF TypeOK
  <2> QED
    BY <2>1, LenProperties, QueueConstants
<1>2. excess \in 0..Len(order)
  BY <1>1
<1>3. ToSet(settledOrder) \subseteq ToSet(order) /\ ToSet(js) \subseteq ToSet(order)
  BY ConcatEntries DEF TypeOK
<1>4. /\ state' = [j \in Job |-> IF j \in forgotten THEN "gone" ELSE next[j]]
      /\ settledOrder' = SubSeq(order, excess + 1, Len(order))
  BY DEF RecordSettled
<1> HIDE DEF order, excess
<1>5. ToSet(order) \subseteq dropped \cup ToSet(settledOrder')
  BY <1>1, <1>2, <1>4, DropSplits
<1> SUFFICES ASSUME NEW j \in Job, state'[j] \in Settled
             PROVE  j \in ToSet(settledOrder')
  BY DEF SettledAreListed
<1>6. j \notin forgotten /\ next[j] \in Settled
  BY <1>4 DEF Settled
<1>7. j \notin dropped
  BY <1>6 DEF Terminal
<1>8. j \in ToSet(order)
  BY <1>3, <1>6 DEF SettledAreListed
<1> QED
  BY <1>5, <1>7, <1>8

LEMMA RunSettlesLists ==
  ASSUME TypeInv, SettledAreListed, NEW r \in Run, pc[r] # "free",
         NEW last \in {"completed", "dead"},
         RecordSettled(<<taken[r]>>, [state EXCEPT ![taken[r]] = last], stalls)
  PROVE  SettledAreListed'
<1> DEFINE j == taken[r]
           next == [state EXCEPT ![j] = last]
<1>1. j \in Job /\ <<j>> \in Seq(Job) /\ j \in ToSet(<<j>>)
  BY DEF TypeInv, ClaimsHaveJobs, ToSet
<1>2. next \in [Job -> JobState]
  BY <1>1 DEF TypeInv, TypeOK, JobState, Settled, Pending
<1>3. \A i \in Job : next[i] \in Settled => state[i] \in Settled \/ i \in ToSet(<<j>>)
  BY <1>1 DEF TypeInv, TypeOK
<1> HIDE DEF next
<1>4. RecordSettled(<<j>>, next, stalls)
  BY DEF next
<1> HIDE DEF j
<1> QED
  BY <1>1, <1>2, <1>3, <1>4, RecordSettledLists DEF TypeInv

LEMMA TickEndsLists ==
  ASSUME TypeInv, SettledAreListed, NEW stalled \in SUBSET Job, TickEnds(stalled)
  PROVE  SettledAreListed'
<1> DEFINE dead == { j \in stalled : stalls[j] + 1 >= MaxStalled }
           next == [j \in Job |-> IF j \in dead THEN "dead"
                                  ELSE IF j \in stalled THEN "waiting"
                                  ELSE state[j]]
           counts == [j \in Job |-> IF j \in dead THEN 0
                                    ELSE IF j \in stalled THEN stalls[j] + 1
                                    ELSE stalls[j]]
<1>1. PICK js \in SetToSeqs(dead) : RecordSettled(js, next, counts)
  BY DEF TickEnds
<1>2. js \in Seq(Job) /\ dead \subseteq ToSet(js)
  <2>1. dead \in SUBSET Job
    OBVIOUS
  <2>2. IsFiniteSet(dead)
    BY <2>1, QueueConstants, FS_Subset
  <2> HIDE DEF dead
  <2> QED
    BY <2>1, <2>2, SetToSeqsProperties, SetToSeqsCovers
<1>3. next \in [Job -> JobState]
  BY DEF TypeInv, TypeOK, JobState, Settled, Pending
<1>4. \A j \in Job : next[j] \in Settled => state[j] \in Settled \/ j \in ToSet(js)
  BY <1>2 DEF Settled
<1> HIDE DEF next, counts
<1> QED
  BY <1>1, <1>2, <1>3, <1>4, RecordSettledLists DEF TypeInv

LEMMA SettledAreListedNext ==
  ASSUME TypeInv, SettledAreListed, TickHoldsItsClaim, [Next]_vars
  PROVE  SettledAreListed'
<1>1. OwnRun \subseteq Run /\ OtherRun \subseteq Run
  BY DEF Run
<1>2. ASSUME UNCHANGED settledOrder,
             \A j \in Job : state'[j] \in Settled => state[j] \in Settled
      PROVE  SettledAreListed'
  BY <1>2 DEF SettledAreListed
<1>3. ASSUME NEW j \in Job, NEW s \in JobState \ Settled,
             state' = [state EXCEPT ![j] = s], UNCHANGED settledOrder
      PROVE  SettledAreListed'
  BY <1>2, <1>3 DEF TypeInv, TypeOK
<1>4. ASSUME UNCHANGED <<state, settledOrder>>
      PROVE  SettledAreListed'
  BY <1>2, <1>4
<1>5. ASSUME NEW j \in Job, NEW k \in Key \cup {NoKey}, NEW delayed \in BOOLEAN,
             Add(j, k, delayed)
      PROVE  SettledAreListed'
  <2>1. /\ state' = [state EXCEPT ![j] = IF delayed THEN "scheduled" ELSE "waiting"]
        /\ UNCHANGED settledOrder
    BY <1>5 DEF Add
  <2> QED
    BY <1>2, <2>1 DEF TypeInv, TypeOK, Settled
<1>6. ASSUME NEW j \in Job, ScheduledDue(j) \/ RetryDue(j)
      PROVE  SettledAreListed'
  BY <1>3, <1>6 DEF ScheduledDue, RetryDue, Promote, JobState, Pending, Settled
<1>7. ASSUME NEW due \in SUBSET Job, TickStarts(due)
      PROVE  SettledAreListed'
  BY <1>2, <1>7 DEF TickStarts, Settled
<1>8. ASSUME NEW stalled \in SUBSET Job, TickEnds(stalled)
      PROVE  SettledAreListed'
  BY <1>8, TickEndsLists
<1>9. ASSUME NEW r \in Run, Claim(r)
      PROVE  SettledAreListed'
  BY <1>3, <1>9 DEF Claim, Runnable, JobState, Pending, Settled
<1>10. ASSUME NEW r \in Run, pc[r] = "claimed", RunJob(r), UNCHANGED settledOrder
       PROVE  SettledAreListed'
  <2>1. taken[r] \in Job
    BY <1>10 DEF TypeInv, ClaimsHaveJobs
  <2>2. \E s \in JobState : /\ state' = [state EXCEPT ![taken[r]] = s]
                            /\ s \in Settled => state[taken[r]] = s
    BY <1>10, <2>1 DEF RunJob, TypeInv, TypeOK, JobState, Pending, Settled
  <2> QED
    BY <1>2, <1>10, <2>1, <2>2 DEF TypeInv, TypeOK
<1>11. ASSUME NEW r \in OwnRun, TickDispatches(r)
       PROVE  SettledAreListed'
  <2>1. r # NoRun /\ r \in Run
    BY <1>1, QueueConstants
  <2> QED
    BY <1>10, <1>11, <2>1 DEF TickDispatches, TickHoldsItsClaim
<1>12. ASSUME NEW r \in OtherRun, ExternalRuns(r)
       PROVE  SettledAreListed'
  BY <1>1, <1>10, <1>12 DEF ExternalRuns, Holds
<1>13. ASSUME NEW r \in OtherRun, ExternalReleases(r) \/ ExternalDies(r)
       PROVE  SettledAreListed'
  <2>1. taken[r] \in Job
    BY <1>1, <1>13 DEF ExternalReleases, ExternalDies, Holds, TypeInv, ClaimsHaveJobs
  <2>2. UNCHANGED settledOrder
    BY <1>13 DEF ExternalReleases, ExternalDies, jobVars
  <2>3. \A j \in Job : state'[j] \in Settled => state[j] \in Settled
    BY <1>13, <2>1
    DEF ExternalReleases, ExternalDies, jobVars, TypeInv, TypeOK, Settled
  <2> QED
    BY <1>2, <2>2, <2>3
<1>14. ASSUME NEW r \in Run, Succeeds(r) \/ DeadLettered(r)
       PROVE  SettledAreListed'
  BY <1>14, RunSettlesLists DEF Succeeds, DeadLettered
<1>15. ASSUME NEW r \in Run, Fails(r) \/ SettlesInGrace(r) \/ GraceExpires(r)
       PROVE  SettledAreListed'
  <2>1. taken[r] \in Job
    BY <1>15 DEF Fails, SettlesInGrace, GraceExpires, TypeInv, ClaimsHaveJobs
  <2>2. PICK u \in BOOLEAN : HandleFailure(r, u)
    BY <1>15 DEF Fails, SettlesInGrace, GraceExpires
  <2>3. /\ UNCHANGED settledOrder
        /\ \E s \in {"retrying", "failed"} : state' = [state EXCEPT ![taken[r]] = s]
    BY <2>2 DEF HandleFailure
  <2> QED
    BY <1>3, <2>1, <2>3 DEF JobState, Pending, Settled
<1>16. ASSUME \/ \E r \in Run : TimesOut(r) \/ AbandonedEnds(r)
              \/ Pause \/ Resume \/ Close \/ UNCHANGED vars
       PROVE  SettledAreListed'
  BY <1>4, <1>16 DEF TimesOut, AbandonedEnds, Pause, Resume, Close, vars, jobVars
<1>17. ASSUME ClearAll
       PROVE  SettledAreListed'
  <2>1. \A j \in Job : state'[j] \notin Settled
    BY <1>17 DEF ClearAll, InMap, Settled
  <2> QED
    BY <2>1 DEF SettledAreListed
<1> QED
  <2>1. Next \/ UNCHANGED vars
    OBVIOUS
  <2> QED
    BY <1>1, <1>5, <1>6, <1>7, <1>8, <1>9, <1>11, <1>12, <1>13, <1>14, <1>15, <1>16,
       <1>17, <2>1
    DEF Next, TickClaims, ExternalClaims, Runs, Consumes, CloseDrained, CloseGivesUp

SettledAreBounded == Cardinality({ j \in Job : state[j] \in Settled }) <= Retain

\* The queue keeps at most retainSettledJobs completed and dead-lettered jobs,
\* also when a reclaim dead-letters several at once (recordSettled() and
\* pruneSettled() of inMemoryQueue.core.ts).
LEMMA HistoryIsBounded == Spec => []SettledAreBounded
<1>1. Init => TypeInv /\ TickHoldsItsClaim /\ SettledAreListed
  <2>1. Init => SettledAreListed
    BY DEF Init, SettledAreListed, Settled
  <2> QED
    BY <2>1, TypeInvInit
<1>2. TypeInv /\ TickHoldsItsClaim /\ SettledAreListed /\ [Next]_vars
        => (TypeInv /\ TickHoldsItsClaim /\ SettledAreListed)'
  BY TypeInvNext, TickHoldsItsClaimNext, SettledAreListedNext
<1>3. TypeInv /\ SettledAreListed => SettledAreBounded
  <2> SUFFICES ASSUME TypeInv, SettledAreListed PROVE SettledAreBounded
    OBVIOUS
  <2> DEFINE kept == { j \in Job : state[j] \in Settled }
  <2>1. /\ settledOrder \in Seq(Job) /\ Len(settledOrder) <= Retain
        /\ Len(settledOrder) \in Nat /\ Retain \in Nat
    BY LenProperties, QueueConstants DEF TypeInv, TypeOK
  <2>2. IsFiniteSet(ToSet(settledOrder)) /\ Cardinality(ToSet(settledOrder)) <= Len(settledOrder)
    BY <2>1, EntriesAreBounded
  <2>3. kept \in SUBSET ToSet(settledOrder)
    BY DEF SettledAreListed
  <2>4. IsFiniteSet(kept) /\ Cardinality(kept) <= Cardinality(ToSet(settledOrder))
    BY <2>2, <2>3, FS_Subset
  <2>5. Cardinality(kept) \in Nat /\ Cardinality(ToSet(settledOrder)) \in Nat
    BY <2>2, <2>4, FS_CardinalityType
  <2> QED
    BY <2>1, <2>2, <2>4, <2>5 DEF SettledAreBounded
<1> QED
  BY <1>1, <1>2, <1>3, PTL DEF Spec

\* So both limits of the queue hold in every reachable state.
THEOREM LimitsHold == Spec => []LimitsAreKept
<1>1. ConcurrencyIsKept /\ SettledAreBounded => LimitsAreKept
  BY DEF ConcurrencyIsKept, SettledAreBounded, LimitsAreKept
<1> QED
  BY <1>1, PollerKeepsConcurrency, HistoryIsBounded, PTL

-----------------------------------------------------------------------------
(* Ownership: a job of the in-memory queue has one owner at a time, and    *)
(* what follows from it, when consumers keep their claims no longer than   *)
(* stalledAfter, processors end within the grace after their timeout, and  *)
(* running jobs do not outlast closeTimeout.  Without any of the three,    *)
(* jobs do get two owners.                                                 *)

Orderly == ~Slow /\ Graceful /\ Drains

\* A claim, or the run it became, is the only one of its job.
OneHolder ==
    \A r, q \in Run : pc[r] # "free" /\ pc[q] # "free" /\ taken[r] = taken[q] => r = q

\* What the holder of a job knows of it: the job is where the holder left it.
HolderKnows ==
    \A r \in Run : /\ pc[r] = "claimed" => state[taken[r]] = "active" \/ closing = "closed"
                   /\ pc[r] \in {"running", "grace"} => state[taken[r]] = "active"
                   /\ pc[r] = "storing" => state[taken[r]] = "failed"

\* No processor is abandoned.
ProcessorsAreHeard == \A r \in processing : pc[r] \in {"running", "grace"}

InFlightIsHeld ==
    closing # "closed" =>
        \A j \in Job : j \in inFlight <=> \E r \in Running : taken[r] = j

\* Nothing in the order of settling comes back.
ListedStaySettled ==
    \A j \in ToSet(settledOrder) : state[j] \in Settled \cup {"gone"}

ClosedIsQuiet ==
    closing = "closed" => Running = {} /\ \A j \in Job : state[j] \in {"none", "gone"}

Ownership ==
    /\ OneHolder /\ HolderKnows /\ ProcessorsAreHeard
    /\ InFlightIsHeld /\ ListedStaySettled /\ ClosedIsQuiet

\* What one step may do to a job that has settled: SettledIsFinal.
StaysSettled ==
    \A j \in Job : /\ state[j] \in Settled => state'[j] \in {state[j], "gone"}
                   /\ state[j] = "gone" => state'[j] = "gone"

-----------------------------------------------------------------------------
(* Steps that no holder of a job can notice.                               *)

LEMMA QuietStep ==
  ASSUME TypeInv, Ownership, UNCHANGED <<runVars, slotVars, settledOrder>>,
         closing' = "closed" <=> closing = "closed",
         \A j \in Job : \/ state'[j] = state[j]
                        \/ /\ closing # "closed"
                           /\ state[j] \in {"none", "scheduled", "retrying"}
                           /\ state'[j] \in {"scheduled", "waiting"}
  PROVE  Ownership' /\ StaysSettled
<1>1. /\ pc' = pc /\ taken' = taken /\ processing' = processing
      /\ inFlight' = inFlight /\ settledOrder' = settledOrder /\ Running' = Running
  BY DEF runVars, slotVars, Running
<1>2. \A j \in Job : state[j] \in {"active", "failed", "gone"} \cup Settled => state'[j] = state[j]
  BY DEF Settled
<1>3. OneHolder' /\ ProcessorsAreHeard'
  BY <1>1 DEF Ownership, OneHolder, ProcessorsAreHeard
<1>4. HolderKnows'
  BY <1>1, <1>2 DEF Ownership, HolderKnows, TypeInv, ClaimsHaveJobs
<1>5. InFlightIsHeld'
  BY <1>1 DEF Ownership, InFlightIsHeld
<1>6. ListedStaySettled'
  <2>1. \A j \in ToSet(settledOrder) : j \in Job
    BY ElementOfSeq, LenProperties DEF TypeInv, TypeOK, ToSet
  <2> QED
    BY <1>1, <1>2, <2>1 DEF Ownership, ListedStaySettled
<1>7. ClosedIsQuiet'
  BY <1>1 DEF Ownership, ClosedIsQuiet
<1>8. StaysSettled
  BY <1>2 DEF StaysSettled
<1> QED
  BY <1>3, <1>4, <1>5, <1>6, <1>7, <1>8 DEF Ownership

-----------------------------------------------------------------------------
(* Taking a job, and letting go of it.                                     *)

LEMMA ListedAreJobs ==
  ASSUME TypeInv
  PROVE  \A j \in ToSet(settledOrder) : j \in Job
BY ElementOfSeq, LenProperties DEF TypeInv, TypeOK, ToSet

\* A waiting job has no holder.
LEMMA ClaimStep ==
  ASSUME TypeInv, Ownership, NEW r \in Run, Claim(r), UNCHANGED <<closing, slotVars>>
  PROVE  Ownership' /\ StaysSettled
<1>1. PICK j \in Runnable : /\ state' = [state EXCEPT ![j] = "active"]
                            /\ taken' = [taken EXCEPT ![r] = j]
  BY DEF Claim
<1>2. /\ j \in Job /\ state[j] = "waiting" /\ closing # "closed"
  BY DEF Runnable, disposed
<1>3. /\ pc[r] = "free" /\ r \notin processing /\ pc' = [pc EXCEPT ![r] = "claimed"]
      /\ UNCHANGED <<settledOrder, processing, closing, inFlight>>
  BY DEF Claim, slotVars
<1>4. /\ pc \in [Run -> {"free", "claimed"} \cup InRun]
      /\ taken \in [Run -> Job \cup {NoJob}] /\ state \in [Job -> JobState]
      /\ processing \subseteq Run
  BY DEF TypeInv, TypeOK
<1>5. \A q \in Run : pc[q] # "free" => taken[q] # j /\ taken[q] \in Job
  BY <1>2, <1>4 DEF Ownership, HolderKnows, TypeInv, ClaimsHaveJobs, InRun
<1>6. Running' = Running /\ r \notin Running
  BY <1>3, <1>4 DEF Running, InRun
<1>7. OneHolder'
  BY <1>1, <1>3, <1>4, <1>5 DEF Ownership, OneHolder
<1>8. HolderKnows'
  <2> SUFFICES ASSUME NEW q \in Run
               PROVE  /\ pc'[q] = "claimed" => state'[taken'[q]] = "active" \/ closing' = "closed"
                      /\ pc'[q] \in {"running", "grace"} => state'[taken'[q]] = "active"
                      /\ pc'[q] = "storing" => state'[taken'[q]] = "failed"
    BY DEF HolderKnows
  <2>1. CASE q = r
    BY <1>1, <1>2, <1>3, <1>4, <2>1
  <2>2. CASE q # r
    BY <1>1, <1>2, <1>3, <1>4, <1>5, <2>2 DEF Ownership, HolderKnows
  <2> QED
    BY <2>1, <2>2
<1>9. ProcessorsAreHeard'
  BY <1>3, <1>4 DEF Ownership, ProcessorsAreHeard
<1>10. InFlightIsHeld'
  BY <1>1, <1>3, <1>4, <1>6 DEF Ownership, InFlightIsHeld, Running
<1>11. ListedStaySettled' /\ StaysSettled
  BY <1>1, <1>2, <1>3, <1>4, ListedAreJobs DEF Ownership, ListedStaySettled, StaysSettled, Settled
<1>12. ClosedIsQuiet'
  BY <1>2, <1>3 DEF ClosedIsQuiet
<1> QED
  BY <1>7, <1>8, <1>9, <1>10, <1>11, <1>12 DEF Ownership

\* A consumer drops its claim: nobody else has the job.
LEMMA LetGoStep ==
  ASSUME TypeInv, Ownership, NEW r \in Run, pc[r] = "claimed",
         pc' = [pc EXCEPT ![r] = "free"], taken' = [taken EXCEPT ![r] = NoJob],
         NEW s \in {"active", "waiting"},
         state' = [state EXCEPT ![taken[r]] = IF @ = "active" THEN s ELSE @],
         UNCHANGED <<processing, closing, slotVars, settledOrder>>
  PROVE  Ownership' /\ StaysSettled
<1> DEFINE j == taken[r]
<1>1. /\ pc \in [Run -> {"free", "claimed"} \cup InRun]
      /\ taken \in [Run -> Job \cup {NoJob}] /\ state \in [Job -> JobState]
      /\ processing \subseteq Run /\ j \in Job
  BY DEF TypeInv, TypeOK, ClaimsHaveJobs
<1>2. inFlight' = inFlight
  BY DEF slotVars
<1>3. \A q \in Run : pc[q] # "free" /\ q # r => taken[q] # j /\ taken[q] \in Job
  BY <1>1 DEF Ownership, OneHolder, TypeInv, ClaimsHaveJobs
<1> HIDE DEF j
<1>4. \A i \in Job : state'[i] = IF i = j /\ state[j] = "active" THEN s ELSE state[i]
  BY <1>1 DEF j
<1>5. \A q \in Run : /\ q # r => pc'[q] = pc[q] /\ taken'[q] = taken[q]
                     /\ q = r => pc'[q] = "free"
  BY <1>1
<1>6. Running' = Running /\ r \notin Running
  BY <1>1 DEF Running, InRun
<1>7. OneHolder' /\ HolderKnows'
  BY <1>3, <1>4, <1>5 DEF Ownership, OneHolder, HolderKnows
<1>8. ProcessorsAreHeard'
  BY <1>1, <1>5 DEF Ownership, ProcessorsAreHeard
<1>9. InFlightIsHeld'
  BY <1>1, <1>2, <1>5, <1>6 DEF Ownership, InFlightIsHeld, Running
<1>10. ListedStaySettled' /\ StaysSettled
  BY <1>4, ListedAreJobs DEF Ownership, ListedStaySettled, StaysSettled, Settled
<1>11. ClosedIsQuiet'
  BY <1>4, <1>6, <1>1 DEF Ownership, ClosedIsQuiet
<1> QED
  BY <1>7, <1>8, <1>9, <1>10, <1>11 DEF Ownership

\* The holder of a claim runs it.
LEMMA RunJobStep ==
  ASSUME TypeInv, Ownership, NEW r \in Run, pc[r] = "claimed", RunJob(r),
         UNCHANGED <<closing, settledOrder>>
  PROVE  Ownership' /\ StaysSettled
<1> DEFINE j == taken[r]
<1>1. CASE closing = "closed"
  <2>1. /\ pc' = [pc EXCEPT ![r] = "free"] /\ taken' = [taken EXCEPT ![r] = NoJob]
        /\ state' = [state EXCEPT ![taken[r]] = IF @ = "active" THEN "waiting" ELSE @]
        /\ UNCHANGED <<slotVars, processing>>
    BY <1>1 DEF RunJob
  <2> QED
    BY <2>1, LetGoStep
<1>2. CASE closing # "closed"
  <2>1. /\ pc \in [Run -> {"free", "claimed"} \cup InRun]
        /\ taken \in [Run -> Job \cup {NoJob}] /\ state \in [Job -> JobState]
        /\ processing \subseteq Run /\ j \in Job
    BY DEF TypeInv, TypeOK, ClaimsHaveJobs
  <2>2. /\ pc' = [pc EXCEPT ![r] = "running"] /\ taken' = taken
        /\ processing' = processing \cup {r}
        /\ state' = [state EXCEPT ![j] = "active"] /\ inFlight' = inFlight \cup {j}
    BY <1>2 DEF RunJob
  <2>3. state[j] = "active"
    BY <1>2 DEF Ownership, HolderKnows
  <2>4. state' = state
    BY <2>1, <2>2, <2>3
  <2>5. \A q \in Run : /\ q # r => pc'[q] = pc[q]
                       /\ q = r => pc'[q] = "running"
    BY <2>1, <2>2
  <2>6. Running' = Running \cup {r}
    BY <2>1, <2>2 DEF Running, InRun
  <2> HIDE DEF j
  <2>7. OneHolder'
    BY <2>2, <2>5 DEF Ownership, OneHolder
  <2>8. HolderKnows'
    BY <1>2, <2>2, <2>3, <2>4, <2>5 DEF Ownership, HolderKnows, j
  <2>9. ProcessorsAreHeard'
    BY <2>1, <2>2, <2>5 DEF Ownership, ProcessorsAreHeard
  <2>10. InFlightIsHeld'
    <3> SUFFICES ASSUME NEW i \in Job
                 PROVE  i \in inFlight' <=> \E q \in Running' : taken'[q] = i
      BY DEF InFlightIsHeld
    <3>1. i \in inFlight <=> \E q \in Running : taken[q] = i
      BY <1>2 DEF Ownership, InFlightIsHeld
    <3> QED
      BY <2>2, <2>6, <3>1 DEF j
  <2>11. ListedStaySettled' /\ StaysSettled
    BY <2>4, ListedAreJobs DEF Ownership, ListedStaySettled, StaysSettled
  <2>12. ClosedIsQuiet'
    BY <1>2 DEF ClosedIsQuiet
  <2> QED
    BY <2>7, <2>8, <2>9, <2>10, <2>11, <2>12 DEF Ownership
<1> QED
  BY <1>1, <1>2

-----------------------------------------------------------------------------
(* Runs that end.                                                          *)

\* A run is under way only before the queue is closed, and its job is in the
\* hands of nobody else.
LEMMA RunIsAlone ==
  ASSUME TypeInv, Ownership, NEW r \in Run, pc[r] \in InRun
  PROVE  /\ closing # "closed" /\ taken[r] \in Job
         /\ state[taken[r]] \in {"active", "failed"}
         /\ pc[r] \in {"running", "grace"} => state[taken[r]] = "active"
         /\ pc[r] = "storing" => r \notin processing
         /\ \A q \in Run : pc[q] # "free" /\ q # r => taken[q] # taken[r]
<1>1. pc[r] # "free" /\ pc[r] \in {"running", "grace", "storing"} /\ r \in Running
  BY DEF InRun, Running
<1> QED
  BY <1>1 DEF Ownership, OneHolder, HolderKnows, ProcessorsAreHeard, ClosedIsQuiet,
              TypeInv, ClaimsHaveJobs

LEMMA RunEndsHolding ==
  ASSUME TypeInv, Ownership, NEW r \in Run, pc[r] \in InRun, RunEnds(r),
         UNCHANGED <<taken, closing>>, processing' = processing \ {r},
         \A i \in Job : i # taken[r] /\ state[i] \in {"active", "failed"} => state'[i] = state[i]
  PROVE  OneHolder' /\ HolderKnows' /\ ProcessorsAreHeard' /\ InFlightIsHeld' /\ ClosedIsQuiet'
<1> DEFINE j == taken[r]
<1>1. /\ closing # "closed" /\ j \in Job
      /\ \A q \in Run : pc[q] # "free" /\ q # r => taken[q] # j
  BY RunIsAlone
<1>2. pc' = [pc EXCEPT ![r] = "free"] /\ inFlight' = inFlight \ {j}
  BY DEF RunEnds
<1>3. \A q \in Run : /\ q # r => pc'[q] = pc[q]
                     /\ q = r => pc'[q] = "free"
  BY <1>2 DEF TypeInv, TypeOK
<1>4. Running' = Running \ {r} /\ r \in Running
  BY <1>3 DEF Running, InRun
<1> HIDE DEF j
<1>5. OneHolder'
  BY <1>3 DEF Ownership, OneHolder
<1>6. HolderKnows'
  BY <1>1, <1>3 DEF Ownership, HolderKnows, TypeInv, ClaimsHaveJobs, j
<1>7. ProcessorsAreHeard'
  BY <1>3 DEF Ownership, ProcessorsAreHeard, TypeInv, TypeOK
<1>8. InFlightIsHeld'
  <2> SUFFICES ASSUME NEW i \in Job
               PROVE  i \in inFlight' <=> \E q \in Running' : taken'[q] = i
    BY DEF InFlightIsHeld
  <2>1. i \in inFlight <=> \E q \in Running : taken[q] = i
    BY <1>1 DEF Ownership, InFlightIsHeld
  <2>2. \A q \in Running : q # r => taken[q] # j
    BY <1>1 DEF Running, InRun
  <2>3. taken[r] = j
    BY DEF j
  <2> QED
    BY <1>2, <1>4, <2>1, <2>2, <2>3
<1>9. ClosedIsQuiet'
  BY <1>1 DEF ClosedIsQuiet
<1> QED
  BY <1>5, <1>6, <1>7, <1>8, <1>9

\* recordSettled() forgets only jobs that have settled.
LEMMA RecordSettledForgets ==
  ASSUME TypeInv, Ownership, NEW js \in Seq(Job), NEW next \in [Job -> JobState],
         NEW counts, RecordSettled(js, next, counts),
         \A j \in ToSet(js) : next[j] \in Settled,
         \A j \in ToSet(settledOrder) : next[j] = state[j]
  PROVE  /\ \A j \in Job : \/ state'[j] = next[j]
                           \/ state'[j] = "gone" /\ next[j] \in Settled
         /\ ListedStaySettled'
<1> DEFINE order  == settledOrder \o js
           excess == IF Len(order) > Retain THEN Len(order) - Retain ELSE 0
           dropped == ToSet(SubSeq(order, 1, excess))
           forgotten == { j \in dropped : next[j] \in Terminal }
<1>1. order \in Seq(Job) /\ Len(order) \in Nat /\ Retain \in Nat
  <2>1. order \in Seq(Job)
    BY ConcatProperties DEF TypeInv, TypeOK
  <2> QED
    BY <2>1, LenProperties, QueueConstants
<1>2. excess \in 0..Len(order)
  BY <1>1
<1>3. /\ state' = [j \in Job |-> IF j \in forgotten THEN "gone" ELSE next[j]]
      /\ settledOrder' = SubSeq(order, excess + 1, Len(order))
  BY DEF RecordSettled
<1>4. /\ dropped \subseteq ToSet(settledOrder) \cup ToSet(js)
      /\ ToSet(settledOrder') \subseteq ToSet(settledOrder) \cup ToSet(js)
  <2>1. settledOrder \in Seq(Job)
    BY DEF TypeInv, TypeOK
  <2>2. 1 \in 1..Len(order) + 1 /\ excess + 1 \in 1..Len(order) + 1 /\ Len(order) \in 0..Len(order)
    BY <1>1, <1>2
  <2> HIDE DEF excess
  <2> QED
    BY <1>2, <1>3, <2>1, <2>2, DropOfConcat
<1>5. \A j \in ToSet(settledOrder) \cup ToSet(js) : next[j] \in Settled \cup {"gone"}
  BY DEF Ownership, ListedStaySettled
<1>6. \A j \in ToSet(settledOrder) \cup ToSet(js) : j \in Job
  BY ListedAreJobs, ElementOfSeq, LenProperties DEF ToSet
<1> HIDE DEF order, excess, dropped
<1>7. \A j \in forgotten : next[j] \in Settled
  BY <1>4, <1>5 DEF Terminal
<1>8. \A j \in Job : \/ state'[j] = next[j]
                     \/ state'[j] = "gone" /\ next[j] \in Settled
  BY <1>3, <1>7
<1>9. ListedStaySettled'
  BY <1>4, <1>5, <1>6, <1>8 DEF ListedStaySettled
<1> QED
  BY <1>8, <1>9

LEMMA RunSettlesStep ==
  ASSUME TypeInv, Ownership, NEW r \in Run, pc[r] \in {"running", "storing"},
         NEW last \in {"completed", "dead"},
         RecordSettled(<<taken[r]>>, [state EXCEPT ![taken[r]] = last], stalls),
         RunEnds(r), processing' = processing \ {r}, UNCHANGED <<taken, closing>>
  PROVE  Ownership' /\ StaysSettled
<1> DEFINE j == taken[r]
           next == [state EXCEPT ![j] = last]
<1>1. pc[r] \in InRun
  BY DEF InRun
<1>2. j \in Job /\ state[j] \in {"active", "failed"} /\ <<j>> \in Seq(Job)
  BY <1>1, RunIsAlone
<1>3. /\ next \in [Job -> JobState] /\ next[j] = last
      /\ \A i \in Job : i # j => next[i] = state[i]
  BY <1>2 DEF TypeInv, TypeOK, JobState, Settled, Pending
<1>4. RecordSettled(<<j>>, next, stalls)
  OBVIOUS
<1>5. \A i \in ToSet(<<j>>) : i = j
  BY DEF ToSet
<1> HIDE DEF next
<1>6. \A i \in ToSet(<<j>>) : next[i] \in Settled
  BY <1>3, <1>5 DEF Settled
<1>7. \A i \in ToSet(settledOrder) : next[i] = state[i]
  <2>1. j \notin ToSet(settledOrder)
    BY <1>2 DEF Ownership, ListedStaySettled, Settled
  <2> QED
    BY <1>3, <2>1, ListedAreJobs
<1> HIDE DEF j
<1>8. /\ \A i \in Job : \/ state'[i] = next[i]
                        \/ state'[i] = "gone" /\ next[i] \in Settled
      /\ ListedStaySettled'
  BY <1>2, <1>3, <1>4, <1>6, <1>7, RecordSettledForgets
<1>9. \A i \in Job : i # j /\ state[i] \in {"active", "failed"} => state'[i] = state[i]
  BY <1>3, <1>8 DEF Settled
<1>10. OneHolder' /\ HolderKnows' /\ ProcessorsAreHeard' /\ InFlightIsHeld' /\ ClosedIsQuiet'
  BY <1>1, <1>9, RunEndsHolding DEF j
<1>11. StaysSettled
  BY <1>2, <1>3, <1>8 DEF StaysSettled, Settled
<1> QED
  BY <1>8, <1>10, <1>11 DEF Ownership

LEMMA FailureStep ==
  ASSUME TypeInv, Ownership, NEW r \in Run, pc[r] \in {"running", "grace"},
         NEW u \in BOOLEAN, HandleFailure(r, u), processing' = processing \ {r}
  PROVE  Ownership' /\ StaysSettled
<1> DEFINE j == taken[r]
<1>1. pc[r] \in InRun
  BY DEF InRun
<1>2. /\ j \in Job /\ state[j] = "active" /\ closing # "closed"
      /\ \A q \in Run : pc[q] # "free" /\ q # r => taken[q] # j
  BY <1>1, RunIsAlone
<1>3. PICK s \in {"retrying", "failed"} : state' = [state EXCEPT ![j] = s]
  BY DEF HandleFailure
<1>4. UNCHANGED <<settledOrder, taken, closing>>
  BY DEF HandleFailure
<1>5. \A i \in Job : /\ i # j => state'[i] = state[i]
                     /\ i = j => state'[i] = s
  BY <1>2, <1>3 DEF TypeInv, TypeOK
<1>6. ListedStaySettled'
  BY <1>2, <1>3, <1>4, <1>5, ListedAreJobs DEF Ownership, ListedStaySettled, Settled
<1>7. StaysSettled
  BY <1>2, <1>3, <1>5 DEF StaysSettled, Settled
<1>8. CASE RunEnds(r)
  BY <1>1, <1>4, <1>5, <1>6, <1>7, <1>8, RunEndsHolding DEF Ownership
<1>9. CASE ~RunEnds(r)
  <2>1. /\ pc' = [pc EXCEPT ![r] = "storing"] /\ UNCHANGED slotVars
        /\ state' = [state EXCEPT ![j] = "failed"]
    BY <1>9 DEF HandleFailure
  <2>2. state'[j] = "failed"
    BY <1>2, <2>1 DEF TypeInv, TypeOK
  <2>3. \A q \in Run : /\ q # r => pc'[q] = pc[q]
                       /\ q = r => pc'[q] = "storing"
    BY <2>1 DEF TypeInv, TypeOK
  <2>4. Running' = Running
    BY <1>1, <2>3 DEF Running, InRun
  <2> HIDE DEF j
  <2>5. OneHolder'
    BY <1>1, <1>4, <2>3 DEF Ownership, OneHolder, InRun
  <2>6. HolderKnows'
    <3>1. taken[r] = j
      BY DEF j
    <3>2. \A q \in Run : q # r /\ pc[q] # "free" => state'[taken[q]] = state[taken[q]]
      BY <1>2, <1>5 DEF TypeInv, ClaimsHaveJobs
    <3> QED
      BY <1>4, <2>2, <2>3, <3>1, <3>2 DEF Ownership, HolderKnows
  <2>7. ProcessorsAreHeard'
    BY <2>3 DEF Ownership, ProcessorsAreHeard, TypeInv, TypeOK
  <2>8. InFlightIsHeld' /\ ClosedIsQuiet'
    BY <1>2, <1>4, <2>1, <2>4 DEF Ownership, InFlightIsHeld, ClosedIsQuiet, slotVars
  <2> QED
    BY <1>6, <1>7, <2>5, <2>6, <2>7, <2>8 DEF Ownership
<1> QED
  BY <1>8, <1>9

LEMMA TimesOutStep ==
  ASSUME TypeInv, Ownership, NEW r \in Run, TimesOut(r)
  PROVE  Ownership' /\ StaysSettled
<1>1. /\ pc[r] = "running" /\ pc' = [pc EXCEPT ![r] = "grace"]
      /\ UNCHANGED <<state, settledOrder, closing, inFlight, taken, processing>>
  BY DEF TimesOut, jobVars, slotVars
<1>2. \A q \in Run : /\ q # r => pc'[q] = pc[q]
                     /\ q = r => pc'[q] = "grace"
  BY <1>1 DEF TypeInv, TypeOK
<1>3. Running' = Running
  BY <1>1, <1>2 DEF Running, InRun
<1>4. OneHolder'
  BY <1>1, <1>2 DEF Ownership, OneHolder
<1>5. HolderKnows'
  BY <1>1, <1>2 DEF Ownership, HolderKnows
<1>6. ProcessorsAreHeard'
  BY <1>1, <1>2 DEF Ownership, ProcessorsAreHeard, TypeInv, TypeOK
<1>7. InFlightIsHeld' /\ ListedStaySettled' /\ ClosedIsQuiet' /\ StaysSettled
  BY <1>1, <1>3 DEF Ownership, InFlightIsHeld, ListedStaySettled, ClosedIsQuiet, StaysSettled
<1> QED
  BY <1>4, <1>5, <1>6, <1>7 DEF Ownership

-----------------------------------------------------------------------------
(* Reclaiming, and closing.                                                *)

\* A consumer that keeps to stalledAfter is never robbed: what is reclaimed
\* has no holder.
LEMMA ReclaimedHaveNoHolder ==
  ASSUME TypeInv, Ownership, ~Slow, NEW j \in Job, MayBeStalled(j)
  PROVE  /\ closing # "closed" /\ state[j] = "active"
         /\ \A r \in Run : pc[r] # "free" => taken[r] # j
<1>1. state[j] = "active" /\ j \notin inFlight
  BY DEF MayBeStalled
<1>2. closing # "closed"
  BY <1>1 DEF Ownership, ClosedIsQuiet
<1>3. \A r \in Run : pc[r] = "claimed" => taken[r] # j
  BY DEF MayBeStalled
<1>4. \A r \in Running : taken[r] # j
  BY <1>1, <1>2 DEF Ownership, InFlightIsHeld
<1>5. \A r \in Run : pc[r] \in {"free", "claimed"} \/ r \in Running
  BY DEF TypeInv, TypeOK, Running
<1> QED
  BY <1>1, <1>2, <1>3, <1>4, <1>5

LEMMA TickEndsStep ==
  ASSUME TypeInv, Ownership, ~Slow, NEW stalled \in SUBSET Job, TickEnds(stalled)
  PROVE  Ownership' /\ StaysSettled
<1> DEFINE dead == { j \in stalled : stalls[j] + 1 >= MaxStalled }
           next == [j \in Job |-> IF j \in dead THEN "dead"
                                  ELSE IF j \in stalled THEN "waiting"
                                  ELSE state[j]]
           counts == [j \in Job |-> IF j \in dead THEN 0
                                    ELSE IF j \in stalled THEN stalls[j] + 1
                                    ELSE stalls[j]]
<1>1. PICK js \in SetToSeqs(dead) : RecordSettled(js, next, counts)
  BY DEF TickEnds
<1>2. js \in Seq(Job) /\ \A j \in ToSet(js) : j \in dead
  <2>1. dead \in SUBSET Job
    OBVIOUS
  <2>2. IsFiniteSet(dead)
    BY <2>1, QueueConstants, FS_Subset
  <2> HIDE DEF dead
  <2>3. js \in Seq(Job) /\ \A i \in 1..Len(js) : js[i] \in dead
    BY <2>1, <2>2, SetToSeqsProperties
  <2> QED
    BY <2>3, LenProperties DEF ToSet
<1>3. next \in [Job -> JobState]
  BY DEF TypeInv, TypeOK, JobState, Settled, Pending
<1>4. \A j \in stalled : /\ closing # "closed" /\ state[j] = "active"
                         /\ \A r \in Run : pc[r] # "free" => taken[r] # j
  BY ReclaimedHaveNoHolder DEF TickEnds
<1>5. /\ UNCHANGED <<closing, slotVars, runVars>> /\ Running' = Running
  BY DEF TickEnds, Running, runVars
<1>6. /\ \A j \in Job : j \notin stalled => next[j] = state[j]
      /\ \A j \in stalled : next[j] \in {"dead", "waiting"}
      /\ \A j \in dead : next[j] = "dead"
  OBVIOUS
<1>7. \A j \in ToSet(js) : next[j] \in Settled
  BY <1>2, <1>6 DEF Settled
<1>8. \A j \in ToSet(settledOrder) : j \notin stalled
  BY <1>4 DEF Ownership, ListedStaySettled, Settled
<1> HIDE DEF next, counts, dead
<1>9. \A j \in ToSet(settledOrder) : next[j] = state[j]
  BY <1>6, <1>8, ListedAreJobs
<1>10. /\ \A j \in Job : \/ state'[j] = next[j]
                         \/ state'[j] = "gone" /\ next[j] \in Settled
       /\ ListedStaySettled'
  BY <1>1, <1>2, <1>3, <1>7, <1>9, RecordSettledForgets
<1>11. \A j \in Job : j \notin stalled /\ state[j] \notin Settled => state'[j] = state[j]
  BY <1>6, <1>10
<1>12. OneHolder' /\ ProcessorsAreHeard'
  BY <1>5 DEF Ownership, OneHolder, ProcessorsAreHeard, runVars
<1>13. HolderKnows'
  <2>1. \A r \in Run : pc[r] # "free" => taken[r] \in Job /\ taken[r] \notin stalled
    BY <1>4 DEF TypeInv, ClaimsHaveJobs
  <2> QED
    BY <1>5, <1>11, <2>1 DEF Ownership, HolderKnows, Settled, runVars
<1>14. InFlightIsHeld'
  BY <1>5 DEF Ownership, InFlightIsHeld, slotVars, runVars
<1>15. ClosedIsQuiet'
  <2>1. closing = "closed" => \A j \in Job : state'[j] = state[j]
    BY <1>4, <1>11 DEF Ownership, ClosedIsQuiet, Settled
  <2> QED
    BY <1>5, <2>1 DEF Ownership, ClosedIsQuiet
<1>16. StaysSettled
  BY <1>4, <1>6, <1>10 DEF StaysSettled, Settled
<1> QED
  BY <1>10, <1>12, <1>13, <1>14, <1>15, <1>16 DEF Ownership

LEMMA ClearStep ==
  ASSUME TypeInv, SlotInv, Ownership, closing = "draining", activeCount = 0, ClearAll
  PROVE  Ownership' /\ StaysSettled
<1>1. Running = {}
  <2>1. IsFiniteSet(Running) /\ Cardinality(Running) = 0
    BY DEF SlotInv, RunsAreCounted
  <2> QED
    BY <2>1, FS_EmptySet
<1>2. /\ pc' = pc /\ taken' = taken /\ processing' = processing /\ Running' = Running
      /\ closing' = "closed" /\ settledOrder' = <<>>
  BY DEF ClearAll, runVars, Running
<1>3. \A j \in Job : /\ state'[j] \in {"none", "gone"}
                     /\ state[j] \in Settled \cup {"gone"} => state'[j] = "gone"
  BY DEF ClearAll, InMap, TypeInv, TypeOK, Settled
<1>4. \A r \in Run : pc[r] \in {"free", "claimed"}
  BY <1>1 DEF Running, TypeInv, TypeOK
<1>5. OneHolder' /\ ProcessorsAreHeard'
  BY <1>2 DEF Ownership, OneHolder, ProcessorsAreHeard
<1>6. HolderKnows'
  BY <1>2, <1>4 DEF HolderKnows
<1>7. InFlightIsHeld' /\ ClosedIsQuiet'
  BY <1>1, <1>2, <1>3 DEF InFlightIsHeld, ClosedIsQuiet
<1>8. ListedStaySettled'
  BY <1>2 DEF ListedStaySettled, ToSet
<1>9. StaysSettled
  BY <1>3 DEF StaysSettled
<1> QED
  BY <1>5, <1>6, <1>7, <1>8, <1>9 DEF Ownership

-----------------------------------------------------------------------------
(* All steps.                                                              *)

LEMMA OwnershipInit == Init => Ownership
<1> SUFFICES ASSUME Init PROVE Ownership
  OBVIOUS
<1>1. /\ \A r \in Run : pc[r] = "free"
      /\ processing = {} /\ inFlight = {} /\ settledOrder = <<>> /\ closing = "open"
  BY DEF Init
<1>2. Running = {}
  BY <1>1 DEF Running, InRun
<1>3. OneHolder /\ HolderKnows /\ ProcessorsAreHeard /\ InFlightIsHeld /\ ClosedIsQuiet
  BY <1>1, <1>2 DEF OneHolder, HolderKnows, ProcessorsAreHeard, InFlightIsHeld, ClosedIsQuiet
<1>4. ListedStaySettled
  BY <1>1 DEF ListedStaySettled, ToSet
<1> QED
  BY <1>3, <1>4 DEF Ownership

LEMMA OwnershipNext ==
  ASSUME Orderly, TypeInv, TickHoldsItsClaim, SlotInv, Ownership, [Next]_vars
  PROVE  Ownership' /\ StaysSettled
<1>1. OwnRun \subseteq Run /\ OtherRun \subseteq Run
  BY DEF Run
<1>2. ASSUME NEW j \in Job, NEW k \in Key \cup {NoKey}, NEW delayed \in BOOLEAN,
             Add(j, k, delayed)
      PROVE  Ownership' /\ StaysSettled
  <2>1. /\ closing = "open" /\ state[j] = "none"
        /\ state' = [state EXCEPT ![j] = IF delayed THEN "scheduled" ELSE "waiting"]
        /\ UNCHANGED <<runVars, slotVars, settledOrder, closing>>
    BY <1>2 DEF Add, disposed
  <2> QED
    BY <2>1, QuietStep DEF TypeInv, TypeOK
<1>3. ASSUME NEW j \in Job, ScheduledDue(j) \/ RetryDue(j)
      PROVE  Ownership' /\ StaysSettled
  <2>1. /\ closing = "open" /\ state[j] \in {"scheduled", "retrying"}
        /\ state' = [state EXCEPT ![j] = "waiting"]
        /\ UNCHANGED <<runVars, slotVars, settledOrder, closing>>
    BY <1>3 DEF ScheduledDue, RetryDue, Promote, disposed
  <2> QED
    BY <2>1, QuietStep DEF TypeInv, TypeOK
<1>4. ASSUME NEW due \in SUBSET Job, TickStarts(due)
      PROVE  Ownership' /\ StaysSettled
  <2>1. /\ closing = "open"
        /\ \A j \in Job : state'[j] = state[j] \/ (state[j] = "scheduled" /\ state'[j] = "waiting")
        /\ UNCHANGED <<runVars, slotVars, settledOrder, closing>>
    BY <1>4 DEF TickStarts, disposed
  <2> QED
    BY <2>1, QuietStep
<1>5. ASSUME Pause \/ Resume \/ Close \/ UNCHANGED vars
      PROVE  Ownership' /\ StaysSettled
  <2>1. UNCHANGED <<runVars, slotVars, settledOrder, state>>
    BY <1>5 DEF Pause, Resume, Close, vars, jobVars
  <2>2. closing' = "closed" <=> closing = "closed"
    BY <1>5 DEF Pause, Resume, Close, disposed, vars
  <2> QED
    BY <2>1, <2>2, QuietStep
<1>6. ASSUME NEW r \in Run, TickClaims(r) \/ ExternalClaims(r)
      PROVE  Ownership' /\ StaysSettled
  BY <1>6, ClaimStep DEF TickClaims, ExternalClaims
<1>7. ASSUME NEW r \in OwnRun, TickDispatches(r)
      PROVE  Ownership' /\ StaysSettled
  <2>1. r \in Run /\ r # NoRun
    BY <1>1, QueueConstants
  <2>2. pc[r] = "claimed" /\ RunJob(r) /\ UNCHANGED <<closing, settledOrder>>
    BY <1>7, <2>1 DEF TickDispatches, TickHoldsItsClaim
  <2> QED
    BY <2>1, <2>2, RunJobStep
<1>8. ASSUME NEW r \in OtherRun, ExternalRuns(r)
      PROVE  Ownership' /\ StaysSettled
  BY <1>1, <1>8, RunJobStep DEF ExternalRuns, Holds
<1>9. ASSUME NEW r \in OtherRun, ExternalReleases(r)
      PROVE  Ownership' /\ StaysSettled
  BY <1>1, <1>9, LetGoStep DEF ExternalReleases, Holds
<1>10. ASSUME NEW r \in OtherRun, ExternalDies(r)
       PROVE  Ownership' /\ StaysSettled
  <2>1. r \in Run /\ pc[r] = "claimed" /\ taken[r] \in Job
    BY <1>1, <1>10 DEF ExternalDies, Holds, TypeInv, ClaimsHaveJobs
  <2>2. state' = [state EXCEPT ![taken[r]] = IF @ = "active" THEN "active" ELSE @]
    BY <1>10, <2>1 DEF ExternalDies, jobVars, TypeInv, TypeOK
  <2>3. /\ pc' = [pc EXCEPT ![r] = "free"] /\ taken' = [taken EXCEPT ![r] = NoJob]
        /\ UNCHANGED <<processing, closing, slotVars, settledOrder>>
    BY <1>10 DEF ExternalDies, jobVars
  <2> QED
    BY <2>1, <2>2, <2>3, LetGoStep
<1>11. ASSUME NEW r \in Run, Succeeds(r)
       PROVE  Ownership' /\ StaysSettled
  BY <1>11, RunSettlesStep DEF Succeeds
<1>12. ASSUME NEW r \in Run, DeadLettered(r)
       PROVE  Ownership' /\ StaysSettled
  <2>1. pc[r] = "storing" /\ processing' = processing
    BY <1>12 DEF DeadLettered
  <2>2. processing' = processing \ {r}
    BY <2>1, RunIsAlone DEF InRun
  <2> QED
    BY <1>12, <2>1, <2>2, RunSettlesStep DEF DeadLettered
<1>13. ASSUME NEW r \in Run, Fails(r) \/ SettlesInGrace(r)
       PROVE  Ownership' /\ StaysSettled
  BY <1>13, FailureStep DEF Fails, SettlesInGrace
<1>14. ASSUME NEW r \in Run, TimesOut(r)
       PROVE  Ownership' /\ StaysSettled
  BY <1>14, TimesOutStep
<1>15. ASSUME NEW r \in Run
       PROVE  ~GraceExpires(r) /\ ~AbandonedEnds(r)
  BY DEF Orderly, GraceExpires, AbandonedEnds, Ownership, ProcessorsAreHeard
<1>16. ASSUME NEW stalled \in SUBSET Job, TickEnds(stalled)
       PROVE  Ownership' /\ StaysSettled
  BY <1>16, TickEndsStep DEF Orderly
<1>17. ASSUME CloseDrained \/ CloseGivesUp
       PROVE  Ownership' /\ StaysSettled
  BY <1>17, ClearStep DEF CloseDrained, CloseGivesUp, Orderly
<1> QED
  <2>1. Next \/ UNCHANGED vars
    OBVIOUS
  <2> QED
    BY <1>1, <1>2, <1>3, <1>4, <1>5, <1>6, <1>7, <1>8, <1>9, <1>10, <1>11, <1>12,
       <1>13, <1>14, <1>15, <1>16, <1>17, <2>1
    DEF Next, Runs, Consumes

-----------------------------------------------------------------------------
(* Deduplication keys.                                                     *)

LEMMA KeysAreKept ==
  ASSUME KeyFollowsJob, UNCHANGED <<key, dedup>>,
         \A j \in Job : state'[j] \in Pending <=> state[j] \in Pending
  PROVE  KeyFollowsJob'
BY DEF KeyFollowsJob

\* The keys of what settles are free again.
LEMMA SettlingFreesKeys ==
  ASSUME TypeInv, Ownership, KeyFollowsJob, NEW js \in Seq(Job),
         NEW next \in [Job -> JobState], NEW counts, RecordSettled(js, next, counts),
         \A j \in ToSet(js) : next[j] \in Settled,
         \A j \in ToSet(settledOrder) : next[j] = state[j],
         \A j \in Job : j \notin ToSet(js) => (next[j] \in Pending <=> state[j] \in Pending),
         UNCHANGED key
  PROVE  KeyFollowsJob'
<1>1. \A j \in Job : \/ state'[j] = next[j]
                     \/ state'[j] = "gone" /\ next[j] \in Settled
  BY RecordSettledForgets
<1>2. dedup' = [k \in Key |-> IF dedup[k] \in ToSet(js) THEN NoJob ELSE dedup[k]]
  BY DEF RecordSettled
<1>3. NoJob \notin Job
  BY QueueConstants
<1> SUFFICES ASSUME NEW j \in Job, NEW k \in Key
             PROVE  dedup'[k] = j <=> key'[j] = k /\ state'[j] \in Pending
  BY DEF KeyFollowsJob
<1>4. dedup[k] = j <=> key[j] = k /\ state[j] \in Pending
  BY DEF KeyFollowsJob
<1>5. CASE j \in ToSet(js)
  <2>1. state'[j] \notin Pending
    BY <1>1, <1>5 DEF Pending, Settled
  <2> QED
    BY <1>2, <1>3, <1>5, <2>1
<1>6. CASE j \notin ToSet(js)
  <2>1. state'[j] \in Pending <=> state[j] \in Pending
    BY <1>1, <1>6 DEF Pending, Settled
  <2>2. dedup'[k] = j <=> dedup[k] = j
    BY <1>2, <1>3, <1>6
  <2> QED
    BY <1>4, <2>1, <2>2
<1> QED
  BY <1>5, <1>6

LEMMA RunSettlesKeys ==
  ASSUME TypeInv, Ownership, KeyFollowsJob, NEW r \in Run, pc[r] \in InRun,
         NEW last \in {"completed", "dead"},
         RecordSettled(<<taken[r]>>, [state EXCEPT ![taken[r]] = last], stalls),
         UNCHANGED key
  PROVE  KeyFollowsJob'
<1> DEFINE j == taken[r]
           next == [state EXCEPT ![j] = last]
<1>1. j \in Job /\ state[j] \in {"active", "failed"} /\ <<j>> \in Seq(Job)
  BY RunIsAlone
<1>2. /\ next \in [Job -> JobState] /\ next[j] = last
      /\ \A i \in Job : i # j => next[i] = state[i]
  BY <1>1 DEF TypeInv, TypeOK, JobState, Settled, Pending
<1>3. RecordSettled(<<j>>, next, stalls)
  OBVIOUS
<1>4. \A i : i \in ToSet(<<j>>) <=> i = j
  BY DEF ToSet
<1> HIDE DEF next
<1>5. \A i \in ToSet(<<j>>) : next[i] \in Settled
  BY <1>2, <1>4 DEF Settled
<1>6. \A i \in ToSet(settledOrder) : next[i] = state[i]
  <2>1. j \notin ToSet(settledOrder)
    BY <1>1 DEF Ownership, ListedStaySettled, Settled
  <2> QED
    BY <1>2, <2>1, ListedAreJobs
<1>7. \A i \in Job : i \notin ToSet(<<j>>) => (next[i] \in Pending <=> state[i] \in Pending)
  BY <1>2, <1>4
<1> HIDE DEF j
<1> QED
  BY <1>1, <1>2, <1>3, <1>5, <1>6, <1>7, SettlingFreesKeys

LEMMA TickEndsKeys ==
  ASSUME TypeInv, Ownership, KeyFollowsJob, ~Slow, NEW stalled \in SUBSET Job,
         TickEnds(stalled)
  PROVE  KeyFollowsJob'
<1> DEFINE dead == { j \in stalled : stalls[j] + 1 >= MaxStalled }
           next == [j \in Job |-> IF j \in dead THEN "dead"
                                  ELSE IF j \in stalled THEN "waiting"
                                  ELSE state[j]]
           counts == [j \in Job |-> IF j \in dead THEN 0
                                    ELSE IF j \in stalled THEN stalls[j] + 1
                                    ELSE stalls[j]]
<1>1. PICK js \in SetToSeqs(dead) : RecordSettled(js, next, counts)
  BY DEF TickEnds
<1>2. js \in Seq(Job) /\ (\A j \in ToSet(js) : j \in dead) /\ dead \subseteq ToSet(js)
  <2>1. dead \in SUBSET Job
    OBVIOUS
  <2>2. IsFiniteSet(dead)
    BY <2>1, QueueConstants, FS_Subset
  <2> HIDE DEF dead
  <2>3. js \in Seq(Job) /\ \A i \in 1..Len(js) : js[i] \in dead
    BY <2>1, <2>2, SetToSeqsProperties
  <2> QED
    BY <2>2, <2>3, LenProperties, SetToSeqsCovers DEF ToSet
<1>3. next \in [Job -> JobState]
  BY DEF TypeInv, TypeOK, JobState, Settled, Pending
<1>4. \A j \in stalled : state[j] = "active"
  BY DEF TickEnds, MayBeStalled
<1>5. UNCHANGED key
  BY DEF TickEnds
<1>6. /\ \A j \in Job : j \notin stalled => next[j] = state[j]
      /\ \A j \in stalled : j \notin dead => next[j] = "waiting"
      /\ \A j \in dead : next[j] = "dead"
  OBVIOUS
<1>7. \A j \in ToSet(js) : next[j] \in Settled
  BY <1>2, <1>6 DEF Settled
<1>8. \A j \in ToSet(settledOrder) : j \notin stalled
  BY <1>4 DEF Ownership, ListedStaySettled, Settled
<1> HIDE DEF next, counts, dead
<1>9. \A j \in ToSet(settledOrder) : next[j] = state[j]
  BY <1>6, <1>8, ListedAreJobs
<1>10. \A j \in Job : j \notin ToSet(js) => (next[j] \in Pending <=> state[j] \in Pending)
  BY <1>2, <1>4, <1>6 DEF Pending
<1> QED
  BY <1>1, <1>2, <1>3, <1>5, <1>7, <1>9, <1>10, SettlingFreesKeys

LEMMA KeysNext ==
  ASSUME Orderly, TypeInv, TickHoldsItsClaim, Ownership, KeyFollowsJob, [Next]_vars
  PROVE  KeyFollowsJob'
<1>1. OwnRun \subseteq Run /\ OtherRun \subseteq Run /\ state \in [Job -> JobState]
  BY DEF Run, TypeInv, TypeOK
<1>2. ASSUME NEW j \in Job, NEW k \in Key \cup {NoKey}, NEW delayed \in BOOLEAN,
             Add(j, k, delayed)
      PROVE  KeyFollowsJob'
  <2>1. /\ state[j] = "none" /\ key' = [key EXCEPT ![j] = k]
        /\ dedup' = IF k = NoKey THEN dedup ELSE [dedup EXCEPT ![k] = j]
        /\ k # NoKey => dedup[k] = NoJob \/ ~InMap(dedup[k])
        /\ \E s \in {"scheduled", "waiting"} : state' = [state EXCEPT ![j] = s]
    BY <1>2 DEF Add, Duplicate
  <2>2. key \in [Job -> Key \cup {NoKey}] /\ dedup \in [Key -> Job \cup {NoJob}]
        /\ NoJob \notin Job /\ NoKey \notin Key
    BY QueueConstants DEF TypeInv, TypeOK
  <2>3. k # NoKey => dedup[k] = NoJob
    <3> SUFFICES ASSUME k # NoKey, dedup[k] # NoJob PROVE FALSE
      OBVIOUS
    <3>1. k \in Key /\ dedup[k] \in Job /\ ~InMap(dedup[k])
      BY <2>1, <2>2
    <3>2. state[dedup[k]] \in Pending
      BY <3>1 DEF KeyFollowsJob
    <3> QED
      BY <3>1, <3>2 DEF InMap, Pending
  <2>4. \A i \in Job : /\ i # j => state'[i] = state[i] /\ key'[i] = key[i]
                       /\ i = j => state'[i] \in Pending /\ key'[i] = k
    BY <1>1, <2>1, <2>2 DEF Pending
  <2>5. \A l \in Key : dedup'[l] = IF l = k THEN j ELSE dedup[l]
    BY <2>1, <2>2
  <2>6. \A l \in Key : dedup[l] # j
    BY <2>1 DEF KeyFollowsJob, Pending
  <2> SUFFICES ASSUME NEW i \in Job, NEW l \in Key
               PROVE  dedup'[l] = i <=> key'[i] = l /\ state'[i] \in Pending
    BY DEF KeyFollowsJob
  <2>7. dedup[l] = i <=> key[i] = l /\ state[i] \in Pending
    BY DEF KeyFollowsJob
  <2>8. CASE i = j
    BY <2>4, <2>5, <2>6, <2>8
  <2>9. CASE i # j
    BY <2>2, <2>3, <2>4, <2>5, <2>7, <2>9
  <2> QED
    BY <2>8, <2>9
<1>3. ASSUME NEW j \in Job, ScheduledDue(j) \/ RetryDue(j)
      PROVE  KeyFollowsJob'
  <2>1. /\ state[j] \in Pending /\ state' = [state EXCEPT ![j] = "waiting"]
        /\ UNCHANGED <<key, dedup>>
    BY <1>3 DEF ScheduledDue, RetryDue, Promote, Pending
  <2> QED
    BY <1>1, <2>1, KeysAreKept DEF Pending
<1>4. ASSUME NEW due \in SUBSET Job, TickStarts(due)
      PROVE  KeyFollowsJob'
  BY <1>1, <1>4, KeysAreKept DEF TickStarts, Pending
<1>5. ASSUME \/ \E r \in Run : TimesOut(r)
             \/ \E r \in OtherRun : ExternalDies(r)
             \/ Pause \/ Resume \/ Close \/ UNCHANGED vars
      PROVE  KeyFollowsJob'
  <2>1. UNCHANGED <<state, key, dedup>>
    BY <1>5 DEF TimesOut, ExternalDies, Pause, Resume, Close, vars, jobVars
  <2> QED
    BY <2>1, KeysAreKept
<1>6. ASSUME NEW r \in Run, TickClaims(r) \/ ExternalClaims(r)
      PROVE  KeyFollowsJob'
  <2>1. /\ \E j \in Runnable : state' = [state EXCEPT ![j] = "active"]
        /\ UNCHANGED <<key, dedup>>
    BY <1>6 DEF TickClaims, ExternalClaims, Claim
  <2> QED
    BY <1>1, <2>1, KeysAreKept DEF Runnable, Pending
<1>7. ASSUME NEW r \in Run, pc[r] = "claimed", RunJob(r), UNCHANGED <<key, dedup>>
      PROVE  KeyFollowsJob'
  <2>1. taken[r] \in Job /\ (closing # "closed" => state[taken[r]] = "active")
    BY <1>7 DEF TypeInv, ClaimsHaveJobs, Ownership, HolderKnows
  <2>2. \/ state' = [state EXCEPT ![taken[r]] = IF @ = "active" THEN "waiting" ELSE @]
        \/ closing # "closed" /\ state' = [state EXCEPT ![taken[r]] = "active"]
    BY <1>7 DEF RunJob
  <2>3. \A j \in Job : state'[j] \in Pending <=> state[j] \in Pending
    BY <1>1, <2>1, <2>2 DEF Pending
  <2> QED
    BY <1>7, <2>3, KeysAreKept
<1>8. ASSUME NEW r \in OwnRun, TickDispatches(r)
      PROVE  KeyFollowsJob'
  <2>1. r \in Run /\ r # NoRun
    BY <1>1, QueueConstants
  <2> QED
    BY <1>7, <1>8, <2>1 DEF TickDispatches, TickHoldsItsClaim
<1>9. ASSUME NEW r \in OtherRun, ExternalRuns(r)
      PROVE  KeyFollowsJob'
  BY <1>1, <1>7, <1>9 DEF ExternalRuns, Holds
<1>10. ASSUME NEW r \in OtherRun, ExternalReleases(r)
       PROVE  KeyFollowsJob'
  <2>1. taken[r] \in Job
    BY <1>1, <1>10 DEF ExternalReleases, Holds, TypeInv, ClaimsHaveJobs
  <2> QED
    BY <1>1, <1>10, <2>1, KeysAreKept DEF ExternalReleases, Pending
<1>11. ASSUME NEW r \in Run, Succeeds(r) \/ DeadLettered(r)
       PROVE  KeyFollowsJob'
  BY <1>11, RunSettlesKeys DEF Succeeds, DeadLettered, InRun
<1>12. ASSUME NEW r \in Run, Fails(r) \/ SettlesInGrace(r)
       PROVE  KeyFollowsJob'
  <2>1. pc[r] \in {"running", "grace"} /\ \E u \in BOOLEAN : HandleFailure(r, u)
    BY <1>12 DEF Fails, SettlesInGrace
  <2>2. taken[r] \in Job /\ state[taken[r]] = "active"
    BY <2>1, RunIsAlone DEF InRun
  <2>3. /\ \E s \in {"retrying", "failed"} : state' = [state EXCEPT ![taken[r]] = s]
        /\ UNCHANGED <<key, dedup>>
    BY <2>1 DEF HandleFailure
  <2> QED
    BY <1>1, <2>2, <2>3, KeysAreKept DEF Pending
<1>13. ASSUME NEW r \in Run
       PROVE  ~GraceExpires(r) /\ ~AbandonedEnds(r)
  BY DEF Orderly, GraceExpires, AbandonedEnds, Ownership, ProcessorsAreHeard
<1>14. ASSUME NEW stalled \in SUBSET Job, TickEnds(stalled)
       PROVE  KeyFollowsJob'
  BY <1>14, TickEndsKeys DEF Orderly
<1>15. ASSUME CloseDrained \/ CloseGivesUp
       PROVE  KeyFollowsJob'
  <2>1. \A j \in Job : state'[j] \notin Pending
    BY <1>15 DEF CloseDrained, CloseGivesUp, ClearAll, InMap, Pending
  <2>2. \A k \in Key : dedup'[k] = NoJob
    BY <1>15 DEF CloseDrained, CloseGivesUp, ClearAll
  <2> QED
    BY <2>1, <2>2, QueueConstants DEF KeyFollowsJob
<1> QED
  <2>1. Next \/ UNCHANGED vars
    OBVIOUS
  <2> QED
    BY <1>1, <1>2, <1>3, <1>4, <1>5, <1>6, <1>8, <1>9, <1>10, <1>11, <1>12,
       <1>13, <1>14, <1>15, <2>1
    DEF Next, Runs, Consumes

-----------------------------------------------------------------------------
(* Theorems.                                                               *)

QueueInv == TypeInv /\ TickHoldsItsClaim /\ SlotInv /\ Ownership

LEMMA QueueInvInit == Init => QueueInv
BY TypeInvInit, SlotInvInit, OwnershipInit DEF QueueInv

LEMMA QueueInvNext ==
  ASSUME Orderly, QueueInv, [Next]_vars
  PROVE  QueueInv' /\ StaysSettled
BY TypeInvNext, TickHoldsItsClaimNext, SlotInvNext, OwnershipNext DEF QueueInv

\* Claiming keeps consumers apart: no job is in the hands of two processors,
\* through retries, reclaims, releases and a close (claimNextJob(), runJob() and
\* reclaimStalledJobs() of inMemoryQueue.core.ts).
THEOREM OneProcessor == ASSUME Orderly PROVE Spec => []OneProcessorPerJob
<1>1. QueueInv => OneProcessorPerJob
  <2> SUFFICES ASSUME QueueInv PROVE OneProcessorPerJob
    OBVIOUS
  <2>1. \A r \in processing : r \in Run /\ pc[r] # "free"
    BY DEF QueueInv, TypeInv, TypeOK, Ownership, ProcessorsAreHeard
  <2> QED
    BY <2>1 DEF QueueInv, Ownership, OneHolder, OneProcessorPerJob
<1> QED
  BY <1>1, QueueInvInit, QueueInvNext, PTL DEF Spec

\* A completed or dead-lettered job is never run, retried or reclaimed again,
\* and a forgotten one never comes back.
THEOREM SettledJobsStay == ASSUME Orderly PROVE Spec => SettledIsFinal
<1>1. QueueInv /\ [Next]_vars => [StaysSettled]_vars
  BY QueueInvNext
<1>2. SettledIsFinal <=> [][StaysSettled]_vars
  BY DEF SettledIsFinal, StaysSettled
<1> QED
  BY <1>1, <1>2, QueueInvInit, QueueInvNext, PTL DEF Spec

\* activeCount and the inFlight map are the runs under way, and after close() the
\* map stays empty, whoever still holds a claim then.
THEOREM SlotsFollowRuns == ASSUME Orderly PROVE Spec => []SlotsAreCounted
<1>1. QueueInv => SlotsAreCounted
  <2>1. QueueInv /\ closing = "closed" => \A j \in Job : ~InMap(j)
    BY DEF QueueInv, Ownership, ClosedIsQuiet, InMap
  <2>2. ASSUME QueueInv, closing # "closed"
        PROVE  /\ activeCount = Cardinality(Running)
               /\ inFlight = { taken[r] : r \in Running }
    <3>1. activeCount = Cardinality(Running)
      BY <2>2 DEF QueueInv, SlotInv, RunsAreCounted
    <3>2. inFlight \subseteq Job /\ \A r \in Running : taken[r] \in Job
      BY <2>2 DEF QueueInv, TypeInv, TypeOK, ClaimsHaveJobs, Running, InRun
    <3>3. \A j \in Job : j \in inFlight <=> \E r \in Running : taken[r] = j
      BY <2>2 DEF QueueInv, Ownership, InFlightIsHeld
    <3> QED
      BY <3>1, <3>2, <3>3
  <2> QED
    BY <2>1, <2>2 DEF SlotsAreCounted
<1> QED
  BY <1>1, QueueInvInit, QueueInvNext, PTL DEF Spec

\* A deduplication key blocks exactly while its job has a run ahead of it.
THEOREM KeysFollowJobs == ASSUME Orderly PROVE Spec => []KeyFollowsJob
<1>1. Init => KeyFollowsJob
  BY QueueConstants DEF Init, KeyFollowsJob, Pending
<1>2. QueueInv /\ KeyFollowsJob /\ [Next]_vars => KeyFollowsJob'
  BY KeysNext DEF QueueInv
<1> QED
  BY <1>1, <1>2, QueueInvInit, QueueInvNext, PTL DEF Spec
=============================================================================
