---------------------------- MODULE WorkerProofs ----------------------------
(***************************************************************************)
(* Proofs about the worker, for every number of jobs, slots, restarts and  *)
(* concurrent drains, and for a queue that may fail and be closed.         *)
(***************************************************************************)
EXTENDS WorkerProperties, FiniteSetTheorems, TLAPS

-----------------------------------------------------------------------------
(* The inductive invariant.  The flag polling lets one poll at a time past *)
(* its first line, so the slot that it saw is still free when its claim is *)
(* answered, and nobody else has the job it claimed.                       *)

OnePoll ==
    /\ \A p, q \in Poll : poll[p] # "idle" /\ poll[q] # "idle" => p = q
    /\ polling <=> \E p \in Poll : poll[p] # "idle"

RoomIsKept == \A p \in Poll : poll[p] = "claiming" => activeJobs < Concurrency

HandIsClaimed ==
    \A p \in Poll : poll[p] = "claiming" /\ hand[p] # NoJob => job[hand[p]] = "claimed"

RunsLeft ==
    \A j \in Job : job[j] \in {"waiting", "claimed"} => runs[j] < MaxRuns[j]

\* A controller is aborted when its worker stops, and start() makes a new one.
ControllersAreFresh ==
    /\ aborted \subseteq 1..controller
    /\ state \in {"running", "draining"} \/ drains # {} => controller # 0
    /\ state = "running" => controller \notin aborted

WorkerInv == /\ TypeOK /\ OnePoll /\ RoomIsKept /\ HandIsClaimed
             /\ RunsLeft /\ ControllersAreFresh /\ ConcurrencyIsKept

-----------------------------------------------------------------------------
(* The number of running jobs *)

LEMMA RunningIsFinite == IsFiniteSet(Running) /\ Cardinality(Running) \in Nat
<1>1. Running \subseteq Job /\ IsFiniteSet(Job)
  BY WorkerConstants DEF Running
<1> QED
  BY <1>1, FS_Subset, FS_CardinalityType

\* A step that starts or ends no job keeps the number.
LEMMA RunningIsKept ==
  ASSUME \A j \in Job : job'[j] = "running" <=> job[j] = "running"
  PROVE  Running' = Running
BY DEF Running

LEMMA RunningGrows ==
  ASSUME TypeOK, NEW j \in Job, job[j] # "running", job' = [job EXCEPT ![j] = "running"]
  PROVE  /\ Running' = Running \cup {j}
         /\ Cardinality(Running') = Cardinality(Running) + 1
<1>1. Running' = Running \cup {j} /\ j \notin Running
  BY DEF Running, TypeOK
<1> QED
  BY <1>1, RunningIsFinite, FS_AddElement

LEMMA RunningShrinks ==
  ASSUME TypeOK, NEW j \in Job, job[j] = "running", NEW next, next # "running",
         job' = [job EXCEPT ![j] = next]
  PROVE  /\ Running' = Running \ {j}
         /\ Cardinality(Running') = Cardinality(Running) - 1
<1>1. Running' = Running \ {j} /\ j \in Running
  BY DEF Running, TypeOK
<1> QED
  BY <1>1, RunningIsFinite, FS_RemoveElement

LEMMA NothingRuns ==
  ASSUME TypeOK, activeJobs = 0
  PROVE  Running = {}
BY RunningIsFinite, FS_EmptySet DEF TypeOK

-----------------------------------------------------------------------------
LEMMA WorkerInit == Init => WorkerInv
<1> SUFFICES ASSUME Init PROVE WorkerInv
  OBVIOUS
<1>1. Running = {} /\ Cardinality(Running) = 0
  BY FS_EmptySet DEF Init, Running
<1>2. TypeOK
  <2>1. controller \in 0..MaxStarts /\ signal \in [Job -> 0..MaxStarts]
    BY WorkerConstants DEF Init
  <2>2. runs \in [Job -> Nat] /\ \A j \in Job : runs[j] <= MaxRuns[j]
    BY WorkerConstants DEF Init
  <2>3. armed \in BOOLEAN /\ polling \in BOOLEAN /\ open \in BOOLEAN
    BY DEF Init
  <2>4. /\ state \in {"created", "running", "draining", "stopped"}
        /\ poll \in [Poll -> {"idle", "claiming", "failing", "releasing"}]
        /\ hand \in [Poll -> Job \cup {NoJob}]
        /\ job \in [Job -> {"absent", "waiting", "claimed", "running", "done"}]
        /\ aborted = {} /\ drains = {} /\ strays = {} /\ processors \subseteq Job
    BY DEF Init
  <2>5. activeJobs = Cardinality(Running)
    BY <1>1 DEF Init
  <2> QED
    BY <2>1, <2>2, <2>3, <2>4, <2>5 DEF TypeOK
<1>3. RoomIsKept /\ ConcurrencyIsKept
  BY <1>1, WorkerConstants DEF Init, RoomIsKept, ConcurrencyIsKept
<1>4. OnePoll /\ HandIsClaimed /\ RunsLeft /\ ControllersAreFresh
  BY DEF Init, OnePoll, HandIsClaimed, RunsLeft, ControllersAreFresh
<1> QED
  BY <1>2, <1>3, <1>4 DEF WorkerInv

-----------------------------------------------------------------------------
(* The poll loop *)

LEMMA PollSkipsKeeps ==
  ASSUME WorkerInv, PollSkips
  PROVE  WorkerInv'
<1>1. Running' = Running
  BY RunningIsKept DEF PollSkips, jobVars
<1> QED
  BY <1>1, WorkerConstants
  DEF PollSkips, lifeVars, jobVars, queueVars, MayPoll, WorkerInv, TypeOK, OnePoll,
      RoomIsKept, HandIsClaimed, RunsLeft, ControllersAreFresh, ConcurrencyIsKept

LEMMA PollBeginsKeeps ==
  ASSUME WorkerInv, NEW p \in Poll, PollBegins(p),
         PollFindsNone(p) \/ PollRejects(p) \/ \E j \in Job : PollClaims(p, j)
  PROVE  WorkerInv'
<1>1. /\ armed' = FALSE /\ polling' = TRUE /\ MayPoll /\ activeJobs < Concurrency
      /\ poll[p] = "idle"
      /\ UNCHANGED <<state, controller, aborted, drains, activeJobs, runs, signal,
                     strays, processors, open>>
  BY DEF PollBegins, lifeVars, queueVars
<1>2. PICK j \in Job \cup {NoJob}, phase \in {"claiming", "failing"} :
        /\ poll' = [poll EXCEPT ![p] = phase] /\ hand' = [hand EXCEPT ![p] = j]
        /\ j = NoJob => job' = job
        /\ j # NoJob => j \in Job /\ job[j] = "waiting" /\ job' = [job EXCEPT ![j] = "claimed"]
  <2>1. CASE PollFindsNone(p) \/ PollRejects(p)
    BY <2>1 DEF PollFindsNone, PollRejects, Phase
  <2>2. CASE \E j \in Job : PollClaims(p, j)
    BY <2>2, WorkerConstants DEF PollClaims, Phase, Claimable
  <2> QED
    BY <2>1, <2>2
<1>3. Running' = Running
  BY <1>2, RunningIsKept DEF WorkerInv, TypeOK
<1>4. TypeOK'
  BY <1>1, <1>2, <1>3 DEF WorkerInv, TypeOK
<1>5. OnePoll'
  BY <1>1, <1>2 DEF WorkerInv, TypeOK, OnePoll, MayPoll
<1>6. RoomIsKept' /\ ControllersAreFresh' /\ ConcurrencyIsKept'
  BY <1>1, <1>3, <1>2
  DEF WorkerInv, TypeOK, RoomIsKept, ControllersAreFresh, ConcurrencyIsKept
<1>7. HandIsClaimed' /\ RunsLeft'
  BY <1>1, <1>2 DEF WorkerInv, TypeOK, OnePoll, MayPoll, HandIsClaimed, RunsLeft
<1> QED
  BY <1>4, <1>5, <1>6, <1>7 DEF WorkerInv

\* A poll that ends without a job.
LEMMA PollEndsKeeps ==
  ASSUME WorkerInv, NEW p \in Poll, ClaimedNone(p) \/ Released(p) \/ PollFails(p)
  PROVE  WorkerInv'
<1>1. /\ poll[p] # "idle"
      /\ poll' = [poll EXCEPT ![p] = "idle"] /\ hand' = [hand EXCEPT ![p] = NoJob]
      /\ polling' = FALSE /\ armed' \in {armed, armed \/ state = "running"}
      /\ UNCHANGED <<lifeVars, activeJobs, jobVars, queueVars>>
  BY DEF ClaimedNone, Released, PollFails, EndPoll, Phase, ScheduleNextPoll
<1>2. Running' = Running
  BY <1>1, RunningIsKept DEF jobVars
<1>3. TypeOK'
  BY <1>1, <1>2 DEF WorkerInv, TypeOK, lifeVars, jobVars, queueVars
<1>4. OnePoll'
  BY <1>1 DEF WorkerInv, TypeOK, OnePoll
<1>5. /\ RoomIsKept' /\ ControllersAreFresh' /\ ConcurrencyIsKept'
      /\ HandIsClaimed' /\ RunsLeft'
  BY <1>1, <1>2
  DEF WorkerInv, TypeOK, RoomIsKept, ControllersAreFresh, ConcurrencyIsKept,
      HandIsClaimed, RunsLeft, lifeVars, jobVars
<1> QED
  BY <1>3, <1>4, <1>5 DEF WorkerInv

\* The one poll under way starts the job it holds: its slot is still free.
LEMMA StartsJobKeeps ==
  ASSUME WorkerInv, NEW p \in Poll, StartsJob(p)
  PROVE  WorkerInv'
<1> DEFINE j == hand[p]
<1>1. /\ poll[p] = "claiming" /\ j \in Job /\ job[j] = "claimed"
      /\ activeJobs < Concurrency /\ runs[j] < MaxRuns[j]
  BY WorkerConstants
  DEF StartsJob, WorkerInv, TypeOK, RoomIsKept, HandIsClaimed, RunsLeft
<1>2. /\ poll' = [poll EXCEPT ![p] = "idle"] /\ hand' = [hand EXCEPT ![p] = NoJob]
      /\ polling' = FALSE /\ armed' = (armed \/ state = "running")
      /\ activeJobs' = activeJobs + 1
      /\ job' = [job EXCEPT ![j] = "running"]
      /\ runs' = [runs EXCEPT ![j] = @ + 1]
      /\ signal' = [signal EXCEPT ![j] = controller]
      /\ strays' = strays \/ strays' = strays \cup {j}
      /\ UNCHANGED <<lifeVars, queueVars>>
  BY DEF StartsJob, EndPoll, Phase, ScheduleNextPoll
<1>3. /\ Running' = Running \cup {j}
      /\ Cardinality(Running') = Cardinality(Running) + 1
  BY <1>1, <1>2, RunningGrows DEF WorkerInv
<1> HIDE DEF j
<1>4. TypeOK'
  <2>1. runs' \in [Job -> Nat] /\ \A i \in Job : runs'[i] <= MaxRuns[i]
    <3>1. runs \in [Job -> Nat] /\ MaxRuns \in [Job -> Nat]
          /\ \A i \in Job : runs[i] <= MaxRuns[i]
      BY WorkerConstants DEF WorkerInv, TypeOK
    <3> QED
      BY <1>1, <1>2, <3>1
  <2>2. /\ activeJobs' = Cardinality(Running') /\ strays' \subseteq Running'
        /\ signal' \in [Job -> 0..MaxStarts]
    BY <1>1, <1>2, <1>3 DEF WorkerInv, TypeOK
  <2> QED
    BY <1>1, <1>2, <2>1, <2>2 DEF WorkerInv, TypeOK, lifeVars, queueVars
<1>5. OnePoll' /\ RoomIsKept' /\ HandIsClaimed'
  BY <1>1, <1>2 DEF WorkerInv, TypeOK, OnePoll, RoomIsKept, HandIsClaimed
<1>6. RunsLeft'
  BY <1>1, <1>2 DEF WorkerInv, TypeOK, RunsLeft
<1>7. ControllersAreFresh' /\ ConcurrencyIsKept'
  BY <1>1, <1>2, <1>3, RunningIsFinite, WorkerConstants
  DEF WorkerInv, TypeOK, ControllersAreFresh, ConcurrencyIsKept, lifeVars
<1> QED
  BY <1>4, <1>5, <1>6, <1>7 DEF WorkerInv

LEMMA ReleasesJobKeeps ==
  ASSUME WorkerInv, NEW p \in Poll, ReleasesJob(p) \/ ReleaseRejects(p)
  PROVE  WorkerInv'
<1> DEFINE j == hand[p]
<1>1. /\ poll[p] = "claiming" /\ j \in Job /\ job[j] = "claimed"
      /\ runs[j] < MaxRuns[j]
  BY WorkerConstants
  DEF ReleasesJob, ReleaseRejects, WorkerInv, TypeOK, HandIsClaimed, RunsLeft
<1>2. PICK phase \in {"releasing", "failing"}, i \in {j, NoJob},
            place \in {"waiting", "claimed"} :
        /\ poll' = [poll EXCEPT ![p] = phase] /\ hand' = [hand EXCEPT ![p] = i]
        /\ job' = [job EXCEPT ![j] = place]
        /\ UNCHANGED <<lifeVars, armed, polling, activeJobs, runs, signal, strays, queueVars>>
  <2>1. CASE ReleasesJob(p)
    BY <2>1 DEF ReleasesJob, Phase
  <2>2. CASE ReleaseRejects(p)
    BY <1>1, <2>2 DEF ReleaseRejects, Phase, jobVars, WorkerInv, TypeOK
  <2> QED
    BY <2>1, <2>2
<1> HIDE DEF j
<1>3. Running' = Running
  BY <1>1, <1>2, RunningIsKept DEF WorkerInv, TypeOK
<1>4. TypeOK'
  BY <1>1, <1>2, <1>3 DEF WorkerInv, TypeOK, lifeVars, queueVars
<1>5. OnePoll' /\ RoomIsKept'
  BY <1>1, <1>2 DEF WorkerInv, TypeOK, OnePoll, RoomIsKept
<1>6. HandIsClaimed' /\ RunsLeft'
  BY <1>1, <1>2 DEF WorkerInv, TypeOK, OnePoll, HandIsClaimed, RunsLeft
<1>7. ControllersAreFresh' /\ ConcurrencyIsKept'
  BY <1>2, <1>3 DEF WorkerInv, ControllersAreFresh, ConcurrencyIsKept, lifeVars
<1> QED
  BY <1>4, <1>5, <1>6, <1>7 DEF WorkerInv

LEMMA JobEndsKeeps ==
  ASSUME WorkerInv, NEW j \in Job, JobEnds(j)
  PROVE  WorkerInv'
<1>1. PICK next \in {"done", "absent"} : job' = [job EXCEPT ![j] = next]
  BY DEF JobEnds
<1>2. /\ job[j] = "running"
      /\ strays' = strays \ {j} /\ signal' = [signal EXCEPT ![j] = 0]
      /\ activeJobs' = activeJobs - 1
      /\ armed' = (armed \/ state = "running")
      /\ UNCHANGED <<lifeVars, polling, poll, hand, runs, queueVars>>
  BY DEF JobEnds, ScheduleNextPoll
<1>3. /\ Running' = Running \ {j}
      /\ Cardinality(Running') = Cardinality(Running) - 1
  BY <1>1, <1>2, RunningShrinks DEF WorkerInv
<1>4. TypeOK'
  BY <1>1, <1>2, <1>3, WorkerConstants DEF WorkerInv, TypeOK, lifeVars, queueVars
<1>5. OnePoll' /\ RoomIsKept'
  BY <1>2, RunningIsFinite, WorkerConstants DEF WorkerInv, TypeOK, OnePoll, RoomIsKept
<1>6. HandIsClaimed' /\ RunsLeft'
  BY <1>1, <1>2 DEF WorkerInv, TypeOK, HandIsClaimed, RunsLeft
<1>7. ControllersAreFresh' /\ ConcurrencyIsKept'
  BY <1>2, <1>3, RunningIsFinite, WorkerConstants
  DEF WorkerInv, ControllersAreFresh, ConcurrencyIsKept, lifeVars
<1> QED
  BY <1>4, <1>5, <1>6, <1>7 DEF WorkerInv

QueueStep == Close \/ \E j \in Job : JobReady(j) \/ Register(j)

LEMMA QueueStepKeeps ==
  ASSUME WorkerInv, QueueStep
  PROVE  WorkerInv'
<1> DEFINE Effect ==
      /\ \/ job' = job
         \/ \E j \in Job : /\ job[j] = "absent" /\ runs[j] < MaxRuns[j]
                           /\ job' = [job EXCEPT ![j] = "waiting"]
      /\ armed' \in BOOLEAN /\ open' \in BOOLEAN /\ processors' \subseteq Job
      /\ UNCHANGED <<lifeVars, polling, poll, hand, activeJobs, runs, signal, strays>>
<1>1. Effect
  <2> USE DEF lifeVars, loopVars, jobVars, queueVars
  <2>0. armed \in BOOLEAN /\ open \in BOOLEAN /\ processors \subseteq Job
    BY DEF WorkerInv, TypeOK
  <2>1. CASE Close
    BY <2>0, <2>1 DEF Close
  <2>2. ASSUME NEW j \in Job, JobReady(j) PROVE Effect
    BY <2>0, <2>2 DEF JobReady
  <2>3. ASSUME NEW j \in Job, Register(j) PROVE Effect
    BY <2>0, <2>3 DEF Register
  <2> QED
    BY <2>1, <2>2, <2>3 DEF QueueStep
<1>2. Running' = Running
  BY <1>1, RunningIsKept DEF WorkerInv, TypeOK
<1>3. TypeOK'
  BY <1>1, <1>2 DEF WorkerInv, TypeOK, lifeVars
<1>4. OnePoll' /\ RoomIsKept' /\ ControllersAreFresh' /\ ConcurrencyIsKept'
  BY <1>1, <1>2
  DEF WorkerInv, OnePoll, RoomIsKept, ControllersAreFresh, ConcurrencyIsKept, lifeVars
<1>5. HandIsClaimed' /\ RunsLeft'
  BY <1>1 DEF WorkerInv, TypeOK, HandIsClaimed, RunsLeft
<1> QED
  BY <1>3, <1>4, <1>5 DEF WorkerInv

-----------------------------------------------------------------------------
(* start(), stop() and forceStop() *)

LifeStep ==
    Start \/ ForceStop \/ \E c \in StopCall : Stop(c) \/ Drained(c) \/ DrainExpires(c)

LEMMA LifeStepControllers ==
  ASSUME WorkerInv, LifeStep
  PROVE  /\ state' \in {"created", "running", "draining", "stopped"}
         /\ controller' \in 0..MaxStarts /\ armed' \in BOOLEAN
         /\ drains' \subseteq StopCall /\ aborted' \subseteq 1..MaxStarts
         /\ ControllersAreFresh'
<1> USE WorkerConstants DEF WorkerInv, TypeOK, ControllersAreFresh
<1>1. CASE Start
  BY <1>1 DEF Start
<1>2. CASE ForceStop
  <2>1. /\ state' = "stopped" /\ armed' = FALSE /\ UNCHANGED <<controller, drains>>
        /\ aborted' = aborted \cup ({controller} \ {0})
    BY <1>2 DEF ForceStop
  <2>2. aborted' \subseteq 1..controller /\ 1..controller \subseteq 1..MaxStarts
    BY <2>1
  <2> QED
    BY <2>1, <2>2
<1>3. ASSUME NEW c \in StopCall, Stop(c)
      PROVE  /\ state' \in {"draining", "stopped"} /\ armed' = FALSE
             /\ drains' \subseteq StopCall /\ controller # 0
             /\ UNCHANGED <<controller, aborted>>
  BY <1>3 DEF Stop
<1>4. ASSUME NEW c \in StopCall, Drained(c) \/ DrainExpires(c)
      PROVE  /\ drains' \subseteq StopCall /\ controller # 0
             /\ UNCHANGED controller
             /\ \/ /\ state' = "stopped" /\ armed' = FALSE
                   /\ aborted' = aborted \/ aborted' = aborted \cup {controller}
                \/ UNCHANGED <<state, armed, aborted>>
  BY <1>4 DEF Drained, DrainExpires
<1>5. controller # 0 => controller \in 1..controller /\ 1..controller \subseteq 1..MaxStarts
  OBVIOUS
<1>6. ASSUME NEW c \in StopCall, Stop(c) \/ Drained(c) \/ DrainExpires(c)
      PROVE  /\ aborted' \subseteq 1..controller' /\ 1..controller' \subseteq 1..MaxStarts
             /\ controller' # 0
  BY <1>3, <1>4, <1>5, <1>6
<1>7. ASSUME NEW c \in StopCall, Drained(c) \/ DrainExpires(c)
      PROVE  /\ state' \in {"created", "running", "draining", "stopped"} /\ armed' \in BOOLEAN
             /\ state' = "running" => controller \notin aborted'
  BY <1>4, <1>7
<1>8. CASE \E c \in StopCall : Stop(c) \/ Drained(c) \/ DrainExpires(c)
  BY <1>3, <1>4, <1>6, <1>7, <1>8
<1> QED
  BY <1>1, <1>2, <1>8 DEF LifeStep

LEMMA LifeStepKeeps ==
  ASSUME WorkerInv, LifeStep
  PROVE  WorkerInv'
<1>1. UNCHANGED <<polling, poll, hand, activeJobs, jobVars, queueVars>>
  BY DEF LifeStep, Start, ForceStop, Stop, Drained, DrainExpires
<1>2. Running' = Running
  BY <1>1, RunningIsKept DEF jobVars
<1>3. TypeOK' /\ ControllersAreFresh'
  BY <1>1, <1>2, LifeStepControllers DEF WorkerInv, TypeOK, jobVars, queueVars
<1>4. OnePoll' /\ RoomIsKept' /\ HandIsClaimed' /\ RunsLeft' /\ ConcurrencyIsKept'
  BY <1>1, <1>2
  DEF WorkerInv, OnePoll, RoomIsKept, HandIsClaimed, RunsLeft, ConcurrencyIsKept, jobVars
<1> QED
  BY <1>3, <1>4 DEF WorkerInv

-----------------------------------------------------------------------------
LEMMA WorkerStep == WorkerInv /\ [Next]_vars => WorkerInv'
<1> SUFFICES ASSUME WorkerInv, [Next]_vars PROVE WorkerInv'
  OBVIOUS
<1>1. CASE PollSkips
  BY <1>1, PollSkipsKeeps
<1>2. ASSUME NEW p \in Poll, PollStep(p) PROVE WorkerInv'
  <2>1. CASE PollFindsNone(p) \/ PollRejects(p) \/ \E j \in Job : PollClaims(p, j)
    <3>1. PollBegins(p)
      BY <2>1 DEF PollFindsNone, PollRejects, PollClaims
    <3> QED
      BY <2>1, <3>1, PollBeginsKeeps
  <2>2. CASE ClaimedNone(p) \/ Released(p) \/ PollFails(p)
    BY <2>2, PollEndsKeeps
  <2>3. CASE StartsJob(p)
    BY <2>3, StartsJobKeeps
  <2>4. CASE ReleasesJob(p) \/ ReleaseRejects(p)
    BY <2>4, ReleasesJobKeeps
  <2> QED
    BY <1>2, <2>1, <2>2, <2>3, <2>4 DEF PollStep
<1>3. ASSUME NEW j \in Job, JobEnds(j) PROVE WorkerInv'
  BY <1>3, JobEndsKeeps
<1>4. CASE QueueStep
  BY <1>4, QueueStepKeeps
<1>5. CASE LifeStep
  BY <1>5, LifeStepKeeps
<1>6. CASE UNCHANGED vars
  <2>1. Running' = Running
    BY <1>6, RunningIsKept DEF vars, jobVars
  <2> QED
    BY <1>6, <2>1
    DEF vars, lifeVars, loopVars, jobVars, queueVars, WorkerInv, TypeOK, OnePoll,
        RoomIsKept, HandIsClaimed, RunsLeft, ControllersAreFresh, ConcurrencyIsKept
<1> QED
  BY <1>1, <1>2, <1>3, <1>4, <1>5, <1>6 DEF Next, QueueStep, LifeStep

LEMMA WorkerInvHolds == Spec => []WorkerInv
BY WorkerInit, WorkerStep, PTL DEF Spec

\* The worker is well formed in every reachable state, and activeJobs is the
\* number of the jobs that run, whichever start() they belong to.
THEOREM WorkerTypes == Spec => []TypeOK
<1>1. WorkerInv => TypeOK
  BY DEF WorkerInv
<1> QED
  BY <1>1, WorkerInvHolds, PTL

\* Concurrency bounds the running jobs over stops, restarts and claims that
\* were awaited across them.
THEOREM WorkerKeepsConcurrency == Spec => []ConcurrencyIsKept
<1>1. WorkerInv => ConcurrencyIsKept
  BY DEF WorkerInv
<1> QED
  BY <1>1, WorkerInvHolds, PTL

-----------------------------------------------------------------------------
(* Every controller that is replaced has been aborted or has no jobs left. *)

DrainsAreAwaited == state = "draining" => drains # {}

LEMMA DrainsStep ==
  ASSUME "onError" \notin Failing, DrainsAreAwaited, [Next]_vars
  PROVE  DrainsAreAwaited'
<1> USE DEF DrainsAreAwaited
<1>1. CASE PollSkips \/ Close \/ \E j \in Job : JobEnds(j) \/ JobReady(j) \/ Register(j)
  BY <1>1 DEF PollSkips, Close, JobEnds, JobReady, Register, lifeVars
<1>2. ASSUME NEW p \in Poll, PollStep(p) PROVE DrainsAreAwaited'
  BY <1>2
  DEF PollStep, PollFindsNone, PollRejects, PollClaims, PollBegins, ClaimedNone,
      StartsJob, ReleasesJob, ReleaseRejects, Released, PollFails, lifeVars
<1>3. CASE LifeStep
  BY <1>3 DEF LifeStep, Start, ForceStop, Stop, Drained, DrainExpires
<1>4. CASE UNCHANGED vars
  BY <1>4 DEF vars, lifeVars
<1> QED
  BY <1>1, <1>2, <1>3, <1>4 DEF Next, LifeStep

LEMMA OutliveStep ==
  ASSUME "onError" \notin Failing, WorkerInv, DrainsAreAwaited, DrainsAreAwaited',
         NoJobOutlivesItsWorker, [Next]_vars
  PROVE  NoJobOutlivesItsWorker'
<1> USE DEF NoJobOutlivesItsWorker, Running, DrainsAreAwaited
<1>1. ASSUME NEW p \in Poll, StartsJob(p) PROVE NoJobOutlivesItsWorker'
  BY <1>1 DEF StartsJob, lifeVars, WorkerInv, TypeOK
<1>2. ASSUME NEW p \in Poll, PollStep(p), ~StartsJob(p) PROVE NoJobOutlivesItsWorker'
  <2>1. /\ UNCHANGED <<lifeVars, signal, strays>>
        /\ \A j \in Job : job'[j] = "running" <=> job[j] = "running"
    <3> USE DEF jobVars, lifeVars, WorkerInv, TypeOK
    <3>1. CASE PollFindsNone(p) \/ PollRejects(p) \/ \E j \in Job : PollClaims(p, j)
      BY <3>1 DEF PollFindsNone, PollRejects, PollClaims, PollBegins, Claimable
    <3>2. CASE ClaimedNone(p) \/ Released(p) \/ PollFails(p) \/ ReleaseRejects(p)
      BY <3>2 DEF ClaimedNone, Released, PollFails, ReleaseRejects
    <3>3. CASE ReleasesJob(p)
      BY <3>3, WorkerConstants DEF ReleasesJob, HandIsClaimed
    <3> QED
      BY <1>2, <3>1, <3>2, <3>3 DEF PollStep
  <2> QED
    BY <2>1 DEF lifeVars
<1>3. ASSUME NEW j \in Job, JobEnds(j) PROVE NoJobOutlivesItsWorker'
  BY <1>3 DEF JobEnds, lifeVars, WorkerInv, TypeOK
<1>4. CASE PollSkips \/ Close \/ \E j \in Job : JobReady(j) \/ Register(j)
  BY <1>4 DEF PollSkips, Close, JobReady, Register, lifeVars, jobVars, WorkerInv, TypeOK
<1>5. CASE LifeStep
  <2>1. UNCHANGED jobVars
    BY <1>5 DEF LifeStep, Start, ForceStop, Stop, Drained, DrainExpires
  <2>2. CASE Start
    BY <2>1, <2>2 DEF Start, jobVars
  <2>3. CASE ForceStop
    BY <2>1, <2>3 DEF ForceStop, jobVars, WorkerInv, ControllersAreFresh
  <2>4. ASSUME NEW c \in StopCall, Stop(c) \/ Drained(c) PROVE NoJobOutlivesItsWorker'
    <3>1. activeJobs \in Nat
      BY RunningIsFinite DEF WorkerInv, TypeOK
    <3>2. CASE activeJobs = 0
      BY <2>1, <3>2, NothingRuns DEF jobVars, WorkerInv
    <3>3. CASE activeJobs > 0
      BY <2>1, <2>4, <3>3 DEF Stop, Drained, jobVars
    <3> QED
      BY <3>1, <3>2, <3>3
  <2>5. ASSUME NEW c \in StopCall, DrainExpires(c) PROVE NoJobOutlivesItsWorker'
    BY <2>1, <2>5 DEF DrainExpires, jobVars
  <2> QED
    BY <1>5, <2>2, <2>3, <2>4, <2>5 DEF LifeStep
<1>6. CASE UNCHANGED vars
  BY <1>6 DEF vars, lifeVars, jobVars
<1> QED
  BY <1>1, <1>2, <1>3, <1>4, <1>5, <1>6 DEF Next, LifeStep

\* A running job that was started on a live worker has an aborted signal once
\* that run of the worker is over, also when an old drain ends a new run, provided
\* that onError does not throw into the stop() that would abort it.
THEOREM JobsEndWithTheirWorker ==
  ASSUME "onError" \notin Failing
  PROVE  Spec => []NoJobOutlivesItsWorker
<1>1. Init => DrainsAreAwaited /\ NoJobOutlivesItsWorker
  BY DEF Init, DrainsAreAwaited, NoJobOutlivesItsWorker, Running
<1>2. /\ WorkerInv /\ DrainsAreAwaited /\ NoJobOutlivesItsWorker /\ [Next]_vars
      => DrainsAreAwaited' /\ NoJobOutlivesItsWorker'
  BY DrainsStep, OutliveStep
<1> QED
  BY <1>1, <1>2, WorkerInvHolds, PTL DEF Spec

-----------------------------------------------------------------------------
(* A running worker has a poll armed or under way. *)

LEMMA NeverDeafStep ==
  ASSUME "onError" \notin Failing, WorkerInv, NeverDeaf, [Next]_vars
  PROVE  NeverDeaf'
<1> USE DEF NeverDeaf
<1>1. CASE PollSkips
  BY <1>1 DEF PollSkips, MayPoll, lifeVars, WorkerInv, OnePoll, ControllersAreFresh
<1>2. ASSUME NEW p \in Poll, PollStep(p) PROVE NeverDeaf'
  <2>1. CASE PollFindsNone(p) \/ PollRejects(p) \/ \E j \in Job : PollClaims(p, j)
    BY <2>1
    DEF PollFindsNone, PollRejects, PollClaims, PollBegins, Phase, lifeVars,
        WorkerInv, TypeOK
  <2>2. CASE ClaimedNone(p) \/ Released(p) \/ PollFails(p) \/ StartsJob(p)
    BY <2>2
    DEF ClaimedNone, Released, PollFails, StartsJob, EndPoll, ScheduleNextPoll, lifeVars
  <2>3. CASE ReleasesJob(p) \/ ReleaseRejects(p)
    BY <2>3 DEF ReleasesJob, ReleaseRejects, Phase, lifeVars, WorkerInv, TypeOK
  <2> QED
    BY <1>2, <2>1, <2>2, <2>3 DEF PollStep
<1>3. CASE QueueStep \/ \E j \in Job : JobEnds(j)
  <2>1. /\ UNCHANGED <<state, poll>>
        /\ armed => armed'
        /\ armed' => armed \/ state = "running"
    <3> USE DEF lifeVars, loopVars
    <3>1. CASE Close \/ \E j \in Job : Register(j)
      BY <3>1 DEF Close, Register
    <3>2. CASE \E j \in Job : JobReady(j) \/ JobEnds(j)
      BY <3>2 DEF JobReady, JobEnds, ScheduleNextPoll
    <3> QED
      BY <1>3, <3>1, <3>2 DEF QueueStep
  <2> QED
    BY <2>1
<1>4. CASE LifeStep
  BY <1>4 DEF LifeStep, Start, ForceStop, Stop, Drained, DrainExpires
<1>5. CASE UNCHANGED vars
  BY <1>5 DEF vars, lifeVars, loopVars
<1> QED
  BY <1>1, <1>2, <1>3, <1>4, <1>5 DEF Next, QueueStep, LifeStep

\* What WaitingJobIsTaken rests on: no await, restart or failed call leaves a
\* running worker without the poll that would find its next job, provided that
\* onError does not throw before that poll is armed.
THEOREM WorkerKeepsPolling ==
  ASSUME "onError" \notin Failing
  PROVE  Spec => []NeverDeaf
<1>1. Init => NeverDeaf
  BY DEF Init, NeverDeaf
<1> QED
  <2>1. WorkerInv /\ NeverDeaf /\ [Next]_vars => NeverDeaf'
    BY NeverDeafStep
  <2> QED
    BY <1>1, <2>1, WorkerInvHolds, PTL DEF Spec
=============================================================================
