-------------------------- MODULE WorkerProperties --------------------------
(***************************************************************************)
(* What createWorker() promises.                                           *)
(***************************************************************************)
EXTENDS Worker

\* The shapes of the state, and slots that agree with the jobs: activeJobs
\* counts the running jobs, whichever start() they belong to.
TypeOK ==
    /\ state \in {"created", "running", "draining", "stopped"}
    /\ controller \in 0..MaxStarts /\ aborted \subseteq 1..MaxStarts
    /\ armed \in BOOLEAN /\ polling \in BOOLEAN
    /\ poll \in [Poll -> {"idle", "claiming", "failing", "releasing"}]
    /\ hand \in [Poll -> Job \cup {NoJob}]
    /\ activeJobs = Cardinality(Running)
    /\ drains \subseteq StopCall
    /\ job \in [Job -> {"absent", "waiting", "claimed", "running", "done"}]
    /\ runs \in [Job -> Nat] /\ \A j \in Job : runs[j] <= MaxRuns[j]
    /\ signal \in [Job -> 0..MaxStarts]
    /\ strays \subseteq Running
    /\ processors \subseteq Job /\ open \in BOOLEAN

\* No more jobs run than concurrency, over restarts and over claims that were
\* awaited while others started: poll() reads activeJobs before its await.
ConcurrencyIsKept == Cardinality(Running) <= Concurrency

\* A running worker has a poll armed or under way, so no job waits for a poll
\* that nobody will make; any other worker has no poll armed.  Unless onError
\* throws.
NeverDeaf ==
    /\ state = "running" => armed \/ \E p \in Poll : poll[p] # "idle"
    /\ armed => state = "running"

\* A job that was started on a live worker is awaited or aborted: once that
\* run of the worker is over, by stop() or by forceStop(), its signal is
\* aborted, whatever start() follows, and until then a draining worker has a
\* stop() that will end it.
NoJobOutlivesItsWorker ==
    \A j \in Running \ strays :
        \/ signal[j] \in aborted
        \/ signal[j] = controller /\ state = "running"
        \/ signal[j] = controller /\ state = "draining" /\ drains # {}

\* A job that a running worker could run does not wait for ever, as the worker
\* never stops looking.
WaitingJobIsTaken ==
    \A j \in Job : ~<>[](j \in Claimable /\ state = "running")
=============================================================================
