------------------------- MODULE JobQueueProperties -------------------------
(***************************************************************************)
(* What makes the in-memory queue correct.                                 *)
(***************************************************************************)
EXTENDS JobQueue

\* "Claiming is what prevents two consumers from processing the same job": no
\* job is in the hands of two processors, retries and reclaims included.
OneProcessorPerJob ==
    \A r, q \in processing : taken[r] = taken[q] => r = q

\* "Terminal states a job never leaves": a completed or dead-lettered job stays
\* as it is until it is forgotten, and a forgotten one does not come back.
SettledIsFinal ==
    [][\A j \in Job : /\ state[j] \in Settled => state'[j] \in {state[j], "gone"}
                      /\ state[j] = "gone" => state'[j] = "gone"]_vars

\* A deduplication key belongs to the one job that still has a run ahead of it,
\* through failures, retries and reclaims, and to nobody once that job settled.
KeyFollowsJob ==
    \A j \in Job, k \in Key :
        dedup[k] = j <=> key[j] = k /\ state[j] \in Pending

Running == { r \in Run : pc[r] \in InRun }

\* Every run frees its slot once: activeCount and inFlight are the runs under
\* way, whichever consumer started them, "so a job can never write back into a
\* cleared queue", which stays empty.
SlotsAreCounted ==
    IF closing = "closed" THEN \A j \in Job : ~InMap(j)
    ELSE /\ activeCount = Cardinality(Running)
         /\ inFlight = { taken[r] : r \in Running }

\* "a job can never write back into a cleared queue": whatever settles after
\* close() has returned leaves the cleared maps empty, and activeCount at zero.
NothingIsWrittenBack ==
    closing = "closed" => activeCount = 0 /\ \A j \in Job : ~InMap(j)

\* The poller never runs more jobs than its concurrency allows, although it
\* awaits every claim before the job counts as active, and settled jobs are
\* forgotten beyond retainSettledJobs: none escapes the count.
LimitsAreKept ==
    /\ Cardinality(Running \cap OwnRun) <= Concurrency
    /\ Cardinality({ j \in Job : state[j] \in Settled }) <= Retain

\* A job that is added is completed or dead-lettered in the end, whatever its
\* processors and consumers do, unless the queue is closed before; and close()
\* returns.
EveryJobSettles ==
    /\ \A j \in Job :
           state[j] \in Pending ~> state[j] \in Settled \cup {"gone"} \/ disposed
    /\ disposed ~> closing = "closed"
=============================================================================
