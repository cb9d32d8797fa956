SPECIFICATION FairSpec
CONSTANTS
    retried = retried
    plain = plain
    late = late
    Job = {retried, plain, late}
    NoJob = NoJob
    Concurrency = 2
    Poll = {p1, p2}
    StopCall = {s1, s2}
    MaxStarts = 3
    MaxRuns <- MCMaxRuns
    Late = {late}
    Failing = {"claim", "release"}
INVARIANTS
    TypeOK
    ConcurrencyIsKept
    NoJobOutlivesItsWorker
PROPERTIES
    WaitingJobIsTaken
