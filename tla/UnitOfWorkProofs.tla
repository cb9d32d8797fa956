-------------------------- MODULE UnitOfWorkProofs --------------------------
(***************************************************************************)
(* Proofs that run() keeps what UnitOfWork promises, and what follows from *)
(* it for callbacks, outcomes and replays, in the program the              *)
(* documentation shows: callbacks await the runs they start and leave      *)
(* completion to run(), rollbacks are carried out, and no timeout abandons *)
(* a callback.  With timeouts the first theorem fails: the run             *)
(* TransactionsDecided is its counterexample.                              *)
(***************************************************************************)
EXTENDS TransactionProofs

-----------------------------------------------------------------------------
(* Callbacks that await what they start, and leave completion to run() *)

\* The program the documentation shows: no timeout abandons a callback, which
\* awaits the runs it starts and completes no handle itself; and no hook marks
\* a transaction whose commit has begun.
Orderly == Awaited /\ ~Timeouts /\ ByHand = {} /\ Direct = {} /\ ~Vetoed("hook")

Active(t) == ~Unused(t) /\ pc[<<t, "run">>] \notin Settled

\* A run() under way inside a callback: the one around it still awaits it.
WaitAt(t) ==
    /\ pc[<<t, "hand">>] = "idle" /\ ~timedOut[t] /\ ~timer[t]
    /\ body[t] = "running" <=> pc[<<t, "run">>] = "body"
    /\ Active(t) /\ outer[t] # NoTxn => pc[<<outer[t], "run">>] = "body"

Wait == \A t \in Txn : WaitAt(t)

Underway == {"started", "body", "refused", "beforeRollback", "adapterRollback"} \cup Committing
Failed   == {"rejected", "retrying"}

\* What the stage of run() says of the handle and of what the adapter did.
CourseAt(t) ==
    LET now == pc[<<t, "run">>]
    IN  /\ kind[t] = "participant" => now \in {"body", "resolved", "rejected"}
        /\ now \in {"beginning", "started", "refused"} \cup Committing => Owned(t)
        /\ now = "afterCommit" => kind[t] # "savepoint"
        /\ ~Owned(t) => db[t] = "none"
        /\ kind[t] # "participant" /\ now \in Underway => state[t] = "active"
        /\ Owned(t) =>
              /\ now \in Underway => db[t] = "open"
              /\ now \in Committing => ~rollbackOnly[t]
              /\ now \in {"afterCommit", "resolved"} => db[t] = "kept"
              /\ now = "afterRollback" => db[t] = "undone"
              /\ db[t] = "kept" <=> state[t] = "committed"
              /\ state[t] = "rolled_back" => db[t] = "undone"
              /\ db[t] = "kept" => ~rollbackOnly[t] /\ now \in {"afterCommit", "retrying"} \cup Settled

Course == \A t \in Txn : CourseAt(t)

\* run() on t goes from one of some stages to one of others.
Goes(t, from, to) ==
    /\ pc[<<t, "run">>] \in from
    /\ \E end \in to : pc' = [pc EXCEPT ![<<t, "run">>] = end]

\* The steps of such a program once begin() is done: work in the callback, ...
WorksIn(t) == pc[<<t, "run">>] = "body" /\ (Register(t) \/ MarkRollbackOnly(t))

\* ... the end of the callback, which nothing it started outlives, ...
Leaves(t) ==
    /\ ~Busy(t) /\ body' = [body EXCEPT ![t] = "done"] /\ db' = db
    /\ \/ /\ kind[t] = "participant" /\ Goes(t, {"body"}, {"resolved"})
          /\ UNCHANGED <<state, rollbackOnly, work>>
       \/ /\ kind[t] = "participant" /\ Goes(t, {"body"}, {"rejected"})
          /\ rollbackOnly' = [rollbackOnly EXCEPT ![up[t]] = TRUE] /\ UNCHANGED <<state, work>>
       \/ /\ kind[t] # "participant" /\ Goes(t, {"body"}, {"beforeRollback"})
          /\ UNCHANGED <<state, rollbackOnly, work>>
       \/ /\ Owned(t) /\ Goes(t, {"body"}, {IF rollbackOnly[t] THEN "refused" ELSE "beforeCommit"})
          /\ UNCHANGED <<state, rollbackOnly, work>>
       \/ /\ kind[t] = "none" /\ Goes(t, {"body"}, {"afterCommit"})
          /\ ObjectCommits(t) /\ UNCHANGED rollbackOnly

\* ... the commit, ...
Completes(t) ==
    /\ UNCHANGED <<body, rollbackOnly>>
    /\ \/ /\ Owned(t) /\ Goes(t, {"beforeCommit"}, {"adapterCommit"})
          /\ held' = IF kind[t] = "savepoint" THEN [held EXCEPT ![t] = @ \cup {Hook1(t)}] ELSE held
          /\ UNCHANGED <<state, ran, undone, db>>
       \/ /\ Owned(t) /\ Goes(t, {"beforeCommit", "refused"}, {"beforeRollback"})
          /\ UNCHANGED <<state, work, db>>
       \/ /\ Owned(t) /\ Completable(t) /\ ObjectCommits(t)
          /\ Goes(t, {"adapterCommit"}, {IF kind[t] = "savepoint" THEN "resolved" ELSE "afterCommit"})
          /\ db' = [db EXCEPT ![t] = "kept"]
       \/ /\ Owned(t) /\ Goes(t, {"adapterCommit"}, Failed)
          /\ CommitOp(t) \in FailingAdapter \/ ~Completable(t)
          /\ state' = [state EXCEPT ![t] = "failed"] /\ UNCHANGED work
          /\ db' = IF kind[t] = "root" THEN [db EXCEPT ![t] = "undone"] ELSE db
       \/ /\ kind[t] \in {"root", "none"} /\ UNCHANGED <<state, held, undone, db>>
          /\ \/ /\ \/ Goes(t, {"afterCommit"}, {"resolved"})
                   \/ kind[t] = "root" /\ Rejects("afterCommit") /\ Goes(t, {"afterCommit"}, Failed)
                /\ ran' = IF kind[t] = "root" THEN ran \cup {Hook1(t)} ELSE ran
             \/ /\ kind[t] = "root" /\ Rejects("onError") /\ Goes(t, {"afterCommit"}, Failed)
                /\ UNCHANGED ran

\* ... and the rollback, or the end of the retries.
Undoes(t) ==
    /\ kind[t] # "participant" /\ UNCHANGED <<body, rollbackOnly>>
    /\ \/ /\ \/ Goes(t, {"beforeRollback", "refused"}, {"adapterRollback"})
             \/ Rejects("beforeRollback") /\ Goes(t, {"beforeRollback"}, Failed)
             \/ Goes(t, {"afterRollback"}, Failed) \/ Goes(t, {"retrying"}, {"rejected"})
          /\ UNCHANGED <<state, work, db>>
       \/ /\ Goes(t, {"adapterRollback"}, {"afterRollback"}) /\ ObjectRollsBack(t)
          /\ db' = IF Owned(t) THEN [db EXCEPT ![t] = "undone"] ELSE db
          /\ Owned(t) => Completable(t)
       \/ /\ Owned(t) /\ Goes(t, {"adapterRollback"}, Failed)
          /\ state' = [state EXCEPT ![t] = "failed"] /\ UNCHANGED work
          /\ \/ (RollbackOp(t) \in FailingAdapter \/ ~Completable(t)) /\ UNCHANGED db
             \/ /\ kind[t] = "savepoint" /\ Completable(t)
                /\ "releaseSavepoint" \in FailingAdapter
                /\ db' = [db EXCEPT ![t] = "undone"]

Proceeds(t) ==
    /\ UNCHANGED <<identity, timedOut, timer>>
    /\ WorksIn(t) \/ Leaves(t) \/ Completes(t) \/ Undoes(t)

LEMMA SettleGoes ==
    ASSUME Wait, TypeOK, NEW t \in Txn, NEW result \in {"resolved", "rejected"},
           Settle(t, "run", result)
    PROVE  /\ timer' = timer
           /\ \E end \in {result} \cup (IF result = "rejected" /\ kind[t] # "participant"
                                        THEN {"retrying"} ELSE {}) :
                 pc' = [pc EXCEPT ![<<t, "run">>] = end]
<1>1. timer' = timer
  <2>1. timer \in [Txn -> BOOLEAN] /\ ~timer[t]
        BY DEF Wait, WaitAt, TypeOK
  <2>2. timer[t] = FALSE
    <3>1. timer[t] \in BOOLEAN
          BY <2>1
    <3> QED BY <2>1, <3>1, Zenon
  <2>3. [timer EXCEPT ![t] = FALSE] = timer
        BY <2>1, <2>2
  <2> QED BY <2>3 DEF Settle
<1> QED BY <1>1 DEF Settle, RunEnds

\* An error in run() asks the hook, or marks the transaction that was joined.
LEMMA ThrowGoes ==
    ASSUME Wait, TypeOK, NEW t \in Txn, Throw(t, "run")
    PROVE  /\ timer' = timer
           /\ \/ /\ kind[t] = "participant" /\ pc' = [pc EXCEPT ![<<t, "run">>] = "rejected"]
                 /\ rollbackOnly' = [rollbackOnly EXCEPT ![up[t]] = TRUE]
              \/ /\ kind[t] # "participant" /\ rollbackOnly' = rollbackOnly
                 /\ state[t] \in Terminal \/ pc' = [pc EXCEPT ![<<t, "run">>] = "beforeRollback"]
<1>1. RollbackStart(t, "run")
      BY DEF Throw
<1>2. CASE kind[t] = "participant"
      BY <1>1, <1>2, SettleGoes DEF RollbackStart
<1>3. CASE kind[t] # "participant" /\ state[t] \in Terminal
      BY <1>1, <1>3, SettleGoes DEF RollbackStart
<1>4. CASE kind[t] # "participant" /\ state[t] \notin Terminal
      BY <1>1, <1>4 DEF RollbackStart, Await
<1> QED BY <1>2, <1>3, <1>4

LEMMA OrderlyCommits ==
    ASSUME Orderly, TypeOK, Untouched, Wait, Course, NEW t \in Txn, Commits(t, "run")
    PROVE  Proceeds(t)
<1> USE DEF identity, flags
<1> DEFINE now == pc[<<t, "run">>]
<1>1. CourseAt(t) /\ kind[t] \in Kind \cup {"unused"}
      BY DEF Course, TypeOK
<1>2. ASSUME BeforeCommit(t, "run") PROVE Proceeds(t)
  <2>1. Owned(t)
        BY <1>1, <1>2 DEF BeforeCommit, CourseAt, Committing
  <2> QED BY <1>2, <2>1 DEF BeforeCommit, Await, Orderly, Proceeds, Completes, Goes, Hook1
<1>3. ASSUME BeforeCommitFails(t, "run") PROVE Proceeds(t)
  <2>1. Owned(t) /\ state[t] = "active" /\ now = "beforeCommit"
        BY <1>1, <1>3 DEF BeforeCommitFails, CourseAt, Committing, Underway, Owned
  <2>2. /\ timer' = timer /\ rollbackOnly' = rollbackOnly
        /\ pc' = [pc EXCEPT ![<<t, "run">>] = "beforeRollback"]
        BY <1>3, <2>1, ThrowGoes DEF BeforeCommitFails, Owned, Terminal
  <2> QED BY <1>3, <2>1, <2>2 DEF BeforeCommitFails, Proceeds, Completes, Goes
<1>4. ASSUME AdapterCommits(t, "run") PROVE Proceeds(t)
  <2>1. Owned(t) /\ state[t] = "active" /\ ~rollbackOnly[t] /\ now = "adapterCommit"
        BY <1>1, <1>4 DEF AdapterCommits, CourseAt, Committing, Underway, Owned
  <2>2. ObjectCommits(t) /\ state'[t] = "committed"
        BY <1>4, <2>1 DEF AdapterCommits, ObjectCommits, TypeOK
  <2>3. CASE kind[t] = "savepoint"
    <3>1. timer' = timer /\ pc' = [pc EXCEPT ![<<t, "run">>] = "resolved"]
          BY <1>4, <2>2, <2>3, SettleGoes DEF AdapterCommits
    <3> QED BY <1>4, <2>1, <2>2, <2>3, <3>1 DEF AdapterCommits, Proceeds, Completes, Goes
  <2>4. CASE kind[t] # "savepoint"
    <3>1. timer' = timer /\ pc' = [pc EXCEPT ![<<t, "run">>] = "afterCommit"]
          BY <1>4, <2>2, <2>4 DEF AdapterCommits, Await
    <3> QED BY <1>4, <2>1, <2>2, <2>4, <3>1 DEF AdapterCommits, Proceeds, Completes, Goes
  <2> QED BY <2>3, <2>4
<1>5. ASSUME AdapterRefusesCommit(t, "run") PROVE Proceeds(t)
  <2>1. Owned(t) /\ state[t] = "active" /\ db[t] = "open" /\ now = "adapterCommit"
        BY <1>1, <1>5 DEF AdapterRefusesCommit, CourseAt, Committing, Underway, Owned
  <2>2. timer' = timer /\ Goes(t, {"adapterCommit"}, Failed)
        BY <1>5, SettleGoes DEF AdapterRefusesCommit, Goes, Failed
  <2>3. state' = [state EXCEPT ![t] = "failed"]
        BY <1>5, <2>1 DEF AdapterRefusesCommit, Fail, Terminal
  <2>4. db' = IF kind[t] = "root" THEN [db EXCEPT ![t] = "undone"] ELSE db
        BY <1>5, <2>1 DEF AdapterRefusesCommit, TypeOK
  <2> QED BY <1>5, <2>1, <2>2, <2>3, <2>4 DEF AdapterRefusesCommit, Proceeds, Completes
<1>6. ASSUME AfterCommit(t, "run") PROVE Proceeds(t)
  <2>1. kind[t] \in {"root", "none"}
        BY <1>1, <1>6 DEF AfterCommit, CourseAt, Kind, Untouched, UntouchedAt, Unused
  <2>2. timer' = timer /\ Goes(t, {"afterCommit"}, {"resolved"})
        BY <1>6, SettleGoes DEF AfterCommit, Goes
  <2> QED BY <1>6, <2>1, <2>2 DEF AfterCommit, Proceeds, Completes, Hook1
<1>7. ASSUME AfterCommitFails(t, "run") PROVE Proceeds(t)
  <2>1. timer' = timer /\ Goes(t, {"afterCommit"}, Failed)
        BY <1>7, SettleGoes DEF AfterCommitFails, Goes, Failed
  <2> QED BY <1>7, <2>1 DEF AfterCommitFails, Proceeds, Completes, Hook1
<1> QED BY <1>2, <1>3, <1>4, <1>5, <1>6, <1>7 DEF Commits

LEMMA OrderlyRollsBack ==
    ASSUME Orderly, TypeOK, Untouched, Wait, Course, NEW t \in Txn, RollsBack(t, "run")
    PROVE  Proceeds(t)
<1> USE DEF identity, flags
<1> DEFINE now == pc[<<t, "run">>]
<1>1. CourseAt(t) /\ kind[t] \in Kind \cup {"unused"}
      BY DEF Course, TypeOK
<1>2. kind[t] # "participant" /\ (Owned(t) <=> kind[t] # "none")
  <2>1. kind[t] # "participant" /\ ~Unused(t)
        BY <1>1 DEF CourseAt, RollsBack, BeforeRollback, BeforeRollbackFails, AdapterRollsBack,
           AdapterRefusesRollback, AfterRollback, Untouched, UntouchedAt
  <2> QED BY <1>1, <2>1 DEF Owned, Kind, Unused
<1>3. ASSUME BeforeRollback(t, "run") PROVE Proceeds(t)
      BY <1>2, <1>3 DEF BeforeRollback, Await, Proceeds, Undoes, Goes
<1>4. ASSUME BeforeRollbackFails(t, "run"), now = "refused" PROVE Proceeds(t)
  <2>1. Owned(t) /\ state[t] = "active"
        BY <1>1, <1>4 DEF CourseAt, Underway, Owned
  <2>2. /\ timer' = timer /\ rollbackOnly' = rollbackOnly
        /\ pc' = [pc EXCEPT ![<<t, "run">>] = "beforeRollback"]
        BY <1>4, <2>1, ThrowGoes DEF BeforeRollbackFails, Owned, Terminal
  <2> QED BY <1>4, <2>1, <2>2 DEF BeforeRollbackFails, Proceeds, Completes, Goes
<1>5. ASSUME BeforeRollbackFails(t, "run"), now # "refused" PROVE Proceeds(t)
  <2>1. timer' = timer /\ Goes(t, {"beforeRollback"}, Failed)
        BY <1>5, SettleGoes DEF BeforeRollbackFails, Goes, Failed
  <2> QED BY <1>2, <1>5, <2>1 DEF BeforeRollbackFails, Proceeds, Undoes
<1>6. ASSUME AdapterRollsBack(t, "run") PROVE Proceeds(t)
  <2>1. state[t] = "active" /\ now = "adapterRollback"
        BY <1>1, <1>2, <1>6 DEF AdapterRollsBack, CourseAt, Underway
  <2>2. timer' = timer /\ ObjectRollsBack(t) /\ Goes(t, {"adapterRollback"}, {"afterRollback"})
        BY <1>6, <2>1 DEF AdapterRollsBack, Await, Goes
  <2> QED BY <1>2, <1>6, <2>2 DEF AdapterRollsBack, Proceeds, Undoes
<1>7. ASSUME AdapterRefusesRollback(t, "run") PROVE Proceeds(t)
  <2>1. state[t] = "active" /\ now = "adapterRollback"
        BY <1>1, <1>2, <1>7 DEF AdapterRefusesRollback, CourseAt, Underway
  <2>2. timer' = timer /\ Goes(t, {"adapterRollback"}, Failed)
        BY <1>7, SettleGoes DEF AdapterRefusesRollback, Goes, Failed
  <2>3. state' = [state EXCEPT ![t] = "failed"]
        BY <1>7, <2>1 DEF AdapterRefusesRollback, Fail, Terminal
  <2> QED BY <1>2, <1>7, <2>2, <2>3 DEF AdapterRefusesRollback, Proceeds, Undoes
<1>8. ASSUME AfterRollback(t, "run") PROVE Proceeds(t)
  <2>1. timer' = timer /\ Goes(t, {"afterRollback"}, Failed)
        BY <1>8, SettleGoes DEF AfterRollback, Goes, Failed
  <2> QED BY <1>2, <1>8, <2>1 DEF AfterRollback, Proceeds, Undoes
<1> QED BY <1>3, <1>4, <1>5, <1>6, <1>7, <1>8 DEF RollsBack

\* What an orderly program does in a step, once a handle has begun.
LEMMA OrderlyProceeds ==
    ASSUME Orderly, TypeOK, Untouched, Wait, Course, NEW t \in Txn, NEW k \in Call, Continues(t, k)
    PROVE  Proceeds(t)
<1> USE DEF identity, flags
<1> DEFINE now == pc[<<t, "run">>]
<1>1. WaitAt(t) /\ CourseAt(t) /\ kind[t] \in Kind \cup {"unused"}
      BY DEF Wait, Course, TypeOK
<1>2. k = "hand" => ~Commits(t, k) /\ ~RollsBack(t, k)
      BY <1>1 DEF WaitAt, Commits, RollsBack, BeforeCommit, BeforeCommitFails, AdapterCommits,
         AdapterRefusesCommit, AfterCommit, AfterCommitFails, BeforeRollback,
         BeforeRollbackFails, AdapterRollsBack, AdapterRefusesRollback, AfterRollback
<1>3. ~Abandon(t)
      BY DEF Abandon, Aborted, Wait, WaitAt, TypeOK
<1>4. ~AbandonedEnds(t)
      BY <1>1 DEF AbandonedEnds, WaitAt
<1>5. ~(CommitByHand(t) \/ RollbackByHand(t) \/ CommitDirectly(t) \/ RollbackDirectly(t))
      BY DEF Orderly, CommitByHand, RollbackByHand, CommitDirectly, RollbackDirectly
<1>6. ASSUME BodyReturns(t) \/ BodyThrows(t)
      PROVE  Proceeds(t)
  <2>1. /\ ~Busy(t) /\ body' = [body EXCEPT ![t] = "done"] /\ now = "body"
        /\ UNCHANGED <<identity, timedOut, db>>
        BY <1>6 DEF BodyReturns, BodyThrows
  <2>2. ~Unused(t) /\ (Owned(t) \/ kind[t] \in {"participant", "none"})
        BY <1>1, <2>1 DEF Untouched, UntouchedAt, Unused, Owned, Kind
  <2>3. kind[t] # "participant" => state[t] = "active"
        BY <1>1, <2>1 DEF CourseAt, Underway
  <2>4. ASSUME Throw(t, "run"), UNCHANGED <<state, work>>
        PROVE  Proceeds(t)
    <3>1. CASE kind[t] = "participant"
      <4>1. /\ timer' = timer /\ pc' = [pc EXCEPT ![<<t, "run">>] = "rejected"]
            /\ rollbackOnly' = [rollbackOnly EXCEPT ![up[t]] = TRUE]
            BY <2>4, <3>1, ThrowGoes
      <4> QED BY <2>1, <2>4, <3>1, <4>1 DEF Proceeds, Leaves, Goes
    <3>2. CASE kind[t] # "participant"
      <4>1. /\ timer' = timer /\ pc' = [pc EXCEPT ![<<t, "run">>] = "beforeRollback"]
            /\ rollbackOnly' = rollbackOnly
            BY <2>3, <2>4, <3>2, ThrowGoes DEF Terminal
      <4> QED BY <2>1, <2>4, <3>2, <4>1 DEF Proceeds, Leaves, Goes
    <3> QED BY <3>1, <3>2
  <2>5. ASSUME CommitStart(t, "run")
        PROVE  Proceeds(t)
    <3>1. CASE kind[t] = "participant"
      <4>1. /\ UNCHANGED <<state, rollbackOnly, work>> /\ Settle(t, "run", "resolved")
            BY <2>5, <3>1 DEF CommitStart
      <4>2. timer' = timer /\ pc' = [pc EXCEPT ![<<t, "run">>] = "resolved"]
            BY <4>1, SettleGoes
      <4> QED BY <2>1, <3>1, <4>1, <4>2 DEF Proceeds, Leaves, Goes
    <3>2. CASE Owned(t)
      <4>1. /\ Await(t, "run", IF rollbackOnly[t] THEN "refused" ELSE "beforeCommit")
            /\ UNCHANGED <<state, rollbackOnly, work>>
            BY <2>3, <2>5, <3>2 DEF CommitStart, Owned
      <4> QED BY <2>1, <3>2, <4>1 DEF Proceeds, Leaves, Goes, Await
    <3>3. CASE kind[t] = "none" /\ rollbackOnly[t]
      <4>1. UNCHANGED <<state, work>> /\ Throw(t, "run")
            BY <2>3, <2>5, <3>3 DEF CommitStart
      <4> QED BY <2>4, <4>1
    <3>4. CASE kind[t] = "none" /\ ~rollbackOnly[t]
      <4>1. ObjectCommits(t) /\ Await(t, "run", "afterCommit") /\ UNCHANGED rollbackOnly
            BY <2>3, <2>5, <3>4 DEF CommitStart
      <4> QED BY <2>1, <3>4, <4>1 DEF Proceeds, Leaves, Goes, Await
    <3> QED BY <2>2, <3>1, <3>2, <3>3, <3>4
  <2> QED BY <1>6, <2>4, <2>5 DEF BodyReturns, BodyThrows
<1>7. ASSUME GiveUp(t) PROVE Proceeds(t)
  <2>1. kind[t] # "participant"
        BY <1>1, <1>7 DEF GiveUp, CourseAt
  <2> QED BY <1>7, <2>1 DEF GiveUp, Proceeds, Undoes, Goes
<1>8. ASSUME Register(t) \/ MarkRollbackOnly(t) PROVE Proceeds(t)
      BY <1>1, <1>8 DEF Register, MarkRollbackOnly, Proceeds, WorksIn, WaitAt
<1> QED BY <1>2, <1>3, <1>4, <1>5, <1>6, <1>7, <1>8, OrderlyCommits, OrderlyRollsBack
        DEF Continues, Call

\* Everything around a run() under way awaits it in its callback.
LEMMA AncestorsWait ==
    ASSUME TypeOK, Untouched, Wait, NEW u \in Txn, Active(u), NEW a \in Txn, Around(a, u), a # u
    PROVE  pc[<<a, "run">>] = "body" /\ Active(a)
<1> DEFINE S == { x \in Txn : x = u \/ pc[<<x, "run">>] = "body" }
<1>1. \A x \in Txn : pc[<<x, "run">>] = "body" => Active(x)
      BY DEF Active, Untouched, UntouchedAt, Settled
<1>2. \A x \in S : Active(x)
      BY <1>1
<1>3. ASSUME NEW x \in S, outer[x] # NoTxn PROVE outer[x] \in S
  <2>1. outer[x] \in Txn
        BY <1>3 DEF TypeOK
  <2>2. Active(x) /\ WaitAt(x)
        BY <1>2 DEF Wait
  <2> QED BY <1>3, <2>1, <2>2 DEF WaitAt
<1>4. a \in S
      BY <1>3 DEF Around, Within
<1> QED BY <1>1, <1>4

\* Nothing inside a callback that ends is still under way.
LEMMA NothingOutlives ==
    ASSUME Orderly, TypeOK, Untouched, Shape, Wait, NEW t \in Txn, ~Busy(t),
           NEW u \in Txn \ {t}, Around(t, u)
    PROVE  ~Active(u)
<1> SUFFICES ASSUME Active(u) PROVE FALSE
    OBVIOUS
<1> DEFINE S == { x \in Txn \ {t} : Active(x) }
<1>1. ASSUME NEW x \in S, outer[x] # NoTxn PROVE outer[x] \in S
  <2>1. outer[x] \in Txn
        BY <1>1 DEF TypeOK
  <2>2. WaitAt(x) /\ ScopedAt(x) /\ Active(x)
        BY <1>1 DEF Wait, Shape
  <2>3. pc[<<outer[x], "run">>] = "body" /\ ~Unused(outer[x])
        BY <1>1, <2>2 DEF WaitAt, ScopedAt
  <2>4. outer[x] # t
        BY <1>1 DEF Busy, Orderly, Active, Unused
  <2> QED BY <2>1, <2>3, <2>4 DEF Active, Settled
<1>2. Within(S)
      BY <1>1 DEF Within
<1> QED BY <1>2 DEF Around

\* How a step moves run() on its handle.
LEMMA ProceedsMoves ==
    ASSUME TypeOK, NEW t \in Txn, Proceeds(t)
    PROVE  \/ pc' = pc /\ body' = body /\ pc[<<t, "run">>] = "body"
           \/ /\ \E end \in Later \ {"body"} : pc' = [pc EXCEPT ![<<t, "run">>] = end]
              /\ pc[<<t, "run">>] \in Later \ Settled
              /\ IF pc[<<t, "run">>] = "body" THEN ~Busy(t) /\ body' = [body EXCEPT ![t] = "done"]
                 ELSE body' = body
<1> USE DEF Goes, Later, Stage, Settled, Failed
<1>1. CASE WorksIn(t)
      BY <1>1 DEF WorksIn, Register, MarkRollbackOnly
<1>2. CASE Leaves(t)
      BY <1>2 DEF Leaves
<1>3. CASE Completes(t)
      BY <1>3 DEF Completes
<1>4. CASE Undoes(t)
      BY <1>4 DEF Undoes
<1> QED BY <1>1, <1>2, <1>3, <1>4 DEF Proceeds

\* A step that moves one run(), and starts or ends no callback behind another's
\* back, keeps callbacks waiting.
LEMMA WaitAside ==
    ASSUME TypeOK, Wait, NEW t \in Txn, NEW end,
           pc' = [pc EXCEPT ![<<t, "run">>] = end], UNCHANGED <<timedOut, timer, kind, outer>>,
           \A u \in Txn \ {t} : body'[u] = body[u],
           body'[t] = "running" <=> end = "body",
           pc[<<t, "run">>] \notin Settled, ~Unused(t),
           pc[<<t, "run">>] = "body" => \A u \in Txn : Active(u) => outer[u] # t
    PROVE  Wait'
<1> SUFFICES ASSUME NEW u \in Txn PROVE WaitAt(u)'
    BY DEF Wait
<1>1. WaitAt(u) /\ WaitAt(t) /\ outer[u] \in Txn \cup {NoTxn}
      BY DEF Wait, TypeOK
<1>2. /\ pc'[<<u, "hand">>] = pc[<<u, "hand">>]
      /\ pc'[<<u, "run">>] = IF u = t THEN end ELSE pc[<<u, "run">>]
      /\ outer[u] \in Txn => pc'[<<outer[u], "run">>] = IF outer[u] = t THEN end
                                                       ELSE pc[<<outer[u], "run">>]
      BY DEF TypeOK, Call
<1>3. Active(u)' => Active(u)
      BY <1>2 DEF Active, Unused
<1>4. Active(u) /\ outer[u] = t => FALSE \/ pc[<<t, "run">>] = "body" \/ t = NoTxn
      BY <1>1 DEF WaitAt
<1>5. body'[u] = "running" <=> pc'[<<u, "run">>] = "body"
      BY <1>1, <1>2 DEF WaitAt
<1>6. NoTxn \notin Txn
      BY TransactionConstants DEF TransactionConstants
<1>7. Active(u)' /\ outer'[u] # NoTxn => pc'[<<outer'[u], "run">>] = "body"
      BY <1>1, <1>2, <1>3, <1>4, <1>6 DEF WaitAt
<1> QED BY <1>1, <1>2, <1>5, <1>7 DEF WaitAt

LEMMA WaitStep ==
    ASSUME Orderly, TypeOK, Untouched, Shape, Wait, Course, [Next]_vars
    PROVE  Wait'
<1> USE DEF identity, flags
<1>0. NoTxn \notin Txn
      BY TransactionConstants DEF TransactionConstants
<1>1. CASE UNCHANGED vars
      BY <1>1 DEF vars, Wait, WaitAt, Active, Unused
<1>2. ASSUME NEW t \in Txn, NEW o \in Txn \cup {NoTxn}, Unused(t), Fresh(t),
             outer' = [outer EXCEPT ![t] = o], UNCHANGED <<timedOut, timer>>,
             pc'[<<t, "run">>] = Opening(t), pc'[<<t, "hand">>] = pc[<<t, "hand">>],
             \A u \in Txn \ {t}, j \in Call :
                \/ pc'[<<u, j>>] = pc[<<u, j>>]
                \/ j = "run" /\ pc[<<u, j>>] = "retrying" /\ pc'[<<u, j>>] = "replaced",
             o # NoTxn => pc[<<o, "run">>] = "body"
      PROVE  Wait'
  <2>1. pc[<<t, "run">>] = "idle"
        BY <1>2 DEF Untouched, UntouchedAt
  <2>2. WaitAt(t)'
    <3>1. o # NoTxn => pc'[<<o, "run">>] = "body" /\ o # t
          BY <1>2, <2>1 DEF Call
    <3>2. pc[<<t, "hand">>] = "idle" /\ ~timedOut[t] /\ ~timer[t]
          BY DEF Wait, WaitAt
    <3>3. body'[t] = "running" <=> pc'[<<t, "run">>] = "body"
          BY <1>2 DEF Fresh, Opening
    <3>4. outer'[t] = o
          BY <1>2 DEF TypeOK
    <3> QED BY <1>2, <3>1, <3>2, <3>3, <3>4 DEF WaitAt
  <2>3. ASSUME NEW u \in Txn \ {t} PROVE WaitAt(u)'
    <3>1. /\ WaitAt(u) /\ outer'[u] = outer[u] /\ (outer[u] # NoTxn => outer[u] \in Txn \ {t})
          /\ kind'[u] = kind[u] /\ body'[u] = body[u]
          BY <1>2 DEF Wait, Shape, ScopedAt, Fresh, TypeOK
    <3>2. Active(u)' => Active(u)
          BY <1>2, <3>1 DEF Active, Unused, Settled, Call
    <3>3. /\ pc'[<<u, "hand">>] = pc[<<u, "hand">>]
          /\ pc'[<<u, "run">>] = "body" <=> pc[<<u, "run">>] = "body"
          /\ outer[u] # NoTxn /\ pc[<<outer[u], "run">>] = "body" => pc'[<<outer[u], "run">>] = "body"
          BY <1>2, <3>1 DEF Call
    <3> QED BY <1>2, <3>1, <3>2, <3>3 DEF WaitAt
  <2> QED BY <2>2, <2>3 DEF Wait
<1>3. ASSUME NEW t \in Txn, NEW o \in Txn \cup {NoTxn}, NEW p \in Propagations, Begin(t, o, p)
      PROVE  Wait'
  <2>1. /\ Unused(t) /\ pc' = [pc EXCEPT ![<<t, "run">>] = Opening(t)] /\ UNCHANGED <<timedOut, timer>>
        /\ outer' = [outer EXCEPT ![t] = o] /\ Fresh(t)
        BY <1>3, OpenFresh DEF Begin, Open
  <2>2. o # NoTxn => pc[<<o, "run">>] = "body"
        BY <1>3 DEF Begin, InContext, Orderly, Wait, WaitAt
  <2>3. /\ pc'[<<t, "run">>] = Opening(t) /\ pc'[<<t, "hand">>] = pc[<<t, "hand">>]
        /\ \A u \in Txn \ {t}, j \in Call : pc'[<<u, j>>] = pc[<<u, j>>]
        BY <2>1 DEF TypeOK, Call
  <2> QED BY <1>2, <2>1, <2>2, <2>3
<1>4. ASSUME NEW t \in Txn, NEW again \in Txn, Replay(t, again)
      PROVE  Wait'
  <2>1. /\ Unused(again) /\ UNCHANGED <<timedOut, timer>> /\ pc[<<t, "run">>] = "retrying"
        /\ pc' = [pc EXCEPT ![<<t, "run">>] = "replaced", ![<<again, "run">>] = Opening(again)]
        /\ outer' = [outer EXCEPT ![again] = outer[t]] /\ Fresh(again)
        BY <1>4, OpenFresh DEF Replay, Open
  <2>2. t # again /\ Active(t)
        BY <2>1 DEF Untouched, UntouchedAt, Active, Settled
  <2>3. outer[t] \in Txn \cup {NoTxn} /\ (outer[t] # NoTxn => pc[<<outer[t], "run">>] = "body")
        BY <2>2 DEF Wait, WaitAt, TypeOK
  <2>4. /\ pc'[<<again, "run">>] = Opening(again) /\ pc'[<<again, "hand">>] = pc[<<again, "hand">>]
        /\ \A u \in Txn \ {again}, j \in Call :
              \/ pc'[<<u, j>>] = pc[<<u, j>>]
              \/ j = "run" /\ pc[<<u, j>>] = "retrying" /\ pc'[<<u, j>>] = "replaced"
        BY <2>1, <2>2 DEF TypeOK, Call
  <2> QED BY <1>2, <2>1, <2>3, <2>4
<1>5. ASSUME NEW t \in Txn, Begun(t) \/ BeginFails(t) \/ Started(t) \/ AfterBeginFails(t)
      PROVE  Wait'
  <2>1. /\ pc[<<t, "run">>] \in {"beginning", "started"} /\ UNCHANGED <<timedOut, kind, outer>>
        /\ \A u \in Txn \ {t} : body'[u] = body[u]
        BY <1>5 DEF Begun, BeginFails, Started, AfterBeginFails, TypeOK
  <2>2. body[t] = "none" /\ ~Unused(t)
        BY <2>1 DEF Untouched, UntouchedAt
  <2>3. PICK end \in {"started", "body", "rejected", "retrying"} :
           /\ pc' = [pc EXCEPT ![<<t, "run">>] = end]
           /\ body'[t] = "running" <=> end = "body"
        BY <1>5, <2>2 DEF Begun, BeginFails, Started, AfterBeginFails, RunEnds, TypeOK
  <2>4. timer' = timer
    <3>1. timer \in [Txn -> BOOLEAN] /\ ~timer[t]
          BY DEF Wait, WaitAt, TypeOK
    <3>2. timer[t] = FALSE
      <4>1. timer[t] \in BOOLEAN
            BY <3>1
      <4> QED BY <3>1, <4>1, Zenon
    <3>3. Timeouts = FALSE
      <4>1. Timeouts \in BOOLEAN /\ ~Timeouts
            BY TransactionConstants DEF TransactionConstants, Orderly
      <4> QED BY <4>1, Zenon
    <3>4. [timer EXCEPT ![t] = FALSE] = timer
          BY <3>1, <3>2
    <3> QED BY <1>5, <3>3, <3>4 DEF Begun, BeginFails, Started, AfterBeginFails
  <2> QED BY <2>1, <2>2, <2>3, <2>4, WaitAside DEF Settled
<1>6. ASSUME NEW t \in Txn, Timeout(t)
      PROVE  Wait'
      BY <1>6 DEF Timeout, Wait, WaitAt
<1>7. ASSUME NEW t \in Txn, NEW k \in Call, Continues(t, k)
      PROVE  Wait'
  <2>1. Proceeds(t)
        BY <1>7, OrderlyProceeds
  <2>2. CASE pc' = pc /\ body' = body
        BY <2>1, <2>2 DEF Proceeds, Wait, WaitAt, Active, Unused
  <2>3. CASE ~(pc' = pc /\ body' = body)
    <3>1. /\ \E end \in Later \ {"body"} : pc' = [pc EXCEPT ![<<t, "run">>] = end]
          /\ pc[<<t, "run">>] \in Later \ Settled
          /\ IF pc[<<t, "run">>] = "body" THEN ~Busy(t) /\ body' = [body EXCEPT ![t] = "done"]
             ELSE body' = body
          BY <2>1, <2>3, ProceedsMoves
    <3>2. PICK end \in Later \ {"body"} : pc' = [pc EXCEPT ![<<t, "run">>] = end]
          BY <3>1
    <3>3. body'[t] # "running" /\ \A u \in Txn \ {t} : body'[u] = body[u]
      <4>1. body \in [Txn -> {"none", "running", "done"}] /\ WaitAt(t)
            BY DEF TypeOK, Wait
      <4> QED BY <3>1, <4>1 DEF WaitAt
    <3>4. pc[<<t, "run">>] = "body" => \A u \in Txn : Active(u) => outer[u] # t
          BY <3>1 DEF Busy, Orderly, Active, Unused
    <3>5. ~Unused(t)
          BY <3>1 DEF Later, Untouched, UntouchedAt
    <3> QED BY <2>1, <3>1, <3>2, <3>3, <3>4, <3>5, WaitAside DEF Proceeds
  <2> QED BY <2>2, <2>3
<1> QED BY <1>1, <1>3, <1>4, <1>5, <1>6, <1>7, NextContinues

\* A handle that another marks rollback-only still waits in its callback.
LEMMA MarksWaiting ==
    ASSUME TypeOK, Untouched, Shape, Wait, NEW t \in Txn, Proceeds(t), NEW u \in Txn \ {t}
    PROVE  \/ rollbackOnly'[u] = rollbackOnly[u]
           \/ pc[<<u, "run">>] = "body" /\ kind[t] = "participant" /\ u = up[t] /\ rollbackOnly'[u]
<1>1. rollbackOnly \in [Txn -> BOOLEAN]
      BY DEF TypeOK
<1>2. ASSUME kind[t] = "participant", pc[<<t, "run">>] = "body"
      PROVE  up[t] \in Txn /\ pc[<<up[t], "run">>] = "body"
  <2>1. up[t] \in Txn \ {t} /\ Around(up[t], t)
        BY <1>2 DEF Shape, ScopedAt, Joins
  <2>2. Active(t)
        BY <1>2 DEF Active, Unused, Settled
  <2> QED BY <2>1, <2>2, AncestorsWait
<1>3. CASE WorksIn(t)
      BY <1>1, <1>2, <1>3 DEF WorksIn, Register, MarkRollbackOnly, Real, flags
<1>4. CASE Leaves(t)
      BY <1>1, <1>2, <1>4 DEF Leaves, Goes
<1>5. CASE Completes(t) \/ Undoes(t)
      BY <1>5 DEF Completes, Undoes
<1> QED BY <1>3, <1>4, <1>5 DEF Proceeds

\* What a step does to the object and the adapter it does to its own handle.
LEMMA ProceedsAside ==
    ASSUME TypeOK, NEW t \in Txn, Proceeds(t), NEW u \in Txn \ {t}
    PROVE  /\ state'[u] = state[u] /\ db'[u] = db[u] /\ pc'[<<u, "run">>] = pc[<<u, "run">>]
<1>0. /\ state \in [Txn -> State] /\ db \in [Txn -> {"none", "open", "kept", "undone"}]
      /\ pc \in [Txn \X Call -> Stage]
      BY DEF TypeOK
<1>1. ASSUME NEW from, NEW to, Goes(t, from, to) PROVE pc'[<<u, "run">>] = pc[<<u, "run">>]
      BY <1>0, <1>1 DEF Goes, Call
<1>2. CASE WorksIn(t)
      BY <1>2 DEF WorksIn, Register, MarkRollbackOnly
<1>3. CASE Leaves(t)
      BY <1>0, <1>1, <1>3 DEF Leaves, ObjectCommits
<1>4. CASE Completes(t)
  <2>1. pc'[<<u, "run">>] = pc[<<u, "run">>]
        BY <1>1, <1>4 DEF Completes
  <2>2. state'[u] = state[u]
        BY <1>0, <1>4 DEF Completes, ObjectCommits
  <2>3. db'[u] = db[u]
        BY <1>0, <1>4 DEF Completes
  <2> QED BY <2>1, <2>2, <2>3
<1>5. CASE Undoes(t)
      BY <1>0, <1>1, <1>5 DEF Undoes, ObjectRollsBack
<1> QED BY <1>2, <1>3, <1>4, <1>5 DEF Proceeds

LEMMA ProceedsCourse ==
    ASSUME TypeOK, Untouched, Shape, Wait, Course, NEW t \in Txn, Proceeds(t)
    PROVE  CourseAt(t)'
<1> USE DEF Goes, Committing, Underway, Settled, Failed
<1>1. /\ CourseAt(t) /\ kind' = kind /\ (Owned(t)' <=> Owned(t))
      /\ Owned(t) => kind[t] # "participant"
      /\ pc[<<t, "run">>] # "idle" => ~Unused(t)
      BY DEF Course, Proceeds, identity, Owned, Untouched, UntouchedAt
<1>2. /\ state \in [Txn -> State] /\ rollbackOnly \in [Txn -> BOOLEAN]
      /\ db \in [Txn -> {"none", "open", "kept", "undone"}] /\ pc \in [Txn \X Call -> Stage]
      BY DEF TypeOK
<1>3. ASSUME NEW end, pc' = [pc EXCEPT ![<<t, "run">>] = end] PROVE pc'[<<t, "run">>] = end
      BY <1>2, <1>3 DEF Call
<1>4. CASE WorksIn(t)
  <2>1. /\ pc' = pc /\ pc[<<t, "run">>] = "body" /\ state' = state /\ db' = db
        BY <1>4 DEF WorksIn, Register, MarkRollbackOnly
  <2> QED BY <1>1, <2>1 DEF CourseAt
<1>5. CASE Leaves(t)
  <2>1. /\ db' = db /\ pc[<<t, "run">>] = "body"
        BY <1>5 DEF Leaves
  <2>2. CASE kind[t] = "participant"
        BY <1>1, <1>2, <1>3, <1>5, <2>1, <2>2 DEF Leaves, CourseAt, Owned
  <2>3. CASE kind[t] = "none"
        BY <1>1, <1>2, <1>3, <1>5, <2>1, <2>3 DEF Leaves, CourseAt, Owned
  <2>4. CASE Owned(t)
        BY <1>1, <1>2, <1>3, <1>5, <2>1, <2>4 DEF Leaves, CourseAt, Owned
  <2>5. ~Unused(t)
        BY <1>1, <2>1
  <2> QED BY <2>2, <2>3, <2>4, <2>5 DEF Owned, TypeOK, Kind, Unused
<1>6. CASE Completes(t)
  <2>1. CASE Goes(t, {"beforeCommit"}, {"adapterCommit"}) /\ Owned(t) /\ UNCHANGED <<state, db, rollbackOnly>>
        BY <1>1, <1>3, <2>1 DEF CourseAt
  <2>2. CASE Goes(t, {"beforeCommit", "refused"}, {"beforeRollback"}) /\ Owned(t) /\ UNCHANGED <<state, db, rollbackOnly>>
        BY <1>1, <1>3, <2>2 DEF CourseAt
  <2>3. CASE /\ Owned(t) /\ Completable(t) /\ ObjectCommits(t) /\ UNCHANGED rollbackOnly
             /\ Goes(t, {"adapterCommit"}, {IF kind[t] = "savepoint" THEN "resolved" ELSE "afterCommit"})
             /\ db' = [db EXCEPT ![t] = "kept"]
    <3>1. state'[t] = "committed" /\ db'[t] = "kept"
          BY <1>2, <2>3 DEF ObjectCommits
    <3> QED BY <1>1, <1>3, <2>3, <3>1 DEF CourseAt, Owned
  <2>4. CASE /\ Owned(t) /\ Goes(t, {"adapterCommit"}, Failed) /\ UNCHANGED rollbackOnly
             /\ state' = [state EXCEPT ![t] = "failed"]
             /\ db' = IF kind[t] = "root" THEN [db EXCEPT ![t] = "undone"] ELSE db
    <3>1. state'[t] = "failed" /\ db'[t] # "kept"
          BY <1>1, <1>2, <2>4 DEF CourseAt
    <3> QED BY <1>1, <1>3, <2>4, <3>1 DEF CourseAt, Owned
  <2>5. CASE /\ kind[t] \in {"root", "none"} /\ UNCHANGED <<state, db, rollbackOnly>>
             /\ Goes(t, {"afterCommit"}, {"resolved"}) \/ Goes(t, {"afterCommit"}, Failed)
        BY <1>1, <1>3, <2>5 DEF CourseAt, Owned
  <2> QED BY <1>6, <2>1, <2>2, <2>3, <2>4, <2>5 DEF Completes
<1>7. CASE Undoes(t)
  <2>0. (Owned(t) \/ kind[t] = "none") /\ kind[t] # "participant"
        BY <1>1, <1>7 DEF Undoes, Owned, TypeOK, Kind, Unused
  <2>1. CASE /\ \/ Goes(t, {"beforeRollback", "refused"}, {"adapterRollback"})
                \/ Goes(t, {"beforeRollback"}, Failed)
                \/ Goes(t, {"afterRollback"}, Failed) \/ Goes(t, {"retrying"}, {"rejected"})
             /\ UNCHANGED <<state, db, rollbackOnly>>
        BY <1>1, <1>3, <2>0, <2>1 DEF CourseAt, Owned
  <2>2. CASE /\ Goes(t, {"adapterRollback"}, {"afterRollback"}) /\ ObjectRollsBack(t)
             /\ db' = (IF Owned(t) THEN [db EXCEPT ![t] = "undone"] ELSE db) /\ UNCHANGED rollbackOnly
    <3>1. state'[t] = "rolled_back" /\ (Owned(t) => db'[t] = "undone") /\ (~Owned(t) => db'[t] = db[t])
          BY <1>2, <2>2 DEF ObjectRollsBack
    <3> QED BY <1>1, <1>3, <2>0, <2>2, <3>1 DEF CourseAt, Owned
  <2>3. CASE /\ Owned(t) /\ Goes(t, {"adapterRollback"}, Failed) /\ UNCHANGED rollbackOnly
             /\ state' = [state EXCEPT ![t] = "failed"]
             /\ UNCHANGED db \/ db' = [db EXCEPT ![t] = "undone"]
    <3>1. state'[t] = "failed" /\ db'[t] # "kept"
          BY <1>1, <1>2, <2>3 DEF CourseAt
    <3> QED BY <1>1, <1>3, <2>0, <2>3, <3>1 DEF CourseAt, Owned
  <2> QED BY <1>7, <2>1, <2>2, <2>3 DEF Undoes
<1> QED BY <1>4, <1>5, <1>6, <1>7 DEF Proceeds

LEMMA CourseStep ==
    ASSUME Orderly, TypeOK, Untouched, Shape, Wait, Course, [Next]_vars
    PROVE  Course'
<1> USE DEF identity, flags, Committing, Underway, Settled
<1>1. CASE UNCHANGED vars
      BY <1>1 DEF vars, Course, CourseAt, Owned
<1>2. ASSUME NEW u \in Txn, CourseAt(u),
             kind'[u] = kind[u] /\ state'[u] = state[u] /\ db'[u] = db[u],
             \/ pc'[<<u, "run">>] = pc[<<u, "run">>]
             \/ pc[<<u, "run">>] = "retrying" /\ pc'[<<u, "run">>] = "replaced",
             rollbackOnly'[u] = rollbackOnly[u] \/ pc[<<u, "run">>] = "body"
      PROVE  CourseAt(u)'
      BY <1>2 DEF CourseAt, Owned
<1>3. ASSUME NEW t \in Txn, Unused(t), Fresh(t), UNCHANGED <<db, rollbackOnly>>,
             pc'[<<t, "run">>] = Opening(t),
             \A u \in Txn \ {t} :
                \/ pc'[<<u, "run">>] = pc[<<u, "run">>]
                \/ pc[<<u, "run">>] = "retrying" /\ pc'[<<u, "run">>] = "replaced"
      PROVE  Course'
  <2>1. db[t] = "none"
        BY <1>3 DEF Untouched, UntouchedAt
  <2>2. CourseAt(t)'
        BY <1>3, <2>1 DEF Fresh, Opening, Kind, CourseAt, Owned
  <2>3. \A u \in Txn \ {t} : CourseAt(u)'
        BY <1>2, <1>3 DEF Fresh, Course
  <2> QED BY <2>2, <2>3 DEF Course
<1>4. ASSUME NEW t \in Txn, NEW o \in Txn \cup {NoTxn}, NEW p \in Propagations, Begin(t, o, p)
      PROVE  Course'
  <2>1. /\ Unused(t) /\ pc' = [pc EXCEPT ![<<t, "run">>] = Opening(t)] /\ Fresh(t)
        /\ UNCHANGED <<db, rollbackOnly>>
        BY <1>4, OpenFresh DEF Begin
  <2>2. /\ pc'[<<t, "run">>] = Opening(t)
        /\ \A u \in Txn \ {t} : pc'[<<u, "run">>] = pc[<<u, "run">>]
        BY <2>1 DEF TypeOK, Call
  <2> QED BY <1>3, <2>1, <2>2
<1>5. ASSUME NEW t \in Txn, NEW again \in Txn, Replay(t, again)
      PROVE  Course'
  <2>1. /\ Unused(again) /\ pc[<<t, "run">>] = "retrying" /\ UNCHANGED <<db, rollbackOnly>>
        /\ pc' = [pc EXCEPT ![<<t, "run">>] = "replaced", ![<<again, "run">>] = Opening(again)]
        /\ Fresh(again)
        BY <1>5, OpenFresh DEF Replay
  <2>2. /\ pc'[<<again, "run">>] = Opening(again)
        /\ \A u \in Txn \ {again} :
              \/ pc'[<<u, "run">>] = pc[<<u, "run">>]
              \/ pc[<<u, "run">>] = "retrying" /\ pc'[<<u, "run">>] = "replaced"
        BY <2>1 DEF TypeOK, Call
  <2> QED BY <1>3, <2>1, <2>2
<1>6. ASSUME NEW t \in Txn, Begun(t) \/ BeginFails(t) \/ Started(t) \/ AfterBeginFails(t)
      PROVE  Course'
  <2>1. /\ pc[<<t, "run">>] \in {"beginning", "started"} /\ UNCHANGED <<kind, rollbackOnly>>
        /\ \A u \in Txn \ {t} : state'[u] = state[u] /\ db'[u] = db[u]
        BY <1>6 DEF Begun, BeginFails, Started, AfterBeginFails, TypeOK
  <2>2. PICK end \in {"started", "body", "rejected", "retrying"} :
           pc' = [pc EXCEPT ![<<t, "run">>] = end]
        BY <1>6 DEF Begun, BeginFails, Started, AfterBeginFails, RunEnds
  <2>3. /\ pc'[<<t, "run">>] = end /\ \A u \in Txn \ {t} : pc'[<<u, "run">>] = pc[<<u, "run">>]
        BY <2>2 DEF TypeOK, Call
  <2>4. CourseAt(t)'
    <3>1. CourseAt(t) /\ Owned(t) /\ Owned(t)'
          BY <2>1 DEF Course, CourseAt, Owned
    <3>2. pc[<<t, "run">>] = "beginning" => state[t] = "pending" /\ db[t] = "none"
          BY DEF Untouched, UntouchedAt
    <3>3. CASE Begun(t)
      <4>1. state'[t] = "active" /\ db'[t] = "open" /\ pc'[<<t, "run">>] = "started"
            BY <3>3 DEF Begun, TypeOK, Call
      <4> QED BY <2>1, <3>1, <4>1 DEF CourseAt, Owned
    <3>4. CASE BeginFails(t)
      <4>1. state'[t] \in {"pending", "failed"} /\ db'[t] = "none" /\ end \in {"rejected", "retrying"}
        <5>1. pc'[<<t, "run">>] \in {"rejected", "retrying"}
              BY <3>4 DEF BeginFails, RunEnds, TypeOK, Call
        <5> QED BY <3>2, <3>4, <5>1, <2>3 DEF BeginFails, TypeOK
      <4> QED BY <2>1, <2>3, <3>1, <4>1 DEF CourseAt, Owned
    <3>5. CASE Started(t) \/ AfterBeginFails(t)
      <4>1. state' = state /\ db' = db /\ pc[<<t, "run">>] = "started"
            BY <3>5 DEF Started, AfterBeginFails
      <4>2. end # "started"
        <5>1. pc'[<<t, "run">>] \in {"body", "rejected", "retrying"}
          <6>1. \E e \in {"body", "rejected", "retrying"} : pc' = [pc EXCEPT ![<<t, "run">>] = e]
                BY <3>5 DEF Started, AfterBeginFails, RunEnds
          <6> QED BY <6>1 DEF TypeOK, Call
        <5> QED BY <5>1, <2>3
      <4> QED BY <2>1, <2>3, <3>1, <4>1, <4>2 DEF CourseAt, Owned
    <3> QED BY <1>6, <3>3, <3>4, <3>5
  <2>5. \A u \in Txn \ {t} : CourseAt(u)'
        BY <1>2, <2>1, <2>3 DEF Course
  <2> QED BY <2>4, <2>5 DEF Course
<1>7. ASSUME NEW t \in Txn, Timeout(t)
      PROVE  Course'
      BY <1>7 DEF Timeout, Wait, WaitAt
<1>8. ASSUME NEW t \in Txn, NEW k \in Call, Continues(t, k)
      PROVE  Course'
  <2>1. Proceeds(t)
        BY <1>8, OrderlyProceeds
  <2>2. CourseAt(t)'
        BY <2>1, ProceedsCourse
  <2>3. ASSUME NEW u \in Txn \ {t} PROVE CourseAt(u)'
    <3>1. kind'[u] = kind[u] /\ CourseAt(u)
          BY <2>1 DEF Proceeds, Course
    <3>2. state'[u] = state[u] /\ db'[u] = db[u] /\ pc'[<<u, "run">>] = pc[<<u, "run">>]
          BY <2>1, ProceedsAside
    <3>3. rollbackOnly'[u] = rollbackOnly[u] \/ pc[<<u, "run">>] = "body"
          BY <2>1, MarksWaiting
    <3> QED BY <1>2, <3>1, <3>2, <3>3
  <2> QED BY <2>2, <2>3 DEF Course
<1> QED BY <1>1, <1>4, <1>5, <1>6, <1>7, <1>8, NextContinues

\* Callbacks wait and handles keep their course.
LEMMA KeepsCourse ==
    ASSUME Orderly
    PROVE  Spec => [](Wait /\ Course)
<1>1. Init => Wait /\ Course
      BY DEF Init, Wait, WaitAt, Course, CourseAt, Active, Unused, Owned, Call, Underway, Committing
<1>2. TypeOK /\ Untouched /\ Shape /\ Wait /\ Course /\ [Next]_vars => Wait' /\ Course'
      BY WaitStep, CourseStep
<1> QED BY <1>1, <1>2, Nested, TypesAreKept, PTL DEF Spec

\* "once adapter.commit() has returned there is nothing left to decide": a handle
\* is committed exactly when the adapter kept its work, rolled back only when the
\* adapter undid it, and nothing marked rollback-only is ever kept.
THEOREM OutcomesFollow ==
    ASSUME Orderly
    PROVE  Spec => []OutcomeFollowsAdapter
<1>1. Course => OutcomeFollowsAdapter
      BY DEF Course, CourseAt, OutcomeFollowsAdapter, StateMatchesAdapter
<1> QED BY <1>1, KeepsCourse, PTL

-----------------------------------------------------------------------------
(* An adapter that undoes what it is asked to undo *)

\* No savepoint is refused its release or its rollback, and no rollback by a hook.
Undoable == /\ ~Rejects("beforeRollback")
            /\ "releaseSavepoint" \notin FailingAdapter /\ "rollbackToSavepoint" \notin FailingAdapter

\* Nor does a hook fail a begin that the adapter has carried out.
Tidy == Undoable /\ ~Rejects("afterBegin")

\* No hook fails a run() whose transaction has committed.
CommitsAreFinal == ~Rejects("afterCommit") /\ ~Rejects("onError")

\* A run() that ended left nothing open behind, unless the adapter would not roll
\* a connection back; what failed was not kept, unless a hook failed it after the
\* commit; what a replay repeats had failed; and a transaction somebody joined and
\* failed is marked.
TidyAt(t) ==
    LET now == pc[<<t, "run">>]
    IN  /\ now \in {"retrying"} \cup Settled /\ db[t] = "open" =>
              kind[t] = "root" /\ "rollback" \in FailingAdapter
        /\ now \in {"retrying", "replaced", "rejected"} => db[t] # "kept" \/ ~CommitsAreFinal
        /\ kind[t] = "participant" /\ now = "rejected" => rollbackOnly[up[t]]
        /\ replays[t] # NoTxn => pc[<<replays[t], "run">>] = "replaced"

LeavesTidy == \A t \in Txn : TidyAt(t)

\* While a callback waits the connection under it is open.
LEMMA UnderwayCompletable ==
    ASSUME TypeOK, Untouched, Shape, Wait, Course, NEW t \in Txn, Owned(t),
           pc[<<t, "run">>] \in Underway
    PROVE  Completable(t)
<1>1. Active(t) /\ db[t] = "open"
      BY DEF Active, Owned, Unused, Course, CourseAt, Underway, Committing, Settled
<1>2. ASSUME NEW a \in signal[t], kind[a] = "root", a # t PROVE db[a] = "open"
  <2>1. a \in Txn /\ Around(a, t) /\ Owned(a)
        BY <1>2 DEF Shape, SignalledAt, TypeOK
  <2>2. pc[<<a, "run">>] = "body"
        BY <1>1, <1>2, <2>1, AncestorsWait
  <2> QED BY <2>1, <2>2 DEF Course, CourseAt, Underway
<1> QED BY <1>1, <1>2 DEF Completable, ConnectionOpen

\* A mark is never taken back.
LEMMA MarksStay ==
    ASSUME TypeOK, NEW t \in Txn, Proceeds(t), NEW u \in Txn, rollbackOnly[u]
    PROVE  rollbackOnly'[u]
<1>1. rollbackOnly \in [Txn -> BOOLEAN]
      BY DEF TypeOK
<1>2. CASE WorksIn(t)
      BY <1>1, <1>2 DEF WorksIn, Register, MarkRollbackOnly, flags
<1>3. CASE Leaves(t)
      BY <1>1, <1>3 DEF Leaves
<1>4. CASE Completes(t) \/ Undoes(t)
      BY <1>4 DEF Completes, Undoes
<1> QED BY <1>2, <1>3, <1>4 DEF Proceeds

\* How the work of a handle that has begun ends: it was open, and is kept or
\* undone over an open connection, or undone with its connection.
LEMMA ProceedsEndsWork ==
    ASSUME TypeOK, Untouched, Shape, Wait, Course, NEW t \in Txn, Proceeds(t)
    PROVE  \/ db' = db
           \/ /\ Owned(t) /\ db[t] = "open" /\ pc[<<t, "run">>] \in Underway
              /\ db'[t] \in {"kept", "undone"} /\ \A u \in Txn \ {t} : db'[u] = db[u]
              /\ Completable(t)
              /\ pc'[<<t, "run">>] = "resolved" => db'[t] = "kept"
<1>1. db \in [Txn -> {"none", "open", "kept", "undone"}] /\ CourseAt(t) /\ pc \in [Txn \X Call -> Stage]
      BY DEF TypeOK, Course
<1>2. CASE WorksIn(t) \/ Leaves(t)
      BY <1>2 DEF WorksIn, Register, MarkRollbackOnly, Leaves
<1>3. CASE Owned(t) /\ pc[<<t, "run">>] \in Underway /\ db' = [db EXCEPT ![t] = "kept"]
      BY <1>1, <1>3, UnderwayCompletable DEF CourseAt
<1>4. CASE /\ Owned(t) /\ pc[<<t, "run">>] \in Underway /\ db' = [db EXCEPT ![t] = "undone"]
           /\ Goes(t, Stage, Failed \cup {"afterRollback"})
  <2>1. pc'[<<t, "run">>] # "resolved"
        BY <1>1, <1>4 DEF Goes, Failed, Call
  <2> QED BY <1>1, <1>4, <2>1, UnderwayCompletable DEF CourseAt
<1>5. CASE Completes(t)
      BY <1>3, <1>4, <1>5 DEF Completes, Goes, Underway, Committing, Stage
<1>6. CASE Undoes(t)
      BY <1>3, <1>4, <1>6 DEF Undoes, Goes, Underway, Committing, Stage
<1> QED BY <1>2, <1>5, <1>6 DEF Proceeds

LEMMA ProceedsTidy ==
    ASSUME Tidy, TypeOK, Untouched, Shape, Wait, Course, LeavesTidy, NEW t \in Txn, Proceeds(t)
    PROVE  TidyAt(t)'
<1> USE DEF Goes, Committing, Underway, Settled, Failed
<1>1. /\ CourseAt(t) /\ TidyAt(t) /\ kind' = kind /\ (Owned(t)' <=> Owned(t))
      /\ Owned(t) => kind[t] \in {"root", "savepoint"}
      BY DEF Course, LeavesTidy, Proceeds, identity, Owned
<1>2. /\ rollbackOnly \in [Txn -> BOOLEAN] /\ pc \in [Txn \X Call -> Stage]
      /\ db \in [Txn -> {"none", "open", "kept", "undone"}]
      BY DEF TypeOK
<1>3. ASSUME NEW end, pc' = [pc EXCEPT ![<<t, "run">>] = end] PROVE pc'[<<t, "run">>] = end
      BY <1>2, <1>3 DEF Call
<1>4. CourseAt(t)'
      BY ProceedsCourse
<1>5. replays'[t] # NoTxn => pc'[<<replays'[t], "run">>] = "replaced"
  <2>1. pc[<<t, "run">>] # "replaced"
        BY ProceedsMoves DEF Later
  <2>2. pc' = pc \/ \E end : pc' = [pc EXCEPT ![<<t, "run">>] = end]
        BY ProceedsMoves
  <2>3. replays' = replays /\ (replays[t] # NoTxn => replays[t] \in Txn)
        BY DEF Proceeds, identity, TypeOK
  <2> QED BY <1>1, <1>2, <2>1, <2>2, <2>3 DEF TidyAt, Call
<1>6. kind'[t] = "participant" /\ pc'[<<t, "run">>] = "rejected" => rollbackOnly'[up'[t]]
  <2>1. CASE kind[t] = "participant"
    <3>1. up[t] \in Txn /\ up' = up /\ (pc[<<t, "run">>] = "rejected" => rollbackOnly[up[t]])
          BY <1>1, <2>1 DEF Shape, ScopedAt, Joins, Proceeds, identity, TidyAt
    <3>2. pc[<<t, "run">>] \notin Settled \/ FALSE
          BY ProceedsMoves DEF Later
    <3>3. CASE WorksIn(t)
          BY <1>1, <3>2, <3>3 DEF WorksIn, Register, MarkRollbackOnly
    <3>4. CASE Leaves(t)
          BY <1>2, <1>3, <2>1, <3>1, <3>4 DEF Leaves, Owned
    <3> QED BY <2>1, <3>3, <3>4 DEF Proceeds, Completes, Undoes, Owned
  <2> QED BY <1>1, <2>1
<1>7. pc'[<<t, "run">>] \in {"retrying"} \cup Settled =>
         /\ db'[t] = "open" => kind[t] = "root" /\ "rollback" \in FailingAdapter
         /\ pc'[<<t, "run">>] \in {"retrying", "replaced", "rejected"} =>
               db'[t] # "kept" \/ ~CommitsAreFinal
  <2>1. CASE WorksIn(t)
        BY <2>1 DEF WorksIn, Register, MarkRollbackOnly
  <2>2. CASE Leaves(t)
    <3>1. kind[t] = "participant" => db'[t] = "none"
          BY <1>1, <2>2 DEF Leaves, CourseAt, Owned
    <3>2. kind[t] # "participant" => pc'[<<t, "run">>] \notin {"retrying"} \cup Settled
          BY <1>3, <2>2 DEF Leaves
    <3> QED BY <3>1, <3>2
  <2>3. CASE Completes(t)
    <3>1. CASE Owned(t) /\ Goes(t, {"beforeCommit", "refused"}, {"adapterCommit", "beforeRollback"})
          BY <1>3, <3>1
    <3>2. CASE db' = [db EXCEPT ![t] = "kept"]
               /\ Goes(t, {"adapterCommit"}, {IF kind[t] = "savepoint" THEN "resolved" ELSE "afterCommit"})
      <4>1. db'[t] = "kept" /\ pc'[<<t, "run">>] \in {"resolved", "afterCommit"}
            BY <1>2, <1>3, <3>2
      <4> QED BY <4>1
    <3>3. CASE /\ Owned(t) /\ Goes(t, {"adapterCommit"}, Failed)
               /\ CommitOp(t) \in FailingAdapter \/ ~Completable(t)
               /\ db' = IF kind[t] = "root" THEN [db EXCEPT ![t] = "undone"] ELSE db
      <4>1. Completable(t)
            BY <3>3, UnderwayCompletable
      <4>2. kind[t] = "root"
            BY <1>1, <3>3, <4>1 DEF CommitOp, Tidy, Undoable
      <4> QED BY <1>2, <3>3, <4>2
    <3>4. CASE /\ kind[t] \in {"root", "none"} /\ db' = db
               /\ \/ Goes(t, {"afterCommit"}, {"resolved"})
                  \/ ~CommitsAreFinal /\ Goes(t, {"afterCommit"}, Failed)
      <4>1. db[t] # "open"
            BY <1>1, <3>4 DEF CourseAt, Owned
      <4> QED BY <1>3, <3>4, <4>1
    <3> QED BY <2>3, <3>1, <3>2, <3>3, <3>4 DEF Completes, CommitsAreFinal
  <2>4. CASE Undoes(t)
    <3>0. Owned(t) \/ db[t] = "none"
          BY <1>1 DEF CourseAt
    <3>1. CASE db' = db /\ Goes(t, {"beforeRollback", "refused"}, {"adapterRollback"})
          BY <1>3, <3>1
    <3>2. CASE Rejects("beforeRollback")
          BY <3>2 DEF Tidy, Undoable
    <3>3. CASE db' = db /\ Goes(t, {"afterRollback"}, Failed)
      <4>1. db[t] \in {"none", "undone"}
            BY <1>1, <3>0, <3>3 DEF CourseAt
      <4> QED BY <3>3, <4>1
    <3>4. CASE db' = db /\ Goes(t, {"retrying"}, {"rejected"})
          BY <1>1, <3>4 DEF TidyAt
    <3>5. CASE Goes(t, {"adapterRollback"}, {"afterRollback"})
          BY <1>3, <3>5
    <3>6. CASE /\ db' = db /\ Owned(t) /\ Goes(t, {"adapterRollback"}, Failed)
               /\ RollbackOp(t) \in FailingAdapter \/ ~Completable(t)
      <4>1. Completable(t)
            BY <3>6, UnderwayCompletable
      <4>2. kind[t] = "root" /\ "rollback" \in FailingAdapter /\ db[t] = "open"
            BY <1>1, <3>6, <4>1 DEF RollbackOp, Tidy, Undoable, CourseAt
      <4> QED BY <3>6, <4>2
    <3>7. CASE "releaseSavepoint" \in FailingAdapter
          BY <3>7 DEF Tidy, Undoable
    <3> QED BY <2>4, <3>1, <3>2, <3>3, <3>4, <3>5, <3>6, <3>7 DEF Undoes
  <2> QED BY <2>1, <2>2, <2>3, <2>4 DEF Proceeds
<1> QED BY <1>1, <1>5, <1>6, <1>7 DEF TidyAt

\* What opening a handle settles about the rest.
LEMMA OpenReplays ==
    ASSUME TypeOK, NEW t \in Txn, NEW o, NEW p, NEW failed, Open(t, o, p, failed)
    PROVE  /\ replays'[t] = failed
           /\ \A u \in Txn \ {t} : replays'[u] = replays[u] /\ up'[u] = up[u] /\ kind'[u] = kind[u]
<1>1. replays' = [replays EXCEPT ![t] = failed]
      BY DEF Open
<1>2. \A u \in Txn \ {t} : up'[u] = up[u] /\ kind'[u] = kind[u]
  <2>1. (\E x : up' = [up EXCEPT ![t] = x]) /\ (\E x : kind' = [kind EXCEPT ![t] = x])
        BY DEF Open
  <2> QED BY <2>1 DEF TypeOK
<1> QED BY <1>1, <1>2 DEF TypeOK

LEMMA TidyStep ==
    ASSUME Orderly, Tidy, TypeOK, Untouched, Shape, Wait, Course, LeavesTidy, [Next]_vars
    PROVE  LeavesTidy'
<1> USE DEF identity, flags, Settled
<1>0. NoTxn \notin Txn
      BY TransactionConstants DEF TransactionConstants
<1>1. CASE UNCHANGED vars
      BY <1>1 DEF vars, LeavesTidy, TidyAt
<1>2. ASSUME NEW t \in Txn, NEW failed \in Txn \cup {NoTxn}, Unused(t), Fresh(t),
             UNCHANGED <<db, rollbackOnly>>,
             replays'[t] = failed,
             \A u \in Txn \ {t} : replays'[u] = replays[u] /\ up'[u] = up[u] /\ kind'[u] = kind[u],
             pc'[<<t, "run">>] = Opening(t),
             \A u \in Txn \ {t} :
                \/ u = failed /\ pc[<<u, "run">>] = "retrying" /\ pc'[<<u, "run">>] = "replaced"
                \/ u # failed /\ pc'[<<u, "run">>] = pc[<<u, "run">>],
             failed # t
      PROVE  LeavesTidy'
  <2>1. pc[<<t, "run">>] = "idle"
        BY <1>2 DEF Untouched, UntouchedAt
  <2>2. TidyAt(t)'
        BY <1>2 DEF Fresh, Opening, TidyAt
  <2>3. ASSUME NEW u \in Txn \ {t} PROVE TidyAt(u)'
    <3>1. TidyAt(u) /\ (replays[u] # NoTxn => replays[u] \in Txn)
          BY DEF LeavesTidy, TypeOK
    <3>2. replays[u] # NoTxn => pc'[<<replays[u], "run">>] = "replaced"
          BY <1>2, <2>1, <3>1 DEF TidyAt
    <3>3. u = failed => kind[u] # "participant"
          BY <1>2 DEF Course, CourseAt
    <3>4. kind[u] = "participant" => up[u] \in Txn
          BY DEF Shape, ScopedAt, Joins
    <3> QED BY <1>2, <3>1, <3>2, <3>3, <3>4 DEF TidyAt
  <2> QED BY <2>2, <2>3 DEF LeavesTidy
<1>3. ASSUME NEW t \in Txn, NEW o \in Txn \cup {NoTxn}, NEW p \in Propagations, Begin(t, o, p)
      PROVE  LeavesTidy'
  <2>1. /\ Unused(t) /\ pc' = [pc EXCEPT ![<<t, "run">>] = Opening(t)] /\ Fresh(t)
        /\ UNCHANGED <<db, rollbackOnly>> /\ replays'[t] = NoTxn
        /\ \A u \in Txn \ {t} : replays'[u] = replays[u] /\ up'[u] = up[u] /\ kind'[u] = kind[u]
        BY <1>3, OpenFresh, OpenReplays DEF Begin
  <2>2. /\ pc'[<<t, "run">>] = Opening(t)
        /\ \A u \in Txn \ {t} : pc'[<<u, "run">>] = pc[<<u, "run">>]
        BY <2>1 DEF TypeOK, Call
  <2> QED BY <1>0, <1>2, <2>1, <2>2
<1>4. ASSUME NEW t \in Txn, NEW again \in Txn, Replay(t, again)
      PROVE  LeavesTidy'
  <2>1. /\ Unused(again) /\ pc[<<t, "run">>] = "retrying" /\ UNCHANGED <<db, rollbackOnly>>
        /\ pc' = [pc EXCEPT ![<<t, "run">>] = "replaced", ![<<again, "run">>] = Opening(again)]
        /\ Fresh(again) /\ replays'[again] = t
        /\ \A u \in Txn \ {again} : replays'[u] = replays[u] /\ up'[u] = up[u] /\ kind'[u] = kind[u]
        BY <1>4, OpenFresh, OpenReplays DEF Replay
  <2>2. t # again /\ t \in Txn \cup {NoTxn}
        BY <2>1 DEF Untouched, UntouchedAt
  <2>3. /\ pc'[<<again, "run">>] = Opening(again)
        /\ \A u \in Txn \ {again} :
              \/ u = t /\ pc[<<u, "run">>] = "retrying" /\ pc'[<<u, "run">>] = "replaced"
              \/ u # t /\ pc'[<<u, "run">>] = pc[<<u, "run">>]
        BY <2>1, <2>2 DEF TypeOK, Call
  <2> HIDE DEF flags, identity, Settled
  <2> QED BY <1>2, <2>1, <2>2, <2>3
<1>5. ASSUME NEW t \in Txn, UNCHANGED <<identity, rollbackOnly>>,
             pc[<<t, "run">>] \in {"beginning", "started"}, TidyAt(t)',
             NEW end, pc' = [pc EXCEPT ![<<t, "run">>] = end],
             \A u \in Txn \ {t} : db'[u] = db[u]
      PROVE  LeavesTidy'
  <2>1. ASSUME NEW u \in Txn \ {t} PROVE TidyAt(u)'
    <3>1. TidyAt(u) /\ (replays[u] # NoTxn => replays[u] \in Txn)
          BY DEF LeavesTidy, TypeOK
    <3>2. pc'[<<u, "run">>] = pc[<<u, "run">>]
          BY <1>5 DEF TypeOK, Call
    <3>3. replays[u] # NoTxn => pc'[<<replays[u], "run">>] = "replaced"
          BY <1>5, <3>1 DEF TidyAt, TypeOK, Call
    <3> QED BY <1>5, <3>1, <3>2, <3>3 DEF TidyAt
  <2> QED BY <1>5, <2>1 DEF LeavesTidy
<1>6. ASSUME NEW t \in Txn, Begun(t) \/ BeginFails(t) \/ Started(t) \/ AfterBeginFails(t)
      PROVE  LeavesTidy'
  <2>1. /\ pc[<<t, "run">>] \in {"beginning", "started"} /\ UNCHANGED <<identity, rollbackOnly>>
        /\ \A u \in Txn \ {t} : db'[u] = db[u]
        BY <1>6 DEF Begun, BeginFails, Started, AfterBeginFails, TypeOK
  <2>2. PICK end \in {"started", "body", "rejected", "retrying"} :
           /\ pc' = [pc EXCEPT ![<<t, "run">>] = end]
           /\ end \in {"rejected", "retrying"} => BeginFails(t)
        BY <1>6 DEF Begun, BeginFails, Started, AfterBeginFails, RunEnds, Tidy
  <2>3. pc'[<<t, "run">>] = end
        BY <2>2 DEF TypeOK, Call
  <2>4. BeginFails(t) => db'[t] = "none"
        BY DEF BeginFails, Untouched, UntouchedAt
  <2>5. replays[t] # NoTxn => pc'[<<replays[t], "run">>] = "replaced"
    <3>1. TidyAt(t) /\ (replays[t] # NoTxn => replays[t] \in Txn)
          BY DEF LeavesTidy, TypeOK
    <3> QED BY <2>1, <2>2, <3>1 DEF TidyAt, TypeOK, Call
  <2>6. kind[t] # "participant"
        BY <2>1 DEF Course, CourseAt
  <2>7. TidyAt(t)'
        BY <2>1, <2>2, <2>3, <2>4, <2>5, <2>6 DEF TidyAt
  <2> QED BY <1>5, <2>1, <2>2, <2>7
<1>7. ASSUME NEW t \in Txn, Timeout(t)
      PROVE  LeavesTidy'
      BY <1>7 DEF Timeout, Wait, WaitAt
<1>8. ASSUME NEW t \in Txn, NEW k \in Call, Continues(t, k)
      PROVE  LeavesTidy'
  <2>1. Proceeds(t)
        BY <1>8, OrderlyProceeds
  <2>2. TidyAt(t)'
        BY <2>1, ProceedsTidy
  <2>3. ASSUME NEW u \in Txn \ {t} PROVE TidyAt(u)'
    <3>1. TidyAt(u) /\ (replays[u] # NoTxn => replays[u] \in Txn) /\ UNCHANGED identity
          BY <2>1 DEF LeavesTidy, TypeOK, Proceeds
    <3>2. db'[u] = db[u] /\ pc'[<<u, "run">>] = pc[<<u, "run">>]
          BY <2>1, ProceedsAside
    <3>3. kind[u] = "participant" => up[u] \in Txn /\ (rollbackOnly[up[u]] => rollbackOnly'[up[u]])
      <4>1. kind[u] = "participant" => up[u] \in Txn
            BY DEF Shape, ScopedAt, Joins
      <4> QED BY <2>1, <4>1, MarksStay
    <3>4. replays[u] # NoTxn => pc'[<<replays[u], "run">>] = "replaced"
      <4>1. pc[<<t, "run">>] # "replaced"
            BY <2>1, ProceedsMoves DEF Later
      <4>2. ASSUME replays[u] # NoTxn PROVE replays[u] \in Txn \ {t}
            BY <3>1, <4>1, <4>2 DEF TidyAt
      <4> QED BY <2>1, <3>1, <4>2, ProceedsAside DEF TidyAt
    <3> QED BY <3>1, <3>2, <3>3, <3>4 DEF TidyAt
  <2> QED BY <2>2, <2>3 DEF LeavesTidy
<1> QED BY <1>1, <1>3, <1>4, <1>6, <1>7, <1>8, NextContinues

LEMMA KeepsTidy ==
    ASSUME Orderly, Tidy
    PROVE  Spec => []LeavesTidy
<1>1. Init => LeavesTidy
      BY DEF Init, LeavesTidy, TidyAt, Settled, Call
<1>2. TypeOK /\ Untouched /\ Shape /\ Wait /\ Course /\ LeavesTidy /\ [Next]_vars => LeavesTidy'
      BY TidyStep
<1> QED BY <1>1, <1>2, KeepsCourse, Nested, TypesAreKept, PTL DEF Spec

\* "a transaction that failed cannot be resumed - only replayed": what a replay
\* repeats is gone, provided that rollbacks are carried out and that neither
\* hooks.afterCommit nor hooks.onError fails a run() after its commit.
THEOREM ReplaysRepeatNothingKept ==
    ASSUME Orderly, Tidy, "rollback" \notin FailingAdapter, CommitsAreFinal
    PROVE  Spec => []ReplayedWorkIsGone
<1>1. TypeOK /\ Course /\ LeavesTidy => ReplayedWorkIsGone
  <2> SUFFICES ASSUME TypeOK, Course, LeavesTidy, NEW t \in Txn, replays[t] # NoTxn
               PROVE  /\ kind[replays[t]] # "participant"
                      /\ db[replays[t]] \in {"none", "undone"}
      BY DEF ReplayedWorkIsGone
  <2>1. replays[t] \in Txn /\ pc[<<replays[t], "run">>] = "replaced"
        BY DEF TypeOK, LeavesTidy, TidyAt
  <2>2. CourseAt(replays[t]) /\ TidyAt(replays[t]) /\ db[replays[t]] \in {"none", "open", "kept", "undone"}
        BY <2>1 DEF Course, LeavesTidy, TypeOK
  <2> QED BY <2>1, <2>2 DEF CourseAt, TidyAt, Settled
<1> QED BY <1>1, KeepsCourse, KeepsTidy, TypesAreKept, PTL

-----------------------------------------------------------------------------
(* What becomes of a callback is what becomes of its work *)

\* The work of t was undone with a transaction around it, or with its own.
Gone(t) == \E a \in signal[t] : db[a] = "undone"

\* Work that u keeps was done in u, or in savepoints inside u that were released.
Belongs(w, u) == IF kind[u] = "none" THEN w[1] = u
                 ELSE /\ signal[u] \subseteq signal[w[1]]
                      /\ \A a \in signal[w[1]] \ signal[u] : kind[a] = "savepoint" /\ db[a] = "kept"

Holding == Underway \ {"started"}

\* Callbacks are kept from the callback on, or left behind by a commit or by a
\* rollback that was refused.
Holds(u) == \/ pc[<<u, "run">>] \in Holding \/ db[u] = "undone"
            \/ /\ kind[u] = "root" /\ db[u] = "open"
               /\ pc[<<u, "run">>] \in {"retrying"} \cup Settled

KeepsAt(u) ==
    /\ held[u] # {} => Owned(u) \/ kind[u] = "none"
    /\ held[u] # {} /\ Owned(u) => Holds(u)
    /\ \A w \in held[u] : Belongs(w, u)

Followed == /\ \A u \in Txn : KeepsAt(u)
            /\ \A w \in ran : kind[w[1]] = "none" \/ Lasts(w[1])
            /\ \A w \in undone : kind[w[1]] = "none" \/ Gone(w[1])

\* A savepoint is not released or rolled back to once its connection is done, so
\* what lasts goes on lasting and what is undone stays undone.
LEMMA LastingStays ==
    ASSUME TypeOK, Untouched, Shape, Wait, Course, NEW t \in Txn, Proceeds(t), NEW u \in Txn
    PROVE  /\ Lasts(u) => Lasts(u)'
           /\ Gone(u) => Gone(u)'
           /\ \A w \in Work : Belongs(w, u) => Belongs(w, u)'
<1>1. UNCHANGED <<kind, signal>> /\ signal[u] \in SUBSET Txn /\ SignalledAt(u)
      BY DEF Proceeds, identity, TypeOK, Shape
<1>2. \/ db' = db
      \/ /\ Owned(t) /\ db[t] = "open" /\ Completable(t)
         /\ \A a \in Txn \ {t} : db'[a] = db[a]
      BY ProceedsEndsWork
<1>3. Gone(u) => Gone(u)'
      BY <1>1, <1>2 DEF Gone
<1>4. ASSUME NEW w \in Work, Belongs(w, u) PROVE Belongs(w, u)'
  <2>1. w[1] \in Txn /\ signal[w[1]] \in SUBSET Txn
        BY DEF Work, TypeOK
  <2> QED BY <1>1, <1>2, <1>4, <2>1 DEF Belongs
<1>5. ASSUME Lasts(u), db' # db PROVE Lasts(u)'
  <2>1. t \notin signal[u]
    <3> SUFFICES ASSUME t \in signal[u] PROVE FALSE
        OBVIOUS
    <3>1. kind[t] = "savepoint"
          BY <1>2, <1>5 DEF Lasts
    <3>2. SignalledAt(t) /\ signal[t] \subseteq signal[u]
          BY <1>1 DEF Shape, SignalledAt
    <3>3. PICK r \in signal[t] : kind[r] = "root"
          BY <3>1, <3>2 DEF SignalledAt, Transactional
    <3>4. db[r] = "open"
          BY <1>2, <1>5, <3>3 DEF Completable, ConnectionOpen
    <3> QED BY <1>5, <3>2, <3>3, <3>4 DEF Lasts
  <2> QED BY <1>1, <1>2, <1>5, <2>1 DEF Lasts
<1>6. db' = db => (Lasts(u) => Lasts(u)')
      BY <1>1 DEF Lasts
<1> QED BY <1>3, <1>4, <1>5, <1>6

\* A step keeps the callbacks where they belong if what it adds belongs there.
LEMMA FollowedAside ==
    ASSUME TypeOK, Untouched, Shape, Wait, Course, Followed, NEW t \in Txn, Proceeds(t),
           \A u \in Txn, w \in Work :
              w \in held'[u] => w \in held[u] \/ ((Owned(u) \/ kind[u] = "none") /\ Belongs(w, u)'),
           \A u \in Txn : held'[u] # {} /\ Owned(u) => Holds(u)',
           \A w \in Work : w \in ran' => w \in ran \/ kind[w[1]] = "none" \/ Lasts(w[1])',
           \A w \in Work : w \in undone' => w \in undone \/ kind[w[1]] = "none" \/ Gone(w[1])',
           TypeOK'
    PROVE  Followed'
<1>1. kind' = kind /\ \A u \in Txn : Owned(u)' <=> Owned(u)
      BY DEF Proceeds, identity, Owned
<1>2. /\ held' \in [Txn -> SUBSET Work] /\ ran' \in SUBSET Work /\ undone' \in SUBSET Work
      /\ \A w \in Work : w[1] \in Txn
      BY DEF TypeOK, Work
<1>3. ASSUME NEW u \in Txn PROVE KeepsAt(u)'
  <2>1. \A w \in held[u] : (Owned(u) \/ kind[u] = "none") /\ Belongs(w, u)
        BY DEF Followed, KeepsAt
  <2>2. \A w \in held'[u] : (Owned(u) \/ kind[u] = "none") /\ Belongs(w, u)'
        BY <1>2, <2>1, LastingStays
  <2> QED BY <1>1, <2>2 DEF KeepsAt
<1>4. ASSUME NEW w \in ran' PROVE kind'[w[1]] = "none" \/ Lasts(w[1])'
      BY <1>1, <1>2, LastingStays DEF Followed
<1>5. ASSUME NEW w \in undone' PROVE kind'[w[1]] = "none" \/ Gone(w[1])'
      BY <1>1, <1>2, LastingStays DEF Followed
<1> QED BY <1>3, <1>4, <1>5 DEF Followed

\* A failed attempt that is not replayed is rejected.
LEMMA RetryEnds ==
    ASSUME TypeOK, NEW t \in Txn, Proceeds(t), pc[<<t, "run">>] = "retrying"
    PROVE  pc'[<<t, "run">>] = "rejected"
<1> USE DEF Goes
<1>1. Undoes(t)
      BY DEF Proceeds, WorksIn, Leaves, Completes
<1> QED BY <1>1 DEF Undoes, TypeOK, Call

\* A step that moves no callback, from under way to under way or from a finished
\* stage to another.
LEMMA FollowedIdly ==
    ASSUME TypeOK, Untouched, Shape, Wait, Course, Followed, NEW t \in Txn, Proceeds(t), TypeOK',
           UNCHANGED <<held, undone>>,
           \A w \in Work : w \in ran' => w \in ran \/ kind[w[1]] = "none" \/ Lasts(w[1])',
           ~Owned(t) \/ Holds(t)' \/ pc[<<t, "run">>] \notin Underway
    PROVE  Followed'
<1>1. \A u \in Txn : KeepsAt(u) /\ (db[u] = "undone" => db'[u] = "undone")
  <2>1. db' = db \/ (db[t] = "open" /\ \A u \in Txn \ {t} : db'[u] = db[u])
        BY ProceedsEndsWork
  <2> QED BY <2>1 DEF Followed
<1>2. ASSUME NEW u \in Txn, held'[u] # {}, Owned(u)
      PROVE  Holds(u)'
  <2>1. Holds(u) /\ kind' = kind
        BY <1>1, <1>2 DEF KeepsAt, Proceeds, identity
  <2>2. CASE u # t
        BY <1>1, <2>1, <2>2, ProceedsAside DEF Holds
  <2>3. CASE u = t /\ pc[<<t, "run">>] \notin Underway
    <3>1. db' = db
          BY <2>3, ProceedsEndsWork
    <3>2. pc[<<t, "run">>] = "retrying" => pc'[<<t, "run">>] = "rejected"
          BY <2>3, RetryEnds
    <3>3. pc[<<t, "run">>] \notin Settled
          BY ProceedsMoves, <2>3 DEF Later, Underway
    <3> QED BY <2>1, <2>3, <3>1, <3>2, <3>3 DEF Holds, Holding, Settled
  <2> QED BY <1>2, <2>2, <2>3
<1> QED BY <1>2, FollowedAside

\* The callbacks of a callback's own run: register, commit and roll back.
LEMMA ProceedsFollowed ==
    ASSUME Orderly, Undoable, TypeOK, Untouched, Shape, Wait, Course, Followed,
           NEW t \in Txn, Proceeds(t), TypeOK'
    PROVE  Followed'
<1> USE DEF Goes, Committing, Underway, Holding, Holds, Failed, work
<1>1. /\ CourseAt(t) /\ KeepsAt(t) /\ SignalledAt(t) /\ ScopedAt(t)
      /\ Owned(t) => kind[t] \in {"root", "savepoint"}
      /\ UNCHANGED <<kind, signal, up>>
      BY DEF Course, Followed, Shape, Proceeds, identity, Owned
<1>2. /\ held \in [Txn -> SUBSET Work] /\ ran \in SUBSET Work /\ undone \in SUBSET Work
      /\ db \in [Txn -> {"none", "open", "kept", "undone"}] /\ pc \in [Txn \X Call -> Stage]
      /\ \A u \in Txn : signal[u] \in SUBSET Txn
      BY DEF TypeOK
<1>3. ASSUME NEW end, pc' = [pc EXCEPT ![<<t, "run">>] = end] PROVE pc'[<<t, "run">>] = end
      BY <1>2, <1>3 DEF Call
<1>4. \A u \in Txn \ {t} : db'[u] = db[u] /\ pc'[<<u, "run">>] = pc[<<u, "run">>]
      BY ProceedsAside
<1>0. \A u \in Txn \ {t} : Holds(u) => Holds(u)'
      BY <1>1, <1>4
<1>5. pc[<<t, "run">>] = "body" /\ Joins(t) =>
         up[t] \in Txn \ {t} /\ Owned(up[t]) /\ pc[<<up[t], "run">>] = "body"
  <2> SUFFICES ASSUME pc[<<t, "run">>] = "body", Joins(t)
               PROVE  up[t] \in Txn \ {t} /\ Owned(up[t]) /\ pc[<<up[t], "run">>] = "body"
      OBVIOUS
  <2>1. Active(t)
        BY DEF Active, Joins, Unused, Settled
  <2> QED BY <1>1, <2>1, AncestorsWait DEF ScopedAt
<1>6. Owned(t) => t \in signal[t]
      BY <1>1 DEF SignalledAt
<1>7. CASE WorksIn(t)
  <2>1. CASE Register(t)
    <3>1. /\ held' = [held EXCEPT ![Real(t)] = @ \cup {<<t, "callback">>}]
          /\ UNCHANGED <<ran, undone, pc, db>> /\ pc[<<t, "run">>] = "body"
          BY <1>7, <2>1 DEF WorksIn, Register
    <3>2. <<t, "callback">> \in Work /\ <<t, "callback">>[1] = t
          BY DEF Work
    <3>3. ~Unused(t) /\ kind[t] \in Kind \cup {"unused"}
          BY <3>1 DEF Untouched, UntouchedAt, TypeOK
    <3>4. /\ Owned(Real(t)) \/ kind[Real(t)] = "none"
          /\ pc[<<Real(t), "run">>] = "body"
          /\ Owned(Real(t)) => signal[Real(t)] = signal[t]
          BY <1>1, <1>5, <3>1, <3>3 DEF Real, Joins, SignalledAt, Owned, Kind, Unused
    <3>5. PICK r \in Txn : r = Real(t) /\ r = Real(t)' /\ (r = t \/ Owned(r))
          BY <1>1, <1>5, <3>1 DEF Real, ScopedAt, Joins
    <3>6. /\ held' = [held EXCEPT ![r] = @ \cup {<<t, "callback">>}] /\ pc[<<r, "run">>] = "body"
          /\ Owned(r) \/ kind[r] = "none"
          /\ Owned(r) => signal[r] = signal[t]
          BY <3>1, <3>4, <3>5
    <3>7. Belongs(<<t, "callback">>, r)'
          BY <1>1, <3>2, <3>5, <3>6 DEF Belongs, Owned
    <3>8. \A u \in Txn, w \in Work : w \in held'[u] =>
             w \in held[u] \/ ((Owned(u) \/ kind[u] = "none") /\ Belongs(w, u)')
          BY <1>2, <3>6, <3>7
    <3>9. \A u \in Txn : held'[u] # {} /\ Owned(u) => Holds(u)'
          BY <1>0, <1>2, <3>1, <3>6 DEF Followed, KeepsAt
    <3> QED BY <3>1, <3>8, <3>9, FollowedAside
  <2>2. CASE MarkRollbackOnly(t)
    <3>1. UNCHANGED <<held, ran, undone, pc>> /\ pc[<<t, "run">>] = "body"
          BY <1>7, <2>2 DEF WorksIn, MarkRollbackOnly
    <3> QED BY <3>1, FollowedIdly
  <2> QED BY <1>7, <2>1, <2>2 DEF WorksIn
<1>8. ASSUME ObjectCommits(t), kind[t] # "savepoint", \A w \in held[t] : kind[w[1]] = "none" \/ Lasts(w[1])'
      PROVE  Followed'
  <2>1. /\ held'[t] = {} /\ \A u \in Txn \ {t} : held'[u] = held[u]
        /\ ran' = ran \cup held[t] /\ undone' = undone
        BY <1>2, <1>8 DEF ObjectCommits
  <2>2. \A u \in Txn : held'[u] # {} /\ Owned(u) => Holds(u)'
        BY <1>0, <1>4, <2>1 DEF Followed, KeepsAt
  <2> QED BY <1>8, <2>1, <2>2, FollowedAside
<1>9. CASE Leaves(t)
  <2>1. CASE kind[t] = "participant" /\ UNCHANGED <<held, ran, undone>>
        BY <2>1, FollowedIdly DEF Owned
  <2>2. CASE /\ UNCHANGED <<held, ran, undone>>
             /\ Goes(t, {"body"}, {"beforeRollback"}) \/ Goes(t, {"body"}, {"refused", "beforeCommit"})
    <3>1. pc'[<<t, "run">>] \in Holding
          BY <1>3, <2>2
    <3> QED BY <2>2, <3>1, FollowedIdly
  <2>3. CASE kind[t] = "none" /\ ObjectCommits(t)
        BY <1>1, <1>8, <2>3 DEF KeepsAt, Belongs
  <2> QED BY <1>9, <2>1, <2>2, <2>3 DEF Leaves
<1>10. CASE Completes(t)
  <2>1. CASE /\ Owned(t) /\ Goes(t, {"beforeCommit"}, {"adapterCommit"})
             /\ held' = IF kind[t] = "savepoint" THEN [held EXCEPT ![t] = @ \cup {Hook1(t)}] ELSE held
             /\ UNCHANGED <<state, ran, undone, db>>
    <3>1. pc'[<<t, "run">>] \in Holding /\ Hook1(t)[1] = t
          BY <1>3, <2>1 DEF Hook1
    <3>2. Belongs(Hook1(t), t)'
          BY <1>1, <2>1, <3>1 DEF Belongs, Owned
    <3>3. \A u \in Txn, w \in Work : w \in held'[u] =>
             w \in held[u] \/ ((Owned(u) \/ kind[u] = "none") /\ Belongs(w, u)')
          BY <1>2, <2>1, <3>2
    <3>4. \A u \in Txn : held'[u] # {} /\ Owned(u) => Holds(u)'
          BY <1>0, <1>2, <1>4, <2>1, <3>1 DEF Followed, KeepsAt
    <3> QED BY <2>1, <3>3, <3>4, FollowedAside
  <2>2. CASE /\ Owned(t) /\ Goes(t, {"beforeCommit", "refused"}, {"beforeRollback"})
             /\ UNCHANGED <<state, work, db>>
    <3>1. pc'[<<t, "run">>] \in Holding
          BY <1>3, <2>2
    <3> QED BY <2>2, <3>1, FollowedIdly
  <2>3. CASE /\ Owned(t) /\ Completable(t) /\ ObjectCommits(t)
             /\ Goes(t, {"adapterCommit"}, {IF kind[t] = "savepoint" THEN "resolved" ELSE "afterCommit"})
             /\ db' = [db EXCEPT ![t] = "kept"]
    <3>1. db'[t] = "kept"
          BY <1>2, <2>3
    <3>2. CASE kind[t] = "root"
      <4>1. signal[t] = {t}
            BY <1>1, <3>2 DEF SignalledAt
      <4>2. ASSUME NEW w \in held[t] PROVE Lasts(w[1])'
        <5>1. Belongs(w, t)'
              BY <1>1, <1>2, LastingStays DEF KeepsAt
        <5> QED BY <1>1, <3>1, <3>2, <4>1, <5>1 DEF Belongs, Lasts
      <4> QED BY <1>8, <2>3, <3>2, <4>2
    <3>3. CASE kind[t] = "savepoint"
      <4>1. /\ up[t] \in Txn \ {t} /\ Owned(up[t]) /\ pc[<<up[t], "run">>] = "body"
            /\ signal[t] = {t} \cup signal[up[t]]
        <5>1. Active(t)
              BY <2>3, <3>3 DEF Active, Unused, Settled
        <5> QED BY <1>1, <3>3, <5>1, AncestorsWait DEF ScopedAt, Joins, SignalledAt
      <4>2. /\ held'[t] = {} /\ held'[up[t]] = held[up[t]] \cup held[t]
            /\ \A u \in Txn \ {t, up[t]} : held'[u] = held[u]
            /\ ran' = ran /\ undone' = undone
            BY <1>2, <2>3, <3>3, <4>1 DEF ObjectCommits
      <4>3. ASSUME NEW w \in held[t] PROVE Belongs(w, up[t])'
        <5>1. Belongs(w, t)'
              BY <1>1, <1>2, LastingStays DEF KeepsAt
        <5>2. PICK p \in Txn : p = up[t] /\ p = up'[t]
              BY <1>1, <4>1
        <5> QED BY <1>1, <3>1, <3>3, <4>1, <5>1, <5>2 DEF Belongs, Owned
      <4>4. \A u \in Txn, w \in Work : w \in held'[u] =>
               w \in held[u] \/ ((Owned(u) \/ kind[u] = "none") /\ Belongs(w, u)')
        <5>1. PICK p \in Txn : p = up[t] /\ p = up'[t]
              BY <1>1, <4>1
        <5>2. \A w \in held[t] : Belongs(w, p)'
              BY <4>3, <5>1
        <5> QED BY <4>1, <4>2, <5>1, <5>2
      <4>5. \A u \in Txn : held'[u] # {} /\ Owned(u) => Holds(u)'
            BY <1>0, <1>4, <4>1, <4>2 DEF Followed, KeepsAt
      <4> QED BY <4>2, <4>4, <4>5, FollowedAside
    <3> QED BY <1>1, <2>3, <3>2, <3>3
  <2>4. CASE /\ Owned(t) /\ Goes(t, {"adapterCommit"}, Failed)
             /\ CommitOp(t) \in FailingAdapter \/ ~Completable(t)
             /\ UNCHANGED work
             /\ db' = IF kind[t] = "root" THEN [db EXCEPT ![t] = "undone"] ELSE db
    <3>1. Completable(t)
          BY <2>4, UnderwayCompletable
    <3>2. kind[t] = "root"
          BY <1>1, <2>4, <3>1 DEF CommitOp, Undoable
    <3> QED BY <1>2, <2>4, <3>2, FollowedIdly
  <2>5. CASE /\ kind[t] \in {"root", "none"}
             /\ Goes(t, {"afterCommit"}, {"resolved"}) \/ Goes(t, {"afterCommit"}, Failed)
             /\ ran' = ran \/ ran' = IF kind[t] = "root" THEN ran \cup {Hook1(t)} ELSE ran
             /\ UNCHANGED <<state, held, undone, db>>
    <3>1. kind[t] = "root" => Lasts(t)'
          BY <1>1, <2>5 DEF CourseAt, Owned, SignalledAt, Lasts
    <3>2. \A w \in Work : w \in ran' => w \in ran \/ kind[w[1]] = "none" \/ Lasts(w[1])'
          BY <2>5, <3>1 DEF Hook1
    <3> QED BY <2>5, <3>2, FollowedIdly
  <2> QED BY <1>10, <2>1, <2>2, <2>3, <2>4, <2>5 DEF Completes
<1>11. CASE Undoes(t)
  <2>1. CASE UNCHANGED <<state, work, db>> /\ Goes(t, {"beforeRollback", "refused"}, {"adapterRollback"})
    <3>1. pc'[<<t, "run">>] \in Holding
          BY <1>3, <2>1
    <3> QED BY <2>1, <3>1, FollowedIdly
  <2>2. CASE Rejects("beforeRollback")
        BY <2>2 DEF Undoable
  <2>3. CASE UNCHANGED <<state, work, db>> /\ (Goes(t, {"afterRollback"}, Failed) \/ Goes(t, {"retrying"}, {"rejected"}))
        BY <2>3, FollowedIdly
  <2>4. CASE /\ ObjectRollsBack(t)
             /\ db' = (IF Owned(t) THEN [db EXCEPT ![t] = "undone"] ELSE db)
    <3>1. /\ held'[t] = {} /\ \A u \in Txn \ {t} : held'[u] = held[u]
          /\ ran' = ran /\ undone' = undone \cup { w \in held[t] : w[2] = "callback" }
          BY <1>2, <2>4 DEF ObjectRollsBack
    <3>2. ASSUME NEW w \in held[t] PROVE kind[w[1]] = "none" \/ Gone(w[1])'
      <4>1. CASE kind[t] = "none"
            BY <1>1, <4>1 DEF KeepsAt, Belongs
      <4>2. CASE Owned(t)
        <5>1. db'[t] = "undone"
              BY <1>2, <2>4, <4>2
        <5> QED BY <1>1, <1>6, <4>2, <5>1 DEF KeepsAt, Belongs, Gone, Owned
      <4> QED BY <1>1, <3>2, <4>1, <4>2 DEF KeepsAt
    <3>3. \A u \in Txn : held'[u] # {} /\ Owned(u) => Holds(u)'
          BY <1>0, <1>4, <3>1 DEF Followed, KeepsAt
    <3> QED BY <3>1, <3>2, <3>3, FollowedAside
  <2>5. CASE /\ Owned(t) /\ Goes(t, {"adapterRollback"}, Failed) /\ UNCHANGED <<work, db>>
             /\ RollbackOp(t) \in FailingAdapter \/ ~Completable(t)
    <3>1. Completable(t)
          BY <2>5, UnderwayCompletable
    <3>2. kind[t] = "root" /\ db'[t] = "open" /\ pc'[<<t, "run">>] \in {"retrying", "rejected"}
      <4>1. kind[t] = "root" /\ db[t] = "open"
            BY <1>1, <2>5, <3>1 DEF RollbackOp, Undoable, CourseAt
      <4> QED BY <1>2, <1>3, <2>5, <4>1
    <3> QED BY <1>1, <2>5, <3>2, FollowedIdly DEF Settled
  <2>6. CASE "releaseSavepoint" \in FailingAdapter
        BY <2>6 DEF Undoable
  <2> QED BY <1>11, <2>1, <2>2, <2>3, <2>4, <2>5, <2>6 DEF Undoes
<1> QED BY <1>7, <1>9, <1>10, <1>11 DEF Proceeds

\* Before the callback runs nothing belongs to a handle, and nothing is kept in it.
LEMMA FollowedOpens ==
    ASSUME TypeOK, Untouched, Shape, Followed, UNCHANGED work, NEW t \in Txn,
           held[t] = {},
           \A u \in Txn : /\ (kind'[u] = kind[u] /\ signal'[u] = signal[u]) \/ Unused(u)
                          /\ Holds(u) /\ Owned(u) => Holds(u)' \/ u = t
                          /\ db'[u] = db[u] \/ db[u] = "none"
    PROVE  Followed'
<1>1. /\ held \in [Txn -> SUBSET Work] /\ ran \in SUBSET Work /\ undone \in SUBSET Work
      /\ \A w \in Work : w[1] \in Txn
      /\ \A u \in Txn : signal[u] \in SUBSET Txn /\ (Unused(u) => signal[u] = {})
      BY DEF TypeOK, Work, Shape, ScopedAt
<1>2. \A u \in Txn, a \in Txn : a \in signal[u] => kind'[a] = kind[a] /\ ~Unused(a)
  <2>1. ASSUME NEW u \in Txn, NEW a \in signal[u] PROVE ~Unused(a)
    <3>1. ~Unused(u) /\ (a # u => Owned(a))
          BY <1>1 DEF Shape, SignalledAt
    <3> QED BY <3>1 DEF Owned, Unused
  <2> QED BY <2>1
<1>3. ASSUME NEW u \in Txn, Lasts(u) PROVE Lasts(u)'
      BY <1>1, <1>2, <1>3 DEF Lasts
<1>4. ASSUME NEW u \in Txn, Gone(u) PROVE Gone(u)'
      BY <1>1, <1>2, <1>4 DEF Gone
<1>5. ASSUME NEW u \in Txn PROVE KeepsAt(u)'
  <2>1. CASE held[u] = {}
        BY <2>1 DEF KeepsAt, work
  <2>2. CASE held[u] # {}
    <3>1. KeepsAt(u) /\ (Owned(u) \/ kind[u] = "none")
          BY <2>2 DEF Followed, KeepsAt
    <3>2. kind'[u] = kind[u] /\ signal'[u] = signal[u] /\ u # t
          BY <2>2, <3>1 DEF Owned, Unused
    <3>3. Owned(u) => u \in signal[u]
          BY DEF Shape, SignalledAt, Owned
    <3>4. ASSUME NEW w \in held[u] PROVE Belongs(w, u)'
      <4>1. Belongs(w, u) /\ w[1] \in Txn
            BY <1>1, <3>1 DEF KeepsAt
      <4>2. CASE kind[u] = "none"
            BY <3>2, <4>1, <4>2 DEF Belongs
      <4>3. CASE kind[u] # "none"
        <5>1. ~Unused(w[1])
              BY <1>1, <3>1, <3>3, <4>1, <4>3 DEF Belongs
        <5>2. signal'[w[1]] = signal[w[1]] /\ signal[w[1]] \in SUBSET Txn
              BY <1>1, <4>1, <5>1
        <5>3. /\ signal'[u] \subseteq signal'[w[1]] /\ kind'[u] # "none"
              /\ \A a \in signal'[w[1]] \ signal'[u] : a \in Txn /\ kind[a] = "savepoint" /\ db[a] = "kept"
              BY <3>2, <4>1, <4>3, <5>2 DEF Belongs
        <5>4. \A a \in signal'[w[1]] \ signal'[u] : kind'[a] = "savepoint" /\ db'[a] = "kept"
              BY <1>2, <4>1, <5>2, <5>3
        <5> QED BY <5>3, <5>4 DEF Belongs
      <4> QED BY <4>2, <4>3
    <3> QED BY <2>2, <3>1, <3>2, <3>4 DEF KeepsAt, Owned, work
  <2> QED BY <2>1, <2>2
<1>6. ASSUME NEW w \in ran' PROVE kind'[w[1]] = "none" \/ Lasts(w[1])'
      BY <1>1, <1>3 DEF Followed, Unused, work
<1>7. ASSUME NEW w \in undone' PROVE kind'[w[1]] = "none" \/ Gone(w[1])'
      BY <1>1, <1>4 DEF Followed, Unused, work
<1> QED BY <1>5, <1>6, <1>7 DEF Followed

LEMMA FollowedStep ==
    ASSUME Orderly, Undoable, TypeOK, Untouched, Shape, Wait, Course, Followed, TypeOK', [Next]_vars
    PROVE  Followed'
<1> USE DEF identity, flags
<1>1. CASE UNCHANGED vars
      BY <1>1 DEF vars, work, Followed, KeepsAt, Holds, Belongs, Lasts, Gone, Owned
<1>2. ASSUME NEW t \in Txn, Unused(t) PROVE held[t] = {} /\ pc[<<t, "run">>] = "idle"
      BY <1>2 DEF Followed, KeepsAt, Owned, Unused, Untouched, UntouchedAt
<1>3. ASSUME NEW t \in Txn, NEW o \in Txn \cup {NoTxn}, NEW p \in Propagations, Begin(t, o, p)
      PROVE  Followed'
  <2>1. /\ Unused(t) /\ pc' = [pc EXCEPT ![<<t, "run">>] = Opening(t)] /\ Fresh(t)
        /\ UNCHANGED <<db, work>>
        BY <1>3, OpenFresh DEF Begin
  <2>2. \A u \in Txn \ {t} : pc'[<<u, "run">>] = pc[<<u, "run">>]
        BY <2>1 DEF TypeOK, Call
  <2>3. \A u \in Txn \ {t} : kind'[u] = kind[u] /\ signal'[u] = signal[u]
    <3>1. \E k, s : kind' = [kind EXCEPT ![t] = k] /\ signal' = [signal EXCEPT ![t] = s]
          BY <1>3 DEF Begin, Open
    <3> QED BY <3>1 DEF TypeOK
  <2> QED BY <1>2, <2>1, <2>2, <2>3, FollowedOpens DEF Holds
<1>4. ASSUME NEW t \in Txn, NEW again \in Txn, Replay(t, again)
      PROVE  Followed'
  <2>1. /\ Unused(again) /\ pc[<<t, "run">>] = "retrying" /\ UNCHANGED <<db, work>>
        /\ pc' = [pc EXCEPT ![<<t, "run">>] = "replaced", ![<<again, "run">>] = Opening(again)]
        /\ Fresh(again)
        BY <1>4, OpenFresh DEF Replay
  <2>2. \A u \in Txn \ {again} :
           \/ pc'[<<u, "run">>] = pc[<<u, "run">>]
           \/ pc[<<u, "run">>] = "retrying" /\ pc'[<<u, "run">>] = "replaced"
        BY <2>1 DEF TypeOK, Call
  <2>3. \A u \in Txn \ {again} : kind'[u] = kind[u] /\ signal'[u] = signal[u]
    <3>1. \E k, s : kind' = [kind EXCEPT ![again] = k] /\ signal' = [signal EXCEPT ![again] = s]
          BY <1>4 DEF Replay, Open
    <3> QED BY <3>1 DEF TypeOK
  <2> QED BY <1>2, <2>1, <2>2, <2>3, FollowedOpens DEF Holds, Underway, Holding, Committing, Settled
<1>5. ASSUME NEW t \in Txn, Begun(t) \/ BeginFails(t) PROVE Followed'
  <2>1. /\ pc[<<t, "run">>] = "beginning" /\ UNCHANGED <<kind, signal, work>>
        /\ \A u \in Txn \ {t} : db'[u] = db[u] /\ pc'[<<u, "run">>] = pc[<<u, "run">>]
        BY <1>5 DEF Begun, BeginFails, TypeOK, Call
  <2>2. db[t] = "none"
        BY <2>1 DEF Untouched, UntouchedAt
  <2>3. held[t] = {}
    <3>1. KeepsAt(t) /\ Owned(t)
          BY <2>1 DEF Followed, Course, CourseAt
    <3> QED BY <2>1, <2>2, <3>1 DEF KeepsAt, Holds, Underway, Holding, Committing
  <2> QED BY <2>1, <2>2, <2>3, FollowedOpens DEF Holds
<1>6. ASSUME NEW t \in Txn, Started(t) PROVE Followed'
  <2>1. /\ pc' = [pc EXCEPT ![<<t, "run">>] = "body"] /\ UNCHANGED <<kind, signal, work, db>>
        BY <1>6 DEF Started
  <2>2. \A u \in Txn : pc[<<u, "run">>] # pc'[<<u, "run">>] => pc'[<<u, "run">>] = "body"
        BY <2>1 DEF TypeOK, Call
  <2>3. \A u \in Txn : Holds(u) => Holds(u)'
        BY <2>1, <2>2 DEF Holds, Underway, Holding
  <2> QED BY <2>1, <2>3 DEF work, Followed, KeepsAt, Belongs, Lasts, Gone, Owned
<1>7. ASSUME NEW t \in Txn, Timeout(t)
      PROVE  Followed'
      BY <1>7 DEF Timeout, Wait, WaitAt
<1>8. ASSUME NEW t \in Txn, NEW k \in Call, Continues(t, k)
      PROVE  Followed'
  <2>1. Proceeds(t)
        BY <1>8, OrderlyProceeds
  <2> QED BY <2>1, ProceedsFollowed
<1>9. ASSUME NEW t \in Txn, AfterBeginFails(t) PROVE Followed'
  <2>1. /\ pc[<<t, "run">>] = "started" /\ UNCHANGED <<kind, signal, work, db>>
        /\ \A u \in Txn \ {t} : pc'[<<u, "run">>] = pc[<<u, "run">>]
        BY <1>9 DEF AfterBeginFails, TypeOK, Call
  <2>2. KeepsAt(t) /\ Owned(t) /\ db[t] = "open"
        BY <2>1 DEF Followed, Course, CourseAt, Underway
  <2>3. held[t] = {}
        BY <2>1, <2>2 DEF KeepsAt, Holds, Underway, Holding, Committing, Settled
  <2> QED BY <2>1, <2>3, FollowedOpens DEF Holds
<1> QED BY <1>1, <1>3, <1>4, <1>5, <1>6, <1>7, <1>8, <1>9, NextContinues

\* What keeps callbacks was undone, or has a connection that is open.
LEMMA FollowedOutermost ==
    ASSUME TypeOK, Untouched, Shape, Wait, Course, Followed
    PROVE  CallbacksFollowOutermost
<1>1. \A w \in Work : w[1] \in Txn
      BY DEF Work
<1>2. ASSUME NEW w \in ran PROVE kind[w[1]] = "none" \/ Lasts(w[1])
      BY DEF Followed
<1>3. ASSUME NEW w \in undone PROVE kind[w[1]] = "none" \/ ~Lasts(w[1])
      BY DEF Followed, Gone, Lasts
<1>4. ASSUME NEW t \in Txn, Owned(t), Lasts(t) PROVE held[t] = {}
  <2> SUFFICES ASSUME held[t] # {} PROVE FALSE
      OBVIOUS
  <2>1. KeepsAt(t) /\ SignalledAt(t)
        BY DEF Followed, Shape
  <2>2. t \in signal[t] /\ db[t] # "undone"
        BY <1>4, <2>1 DEF SignalledAt, Owned, Lasts
  <2>3. PICK r \in signal[t] : kind[r] = "root"
        BY <1>4, <2>1 DEF SignalledAt, Transactional, Owned
  <2>4. CASE pc[<<t, "run">>] \in Underway
        BY <1>4, <2>3, <2>4, UnderwayCompletable DEF Completable, ConnectionOpen, Lasts
  <2>5. CASE kind[t] = "root" /\ db[t] = "open"
        BY <1>4, <2>2, <2>5 DEF Lasts
  <2> QED BY <1>4, <2>1, <2>2, <2>4, <2>5 DEF KeepsAt, Holds, Holding
<1> QED BY <1>2, <1>3, <1>4 DEF CallbacksFollowOutermost

\* "They run only when the outermost transaction commits": what ran belongs to
\* work that lasts, what was undone to work that does not, and no transaction
\* whose work lasts still keeps a callback.
THEOREM CallbacksBelong ==
    ASSUME Orderly, Undoable
    PROVE  Spec => []CallbacksFollowOutermost
<1>1. Init => Followed
      BY DEF Init, Followed, KeepsAt
<1>2. TypeOK /\ TypeOK' /\ Untouched /\ Shape /\ Wait /\ Course /\ Followed /\ [Next]_vars => Followed'
      BY FollowedStep
<1>3. TypeOK /\ Untouched /\ Shape /\ Wait /\ Course /\ Followed => CallbacksFollowOutermost
      BY FollowedOutermost
<1> QED BY <1>1, <1>2, <1>3, KeepsCourse, Nested, TypesAreKept, PTL DEF Spec

-----------------------------------------------------------------------------
(* run() implements UnitOfWork *)

Kept == { t \in Txn : Transactional(t) /\ Lasts(t) }

LEMMA UnitStutters ==
    ASSUME UNCHANGED <<toldOf, insideOf>>, Kept' = Kept
    PROVE  UNCHANGED U!vars
BY DEF U!vars, Kept

LEMMA UnitResolves ==
    ASSUME NEW t \in Txn, toldOf[t] = "waiting", insideOf[t] = {} => t \in Kept,
           toldOf' = [toldOf EXCEPT ![t] = "resolved"], insideOf' = insideOf, Kept' = Kept
    PROVE  U!Next
<1>1. toldOf'[t] # toldOf[t]
      BY DEF toldOf
<1>2. U!vars' # U!vars
      BY <1>1 DEF U!vars
<1>3. U!Resolve(t)
      BY DEF U!Resolve, Kept
<1> QED BY <1>2, <1>3 DEF U!Next

LEMMA UnitRejects ==
    ASSUME NEW t \in Txn, toldOf[t] = "waiting", t \notin Kept,
           toldOf' = [toldOf EXCEPT ![t] = "rejected"], insideOf' = insideOf, Kept' = Kept
    PROVE  U!Next
<1>1. toldOf'[t] # toldOf[t]
      BY DEF toldOf
<1>2. U!vars' # U!vars
      BY <1>1 DEF U!vars
<1>3. U!Reject(t)
      BY DEF U!Reject, Kept
<1> QED BY <1>2, <1>3 DEF U!Next

LEMMA UnitEnters ==
    ASSUME NEW t \in Txn, toldOf[t] = "nothing",
           NEW around \in SUBSET Txn, \A e \in around : toldOf[e] = "waiting",
           toldOf' = [toldOf EXCEPT ![t] = "waiting"],
           insideOf' = [insideOf EXCEPT ![t] = around], Kept' = Kept
    PROVE  U!Next
<1>1. toldOf'[t] # toldOf[t]
      BY DEF toldOf
<1>2. U!vars' # U!vars
      BY <1>1 DEF U!vars
<1>3. U!Enter(t)
      BY DEF U!Enter, Kept
<1> QED BY <1>2, <1>3 DEF U!Next

LEMMA UnitKeeps ==
    ASSUME NEW t \in Txn, toldOf[t] = "waiting", insideOf[t] = {}, t \notin Kept,
           \A u \in Txn : t \in insideOf[u] => toldOf[u] # "waiting",
           UNCHANGED <<toldOf, insideOf>>, Kept' = Kept \cup U!Whole(t)
    PROVE  U!Next
<1>1. t \in U!Whole(t)
      BY DEF U!Whole
<1>2. U!vars' # U!vars
      BY <1>1 DEF U!vars, Kept
<1>3. U!Keep(t)
      BY DEF U!Keep, Kept
<1> QED BY <1>2, <1>3 DEF U!Next

\* A run() under way lasts only when it is a root that has committed.
LEMMA ActiveIsNotKept ==
    ASSUME TypeOK, Untouched, Shape, Wait, Course, NEW t \in Txn, Active(t),
           kind[t] # "root" \/ db[t] # "kept"
    PROVE  t \notin Kept
<1> SUFFICES ASSUME Transactional(t), Lasts(t) PROVE FALSE
    BY DEF Kept
<1>1. PICK r \in signal[t] : kind[r] = "root"
      BY DEF Shape, SignalledAt
<1>2. r \in Txn /\ Around(r, t) /\ db[r] = "kept"
      BY <1>1 DEF Shape, SignalledAt, TypeOK, Lasts
<1>3. r # t
      BY <1>1, <1>2
<1>4. pc[<<r, "run">>] = "body"
      BY <1>2, <1>3, AncestorsWait
<1> QED BY <1>1, <1>2, <1>4 DEF Course, CourseAt, Underway, Owned

\* Whatever is kept before a connection commits is kept after, and no more.
LEMMA KeptWithRoots ==
    ASSUME TypeOK, Untouched, Shape, Wait, Course, NEW t \in Txn, Proceeds(t),
           ~(kind[t] = "root" /\ db[t] = "open" /\ db'[t] = "kept")
    PROVE  Kept' = Kept
<1>1. UNCHANGED <<kind, signal>> /\ \A u \in Txn : signal[u] \in SUBSET Txn /\ SignalledAt(u)
      BY DEF Proceeds, identity, TypeOK, Shape
<1>2. CASE db' = db
      BY <1>1, <1>2 DEF Kept, Lasts, Transactional
<1>3. CASE /\ Owned(t) /\ db[t] = "open" /\ Completable(t)
           /\ db'[t] \in {"kept", "undone"} /\ \A u \in Txn \ {t} : db'[u] = db[u]
  <2>1. PICK r \in signal[t] : kind[r] = "root"
        BY <1>1, <1>3 DEF SignalledAt, Transactional, Owned
  <2>2. db[r] = "open" /\ db'[r] # "kept"
        BY <1>1, <1>3, <2>1 DEF Completable, ConnectionOpen
  <2>3. ASSUME NEW u \in Txn PROVE Lasts(u)' <=> Lasts(u)
    <3>1. CASE t \in signal[u]
      <4>1. r \in signal[u]
            BY <1>1, <2>1, <3>1 DEF SignalledAt
      <4> QED BY <1>1, <2>1, <2>2, <4>1 DEF Lasts
    <3>2. CASE t \notin signal[u]
          BY <1>1, <1>3, <3>2 DEF Lasts
    <3> QED BY <3>1, <3>2
  <2> QED BY <1>1, <2>3 DEF Kept, Transactional
<1> QED BY <1>2, <1>3, ProceedsEndsWork

\* Where a run() ends that is retried, that commits its connection, and whose
\* connection has committed.
LEMMA ProceedsEnds ==
    ASSUME CommitsAreFinal, TypeOK, NEW t \in Txn, Proceeds(t)
    PROVE  /\ pc[<<t, "run">>] = "retrying" => pc'[<<t, "run">>] = "rejected"
           /\ pc[<<t, "run">>] = "afterCommit" => pc'[<<t, "run">>] = "resolved"
           /\ kind[t] = "root" /\ db[t] = "open" /\ db'[t] = "kept" =>
                 pc[<<t, "run">>] = "adapterCommit" /\ pc'[<<t, "run">>] = "afterCommit"
<1> USE DEF Goes, Failed
<1>1. pc \in [Txn \X Call -> Stage] /\ db \in [Txn -> {"none", "open", "kept", "undone"}]
      BY DEF TypeOK
<1>2. ASSUME NEW end, pc' = [pc EXCEPT ![<<t, "run">>] = end] PROVE pc'[<<t, "run">>] = end
      BY <1>1, <1>2 DEF Call
<1>3. CASE WorksIn(t)
      BY <1>3 DEF WorksIn, Register, MarkRollbackOnly
<1>4. CASE Leaves(t)
      BY <1>4 DEF Leaves
<1>5. CASE Completes(t)
      BY <1>1, <1>2, <1>5 DEF Completes, CommitsAreFinal
<1>6. CASE Undoes(t)
      BY <1>1, <1>2, <1>6 DEF Undoes
<1> QED BY <1>3, <1>4, <1>5, <1>6 DEF Proceeds

\* When a connection commits, every unit inside it was answered, and was told it
\* succeeded exactly when its savepoint was released.
LEMMA RootKeeps ==
    ASSUME Orderly, Tidy, CommitsAreFinal, TypeOK, Untouched, Shape, Wait, Course, LeavesTidy,
           NEW t \in Txn, kind[t] = "root", pc[<<t, "run">>] = "adapterCommit",
           kind' = kind, signal' = signal, db' = [db EXCEPT ![t] = "kept"]
    PROVE  /\ \A u \in Txn : t \in insideOf[u] => toldOf[u] # "waiting"
           /\ Kept' = Kept \cup U!Whole(t)
<1>1. /\ signal[t] = {t} /\ t \in Txn /\ db[t] = "open" /\ ~rollbackOnly[t] /\ Active(t)
      /\ \A u \in Txn : signal[u] \in SUBSET Txn /\ SignalledAt(u) /\ ScopedAt(u)
      /\ db'[t] = "kept" /\ \A u \in Txn \ {t} : db'[u] = db[u]
  <2>1. SignalledAt(t) /\ CourseAt(t) /\ db \in [Txn -> {"none", "open", "kept", "undone"}]
        BY DEF Shape, Course, TypeOK
  <2> QED BY <2>1 DEF Shape, SignalledAt, CourseAt, Owned, Underway, Committing, TypeOK,
             Active, Unused, Settled
<1>2. ASSUME NEW u \in Txn \ {t}, Around(t, u), ~Unused(u)
      PROVE  pc[<<u, "run">>] \in Settled
      BY <1>2, AncestorsWait DEF Active
<1>3. ASSUME NEW u \in Txn \ {t}, t \in signal[u]
      PROVE  /\ kind[u] \in {"participant", "savepoint"} /\ Around(t, u)
             /\ pc[<<u, "run">>] \in Settled /\ insideOf[u] = signal[u] \ {u}
             /\ toldOf[u] \in {"resolved", "rejected"}
             /\ toldOf[u] = "resolved" <=> pc[<<u, "run">>] = "resolved"
  <2>1. kind[u] \in {"participant", "savepoint"} /\ Around(t, u)
    <3>1. kind[u] \in {"root", "none"} => signal[u] = {u}
          BY <1>1 DEF SignalledAt
    <3>2. ~Unused(u) /\ kind[u] \in Kind \cup {"unused"}
          BY <1>1, <1>3 DEF ScopedAt, TypeOK
    <3>3. Around(t, u)
          BY <1>1, <1>3 DEF SignalledAt
    <3> QED BY <1>3, <3>1, <3>2, <3>3 DEF Kind, Unused
  <2>2. pc[<<u, "run">>] \in Settled
        BY <1>2, <2>1 DEF Unused
  <2> QED BY <2>1, <2>2 DEF insideOf, toldOf, Transactional, RunIs, Settled
<1>4. ASSUME NEW u \in Txn \ {t}, t \in signal[u], NEW a \in signal[u] \ {t}
      PROVE  /\ a \in Txn \ {t} /\ kind[a] = "savepoint" /\ t \in signal[a]
             /\ db[a] \in {"open", "kept"} <=> toldOf[a] = "resolved"
             /\ db[a] = "kept" => ~rollbackOnly[a]
             /\ db[a] # "open"
  <2>1. a \in Txn \ {t} /\ SignalledAt(a) /\ signal[a] \subseteq signal[u] /\ Owned(a)
    <3>1. CASE a = u
      <4>1. kind[u] = "participant" => FALSE
        <5>1. kind[u] = "participant" => u \in signal[up[u]] /\ up[u] \in Txn \ {u} /\ SignalledAt(up[u])
              BY <1>1, <1>4, <3>1 DEF SignalledAt, ScopedAt, Joins
        <5> QED BY <5>1 DEF SignalledAt, Owned
      <4> QED BY <1>1, <1>3, <1>4, <3>1, <4>1 DEF Owned
    <3>2. CASE a # u
          BY <1>1, <1>4, <3>2 DEF SignalledAt
    <3> QED BY <3>1, <3>2
  <2>2. kind[a] = "savepoint"
        BY <1>1, <1>4, <2>1 DEF SignalledAt, Owned
  <2>3. t \in signal[a]
    <3>1. PICK r \in signal[a] : kind[r] = "root"
          BY <2>1, <2>2 DEF SignalledAt, Transactional
    <3>2. r = t
          BY <1>1, <1>4, <2>1, <3>1 DEF SignalledAt
    <3> QED BY <3>1, <3>2
  <2>4. /\ pc[<<a, "run">>] \in Settled
        /\ toldOf[a] = "resolved" <=> pc[<<a, "run">>] = "resolved"
        BY <1>3, <2>1, <2>3
  <2>5. CourseAt(a) /\ TidyAt(a)
        BY <2>1 DEF Course, LeavesTidy
  <2> QED BY <2>1, <2>2, <2>3, <2>4, <2>5 DEF CourseAt, TidyAt, Settled, Owned
<1>5. ASSUME NEW u \in Txn, t \in insideOf[u] PROVE toldOf[u] # "waiting"
  <2>1. t \in signal[u] /\ u # t
        BY <1>5 DEF insideOf
  <2> QED BY <1>3, <2>1
<1>6. ASSUME NEW u \in Txn PROVE u \in Kept' <=> u \in Kept \/ u \in U!Whole(t)
  <2>1. CASE u = t
        BY <1>1, <2>1 DEF Kept, Transactional, Lasts, U!Whole
  <2>2. CASE t \notin signal[u]
    <3>1. Lasts(u)' <=> Lasts(u)
          BY <1>1, <2>2 DEF Lasts
    <3>2. t \notin insideOf[u] /\ u # t
          BY <1>1, <2>2 DEF insideOf
    <3> QED BY <3>1, <3>2 DEF Kept, Transactional, U!Whole
  <2>3. CASE u # t /\ t \in signal[u]
    <3>1. /\ kind[u] \in {"participant", "savepoint"} /\ insideOf[u] = signal[u] \ {u}
          /\ pc[<<u, "run">>] \in Settled
          /\ toldOf[u] \in {"resolved", "rejected"}
          /\ toldOf[u] = "resolved" <=> pc[<<u, "run">>] = "resolved"
          BY <1>3, <2>3
    <3>2. u \notin Kept
          BY <1>1, <2>3 DEF Kept, Lasts
    <3>3. \A a \in signal[u] \ {t} :
             /\ a \in Txn \ {t} /\ kind[a] = "savepoint"
             /\ db[a] \in {"open", "kept"} <=> toldOf[a] = "resolved"
          BY <1>4, <2>3
    <3>4. Lasts(u)' <=> \A a \in signal[u] \ {t} : toldOf[a] = "resolved"
          BY <1>1, <2>3, <3>3 DEF Lasts
    <3>5. u \in U!Whole(t) <=> toldOf[u] = "resolved"
                               /\ \A a \in signal[u] \ {u, t} : toldOf[a] = "resolved"
      <4>1. t \in insideOf[u] /\ insideOf[u] \ {t} = signal[u] \ {u, t}
            BY <2>3, <3>1
      <4> QED BY <2>3, <4>1 DEF U!Whole
    <3>6. Lasts(u)' => toldOf[u] = "resolved"
      <4>1. CASE kind[u] = "savepoint"
        <5>1. u \in signal[u]
              BY <1>1, <4>1 DEF SignalledAt
        <5> QED BY <2>3, <3>4, <5>1
      <4>2. CASE kind[u] = "participant"
        <5> SUFFICES ASSUME Lasts(u)', toldOf[u] # "resolved" PROVE FALSE
            OBVIOUS
        <5>1. pc[<<u, "run">>] = "rejected"
              BY <3>1, <4>2 DEF Course, CourseAt, Settled
        <5>2. up[u] \in Txn /\ rollbackOnly[up[u]] /\ up[u] \in signal[u]
          <6>1. up[u] \in Txn /\ Owned(up[u]) /\ signal[u] = signal[up[u]]
                BY <1>1, <4>2 DEF ScopedAt, SignalledAt, Joins
          <6>2. up[u] \in signal[up[u]]
                BY <1>1, <6>1 DEF SignalledAt, Owned
          <6> QED BY <4>2, <5>1, <6>1, <6>2 DEF LeavesTidy, TidyAt
        <5>3. up[u] # t
              BY <1>1, <5>2
        <5>4. db[up[u]] = "kept" /\ ~rollbackOnly[up[u]]
              BY <1>4, <2>3, <3>3, <3>4, <5>2, <5>3
        <5> QED BY <5>2, <5>4
      <4> QED BY <3>1, <4>1, <4>2
    <3>7. u \in Kept' <=> Lasts(u)'
          BY <3>1, <1>1 DEF Kept, Transactional
    <3> QED BY <2>3, <3>2, <3>3, <3>4, <3>5, <3>6, <3>7
  <2> QED BY <2>1, <2>2, <2>3
<1>7. Kept \subseteq Txn /\ Kept' \subseteq Txn /\ U!Whole(t) \subseteq Txn
      BY <1>1 DEF Kept, U!Whole
<1> QED BY <1>5, <1>6, <1>7

\* A step of a run() that has begun is a step of its unit, or none.
LEMMA ProceedsUnit ==
    ASSUME Orderly, Tidy, CommitsAreFinal, TypeOK, TypeOK', Untouched, Shape, Wait, Course,
           LeavesTidy, NEW t \in Txn, Proceeds(t)
    PROVE  U!Next \/ UNCHANGED U!vars
<1>1. UNCHANGED <<kind, signal>> /\ kind[t] \in Kind \cup {"unused"}
      BY DEF Proceeds, identity, TypeOK
<1>2. insideOf' = insideOf
      BY <1>1 DEF insideOf, Transactional
<1>3. \A u \in Txn \ {t} : toldOf'[u] = toldOf[u]
  <2>1. \A u \in Txn \ {t} : pc'[<<u, "run">>] = pc[<<u, "run">>]
        BY ProceedsAside
  <2> QED BY <1>1, <2>1 DEF toldOf, Transactional, RunIs
<1>4. ASSUME NEW x, toldOf'[t] = x PROVE toldOf' = [toldOf EXCEPT ![t] = x]
  <2>1. DOMAIN toldOf = Txn /\ DOMAIN toldOf' = Txn
        BY DEF toldOf
  <2>2. /\ toldOf = [u \in Txn |-> toldOf[u]] /\ toldOf' = [u \in Txn |-> toldOf'[u]]
        BY DEF toldOf
  <2> QED BY <1>3, <1>4, <2>1, <2>2
<1>5. ASSUME toldOf'[t] = toldOf[t] PROVE toldOf' = toldOf
  <2>1. DOMAIN toldOf = Txn /\ DOMAIN toldOf' = Txn
        BY DEF toldOf
  <2>2. /\ toldOf = [u \in Txn |-> toldOf[u]] /\ toldOf' = [u \in Txn |-> toldOf'[u]]
        BY DEF toldOf
  <2> QED BY <1>3, <1>5, <2>1, <2>2
<1>6. CourseAt(t) /\ CourseAt(t)' /\ SignalledAt(t) /\ ScopedAt(t)
      BY ProceedsCourse DEF Course, Shape
<1>7. /\ Transactional(t)' <=> Transactional(t)
      /\ toldOf[t] = IF ~Transactional(t) THEN "nothing"
                     ELSE IF pc[<<t, "run">>] = "resolved" THEN "resolved"
                     ELSE IF pc[<<t, "run">>] \in {"rejected", "retrying", "replaced"} THEN "rejected"
                     ELSE "waiting"
      /\ toldOf'[t] = IF ~Transactional(t) THEN "nothing"
                      ELSE IF pc'[<<t, "run">>] = "resolved" THEN "resolved"
                      ELSE IF pc'[<<t, "run">>] \in {"rejected", "retrying", "replaced"} THEN "rejected"
                      ELSE "waiting"
      BY <1>1 DEF toldOf, Transactional, RunIs
<1>8. CASE kind[t] = "root" /\ db[t] = "open" /\ db'[t] = "kept"
  <2>1. pc[<<t, "run">>] = "adapterCommit" /\ pc'[<<t, "run">>] = "afterCommit"
        BY <1>8, ProceedsEnds
  <2>2. db' = [db EXCEPT ![t] = "kept"]
    <3>1. db \in [Txn -> {"none", "open", "kept", "undone"}] /\ db' \in [Txn -> {"none", "open", "kept", "undone"}]
          BY DEF TypeOK
    <3>2. \A u \in Txn \ {t} : db'[u] = db[u]
          BY ProceedsAside
    <3> QED BY <1>8, <3>1, <3>2
  <2>3. /\ \A u \in Txn : t \in insideOf[u] => toldOf[u] # "waiting"
        /\ Kept' = Kept \cup U!Whole(t)
        BY <1>1, <1>8, <2>1, <2>2, RootKeeps
  <2>4. toldOf[t] = "waiting" /\ toldOf' = toldOf
        BY <1>5, <1>7, <1>8, <2>1 DEF Transactional
  <2>5. insideOf[t] = {}
        BY <1>6, <1>8 DEF insideOf, SignalledAt
  <2>6. t \notin Kept
    <3>1. Active(t)
          BY <1>8, <2>1 DEF Active, Unused, Settled
    <3> QED BY <1>8, <3>1, ActiveIsNotKept
  <2> QED BY <1>2, <2>3, <2>4, <2>5, <2>6, UnitKeeps
<1>9. CASE ~(kind[t] = "root" /\ db[t] = "open" /\ db'[t] = "kept")
  <2>1. Kept' = Kept
        BY <1>9, KeptWithRoots
  <2>2. CASE toldOf'[t] = toldOf[t]
        BY <1>2, <1>5, <2>1, <2>2, UnitStutters
  <2>3. CASE toldOf'[t] # toldOf[t]
    <3>1. Transactional(t) /\ pc' # pc /\ pc'[<<t, "run">>] # pc[<<t, "run">>]
          BY <1>7, <2>3
    <3>2. pc[<<t, "run">>] \in Later \ Settled
          BY <3>1, ProceedsMoves
    <3>3. pc[<<t, "run">>] # "retrying"
          BY <1>7, <2>3, <3>1, ProceedsEnds
    <3>4. toldOf[t] = "waiting" /\ Active(t)
          BY <1>7, <3>1, <3>2, <3>3 DEF Settled, Active, Unused, Transactional
    <3>5. CASE toldOf'[t] = "resolved"
      <4>1. pc'[<<t, "run">>] = "resolved"
            BY <1>7, <3>1, <3>5
      <4>2. insideOf[t] = {} => t \in Kept
        <5> SUFFICES ASSUME insideOf[t] = {} PROVE t \in Kept
            OBVIOUS
        <5>1. signal[t] \subseteq {t}
              BY <3>1 DEF insideOf
        <5>2. kind[t] = "root"
              BY <1>6, <3>1, <5>1 DEF SignalledAt, Transactional
        <5>3. db'[t] = "kept"
              BY <1>1, <1>6, <4>1, <5>2 DEF CourseAt, Owned
        <5>4. db[t] = "kept"
          <6>1. db' = db \/ db[t] = "open"
                BY ProceedsEndsWork
          <6> QED BY <1>9, <5>2, <5>3, <6>1
        <5> QED BY <1>6, <3>1, <5>1, <5>2, <5>4 DEF Kept, Lasts, SignalledAt
      <4> QED BY <1>2, <1>4, <2>1, <3>4, <3>5, <4>2, UnitResolves
    <3>6. CASE toldOf'[t] = "rejected"
      <4>1. pc'[<<t, "run">>] # "resolved"
            BY <1>7, <3>1, <3>6
      <4>2. kind[t] = "root" => db[t] # "kept"
        <5>1. pc[<<t, "run">>] # "afterCommit"
              BY <4>1, ProceedsEnds
        <5> QED BY <1>6, <3>2, <3>3, <5>1 DEF CourseAt, Owned
      <4>3. t \notin Kept
            BY <3>4, <4>2, ActiveIsNotKept
      <4> QED BY <1>2, <1>4, <2>1, <3>4, <3>6, <4>3, UnitRejects
    <3> QED BY <1>7, <2>3, <3>1, <3>4, <3>5, <3>6
  <2> QED BY <2>2, <2>3
<1> QED BY <1>8, <1>9

\* A unit is entered inside units that are under way.
LEMMA OpensUnit ==
    ASSUME TypeOK, Untouched, Shape, Wait, Course, NEW t \in Txn, NEW o \in Txn \cup {NoTxn},
           NoTxn \notin Txn, Placed(t, o), o # NoTxn => pc[<<o, "run">>] = "body", db' = db,
           pc'[<<t, "run">>] = Opening(t),
           \A u \in Txn \ {t} :
              \/ pc'[<<u, "run">>] = pc[<<u, "run">>]
              \/ pc[<<u, "run">>] = "retrying" /\ pc'[<<u, "run">>] = "replaced"
    PROVE  U!Next \/ UNCHANGED U!vars
<1>1. /\ Unused(t) /\ kind'[t] \in Kind
      /\ \A u \in Txn \ {t} : kind'[u] = kind[u] /\ signal'[u] = signal[u]
      /\ \A u \in Txn : signal[u] \in SUBSET Txn
      BY DEF Placed, TypeOK
<1>2. \A u \in Txn : t \notin signal[u]
      BY <1>1 DEF Shape, SignalledAt, ScopedAt, Owned, Unused
<1>3. /\ db[t] = "none" /\ pc[<<t, "run">>] = "idle" /\ signal[t] = {}
      BY <1>1 DEF Untouched, UntouchedAt, Shape, ScopedAt
<1>4. toldOf[t] = "nothing" /\ insideOf[t] = {} /\ t \notin Kept
      BY <1>1 DEF toldOf, insideOf, Kept, Transactional, Unused
<1>5. \A u \in Txn \ {t} : toldOf'[u] = toldOf[u] /\ insideOf'[u] = insideOf[u]
  <2>1. ASSUME NEW u \in Txn \ {t} PROVE toldOf'[u] = toldOf[u]
    <3>1. Transactional(u)' <=> Transactional(u)
          BY <1>1 DEF Transactional
    <3>2. /\ RunIs(u, {"resolved"})' <=> RunIs(u, {"resolved"})
          /\ RunIs(u, {"rejected", "retrying", "replaced"})' <=> RunIs(u, {"rejected", "retrying", "replaced"})
          BY DEF RunIs
    <3> QED BY <3>1, <3>2 DEF toldOf
  <2>2. ASSUME NEW u \in Txn \ {t} PROVE insideOf'[u] = insideOf[u]
        BY <1>1 DEF insideOf, Transactional
  <2> QED BY <2>1, <2>2
<1>6. \A u \in Txn \ {t} : u \in Kept' <=> u \in Kept
  <2>1. ASSUME NEW u \in Txn \ {t} PROVE (Lasts(u)' <=> Lasts(u)) /\ (Transactional(u)' <=> Transactional(u))
        BY <1>1, <1>2 DEF Lasts, Transactional
  <2> QED BY <2>1 DEF Kept
<1>7. CASE kind'[t] = "none"
  <2>1. toldOf'[t] = "nothing" /\ insideOf'[t] = {} /\ t \notin Kept'
        BY <1>7 DEF toldOf, insideOf, Kept, Transactional
  <2>2. toldOf' = toldOf
        BY <1>4, <1>5, <2>1 DEF toldOf
  <2>3. insideOf' = insideOf
        BY <1>4, <1>5, <2>1 DEF insideOf
  <2>4. Kept' = Kept
        BY <1>4, <1>6, <2>1 DEF Kept
  <2> QED BY <2>2, <2>3, <2>4, UnitStutters
<1>8. CASE kind'[t] # "none"
  <2>1. Transactional(t)'
        BY <1>1, <1>8 DEF Transactional, Kind
  <2>2. toldOf'[t] = "waiting"
        BY <2>1 DEF toldOf, RunIs, Opening
  <2>3. PICK around \in SUBSET Txn :
           /\ insideOf'[t] = around /\ \A e \in around : toldOf[e] = "waiting"
           /\ around = {} => kind'[t] = "root" /\ signal'[t] = {t}
           /\ around # {} => \E r \in around : r \in signal'[t] /\ kind[r] = "root" /\ db[r] = "open"
    <3>1. insideOf'[t] = signal'[t] \ {t}
          BY <2>1 DEF insideOf
    <3>2. CASE kind'[t] = "root"
      <4>1. signal'[t] = {t}
            BY <3>2 DEF Placed
      <4> QED BY <3>1, <3>2, <4>1
    <3>3. CASE kind'[t] \in {"participant", "savepoint"}
      <4>1. PICK c \in Txn :
               /\ o \in Txn /\ Owned(c) /\ (c = o \/ (kind[o] = "participant" /\ c = up[o]))
               /\ signal'[t] = signal[c] \cup (IF kind'[t] = "savepoint" THEN {t} ELSE {})
            BY <3>3 DEF Placed
      <4>2. insideOf'[t] = signal[c]
            BY <1>2, <3>1, <4>1
      <4>3. pc[<<o, "run">>] = "body" /\ Active(o)
        <5>1. pc[<<o, "run">>] = "body"
              BY <4>1
        <5> QED BY <4>1, <5>1 DEF Active, Untouched, UntouchedAt, Settled
      <4>4. pc[<<c, "run">>] = "body" /\ Active(c)
        <5>1. kind[o] = "participant" => up[o] \in Txn \ {o} /\ Around(up[o], o)
              BY <4>1 DEF Shape, ScopedAt, Joins
        <5> QED BY <4>1, <4>3, <5>1, AncestorsWait
      <4>5. ASSUME NEW e \in signal[c]
            PROVE  e \in Txn /\ toldOf[e] = "waiting" /\ db[e] = "open"
        <5>1. e \in Txn /\ Owned(e) /\ Around(e, c)
              BY <4>1, <4>5, <1>1 DEF Shape, SignalledAt
        <5>2. pc[<<e, "run">>] = "body"
              BY <4>4, <5>1, AncestorsWait
        <5>3. db[e] = "open"
              BY <5>1, <5>2 DEF Course, CourseAt, Underway
        <5> QED BY <5>1, <5>2, <5>3 DEF toldOf, Transactional, RunIs, Owned
      <4>6. \E r \in signal[c] : kind[r] = "root"
            BY <4>1 DEF Shape, SignalledAt, Transactional, Owned
      <4> QED BY <1>1, <4>1, <4>2, <4>5, <4>6
    <3> QED BY <1>1, <1>8, <3>2, <3>3 DEF Kind
  <2>4. t \notin Kept'
    <3>1. CASE around = {}
          BY <1>3, <2>3, <3>1 DEF Kept, Lasts
    <3>2. CASE around # {}
      <4>1. PICK r \in around : r \in signal'[t] /\ kind[r] = "root" /\ db[r] = "open"
            BY <2>3, <3>2
      <4>2. r # t /\ kind'[r] = "root" /\ db'[r] = "open"
            BY <1>1, <4>1 DEF Unused
      <4> QED BY <4>1, <4>2 DEF Kept, Lasts
    <3> QED BY <3>1, <3>2
  <2>5. toldOf' = [toldOf EXCEPT ![t] = "waiting"]
        BY <1>5, <2>2 DEF toldOf
  <2>6. insideOf' = [insideOf EXCEPT ![t] = around]
        BY <1>5, <2>3 DEF insideOf
  <2>7. Kept' = Kept
        BY <1>4, <1>6, <2>4 DEF Kept
  <2> QED BY <1>4, <2>3, <2>5, <2>6, <2>7, UnitEnters
<1> QED BY <1>7, <1>8

LEMMA UnitStep ==
    ASSUME Orderly, Tidy, CommitsAreFinal, TypeOK, TypeOK', Untouched, Shape, Wait, Course,
           LeavesTidy, [Next]_vars
    PROVE  [U!Next]_U!vars
<1> USE DEF identity, flags
<1>0. NoTxn \notin Txn
      BY TransactionConstants DEF TransactionConstants
<1>1. CASE UNCHANGED vars
  <2>1. UNCHANGED <<kind, signal, db, pc>>
        BY <1>1 DEF vars
  <2>2. UNCHANGED <<toldOf, insideOf>> /\ Kept' = Kept
        BY <2>1 DEF toldOf, insideOf, Kept, Transactional, RunIs, Lasts
  <2> QED BY <2>2, UnitStutters
<1>2. ASSUME NEW t \in Txn, NEW o \in Txn \cup {NoTxn}, NEW p \in Propagations, Begin(t, o, p)
      PROVE  [U!Next]_U!vars
  <2>1. /\ pc' = [pc EXCEPT ![<<t, "run">>] = Opening(t)] /\ db' = db /\ Unused(t)
        /\ Open(t, o, p, NoTxn)
        BY <1>2 DEF Begin
  <2>2. o # NoTxn => pc[<<o, "run">>] = "body"
        BY <1>2 DEF Begin, InContext, Orderly, Wait, WaitAt
  <2>3. o = NoTxn \/ ~Unused(o)
        BY <2>2 DEF Untouched, UntouchedAt
  <2>4. Placed(t, o)
        BY <2>1, <2>3, OpenPlaced
  <2>5. /\ pc'[<<t, "run">>] = Opening(t)
        /\ \A u \in Txn \ {t} : pc'[<<u, "run">>] = pc[<<u, "run">>]
        BY <2>1 DEF TypeOK, Call
  <2> QED BY <1>0, <2>1, <2>2, <2>4, <2>5, OpensUnit
<1>3. ASSUME NEW t \in Txn, NEW again \in Txn, Replay(t, again)
      PROVE  [U!Next]_U!vars
  <2>1. /\ pc[<<t, "run">>] = "retrying" /\ db' = db /\ Unused(again)
        /\ pc' = [pc EXCEPT ![<<t, "run">>] = "replaced", ![<<again, "run">>] = Opening(again)]
        /\ Open(again, outer[t], mode[t], t)
        BY <1>3 DEF Replay
  <2>2. t # again /\ Active(t)
        BY <2>1 DEF Untouched, UntouchedAt, Active, Settled
  <2>3. /\ outer[t] \in Txn \cup {NoTxn}
        /\ outer[t] # NoTxn => pc[<<outer[t], "run">>] = "body"
        BY <2>2 DEF Wait, WaitAt, TypeOK
  <2>4. outer[t] = NoTxn \/ ~Unused(outer[t])
        BY <2>3 DEF Untouched, UntouchedAt
  <2>5. Placed(again, outer[t])
        BY <2>1, <2>3, <2>4, OpenPlaced
  <2>6. /\ pc'[<<again, "run">>] = Opening(again)
        /\ \A u \in Txn \ {again} :
              \/ pc'[<<u, "run">>] = pc[<<u, "run">>]
              \/ pc[<<u, "run">>] = "retrying" /\ pc'[<<u, "run">>] = "replaced"
        BY <2>1, <2>2 DEF TypeOK, Call
  <2> QED BY <1>0, <2>1, <2>3, <2>5, <2>6, OpensUnit
<1>4. ASSUME NEW t \in Txn, Begun(t) \/ BeginFails(t) \/ Started(t) \/ AfterBeginFails(t)
      PROVE  [U!Next]_U!vars
  <2>1. /\ pc[<<t, "run">>] \in {"beginning", "started"} /\ UNCHANGED <<kind, signal>>
        /\ \A u \in Txn \ {t} : db'[u] = db[u] /\ pc'[<<u, "run">>] = pc[<<u, "run">>]
        BY <1>4 DEF Begun, BeginFails, Started, AfterBeginFails, TypeOK, Call
  <2>2. Owned(t) /\ SignalledAt(t) /\ Active(t)
        BY <2>1 DEF Course, CourseAt, Shape, Active, Owned, Unused, Settled
  <2>3. /\ toldOf[t] = "waiting" /\ insideOf' = insideOf
        /\ \A u \in Txn \ {t} : toldOf'[u] = toldOf[u]
        BY <2>1, <2>2 DEF toldOf, insideOf, Transactional, RunIs, Owned
  <2>4. db[t] \in {"none", "open"} /\ db'[t] \in {"none", "open"}
    <3>1. pc[<<t, "run">>] = "beginning" => db[t] = "none"
          BY DEF Untouched, UntouchedAt
    <3>2. pc[<<t, "run">>] = "started" => db[t] = "open"
          BY <2>2 DEF Course, CourseAt, Underway
    <3>3. db'[t] = db[t] \/ db'[t] = "open"
          BY <1>4 DEF Begun, BeginFails, Started, AfterBeginFails, TypeOK
    <3> QED BY <2>1, <3>1, <3>2, <3>3
  <2>5. t \notin Kept
        BY <2>2, <2>4, ActiveIsNotKept
  <2>6. Kept' = Kept
    <3>1. PICK r \in signal[t] : kind[r] = "root"
          BY <2>2 DEF SignalledAt, Transactional, Owned
    <3>2. r \in Txn /\ db[r] # "kept" /\ db'[r] # "kept"
      <4>1. r \in Txn /\ Around(r, t)
            BY <2>2, <3>1 DEF SignalledAt, TypeOK
      <4>2. CASE r = t
            BY <2>4, <4>1, <4>2
      <4>3. CASE r # t
        <5>1. pc[<<r, "run">>] = "body"
              BY <2>2, <4>1, <4>3, AncestorsWait
        <5>2. db[r] = "open"
              BY <3>1, <4>1, <5>1 DEF Course, CourseAt, Underway, Owned
        <5> QED BY <2>1, <4>1, <4>3, <5>2
      <4> QED BY <4>2, <4>3
    <3>3. ASSUME NEW u \in Txn PROVE Lasts(u)' <=> Lasts(u)
      <4>1. signal[u] \in SUBSET Txn /\ SignalledAt(u)
            BY DEF TypeOK, Shape
      <4>2. CASE t \in signal[u]
        <5>1. r \in signal[u]
              BY <3>1, <4>1, <4>2 DEF SignalledAt
        <5> QED BY <2>1, <3>1, <3>2, <5>1 DEF Lasts
      <4>3. CASE t \notin signal[u]
            BY <2>1, <4>1, <4>3 DEF Lasts
      <4> QED BY <4>2, <4>3
    <3> QED BY <2>1, <3>3 DEF Kept, Transactional
  <2>7. CASE toldOf'[t] = "rejected"
    <3>1. toldOf' = [toldOf EXCEPT ![t] = "rejected"]
          BY <2>3, <2>7 DEF toldOf
    <3> QED BY <2>3, <2>5, <2>6, <3>1, UnitRejects
  <2>8. CASE toldOf'[t] = "waiting"
    <3>1. toldOf' = toldOf
          BY <2>3, <2>8 DEF toldOf
    <3> QED BY <2>3, <2>6, <3>1, UnitStutters
  <2>9. toldOf'[t] \in {"waiting", "rejected"}
    <3>1. PICK end \in {"started", "body", "rejected", "retrying"} : pc' = [pc EXCEPT ![<<t, "run">>] = end]
          BY <1>4 DEF Begun, BeginFails, Started, AfterBeginFails, RunEnds
    <3>2. pc'[<<t, "run">>] = end
          BY <3>1 DEF TypeOK, Call
    <3> QED BY <2>1, <2>2, <3>2 DEF toldOf, Transactional, RunIs, Owned
  <2> QED BY <2>7, <2>8, <2>9
<1>5. ASSUME NEW t \in Txn, Timeout(t)
      PROVE  [U!Next]_U!vars
      BY <1>5 DEF Timeout, Wait, WaitAt
<1>6. ASSUME NEW t \in Txn, NEW k \in Call, Continues(t, k)
      PROVE  [U!Next]_U!vars
  <2>1. Proceeds(t)
        BY <1>6, OrderlyProceeds
  <2> QED BY <2>1, ProceedsUnit
<1> QED BY <1>1, <1>2, <1>3, <1>4, <1>5, <1>6, NextContinues

\* A unit of work lasts completely or not at all: every step of the manager tells
\* one caller what is true, lets a unit in, keeps a whole, or is nobody's business.
THEOREM ManagerImplementsUnitOfWork ==
    ASSUME Orderly, Tidy, CommitsAreFinal
    PROVE  Spec => ImplementsUnitOfWork
<1>1. Init => U!Init
  <2> SUFFICES ASSUME Init PROVE U!Init
      OBVIOUS
  <2>1. \A t \in Txn : ~Transactional(t)
        BY DEF Init, Transactional
  <2> QED BY <2>1 DEF U!Init, toldOf, insideOf
<1>2. /\ TypeOK /\ TypeOK' /\ Untouched /\ Shape /\ Wait /\ Course /\ LeavesTidy /\ [Next]_vars
      => [U!Next]_U!vars
      BY UnitStep
<1> QED BY <1>1, <1>2, KeepsTidy, KeepsCourse, Nested, TypesAreKept, PTL
        DEF Spec, ImplementsUnitOfWork, U!Spec
=============================================================================
