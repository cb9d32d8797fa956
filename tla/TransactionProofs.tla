------------------------- MODULE TransactionProofs -------------------------
(***************************************************************************)
(* Theorems about the transaction manager, for any number of attempts and  *)
(* every choice of timeouts, retries, hooks and adapter failures.          *)
(***************************************************************************)
EXTENDS TransactionProperties, TLAPS

\* A handle is untouched until its begin() is done: before, nothing can have
\* completed it.
UntouchedAt(t) ==
    /\ Unused(t) => /\ pc[<<t, "run">>] = "idle" /\ pc[<<t, "hand">>] = "idle"
                    /\ state[t] = "pending" /\ db[t] = "none" /\ body[t] = "none"
    /\ pc[<<t, "run">>] \in {"beginning", "started"} =>
          pc[<<t, "hand">>] = "idle" /\ body[t] = "none"
    /\ pc[<<t, "run">>] = "beginning" => state[t] = "pending" /\ db[t] = "none"

Untouched == \A t \in Txn : UntouchedAt(t)

\* What a resolved run() relies on: a committed state, or a call past the
\* adapter's commit, means that the adapter kept the work.
KeptAt(t) ==
    /\ state[t] = "committed" => db[t] = "kept"
    /\ \A k \in Call : pc[<<t, k>>] \in {"afterCommit", "resolved"} => db[t] = "kept"

KeptWhenCommitted == \A t \in Txn : Owned(t) => KeptAt(t)

-----------------------------------------------------------------------------
(* What the parts of the actions do to the variables' types *)

\* The types of the calls, the timers and the flags a settling call touches.
CallTypes == /\ pc \in [Txn \X Call -> Stage]
             /\ timer \in [Txn -> BOOLEAN]
             /\ rollbackOnly \in [Txn -> BOOLEAN]

\* The types of what the transaction object changes.
ObjectTypes == /\ state \in [Txn -> State]
               /\ held \in [Txn -> SUBSET Work]
               /\ ran \in SUBSET Work
               /\ undone \in SUBSET Work

\* A call that ends (release() in the finally of run(), commit() and rollback())
\* ends in a stage, and releases timers only.
LEMMA SettleTypes ==
    ASSUME TypeOK, NEW t \in Txn, NEW k \in Call,
           NEW result \in {"resolved", "rejected"}, Settle(t, k, result)
    PROVE  pc' \in [Txn \X Call -> Stage] /\ timer' \in [Txn -> BOOLEAN]
<1>1. PICK end \in Stage : pc' = [pc EXCEPT ![<<t, k>>] = end]
      BY DEF Settle, RunEnds, Stage, Settled
<1>2. pc' \in [Txn \X Call -> Stage]
      BY <1>1 DEF TypeOK
<1>3. timer' \in [Txn -> BOOLEAN]
      BY DEF Settle, TypeOK
<1> QED BY <1>2, <1>3

\* A call that awaits keeps its stage within the stages.
LEMMA AwaitTypes ==
    ASSUME TypeOK, NEW t \in Txn, NEW k \in Call, NEW stage \in Stage, Await(t, k, stage)
    PROVE  pc' \in [Txn \X Call -> Stage] /\ timer' \in [Txn -> BOOLEAN]
BY DEF Await, TypeOK

\* rollbackTransaction() up to its first await keeps the types.
LEMMA RollbackStartTypes ==
    ASSUME TypeOK, NEW t \in Txn, NEW k \in Call, RollbackStart(t, k)
    PROVE  CallTypes'
<1>1. rollbackOnly' \in [Txn -> BOOLEAN]
      BY DEF RollbackStart, TypeOK
<1>2. pc' \in [Txn \X Call -> Stage] /\ timer' \in [Txn -> BOOLEAN]
      BY SettleTypes, AwaitTypes DEF RollbackStart, Stage
<1> QED BY <1>1, <1>2 DEF CallTypes

\* So does the error path of run() and of a completion by hand.
LEMMA ThrowTypes ==
    ASSUME TypeOK, NEW t \in Txn, NEW k \in Call, Throw(t, k)
    PROVE  CallTypes'
<1>1. CASE k = "run"
      BY <1>1, RollbackStartTypes DEF Throw
<1>2. CASE k # "run"
      BY <1>2, SettleTypes DEF Throw, CallTypes, TypeOK
<1> QED BY <1>1, <1>2

\* transaction.commit() keeps the types.
LEMMA ObjectCommitsTypes ==
    ASSUME TypeOK, NEW t \in Txn, ObjectCommits(t)
    PROVE  ObjectTypes'
<1>1. state' \in [Txn -> State]
      BY DEF ObjectCommits, TypeOK, State, Terminal
<1>2. held' \in [Txn -> SUBSET Work]
      BY DEF ObjectCommits, TypeOK
<1>3. ran' \in SUBSET Work /\ undone' \in SUBSET Work
      BY DEF ObjectCommits, TypeOK
<1> QED BY <1>1, <1>2, <1>3 DEF ObjectTypes

\* transaction.rollback() keeps the types.
LEMMA ObjectRollsBackTypes ==
    ASSUME TypeOK, NEW t \in Txn, ObjectRollsBack(t)
    PROVE  ObjectTypes'
<1>1. state' \in [Txn -> State]
      BY DEF ObjectRollsBack, TypeOK, State, Terminal
<1>2. held' \in [Txn -> SUBSET Work]
      BY DEF ObjectRollsBack, TypeOK
<1>3. ran' \in SUBSET Work /\ undone' \in SUBSET Work
      BY DEF ObjectRollsBack, TypeOK
<1> QED BY <1>1, <1>2, <1>3 DEF ObjectTypes

\* commitTransaction() up to its first await keeps the types.
LEMMA CommitStartTypes ==
    ASSUME TypeOK, NEW t \in Txn, NEW k \in Call, CommitStart(t, k)
    PROVE  CallTypes' /\ ObjectTypes'
<1>1. CASE kind[t] = "participant" \/ state[t] = "committed"
      BY <1>1, SettleTypes DEF CommitStart, CallTypes, ObjectTypes, TypeOK, work
<1>2. CASE /\ ~(kind[t] = "participant" \/ state[t] = "committed")
           /\ state[t] # "active" \/ (kind[t] = "none" /\ rollbackOnly[t])
      BY <1>2, ThrowTypes DEF CommitStart, ObjectTypes, TypeOK, work
<1>3. CASE /\ ~(kind[t] = "participant" \/ state[t] = "committed")
           /\ ~(state[t] # "active" \/ (kind[t] = "none" /\ rollbackOnly[t]))
           /\ kind[t] = "none"
      BY <1>3, AwaitTypes, ObjectCommitsTypes DEF CommitStart, CallTypes, TypeOK, Stage
<1>4. CASE /\ ~(kind[t] = "participant" \/ state[t] = "committed")
           /\ ~(state[t] # "active" \/ (kind[t] = "none" /\ rollbackOnly[t]))
           /\ kind[t] # "none"
      BY <1>4, AwaitTypes DEF CommitStart, CallTypes, ObjectTypes, TypeOK, Stage, work
<1> QED BY <1>1, <1>2, <1>3, <1>4

\* Resolving a handle keeps the types: Current() is a transaction or none.
LEMMA OpenTypes ==
    ASSUME TypeOK, TransactionConstants, NEW t \in Txn, NEW o \in Txn \cup {NoTxn},
           NEW p \in Mode \cup {"unused"}, NEW failed \in Txn \cup {NoTxn}, Open(t, o, p, failed)
    PROVE  /\ kind' \in [Txn -> Kind \cup {"unused"}] /\ mode' \in [Txn -> Mode \cup {"unused"}]
           /\ up' \in [Txn -> Txn \cup {NoTxn}] /\ outer' \in [Txn -> Txn \cup {NoTxn}]
           /\ replays' \in [Txn -> Txn \cup {NoTxn}] /\ signal' \in [Txn -> SUBSET Txn]
           /\ state' \in [Txn -> State] /\ body' \in [Txn -> {"none", "running", "done"}]
<1> DEFINE current == IF Suspends(p) THEN NoTxn ELSE Current(o)
           k == Resolve(p, current # NoTxn)
<1>1. current \in Txn \cup {NoTxn}
      BY DEF Current, Real, TypeOK
<1>2. k \in Kind \cup {"refused"}
      BY DEF Resolve, Kind
<1>3. k \in {"participant", "savepoint"} => current \in Txn
      BY <1>1 DEF Resolve
<1>4. k # "refused"
      BY DEF Open
<1> HIDE DEF current, k
<1>5. kind' \in [Txn -> Kind \cup {"unused"}] /\ mode' \in [Txn -> Mode \cup {"unused"}]
      BY <1>2, <1>4 DEF Open, TypeOK, current, k
<1>6. up' \in [Txn -> Txn \cup {NoTxn}]
      <2>1. up' = [up EXCEPT ![t] = IF k \in {"participant", "savepoint"}
                                    THEN current ELSE NoTxn]
            BY DEF Open, current, k
      <2> QED BY <2>1, <1>1 DEF TypeOK
<1>7. outer' \in [Txn -> Txn \cup {NoTxn}] /\ replays' \in [Txn -> Txn \cup {NoTxn}]
      BY DEF Open, TypeOK
<1>8. signal' \in [Txn -> SUBSET Txn]
      <2>1. signal' = [signal EXCEPT ![t] =
               (IF k = "participant" THEN {} ELSE {t}) \cup
               (IF k \in {"participant", "savepoint"} THEN signal[current] ELSE {})]
            BY DEF Open, current, k
      <2> QED BY <2>1, <1>3 DEF TypeOK
<1>9. state' \in [Txn -> State] /\ body' \in [Txn -> {"none", "running", "done"}]
      BY DEF Open, TypeOK, State, Terminal
<1> QED BY <1>5, <1>6, <1>7, <1>8, <1>9

\* Every step of the manager keeps the types.
LEMMA TypeStep ==
    ASSUME TypeOK, TransactionConstants, [Next]_vars
    PROVE  TypeOK'
<1> USE DEF identity, flags, work
<1>1. CASE UNCHANGED vars
      BY <1>1 DEF vars, TypeOK
<1>2. ASSUME NEW t \in Txn, NEW o \in Txn \cup {NoTxn}, NEW p \in Propagations, Begin(t, o, p)
      PROVE  TypeOK'
      BY <1>2, OpenTypes DEF Begin, TransactionConstants, Opening, Stage, TypeOK
<1>3. ASSUME NEW t \in Txn, NEW again \in Txn, Replay(t, again)
      PROVE  TypeOK'
      BY <1>3, OpenTypes DEF Replay, Opening, Stage, Settled, TypeOK
<1>4. ASSUME NEW t \in Txn, Begun(t) PROVE TypeOK'
      BY <1>4 DEF Begun, Stage, State, Terminal, TypeOK
<1>5. ASSUME NEW t \in Txn, BeginFails(t) PROVE TypeOK'
  <2>1. PICK end \in Stage : pc' = [pc EXCEPT ![<<t, "run">>] = end]
        BY <1>5 DEF BeginFails, RunEnds, Stage, Settled
  <2>2. pc' \in [Txn \X Call -> Stage]
        BY <2>1 DEF TypeOK
  <2>3. state' \in [Txn -> State]
        BY <1>5 DEF BeginFails, State, Terminal, TypeOK
  <2> QED BY <1>5, <2>2, <2>3 DEF BeginFails, TypeOK
<1>6. ASSUME NEW t \in Txn, Started(t) PROVE TypeOK'
      BY <1>6 DEF Started, Stage, TypeOK
<1>7. ASSUME NEW t \in Txn, AfterBeginFails(t) PROVE TypeOK'
  <2>1. PICK end \in Stage : pc' = [pc EXCEPT ![<<t, "run">>] = end]
        BY <1>7 DEF AfterBeginFails, RunEnds, Stage, Settled
  <2>2. pc' \in [Txn \X Call -> Stage]
        BY <2>1 DEF TypeOK
  <2> QED BY <1>7, <2>2 DEF AfterBeginFails, TypeOK
<1>8. ASSUME NEW t \in Txn, NEW k \in Call, BeforeCommit(t, k) PROVE TypeOK'
  <2>1. pc' \in [Txn \X Call -> Stage] /\ timer' \in [Txn -> BOOLEAN]
        BY <1>8, AwaitTypes DEF BeforeCommit, Stage
  <2>2. rollbackOnly' \in [Txn -> BOOLEAN]
        BY <1>8 DEF BeforeCommit, TypeOK
  <2>3. <<t, "hook">> \in Work
        BY DEF Work
  <2>4. held' \in [Txn -> SUBSET Work]
        BY <1>8, <2>3 DEF BeforeCommit, TypeOK
  <2> QED BY <1>8, <2>1, <2>2, <2>4 DEF BeforeCommit, TypeOK
<1>9. ASSUME NEW t \in Txn, NEW k \in Call, BeforeCommitFails(t, k) PROVE TypeOK'
      BY <1>9, ThrowTypes DEF BeforeCommitFails, CallTypes, TypeOK
<1>10. ASSUME NEW t \in Txn, NEW k \in Call, AdapterCommits(t, k) PROVE TypeOK'
      BY <1>10, AwaitTypes, SettleTypes, ObjectCommitsTypes DEF AdapterCommits, Fail, ObjectTypes, Stage, State, Terminal, TypeOK
<1>11. ASSUME NEW t \in Txn, NEW k \in Call, AdapterRefusesCommit(t, k) PROVE TypeOK'
      BY <1>11, SettleTypes DEF AdapterRefusesCommit, Fail, State, Terminal, TypeOK
<1>12. ASSUME NEW t \in Txn, NEW k \in Call, AfterCommit(t, k) PROVE TypeOK'
  <2>1. pc' \in [Txn \X Call -> Stage] /\ timer' \in [Txn -> BOOLEAN]
        BY <1>12, SettleTypes DEF AfterCommit
  <2>2. <<t, "hook">> \in Work
        BY DEF Work
  <2>3. ran' \in SUBSET Work
        BY <1>12, <2>2 DEF AfterCommit, TypeOK
  <2> QED BY <1>12, <2>1, <2>3 DEF AfterCommit, TypeOK
<1>13. ASSUME NEW t \in Txn, NEW k \in Call, AfterCommitFails(t, k) PROVE TypeOK'
  <2>1. pc' \in [Txn \X Call -> Stage] /\ timer' \in [Txn -> BOOLEAN]
        BY <1>13, SettleTypes DEF AfterCommitFails
  <2>2. <<t, "hook">> \in Work
        BY DEF Work
  <2>3. ran' \in SUBSET Work
        BY <1>13, <2>2 DEF AfterCommitFails, TypeOK
  <2> QED BY <1>13, <2>1, <2>3 DEF AfterCommitFails, TypeOK
<1>14. ASSUME NEW t \in Txn, NEW k \in Call, BeforeRollback(t, k) PROVE TypeOK'
      BY <1>14, AwaitTypes DEF BeforeRollback, Stage, TypeOK
<1>15. ASSUME NEW t \in Txn, NEW k \in Call, BeforeRollbackFails(t, k) PROVE TypeOK'
      BY <1>15, ThrowTypes, SettleTypes DEF BeforeRollbackFails, CallTypes, TypeOK
<1>16. ASSUME NEW t \in Txn, NEW k \in Call, AdapterRollsBack(t, k) PROVE TypeOK'
      BY <1>16, AwaitTypes, SettleTypes, ObjectRollsBackTypes DEF AdapterRollsBack, ObjectTypes, Stage, TypeOK
<1>17. ASSUME NEW t \in Txn, NEW k \in Call, AdapterRefusesRollback(t, k) PROVE TypeOK'
      BY <1>17, SettleTypes DEF AdapterRefusesRollback, Fail, State, Terminal, TypeOK
<1>18. ASSUME NEW t \in Txn, NEW k \in Call, AfterRollback(t, k) PROVE TypeOK'
      BY <1>18, SettleTypes DEF AfterRollback, TypeOK
<1>19. ASSUME NEW t \in Txn, Register(t) PROVE TypeOK'
  <2>1. <<t, "callback">> \in Work
        BY DEF Work
  <2>2. held' \in [Txn -> SUBSET Work]
        BY <1>19, <2>1 DEF Register, TypeOK
  <2> QED BY <1>19, <2>2 DEF Register, TypeOK
<1>20. ASSUME NEW t \in Txn, MarkRollbackOnly(t) PROVE TypeOK'
      BY <1>20 DEF MarkRollbackOnly, TypeOK
<1>21. ASSUME NEW t \in Txn, CommitByHand(t) PROVE TypeOK'
      BY <1>21, CommitStartTypes DEF CommitByHand, CallTypes, ObjectTypes, Call, TypeOK
<1>22. ASSUME NEW t \in Txn, RollbackByHand(t) PROVE TypeOK'
      BY <1>22, RollbackStartTypes DEF RollbackByHand, CallTypes, Call, TypeOK
<1>23. ASSUME NEW t \in Txn, CommitDirectly(t) PROVE TypeOK'
      BY <1>23, ObjectCommitsTypes DEF CommitDirectly, ObjectTypes, TypeOK
<1>24. ASSUME NEW t \in Txn, RollbackDirectly(t) PROVE TypeOK'
      BY <1>24, ObjectRollsBackTypes DEF RollbackDirectly, ObjectTypes, TypeOK
<1>25. ASSUME NEW t \in Txn, BodyReturns(t) PROVE TypeOK'
      BY <1>25, CommitStartTypes DEF BodyReturns, CallTypes, ObjectTypes, Call, TypeOK
<1>26. ASSUME NEW t \in Txn, BodyThrows(t) PROVE TypeOK'
      BY <1>26, ThrowTypes DEF BodyThrows, CallTypes, Call, TypeOK
<1>27. ASSUME NEW t \in Txn, AbandonedEnds(t) PROVE TypeOK'
      BY <1>27 DEF AbandonedEnds, TypeOK
<1>28. ASSUME NEW t \in Txn, Abandon(t) PROVE TypeOK'
      BY <1>28, ThrowTypes DEF Abandon, CallTypes, Call, TypeOK
<1>29. ASSUME NEW t \in Txn, Timeout(t) PROVE TypeOK'
      BY <1>29 DEF Timeout, TypeOK
<1>30. ASSUME NEW t \in Txn, GiveUp(t) PROVE TypeOK'
      BY <1>30 DEF GiveUp, Stage, Settled, TypeOK
<1> QED
      BY <1>1, <1>2, <1>3, <1>4, <1>5, <1>6, <1>7, <1>8, <1>9, <1>10, <1>11, <1>12, <1>13, <1>14, <1>15, <1>16, <1>17, <1>18, <1>19, <1>20, <1>21, <1>22, <1>23, <1>24, <1>25, <1>26, <1>27, <1>28, <1>29, <1>30
      DEF Next, Opens, Commits, RollsBack, Works


\* Every variable of the manager keeps its type: a handle is never in a state
\* the state machine does not know, and a call never between two awaits.
THEOREM TypesAreKept == Spec => []TypeOK
<1>1. Init => TypeOK
      BY DEF Init, TypeOK, Kind, State, Stage, Settled, Terminal, Work
<1>2. TypeOK /\ [Next]_vars => TypeOK'
      BY TypeStep, TransactionConstants
<1> QED BY <1>1, <1>2, PTL DEF Spec

-----------------------------------------------------------------------------
(* Which calls a step moves, and where to *)

\* Call k on t moved to one of the stages, if it moved at all; no other did.
Moves(t, k, stages) ==
    \A u \in Txn, j \in Call :
        \/ pc'[<<u, j>>] = pc[<<u, j>>]
        \/ u = t /\ j = k /\ pc'[<<u, j>>] \in stages

\* Where a failing call can go.
Failing == {"settled", "rejected", "retrying", "beforeRollback"}

\* The end of a call: only a resolved run() resolves.
LEMMA SettleMoves ==
    ASSUME TypeOK, NEW t \in Txn, NEW k \in Call,
           NEW result \in {"resolved", "rejected"}, Settle(t, k, result)
    PROVE  Moves(t, k, {"settled", "retrying", result})
<1>1. PICK end \in {"settled", "retrying", result} : pc' = [pc EXCEPT ![<<t, k>>] = end]
      BY DEF Settle, RunEnds
<1> QED BY <1>1 DEF Moves, TypeOK

LEMMA AwaitMoves ==
    ASSUME TypeOK, NEW t \in Txn, NEW k \in Call, NEW stage, Await(t, k, stage)
    PROVE  Moves(t, k, {stage})
BY DEF Await, Moves, TypeOK

\* rollbackTransaction() starts: the call ends rejected or asks the hook.
LEMMA RollbackStartMoves ==
    ASSUME TypeOK, NEW t \in Txn, NEW k \in Call, RollbackStart(t, k)
    PROVE  Moves(t, k, Failing)
<1>1. CASE Settle(t, k, "rejected")
  <2>1. Moves(t, k, {"settled", "retrying", "rejected"})
        BY <1>1, SettleMoves
  <2> QED BY <2>1 DEF Moves, Failing
<1>2. CASE Await(t, k, "beforeRollback")
  <2>1. Moves(t, k, {"beforeRollback"})
        BY <1>2, AwaitMoves
  <2> QED BY <2>1 DEF Moves, Failing
<1> QED BY <1>1, <1>2 DEF RollbackStart

LEMMA ThrowMoves ==
    ASSUME TypeOK, NEW t \in Txn, NEW k \in Call, Throw(t, k)
    PROVE  Moves(t, k, Failing)
<1>1. CASE Settle(t, k, "rejected")
  <2>1. Moves(t, k, {"settled", "retrying", "rejected"})
        BY <1>1, SettleMoves
  <2> QED BY <2>1 DEF Moves, Failing
<1> QED BY <1>1, RollbackStartMoves DEF Throw

\* commitTransaction() starts: it resolves at once only for a joined or an
\* already committed handle, and passes the adapter only where there is none.
LEMMA CommitStartMoves ==
    ASSUME TypeOK, NEW t \in Txn, NEW k \in Call, CommitStart(t, k)
    PROVE  \/ /\ Moves(t, k, Failing \cup {"refused", "beforeCommit"})
              /\ state' = state
           \/ /\ kind[t] = "participant" \/ state[t] = "committed"
              /\ Moves(t, k, {"settled", "retrying", "resolved"}) /\ state' = state
           \/ /\ kind[t] = "none" /\ Moves(t, k, {"afterCommit"})
              /\ state' = [state EXCEPT ![t] = "committed"] /\ state[t] = "active"
<1>1. CASE kind[t] = "participant" \/ state[t] = "committed"
      BY <1>1, SettleMoves DEF CommitStart
<1>2. CASE /\ ~(kind[t] = "participant" \/ state[t] = "committed")
           /\ state[t] # "active" \/ (kind[t] = "none" /\ rollbackOnly[t])
      BY <1>2, ThrowMoves DEF CommitStart, Moves
<1>3. CASE /\ ~(kind[t] = "participant" \/ state[t] = "committed")
           /\ ~(state[t] # "active" \/ (kind[t] = "none" /\ rollbackOnly[t]))
           /\ kind[t] = "none"
      BY <1>3, AwaitMoves DEF CommitStart, ObjectCommits
<1>4. CASE /\ ~(kind[t] = "participant" \/ state[t] = "committed")
           /\ ~(state[t] # "active" \/ (kind[t] = "none" /\ rollbackOnly[t]))
           /\ kind[t] # "none"
  <2>1. Moves(t, k, {"refused"}) \/ Moves(t, k, {"beforeCommit"})
        BY <1>4, AwaitMoves DEF CommitStart
  <2> QED BY <1>4, <2>1 DEF CommitStart, Moves
<1> QED BY <1>1, <1>2, <1>3, <1>4

-----------------------------------------------------------------------------
(* Steps of a transaction that has begun *)

Past(t) == ~Unused(t) /\ pc[<<t, "run">>] \notin {"beginning", "started"}
Later   == Stage \ {"idle", "beginning", "started"}

\* No step of t touches the identity of a handle, or another's fate.
Local(t) == /\ kind' = kind
            /\ \A u \in Txn \ {t} :
                  state'[u] = state[u] /\ db'[u] = db[u] /\ body'[u] = body[u]

\* What a handle does once its begin() is done, in call k or none.
Continues(t, k) ==
    \/ Commits(t, k) \/ RollsBack(t, k)
    \/ k = "hand" /\ (CommitByHand(t) \/ RollbackByHand(t))
    \/ k = "run" /\ (BodyReturns(t) \/ BodyThrows(t) \/ Abandon(t) \/ GiveUp(t))
    \/ Register(t) \/ MarkRollbackOnly(t)
    \/ CommitDirectly(t) \/ RollbackDirectly(t) \/ AbandonedEnds(t)

\* A call that awaits anything after begin(), and a callback that runs, show
\* that the begin() is done.
LEMMA ActiveIsPast ==
    ASSUME TypeOK, Untouched, NEW t \in Txn, NEW k \in Call,
           pc[<<t, k>>] \in Later \/ body[t] = "running"
    PROVE  Past(t)
BY DEF Untouched, UntouchedAt, Past, Later, Call

LEMMA CommitStartLater ==
    ASSUME TypeOK, NEW t \in Txn, NEW k \in Call, CommitStart(t, k)
    PROVE  Moves(t, k, Later)
<1>1. CASE Moves(t, k, Failing \cup {"refused", "beforeCommit"})
      BY <1>1 DEF Moves, Failing, Later, Stage, Settled
<1>2. CASE Moves(t, k, {"settled", "retrying", "resolved"})
      BY <1>2 DEF Moves, Later, Stage, Settled
<1>3. CASE Moves(t, k, {"afterCommit"})
      BY <1>3 DEF Moves, Later, Stage, Settled
<1> QED BY <1>1, <1>2, <1>3, CommitStartMoves

\* Such a step stays with its handle and moves its call forward.
LEMMA ContinuesLocally ==
    ASSUME TypeOK, Untouched, NEW t \in Txn, NEW k \in Call, Continues(t, k)
    PROVE  Past(t) /\ Local(t) /\ Moves(t, k, Later)
<1> USE DEF identity, flags, work
<1>1. ASSUME BeforeCommit(t, k) PROVE Past(t) /\ Local(t) /\ Moves(t, k, Later)
  <2>1. Past(t)
        BY <1>1, ActiveIsPast DEF BeforeCommit, Later, Stage, Settled, Call
  <2>2. Local(t)
        BY <1>1 DEF BeforeCommit, Local, TypeOK
  <2>3. Moves(t, k, {"adapterCommit"})
        BY <1>1, AwaitMoves DEF BeforeCommit
  <2>4. Moves(t, k, Later)
        BY <2>3 DEF Moves, Failing, Later, Stage, Settled
  <2> QED BY <2>1, <2>2, <2>4
<1>2. ASSUME BeforeCommitFails(t, k) PROVE Past(t) /\ Local(t) /\ Moves(t, k, Later)
  <2>1. Past(t)
        BY <1>2, ActiveIsPast DEF BeforeCommitFails, Later, Stage, Settled, Call
  <2>2. Local(t)
        BY <1>2 DEF BeforeCommitFails, Local, TypeOK
  <2>3. Moves(t, k, Failing)
        BY <1>2, ThrowMoves DEF BeforeCommitFails
  <2>4. Moves(t, k, Later)
        BY <2>3 DEF Moves, Failing, Later, Stage, Settled
  <2> QED BY <2>1, <2>2, <2>4
<1>3. ASSUME AdapterCommits(t, k) PROVE Past(t) /\ Local(t) /\ Moves(t, k, Later)
  <2>1. Past(t)
        BY <1>3, ActiveIsPast DEF AdapterCommits, Later, Stage, Settled, Call
  <2>2. Local(t)
        BY <1>3 DEF AdapterCommits, ObjectCommits, Fail, Local, TypeOK
  <2>3. Moves(t, k, {"afterCommit"}) \/ Moves(t, k, {"settled", "retrying", "resolved"}) \/ Moves(t, k, {"settled", "retrying", "rejected"})
        BY <1>3, SettleMoves, AwaitMoves DEF AdapterCommits, ObjectCommits, Fail
  <2>4. Moves(t, k, Later)
        BY <2>3 DEF Moves, Failing, Later, Stage, Settled
  <2> QED BY <2>1, <2>2, <2>4
<1>4. ASSUME AdapterRefusesCommit(t, k) PROVE Past(t) /\ Local(t) /\ Moves(t, k, Later)
  <2>1. Past(t)
        BY <1>4, ActiveIsPast DEF AdapterRefusesCommit, Later, Stage, Settled, Call
  <2>2. Local(t)
        BY <1>4 DEF AdapterRefusesCommit, Fail, Local, TypeOK
  <2>3. Moves(t, k, {"settled", "retrying", "rejected"})
        BY <1>4, SettleMoves DEF AdapterRefusesCommit, Fail
  <2>4. Moves(t, k, Later)
        BY <2>3 DEF Moves, Failing, Later, Stage, Settled
  <2> QED BY <2>1, <2>2, <2>4
<1>5. ASSUME AfterCommit(t, k) PROVE Past(t) /\ Local(t) /\ Moves(t, k, Later)
  <2>1. Past(t)
        BY <1>5, ActiveIsPast DEF AfterCommit, Later, Stage, Settled, Call
  <2>2. Local(t)
        BY <1>5 DEF AfterCommit, Local, TypeOK
  <2>3. Moves(t, k, {"settled", "retrying", "resolved"})
        BY <1>5, SettleMoves DEF AfterCommit
  <2>4. Moves(t, k, Later)
        BY <2>3 DEF Moves, Failing, Later, Stage, Settled
  <2> QED BY <2>1, <2>2, <2>4
<1>6. ASSUME AfterCommitFails(t, k) PROVE Past(t) /\ Local(t) /\ Moves(t, k, Later)
  <2>1. Past(t)
        BY <1>6, ActiveIsPast DEF AfterCommitFails, Later, Stage, Settled, Call
  <2>2. Local(t)
        BY <1>6 DEF AfterCommitFails, Local, TypeOK
  <2>3. Moves(t, k, {"settled", "retrying", "rejected"})
        BY <1>6, SettleMoves DEF AfterCommitFails
  <2>4. Moves(t, k, Later)
        BY <2>3 DEF Moves, Failing, Later, Stage, Settled
  <2> QED BY <2>1, <2>2, <2>4
<1>7. ASSUME BeforeRollback(t, k) PROVE Past(t) /\ Local(t) /\ Moves(t, k, Later)
  <2>1. Past(t)
        BY <1>7, ActiveIsPast DEF BeforeRollback, Later, Stage, Settled, Call
  <2>2. Local(t)
        BY <1>7 DEF BeforeRollback, Local, TypeOK
  <2>3. Moves(t, k, {"adapterRollback"})
        BY <1>7, AwaitMoves DEF BeforeRollback
  <2>4. Moves(t, k, Later)
        BY <2>3 DEF Moves, Failing, Later, Stage, Settled
  <2> QED BY <2>1, <2>2, <2>4
<1>8. ASSUME BeforeRollbackFails(t, k) PROVE Past(t) /\ Local(t) /\ Moves(t, k, Later)
  <2>1. Past(t)
        BY <1>8, ActiveIsPast DEF BeforeRollbackFails, Later, Stage, Settled, Call
  <2>2. Local(t)
        BY <1>8 DEF BeforeRollbackFails, Local, TypeOK
  <2>3. Moves(t, k, Failing) \/ Moves(t, k, {"settled", "retrying", "rejected"})
        BY <1>8, ThrowMoves, SettleMoves DEF BeforeRollbackFails
  <2>4. Moves(t, k, Later)
        BY <2>3 DEF Moves, Failing, Later, Stage, Settled
  <2> QED BY <2>1, <2>2, <2>4
<1>9. ASSUME AdapterRollsBack(t, k) PROVE Past(t) /\ Local(t) /\ Moves(t, k, Later)
  <2>1. Past(t)
        BY <1>9, ActiveIsPast DEF AdapterRollsBack, Later, Stage, Settled, Call
  <2>2. Local(t)
        BY <1>9 DEF AdapterRollsBack, ObjectRollsBack, Local, TypeOK
  <2>3. Moves(t, k, {"afterRollback"}) \/ Moves(t, k, {"settled", "retrying", "rejected"})
        BY <1>9, SettleMoves, AwaitMoves DEF AdapterRollsBack, ObjectRollsBack
  <2>4. Moves(t, k, Later)
        BY <2>3 DEF Moves, Failing, Later, Stage, Settled
  <2> QED BY <2>1, <2>2, <2>4
<1>10. ASSUME AdapterRefusesRollback(t, k) PROVE Past(t) /\ Local(t) /\ Moves(t, k, Later)
  <2>1. Past(t)
        BY <1>10, ActiveIsPast DEF AdapterRefusesRollback, Later, Stage, Settled, Call
  <2>2. Local(t)
        BY <1>10 DEF AdapterRefusesRollback, Fail, Local, TypeOK
  <2>3. Moves(t, k, {"settled", "retrying", "rejected"})
        BY <1>10, SettleMoves DEF AdapterRefusesRollback, Fail
  <2>4. Moves(t, k, Later)
        BY <2>3 DEF Moves, Failing, Later, Stage, Settled
  <2> QED BY <2>1, <2>2, <2>4
<1>11. ASSUME AfterRollback(t, k) PROVE Past(t) /\ Local(t) /\ Moves(t, k, Later)
  <2>1. Past(t)
        BY <1>11, ActiveIsPast DEF AfterRollback, Later, Stage, Settled, Call
  <2>2. Local(t)
        BY <1>11 DEF AfterRollback, Local, TypeOK
  <2>3. Moves(t, k, {"settled", "retrying", "rejected"})
        BY <1>11, SettleMoves DEF AfterRollback
  <2>4. Moves(t, k, Later)
        BY <2>3 DEF Moves, Failing, Later, Stage, Settled
  <2> QED BY <2>1, <2>2, <2>4
<1>12. ASSUME k = "hand", CommitByHand(t) PROVE Past(t) /\ Local(t) /\ Moves(t, k, Later)
  <2>1. Past(t)
        BY <1>12, ActiveIsPast DEF CommitByHand, Later, Stage, Settled, Call
  <2>2. Local(t)
        BY <1>12, CommitStartMoves DEF CommitByHand, Local, TypeOK
  <2>3. Moves(t, k, Later)
        BY <1>12, CommitStartLater DEF CommitByHand
  <2> QED BY <2>1, <2>2, <2>3
<1>13. ASSUME k = "hand", RollbackByHand(t) PROVE Past(t) /\ Local(t) /\ Moves(t, k, Later)
  <2>1. Past(t)
        BY <1>13, ActiveIsPast DEF RollbackByHand, Later, Stage, Settled, Call
  <2>2. Local(t)
        BY <1>13 DEF RollbackByHand, Local, TypeOK
  <2>3. Moves(t, k, Failing)
        BY <1>13, RollbackStartMoves DEF RollbackByHand
  <2>4. Moves(t, k, Later)
        BY <2>3 DEF Moves, Failing, Later, Stage, Settled
  <2> QED BY <2>1, <2>2, <2>4
<1>14. ASSUME k = "run", BodyReturns(t) PROVE Past(t) /\ Local(t) /\ Moves(t, k, Later)
  <2>1. Past(t)
        BY <1>14, ActiveIsPast DEF BodyReturns, Later, Stage, Settled, Call
  <2>2. Local(t)
        BY <1>14, CommitStartMoves DEF BodyReturns, Local, TypeOK
  <2>3. Moves(t, k, Later)
        BY <1>14, CommitStartLater DEF BodyReturns
  <2> QED BY <2>1, <2>2, <2>3
<1>15. ASSUME k = "run", BodyThrows(t) PROVE Past(t) /\ Local(t) /\ Moves(t, k, Later)
  <2>1. Past(t)
        BY <1>15, ActiveIsPast DEF BodyThrows, Later, Stage, Settled, Call
  <2>2. Local(t)
        BY <1>15 DEF BodyThrows, Local, TypeOK
  <2>3. Moves(t, k, Failing)
        BY <1>15, ThrowMoves DEF BodyThrows
  <2>4. Moves(t, k, Later)
        BY <2>3 DEF Moves, Failing, Later, Stage, Settled
  <2> QED BY <2>1, <2>2, <2>4
<1>16. ASSUME k = "run", Abandon(t) PROVE Past(t) /\ Local(t) /\ Moves(t, k, Later)
  <2>1. Past(t)
        BY <1>16, ActiveIsPast DEF Abandon, Later, Stage, Settled, Call
  <2>2. Local(t)
        BY <1>16 DEF Abandon, Local, TypeOK
  <2>3. Moves(t, k, Failing)
        BY <1>16, ThrowMoves DEF Abandon
  <2>4. Moves(t, k, Later)
        BY <2>3 DEF Moves, Failing, Later, Stage, Settled
  <2> QED BY <2>1, <2>2, <2>4
<1>17. ASSUME k = "run", GiveUp(t) PROVE Past(t) /\ Local(t) /\ Moves(t, k, Later)
  <2>1. Past(t)
        BY <1>17, ActiveIsPast DEF GiveUp, Later, Stage, Settled, Call
  <2>2. Local(t)
        BY <1>17 DEF GiveUp, Local, TypeOK
  <2>3. Moves(t, k, Later)
        BY <1>17 DEF GiveUp, Moves, Later, Stage, Settled, TypeOK
  <2> QED BY <2>1, <2>2, <2>3
<1>18. ASSUME Register(t) PROVE Past(t) /\ Local(t) /\ Moves(t, k, Later)
  <2>1. Past(t)
        BY <1>18, ActiveIsPast DEF Register, Later, Stage, Settled, Call
  <2>2. Local(t)
        BY <1>18 DEF Register, Local, TypeOK
  <2>3. Moves(t, k, Later)
        BY <1>18 DEF Register, Moves, Later, Stage, Settled, TypeOK
  <2> QED BY <2>1, <2>2, <2>3
<1>19. ASSUME MarkRollbackOnly(t) PROVE Past(t) /\ Local(t) /\ Moves(t, k, Later)
  <2>1. Past(t)
        BY <1>19, ActiveIsPast DEF MarkRollbackOnly, Later, Stage, Settled, Call
  <2>2. Local(t)
        BY <1>19 DEF MarkRollbackOnly, Local, TypeOK
  <2>3. Moves(t, k, Later)
        BY <1>19 DEF MarkRollbackOnly, Moves, Later, Stage, Settled, TypeOK
  <2> QED BY <2>1, <2>2, <2>3
<1>20. ASSUME CommitDirectly(t) PROVE Past(t) /\ Local(t) /\ Moves(t, k, Later)
  <2>1. Past(t)
        BY <1>20, ActiveIsPast DEF CommitDirectly, Later, Stage, Settled, Call
  <2>2. Local(t)
        BY <1>20 DEF CommitDirectly, ObjectCommits, Local, TypeOK
  <2>3. Moves(t, k, Later)
        BY <1>20 DEF CommitDirectly, Moves, Later, Stage, Settled, TypeOK
  <2> QED BY <2>1, <2>2, <2>3
<1>21. ASSUME RollbackDirectly(t) PROVE Past(t) /\ Local(t) /\ Moves(t, k, Later)
  <2>1. Past(t)
        BY <1>21, ActiveIsPast DEF RollbackDirectly, Later, Stage, Settled, Call
  <2>2. Local(t)
        BY <1>21 DEF RollbackDirectly, ObjectRollsBack, Local, TypeOK
  <2>3. Moves(t, k, Later)
        BY <1>21 DEF RollbackDirectly, Moves, Later, Stage, Settled, TypeOK
  <2> QED BY <2>1, <2>2, <2>3
<1>22. ASSUME AbandonedEnds(t) PROVE Past(t) /\ Local(t) /\ Moves(t, k, Later)
  <2>1. Past(t)
        BY <1>22, ActiveIsPast DEF AbandonedEnds, Later, Stage, Settled, Call
  <2>2. Local(t)
        BY <1>22 DEF AbandonedEnds, Local, TypeOK
  <2>3. Moves(t, k, Later)
        BY <1>22 DEF AbandonedEnds, Moves, Later, Stage, Settled, TypeOK
  <2> QED BY <2>1, <2>2, <2>3
<1> QED
      BY <1>1, <1>2, <1>3, <1>4, <1>5, <1>6, <1>7, <1>8, <1>9, <1>10, <1>11, <1>12, <1>13, <1>14, <1>15, <1>16, <1>17, <1>18, <1>19, <1>20, <1>21, <1>22
      DEF Continues, Commits, RollsBack

\* The remaining steps open a handle, or arm or fire its timer.
LEMMA NextContinues ==
    ASSUME [Next]_vars
    PROVE  \/ UNCHANGED vars
           \/ \E t \in Txn :
                \/ \E o \in Txn \cup {NoTxn}, p \in Propagations : Begin(t, o, p)
                \/ Begun(t) \/ BeginFails(t) \/ Started(t) \/ AfterBeginFails(t)
                \/ \E again \in Txn : Replay(t, again)
                \/ Timeout(t)
                \/ \E k \in Call : Continues(t, k)
BY DEF Next, Opens, Works, Continues, Call


\* A step on t keeps the fate of every other handle; it may move the call of
\* one that has begun.
Aside(t) ==
    \A u \in Txn \ {t} :
        /\ kind'[u] = kind[u] /\ state'[u] = state[u]
        /\ db'[u] = db[u] /\ body'[u] = body[u]
        /\ \A j \in Call : \/ pc'[<<u, j>>] = pc[<<u, j>>]
                           \/ pc[<<u, j>>] \in Later /\ pc'[<<u, j>>] \in Later

LEMMA UntouchedAside ==
    ASSUME Untouched, NEW t \in Txn, Aside(t), UntouchedAt(t)'
    PROVE  Untouched'
<1> SUFFICES ASSUME NEW u \in Txn \ {t} PROVE UntouchedAt(u)'
    BY DEF Untouched
<1> QED BY DEF Untouched, UntouchedAt, Unused, Aside, Later, Call

\* What resolving a handle settles about its state, its callback and its call.
Fresh(t) ==
    /\ kind'[t] \in Kind
    /\ state'[t] = IF kind'[t] = "none" THEN "active" ELSE "pending"
    /\ body'[t] = IF kind'[t] \in {"participant", "none"} THEN "running" ELSE "none"
    /\ \A u \in Txn \ {t} :
          kind'[u] = kind[u] /\ state'[u] = state[u] /\ body'[u] = body[u]

LEMMA OpenFresh ==
    ASSUME TypeOK, NEW t \in Txn, NEW o, NEW p, NEW failed, Open(t, o, p, failed)
    PROVE  Fresh(t)
<1> DEFINE current == IF Suspends(p) THEN NoTxn ELSE Current(o)
           k == Resolve(p, current # NoTxn)
<1>1. k \in Kind \cup {"refused"}
      BY DEF Resolve, Kind
<1>2. k # "refused" /\ kind' = [kind EXCEPT ![t] = k]
      BY DEF Open
<1>3. /\ state' = [state EXCEPT ![t] = IF k = "none" THEN "active" ELSE "pending"]
      /\ body' = [body EXCEPT ![t] =
                     IF k \in {"participant", "none"} THEN "running" ELSE "none"]
      BY DEF Open
<1> HIDE DEF k
<1> QED BY <1>1, <1>2, <1>3 DEF Fresh, TypeOK

\* Nothing completes a handle before its begin() is done.
LEMMA UntouchedStep ==
    ASSUME TypeOK, Untouched, [Next]_vars
    PROVE  Untouched'
<1> USE DEF identity, flags, work
<1>1. CASE UNCHANGED vars
      BY <1>1 DEF vars, Untouched, UntouchedAt, Unused
<1>2. ASSUME NEW t \in Txn, NEW o \in Txn \cup {NoTxn}, NEW p \in Propagations, Begin(t, o, p)
      PROVE  Untouched'
  <2>1. Unused(t) /\ db' = db /\ pc' = [pc EXCEPT ![<<t, "run">>] = Opening(t)]
        BY <1>2 DEF Begin
  <2>2. Fresh(t)
        BY <1>2, OpenFresh DEF Begin
  <2>3. Aside(t)
        BY <2>1, <2>2 DEF Fresh, Aside, Call, TypeOK
  <2>4. UntouchedAt(t)'
        BY <2>1, <2>2 DEF Fresh, Untouched, UntouchedAt, Unused, Opening, Kind, Call, TypeOK
  <2> QED BY <2>3, <2>4, UntouchedAside
<1>3. ASSUME NEW t \in Txn, NEW again \in Txn, Replay(t, again)
      PROVE  Untouched'
  <2>1. /\ Unused(again) /\ db' = db /\ pc[<<t, "run">>] = "retrying"
        /\ pc' = [pc EXCEPT ![<<t, "run">>] = "replaced",
                            ![<<again, "run">>] = Opening(again)]
        BY <1>3 DEF Replay
  <2>2. Fresh(again)
        BY <1>3, OpenFresh DEF Replay
  <2>3. t # again
        BY <2>1 DEF Untouched, UntouchedAt
  <2>4. \A u \in Txn \ {again}, j \in Call :
           \/ pc'[<<u, j>>] = pc[<<u, j>>]
           \/ u = t /\ j = "run" /\ pc'[<<u, j>>] = "replaced"
        BY <2>1, <2>3 DEF Call, TypeOK
  <2>5. Aside(again)
        BY <2>1, <2>2, <2>4 DEF Fresh, Aside, Later, Stage, Settled
  <2>6. pc'[<<again, "run">>] = Opening(again) /\ pc'[<<again, "hand">>] = pc[<<again, "hand">>]
        BY <2>1, <2>3 DEF Call, TypeOK
  <2>7. UntouchedAt(again)'
        BY <2>1, <2>2, <2>6 DEF Fresh, Untouched, UntouchedAt, Unused, Opening, Kind
  <2> QED BY <2>5, <2>7, UntouchedAside
<1>4. ASSUME NEW t \in Txn, Begun(t)
      PROVE  Untouched'
  <2>1. Aside(t)
        BY <1>4 DEF Aside, Begun, Call, TypeOK
  <2>2. UntouchedAt(t)'
        BY <1>4 DEF Untouched, UntouchedAt, Unused, Begun, Call, TypeOK
  <2> QED BY <2>1, <2>2, UntouchedAside
<1>5. ASSUME NEW t \in Txn, BeginFails(t)
      PROVE  Untouched'
  <2>1. Aside(t)
        BY <1>5 DEF Aside, BeginFails, RunEnds, Call, TypeOK
  <2>2. UntouchedAt(t)'
        BY <1>5 DEF Untouched, UntouchedAt, Unused, BeginFails, RunEnds, Call, TypeOK
  <2> QED BY <2>1, <2>2, UntouchedAside
<1>6. ASSUME NEW t \in Txn, Started(t)
      PROVE  Untouched'
  <2>1. Aside(t)
        BY <1>6 DEF Aside, Started, Call, TypeOK
  <2>2. UntouchedAt(t)'
        BY <1>6 DEF Untouched, UntouchedAt, Unused, Started, Call, TypeOK
  <2> QED BY <2>1, <2>2, UntouchedAside
<1>7. ASSUME NEW t \in Txn, AfterBeginFails(t)
      PROVE  Untouched'
  <2>1. Aside(t)
        BY <1>7 DEF Aside, AfterBeginFails, RunEnds, Call, TypeOK
  <2>2. UntouchedAt(t)'
        BY <1>7 DEF Untouched, UntouchedAt, Unused, AfterBeginFails, RunEnds, Call, TypeOK
  <2> QED BY <2>1, <2>2, UntouchedAside
<1>8. ASSUME NEW t \in Txn, Timeout(t)
      PROVE  Untouched'
  <2>1. Aside(t)
        BY <1>8 DEF Aside, Timeout, Call, TypeOK
  <2>2. UntouchedAt(t)'
        BY <1>8 DEF Untouched, UntouchedAt, Unused, Timeout, Call, TypeOK
  <2> QED BY <2>1, <2>2, UntouchedAside
<1>9. ASSUME NEW t \in Txn, NEW k \in Call, Continues(t, k)
      PROVE  Untouched'
  <2>1. Past(t) /\ Local(t) /\ Moves(t, k, Later)
        BY <1>9, ContinuesLocally
  <2>2. Aside(t)
        BY <2>1 DEF Aside, Local, Moves
  <2>3. UntouchedAt(t)'
        BY <2>1 DEF UntouchedAt, Unused, Past, Local, Moves, Later, Call
  <2> QED BY <2>2, <2>3, UntouchedAside
<1> QED BY <1>1, <1>2, <1>3, <1>4, <1>5, <1>6, <1>7, <1>8, <1>9, NextContinues

-----------------------------------------------------------------------------
(* Terminal states are final *)

\* No step of a transaction that has begun leaves a terminal state: commit() and
\* rollback() ask the state machine, and so does markFailed().
LEMMA ContinuesFinal ==
    ASSUME TypeOK, NEW t \in Txn, NEW k \in Call, Continues(t, k), state[t] \in Terminal
    PROVE  state'[t] = state[t]
<1> USE DEF Terminal
<1>1. ASSUME Commits(t, k) PROVE state'[t] = state[t]
      BY <1>1 DEF Commits, BeforeCommit, BeforeCommitFails, AdapterCommits, AdapterRefusesCommit,
                  AfterCommit, AfterCommitFails, Fail, TypeOK
<1>2. ASSUME RollsBack(t, k) PROVE state'[t] = state[t]
      BY <1>2 DEF RollsBack, BeforeRollback, BeforeRollbackFails, AdapterRollsBack,
                  AdapterRefusesRollback, AfterRollback, Fail, TypeOK
<1>3. ASSUME k = "hand", CommitByHand(t) PROVE state'[t] = state[t]
      BY <1>3, CommitStartMoves DEF CommitByHand
<1>4. ASSUME k = "run", BodyReturns(t) PROVE state'[t] = state[t]
      BY <1>4, CommitStartMoves DEF BodyReturns
<1>5. ASSUME \/ RollbackByHand(t) \/ BodyThrows(t) \/ Abandon(t) \/ GiveUp(t)
             \/ Register(t) \/ MarkRollbackOnly(t) \/ AbandonedEnds(t)
      PROVE  state'[t] = state[t]
      BY <1>5 DEF RollbackByHand, BodyThrows, Abandon, GiveUp, Register,
                  MarkRollbackOnly, AbandonedEnds
<1>6. ASSUME CommitDirectly(t) \/ RollbackDirectly(t) PROVE state'[t] = state[t]
      BY <1>6 DEF CommitDirectly, RollbackDirectly
<1> QED BY <1>1, <1>2, <1>3, <1>4, <1>5, <1>6 DEF Continues

LEMMA ContinuesIdentity ==
    ASSUME NEW t \in Txn, NEW k \in Call, Continues(t, k)
    PROVE  UNCHANGED identity
<1>1. CASE Commits(t, k) \/ RollsBack(t, k)
      BY <1>1 DEF Commits, RollsBack, BeforeCommit, BeforeCommitFails, AdapterCommits,
         AdapterRefusesCommit, AfterCommit, AfterCommitFails, BeforeRollback,
         BeforeRollbackFails, AdapterRollsBack, AdapterRefusesRollback, AfterRollback
<1>2. CASE ~(Commits(t, k) \/ RollsBack(t, k))
      BY <1>2 DEF Continues, CommitByHand, RollbackByHand, BodyReturns, BodyThrows, Abandon,
         GiveUp, Register, MarkRollbackOnly, CommitDirectly, RollbackDirectly, AbandonedEnds
<1> QED BY <1>1, <1>2

\* No step joins a handle to t or nests it in t.
NoneJoins(t) == \A u \in Txn : up'[u] = t => up[u] = t

LEMMA OpenJoinsActive ==
    ASSUME TypeOK, NEW t \in Txn, NEW o, NEW p, NEW failed, Open(t, o, p, failed),
           NEW x \in Txn, state[x] \in Terminal
    PROVE  NoneJoins(x)
<1> DEFINE current == IF Suspends(p) THEN NoTxn ELSE Current(o)
           k == Resolve(p, current # NoTxn)
<1>1. up' = [up EXCEPT ![t] = IF k \in {"participant", "savepoint"} THEN current ELSE NoTxn]
      BY DEF Open
<1>2. current # x
      BY TransactionConstants DEF Current
<1>3. up'[t] # x
      BY <1>1, <1>2, TransactionConstants DEF TypeOK
<1> QED BY <1>1, <1>3 DEF NoneJoins, TypeOK

\* "Whether a state admits no further transitions": no call, late timer or replay
\* ever changes the state of a transaction that committed, rolled back or failed,
\* or joins or nests a run in it.
THEOREM FinishedStaysFinished == Spec => TerminalIsFinal
<1> DEFINE Final == \A t \in Txn : state[t] \in Terminal => state'[t] = state[t] /\ NoneJoins(t)
<1>0. UNCHANGED identity => \A t \in Txn : NoneJoins(t)
      BY DEF identity, NoneJoins
<1>1. Init => Untouched
      BY DEF Init, Untouched, UntouchedAt, Call
<1>2. ASSUME TypeOK, Untouched, [Next]_vars PROVE Final
  <2>1. CASE UNCHANGED vars
        BY <1>0, <2>1 DEF vars
  <2>2. ASSUME NEW t \in Txn, Begun(t) \/ BeginFails(t) PROVE Final
    <3>1. pc[<<t, "run">>] = "beginning" /\ \A u \in Txn \ {t} : state'[u] = state[u]
          BY <1>2, <2>2 DEF Begun, BeginFails, TypeOK
    <3>2. UntouchedAt(t)
          BY <1>2 DEF Untouched
    <3>3. state[t] \notin Terminal
          BY <3>1, <3>2 DEF UntouchedAt, Terminal
    <3>4. UNCHANGED identity
          BY <2>2 DEF Begun, BeginFails
    <3> QED BY <1>0, <3>1, <3>3, <3>4
  <2>3. ASSUME NEW t \in Txn, Started(t) \/ AfterBeginFails(t) \/ Timeout(t) PROVE Final
        BY <1>0, <2>3 DEF Started, AfterBeginFails, Timeout
  <2>4. ASSUME NEW t \in Txn, NEW o, NEW p, NEW failed, Unused(t), Open(t, o, p, failed)
        PROVE  Final
    <3>1. UntouchedAt(t)
          BY <1>2 DEF Untouched
    <3>2. state[t] \notin Terminal
          BY <2>4, <3>1 DEF UntouchedAt, Terminal
    <3> QED BY <1>2, <2>4, <3>2, OpenFresh, OpenJoinsActive DEF Fresh
  <2>5. ASSUME NEW t \in Txn, NEW k \in Call, Continues(t, k) PROVE Final
        BY <1>0, <1>2, <2>5, ContinuesLocally, ContinuesFinal, ContinuesIdentity DEF Local
  <2> QED BY <1>2, <2>1, <2>2, <2>3, <2>4, <2>5, NextContinues DEF Begin, Replay
<1>3. TypeOK /\ Untouched /\ [Next]_vars =>
        [\A t \in Txn : state[t] \in Terminal =>
             /\ state'[t] = state[t]
             /\ \A u \in Txn : up'[u] = t => up[u] = t]_vars
      BY <1>2 DEF NoneJoins
<1>4. Spec => []Untouched
  <2>1. TypeOK /\ Untouched /\ [Next]_vars => Untouched'
        BY UntouchedStep
  <2> QED BY <1>1, <2>1, TypesAreKept, PTL DEF Spec
<1> QED BY <1>3, <1>4, TypesAreKept, PTL DEF Spec, TerminalIsFinal

-----------------------------------------------------------------------------
(* What run() reports *)

\* A step of a transaction that has begun keeps what a commit stands for, unless
\* the callback commits the handle past the manager.
LEMMA ContinuesKept ==
    ASSUME TypeOK, NEW t \in Txn, NEW k \in Call, Continues(t, k),
           ~("commit" \in Direct), Owned(t), KeptAt(t)
    PROVE  KeptAt(t)'
<1> USE DEF identity, flags, work
<1>1. ASSUME BeforeCommit(t, k) PROVE KeptAt(t)'
  <2>1. Moves(t, k, {"adapterCommit"})
        BY <1>1, AwaitMoves DEF BeforeCommit
  <2>2. /\ state'[t] = "committed" => state[t] = "committed"
        /\ db[t] = "kept" => db'[t] = "kept"
        BY <1>1 DEF BeforeCommit, TypeOK
  <2> QED BY <2>1, <2>2 DEF KeptAt, Moves
<1>2. ASSUME BeforeCommitFails(t, k) PROVE KeptAt(t)'
  <2>1. Moves(t, k, Failing)
        BY <1>2, ThrowMoves DEF BeforeCommitFails
  <2>2. /\ state'[t] = "committed" => state[t] = "committed"
        /\ db[t] = "kept" => db'[t] = "kept"
        BY <1>2 DEF BeforeCommitFails, TypeOK
  <2> QED BY <2>1, <2>2 DEF KeptAt, Moves, Failing
<1>3. ASSUME AdapterRefusesCommit(t, k) PROVE KeptAt(t)'
  <2>1. Moves(t, k, {"settled", "retrying", "rejected"})
        BY <1>3, SettleMoves DEF AdapterRefusesCommit
  <2>2. /\ state'[t] = "committed" => state[t] = "committed"
        /\ db[t] = "kept" => db'[t] = "kept"
        BY <1>3 DEF AdapterRefusesCommit, Fail, TypeOK
  <2> QED BY <2>1, <2>2 DEF KeptAt, Moves
<1>4. ASSUME AfterCommitFails(t, k) PROVE KeptAt(t)'
  <2>1. Moves(t, k, {"settled", "retrying", "rejected"})
        BY <1>4, SettleMoves DEF AfterCommitFails
  <2>2. /\ state'[t] = "committed" => state[t] = "committed"
        /\ db[t] = "kept" => db'[t] = "kept"
        BY <1>4 DEF AfterCommitFails, TypeOK
  <2> QED BY <2>1, <2>2 DEF KeptAt, Moves
<1>5. ASSUME BeforeRollback(t, k) PROVE KeptAt(t)'
  <2>1. Moves(t, k, {"adapterRollback"})
        BY <1>5, AwaitMoves DEF BeforeRollback
  <2>2. /\ state'[t] = "committed" => state[t] = "committed"
        /\ db[t] = "kept" => db'[t] = "kept"
        BY <1>5 DEF BeforeRollback, TypeOK
  <2> QED BY <2>1, <2>2 DEF KeptAt, Moves
<1>6. ASSUME AdapterRefusesRollback(t, k) PROVE KeptAt(t)'
  <2>1. Moves(t, k, {"settled", "retrying", "rejected"})
        BY <1>6, SettleMoves DEF AdapterRefusesRollback
  <2>2. /\ state'[t] = "committed" => state[t] = "committed"
        /\ db[t] = "kept" => db'[t] = "kept"
        BY <1>6 DEF AdapterRefusesRollback, Completable, Fail, TypeOK
  <2> QED BY <2>1, <2>2 DEF KeptAt, Moves
<1>7. ASSUME AfterRollback(t, k) PROVE KeptAt(t)'
  <2>1. Moves(t, k, {"settled", "retrying", "rejected"})
        BY <1>7, SettleMoves DEF AfterRollback
  <2>2. /\ state'[t] = "committed" => state[t] = "committed"
        /\ db[t] = "kept" => db'[t] = "kept"
        BY <1>7 DEF AfterRollback, TypeOK
  <2> QED BY <2>1, <2>2 DEF KeptAt, Moves
<1>8. ASSUME k = "hand", RollbackByHand(t) PROVE KeptAt(t)'
  <2>1. Moves(t, k, Failing)
        BY <1>8, RollbackStartMoves DEF RollbackByHand
  <2>2. /\ state'[t] = "committed" => state[t] = "committed"
        /\ db[t] = "kept" => db'[t] = "kept"
        BY <1>8 DEF RollbackByHand, TypeOK
  <2> QED BY <2>1, <2>2 DEF KeptAt, Moves, Failing
<1>9. ASSUME k = "run", BodyThrows(t) PROVE KeptAt(t)'
  <2>1. Moves(t, k, Failing)
        BY <1>9, ThrowMoves DEF BodyThrows
  <2>2. /\ state'[t] = "committed" => state[t] = "committed"
        /\ db[t] = "kept" => db'[t] = "kept"
        BY <1>9 DEF BodyThrows, TypeOK
  <2> QED BY <2>1, <2>2 DEF KeptAt, Moves, Failing
<1>10. ASSUME k = "run", Abandon(t) PROVE KeptAt(t)'
  <2>1. Moves(t, k, Failing)
        BY <1>10, ThrowMoves DEF Abandon
  <2>2. /\ state'[t] = "committed" => state[t] = "committed"
        /\ db[t] = "kept" => db'[t] = "kept"
        BY <1>10 DEF Abandon, TypeOK
  <2> QED BY <2>1, <2>2 DEF KeptAt, Moves, Failing
<1>11. ASSUME BeforeRollbackFails(t, k) PROVE KeptAt(t)'
  <2>1. Moves(t, k, Failing) \/ Moves(t, k, {"settled", "retrying", "rejected"})
        BY <1>11, ThrowMoves, SettleMoves DEF BeforeRollbackFails
  <2>2. state' = state /\ db' = db
        BY <1>11 DEF BeforeRollbackFails
  <2> QED BY <2>1, <2>2 DEF KeptAt, Moves, Failing
<1>12. ASSUME AdapterCommits(t, k) PROVE KeptAt(t)'
  <2>1. db'[t] = "kept"
        BY <1>12 DEF AdapterCommits, TypeOK
  <2> QED BY <2>1 DEF KeptAt
<1>13. ASSUME AfterCommit(t, k) PROVE KeptAt(t)'
  <2>1. db'[t] = "kept"
        BY <1>13 DEF AfterCommit, KeptAt
  <2> QED BY <2>1 DEF KeptAt
<1>14. ASSUME AdapterRollsBack(t, k) PROVE KeptAt(t)'
  <2>1. db[t] = "open"
        BY <1>14 DEF AdapterRollsBack, Completable, Owned
  <2>2. state'[t] # "committed"
        BY <1>14, <2>1 DEF AdapterRollsBack, ObjectRollsBack, KeptAt, TypeOK
  <2>3. Moves(t, k, {"afterRollback"}) \/ Moves(t, k, {"settled", "retrying", "rejected"})
        BY <1>14, AwaitMoves, SettleMoves DEF AdapterRollsBack
  <2>4. \A j \in Call : pc'[<<t, j>>] \notin {"afterCommit", "resolved"}
        BY <2>1, <2>3 DEF KeptAt, Moves
  <2> QED BY <2>2, <2>4 DEF KeptAt
<1>15. ASSUME (k = "hand" /\ CommitByHand(t)) \/ (k = "run" /\ BodyReturns(t))
      PROVE  KeptAt(t)'
  <2>1. CommitStart(t, k) /\ db' = db
        BY <1>15 DEF CommitByHand, BodyReturns
  <2>2. kind[t] \notin {"participant", "none"}
        BY DEF Owned
  <2>3. CASE Moves(t, k, Failing \cup {"refused", "beforeCommit"}) /\ state' = state
        BY <2>1, <2>3 DEF KeptAt, Moves, Failing
  <2>4. CASE state[t] = "committed" /\ state' = state
    <3>1. db'[t] = "kept"
          BY <2>1, <2>4 DEF KeptAt
    <3> QED BY <3>1 DEF KeptAt
  <2> QED BY <2>1, <2>2, <2>3, <2>4, CommitStartMoves
<1>16. ASSUME RollbackDirectly(t) PROVE KeptAt(t)'
      BY <1>16 DEF RollbackDirectly, ObjectRollsBack, KeptAt, TypeOK
<1>17. ASSUME k = "run", GiveUp(t) PROVE KeptAt(t)'
      BY <1>17 DEF GiveUp, KeptAt, TypeOK
<1>18. ASSUME Register(t) \/ MarkRollbackOnly(t) \/ AbandonedEnds(t)
      PROVE  KeptAt(t)'
      BY <1>18 DEF Register, MarkRollbackOnly, AbandonedEnds, KeptAt
<1>19. ~CommitDirectly(t)
      BY DEF CommitDirectly
<1>20. CASE Commits(t, k)
      BY <1>20, <1>1, <1>2, <1>3, <1>4, <1>12, <1>13 DEF Commits
<1>21. CASE RollsBack(t, k)
      BY <1>21, <1>5, <1>6, <1>7, <1>11, <1>14 DEF RollsBack
<1>22. CASE k = "hand" /\ RollbackByHand(t)
      BY <1>22, <1>8
<1>23. CASE k = "run" /\ (BodyThrows(t) \/ Abandon(t) \/ GiveUp(t))
      BY <1>23, <1>9, <1>10, <1>17
<1>24. CASE (k = "hand" /\ CommitByHand(t)) \/ (k = "run" /\ BodyReturns(t))
      BY <1>24, <1>15
<1> QED BY <1>16, <1>18, <1>19, <1>20, <1>21, <1>22, <1>23, <1>24 DEF Continues

\* A step on t moves no other handle's call past the adapter's commit.
LEMMA KeptAside ==
    ASSUME KeptWhenCommitted, NEW t \in Txn, Owned(t)' => KeptAt(t)',
           \A u \in Txn \ {t} :
              /\ kind'[u] = kind[u] /\ state'[u] = state[u] /\ db'[u] = db[u]
              /\ \A j \in Call : \/ pc'[<<u, j>>] = pc[<<u, j>>]
                                 \/ pc'[<<u, j>>] \notin {"afterCommit", "resolved"}
    PROVE  KeptWhenCommitted'
<1> SUFFICES ASSUME NEW u \in Txn \ {t}, Owned(u)' PROVE KeptAt(u)'
    BY DEF KeptWhenCommitted
<1>1. KeptAt(u)
      BY DEF KeptWhenCommitted, Owned
<1> QED BY <1>1 DEF KeptAt

\* A handle that is still being begun, or just was, has nothing committed.
LEMMA KeptStep ==
    ASSUME TypeOK, Untouched, KeptWhenCommitted, ~("commit" \in Direct), [Next]_vars
    PROVE  KeptWhenCommitted'
<1> USE DEF identity, flags, work
<1>1. CASE UNCHANGED vars
      BY <1>1 DEF vars, KeptWhenCommitted, KeptAt, Owned
<1>2. ASSUME NEW t \in Txn, NEW o \in Txn \cup {NoTxn}, NEW p \in Propagations, Begin(t, o, p)
      PROVE  KeptWhenCommitted'
  <2>1. Unused(t) /\ db' = db /\ pc' = [pc EXCEPT ![<<t, "run">>] = Opening(t)]
        BY <1>2 DEF Begin
  <2>2. Fresh(t)
        BY <1>2, OpenFresh DEF Begin
  <2>3. \A u \in Txn, j \in Call : \/ pc'[<<u, j>>] = pc[<<u, j>>]
                                   \/ pc'[<<u, j>>] \in {"body", "beginning"}
        BY <2>1 DEF Opening, TypeOK
  <2>4. UntouchedAt(t)
        BY DEF Untouched
  <2>5. Owned(t)' => KeptAt(t)'
        BY <2>1, <2>2, <2>3, <2>4 DEF Owned, KeptAt, Fresh, UntouchedAt, Call
  <2> QED BY <2>1, <2>2, <2>3, <2>5, KeptAside DEF Fresh
<1>3. ASSUME NEW t \in Txn, NEW again \in Txn, Replay(t, again)
      PROVE  KeptWhenCommitted'
  <2>1. /\ Unused(again) /\ db' = db
        /\ pc' = [pc EXCEPT ![<<t, "run">>] = "replaced",
                            ![<<again, "run">>] = Opening(again)]
        BY <1>3 DEF Replay
  <2>2. Fresh(again)
        BY <1>3, OpenFresh DEF Replay
  <2>3. \A u \in Txn, j \in Call : \/ pc'[<<u, j>>] = pc[<<u, j>>]
                                   \/ pc'[<<u, j>>] \in {"replaced", "body", "beginning"}
        BY <2>1 DEF Opening, TypeOK
  <2>4. UntouchedAt(again)
        BY DEF Untouched
  <2>5. Owned(again)' => KeptAt(again)'
        BY <2>1, <2>2, <2>3, <2>4 DEF Owned, KeptAt, Fresh, UntouchedAt, Call
  <2> QED BY <2>1, <2>2, <2>3, <2>5, KeptAside DEF Fresh
<1>4. ASSUME NEW t \in Txn,
             Begun(t) \/ BeginFails(t) \/ Started(t) \/ AfterBeginFails(t)
      PROVE  KeptWhenCommitted'
  <2>1. /\ kind' = kind
        /\ state'[t] = "committed" => state[t] = "committed"
        /\ \A u \in Txn \ {t} : state'[u] = state[u] /\ db'[u] = db[u]
        BY <1>4 DEF Begun, BeginFails, Started, AfterBeginFails, TypeOK
  <2>2. \A u \in Txn, j \in Call :
           \/ pc'[<<u, j>>] = pc[<<u, j>>]
           \/ pc'[<<u, j>>] \in {"started", "body", "rejected", "retrying"}
    <3>1. PICK end \in {"started", "body", "rejected", "retrying"} :
             pc' = [pc EXCEPT ![<<t, "run">>] = end]
          BY <1>4 DEF Begun, BeginFails, Started, AfterBeginFails, RunEnds
    <3> QED BY <3>1 DEF TypeOK
  <2>3. db[t] = "kept" => db'[t] = "kept"
        BY <1>4 DEF Begun, BeginFails, Started, AfterBeginFails,
                    Untouched, UntouchedAt, TypeOK
  <2>4. Owned(t)' => KeptAt(t)'
        BY <2>1, <2>2, <2>3 DEF KeptWhenCommitted, KeptAt, Owned
  <2> QED BY <2>1, <2>2, <2>4, KeptAside
<1>5. ASSUME NEW t \in Txn, Timeout(t)
      PROVE  KeptWhenCommitted'
      BY <1>5 DEF Timeout, KeptWhenCommitted, KeptAt, Owned
<1>6. ASSUME NEW t \in Txn, NEW k \in Call, Continues(t, k)
      PROVE  KeptWhenCommitted'
  <2>1. Local(t) /\ Moves(t, k, Later)
        BY <1>6, ContinuesLocally
  <2>2. Owned(t)' => KeptAt(t)'
        BY <1>6, <2>1, ContinuesKept DEF Local, Owned, KeptWhenCommitted
  <2> QED BY <2>1, <2>2, KeptAside DEF Local, Moves
<1> QED BY <1>1, <1>2, <1>3, <1>4, <1>5, <1>6, NextContinues

\* "A rollback can never be reported as a commit": as long as no callback commits
\* its handle past the manager, a run() that resolves has committed its connection
\* or released its savepoint, whatever timed out, failed, was retried, marked or
\* completed by hand on the way.
THEOREM ResolvedRunIsKept ==
    ASSUME ~("commit" \in Direct)
    PROVE  Spec => []ReportedCommitIsKept
<1>1. Init => Untouched /\ KeptWhenCommitted
      BY DEF Init, Untouched, UntouchedAt, KeptWhenCommitted, KeptAt, Owned, Call
<1>2. TypeOK /\ Untouched /\ [Next]_vars => Untouched'
      BY UntouchedStep
<1>3. TypeOK /\ Untouched /\ KeptWhenCommitted /\ [Next]_vars => KeptWhenCommitted'
      BY KeptStep
<1>4. KeptWhenCommitted => ReportedCommitIsKept
      BY DEF KeptWhenCommitted, KeptAt, ReportedCommitIsKept, RunIs, Call
<1> QED BY <1>1, <1>2, <1>3, <1>4, TypesAreKept, PTL DEF Spec

-----------------------------------------------------------------------------
(* How handles are nested *)

\* A set of handles that holds the scope of every member holds whatever is
\* around one: a callback nests to any depth, and no definition here recurses.
Within(S) == \A x \in S : outer[x] # NoTxn => outer[x] \in S
Around(a, t) == \A S \in SUBSET Txn : t \in S /\ Within(S) => a \in S

Joins(t) == kind[t] \in {"participant", "savepoint"}

\* A handle is opened in the callback of another, and joins a transaction that
\* is around it.
ScopedAt(t) ==
    /\ Unused(t) => outer[t] = NoTxn /\ signal[t] = {}
    /\ outer[t] # NoTxn => ~Unused(outer[t])
    /\ Joins(t) => up[t] \in Txn \ {t} /\ Owned(up[t]) /\ Around(up[t], t)

\* Its signal is aborted with the transactions around it, one of them a root.
SignalledAt(t) ==
    /\ kind[t] \in {"root", "none"} => signal[t] = {t}
    /\ kind[t] = "participant" => signal[t] = signal[up[t]]
    /\ kind[t] = "savepoint" => signal[t] = {t} \cup signal[up[t]]
    /\ \A a \in signal[t] : /\ a # t => Owned(a)
                            /\ Around(a, t)
                            /\ signal[a] \subseteq signal[t]
                            /\ \A b \in signal[t] : kind[a] = "root" /\ kind[b] = "root" => a = b
    /\ Transactional(t) => \E r \in signal[t] : kind[r] = "root"

Shape == \A t \in Txn : ScopedAt(t) /\ SignalledAt(t)

\* What a handle joins is an owned transaction: the one whose callback opens it,
\* or the one that callback joined.
LEMMA CurrentIsAround ==
    ASSUME TypeOK, Shape, NEW o \in Txn \cup {NoTxn}, Current(o) # NoTxn,
           o = NoTxn \/ ~Unused(o)
    PROVE  /\ o \in Txn /\ Current(o) \in Txn /\ Owned(Current(o))
           /\ Current(o) = o \/ (kind[o] = "participant" /\ Current(o) = up[o])
<1>1. o \in Txn /\ o # NoTxn /\ kind[o] # "none" /\ Current(o) = Real(o)
      BY DEF Current
<1>2. CASE kind[o] = "participant"
      BY <1>1, <1>2 DEF Real, Shape, ScopedAt, Joins
<1>3. CASE kind[o] # "participant"
      BY <1>1, <1>3 DEF Real, Owned, Unused, TypeOK, Kind
<1> QED BY <1>1, <1>2, <1>3

\* What resolving a handle settles about its place.
Placed(t, o) ==
    /\ Unused(t) /\ kind'[t] \in Kind /\ outer' = [outer EXCEPT ![t] = o]
    /\ \A u \in Txn \ {t} : kind'[u] = kind[u] /\ up'[u] = up[u] /\ signal'[u] = signal[u]
    /\ kind'[t] \in {"root", "none"} => signal'[t] = {t}
    /\ kind'[t] \in {"participant", "savepoint"} =>
          /\ o \in Txn /\ up'[t] \in Txn /\ Owned(up'[t])
          /\ up'[t] = o \/ (kind[o] = "participant" /\ up'[t] = up[o])
          /\ signal'[t] = signal[up'[t]] \cup (IF kind'[t] = "savepoint" THEN {t} ELSE {})

LEMMA OpenPlaced ==
    ASSUME TypeOK, Shape, NEW t \in Txn, NEW o \in Txn \cup {NoTxn}, NEW p, NEW failed,
           Unused(t), o = NoTxn \/ ~Unused(o), Open(t, o, p, failed)
    PROVE  Placed(t, o)
<1> DEFINE current == IF Suspends(p) THEN NoTxn ELSE Current(o)
           k == Resolve(p, current # NoTxn)
<1>1. k \in Kind \cup {"refused"}
      BY DEF Resolve, Kind
<1>2. k # "refused" /\ kind' = [kind EXCEPT ![t] = k]
      BY DEF Open
<1>3. /\ up' = [up EXCEPT ![t] = IF k \in {"participant", "savepoint"} THEN current ELSE NoTxn]
      /\ outer' = [outer EXCEPT ![t] = o]
      /\ signal' = [signal EXCEPT ![t] =
            (IF k = "participant" THEN {} ELSE {t}) \cup
            (IF k \in {"participant", "savepoint"} THEN signal[current] ELSE {})]
      BY DEF Open
<1>4. k \in {"participant", "savepoint"} => current # NoTxn /\ current = Current(o)
      BY DEF Resolve
<1> HIDE DEF k, current
<1>5. /\ \A u \in Txn \ {t} : kind'[u] = kind[u] /\ up'[u] = up[u] /\ signal'[u] = signal[u]
      /\ kind'[t] = k
      BY <1>2, <1>3 DEF TypeOK
<1>6. k \in {"root", "none"} => signal'[t] = {t}
      BY <1>3 DEF TypeOK
<1>7. ASSUME k \in {"participant", "savepoint"}
      PROVE  /\ o \in Txn /\ up'[t] \in Txn /\ Owned(up'[t])
             /\ up'[t] = o \/ (kind[o] = "participant" /\ up'[t] = up[o])
             /\ signal'[t] = signal[up'[t]] \cup (IF k = "savepoint" THEN {t} ELSE {})
  <2>1. up'[t] = current /\ signal'[t] = (IF k = "participant" THEN {} ELSE {t}) \cup signal[current]
        BY <1>3, <1>7 DEF TypeOK
  <2> QED BY <1>4, <1>7, <2>1, CurrentIsAround
<1> QED BY <1>1, <1>2, <1>3, <1>5, <1>6, <1>7 DEF Placed

\* Opening a handle leaves what is around the others, and is inside its scope.
LEMMA PlacedAround ==
    ASSUME TypeOK, Shape, NEW t \in Txn, NEW o \in Txn \cup {NoTxn}, Placed(t, o)
    PROVE  /\ \A a, u \in Txn : Around(a, u) => Around(a, u)'
           /\ \A S \in SUBSET Txn : t \in S /\ Within(S)' /\ o # NoTxn => o \in S
<1>1. outer[t] = NoTxn
      BY DEF Shape, ScopedAt, Placed
<1>2. outer' = [outer EXCEPT ![t] = o]
      BY DEF Placed
<1>3. ASSUME NEW S \in SUBSET Txn, Within(S)'
      PROVE  Within(S)
      BY <1>1, <1>2, <1>3 DEF Within, TypeOK
<1>4. \A S \in SUBSET Txn : t \in S /\ Within(S)' /\ o # NoTxn => o \in S
      BY <1>2 DEF Within, TypeOK
<1> QED BY <1>3, <1>4 DEF Around

LEMMA OpenShape ==
    ASSUME TypeOK, Shape, NEW t \in Txn, NEW o \in Txn \cup {NoTxn}, Placed(t, o),
           NoTxn \notin Txn, o = NoTxn \/ ~Unused(o)
    PROVE  Shape'
<1>1. Unused(t) /\ kind'[t] \in Kind /\ outer' = [outer EXCEPT ![t] = o]
      BY DEF Placed
<1>2. \A u \in Txn \ {t} : kind'[u] = kind[u] /\ up'[u] = up[u] /\ signal'[u] = signal[u]
                           /\ outer'[u] = outer[u]
      BY DEF Placed, TypeOK
<1>3. outer'[t] = o /\ ~Unused(t)'
      BY <1>1 DEF TypeOK, Kind, Unused
<1>4. \A u \in Txn : Owned(u) => u # t /\ Owned(u)'
      BY <1>1, <1>2 DEF Owned, Unused
<1>5. \A a, u \in Txn : Around(a, u) => Around(a, u)'
      BY PlacedAround
<1>6. ASSUME NEW u \in Txn \ {t} PROVE ScopedAt(u)' /\ SignalledAt(u)'
  <2>1. ScopedAt(u) /\ SignalledAt(u) /\ signal[u] \in SUBSET Txn
        BY DEF Shape, TypeOK
  <2>2. t \notin signal[u]
        BY <2>1, <1>4 DEF SignalledAt
  <2>3. ScopedAt(u)'
        BY <2>1, <1>1, <1>2, <1>3, <1>4, <1>5 DEF ScopedAt, Unused, Joins, TypeOK
  <2>4. Joins(u) => up[u] \in Txn \ {t}
        BY <2>1, <1>4 DEF ScopedAt
  <2>5. \A a \in signal[u] : /\ a \in Txn \ {t} /\ kind'[a] = kind[a] /\ signal'[a] = signal[a]
                             /\ Around(a, u)' /\ (Owned(a) => Owned(a)')
        BY <2>1, <2>2, <1>2, <1>4, <1>5 DEF SignalledAt
  <2>6. kind'[u] = kind[u] /\ signal'[u] = signal[u] /\ up'[u] = up[u]
        BY <1>2
  <2>7. SignalledAt(u)'
    <3>1. /\ kind'[u] \in {"root", "none"} => signal'[u] = {u}
          /\ kind'[u] = "participant" => signal'[u] = signal'[up'[u]]
          /\ kind'[u] = "savepoint" => signal'[u] = {u} \cup signal'[up'[u]]
          BY <2>1, <2>4, <2>6, <1>2 DEF SignalledAt, Joins
    <3>2. Transactional(u)' => \E r \in signal'[u] : kind'[r] = "root"
          BY <2>1, <2>5, <2>6 DEF SignalledAt, Transactional
    <3>3. ASSUME NEW a \in signal'[u]
          PROVE  /\ a # u => Owned(a)'
                 /\ Around(a, u)'
                 /\ signal'[a] \subseteq signal'[u]
                 /\ \A b \in signal'[u] : kind'[a] = "root" /\ kind'[b] = "root" => a = b
          BY <2>1, <2>5, <2>6 DEF SignalledAt
    <3> QED BY <3>1, <3>2, <3>3 DEF SignalledAt
  <2> QED BY <2>3, <2>7
<1>7. CASE kind'[t] \in {"root", "none"}
  <2>1. signal'[t] = {t}
        BY <1>7 DEF Placed
  <2>2. ScopedAt(t)'
        BY <1>1, <1>2, <1>3, <1>7 DEF ScopedAt, Unused, Joins
  <2>3. SignalledAt(t)'
        BY <2>1, <1>7 DEF SignalledAt, Around, Transactional
  <2> QED BY <1>6, <2>2, <2>3 DEF Shape
<1>8. CASE kind'[t] \in {"participant", "savepoint"}
  <2>0. PICK c \in Txn : up'[t] = c
        BY <1>8 DEF Placed
  <2>1. /\ o \in Txn /\ c \in Txn /\ Owned(c) /\ c # t /\ Owned(c)'
        /\ c = o \/ (kind[o] = "participant" /\ c = up[o])
        /\ signal'[t] = signal[c] \cup (IF kind'[t] = "savepoint" THEN {t} ELSE {})
        BY <2>0, <1>4, <1>8 DEF Placed
  <2>2. /\ ScopedAt(c) /\ SignalledAt(c) /\ ScopedAt(o) /\ signal[c] \in SUBSET Txn
        /\ signal'[c] = signal[c]
        BY <2>1, <1>2 DEF Shape, TypeOK
  <2>3. ASSUME NEW S \in SUBSET Txn, t \in S, Within(S)' PROVE c \in S
    <3>1. o \in S
          BY <2>1, <2>3, PlacedAround
    <3>2. c = o \/ Around(c, o)'
          BY <2>1, <2>2, <1>5 DEF ScopedAt, Joins
    <3> QED BY <2>3, <3>1, <3>2 DEF Around
  <2>4. \A a \in signal[c] : Around(a, c)'
        BY <2>1, <2>2, <1>5 DEF SignalledAt
  <2>5. Around(c, t)'
        BY <2>3 DEF Around
  <2>6. \A a \in signal[c] : Around(a, t)'
        BY <2>3, <2>4 DEF Around
  <2>7. ScopedAt(t)'
    <3>1. up'[t] = c /\ ~Unused(o)
          BY <2>0, <2>1 DEF ScopedAt
    <3>2. o # t /\ ~Unused(o)'
          BY <3>1, <2>1, <1>1, <1>2 DEF Unused
    <3> QED BY <3>1, <3>2, <2>1, <2>5, <1>3 DEF ScopedAt, Joins
  <2>8. SignalledAt(t)'
    <3>1. up'[t] = c
          BY <2>0
    <3>2. \A a \in signal[c] : /\ a \in Txn \ {t} /\ kind'[a] = kind[a] /\ signal'[a] = signal[a]
                               /\ Owned(a) /\ Owned(a)' /\ signal[a] \subseteq signal[c]
          BY <2>1, <2>2, <1>2, <1>4 DEF SignalledAt
    <3>3. /\ kind'[t] = "participant" => signal'[t] = signal'[up'[t]]
          /\ kind'[t] = "savepoint" => signal'[t] = {t} \cup signal'[up'[t]]
          BY <2>1, <2>2, <3>1
    <3>4. \E r \in signal'[t] : kind'[r] = "root"
          BY <2>1, <2>2, <3>2 DEF SignalledAt, Transactional, Owned
    <3>5. Around(t, t)'
          BY DEF Around
    <3>6. ASSUME NEW a \in signal'[t]
          PROVE  /\ a # t => Owned(a)'
                 /\ Around(a, t)'
                 /\ signal'[a] \subseteq signal'[t]
                 /\ \A b \in signal'[t] : kind'[a] = "root" /\ kind'[b] = "root" => a = b
      <4>1. CASE a = t
        <5>1. kind'[t] = "savepoint"
              BY <4>1, <3>2, <2>1, <3>6
        <5> QED BY <4>1, <5>1, <3>5
      <4>2. CASE a # t
        <5>1. a \in signal[c]
              BY <4>2, <2>1, <3>6
        <5>2. \A b \in signal'[t] : kind'[b] = "root" => b \in signal[c]
              BY <2>1, <1>8
        <5>3. \A b \in signal[c] : kind'[a] = "root" /\ kind'[b] = "root" => a = b
              BY <5>1, <3>2, <2>2 DEF SignalledAt
        <5> QED BY <5>1, <5>2, <5>3, <3>2, <2>6, <2>1
      <4> QED BY <4>1, <4>2
    <3> QED BY <1>8, <3>3, <3>4, <3>6 DEF SignalledAt
  <2> QED BY <1>6, <2>7, <2>8 DEF Shape
<1> QED BY <1>3, <1>1, <1>7, <1>8 DEF Kind

\* Every step that opens no handle leaves them nested as they were.
LEMMA ShapeStays ==
    ASSUME Shape, UNCHANGED identity
    PROVE  Shape'
BY DEF Shape, ScopedAt, SignalledAt, Around, Within, Joins, Owned, Unused, Transactional, identity

LEMMA ShapeStep ==
    ASSUME TypeOK, TransactionConstants, Untouched, Shape, [Next]_vars
    PROVE  Shape'
<1>1. CASE UNCHANGED vars
      BY <1>1, ShapeStays DEF vars
<1>2. ASSUME NEW t \in Txn, NEW o \in Txn \cup {NoTxn}, NEW p \in Propagations, Begin(t, o, p)
      PROVE  Shape'
  <2>1. o = NoTxn \/ body[o] # "none"
        BY <1>2 DEF Begin, InContext
  <2>2. o = NoTxn \/ ~Unused(o)
        BY <2>1 DEF Untouched, UntouchedAt
  <2> QED BY <1>2, <2>2, OpenPlaced, OpenShape DEF Begin, TransactionConstants
<1>3. ASSUME NEW t \in Txn, NEW again \in Txn, Replay(t, again)
      PROVE  Shape'
  <2>1. outer[t] \in Txn \cup {NoTxn} /\ (outer[t] = NoTxn \/ ~Unused(outer[t]))
        BY DEF Shape, ScopedAt, TypeOK
  <2> QED BY <1>3, <2>1, OpenPlaced, OpenShape DEF Replay, TransactionConstants
<1>4. ASSUME NEW t \in Txn, Begun(t) \/ BeginFails(t) \/ Started(t) \/ AfterBeginFails(t) \/ Timeout(t)
      PROVE  Shape'
      BY <1>4, ShapeStays DEF Begun, BeginFails, Started, AfterBeginFails, Timeout
<1>5. ASSUME NEW t \in Txn, NEW k \in Call, Continues(t, k)
      PROVE  Shape'
      BY <1>5, ContinuesIdentity, ShapeStays
<1> QED BY <1>1, <1>2, <1>3, <1>4, <1>5, NextContinues

-----------------------------------------------------------------------------
(* Every callback is somewhere once *)

Committing == {"beforeCommit", "adapterCommit"}

\* One commit at a time is under way on a handle, and that of run() only when
\* the callback is done.
CommitsOnce(t) == pc[<<t, "run">>] \in Committing =>
                      body[t] = "done" /\ pc[<<t, "hand">>] \notin Committing

Hook1(t) == <<t, "hook">>
Registered(w) == w \in ran \/ \E u \in Txn : w \in held[u]

\* hooks.afterCommit of a savepoint is registered by its commit, right before
\* the adapter is asked: after that the handle finishes.
RegistersOnce(t) ==
    /\ \A u \in Txn : Hook1(t) \in held[u] => kind[t] = "savepoint"
    /\ Hook1(t) \in ran => Owned(t)
    /\ kind[t] = "savepoint" /\ Registered(Hook1(t)) =>
          /\ \A k \in Call : pc[<<t, k>>] # "beforeCommit"
          /\ state[t] \in Terminal \/ \E k \in Call : pc[<<t, k>>] = "adapterCommit"

UndoneCallbacks == \A w \in undone : w[2] = "callback"

Once == /\ \A t \in Txn : CommitsOnce(t) /\ RegistersOnce(t)
        /\ UndoneCallbacks /\ HeldOnce

\* Where a step of a handle that has begun leads its commit.
CommitMoves(t, k) ==
    \/ /\ \A j \in Call : pc'[<<t, j>>] = pc[<<t, j>>]
       /\ body'[t] \in {body[t], "done"}
    \/ /\ pc'[<<t, k>>] \notin Committing /\ body'[t] \in {body[t], "done"}
       /\ pc[<<t, k>>] = "adapterCommit" => state'[t] \in Terminal
    \/ /\ pc[<<t, k>>] = "beforeCommit" /\ pc'[<<t, k>>] = "adapterCommit"
       /\ body'[t] = body[t]
    \/ /\ state[t] = "active" /\ pc'[<<t, k>>] \in Committing
       /\ \/ k = "run" /\ body'[t] = "done" /\ ~Completing(t) /\ pc[<<t, "run">>] = "body"
          \/ k = "hand" /\ body[t] = "running" /\ body'[t] = body[t] /\ pc[<<t, k>>] = "idle"

LEMMA ContinuesCommitMoves ==
    ASSUME TypeOK, NEW t \in Txn, NEW k \in Call, Continues(t, k)
    PROVE  CommitMoves(t, k)
<1> USE DEF identity, flags, work, Committing
<1>1. ASSUME BeforeCommit(t, k) PROVE CommitMoves(t, k)
  <2>1. pc'[<<t, k>>] = "adapterCommit"
        BY <1>1 DEF BeforeCommit, Await, TypeOK
  <2> QED BY <1>1, <2>1 DEF BeforeCommit, CommitMoves
<1>2. ASSUME BeforeCommitFails(t, k) \/ (k = "run" /\ (BodyThrows(t) \/ Abandon(t)))
      PROVE  CommitMoves(t, k)
  <2>1. Throw(t, k) /\ pc[<<t, k>>] # "adapterCommit" /\ body'[t] \in {body[t], "done"}
        BY <1>2 DEF BeforeCommitFails, BodyThrows, Abandon, TypeOK
  <2>2. Moves(t, k, Failing)
        BY <2>1, ThrowMoves
  <2> QED BY <2>1, <2>2 DEF CommitMoves, Moves, Failing
<1>3. ASSUME AdapterCommits(t, k) \/ AdapterRefusesCommit(t, k) PROVE CommitMoves(t, k)
  <2>1. state'[t] \in Terminal /\ body' = body
        BY <1>3 DEF AdapterCommits, AdapterRefusesCommit, ObjectCommits, Fail, Terminal, TypeOK
  <2>2. \/ Moves(t, k, {"afterCommit"}) \/ Moves(t, k, {"settled", "retrying", "resolved"})
        \/ Moves(t, k, {"settled", "retrying", "rejected"})
        BY <1>3, SettleMoves, AwaitMoves DEF AdapterCommits, AdapterRefusesCommit
  <2> QED BY <2>1, <2>2 DEF CommitMoves, Moves
<1>4. ASSUME AfterCommit(t, k) \/ AfterCommitFails(t, k) \/ AfterRollback(t, k)
      PROVE  CommitMoves(t, k)
  <2>1. body' = body /\ pc[<<t, k>>] # "adapterCommit"
        BY <1>4 DEF AfterCommit, AfterCommitFails, AfterRollback
  <2>2. \/ Moves(t, k, {"settled", "retrying", "resolved"})
        \/ Moves(t, k, {"settled", "retrying", "rejected"})
        BY <1>4, SettleMoves DEF AfterCommit, AfterCommitFails, AfterRollback
  <2> QED BY <2>1, <2>2 DEF CommitMoves, Moves
<1>5. ASSUME BeforeRollback(t, k) PROVE CommitMoves(t, k)
  <2>1. pc'[<<t, k>>] = "adapterRollback"
        BY <1>5 DEF BeforeRollback, Await, TypeOK
  <2> QED BY <1>5, <2>1 DEF BeforeRollback, CommitMoves
<1>6. ASSUME BeforeRollbackFails(t, k) PROVE CommitMoves(t, k)
  <2>1. body' = body /\ pc[<<t, k>>] # "adapterCommit"
        BY <1>6 DEF BeforeRollbackFails
  <2>2. Moves(t, k, Failing) \/ Moves(t, k, {"settled", "retrying", "rejected"})
        BY <1>6, ThrowMoves, SettleMoves DEF BeforeRollbackFails
  <2> QED BY <2>1, <2>2 DEF CommitMoves, Moves, Failing
<1>7. ASSUME AdapterRollsBack(t, k) \/ AdapterRefusesRollback(t, k) PROVE CommitMoves(t, k)
  <2>1. body' = body /\ pc[<<t, k>>] # "adapterCommit"
        BY <1>7 DEF AdapterRollsBack, AdapterRefusesRollback
  <2>2. Moves(t, k, {"afterRollback"}) \/ Moves(t, k, {"settled", "retrying", "rejected"})
        BY <1>7, AwaitMoves, SettleMoves DEF AdapterRollsBack, AdapterRefusesRollback
  <2> QED BY <2>1, <2>2 DEF CommitMoves, Moves
<1>8. ASSUME k = "hand", RollbackByHand(t) PROVE CommitMoves(t, k)
  <2>1. body' = body /\ pc[<<t, k>>] = "idle" /\ RollbackStart(t, k)
        BY <1>8 DEF RollbackByHand
  <2>2. Moves(t, k, Failing)
        BY <2>1, RollbackStartMoves
  <2> QED BY <2>1, <2>2 DEF CommitMoves, Moves, Failing
<1>9. ASSUME (k = "hand" /\ CommitByHand(t)) \/ (k = "run" /\ BodyReturns(t))
      PROVE  CommitMoves(t, k)
  <2>1. /\ CommitStart(t, k)
        /\ \/ k = "run" /\ body'[t] = "done" /\ ~Completing(t) /\ pc[<<t, "run">>] = "body"
           \/ k = "hand" /\ body[t] = "running" /\ body'[t] = body[t] /\ pc[<<t, k>>] = "idle"
        BY <1>9 DEF CommitByHand, BodyReturns, Busy, TypeOK
  <2>2. CASE pc'[<<t, k>>] \in Committing
    <3>1. state[t] = "active"
      <4>1. CASE /\ ~(kind[t] = "participant" \/ state[t] = "committed")
                 /\ state[t] # "active"
        <5>1. Throw(t, k)
              BY <2>1, <4>1 DEF CommitStart
        <5>2. Moves(t, k, Failing)
              BY <5>1, ThrowMoves
        <5> QED BY <2>1, <2>2, <5>2 DEF Moves, Failing
      <4>2. CASE kind[t] = "participant" \/ state[t] = "committed"
        <5>1. Moves(t, k, {"settled", "retrying", "resolved"})
              BY <2>1, <4>2, SettleMoves DEF CommitStart
        <5> QED BY <2>1, <2>2, <5>1 DEF Moves
      <4> QED BY <4>1, <4>2
    <3> QED BY <2>1, <2>2, <3>1 DEF CommitMoves
  <2>3. CASE pc'[<<t, k>>] \notin Committing
        BY <2>1, <2>3 DEF CommitMoves
  <2> QED BY <2>2, <2>3
<1>10. ASSUME k = "run", GiveUp(t) PROVE CommitMoves(t, k)
      BY <1>10 DEF GiveUp, CommitMoves, TypeOK
<1>11. ASSUME \/ Register(t) \/ MarkRollbackOnly(t) \/ AbandonedEnds(t)
              \/ CommitDirectly(t) \/ RollbackDirectly(t)
       PROVE  CommitMoves(t, k)
      BY <1>11 DEF Register, MarkRollbackOnly, AbandonedEnds, CommitDirectly, RollbackDirectly,
                   CommitMoves, TypeOK
<1> QED BY <1>1, <1>2, <1>3, <1>4, <1>5, <1>6, <1>7, <1>8, <1>9, <1>10, <1>11
        DEF Continues, Commits, RollsBack

\* What a step of a handle that has begun does to the callbacks.
WorkMoves(t, k) ==
    \/ UNCHANGED work
    \/ ObjectCommits(t)
    \/ ObjectRollsBack(t)
    \/ \E w \in {<<t, "callback">>}, u \in {Real(t)} :
          /\ ~Registered(w) /\ w \notin undone
          /\ held' = [held EXCEPT ![u] = @ \cup {w}] /\ UNCHANGED <<ran, undone>>
    \/ /\ kind[t] = "savepoint" /\ pc[<<t, k>>] = "beforeCommit" /\ pc'[<<t, k>>] = "adapterCommit"
       /\ held' = [held EXCEPT ![t] = @ \cup {Hook1(t)}] /\ UNCHANGED <<ran, undone>>
    \/ kind[t] = "root" /\ ran' = ran \cup {Hook1(t)} /\ UNCHANGED <<held, undone>>

LEMMA ContinuesWorkMoves ==
    ASSUME TypeOK, NEW t \in Txn, NEW k \in Call, Continues(t, k)
    PROVE  WorkMoves(t, k)
<1> USE DEF work
<1>1. CASE Commits(t, k) \/ RollsBack(t, k)
  <2>1. ASSUME BeforeCommit(t, k) PROVE WorkMoves(t, k)
        BY <2>1 DEF BeforeCommit, Await, WorkMoves, Hook1, TypeOK
  <2>2. ASSUME AdapterCommits(t, k) PROVE WorkMoves(t, k)
        BY <2>2 DEF AdapterCommits, WorkMoves
  <2>3. ASSUME AfterCommit(t, k) \/ AfterCommitFails(t, k) PROVE WorkMoves(t, k)
        BY <2>3 DEF AfterCommit, AfterCommitFails, WorkMoves, Hook1
  <2>4. ASSUME AdapterRollsBack(t, k) PROVE WorkMoves(t, k)
        BY <2>4 DEF AdapterRollsBack, WorkMoves
  <2>5. ASSUME \/ BeforeCommitFails(t, k) \/ AdapterRefusesCommit(t, k) \/ BeforeRollback(t, k)
               \/ BeforeRollbackFails(t, k) \/ AdapterRefusesRollback(t, k) \/ AfterRollback(t, k)
        PROVE WorkMoves(t, k)
        BY <2>5 DEF BeforeCommitFails, AdapterRefusesCommit, BeforeRollback, BeforeRollbackFails,
                    AdapterRefusesRollback, AfterRollback, WorkMoves
  <2> QED BY <1>1, <2>1, <2>2, <2>3, <2>4, <2>5 DEF Commits, RollsBack
<1>2. ASSUME CommitByHand(t) \/ BodyReturns(t) PROVE WorkMoves(t, k)
      BY <1>2 DEF CommitByHand, BodyReturns, CommitStart, WorkMoves
<1>3. ASSUME CommitDirectly(t) \/ RollbackDirectly(t) PROVE WorkMoves(t, k)
      BY <1>3 DEF CommitDirectly, RollbackDirectly, WorkMoves
<1>4. ASSUME Register(t) PROVE WorkMoves(t, k)
      BY <1>4 DEF Register, WorkMoves, Registered
<1>5. ASSUME \/ RollbackByHand(t) \/ BodyThrows(t) \/ Abandon(t) \/ GiveUp(t)
             \/ MarkRollbackOnly(t) \/ AbandonedEnds(t)
      PROVE  WorkMoves(t, k)
      BY <1>5 DEF RollbackByHand, BodyThrows, Abandon, GiveUp, MarkRollbackOnly, AbandonedEnds,
                  WorkMoves
<1> QED BY <1>1, <1>2, <1>3, <1>4, <1>5 DEF Continues

\* A callback or a hook that moves, moves outward or to the work that was run.
LEMMA WorkMovesOnce ==
    ASSUME TypeOK, Shape, Once, NEW t \in Txn, NEW k \in Call, ~Unused(t), WorkMoves(t, k), kind' = kind
    PROVE  /\ HeldOnce' /\ UndoneCallbacks'
           /\ \A w \in Work, u \in Txn : w \in held'[u] /\ w[2] = "hook" =>
                 (\E v \in Txn : w \in held[v]) \/ (w[1] = t /\ kind[t] = "savepoint")
           /\ \A w \in Work : w \in ran' =>
                 w \in ran \/ (\E v \in Txn : w \in held[v]) \/ (w[1] = t /\ kind[t] = "root")
<1> DEFINE Moved == /\ \A w \in Work, u \in Txn : w \in held'[u] /\ w[2] = "hook" =>
                          (\E v \in Txn : w \in held[v]) \/ (w[1] = t /\ kind[t] = "savepoint")
                    /\ \A w \in Work : w \in ran' =>
                          w \in ran \/ (\E v \in Txn : w \in held[v]) \/ (w[1] = t /\ kind[t] = "root")
           Goal == HeldOnce' /\ UndoneCallbacks' /\ Moved
<1>1. /\ held \in [Txn -> SUBSET Work] /\ ran \in SUBSET Work /\ undone \in SUBSET Work
      /\ HeldOnce /\ UndoneCallbacks /\ RegistersOnce(t)
      BY DEF TypeOK, Once
<1>2. CASE UNCHANGED work
      BY <1>1, <1>2 DEF work, HeldOnce, UndoneCallbacks
<1>3. CASE ObjectCommits(t) /\ kind[t] = "savepoint"
  <2>1. up[t] \in Txn \ {t}
        BY <1>3 DEF Shape, ScopedAt, Joins
  <2>2. /\ held'[t] = {} /\ held'[up[t]] = held[up[t]] \cup held[t]
        /\ \A u \in Txn \ {t, up[t]} : held'[u] = held[u]
        /\ ran' = ran /\ undone' = undone
        BY <1>1, <1>3, <2>1 DEF ObjectCommits
  <2>3. HeldOnce' /\ UndoneCallbacks'
        BY <1>1, <2>1, <2>2 DEF HeldOnce, UndoneCallbacks
  <2>4. Moved
        BY <1>1, <2>1, <2>2
  <2> QED BY <2>3, <2>4
<1>4. CASE ObjectCommits(t) /\ kind[t] # "savepoint"
  <2>1. /\ held'[t] = {} /\ \A u \in Txn \ {t} : held'[u] = held[u]
        /\ ran' = ran \cup held[t] /\ undone' = undone
        BY <1>1, <1>4 DEF ObjectCommits
  <2>2. HeldOnce'
        BY <1>1, <2>1 DEF HeldOnce
  <2>3. UndoneCallbacks' /\ Moved
        BY <1>1, <2>1 DEF UndoneCallbacks
  <2> QED BY <2>2, <2>3
<1>5. CASE ObjectRollsBack(t)
  <2>1. /\ held'[t] = {} /\ \A u \in Txn \ {t} : held'[u] = held[u]
        /\ ran' = ran /\ undone' = undone \cup { w \in held[t] : w[2] = "callback" }
        BY <1>1, <1>5 DEF ObjectRollsBack
  <2>2. HeldOnce'
        BY <1>1, <2>1 DEF HeldOnce
  <2>3. UndoneCallbacks' /\ Moved
        BY <1>1, <2>1 DEF UndoneCallbacks
  <2> QED BY <2>2, <2>3
<1>6. ASSUME NEW w \in Work, NEW v \in Txn, ~Registered(w), w \notin undone,
             held' = [held EXCEPT ![v] = @ \cup {w}], ran' = ran, undone' = undone,
             w[2] = "hook" => w[1] = t /\ kind[t] = "savepoint"
      PROVE  Goal
  <2>1. /\ held'[v] = held[v] \cup {w} /\ \A u \in Txn \ {v} : held'[u] = held[u]
        /\ w \notin ran /\ \A u \in Txn : w \notin held[u]
        BY <1>1, <1>6 DEF Registered
  <2>2. HeldOnce'
        BY <1>1, <1>6, <2>1 DEF HeldOnce
  <2>3. UndoneCallbacks' /\ Moved
        BY <1>1, <1>6, <2>1 DEF UndoneCallbacks
  <2> QED BY <2>2, <2>3
<1>7. CASE \E w \in {<<t, "callback">>}, u \in {Real(t)} :
              /\ ~Registered(w) /\ w \notin undone
              /\ held' = [held EXCEPT ![u] = @ \cup {w}] /\ UNCHANGED <<ran, undone>>
  <2>1. Real(t) \in Txn
        BY DEF Real, Shape, ScopedAt, Joins
  <2>2. <<t, "callback">> \in Work /\ <<t, "callback">>[2] = "callback"
        BY DEF Work
  <2> QED BY <1>6, <1>7, <2>1, <2>2
<1>8. CASE /\ kind[t] = "savepoint" /\ pc[<<t, k>>] = "beforeCommit"
           /\ pc'[<<t, k>>] = "adapterCommit"
           /\ held' = [held EXCEPT ![t] = @ \cup {Hook1(t)}] /\ UNCHANGED <<ran, undone>>
  <2>1. Hook1(t) \in Work /\ Hook1(t)[1] = t /\ Hook1(t)[2] = "hook"
        BY DEF Work, Hook1
  <2>2. ~Registered(Hook1(t)) /\ Hook1(t) \notin undone
        BY <1>1, <1>8, <2>1 DEF RegistersOnce, UndoneCallbacks
  <2> QED BY <1>6, <1>8, <2>1, <2>2
<1>9. CASE kind[t] = "root" /\ ran' = ran \cup {Hook1(t)} /\ UNCHANGED <<held, undone>>
  <2>1. Hook1(t) \in Work /\ Hook1(t)[1] = t /\ Hook1(t)[2] = "hook"
        BY DEF Work, Hook1
  <2>2. Hook1(t) \notin undone /\ \A u \in Txn : Hook1(t) \notin held[u]
        BY <1>1, <1>9, <2>1 DEF RegistersOnce, UndoneCallbacks
  <2>3. HeldOnce'
        BY <1>1, <1>9, <2>2 DEF HeldOnce
  <2>4. UndoneCallbacks' /\ Moved
        BY <1>1, <1>9, <2>1 DEF UndoneCallbacks
  <2> QED BY <2>3, <2>4
<1> QED BY <1>2, <1>3, <1>4, <1>5, <1>7, <1>8, <1>9 DEF WorkMoves

\* A step of a handle that has begun commits once and registers its hook once.
LEMMA ContinuesOnce ==
    ASSUME TypeOK, Untouched, Shape, Once, NEW t \in Txn, NEW k \in Call, Continues(t, k)
    PROVE  Once'
<1>1. Past(t) /\ Local(t) /\ Moves(t, k, Later)
      BY ContinuesLocally
<1>2. CommitMoves(t, k) /\ WorkMoves(t, k)
      BY ContinuesCommitMoves, ContinuesWorkMoves
<1>3. kind' = kind /\ ~Unused(t)
      BY <1>1 DEF Local, Past
<1>4. /\ HeldOnce' /\ UndoneCallbacks'
      /\ \A w \in Work, u \in Txn : w \in held'[u] /\ w[2] = "hook" =>
            (\E v \in Txn : w \in held[v]) \/ (w[1] = t /\ kind[t] = "savepoint")
      /\ \A w \in Work : w \in ran' =>
            w \in ran \/ (\E v \in Txn : w \in held[v]) \/ (w[1] = t /\ kind[t] = "root")
      BY <1>2, <1>3, WorkMovesOnce
<1>5. ASSUME NEW u \in Txn
      PROVE  /\ \A v \in Txn : Hook1(u) \in held'[v] => kind'[u] = "savepoint"
             /\ Hook1(u) \in ran' => Owned(u)'
             /\ u # t /\ Registered(Hook1(u))' => Registered(Hook1(u)) \/ kind[u] # "savepoint"
  <2>1. Hook1(u) \in Work /\ Hook1(u)[1] = u /\ Hook1(u)[2] = "hook" /\ RegistersOnce(u)
        BY DEF Work, Hook1, Once
  <2> QED BY <2>1, <1>3, <1>4 DEF RegistersOnce, Owned, Registered
<1>6. ASSUME NEW u \in Txn \ {t} PROVE CommitsOnce(u)' /\ RegistersOnce(u)'
  <2>1. /\ state'[u] = state[u] /\ body'[u] = body[u] /\ kind'[u] = kind[u]
        /\ \A j \in Call : pc'[<<u, j>>] = pc[<<u, j>>]
        BY <1>1, <1>3 DEF Local, Moves
  <2>2. CommitsOnce(u) /\ RegistersOnce(u)
        BY DEF Once
  <2>3. CommitsOnce(u)'
        BY <2>1, <2>2 DEF CommitsOnce, Call
  <2>4. RegistersOnce(u)'
        BY <2>1, <2>2, <1>5 DEF RegistersOnce
  <2> QED BY <2>3, <2>4
<1>7. CommitsOnce(t) /\ RegistersOnce(t)
      BY DEF Once
<1>8. \A j \in Call \ {k} : pc'[<<t, j>>] = pc[<<t, j>>]
      BY <1>1 DEF Moves
<1>9. CommitsOnce(t)'
      BY <1>2, <1>7, <1>8 DEF CommitMoves, CommitsOnce, Committing, Completing, Call
<1>10. RegistersOnce(t)'
  <2>1. ASSUME kind[t] = "savepoint", Registered(Hook1(t))
        PROVE  /\ \A j \in Call : pc'[<<t, j>>] # "beforeCommit"
               /\ state'[t] \in Terminal \/ \E j \in Call : pc'[<<t, j>>] = "adapterCommit"
    <3>1. state[t] \in Terminal \/ \E j \in Call : pc[<<t, j>>] = "adapterCommit"
          BY <1>7, <2>1 DEF RegistersOnce
    <3>2. \A j \in Call : pc[<<t, j>>] # "beforeCommit"
          BY <1>7, <2>1 DEF RegistersOnce
    <3>3. state[t] \in Terminal => state'[t] \in Terminal
          BY ContinuesFinal
    <3>4. ~(/\ state[t] = "active" /\ pc'[<<t, k>>] \in Committing
            /\ \/ k = "run" /\ body'[t] = "done" /\ ~Completing(t) /\ pc[<<t, "run">>] = "body"
               \/ k = "hand" /\ body[t] = "running" /\ body'[t] = body[t] /\ pc[<<t, k>>] = "idle")
          BY <1>7, <3>1 DEF CommitsOnce, Committing, Completing, Terminal, Call
    <3> QED BY <1>2, <1>8, <3>1, <3>2, <3>3, <3>4 DEF CommitMoves, Committing
  <2>2. ASSUME kind[t] = "savepoint", ~Registered(Hook1(t)), Registered(Hook1(t))'
        PROVE  /\ \A j \in Call : pc'[<<t, j>>] # "beforeCommit"
               /\ \E j \in Call : pc'[<<t, j>>] = "adapterCommit"
    <3>1. pc[<<t, k>>] = "beforeCommit" /\ pc'[<<t, k>>] = "adapterCommit"
      <4>1. ~UNCHANGED work
            BY <2>2 DEF Registered, work
      <4>2. up[t] \in Txn \ {t}
            BY <2>2 DEF Shape, ScopedAt, Joins
      <4>3. ~ObjectCommits(t)
            BY <2>2, <4>2 DEF Registered, ObjectCommits, TypeOK
      <4>4. ~ObjectRollsBack(t)
            BY <2>2 DEF Registered, ObjectRollsBack, TypeOK
      <4>5. ASSUME NEW u \in Txn, held' = [held EXCEPT ![u] = @ \cup {<<t, "callback">>}],
                   UNCHANGED <<ran, undone>>
            PROVE  FALSE
        <5>1. Hook1(t) # <<t, "callback">>
              BY DEF Hook1
        <5> QED BY <2>2, <4>5, <5>1 DEF Registered, TypeOK
      <4>6. Real(t) = t
            BY <2>2 DEF Real
      <4> QED BY <1>2, <2>2, <4>1, <4>3, <4>4, <4>5, <4>6 DEF WorkMoves
    <3>2. \A j \in Call \ {k} : pc[<<t, j>>] # "beforeCommit"
          BY <1>7, <3>1 DEF CommitsOnce, Committing, Call
    <3> QED BY <1>8, <3>1, <3>2
  <2> QED BY <1>3, <1>5, <2>1, <2>2 DEF RegistersOnce
<1> QED BY <1>4, <1>6, <1>9, <1>10 DEF Once

\* A step that touches no callback and no commit.
LEMMA OnceAside ==
    ASSUME Once, UNCHANGED work,
           \A u \in Txn :
              /\ kind'[u] = kind[u] \/ Unused(u)
              /\ state'[u] = state[u] \/ Unused(u) \/ state[u] \notin Terminal
              /\ pc[<<u, "run">>] \in Committing => body'[u] = body[u]
              /\ \A k \in Call : \/ pc'[<<u, k>>] = pc[<<u, k>>]
                                 \/ /\ pc[<<u, k>>] \notin Committing
                                    /\ pc'[<<u, k>>] \notin Committing
    PROVE  Once'
<1>1. HeldOnce' /\ UndoneCallbacks'
      BY DEF Once, HeldOnce, UndoneCallbacks, work
<1>2. ASSUME NEW u \in Txn PROVE CommitsOnce(u)' /\ RegistersOnce(u)'
  <2>1. CommitsOnce(u) /\ RegistersOnce(u)
        BY DEF Once
  <2>2. CommitsOnce(u)'
        BY <2>1 DEF CommitsOnce, Call
  <2>3. Registered(Hook1(u))' => Registered(Hook1(u)) /\ kind'[u] = kind[u]
        BY <2>1 DEF RegistersOnce, Registered, Owned, Unused, work, Hook1
  <2>4. RegistersOnce(u)'
        BY <2>1, <2>3 DEF RegistersOnce, Registered, Owned, Unused, work, Committing, Hook1
  <2> QED BY <2>2, <2>4
<1> QED BY <1>1, <1>2 DEF Once

LEMMA OnceStep ==
    ASSUME TypeOK, Untouched, Shape, Once, [Next]_vars
    PROVE  Once'
<1> USE DEF identity, flags, Committing
<1>1. CASE UNCHANGED vars
      BY <1>1, OnceAside DEF vars
<1>2. ASSUME NEW t \in Txn, NEW o \in Txn \cup {NoTxn}, NEW p \in Propagations, Begin(t, o, p)
      PROVE  Once'
  <2>1. /\ Unused(t) /\ pc' = [pc EXCEPT ![<<t, "run">>] = Opening(t)]
        /\ UNCHANGED work /\ Fresh(t)
        BY <1>2, OpenFresh DEF Begin
  <2>2. pc[<<t, "run">>] = "idle"
        BY <2>1 DEF Untouched, UntouchedAt
  <2> QED BY <2>1, <2>2, OnceAside DEF Fresh, Opening, TypeOK
<1>3. ASSUME NEW t \in Txn, NEW again \in Txn, Replay(t, again)
      PROVE  Once'
  <2>1. /\ Unused(again) /\ pc[<<t, "run">>] = "retrying"
        /\ pc' = [pc EXCEPT ![<<t, "run">>] = "replaced", ![<<again, "run">>] = Opening(again)]
        /\ UNCHANGED work /\ Fresh(again)
        BY <1>3, OpenFresh DEF Replay
  <2>2. pc[<<again, "run">>] = "idle"
        BY <2>1 DEF Untouched, UntouchedAt
  <2> QED BY <2>1, <2>2, OnceAside DEF Fresh, Opening, TypeOK
<1>4. ASSUME NEW t \in Txn,
             Begun(t) \/ BeginFails(t) \/ Started(t) \/ AfterBeginFails(t)
      PROVE  Once'
  <2>1. \A u \in Txn : state'[u] = state[u] \/ state[u] \notin Terminal
    <3>1. \A u \in Txn \ {t} : state'[u] = state[u]
          BY <1>4 DEF Begun, BeginFails, Started, AfterBeginFails, TypeOK
    <3>2. pc[<<t, "run">>] = "beginning" => state[t] = "pending"
          BY DEF Untouched, UntouchedAt
    <3>3. state'[t] = state[t] \/ state[t] = "pending"
          BY <1>4, <3>2 DEF Begun, BeginFails, Started, AfterBeginFails
    <3> QED BY <3>1, <3>3 DEF Terminal
  <2>2. /\ pc[<<t, "run">>] \in {"beginning", "started"} /\ UNCHANGED work /\ kind' = kind
        /\ \A u \in Txn \ {t} : body'[u] = body[u]
        BY <1>4 DEF Begun, BeginFails, Started, AfterBeginFails, TypeOK
  <2>3. PICK end \in {"started", "body", "rejected", "retrying"} :
           pc' = [pc EXCEPT ![<<t, "run">>] = end]
        BY <1>4 DEF Begun, BeginFails, Started, AfterBeginFails, RunEnds
  <2> QED BY <2>1, <2>2, <2>3, OnceAside DEF TypeOK
<1>5. ASSUME NEW t \in Txn, Timeout(t)
      PROVE  Once'
      BY <1>5, OnceAside DEF Timeout
<1>6. ASSUME NEW t \in Txn, NEW k \in Call, Continues(t, k)
      PROVE  Once'
      BY <1>6, ContinuesOnce
<1> QED BY <1>1, <1>2, <1>3, <1>4, <1>5, <1>6, NextContinues

\* The handles are untouched before their begin(), and nested as they were opened.
LEMMA Nested == Spec => [](Untouched /\ Shape)
<1>1. Init => Untouched /\ Shape
      BY DEF Init, Untouched, UntouchedAt, Call, Shape, ScopedAt, SignalledAt, Unused, Joins, Transactional
<1>2. TypeOK /\ Untouched /\ Shape /\ [Next]_vars => Untouched' /\ Shape'
      BY UntouchedStep, ShapeStep, TransactionConstants
<1> QED BY <1>1, <1>2, TypesAreKept, PTL DEF Spec

\* A callback runs once, for the commit or for the rollback, whatever else
\* completes its handle, times out, fails or moves it outward meanwhile.
THEOREM CallbacksRunOnce == Spec => []HeldOnce
<1>1. Init => Once
      BY DEF Init, Once, CommitsOnce, RegistersOnce, UndoneCallbacks, HeldOnce, Committing, Registered, Call
<1>2. TypeOK /\ Untouched /\ Shape /\ Once /\ [Next]_vars => Once'
      BY OnceStep
<1>3. Once => HeldOnce
      BY DEF Once
<1> QED BY <1>1, <1>2, <1>3, Nested, TypesAreKept, PTL DEF Spec
=============================================================================
