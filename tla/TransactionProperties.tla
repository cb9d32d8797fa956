----------------------- MODULE TransactionProperties -----------------------
(***************************************************************************)
(* What makes the transaction manager correct.                             *)
(***************************************************************************)
EXTENDS TransactionManager

\* The work of t is in the database for good: the connection committed and no
\* savepoint around the work was rolled back to.
Lasts(t) == /\ signal[t] # {}
            /\ \A a \in signal[t] : IF kind[a] = "savepoint"
                                    THEN db[a] \in {"open", "kept"} ELSE db[a] = "kept"

RunIs(t, results) == pc[<<t, "run">>] \in results

\* "A rollback can never be reported as a commit": a run() that resolves has
\* committed its connection or released its savepoint.
ReportedCommitIsKept ==
    \A t \in Txn : Owned(t) /\ RunIs(t, {"resolved"}) => db[t] = "kept"

\* "once adapter.commit() has returned there is nothing left to decide": what
\* the adapter kept is committed, and what is rolled back it undid.
StateMatchesAdapter ==
    \A t \in Txn : Owned(t) => /\ db[t] = "kept" <=> state[t] = "committed"
                               /\ state[t] = "rolled_back" => db[t] = "undone"

\* Nor does either of them commit "a transaction marked rollback-only", whoever
\* marked it.
OutcomeFollowsAdapter ==
    StateMatchesAdapter /\ \A t \in Txn : rollbackOnly[t] => db[t] # "kept"

\* A callback runs once, for the commit or for the rollback, however often its
\* savepoint moved it outward.
HeldOnce ==
    \A w \in Work : /\ ~(w \in ran /\ w \in undone)
                    /\ w \in ran \cup undone => \A t \in Txn : w \notin held[t]
                    /\ \A t, u \in Txn : w \in held[t] /\ w \in held[u] => t = u

\* "They run only when the outermost transaction commits": after-commit work
\* belongs to work that lasts and after-rollback callbacks to work that does not,
\* and none is forgotten on its way outward: once work lasts, no transaction
\* still keeps callbacks that belong to it.
CallbacksFollowOutermost ==
    /\ \A w \in ran : kind[w[1]] = "none" \/ Lasts(w[1])
    /\ \A w \in undone : kind[w[1]] = "none" \/ ~Lasts(w[1])
    /\ \A t \in Txn : Owned(t) /\ Lasts(t) => held[t] = {}

\* "a transaction that failed cannot be resumed - only replayed": what a replay
\* repeats is gone, and was not merely joined.
ReplayedWorkIsGone ==
    \A t \in Txn : replays[t] # NoTxn =>
        LET failed == replays[t]
        IN  IF kind[failed] = "participant" THEN db[up[failed]] = "undone"
            ELSE db[failed] \in {"none", "undone"}

\* "Whether a state admits no further transitions": whichever call, timer or
\* replay comes later, a finished transaction stays as it finished, and no work
\* that its context outlives joins it or nests in it.
TerminalIsFinal ==
    [][\A t \in Txn : state[t] \in Terminal =>
           /\ state'[t] = state[t]
           /\ \A u \in Txn : up'[u] = t => up[u] = t]_vars

\* run() stops waiting for a callback that outlives the timeout and "rolls back on
\* a throw": every run in a transaction settles, even if no callback ever returns,
\* and leaves no connection open.
TimeoutEndsRun ==
    \A t \in Txn :
        kind[t] \in {"root", "savepoint", "participant"}
            ~> RunIs(t, Settled) /\ (kind[t] = "root" => db[t] # "open")

-----------------------------------------------------------------------------
(* run() implements UnitOfWork; a non-transactional scope is no unit.  The *)
(* caller is told of a failed attempt when it fails, replayed or not.      *)

Transactional(t) == kind[t] \in {"root", "savepoint", "participant"}

toldOf == [t \in Txn |->
    IF ~Transactional(t) THEN "nothing"
    ELSE IF RunIs(t, {"resolved"}) THEN "resolved"
    ELSE IF RunIs(t, {"rejected", "retrying", "replaced"}) THEN "rejected" ELSE "waiting"]

insideOf == [t \in Txn |-> IF Transactional(t) THEN signal[t] \ {t} ELSE {}]

U == INSTANCE UnitOfWork WITH Unit <- Txn, told <- toldOf, inside <- insideOf,
                              kept <- { t \in Txn : Transactional(t) /\ Lasts(t) }

\* Every step of the manager tells a caller what is true, or keeps a whole.
ImplementsUnitOfWork == U!Spec
=============================================================================
