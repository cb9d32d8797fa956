------------------------- MODULE TransactionManager -------------------------
(***************************************************************************)
(* manager.run() and the transactions it opens, from await to await.  A    *)
(* value of Txn is one attempt of one run() call together with the handle  *)
(* that attempt received.  Two calls may complete a handle: "run", which   *)
(* opened it, and "hand", a manager.commit() or manager.rollback() the     *)
(* callback makes itself.  The adapter is external: what it did to a       *)
(* connection or savepoint is db[t].                                       *)
(***************************************************************************)
EXTENDS Naturals, FiniteSets

CONSTANTS
    Txn,            \* attempts of run() calls and their handles
    NoTxn,          \* no transaction
    MaxOutermost,   \* bound: run() calls made outside every callback
    Propagations,   \* the propagation modes the calls use
    Callbacks,      \* afterCommit() and afterRollback() are used
    Timeouts,       \* owned transactions have a timeout
    Retries,        \* failed attempts may be replayed
    Awaited,        \* a callback awaits the runs it starts
    ByHand,         \* completions a callback makes through the manager
    Direct,         \* completions it makes on the handle, past the manager
    Vetoes,         \* who marks transactions rollback-only: "body", "hook"
    FailingHooks,   \* hooks that may reject
    FailingAdapter  \* adapter operations that may reject

Kind     == {"root", "savepoint", "participant", "none"}
Terminal == {"committed", "rolled_back", "failed"}
State    == {"pending", "active"} \cup Terminal
Mode     == {"required", "requires_new", "nested", "supports",
             "not_supported", "mandatory", "never"}
Call     == {"run", "hand"}
Hook     == {"beforeBegin", "afterBegin", "beforeCommit", "afterCommit",
             "beforeRollback", "onError"}
AdapterOp == {"begin", "commit", "rollback",
              "createSavepoint", "releaseSavepoint", "rollbackToSavepoint"}

ASSUME TransactionConstants ==
    /\ NoTxn \notin Txn
    /\ Propagations \subseteq Mode
    /\ MaxOutermost \in Nat /\ Callbacks \in BOOLEAN
    /\ Timeouts \in BOOLEAN /\ Retries \in BOOLEAN /\ Awaited \in BOOLEAN
    /\ ByHand \subseteq {"commit", "rollback"}
    /\ Direct \subseteq {"commit", "rollback"}
    /\ Vetoes \subseteq {"body", "hook"}
    /\ FailingHooks \subseteq Hook
    /\ FailingAdapter \subseteq AdapterOp

VARIABLES
    kind,           \* the kind of the handle; "unused" before its begin()
    mode,           \* the propagation mode it was asked for
    up,             \* the transaction it joined, or whose savepoint it is
    outer,          \* the attempt whose callback started the run
    replays,        \* the failed attempt this one replays
    signal,         \* the transactions whose timeout aborts its signal
    state,          \* the state machine of an owned or non-transactional handle
    rollbackOnly, timedOut,
    timer,          \* its timeout timer is armed
    held,           \* pending callbacks, both kinds: see Register
    ran,            \* after-commit work that was run
    undone,         \* after-rollback callbacks that were run
    body,           \* the callback's promise
    pc,             \* pc[<<t, k>>]: what call k awaits
    db              \* external: what became of the work

identity == <<kind, mode, up, outer, replays, signal>>
flags    == <<rollbackOnly, timedOut>>
work     == <<held, ran, undone>>
vars     == <<identity, state, flags, timer, work, body, pc, db>>

Settled == {"resolved", "rejected", "replaced"}
Stage   == {"idle", "beginning", "started", "body", "beforeCommit", "refused",
            "adapterCommit", "afterCommit", "beforeRollback", "adapterRollback",
            "afterRollback", "settled", "retrying"} \cup Settled
Work    == Txn \X {"callback", "hook"}

TypeOK ==
    /\ kind \in [Txn -> Kind \cup {"unused"}]
    /\ mode \in [Txn -> Mode \cup {"unused"}]
    /\ up \in [Txn -> Txn \cup {NoTxn}]
    /\ outer \in [Txn -> Txn \cup {NoTxn}]
    /\ replays \in [Txn -> Txn \cup {NoTxn}]
    /\ signal \in [Txn -> SUBSET Txn]
    /\ state \in [Txn -> State]
    /\ rollbackOnly \in [Txn -> BOOLEAN]
    /\ timedOut \in [Txn -> BOOLEAN]
    /\ timer \in [Txn -> BOOLEAN]
    /\ held \in [Txn -> SUBSET Work]
    /\ ran \in SUBSET Work
    /\ undone \in SUBSET Work
    /\ body \in [Txn -> {"none", "running", "done"}]
    /\ pc \in [Txn \X Call -> Stage]
    /\ db \in [Txn -> {"none", "open", "kept", "undone"}]

Init ==
    /\ kind = [t \in Txn |-> "unused"] /\ mode = [t \in Txn |-> "unused"]
    /\ up = [t \in Txn |-> NoTxn] /\ outer = [t \in Txn |-> NoTxn]
    /\ replays = [t \in Txn |-> NoTxn] /\ signal = [t \in Txn |-> {}]
    /\ state = [t \in Txn |-> "pending"]
    /\ rollbackOnly = [t \in Txn |-> FALSE]
    /\ timedOut = [t \in Txn |-> FALSE]
    /\ timer = [t \in Txn |-> FALSE]
    /\ held = [t \in Txn |-> {}] /\ ran = {} /\ undone = {}
    /\ body = [t \in Txn |-> "none"]
    /\ pc = [tk \in Txn \X Call |-> "idle"]
    /\ db = [t \in Txn |-> "none"]

\* A participant reads and marks the transaction it joined.
Real(t) == IF kind[t] = "participant" THEN up[t] ELSE t
Owned(t) == kind[t] \in {"root", "savepoint"}
Aborted(t) == \E a \in signal[t] : timedOut[a]

Rejects(hook) == hook \in FailingHooks
Vetoed(by) == by \in Vetoes

\* A completed connection refuses everything, its savepoints included; a
\* savepoint that was released or rolled back to is gone.
ConnectionOpen(t) == \A a \in signal[t] : kind[a] = "root" => db[a] = "open"
Completable(t) == db[t] = "open" /\ ConnectionOpen(t)

\* Mutant: a finished transaction stays in scope.
CurrentUnchecked(o) ==
    IF o = NoTxn THEN NoTxn ELSE IF kind[o] = "none" THEN NoTxn ELSE Real(o)

\* The transaction in scope for what the callback of o starts.
Current(o) ==
    IF o = NoTxn THEN NoTxn
    ELSE IF kind[o] = "none" \/ state[Real(o)] \in Terminal THEN NoTxn
    ELSE Real(o)

Suspends(p) == p \in {"not_supported", "requires_new"}

Resolve(p, joins) ==
    IF p = "nested" THEN IF joins THEN "savepoint" ELSE "root"
    ELSE IF p = "requires_new" THEN "root"
    ELSE IF p = "not_supported" THEN "none"
    ELSE IF p = "never" THEN IF joins THEN "refused" ELSE "none"
    ELSE IF joins THEN "participant"
    ELSE IF p = "required" THEN "root"
    ELSE IF p = "supports" THEN "none" ELSE "refused"

-----------------------------------------------------------------------------
(* begin() *)

Unused(t) == kind[t] = "unused"

\* Resolves the mode; a participant or a non-transactional handle needs no
\* adapter and its callback starts at once.
Open(t, o, p, failed) ==
    LET current == IF Suspends(p) THEN NoTxn ELSE Current(o)
        k == Resolve(p, current # NoTxn)
    IN  /\ k # "refused"
        /\ kind' = [kind EXCEPT ![t] = k]
        /\ mode' = [mode EXCEPT ![t] = p]
        /\ up' = [up EXCEPT ![t] = IF k \in {"participant", "savepoint"}
                                   THEN current ELSE NoTxn]
        /\ outer' = [outer EXCEPT ![t] = o]
        /\ replays' = [replays EXCEPT ![t] = failed]
        /\ signal' = [signal EXCEPT ![t] =
                        (IF k = "participant" THEN {} ELSE {t}) \cup
                        (IF k \in {"participant", "savepoint"} THEN signal[current] ELSE {})]
        /\ state' = [state EXCEPT ![t] = IF k = "none" THEN "active" ELSE "pending"]
        /\ body' = [body EXCEPT ![t] =
                      IF k \in {"participant", "none"} THEN "running" ELSE "none"]

\* What the run awaits once its handle is resolved.
Opening(t) == IF kind'[t] \in {"participant", "none"} THEN "body" ELSE "beginning"

Completing(t) == pc[<<t, "hand">>] \notin {"idle", "settled"}

\* Work the callback starts, or left behind, runs in its context.
InContext(o) == IF Awaited THEN body[o] = "running" /\ ~Completing(o)
                ELSE body[o] \in {"running", "done"}

Outermost == { t \in Txn : ~Unused(t) /\ outer[t] = NoTxn /\ replays[t] = NoTxn }

Begin(t, o, p) ==
    /\ Unused(t)
    /\ IF o = NoTxn THEN Cardinality(Outermost) < MaxOutermost ELSE InContext(o)
    /\ Open(t, o, p, NoTxn)
    /\ pc' = [pc EXCEPT ![<<t, "run">>] = Opening(t)]
    /\ UNCHANGED <<flags, timer, work, db>>

BeginOp(t) == IF kind[t] = "root" THEN "begin" ELSE "createSavepoint"

Begun(t) ==
    /\ pc[<<t, "run">>] = "beginning"
    /\ kind[t] = "savepoint" => ConnectionOpen(t)
    /\ db' = [db EXCEPT ![t] = "open"]
    /\ state' = [state EXCEPT ![t] = "active"]
    /\ pc' = [pc EXCEPT ![<<t, "run">>] = "started"]
    /\ UNCHANGED <<identity, flags, timer, work, body>>

\* Mutant: joined attempts are replayed too.
RunEndsAlways(t, result) ==
    {result} \cup (IF result = "rejected" /\ Retries THEN {"retrying"} ELSE {})

\* How run() ends: a rejected attempt that did not join may be replayed.
RunEnds(t, result) ==
    {result} \cup (IF result = "rejected" /\ Retries /\ kind[t] # "participant"
                   THEN {"retrying"} ELSE {})

BeginFails(t) ==
    /\ pc[<<t, "run">>] = "beginning"
    /\ \/ /\ Rejects("beforeBegin")
          /\ UNCHANGED state
       \/ /\ BeginOp(t) \in FailingAdapter \/ (kind[t] = "savepoint" /\ ~ConnectionOpen(t))
          /\ state' = [state EXCEPT ![t] = "failed"]
    /\ \E end \in RunEnds(t, "rejected") : pc' = [pc EXCEPT ![<<t, "run">>] = end]
    /\ UNCHANGED <<identity, flags, timer, work, body, db>>

Started(t) ==
    /\ pc[<<t, "run">>] = "started"
    /\ timer' = [timer EXCEPT ![t] = Timeouts]
    /\ body' = [body EXCEPT ![t] = "running"]
    /\ pc' = [pc EXCEPT ![<<t, "run">>] = "body"]
    /\ UNCHANGED <<identity, state, flags, work, db>>

AfterBeginFails(t) ==
    /\ pc[<<t, "run">>] = "started" /\ Rejects("afterBegin")
    /\ \E end \in RunEnds(t, "rejected") : pc' = [pc EXCEPT ![<<t, "run">>] = end]
    /\ UNCHANGED <<identity, state, flags, timer, work, body, db>>

-----------------------------------------------------------------------------
(* How a call ends *)

\* run() always releases the timer in its finally; a completion by hand does
\* when it leaves the transaction finished.
Settle(t, k, result) ==
    /\ \E end \in IF k = "hand" THEN {"settled"} ELSE RunEnds(t, result) :
          pc' = [pc EXCEPT ![<<t, k>>] = end]
    /\ timer' = IF k = "run" \/ state'[t] \in Terminal
                THEN [timer EXCEPT ![t] = FALSE] ELSE timer

Await(t, k, stage) ==
    /\ pc' = [pc EXCEPT ![<<t, k>>] = stage]
    /\ UNCHANGED timer

\* Mutant: a failed participant marks nothing.
RollbackStartUnmarked(t, k) ==
    /\ IF kind[t] = "participant" \/ state[t] \in Terminal
       THEN Settle(t, k, "rejected") ELSE Await(t, k, "beforeRollback")
    /\ UNCHANGED rollbackOnly

\* rollbackTransaction() up to its first await.
RollbackStart(t, k) ==
    /\ rollbackOnly' = IF kind[t] = "participant"
                       THEN [rollbackOnly EXCEPT ![up[t]] = TRUE] ELSE rollbackOnly
    /\ IF kind[t] = "participant" \/ state[t] \in Terminal
       THEN Settle(t, k, "rejected") ELSE Await(t, k, "beforeRollback")

\* An error inside run() rolls back; one inside a call by hand is the caller's.
Throw(t, k) ==
    IF k = "run" THEN RollbackStart(t, k)
    ELSE Settle(t, k, "rejected") /\ UNCHANGED rollbackOnly

\* Mutants of the commit: the second transition is missing; the callbacks of a
\* savepoint are copied, not moved; they run at its release.
ObjectCommitsHalfway(t) ==
    /\ state' = [state EXCEPT ![t] = "committing"]
    /\ UNCHANGED work

ObjectCommitsCopying(t) ==
    /\ state' = [state EXCEPT ![t] = "committed"]
    /\ IF kind[t] = "savepoint"
       THEN held' = [held EXCEPT ![up[t]] = @ \cup held[t]] /\ UNCHANGED ran
       ELSE held' = [held EXCEPT ![t] = {}] /\ ran' = ran \cup held[t]
    /\ UNCHANGED undone

ObjectCommitsAtRelease(t) ==
    /\ state' = [state EXCEPT ![t] = "committed"]
    /\ held' = [held EXCEPT ![t] = {}]
    /\ ran' = ran \cup held[t]
    /\ UNCHANGED undone

\* The transaction object itself: callbacks run with the transition.
ObjectCommits(t) ==
    /\ state' = [state EXCEPT ![t] = "committed"]
    /\ IF kind[t] = "savepoint"
       THEN /\ held' = [held EXCEPT ![t] = {}, ![up[t]] = @ \cup held[t]]
            /\ UNCHANGED ran
       ELSE /\ held' = [held EXCEPT ![t] = {}]
            /\ ran' = ran \cup held[t]
    /\ UNCHANGED undone

\* Only callbacks have an after-rollback side; the hook of a savepoint has not.
ObjectRollsBack(t) ==
    /\ state' = [state EXCEPT ![t] = "rolled_back"]
    /\ held' = [held EXCEPT ![t] = {}]
    /\ undone' = undone \cup { w \in held[t] : w[2] = "callback" }
    /\ UNCHANGED ran

\* Mutant: markFailed() without asking the state machine.
FailAlways(t) == state' = [state EXCEPT ![t] = "failed"]

Fail(t) == state' = [state EXCEPT ![t] = IF @ \in Terminal THEN @ ELSE "failed"]

-----------------------------------------------------------------------------
(* commitTransaction() *)

\* Mutants: the flag is not read; a refused commit is a no-op.
CommitStartUnread(t, k) ==
    IF kind[t] = "participant" \/ state[t] = "committed"
    THEN UNCHANGED <<state, rollbackOnly, work>> /\ Settle(t, k, "resolved")
    ELSE IF state[t] # "active"
    THEN UNCHANGED <<state, work>> /\ Throw(t, k)
    ELSE IF kind[t] = "none"
    THEN ObjectCommits(t) /\ Await(t, k, "afterCommit") /\ UNCHANGED rollbackOnly
    ELSE Await(t, k, "beforeCommit") /\ UNCHANGED <<state, rollbackOnly, work>>

CommitStartQuiet(t, k) ==
    IF kind[t] = "participant" \/ state[t] = "committed" \/ rollbackOnly[t]
    THEN UNCHANGED <<state, rollbackOnly, work>> /\ Settle(t, k, "resolved")
    ELSE CommitStartUnread(t, k)

\* Up to its first await.  The rollback-only flag is read here.
CommitStart(t, k) ==
    IF kind[t] = "participant" \/ state[t] = "committed"
    THEN UNCHANGED <<state, rollbackOnly, work>> /\ Settle(t, k, "resolved")
    ELSE IF state[t] # "active" \/ (kind[t] = "none" /\ rollbackOnly[t])
    THEN UNCHANGED <<state, work>> /\ Throw(t, k)
    ELSE IF kind[t] = "none"
    THEN ObjectCommits(t) /\ Await(t, k, "afterCommit") /\ UNCHANGED rollbackOnly
    ELSE /\ Await(t, k, IF rollbackOnly[t] THEN "refused" ELSE "beforeCommit")
         /\ UNCHANGED <<state, rollbackOnly, work>>

\* The hook may mark the transaction; a savepoint registers hooks.afterCommit
\* as a callback.
BeforeCommit(t, k) ==
    /\ pc[<<t, k>>] = "beforeCommit"
    /\ \/ UNCHANGED rollbackOnly
       \/ Vetoed("hook") /\ rollbackOnly' = [rollbackOnly EXCEPT ![t] = TRUE]
    /\ held' = IF kind[t] = "savepoint"
               THEN [held EXCEPT ![t] = @ \cup {<<t, "hook">>}] ELSE held
    /\ Await(t, k, "adapterCommit")
    /\ UNCHANGED <<identity, state, timedOut, ran, undone, body, db>>

BeforeCommitFails(t, k) ==
    /\ pc[<<t, k>>] = "beforeCommit" /\ Rejects("beforeCommit")
    /\ UNCHANGED <<identity, state, timedOut, work, body, db>>
    /\ Throw(t, k)

CommitOp(t) == IF kind[t] = "root" THEN "commit" ELSE "releaseSavepoint"

\* The adapter is done; now transaction.commit() looks at state and flag.
AdapterCommits(t, k) ==
    /\ pc[<<t, k>>] = "adapterCommit" /\ Completable(t)
    /\ db' = [db EXCEPT ![t] = "kept"]
    /\ IF state[t] = "active" /\ ~rollbackOnly[t] THEN ObjectCommits(t)
       ELSE Fail(t) /\ UNCHANGED work
    /\ IF state'[t] = "committed"
       THEN IF kind[t] = "savepoint" THEN Settle(t, k, "resolved")
            ELSE Await(t, k, "afterCommit")
       ELSE Settle(t, k, "rejected")
    /\ UNCHANGED <<identity, flags, body>>

\* A refused commit leaves a connection with nothing to keep.
AdapterRefusesCommit(t, k) ==
    /\ pc[<<t, k>>] = "adapterCommit"
    /\ CommitOp(t) \in FailingAdapter \/ ~Completable(t)
    /\ db' = [db EXCEPT ![t] = IF kind[t] = "root" /\ @ = "open" THEN "undone" ELSE @]
    /\ Fail(t)
    /\ Settle(t, k, "rejected")
    /\ UNCHANGED <<identity, flags, work, body>>

\* The callbacks and the hook of a finished transaction were awaited.
AfterCommit(t, k) ==
    /\ pc[<<t, k>>] = "afterCommit"
    /\ ran' = IF kind[t] = "root" THEN ran \cup {<<t, "hook">>} ELSE ran
    /\ UNCHANGED <<identity, state, flags, held, undone, body, db>>
    /\ Settle(t, k, "resolved")

\* The hook rejects, or onError does when it is told that a callback failed, and
\* the hook is not called.  run() rethrows: the state is committed, so it does not
\* roll back.
AfterCommitFails(t, k) ==
    /\ pc[<<t, k>>] = "afterCommit" /\ kind[t] = "root"
    /\ \/ Rejects("afterCommit") /\ ran' = ran \cup {<<t, "hook">>}
       \/ /\ Rejects("onError") /\ \E w \in ran : t \in signal[w[1]]
          /\ UNCHANGED ran
    /\ UNCHANGED <<identity, state, flags, held, undone, body, db>>
    /\ Settle(t, k, "rejected")

-----------------------------------------------------------------------------
(* rollbackTransaction() *)

BeforeRollback(t, k) ==
    /\ pc[<<t, k>>] \in {"beforeRollback", "refused"}
    /\ Await(t, k, "adapterRollback")
    /\ UNCHANGED <<identity, state, flags, work, body, db>>

\* When commit() was refusing, run() catches the error and asks once more.
BeforeRollbackFails(t, k) ==
    /\ pc[<<t, k>>] \in {"beforeRollback", "refused"}
    /\ Rejects("beforeRollback")
    /\ UNCHANGED <<identity, state, timedOut, work, body, db>>
    /\ IF pc[<<t, k>>] = "refused" THEN Throw(t, k)
       ELSE Settle(t, k, "rejected") /\ UNCHANGED rollbackOnly

RollbackOp(t) == IF kind[t] = "root" THEN "rollback" ELSE "rollbackToSavepoint"

\* The adapter is done (there is none without a transaction); now
\* transaction.rollback() does its part unless the handle is finished.
AdapterRollsBack(t, k) ==
    /\ pc[<<t, k>>] = "adapterRollback"
    /\ kind[t] # "none" => Completable(t)
    /\ db' = IF kind[t] = "none" THEN db ELSE [db EXCEPT ![t] = "undone"]
    /\ IF state[t] = "active" THEN ObjectRollsBack(t) ELSE UNCHANGED <<state, work>>
    /\ IF state[t] = "committed" THEN Settle(t, k, "rejected")
       ELSE Await(t, k, "afterRollback")
    /\ UNCHANGED <<identity, flags, body>>

\* A savepoint is rolled back to and then released: the second may fail as well.
AdapterRefusesRollback(t, k) ==
    /\ pc[<<t, k>>] = "adapterRollback" /\ kind[t] # "none"
    /\ \/ /\ RollbackOp(t) \in FailingAdapter \/ ~Completable(t)
          /\ UNCHANGED db
       \/ /\ kind[t] = "savepoint" /\ Completable(t)
          /\ "releaseSavepoint" \in FailingAdapter
          /\ db' = [db EXCEPT ![t] = "undone"]
    /\ Fail(t)
    /\ Settle(t, k, "rejected")
    /\ UNCHANGED <<identity, flags, work, body>>

AfterRollback(t, k) ==
    /\ pc[<<t, k>>] = "afterRollback"
    /\ UNCHANGED <<identity, state, flags, work, body, db>>
    /\ Settle(t, k, "rejected")

-----------------------------------------------------------------------------
(* The callback *)

\* The callback awaits something of its own.
Busy(t) == \/ Completing(t)
           \/ Awaited /\ \E c \in Txn : /\ outer[c] = t /\ kind[c] # "unused"
                                        /\ pc[<<c, "run">>] \notin Settled

\* A callback registers for the transaction it works in: one callback for
\* after the commit and one for after the rollback, which share every fate.
Register(t) ==
    /\ body[t] = "running" /\ Callbacks
    /\ <<t, "callback">> \notin ran \cup undone \cup UNION { held[u] : u \in Txn }
    /\ held' = [held EXCEPT ![Real(t)] = @ \cup {<<t, "callback">>}]
    /\ UNCHANGED <<identity, state, flags, timer, ran, undone, body, pc, db>>

MarkRollbackOnly(t) ==
    /\ body[t] = "running" /\ Vetoed("body")
    /\ rollbackOnly' = [rollbackOnly EXCEPT ![Real(t)] = TRUE]
    /\ UNCHANGED <<identity, state, timedOut, timer, work, body, pc, db>>

CommitByHand(t) ==
    /\ body[t] = "running" /\ "commit" \in ByHand
    /\ Owned(t) /\ pc[<<t, "hand">>] = "idle" /\ ~Busy(t)
    /\ CommitStart(t, "hand")
    /\ UNCHANGED <<identity, timedOut, body, db>>

RollbackByHand(t) ==
    /\ body[t] = "running" /\ "rollback" \in ByHand
    /\ Owned(t) /\ pc[<<t, "hand">>] = "idle" /\ ~Busy(t)
    /\ UNCHANGED <<identity, state, timedOut, work, body, db>>
    /\ RollbackStart(t, "hand")

\* transaction.commit() and transaction.rollback() never reach the adapter.
CommitDirectly(t) ==
    /\ body[t] = "running" /\ "commit" \in Direct
    /\ Owned(t) /\ state[t] = "active" /\ ~rollbackOnly[t]
    /\ ObjectCommits(t)
    /\ UNCHANGED <<identity, flags, timer, body, pc, db>>

RollbackDirectly(t) ==
    /\ body[t] = "running" /\ "rollback" \in Direct
    /\ Owned(t) /\ state[t] = "active"
    /\ ObjectRollsBack(t)
    /\ UNCHANGED <<identity, flags, timer, body, pc, db>>

\* run() sees the callback return before any timeout.
BodyReturns(t) ==
    /\ body[t] = "running" /\ pc[<<t, "run">>] = "body" /\ ~Aborted(t) /\ ~Busy(t)
    /\ body' = [body EXCEPT ![t] = "done"]
    /\ CommitStart(t, "run")
    /\ UNCHANGED <<identity, timedOut, db>>

BodyThrows(t) ==
    /\ body[t] = "running" /\ pc[<<t, "run">>] = "body" /\ ~Aborted(t) /\ ~Busy(t)
    /\ body' = [body EXCEPT ![t] = "done"]
    /\ UNCHANGED <<identity, state, timedOut, work, db>>
    /\ Throw(t, "run")

\* run() stops waiting; the callback keeps running and nobody sees it end.
Abandon(t) ==
    /\ pc[<<t, "run">>] = "body" /\ Aborted(t)
    /\ UNCHANGED <<identity, state, timedOut, work, body, db>>
    /\ Throw(t, "run")

AbandonedEnds(t) ==
    /\ body[t] = "running" /\ pc[<<t, "run">>] # "body" /\ ~Busy(t)
    /\ body' = [body EXCEPT ![t] = "done"]
    /\ UNCHANGED <<identity, state, flags, timer, work, pc, db>>

\* Mutant: the timer marks the transaction without aborting its signal.
TimeoutUnaborted(t) ==
    /\ timer[t]
    /\ timer' = [timer EXCEPT ![t] = FALSE]
    /\ rollbackOnly' = [rollbackOnly EXCEPT ![t] = TRUE]
    /\ UNCHANGED <<identity, state, timedOut, work, body, pc, db>>

Timeout(t) ==
    /\ timer[t]
    /\ timer' = [timer EXCEPT ![t] = FALSE]
    /\ timedOut' = [timedOut EXCEPT ![t] = TRUE]
    /\ rollbackOnly' = [rollbackOnly EXCEPT ![t] = TRUE]
    /\ UNCHANGED <<identity, state, work, body, pc, db>>

\* withRetry() runs the unit of work again, in the scope of the first attempt.
Replay(t, again) ==
    /\ pc[<<t, "run">>] = "retrying" /\ Unused(again)
    /\ Open(again, outer[t], mode[t], t)
    /\ pc' = [pc EXCEPT ![<<t, "run">>] = "replaced", ![<<again, "run">>] = Opening(again)]
    /\ UNCHANGED <<flags, timer, work, db>>

\* No attempt is left, or the replay cannot begin in that scope any more.
GiveUp(t) ==
    /\ pc[<<t, "run">>] = "retrying"
    /\ pc' = [pc EXCEPT ![<<t, "run">>] = "rejected"]
    /\ UNCHANGED <<identity, state, flags, timer, work, body, db>>

-----------------------------------------------------------------------------

Opens(t) ==
    \/ \E o \in Txn \cup {NoTxn}, p \in Propagations : Begin(t, o, p)
    \/ Begun(t) \/ BeginFails(t) \/ Started(t) \/ AfterBeginFails(t)

Commits(t, k) ==
    \/ BeforeCommit(t, k) \/ BeforeCommitFails(t, k)
    \/ AdapterCommits(t, k) \/ AdapterRefusesCommit(t, k)
    \/ AfterCommit(t, k) \/ AfterCommitFails(t, k)

RollsBack(t, k) ==
    \/ BeforeRollback(t, k) \/ BeforeRollbackFails(t, k)
    \/ AdapterRollsBack(t, k) \/ AdapterRefusesRollback(t, k)
    \/ AfterRollback(t, k)

Works(t) ==
    \/ Register(t) \/ MarkRollbackOnly(t)
    \/ CommitByHand(t) \/ RollbackByHand(t)
    \/ CommitDirectly(t) \/ RollbackDirectly(t)
    \/ BodyReturns(t) \/ BodyThrows(t) \/ AbandonedEnds(t)

Next == \E t \in Txn : \/ Opens(t)
                       \/ \E k \in Call : Commits(t, k) \/ RollsBack(t, k)
                       \/ Works(t) \/ Abandon(t) \/ Timeout(t)
                       \/ \E again \in Txn : Replay(t, again)
                       \/ GiveUp(t)

Spec == Init /\ [][Next]_vars

\* The adapter, the hooks and the timers settle; callbacks need not return.
Fairness == \A t \in Txn :
    /\ WF_vars(Begun(t) \/ BeginFails(t))
    /\ WF_vars(Started(t) \/ AfterBeginFails(t))
    /\ \A k \in Call : WF_vars(Commits(t, k)) /\ WF_vars(RollsBack(t, k))
    /\ WF_vars(Abandon(t)) /\ WF_vars(Timeout(t))
    /\ WF_vars(\E again \in Txn : Replay(t, again)) /\ WF_vars(GiveUp(t))

FairSpec == Spec /\ Fairness
=============================================================================
