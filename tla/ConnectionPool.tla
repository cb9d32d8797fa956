--------------------------- MODULE ConnectionPool ---------------------------
(***************************************************************************)
(* The connection pool of @zudojs/storage.  Every step runs from one await *)
(* to the next: JavaScript interleaves calls only there.  A connection is  *)
(* a value of Conn, taken when the factory produces it and free again once *)
(* it is closed and nothing refers to it, the iteration of drain() over    *)
(* the connections it has visited included.                                *)
(***************************************************************************)
EXTENDS Integers, Sequences, SequencesExt, FiniteSets

CONSTANTS
    Caller,         \* concurrent users of the pool
    Conn,           \* connection identities
    NoConn,         \* no connection
    MaxSize,        \* options.max
    MinSize,        \* options.min
    EagerInit,      \* initialize() does not overlap acquire() or drain()
    RoomToInit,     \* it is only called with room for all it would create
    DoubleRelease,  \* callers may release again what they released before
    IdleTimeout,    \* options.idleTimeout > 0: an idle connection may expire
    MaxLifetime,    \* options.maxLifetime > 0: any connection may expire
    AcquireTimeout, \* the acquireTimeout of a parked caller may elapse
    FailingOps,     \* which users of create() may see it reject or time out
    HealthProbe     \* healthCheck() is called

ASSUME ConstantsAssumption ==
    /\ MaxSize \in Nat \ {0}
    /\ MinSize \in Nat
    /\ NoConn \notin Conn
    /\ IsFiniteSet(Caller)
    /\ FailingOps \subseteq {"acquire", "replenish", "initialize", "probe"}
    /\ EagerInit \in BOOLEAN /\ RoomToInit \in BOOLEAN /\ DoubleRelease \in BOOLEAN
    /\ IdleTimeout \in BOOLEAN /\ MaxLifetime \in BOOLEAN
    /\ AcquireTimeout \in BOOLEAN /\ HealthProbe \in BOOLEAN

VARIABLES
    available,      \* the idle list, popped and pushed at its end
    inUse,          \* the set of issued connections
    waitQueue,      \* parked callers, oldest first
    pending,        \* slots reserved for a create() under way
    initialized,    \* the flag of initialize()
    closed,         \* set by drain()
    pc,             \* pc[c]: where the call of c stands
    conn,           \* conn[c]: the connection that call is about
    open,           \* connections the factory produced and nobody closed
    initLeft,       \* connections the running initialize() has yet to create
    drainPc,        \* where drain() stands
    drainConn,      \* the connection drain() is closing
    forced,         \* connections the forced close has visited
    probePc,        \* where the throwaway probe of healthCheck() stands
    probeConn       \* the throwaway connection

members   == <<available, inUse, waitQueue, pending>>
calls     == <<pc, conn>>
initVars  == <<initialized, initLeft>>
drainVars == <<closed, drainPc, drainConn, forced>>
probeVars == <<probePc, probeConn>>
vars == <<members, calls, open, initVars, drainVars, probeVars>>

Reserving == {"creating", "replenishing"}
Closing   == {"discarding", "closing", "retiring"}
PC == {"idle", "pinging", "parked", "holding"} \cup Reserving \cup Closing

TypeOK ==
    /\ available \in Seq(Conn)
    /\ inUse \in SUBSET Conn
    /\ waitQueue \in Seq(Caller)
    /\ pending \in Nat
    /\ initialized \in BOOLEAN
    /\ closed \in BOOLEAN
    /\ pc \in [Caller -> PC]
    /\ conn \in [Caller -> Conn \cup {NoConn}]
    /\ open \in SUBSET Conn
    /\ initLeft \in Nat
    /\ drainPc \in {"none", "closingIdle", "waiting", "forcing", "done"}
    /\ drainConn \in Conn \cup {NoConn}
    /\ forced \in SUBSET Conn
    /\ probePc \in {"idle", "creating", "closing"}
    /\ probeConn \in Conn \cup {NoConn}

Init ==
    /\ available = <<>> /\ inUse = {} /\ waitQueue = <<>> /\ pending = 0
    /\ initialized = FALSE /\ initLeft = 0
    /\ closed = FALSE /\ drainPc = "none" /\ drainConn = NoConn /\ forced = {}
    /\ pc = [c \in Caller |-> "idle"]
    /\ conn = [c \in Caller |-> NoConn]
    /\ open = {}
    /\ probePc = "idle" /\ probeConn = NoConn

Total == Len(available) + Cardinality(inUse) + pending

\* What the factory may produce: a connection nothing in the system refers to.
Fresh == { x \in Conn : /\ x \notin open \cup inUse \cup ToSet(available)
                        /\ \A c \in Caller : conn[c] # x
                        /\ x \notin forced
                        /\ x # drainConn /\ x # probeConn }

\* A caller forgets the connection of a finished call, unless it is one that
\* may release it again.
Left(c) == IF DoubleRelease THEN conn[c] ELSE NoConn

-----------------------------------------------------------------------------
(* acquire *)

\* The loop over the idle list: an expired connection is closed, any other is
\* issued at once and pinged.
TakeIdle(c) ==
    /\ available # <<>>
    /\ available' = Front(available)
    /\ conn' = [conn EXCEPT ![c] = Last(available)]
    /\ \/ /\ IdleTimeout \/ MaxLifetime
          /\ pc' = [pc EXCEPT ![c] = "discarding"]
          /\ UNCHANGED inUse
       \/ /\ pc' = [pc EXCEPT ![c] = "pinging"]
          /\ inUse' = inUse \cup {Last(available)}
    /\ UNCHANGED <<waitQueue, pending>>

\* Mutants: the slot is not counted; the limit is checked off by one.
ReserveUncounted(c) ==
    /\ available = <<>> /\ Total < MaxSize
    /\ pc' = [pc EXCEPT ![c] = "creating"]
    /\ conn' = [conn EXCEPT ![c] = NoConn]
    /\ UNCHANGED members

ReserveOneTooMany(c) ==
    /\ available = <<>> /\ Total <= MaxSize
    /\ pending' = pending + 1
    /\ pc' = [pc EXCEPT ![c] = "creating"]
    /\ conn' = [conn EXCEPT ![c] = NoConn]
    /\ UNCHANGED <<available, inUse, waitQueue>>

\* No idle connection and a free slot: reserve it, then await the factory.
Reserve(c) ==
    /\ available = <<>> /\ Total < MaxSize
    /\ pending' = pending + 1
    /\ pc' = [pc EXCEPT ![c] = "creating"]
    /\ conn' = [conn EXCEPT ![c] = NoConn]
    /\ UNCHANGED <<available, inUse, waitQueue>>

Park(c) ==
    /\ available = <<>> /\ Total >= MaxSize
    /\ waitQueue' = Append(waitQueue, c)
    /\ pc' = [pc EXCEPT ![c] = "parked"]
    /\ conn' = [conn EXCEPT ![c] = NoConn]
    /\ UNCHANGED <<available, inUse, pending>>

AcquireLoop(c) == TakeIdle(c) \/ Reserve(c) \/ Park(c)

Acquire(c) ==
    /\ pc[c] = "idle"
    /\ EagerInit => initLeft = 0
    /\ ~closed
    /\ AcquireLoop(c)
    /\ UNCHANGED <<open, initVars, drainVars, probeVars>>

PingAlive(c) ==
    /\ pc[c] = "pinging"
    /\ pc' = [pc EXCEPT ![c] = "holding"]
    /\ UNCHANGED <<members, conn, open, initVars, drainVars, probeVars>>

PingDead(c) ==
    /\ pc[c] = "pinging"
    /\ inUse' = inUse \ {conn[c]}
    /\ pc' = [pc EXCEPT ![c] = "discarding"]
    /\ UNCHANGED <<available, waitQueue, pending, conn, open,
                   initVars, drainVars, probeVars>>

\* Mutant: the pool is not checked again after the await.
DiscardedUnchecked(c) ==
    /\ pc[c] = "discarding"
    /\ open' = open \ {conn[c]}
    /\ AcquireLoop(c)
    /\ UNCHANGED <<initVars, drainVars, probeVars>>

\* The expired or dead connection is closed; the pool may have been closed
\* meanwhile, and then the call throws.
Discarded(c) ==
    /\ pc[c] = "discarding"
    /\ open' = open \ {conn[c]}
    /\ \/ /\ closed
          /\ pc' = [pc EXCEPT ![c] = "idle"]
          /\ conn' = [conn EXCEPT ![c] = NoConn]
          /\ UNCHANGED members
       \/ ~closed /\ AcquireLoop(c)
    /\ UNCHANGED <<initVars, drainVars, probeVars>>

Created(c) ==
    /\ pc[c] = "creating"
    /\ \E x \in Fresh : /\ open' = open \cup {x}
                        /\ inUse' = inUse \cup {x}
                        /\ conn' = [conn EXCEPT ![c] = x]
    /\ pending' = pending - 1
    /\ pc' = [pc EXCEPT ![c] = "holding"]
    /\ UNCHANGED <<available, waitQueue, initVars, drainVars, probeVars>>

\* Mutant: the slot of a failed create() is not given back.
CreateFailedKeepsSlot(c) ==
    /\ "acquire" \in FailingOps
    /\ pc[c] = "creating"
    /\ pc' = [pc EXCEPT ![c] = "idle"]
    /\ UNCHANGED <<members, conn, open, initVars, drainVars, probeVars>>

CreateFailed(c) ==
    /\ "acquire" \in FailingOps
    /\ pc[c] = "creating"
    /\ pending' = pending - 1
    /\ pc' = [pc EXCEPT ![c] = "idle"]
    /\ UNCHANGED <<available, inUse, waitQueue, conn, open,
                   initVars, drainVars, probeVars>>

\* Mutant: the timed out waiter stays in the queue.
WaitTimeoutKeepsEntry(c) ==
    /\ AcquireTimeout
    /\ c \in ToSet(waitQueue)
    /\ pc' = [pc EXCEPT ![c] = "idle"]
    /\ UNCHANGED <<members, conn, open, initVars, drainVars, probeVars>>

WaitTimeout(c) ==
    /\ AcquireTimeout
    /\ \E i \in 1..Len(waitQueue) : /\ waitQueue[i] = c
                                    /\ waitQueue' = RemoveAt(waitQueue, i)
    /\ pc' = [pc EXCEPT ![c] = "idle"]
    /\ UNCHANGED <<available, inUse, pending, conn, open,
                   initVars, drainVars, probeVars>>

-----------------------------------------------------------------------------
(* release *)

\* x goes back on the idle list and c is done.
ParkIdle(c, x) ==
    /\ available' = Append(available, x)
    /\ inUse' = inUse \ {x}
    /\ pc' = [pc EXCEPT ![c] = "idle"]
    /\ conn' = [conn EXCEPT ![c] = Left(c)]
    /\ UNCHANGED waitQueue

\* x goes to the oldest waiter and c is done.
HandOff(c, x) ==
    /\ waitQueue' = Tail(waitQueue)
    /\ inUse' = inUse \cup {x}
    /\ pc' = [pc EXCEPT ![c] = "idle", ![Head(waitQueue)] = "holding"]
    /\ conn' = [conn EXCEPT ![c] = Left(c), ![Head(waitQueue)] = x]

\* Mutants: waiters are not looked at; a connection handed over is also put on
\* the idle list.
ParkAlways(c, x) == ParkIdle(c, x)

HandOffAndPark(c, x) ==
    \/ waitQueue # <<>> /\ HandOff(c, x) /\ available' = Append(available, x)
    \/ waitQueue = <<>> /\ ParkIdle(c, x)

HandOffOrPark(c, x) ==
    \/ waitQueue # <<>> /\ HandOff(c, x) /\ UNCHANGED available
    \/ waitQueue = <<>> /\ ParkIdle(c, x)

Release(c) ==
    /\ \/ pc[c] = "holding"
       \/ DoubleRelease /\ pc[c] = "idle" /\ conn[c] # NoConn
    /\ \/ /\ conn[c] \notin inUse
          /\ pc' = [pc EXCEPT ![c] = "idle"]
          /\ conn' = [conn EXCEPT ![c] = Left(c)]
          /\ UNCHANGED <<available, inUse, waitQueue>>
       \/ /\ conn[c] \in inUse /\ closed
          /\ inUse' = inUse \ {conn[c]}
          /\ pc' = [pc EXCEPT ![c] = "closing"]
          /\ UNCHANGED <<available, waitQueue, conn>>
       \/ /\ conn[c] \in inUse /\ ~closed /\ MaxLifetime
          /\ inUse' = inUse \ {conn[c]}
          /\ pc' = [pc EXCEPT ![c] = "retiring"]
          /\ UNCHANGED <<available, waitQueue, conn>>
       \/ conn[c] \in inUse /\ ~closed /\ HandOffOrPark(c, conn[c])
    /\ UNCHANGED <<pending, open, initVars, drainVars, probeVars>>

\* Mutant: the connection is dropped without being closed.
ReleaseClosedForgets(c) ==
    /\ pc[c] = "closing"
    /\ pc' = [pc EXCEPT ![c] = "idle"]
    /\ conn' = [conn EXCEPT ![c] = Left(c)]
    /\ UNCHANGED <<members, open, initVars, drainVars, probeVars>>

\* close() of a release on a closed pool, or of a replacement that came late.
ReleaseClosed(c) ==
    /\ pc[c] = "closing"
    /\ open' = open \ {conn[c]}
    /\ pc' = [pc EXCEPT ![c] = "idle"]
    /\ conn' = [conn EXCEPT ![c] = Left(c)]
    /\ UNCHANGED <<members, initVars, drainVars, probeVars>>

\* Mutant: nobody looks at the waiters when a retirement frees a slot.
RetiredOnly(c) ==
    /\ pc[c] = "retiring"
    /\ open' = open \ {conn[c]}
    /\ pc' = [pc EXCEPT ![c] = "idle"]
    /\ conn' = [conn EXCEPT ![c] = Left(c)]
    /\ UNCHANGED <<members, initVars, drainVars, probeVars>>

\* The retired connection is closed: replenishForWaiters reserves a slot when
\* somebody waits and one is free.
Retired(c) ==
    /\ pc[c] = "retiring"
    /\ open' = open \ {conn[c]}
    /\ \/ /\ closed \/ waitQueue = <<>> \/ Total >= MaxSize
          /\ pc' = [pc EXCEPT ![c] = "idle"]
          /\ UNCHANGED pending
       \/ /\ ~closed /\ waitQueue # <<>> /\ Total < MaxSize
          /\ pc' = [pc EXCEPT ![c] = "replenishing"]
          /\ pending' = pending + 1
    /\ conn' = [conn EXCEPT ![c] = Left(c)]
    /\ UNCHANGED <<available, inUse, waitQueue, initVars, drainVars, probeVars>>

Replenished(c) ==
    /\ pc[c] = "replenishing"
    /\ pending' = pending - 1
    /\ \E x \in Fresh :
         /\ open' = open \cup {x}
         /\ \/ /\ closed
               /\ pc' = [pc EXCEPT ![c] = "closing"]
               /\ conn' = [conn EXCEPT ![c] = x]
               /\ UNCHANGED <<available, inUse, waitQueue>>
            \/ ~closed /\ HandOffOrPark(c, x)
    /\ UNCHANGED <<initVars, drainVars, probeVars>>

\* The replacement could not be created: the oldest waiter is told so.
ReplenishFailed(c) ==
    /\ "replenish" \in FailingOps
    /\ pc[c] = "replenishing"
    /\ pending' = pending - 1
    /\ \/ /\ waitQueue # <<>>
          /\ waitQueue' = Tail(waitQueue)
          /\ pc' = [pc EXCEPT ![c] = "idle", ![Head(waitQueue)] = "idle"]
       \/ /\ waitQueue = <<>>
          /\ pc' = [pc EXCEPT ![c] = "idle"]
          /\ UNCHANGED waitQueue
    /\ UNCHANGED <<available, inUse, conn, open, initVars, drainVars, probeVars>>

-----------------------------------------------------------------------------
(* initialize *)

\* What one call creates, whatever the pool holds already.
Initial == IF MinSize < MaxSize THEN MinSize ELSE MaxSize

\* Called on a pool that may have been used, or again after it failed half way.
InitializeStart ==
    /\ ~initialized /\ ~closed
    /\ EagerInit => \A c \in Caller : pc[c] = "idle" /\ conn[c] = NoConn
    /\ RoomToInit => Total + Initial <= MaxSize
    /\ initialized' = TRUE
    /\ initLeft' = Initial
    /\ UNCHANGED <<members, calls, open, drainVars, probeVars>>

\* One more connection for the idle list, whatever happened to the pool while
\* the factory was awaited.
InitializeCreated ==
    /\ initLeft > 0
    /\ \E x \in Fresh : /\ open' = open \cup {x}
                        /\ available' = Append(available, x)
    /\ initLeft' = initLeft - 1
    /\ UNCHANGED <<inUse, waitQueue, pending, initialized, calls,
                   drainVars, probeVars>>

\* The flag is reset; the connections created so far stay on the idle list.
InitializeFailed ==
    /\ "initialize" \in FailingOps
    /\ initLeft > 0
    /\ initialized' = FALSE
    /\ initLeft' = 0
    /\ UNCHANGED <<members, calls, open, drainVars, probeVars>>

-----------------------------------------------------------------------------
(* drain: one call *)

\* The loop that closes idle connections: pop the next; after the last,
\* wait for the connections in use, if any.
DrainIdle ==
    \/ /\ available # <<>>
       /\ available' = Front(available)
       /\ drainConn' = Last(available)
       /\ drainPc' = "closingIdle"
    \/ /\ available = <<>>
       /\ drainConn' = NoConn
       /\ drainPc' = IF inUse = {} THEN "done" ELSE "waiting"
       /\ UNCHANGED available

DrainStart ==
    /\ drainPc = "none"
    /\ EagerInit => initLeft = 0
    /\ closed' = TRUE
    /\ waitQueue' = <<>>
    /\ pc' = [c \in Caller |-> IF pc[c] = "parked" THEN "idle" ELSE pc[c]]
    /\ DrainIdle
    /\ UNCHANGED <<inUse, pending, conn, open, forced, initVars, probeVars>>

DrainIdleClosed ==
    /\ drainPc = "closingIdle"
    /\ open' = open \ {drainConn}
    /\ DrainIdle
    /\ UNCHANGED <<inUse, waitQueue, pending, calls, closed, forced,
                   initVars, probeVars>>

\* The live iteration over inUse: close one not visited yet; when none is left
\* forget them all.
DrainForce ==
    \/ \E x \in inUse \ forced :
         /\ drainPc' = "forcing"
         /\ drainConn' = x
         /\ forced' = forced \cup {x}
         /\ UNCHANGED inUse
    \/ /\ inUse \subseteq forced
       /\ drainPc' = "done"
       /\ drainConn' = NoConn
       /\ inUse' = {}
       /\ forced' = {}

\* Nobody holds a connection any more, or the drain timeout has elapsed.
DrainWaited ==
    /\ drainPc = "waiting"
    /\ DrainForce
    /\ UNCHANGED <<available, waitQueue, pending, calls, open, closed,
                   initVars, probeVars>>

DrainForceClosed ==
    /\ drainPc = "forcing"
    /\ open' = open \ {drainConn}
    /\ DrainForce
    /\ UNCHANGED <<available, waitQueue, pending, calls, closed,
                   initVars, probeVars>>

-----------------------------------------------------------------------------
(* healthCheck: the throwaway probe of an empty pool *)

ProbeStart ==
    /\ HealthProbe
    /\ probePc = "idle"
    /\ inUse = {} /\ available = <<>>
    /\ probePc' = "creating"
    /\ UNCHANGED <<members, calls, open, initVars, drainVars, probeConn>>

ProbeCreated ==
    /\ probePc = "creating"
    /\ \E x \in Fresh : open' = open \cup {x} /\ probeConn' = x
    /\ probePc' = "closing"
    /\ UNCHANGED <<members, calls, initVars, drainVars>>

ProbeFailed ==
    /\ "probe" \in FailingOps
    /\ probePc = "creating"
    /\ probePc' = "idle"
    /\ UNCHANGED <<members, calls, open, initVars, drainVars, probeConn>>

ProbeClosed ==
    /\ probePc = "closing"
    /\ open' = open \ {probeConn}
    /\ probePc' = "idle" /\ probeConn' = NoConn
    /\ UNCHANGED <<members, calls, initVars, drainVars>>

-----------------------------------------------------------------------------
\* Steps that end an await: the factory, a ping or a close answers.
Settle(c) ==
    \/ PingAlive(c) \/ PingDead(c) \/ Discarded(c) \/ Created(c)
    \/ ReleaseClosed(c) \/ Retired(c) \/ Replenished(c)

CallerStep(c) ==
    \/ Acquire(c) \/ Settle(c) \/ Release(c)
    \/ CreateFailed(c) \/ ReplenishFailed(c) \/ WaitTimeout(c)

DrainStep == DrainStart \/ DrainIdleClosed \/ DrainWaited \/ DrainForceClosed

Next ==
    \/ \E c \in Caller : CallerStep(c)
    \/ InitializeStart \/ InitializeCreated \/ InitializeFailed
    \/ DrainStep
    \/ ProbeStart \/ ProbeCreated \/ ProbeFailed \/ ProbeClosed

Spec == Init /\ [][Next]_vars

\* Promises of the driver settle, use() releases what it acquired and the drain
\* timer fires.  The acquireTimeout is not relied on, and nobody is obliged to
\* acquire, drain or probe.
Fairness ==
    /\ \A c \in Caller : WF_vars(Settle(c))
    /\ \A c \in Caller : WF_vars(pc[c] = "holding" /\ Release(c))
    /\ WF_vars(InitializeCreated)
    /\ WF_vars(DrainIdleClosed) /\ WF_vars(DrainForceClosed)
    /\ WF_vars(DrainWaited)

FairSpec == Spec /\ Fairness
=============================================================================
