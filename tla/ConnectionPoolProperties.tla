---------------------- MODULE ConnectionPoolProperties ----------------------
(***************************************************************************)
(* What makes the connection pool correct.                                 *)
(***************************************************************************)
EXTENDS ConnectionPool

Using(c) == pc[c] \in {"pinging", "holding"}

\* No connection serves two callers, and none that serves a caller is still
\* idle, ready to be issued again.
ExclusiveHolding ==
    /\ \A c, d \in Caller : Using(c) /\ Using(d) /\ conn[c] = conn[d] => c = d
    /\ \A c \in Caller : Using(c) => conn[c] \notin ToSet(available)

Reservers == { c \in Caller : pc[c] \in Reserving }

\* acquire() "cannot overshoot max": idle, issued and reserved connections never
\* exceed it, and a slot is reserved exactly while some call awaits the factory,
\* so that a create() that fails, or outlives the pool, gives its slot back once.
SlotsAreKept ==
    /\ Total <= MaxSize
    /\ pending = Cardinality(Reservers)

\* A caller that a drain or a timeout rejected never gets a connection: the queue
\* holds the parked callers, each once, and none of them beside an idle
\* connection, as acquire() parks only when there is none and release() looks at
\* the queue first.
QueueIsExact ==
    /\ ToSet(waitQueue) = { c \in Caller : pc[c] = "parked" }
    /\ IsInjective(waitQueue)
    /\ available = <<>> \/ waitQueue = <<>>

\* Calls that freed a slot and will, when their close() settles, take it again
\* for themselves or for the oldest waiter.
InTransit == { c \in Caller : pc[c] \in {"discarding", "retiring"} }

\* "so a retirement never strands a waiter beside spare capacity": while a
\* caller is parked, every slot that is free is one a call in transit freed.
NoStrandedWaiter == waitQueue # <<>> => Total + Cardinality(InTransit) >= MaxSize

\* "Hard ceiling": max, whoever opened the connections.  False once initialize()
\* is retried after a failure that left connections in the pool.
MaxIsHard == Total <= MaxSize

\* Waiters are served in order, each connection going to the head of the queue,
\* and only a create() that fails strands one, by the slot it gives back: no
\* retirement, dead connection, timeout or hand-over does.
WaitersAreServed ==
    [][/\ \A c \in Caller : pc[c] = "parked" /\ pc'[c] = "holding" => c = Head(waitQueue)
       /\ NoStrandedWaiter => NoStrandedWaiter' \/ (pending' < pending /\ open' = open)]_vars

\* "Drain all connections gracefully": a closed pool parks nobody, who would sit
\* out its timeout, a drained one has no idle connection, and no call that was
\* under way loses one: whatever is open is idle, issued, about to be closed by
\* the call that took it out of the pool, or the throwaway probe.
NothingIsLeftBehind ==
    /\ closed => waitQueue = <<>>
    /\ drainPc = "done" => available = <<>>
    /\ \A x \in open : \/ x \in ToSet(available) \cup inUse
                       \/ \E c \in Caller : pc[c] \in Closing /\ conn[c] = x
                       \/ x = drainConn \/ x = probeConn

\* A parked caller leaves the queue, by a connection or a rejection, without
\* its acquireTimeout, as long as the callers that hold connections release, also
\* beside retirements, unless every later connection is retired as well: then
\* newcomers may take each slot before replenishForWaiters() does.
ParkedIsAnswered ==
    <>[](\A c \in Caller : pc[c] # "retiring") =>
        \A c \in Caller : pc[c] = "parked" ~> pc[c] # "parked"

\* A drain that begins completes, and from then on every connection ends up
\* closed, those included that were being created when it began.
DrainClosesAll == (drainPc # "none") ~> (drainPc = "done" /\ open = {})

-----------------------------------------------------------------------------
(* The pool implements Lease: a connection is leased from the moment it is *)
(* pinged or handed over until its release begins.                         *)

leaseOf == [c \in Caller |-> IF Using(c) THEN conn[c] ELSE NoConn]

L == INSTANCE Lease WITH User <- Caller, Item <- Conn, Nobody <- NoConn,
                         Slots <- MaxSize, lease <- leaseOf

\* Every step of the pool is a grant, a return, a transfer or none of the
\* users' business.
ImplementsLease == L!Spec
=============================================================================
