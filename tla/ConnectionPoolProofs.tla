------------------------ MODULE ConnectionPoolProofs ------------------------
(***************************************************************************)
(* Proofs about the connection pool, for every number of callers, every    *)
(* size and every mix of options.                                          *)
(***************************************************************************)
EXTENDS ConnectionPoolProperties, SequenceLemmas

-----------------------------------------------------------------------------
(* Types.  That pending stays a natural number is not a matter of types: it *)
(* counts the callers that await the factory, and that in turn needs every  *)
(* queued caller to be parked, so that answering it disturbs no other call. *)

QueueInv ==
    /\ \A i \in 1..Len(waitQueue) : pc[waitQueue[i]] = "parked"
    /\ \A i, j \in 1..Len(waitQueue) : waitQueue[i] = waitQueue[j] => i = j

PendingIsReserved == pending = Cardinality(Reservers)

TypeInv == TypeOK /\ QueueInv /\ PendingIsReserved

\* The callers of whom something holds are finitely many, and their number changes
\* by the caller that moved.
LEMMA CountChange ==
  ASSUME NEW P, NEW f, NEW g, NEW c \in Caller,
         \A d \in Caller \ {c} : g[d] \in P <=> f[d] \in P
  PROVE  LET F == { d \in Caller : f[d] \in P }
             G == { d \in Caller : g[d] \in P }
         IN  /\ Cardinality(F) \in Nat /\ Cardinality(G) \in Nat
             /\ f[c] \in P => Cardinality(F) > 0
             /\ Cardinality(G) = Cardinality(F) + (IF g[c] \in P THEN 1 ELSE 0)
                                                - (IF f[c] \in P THEN 1 ELSE 0)
<1> DEFINE F == { d \in Caller : f[d] \in P }
           G == { d \in Caller : g[d] \in P }
           R == F \ {c}
<1>1. IsFiniteSet(F) /\ IsFiniteSet(R)
  BY ConstantsAssumption, FS_Subset
<1>2. Cardinality(R) \in Nat /\ Cardinality(F) \in Nat
  BY <1>1, FS_CardinalityType
<1>3. /\ F = IF f[c] \in P THEN R \cup {c} ELSE R
      /\ G = IF g[c] \in P THEN R \cup {c} ELSE R
      /\ c \notin R
  OBVIOUS
<1> HIDE DEF F, G, R
<1>4. Cardinality(R \cup {c}) = Cardinality(R) + 1
  BY <1>1, <1>3, FS_AddElement
<1>5. /\ Cardinality(F) \in Nat /\ Cardinality(G) \in Nat
      /\ f[c] \in P => Cardinality(F) > 0
      /\ Cardinality(G) = Cardinality(F) + (IF g[c] \in P THEN 1 ELSE 0)
                                         - (IF f[c] \in P THEN 1 ELSE 0)
  BY <1>2, <1>3, <1>4
<1> QED  BY <1>5 DEF F, G

LEMMA ReserversChange ==
  ASSUME NEW c \in Caller,
         \A d \in Caller \ {c} : pc'[d] \in Reserving <=> pc[d] \in Reserving
  PROVE  /\ Cardinality(Reservers) \in Nat
         /\ pc[c] \in Reserving => Cardinality(Reservers) > 0
         /\ Cardinality(Reservers)' =
              Cardinality(Reservers) + (IF pc'[c] \in Reserving THEN 1 ELSE 0)
                                     - (IF pc[c] \in Reserving THEN 1 ELSE 0)
BY CountChange DEF Reservers, Reserving

\* The head of the queue is a parked caller, and nobody else in the queue is.
LEMMA QueueHead ==
  ASSUME TypeOK, QueueInv, waitQueue # <<>>
  PROVE  /\ Head(waitQueue) \in Caller
         /\ pc[Head(waitQueue)] = "parked"
         /\ Tail(waitQueue) \in Seq(Caller)
         /\ Len(Tail(waitQueue)) = Len(waitQueue) - 1
         /\ \A i \in 1..Len(Tail(waitQueue)) :
              /\ Tail(waitQueue)[i] = waitQueue[i + 1]
              /\ i + 1 \in 1..Len(waitQueue)
              /\ Tail(waitQueue)[i] \in Caller
              /\ Tail(waitQueue)[i] # Head(waitQueue)
<1>1. waitQueue \in Seq(Caller) /\ Len(waitQueue) \in Nat \ {0}
  BY EmptySeq DEF TypeOK
<1>2. /\ Tail(waitQueue) \in Seq(Caller)
      /\ Len(Tail(waitQueue)) = Len(waitQueue) - 1
      /\ \A i \in 1..Len(Tail(waitQueue)) : Tail(waitQueue)[i] = waitQueue[i + 1]
  BY <1>1, HeadTailProperties
<1>3. Head(waitQueue) = waitQueue[1] /\ 1 \in 1..Len(waitQueue)
  BY <1>1
<1>4. \A i \in 1..Len(Tail(waitQueue)) : i + 1 \in 1..Len(waitQueue) /\ i + 1 # 1
  BY <1>1, <1>2
<1>5. \A i \in 1..Len(waitQueue) : waitQueue[i] \in Caller
  BY <1>1, ElementOfSeq
<1> QED
  BY <1>1, <1>2, <1>3, <1>4, <1>5 DEF QueueInv

\* Serving or rejecting the head leaves a queue of parked callers.
LEMMA QueueInvTail ==
  ASSUME TypeOK, QueueInv, waitQueue # <<>>, waitQueue' = Tail(waitQueue),
         pc' \in [Caller -> PC],
         \A d \in Caller \ {Head(waitQueue)} : pc[d] = "parked" => pc'[d] = "parked"
  PROVE  QueueInv'
<1>1. \A i \in 1..Len(waitQueue') : pc'[waitQueue'[i]] = "parked"
  BY QueueHead DEF QueueInv
<1>2. \A i, j \in 1..Len(waitQueue') : waitQueue'[i] = waitQueue'[j] => i = j
  <2> SUFFICES ASSUME NEW i \in 1..Len(waitQueue'), NEW j \in 1..Len(waitQueue'),
                      waitQueue'[i] = waitQueue'[j]
               PROVE  i = j
    OBVIOUS
  <2>1. i + 1 = j + 1
    BY QueueHead DEF QueueInv
  <2> QED  BY <2>1
<1> QED
  BY <1>1, <1>2 DEF QueueInv

\* A step that keeps the queue and leaves the parked callers parked.
LEMMA QueueInvSame ==
  ASSUME TypeOK, QueueInv, waitQueue' = waitQueue,
         \A d \in Caller : pc[d] = "parked" => pc'[d] = "parked"
  PROVE  QueueInv'
<1>1. \A i \in 1..Len(waitQueue) : waitQueue[i] \in Caller
  BY ElementOfSeq DEF TypeOK
<1> QED
  BY <1>1 DEF QueueInv

LEMMA TypeInvAcquireLoop ==
  ASSUME TypeInv, NEW c \in Caller, pc[c] \in {"idle", "discarding"}, AcquireLoop(c)
  PROVE  /\ available' \in Seq(Conn) /\ inUse' \in SUBSET Conn
         /\ waitQueue' \in Seq(Caller) /\ pending' \in Nat
         /\ pc' \in [Caller -> PC] /\ conn' \in [Caller -> Conn \cup {NoConn}]
         /\ QueueInv' /\ PendingIsReserved'
<1> USE DEF TypeInv, PC, Reserving, Closing
<1>1. CASE TakeIdle(c)
  <2>1. /\ available' \in Seq(Conn) /\ inUse' \in SUBSET Conn
        /\ conn' \in [Caller -> Conn \cup {NoConn}]
        /\ pc' \in [Caller -> PC] /\ waitQueue' = waitQueue /\ pending' = pending
    BY <1>1, FrontLast DEF TakeIdle, TypeOK
  <2>2. \A d \in Caller \ {c} : pc'[d] = pc[d]
    BY <1>1 DEF TakeIdle, TypeOK
  <2>3. pc'[c] \notin Reserving /\ pc[c] \notin Reserving
    BY <1>1 DEF TakeIdle, TypeOK
  <2>4. QueueInv'
    BY <2>1, <2>2, QueueInvSame
  <2>5. PendingIsReserved'
    BY <2>1, <2>2, <2>3, ReserversChange DEF PendingIsReserved
  <2> QED
    BY <2>1, <2>4, <2>5 DEF TypeOK
<1>2. CASE Reserve(c)
  <2>1. /\ conn' \in [Caller -> Conn \cup {NoConn}] /\ pc' \in [Caller -> PC]
        /\ UNCHANGED <<available, inUse, waitQueue>> /\ pending' = pending + 1
        /\ \A d \in Caller \ {c} : pc'[d] = pc[d]
        /\ pc'[c] \in Reserving /\ pc[c] \notin Reserving
    BY <1>2 DEF Reserve, TypeOK
  <2>2. QueueInv'
    BY <2>1, QueueInvSame
  <2>3. PendingIsReserved'
    BY <2>1, ReserversChange DEF PendingIsReserved
  <2> QED
    BY <2>1, <2>2, <2>3 DEF TypeOK
<1>3. CASE Park(c)
  <2>1. /\ conn' \in [Caller -> Conn \cup {NoConn}] /\ pc' \in [Caller -> PC]
        /\ UNCHANGED <<available, inUse, pending>>
        /\ \A d \in Caller \ {c} : pc'[d] = pc[d]
        /\ pc'[c] = "parked" /\ pc[c] \notin Reserving
    BY <1>3 DEF Park, TypeOK
  <2>2. /\ waitQueue' \in Seq(Caller) /\ Len(waitQueue') = Len(waitQueue) + 1
        /\ \A i \in 1..Len(waitQueue) : waitQueue'[i] = waitQueue[i]
        /\ waitQueue'[Len(waitQueue) + 1] = c
        /\ Len(waitQueue) \in Nat
    BY <1>3, AppendProperties, LenProperties DEF Park, TypeOK
  <2>3. \A i \in 1..Len(waitQueue) : waitQueue[i] \in Caller \ {c}
    BY ElementOfSeq DEF TypeOK, QueueInv
  <2>4. QueueInv'
    BY <2>1, <2>2, <2>3 DEF QueueInv
  <2>5. PendingIsReserved'
    BY <2>1, ReserversChange DEF PendingIsReserved
  <2> QED
    BY <2>1, <2>2, <2>4, <2>5 DEF TypeOK
<1> QED
  BY <1>1, <1>2, <1>3 DEF AcquireLoop

LEMMA TypeInvHandOffOrPark ==
  ASSUME TypeInv, NEW c \in Caller, pc[c] # "parked", NEW x \in Conn,
         HandOffOrPark(c, x)
  PROVE  /\ available' \in Seq(Conn) /\ inUse' \in SUBSET Conn
         /\ waitQueue' \in Seq(Caller)
         /\ pc' \in [Caller -> PC] /\ conn' \in [Caller -> Conn \cup {NoConn}]
         /\ QueueInv'
         /\ Cardinality(Reservers)' =
              Cardinality(Reservers) - (IF pc[c] \in Reserving THEN 1 ELSE 0)
<1> USE DEF TypeInv, PC, Reserving, Closing
<1>1. CASE waitQueue # <<>> /\ HandOff(c, x) /\ UNCHANGED available
  <2> DEFINE w == Head(waitQueue)
  <2>1. w \in Caller /\ pc[w] = "parked" /\ w # c
    BY <1>1, QueueHead
  <2>2. /\ pc' = [pc EXCEPT ![c] = "idle", ![w] = "holding"]
        /\ conn' = [conn EXCEPT ![c] = Left(c), ![w] = x]
        /\ waitQueue' = Tail(waitQueue) /\ inUse' = inUse \cup {x}
    BY <1>1 DEF HandOff
  <2>3. waitQueue' \in Seq(Caller)
    BY <1>1, <2>2, QueueHead
  <2> HIDE DEF w
  <2>4. /\ pc' \in [Caller -> PC]
        /\ \A d \in Caller \ {c, w} : pc'[d] = pc[d]
        /\ pc'[c] = "idle" /\ pc'[w] = "holding"
    BY <2>1, <2>2 DEF TypeOK
  <2>5. conn' \in [Caller -> Conn \cup {NoConn}]
    BY <2>1, <2>2 DEF TypeOK, Left
  <2>6. QueueInv'
    BY <1>1, <2>1, <2>2, <2>4, QueueInvTail DEF w
  <2>7. \A d \in Caller \ {c} : pc'[d] \in Reserving <=> pc[d] \in Reserving
    BY <2>1, <2>4
  <2>8. Cardinality(Reservers)' =
              Cardinality(Reservers) - (IF pc[c] \in Reserving THEN 1 ELSE 0)
    BY <2>4, <2>7, ReserversChange
  <2> QED
    BY <1>1, <2>2, <2>3, <2>4, <2>5, <2>6, <2>8 DEF TypeOK
<1>2. CASE waitQueue = <<>> /\ ParkIdle(c, x)
  <2>1. /\ pc' \in [Caller -> PC] /\ conn' \in [Caller -> Conn \cup {NoConn}]
        /\ waitQueue' = waitQueue /\ inUse' \in SUBSET Conn
        /\ \A d \in Caller \ {c} : pc'[d] = pc[d]
        /\ pc'[c] \notin Reserving
    BY <1>2 DEF ParkIdle, TypeOK, Left
  <2>2. available' \in Seq(Conn)
    BY <1>2, AppendProperties DEF ParkIdle, TypeOK
  <2>3. QueueInv'
    BY <2>1, QueueInvSame
  <2>4. Cardinality(Reservers)' =
              Cardinality(Reservers) - (IF pc[c] \in Reserving THEN 1 ELSE 0)
    BY <2>1, ReserversChange
  <2> QED
    BY <2>1, <2>2, <2>3, <2>4 DEF TypeOK
<1> QED
  BY <1>1, <1>2 DEF HandOffOrPark

LEMMA TypeInvInit == Init => TypeInv
<1> SUFFICES ASSUME Init PROVE TypeInv
  OBVIOUS
<1>1. TypeOK
  BY EmptySeq DEF Init, TypeOK, PC
<1>2. QueueInv
  BY DEF Init, QueueInv
<1>3. Reservers = {}
  BY DEF Init, Reservers, Reserving
<1>4. PendingIsReserved
  BY <1>3, FS_EmptySet DEF Init, PendingIsReserved
<1> QED
  BY <1>1, <1>2, <1>4 DEF TypeInv

\* A step that moves one caller that is not parked, and no other, and counts
\* its slot when it begins and ends to await the factory.
LEMMA TypeInvOneCaller ==
  ASSUME TypeInv, NEW c \in Caller, pc[c] # "parked", waitQueue' = waitQueue,
         pc' \in [Caller -> PC], \A d \in Caller \ {c} : pc'[d] = pc[d],
         pending' = pending + (IF pc'[c] \in Reserving THEN 1 ELSE 0)
                            - (IF pc[c] \in Reserving THEN 1 ELSE 0)
  PROVE  QueueInv' /\ PendingIsReserved' /\ pending' \in Nat
<1>1. QueueInv'
  BY QueueInvSame DEF TypeInv
<1>2. PendingIsReserved'
  BY ReserversChange DEF TypeInv, PendingIsReserved
<1>3. pending' \in Nat
  BY ReserversChange DEF TypeInv, TypeOK, PendingIsReserved
<1> QED
  BY <1>1, <1>2, <1>3

\* A step that moves no caller.
LEMMA TypeInvNoCaller ==
  ASSUME TypeInv, UNCHANGED <<waitQueue, pc, pending>>
  PROVE  QueueInv' /\ PendingIsReserved'
BY DEF TypeInv, QueueInv, PendingIsReserved, Reservers

LEMMA TypeInvNext == TypeInv /\ [Next]_vars => TypeInv'
<1> SUFFICES ASSUME TypeInv, [Next]_vars PROVE TypeInv'
  OBVIOUS
<1> USE DEF PC, Reserving, Closing, members, calls, initVars, drainVars, probeVars
<1>0. TypeOK
  BY DEF TypeInv
<1>1. ASSUME NEW c \in Caller, PingAlive(c) PROVE TypeInv'
  <2>1. /\ pc[c] # "parked" /\ waitQueue' = waitQueue
        /\ pc' \in [Caller -> PC] /\ \A d \in Caller \ {c} : pc'[d] = pc[d]
        /\ pending' = pending + (IF pc'[c] \in Reserving THEN 1 ELSE 0)
                              - (IF pc[c] \in Reserving THEN 1 ELSE 0)
    BY <1>0, <1>1 DEF PingAlive, TypeOK
  <2>2. QueueInv' /\ PendingIsReserved' /\ pending' \in Nat
    BY <2>1, TypeInvOneCaller
  <2>3. TypeOK'
    BY <1>0, <1>1, <2>1, <2>2 DEF PingAlive, TypeOK
  <2> QED  BY <2>2, <2>3 DEF TypeInv
<1>2. ASSUME NEW c \in Caller, PingDead(c) PROVE TypeInv'
  <2>1. /\ pc[c] # "parked" /\ waitQueue' = waitQueue
        /\ pc' \in [Caller -> PC] /\ \A d \in Caller \ {c} : pc'[d] = pc[d]
        /\ pending' = pending + (IF pc'[c] \in Reserving THEN 1 ELSE 0)
                              - (IF pc[c] \in Reserving THEN 1 ELSE 0)
    BY <1>0, <1>2 DEF PingDead, TypeOK
  <2>2. QueueInv' /\ PendingIsReserved' /\ pending' \in Nat
    BY <2>1, TypeInvOneCaller
  <2>3. TypeOK'
    BY <1>0, <1>2, <2>1, <2>2 DEF PingDead, TypeOK
  <2> QED  BY <2>2, <2>3 DEF TypeInv
<1>3. ASSUME NEW c \in Caller, Created(c) PROVE TypeInv'
  <2>1. /\ pc[c] # "parked" /\ waitQueue' = waitQueue
        /\ pc' \in [Caller -> PC] /\ \A d \in Caller \ {c} : pc'[d] = pc[d]
        /\ pending' = pending + (IF pc'[c] \in Reserving THEN 1 ELSE 0)
                              - (IF pc[c] \in Reserving THEN 1 ELSE 0)
    BY <1>0, <1>3 DEF Created, TypeOK
  <2>2. QueueInv' /\ PendingIsReserved' /\ pending' \in Nat
    BY <2>1, TypeInvOneCaller
  <2>3. TypeOK'
    BY <1>0, <1>3, <2>1, <2>2 DEF Created, TypeOK, Fresh
  <2> QED  BY <2>2, <2>3 DEF TypeInv
<1>4. ASSUME NEW c \in Caller, CreateFailed(c) PROVE TypeInv'
  <2>1. /\ pc[c] # "parked" /\ waitQueue' = waitQueue
        /\ pc' \in [Caller -> PC] /\ \A d \in Caller \ {c} : pc'[d] = pc[d]
        /\ pending' = pending + (IF pc'[c] \in Reserving THEN 1 ELSE 0)
                              - (IF pc[c] \in Reserving THEN 1 ELSE 0)
    BY <1>0, <1>4 DEF CreateFailed, TypeOK
  <2>2. QueueInv' /\ PendingIsReserved' /\ pending' \in Nat
    BY <2>1, TypeInvOneCaller
  <2>3. TypeOK'
    BY <1>0, <1>4, <2>1, <2>2 DEF CreateFailed, TypeOK
  <2> QED  BY <2>2, <2>3 DEF TypeInv
<1>5. ASSUME NEW c \in Caller, ReleaseClosed(c) PROVE TypeInv'
  <2>1. /\ pc[c] # "parked" /\ waitQueue' = waitQueue
        /\ pc' \in [Caller -> PC] /\ \A d \in Caller \ {c} : pc'[d] = pc[d]
        /\ pending' = pending + (IF pc'[c] \in Reserving THEN 1 ELSE 0)
                              - (IF pc[c] \in Reserving THEN 1 ELSE 0)
    BY <1>0, <1>5 DEF ReleaseClosed, TypeOK
  <2>2. QueueInv' /\ PendingIsReserved' /\ pending' \in Nat
    BY <2>1, TypeInvOneCaller
  <2>3. TypeOK'
    BY <1>0, <1>5, <2>1, <2>2 DEF ReleaseClosed, TypeOK, Left
  <2> QED  BY <2>2, <2>3 DEF TypeInv
<1>6. ASSUME NEW c \in Caller, Retired(c) PROVE TypeInv'
  <2>1. /\ pc[c] # "parked" /\ waitQueue' = waitQueue
        /\ pc' \in [Caller -> PC] /\ \A d \in Caller \ {c} : pc'[d] = pc[d]
        /\ pending' = pending + (IF pc'[c] \in Reserving THEN 1 ELSE 0)
                              - (IF pc[c] \in Reserving THEN 1 ELSE 0)
    BY <1>0, <1>6 DEF Retired, TypeOK
  <2>2. QueueInv' /\ PendingIsReserved' /\ pending' \in Nat
    BY <2>1, TypeInvOneCaller
  <2>3. TypeOK'
    BY <1>0, <1>6, <2>1, <2>2 DEF Retired, TypeOK, Left
  <2> QED  BY <2>2, <2>3 DEF TypeInv
<1>7. ASSUME NEW c \in Caller, Acquire(c) PROVE TypeInv'
  <2>1. pc[c] = "idle" /\ AcquireLoop(c) /\ UNCHANGED <<open, initVars, drainVars, probeVars>>
    BY <1>7 DEF Acquire
  <2> QED  BY <1>0, <2>1, TypeInvAcquireLoop DEF TypeInv, TypeOK
<1>8. ASSUME NEW c \in Caller, Discarded(c) PROVE TypeInv'
  <2>1. CASE closed
    <3>1. /\ pc[c] # "parked" /\ UNCHANGED members
          /\ pc' \in [Caller -> PC] /\ \A d \in Caller \ {c} : pc'[d] = pc[d]
          /\ pc[c] \notin Reserving /\ pc'[c] \notin Reserving
      BY <1>0, <1>8, <2>1 DEF Discarded, TypeOK
    <3>2. pending' = pending + 0 - 0
      BY <1>0, <3>1 DEF TypeOK
    <3>3. QueueInv' /\ PendingIsReserved'
      BY <3>1, <3>2, TypeInvOneCaller
    <3>4. TypeOK'
      BY <1>0, <1>8, <2>1, <3>1 DEF Discarded, TypeOK
    <3> QED  BY <3>3, <3>4 DEF TypeInv
  <2>2. CASE ~closed
    <3>1. /\ pc[c] = "discarding" /\ AcquireLoop(c) /\ open' \in SUBSET Conn
          /\ UNCHANGED <<initVars, drainVars, probeVars>>
      BY <1>0, <1>8, <2>2 DEF Discarded, TypeOK
    <3> QED  BY <1>0, <3>1, TypeInvAcquireLoop DEF TypeInv, TypeOK
  <2> QED  BY <2>1, <2>2
<1>9. ASSUME NEW c \in Caller, WaitTimeout(c) PROVE TypeInv'
  <2>1. PICK i \in 1..Len(waitQueue) : /\ waitQueue[i] = c
                                       /\ waitQueue' = RemoveAt(waitQueue, i)
    BY <1>9 DEF WaitTimeout
  <2>2. /\ waitQueue' \in Seq(Caller) /\ Len(waitQueue') = Len(waitQueue) - 1
        /\ Len(waitQueue) \in Nat
        /\ \A j \in 1..Len(waitQueue) - 1 :
             waitQueue'[j] = IF j < i THEN waitQueue[j] ELSE waitQueue[j + 1]
    BY <1>0, <2>1, RemoveAtProperties, LenProperties DEF TypeOK
  <2>3. /\ pc' = [pc EXCEPT ![c] = "idle"]
        /\ UNCHANGED <<available, inUse, pending, conn, open, initVars, drainVars, probeVars>>
    BY <1>9 DEF WaitTimeout
  <2>4. \A j \in 1..Len(waitQueue) : waitQueue[j] \in Caller /\ pc[waitQueue[j]] = "parked"
    BY <1>0, ElementOfSeq DEF TypeOK, TypeInv, QueueInv
  <2>5. pc[c] = "parked"
    BY <2>1, <2>4
  <2>6. \A j, k \in 1..Len(waitQueue) : waitQueue[j] = waitQueue[k] => j = k
    BY DEF TypeInv, QueueInv
  <2>7. \A j \in 1..Len(waitQueue') : \E k \in 1..Len(waitQueue) :
           /\ k # i /\ waitQueue'[j] = waitQueue[k]
           /\ k = IF j < i THEN j ELSE j + 1
    BY <2>2
  <2>8. \A j \in 1..Len(waitQueue') : waitQueue'[j] \in Caller \ {c} /\ pc[waitQueue'[j]] = "parked"
    BY <2>1, <2>4, <2>6, <2>7
  <2>9. \A j \in 1..Len(waitQueue') : pc'[waitQueue'[j]] = "parked"
    BY <1>0, <2>3, <2>8 DEF TypeOK
  <2>10. \A j, k \in 1..Len(waitQueue') : waitQueue'[j] = waitQueue'[k] => j = k
    <3> SUFFICES ASSUME NEW j \in 1..Len(waitQueue'), NEW k \in 1..Len(waitQueue'),
                        waitQueue'[j] = waitQueue'[k]
                 PROVE  j = k
      OBVIOUS
    <3>1. (IF j < i THEN j ELSE j + 1) = (IF k < i THEN k ELSE k + 1)
      BY <2>6, <2>7
    <3> QED  BY <2>2, <3>1
  <2>11. TypeOK'
    BY <1>0, <2>2, <2>3 DEF TypeOK
  <2>12. \A d \in Caller : pc'[d] \in Reserving <=> pc[d] \in Reserving
    BY <1>0, <2>3, <2>5 DEF TypeOK
  <2>13. PendingIsReserved'
    BY <2>3, <2>12 DEF PendingIsReserved, Reservers, TypeInv
  <2> QED  BY <2>9, <2>10, <2>11, <2>13 DEF TypeInv, QueueInv
<1>10. ASSUME NEW c \in Caller, Release(c) PROVE TypeInv'
  <2>1. /\ pc[c] \in {"holding", "idle"}
        /\ UNCHANGED <<pending, open, initVars, drainVars, probeVars>>
    BY <1>10 DEF Release
  <2>2. CASE conn[c] \in inUse /\ ~closed /\ HandOffOrPark(c, conn[c])
    <3>1. conn[c] \in Conn
      BY <1>0, <2>2 DEF TypeOK
    <3>2. PendingIsReserved'
      BY <2>1, <2>2, <3>1, TypeInvHandOffOrPark, ReserversChange
         DEF PendingIsReserved, TypeInv, TypeOK
    <3> QED  BY <1>0, <2>1, <2>2, <3>1, <3>2, TypeInvHandOffOrPark DEF TypeInv, TypeOK
  <2>3. CASE ~(conn[c] \in inUse /\ ~closed /\ HandOffOrPark(c, conn[c]))
    <3>1. /\ pc' \in [Caller -> PC] /\ \A d \in Caller \ {c} : pc'[d] = pc[d]
          /\ pc[c] \notin Reserving /\ pc'[c] \notin Reserving
          /\ pc[c] # "parked" /\ waitQueue' = waitQueue
      BY <1>0, <1>10, <2>3 DEF Release, TypeOK
    <3>2. pending' = pending + 0 - 0
      BY <1>0, <2>1 DEF TypeOK
    <3>3. QueueInv' /\ PendingIsReserved'
      BY <3>1, <3>2, TypeInvOneCaller
    <3>4. TypeOK'
      BY <1>0, <1>10, <2>1, <2>3, <3>1 DEF Release, TypeOK, Left
    <3> QED  BY <3>3, <3>4 DEF TypeInv
  <2> QED  BY <2>2, <2>3
<1>11. ASSUME NEW c \in Caller, Replenished(c) PROVE TypeInv'
  <2>1. PICK x \in Conn :
          /\ open' = open \cup {x}
          /\ \/ /\ closed
                /\ pc' = [pc EXCEPT ![c] = "closing"]
                /\ conn' = [conn EXCEPT ![c] = x]
                /\ UNCHANGED <<available, inUse, waitQueue>>
             \/ ~closed /\ HandOffOrPark(c, x)
    BY <1>11 DEF Replenished, Fresh
  <2>2. /\ pc[c] = "replenishing" /\ pending' = pending - 1
        /\ UNCHANGED <<initVars, drainVars, probeVars>>
    BY <1>11 DEF Replenished
  <2>3. CASE closed
    <3>1. /\ pc' \in [Caller -> PC] /\ \A d \in Caller \ {c} : pc'[d] = pc[d]
          /\ pc'[c] \notin Reserving /\ waitQueue' = waitQueue
      BY <1>0, <2>1, <2>2, <2>3 DEF TypeOK
    <3>2. pending' = pending + 0 - 1
      BY <1>0, <2>2 DEF TypeOK
    <3>3. QueueInv' /\ PendingIsReserved' /\ pending' \in Nat
      BY <2>2, <3>1, <3>2, TypeInvOneCaller
    <3>4. TypeOK'
      BY <1>0, <2>1, <2>2, <2>3, <3>1, <3>3 DEF TypeOK
    <3> QED  BY <3>3, <3>4 DEF TypeInv
  <2>4. CASE ~closed
    <3>1. HandOffOrPark(c, x)
      BY <2>1, <2>4
    <3>2. PendingIsReserved' /\ pending' \in Nat
      <4>1. Cardinality(Reservers)' = Cardinality(Reservers) - 1 /\ pc' \in [Caller -> PC]
        BY <2>2, <3>1, TypeInvHandOffOrPark
      <4>2. /\ Cardinality(Reservers) \in Nat /\ pending = Cardinality(Reservers)
            /\ Cardinality(Reservers) > 0
        <5>1. Reservers \in SUBSET Caller /\ c \in Reservers
          BY <2>2 DEF Reservers
        <5> QED  BY <5>1, ConstantsAssumption, FS_Subset, FS_CardinalityType, FS_EmptySet
                 DEF TypeInv, PendingIsReserved
      <4> QED  BY <2>2, <4>1, <4>2 DEF PendingIsReserved
    <3> QED  BY <1>0, <2>1, <2>2, <3>1, <3>2, TypeInvHandOffOrPark DEF TypeInv, TypeOK
  <2> QED  BY <2>3, <2>4
<1>12. ASSUME NEW c \in Caller, ReplenishFailed(c) PROVE TypeInv'
  <2>1. /\ pc[c] = "replenishing" /\ pending' = pending - 1
        /\ UNCHANGED <<available, inUse, conn, open, initVars, drainVars, probeVars>>
    BY <1>12 DEF ReplenishFailed
  <2>2. CASE waitQueue = <<>>
    <3>1. /\ pc' \in [Caller -> PC] /\ \A d \in Caller \ {c} : pc'[d] = pc[d]
          /\ pc'[c] \notin Reserving /\ waitQueue' = waitQueue
      BY <1>0, <1>12, <2>2 DEF ReplenishFailed, TypeOK
    <3>2. pending' = pending + 0 - 1
      BY <1>0, <2>1 DEF TypeOK
    <3>3. QueueInv' /\ PendingIsReserved' /\ pending' \in Nat
      BY <2>1, <3>1, <3>2, TypeInvOneCaller
    <3> QED  BY <1>0, <2>1, <3>1, <3>3 DEF TypeInv, TypeOK
  <2>3. CASE waitQueue # <<>>
    <3> DEFINE w == Head(waitQueue)
    <3>1. /\ w \in Caller /\ pc[w] = "parked" /\ w # c
          /\ waitQueue' = Tail(waitQueue) /\ waitQueue' \in Seq(Caller)
      BY <1>12, <2>1, <2>3, QueueHead DEF TypeInv, ReplenishFailed
    <3>2. pc' = [pc EXCEPT ![c] = "idle", ![w] = "idle"]
      BY <1>12, <2>3 DEF ReplenishFailed
    <3> HIDE DEF w
    <3>3. /\ pc' \in [Caller -> PC] /\ \A d \in Caller \ {c, w} : pc'[d] = pc[d]
          /\ pc'[c] = "idle" /\ pc'[w] = "idle"
      BY <1>0, <3>1, <3>2 DEF TypeOK
    <3>4. QueueInv'
      BY <2>1, <2>3, <3>1, <3>3, QueueInvTail DEF TypeInv, w
    <3>5. PendingIsReserved' /\ pending' \in Nat
      BY <1>0, <2>1, <3>1, <3>3, ReserversChange DEF TypeInv, TypeOK, PendingIsReserved
    <3> QED  BY <1>0, <2>1, <3>1, <3>3, <3>4, <3>5 DEF TypeInv, TypeOK
  <2> QED  BY <2>2, <2>3
<1>13. CASE InitializeStart
  <2>1. TypeOK'
    BY <1>0, <1>13, ConstantsAssumption DEF InitializeStart, Initial, TypeOK
  <2> QED  BY <1>13, <2>1, TypeInvNoCaller DEF TypeInv, InitializeStart
<1>14. CASE InitializeCreated
  <2>1. available' \in Seq(Conn) /\ open' \in SUBSET Conn
    BY <1>0, <1>14, AppendProperties DEF InitializeCreated, Fresh, TypeOK
  <2>2. TypeOK'
    BY <1>0, <1>14, <2>1 DEF InitializeCreated, TypeOK
  <2> QED  BY <1>14, <2>2, TypeInvNoCaller DEF TypeInv, InitializeCreated
<1>15. CASE InitializeFailed
  <2>1. TypeOK'
    BY <1>0, <1>15 DEF InitializeFailed, TypeOK
  <2> QED  BY <1>15, <2>1, TypeInvNoCaller DEF TypeInv, InitializeFailed
<1>16. ASSUME DrainIdle
       PROVE  /\ available' \in Seq(Conn) /\ drainConn' \in Conn \cup {NoConn}
              /\ drainPc' \in {"closingIdle", "done", "waiting"}
  BY <1>0, <1>16, FrontLast DEF DrainIdle, TypeOK
<1>17. CASE DrainStart
  <2>1. /\ waitQueue' = <<>> /\ pc' \in [Caller -> PC]
        /\ \A c \in Caller : pc'[c] \in Reserving <=> pc[c] \in Reserving
    BY <1>0, <1>17 DEF DrainStart, TypeOK
  <2>2. QueueInv' /\ waitQueue' \in Seq(Caller)
    BY <2>1, EmptySeq DEF QueueInv
  <2>3. PendingIsReserved'
    BY <1>17, <2>1 DEF DrainStart, PendingIsReserved, Reservers, TypeInv
  <2>4. TypeOK'
    BY <1>0, <1>16, <1>17, <2>1, <2>2 DEF DrainStart, TypeOK
  <2> QED  BY <2>2, <2>3, <2>4 DEF TypeInv
<1>18. CASE DrainIdleClosed
  <2>1. TypeOK'
    BY <1>0, <1>16, <1>18 DEF DrainIdleClosed, TypeOK
  <2> QED  BY <1>18, <2>1, TypeInvNoCaller DEF TypeInv, DrainIdleClosed
<1>19. CASE DrainWaited
  <2>1. TypeOK'
    BY <1>0, <1>19 DEF DrainWaited, DrainForce, TypeOK
  <2> QED  BY <1>19, <2>1, TypeInvNoCaller DEF TypeInv, DrainWaited
<1>20. CASE DrainForceClosed
  <2>1. TypeOK'
    BY <1>0, <1>20 DEF DrainForceClosed, DrainForce, TypeOK
  <2> QED  BY <1>20, <2>1, TypeInvNoCaller DEF TypeInv, DrainForceClosed
<1>21. CASE ProbeStart \/ ProbeCreated \/ ProbeFailed \/ ProbeClosed
  <2>1. UNCHANGED <<members, calls>>
    BY <1>21 DEF ProbeStart, ProbeCreated, ProbeFailed, ProbeClosed
  <2>2. TypeOK'
    BY <1>0, <1>21 DEF ProbeStart, ProbeCreated, ProbeFailed, ProbeClosed, Fresh, TypeOK
  <2> QED  BY <2>1, <2>2, TypeInvNoCaller DEF TypeInv
<1>22. CASE UNCHANGED vars
  <2>1. TypeOK'
    BY <1>0, <1>22 DEF vars, TypeOK
  <2> QED  BY <1>22, <2>1, TypeInvNoCaller DEF TypeInv, vars
<1> QED
  BY <1>1, <1>2, <1>3, <1>4, <1>5, <1>6, <1>7, <1>8, <1>9, <1>10, <1>11, <1>12,
     <1>13, <1>14, <1>15, <1>17, <1>18, <1>19, <1>20, <1>21, <1>22
     DEF Next, CallerStep, Settle, DrainStep

\* The variables of the pool keep their types whatever the calls do; pending in
\* particular never goes below zero.
THEOREM TypeCorrect == Spec => []TypeOK
<1>1. Spec => []TypeInv
  BY TypeInvInit, TypeInvNext, PTL DEF Spec
<1> QED
  BY <1>1, PTL DEF TypeInv

-----------------------------------------------------------------------------
(* Exclusive use.  It is inductive once it speaks of every connection a     *)
(* call refers to, those being closed included, and says that the idle list *)
(* has no duplicates: what is popped from it is then nobody's.              *)

RefersToConn   == \A c \in Caller : Using(c) \/ pc[c] \in Closing => conn[c] \in Conn
RefersAlone    == \A c, d \in Caller : conn[c] = conn[d] /\ conn[c] # NoConn => c = d
RefersNotIdle  == \A c \in Caller : \A i \in 1..Len(available) : available[i] # conn[c]
IdleOnce       == \A i, j \in 1..Len(available) : available[i] = available[j] => i = j

ExclusiveInv == RefersToConn /\ RefersAlone /\ RefersNotIdle /\ IdleOnce

LEMMA ExclusiveInvAcquireLoop ==
  ASSUME TypeInv, ExclusiveInv, NEW c \in Caller, AcquireLoop(c)
  PROVE  ExclusiveInv'
<1> USE DEF Using, Closing, ExclusiveInv
<1>0. TypeOK
  BY DEF TypeInv
<1>1. CASE TakeIdle(c)
  <2> DEFINE n == Len(available)
             x == Last(available)
  <2>1. /\ n \in Nat \ {0} /\ Len(available') = n - 1
        /\ \A i \in 1..n - 1 : available'[i] = available[i]
        /\ x \in Conn /\ x = available[n]
    BY <1>0, <1>1, FrontLast DEF TakeIdle, TypeOK
  <2>2. /\ \A d \in Caller \ {c} : conn'[d] = conn[d] /\ pc'[d] = pc[d]
        /\ conn'[c] = x
    BY <1>0, <1>1 DEF TakeIdle, TypeOK
  <2>3. \A d \in Caller : conn[d] # x
    BY <2>1 DEF RefersNotIdle
  <2>4. \A i \in 1..n - 1 : available[i] # x
    BY <2>1 DEF IdleOnce
  <2>5. 1..n - 1 \subseteq 1..n
    BY <2>1
  <2> HIDE DEF n, x
  <2>6. RefersToConn'
    BY <2>1, <2>2 DEF RefersToConn
  <2>7. RefersAlone'
    BY <2>2, <2>3 DEF RefersAlone
  <2>8. RefersNotIdle'
    BY <2>1, <2>2, <2>4, <2>5 DEF RefersNotIdle, n
  <2>9. IdleOnce'
    BY <2>1, <2>5 DEF IdleOnce, n
  <2> QED  BY <2>6, <2>7, <2>8, <2>9
<1>2. CASE Reserve(c) \/ Park(c)
  <2>1. /\ \A d \in Caller \ {c} : conn'[d] = conn[d] /\ pc'[d] = pc[d]
        /\ conn'[c] = NoConn /\ pc'[c] \in {"creating", "parked"}
        /\ available' = available
    BY <1>0, <1>2 DEF Reserve, Park, TypeOK
  <2>2. \A i \in 1..Len(available) : available[i] # NoConn
    BY <1>0, ElementOfSeq, ConstantsAssumption DEF TypeOK
  <2> QED
    BY <2>1, <2>2 DEF RefersToConn, RefersAlone, RefersNotIdle, IdleOnce
<1> QED
  BY <1>1, <1>2 DEF AcquireLoop

\* A connection that only c may refer to, and that is not idle, is handed over
\* or parked without being shared.
LEMMA ExclusiveInvHandOffOrPark ==
  ASSUME TypeInv, ExclusiveInv, ~DoubleRelease, NEW c \in Caller, NEW x \in Conn,
         pc[c] # "parked",
         \A d \in Caller \ {c} : conn[d] # x,
         \A i \in 1..Len(available) : available[i] # x,
         HandOffOrPark(c, x)
  PROVE  ExclusiveInv'
<1> USE DEF Using, Closing, ExclusiveInv
<1>0. TypeOK
  BY DEF TypeInv
<1>1. Left(c) = NoConn /\ x # NoConn
  BY ConstantsAssumption DEF Left
<1>2. \A i \in 1..Len(available) : available[i] # NoConn
  BY <1>0, ElementOfSeq, ConstantsAssumption DEF TypeOK
<1>3. CASE waitQueue # <<>> /\ HandOff(c, x) /\ UNCHANGED available
  <2> DEFINE w == Head(waitQueue)
  <2>1. w \in Caller /\ w # c
    BY <1>3, QueueHead DEF TypeInv
  <2>2. /\ pc' = [pc EXCEPT ![c] = "idle", ![w] = "holding"]
        /\ conn' = [conn EXCEPT ![c] = NoConn, ![w] = x]
    BY <1>1, <1>3 DEF HandOff
  <2> HIDE DEF w
  <2>3. /\ \A d \in Caller \ {c, w} : conn'[d] = conn[d] /\ pc'[d] = pc[d]
        /\ conn'[c] = NoConn /\ pc'[c] = "idle"
        /\ conn'[w] = x
    BY <1>0, <2>1, <2>2 DEF TypeOK
  <2>4. RefersToConn'
    BY <2>3 DEF RefersToConn
  <2>5. RefersAlone'
    BY <2>3 DEF RefersAlone
  <2>6. RefersNotIdle'
    BY <1>2, <1>3, <2>3 DEF RefersNotIdle
  <2> QED  BY <1>3, <2>4, <2>5, <2>6 DEF IdleOnce
<1>4. CASE waitQueue = <<>> /\ ParkIdle(c, x)
  <2>1. /\ Len(available) \in Nat /\ Len(available') = Len(available) + 1
        /\ \A i \in 1..Len(available) : available'[i] = available[i]
        /\ available'[Len(available) + 1] = x
    BY <1>0, <1>4, AppendProperties, LenProperties DEF ParkIdle, TypeOK
  <2>2. /\ \A d \in Caller \ {c} : conn'[d] = conn[d] /\ pc'[d] = pc[d]
        /\ conn'[c] = NoConn /\ pc'[c] = "idle"
    BY <1>0, <1>1, <1>4 DEF ParkIdle, TypeOK
  <2>3. \A i \in 1..Len(available') : i \in 1..Len(available) \/ i = Len(available) + 1
    BY <2>1
  <2>4. RefersToConn' /\ RefersAlone'
    BY <2>2 DEF RefersToConn, RefersAlone
  <2>5. RefersNotIdle'
    BY <1>1, <1>2, <2>1, <2>2, <2>3 DEF RefersNotIdle
  <2>6. IdleOnce'
    BY <2>1, <2>3 DEF IdleOnce
  <2> QED  BY <2>4, <2>5, <2>6
<1> QED
  BY <1>3, <1>4 DEF HandOffOrPark

\* A step after which c refers to what it did or to nothing, and no other call
\* or idle connection changed.
LEMMA ExclusiveInvForget ==
  ASSUME TypeInv, ExclusiveInv, available' = available,
         \A d \in Caller : /\ conn'[d] \in {conn[d], NoConn}
                           /\ Using(d)' \/ pc'[d] \in Closing =>
                                /\ Using(d) \/ pc[d] \in Closing
                                /\ conn'[d] = conn[d]
  PROVE  ExclusiveInv'
<1>1. \A i \in 1..Len(available) : available[i] # NoConn
  BY ElementOfSeq, ConstantsAssumption DEF TypeInv, TypeOK
<1>2. RefersToConn' /\ RefersAlone'
  BY DEF ExclusiveInv, RefersToConn, RefersAlone
<1>3. RefersNotIdle' /\ IdleOnce'
  BY <1>1 DEF ExclusiveInv, RefersNotIdle, IdleOnce
<1> QED  BY <1>2, <1>3 DEF ExclusiveInv

LEMMA ExclusiveInvNext ==
  ASSUME ~DoubleRelease, TypeInv, ExclusiveInv, [Next]_vars
  PROVE  ExclusiveInv'
<1> USE DEF Using, Closing, members, calls, initVars, drainVars, probeVars
<1>0. TypeOK
  BY DEF TypeInv
<1>1. ASSUME NEW c \in Caller,
             \/ PingAlive(c) \/ PingDead(c) \/ CreateFailed(c)
             \/ ReleaseClosed(c) \/ Retired(c)
      PROVE  ExclusiveInv'
  <2>1. available' = available
    BY <1>1 DEF PingAlive, PingDead, CreateFailed, ReleaseClosed, Retired
  <2>2. \A d \in Caller \ {c} : pc'[d] = pc[d] /\ conn'[d] = conn[d]
    BY <1>0, <1>1
       DEF PingAlive, PingDead, CreateFailed, ReleaseClosed, Retired, TypeOK
  <2>3. /\ conn'[c] \in {conn[c], NoConn}
        /\ Using(c)' \/ pc'[c] \in Closing =>
             /\ Using(c) \/ pc[c] \in Closing
             /\ conn'[c] = conn[c]
    BY <1>0, <1>1
       DEF PingAlive, PingDead, CreateFailed, ReleaseClosed, Retired, Left, TypeOK
  <2> QED  BY <2>1, <2>2, <2>3, ExclusiveInvForget
<1>2. ASSUME NEW c \in Caller, WaitTimeout(c) \/ ReplenishFailed(c)
      PROVE  ExclusiveInv'
  <2>1. waitQueue # <<>> => Head(waitQueue) \in Caller
    BY <1>0, QueueHead DEF TypeInv
  <2>2. /\ available' = available /\ conn' = conn
        /\ \A d \in Caller : pc'[d] = pc[d] \/ pc'[d] = "idle"
    BY <1>0, <1>2, <2>1 DEF WaitTimeout, ReplenishFailed, TypeOK
  <2> QED  BY <2>2, ExclusiveInvForget
<1>3. ASSUME NEW c \in Caller, Acquire(c) PROVE ExclusiveInv'
  BY <1>3, ExclusiveInvAcquireLoop DEF Acquire
<1>4. ASSUME NEW c \in Caller, Discarded(c) PROVE ExclusiveInv'
  <2>1. CASE closed
    <3>1. /\ available' = available
          /\ \A d \in Caller : /\ conn'[d] \in {conn[d], NoConn}
                               /\ \/ pc'[d] = "idle"
                                  \/ pc'[d] = pc[d] /\ conn'[d] = conn[d]
      BY <1>0, <1>4, <2>1 DEF Discarded, TypeOK
    <3> QED  BY <3>1, ExclusiveInvForget
  <2>2. CASE ~closed
    BY <1>4, <2>2, ExclusiveInvAcquireLoop DEF Discarded
  <2> QED  BY <2>1, <2>2
<1>5. ASSUME NEW c \in Caller, Created(c) PROVE ExclusiveInv'
  <2>1. PICK x \in Fresh : conn' = [conn EXCEPT ![c] = x]
    BY <1>5 DEF Created
  <2>2. /\ x \in Conn /\ \A d \in Caller : conn[d] # x
        /\ \A i \in 1..Len(available) : available[i] # x
    BY <1>0, <2>1, LenProperties DEF Fresh, ToSet, TypeOK
  <2>3. /\ available' = available /\ conn'[c] = x
        /\ \A d \in Caller \ {c} : pc'[d] = pc[d] /\ conn'[d] = conn[d]
    BY <1>0, <1>5, <2>1 DEF Created, TypeOK
  <2> QED
    BY <2>2, <2>3
       DEF ExclusiveInv, RefersToConn, RefersAlone, RefersNotIdle, IdleOnce
<1>6. ASSUME NEW c \in Caller, Release(c) PROVE ExclusiveInv'
  <2>1. pc[c] = "holding"
    BY <1>6 DEF Release
  <2>2. CASE HandOffOrPark(c, conn[c])
    <3>1. conn[c] \in Conn
      BY <2>1 DEF ExclusiveInv, RefersToConn
    <3>2. /\ \A d \in Caller \ {c} : conn[d] # conn[c]
          /\ \A i \in 1..Len(available) : available[i] # conn[c]
      BY <3>1, ConstantsAssumption DEF ExclusiveInv, RefersAlone, RefersNotIdle
    <3> QED  BY <2>1, <2>2, <3>1, <3>2, ExclusiveInvHandOffOrPark
  <2>3. CASE ~HandOffOrPark(c, conn[c])
    <3>1. available' = available
      BY <1>6, <2>3 DEF Release
    <3>2. \A d \in Caller \ {c} : pc'[d] = pc[d] /\ conn'[d] = conn[d]
      BY <1>0, <1>6, <2>3 DEF Release, TypeOK
    <3>3. \/ pc'[c] = "idle" /\ conn'[c] = NoConn
          \/ pc'[c] \in Closing /\ conn'[c] = conn[c]
      BY <1>0, <1>6, <2>3 DEF Release, Left, TypeOK
    <3> QED  BY <2>1, <3>1, <3>2, <3>3, ExclusiveInvForget
  <2> QED  BY <2>2, <2>3
<1>7. ASSUME NEW c \in Caller, Replenished(c) PROVE ExclusiveInv'
  <2>1. PICK x \in Fresh :
          \/ /\ pc' = [pc EXCEPT ![c] = "closing"]
             /\ conn' = [conn EXCEPT ![c] = x]
             /\ available' = available
          \/ HandOffOrPark(c, x)
    BY <1>7 DEF Replenished
  <2>2. /\ x \in Conn /\ \A d \in Caller : conn[d] # x
        /\ \A i \in 1..Len(available) : available[i] # x
    BY <1>0, <2>1, LenProperties DEF Fresh, ToSet, TypeOK
  <2>3. CASE HandOffOrPark(c, x)
    BY <1>7, <2>2, <2>3, ExclusiveInvHandOffOrPark DEF Replenished
  <2>4. CASE ~HandOffOrPark(c, x)
    <3>1. /\ available' = available /\ conn'[c] = x
          /\ \A d \in Caller \ {c} : pc'[d] = pc[d] /\ conn'[d] = conn[d]
      BY <1>0, <2>1, <2>4 DEF TypeOK
    <3> QED
      BY <2>2, <3>1
         DEF ExclusiveInv, RefersToConn, RefersAlone, RefersNotIdle, IdleOnce
  <2> QED  BY <2>3, <2>4
<1>8. CASE InitializeCreated
  <2>1. PICK x \in Fresh : available' = Append(available, x)
    BY <1>8 DEF InitializeCreated
  <2>2. /\ x \in Conn /\ \A d \in Caller : conn[d] # x
        /\ \A i \in 1..Len(available) : available[i] # x
    BY <1>0, <2>1, LenProperties DEF Fresh, ToSet, TypeOK
  <2>3. /\ Len(available) \in Nat /\ Len(available') = Len(available) + 1
        /\ \A i \in 1..Len(available) : available'[i] = available[i]
        /\ available'[Len(available) + 1] = x
    BY <1>0, <2>1, <2>2, AppendProperties, LenProperties DEF TypeOK
  <2>4. \A i \in 1..Len(available') : i \in 1..Len(available) \/ i = Len(available) + 1
    BY <2>3
  <2>5. UNCHANGED <<pc, conn>>
    BY <1>8 DEF InitializeCreated
  <2>6. RefersToConn' /\ RefersAlone'
    BY <2>5 DEF ExclusiveInv, RefersToConn, RefersAlone
  <2>7. RefersNotIdle' /\ IdleOnce'
    BY <2>2, <2>3, <2>4, <2>5 DEF ExclusiveInv, RefersNotIdle, IdleOnce
  <2> QED  BY <2>6, <2>7 DEF ExclusiveInv
<1>9. CASE DrainStart \/ DrainIdleClosed
  <2>1. DrainIdle /\ conn' = conn
    BY <1>9 DEF DrainStart, DrainIdleClosed
  <2>2. \A c \in Caller : pc'[c] \in {pc[c], "idle"}
    BY <1>0, <1>9 DEF DrainStart, DrainIdleClosed, TypeOK
  <2>3. \A i \in 1..Len(available') :
          i \in 1..Len(available) /\ available'[i] = available[i]
    <3>1. CASE available # <<>>
      <4>1. /\ Len(available) \in Nat \ {0} /\ Len(available') = Len(available) - 1
            /\ \A i \in 1..Len(available) - 1 : available'[i] = available[i]
        BY <1>0, <2>1, <3>1, FrontLast DEF DrainIdle, TypeOK
      <4> QED  BY <4>1
    <3>2. CASE available = <<>>
      BY <2>1, <3>2 DEF DrainIdle
    <3> QED  BY <3>1, <3>2
  <2> QED
    BY <2>1, <2>2, <2>3
       DEF ExclusiveInv, RefersToConn, RefersAlone, RefersNotIdle, IdleOnce
<1>10. CASE \/ InitializeStart \/ InitializeFailed
            \/ DrainWaited \/ DrainForceClosed
            \/ ProbeStart \/ ProbeCreated \/ ProbeFailed \/ ProbeClosed
            \/ UNCHANGED vars
  <2>1. UNCHANGED <<available, pc, conn>>
    BY <1>10 DEF InitializeStart, InitializeFailed, DrainWaited, DrainForceClosed,
                 ProbeStart, ProbeCreated, ProbeFailed, ProbeClosed, vars
  <2> QED  BY <2>1, ExclusiveInvForget
<1> QED
  BY <1>1, <1>2, <1>3, <1>4, <1>5, <1>6, <1>7, <1>8, <1>9, <1>10
     DEF Next, CallerStep, Settle, DrainStep

\* As long as callers release once, no connection is ever issued to two of them,
\* nor idle while one of them uses it.
THEOREM ExclusiveUse ==
  ASSUME ~DoubleRelease
  PROVE  Spec => []ExclusiveHolding
<1>1. Init => ExclusiveInv
  BY DEF Init, ExclusiveInv, RefersToConn, RefersAlone, RefersNotIdle, IdleOnce,
         Using, Closing
<1>2. TypeInv /\ ExclusiveInv /\ [Next]_vars => TypeInv' /\ ExclusiveInv'
  BY TypeInvNext, ExclusiveInvNext
<1>3. TypeInv /\ ExclusiveInv => ExclusiveHolding
  <2> SUFFICES ASSUME TypeInv, ExclusiveInv PROVE ExclusiveHolding
    OBVIOUS
  <2>1. \A c \in Caller : Using(c) => conn[c] # NoConn
    BY ConstantsAssumption DEF ExclusiveInv, RefersToConn
  <2>2. \A c \in Caller : conn[c] \notin ToSet(available)
    BY LenProperties DEF TypeInv, TypeOK, ToSet, ExclusiveInv, RefersNotIdle
  <2> QED  BY <2>1, <2>2 DEF ExclusiveHolding, ExclusiveInv, RefersAlone
<1> QED
  BY <1>1, <1>2, <1>3, TypeInvInit, PTL DEF Spec

-----------------------------------------------------------------------------
(* Capacity, when initialize() is awaited on an untouched pool.  Inductive   *)
(* is the bound on the connections there are and those initialize() has yet  *)
(* to add, together with the fact that it runs alone.                        *)

Quiet == \A c \in Caller : pc[c] = "idle" /\ conn[c] = NoConn

NoIdleBesideWaiter == available = <<>> \/ waitQueue = <<>>

InitAlone     == initLeft > 0 => Quiet
CapacityRoom  == IsFiniteSet(inUse) /\ Total + initLeft <= MaxSize
CapacityInv   == InitAlone /\ CapacityRoom /\ NoIdleBesideWaiter

LEMMA QuietQueue ==
  ASSUME TypeInv, Quiet
  PROVE  waitQueue = <<>>
<1> SUFFICES ASSUME waitQueue # <<>> PROVE FALSE
  OBVIOUS
<1>1. Head(waitQueue) \in Caller /\ pc[Head(waitQueue)] = "parked"
  BY QueueHead DEF TypeInv
<1> QED  BY <1>1 DEF Quiet

LEMMA CapacityAcquireLoop ==
  ASSUME TypeInv, CapacityInv, initLeft = 0, initLeft' = 0, NEW c \in Caller, AcquireLoop(c)
  PROVE  CapacityInv'
<1> USE DEF CapacityInv, CapacityRoom, Total
<1>0. /\ TypeOK /\ MaxSize \in Nat /\ Len(available) \in Nat
      /\ Cardinality(inUse) \in Nat /\ pending \in Nat
  BY LenProperties, FS_CardinalityType, ConstantsAssumption DEF TypeInv, TypeOK
<1>1. CASE TakeIdle(c)
  <2>1. Len(available') = Len(available) - 1
    BY <1>0, <1>1, FrontLast DEF TakeIdle, TypeOK
  <2>2. /\ IsFiniteSet(inUse') /\ Cardinality(inUse') \in Nat
        /\ Cardinality(inUse') <= Cardinality(inUse) + 1
    <3>1. inUse' = inUse \/ inUse' = inUse \cup {Last(available)}
      BY <1>1 DEF TakeIdle
    <3> DEFINE y == Last(available)
    <3>2. /\ IsFiniteSet(inUse \cup {y})
          /\ Cardinality(inUse \cup {y}) \in {Cardinality(inUse), Cardinality(inUse) + 1}
      BY FS_AddElement
    <3> HIDE DEF y
    <3>3. CASE inUse' = inUse
      BY <1>0, <3>3
    <3>4. CASE inUse' = inUse \cup {y}
      BY <1>0, <3>2, <3>4
    <3> QED  BY <3>1, <3>3, <3>4 DEF y
  <2>3. UNCHANGED <<waitQueue, pending>> /\ waitQueue = <<>>
    BY <1>1 DEF TakeIdle, NoIdleBesideWaiter
  <2> QED  BY <1>0, <2>1, <2>2, <2>3 DEF InitAlone, NoIdleBesideWaiter
<1>2. CASE Reserve(c)
  BY <1>0, <1>2 DEF Reserve, InitAlone, NoIdleBesideWaiter
<1>3. CASE Park(c)
  BY <1>0, <1>3 DEF Park, InitAlone, NoIdleBesideWaiter
<1> QED  BY <1>1, <1>2, <1>3 DEF AcquireLoop

\* Handing x over or parking it adds at most x to the pool, and parking it
\* needs an empty queue.
LEMMA CapacityHandOffOrPark ==
  ASSUME TypeInv, CapacityInv, NEW c \in Caller, NEW x \in Conn, HandOffOrPark(c, x)
  PROVE  /\ IsFiniteSet(inUse') /\ NoIdleBesideWaiter'
         /\ Len(available') + Cardinality(inUse') <=
              Len(available) + Cardinality(inUse) + (IF x \in inUse THEN 0 ELSE 1)
         /\ Len(available') + Cardinality(inUse') \in Nat
<1> USE DEF CapacityInv, CapacityRoom
<1>0. TypeOK /\ Len(available) \in Nat /\ Cardinality(inUse) \in Nat
  BY LenProperties, FS_CardinalityType DEF TypeInv, TypeOK
<1>1. CASE waitQueue # <<>> /\ HandOff(c, x) /\ UNCHANGED available
  <2>1. inUse' = inUse \cup {x}
    BY <1>1 DEF HandOff
  <2>2. /\ IsFiniteSet(inUse') /\ Cardinality(inUse') \in Nat
        /\ Cardinality(inUse') = Cardinality(inUse) + (IF x \in inUse THEN 0 ELSE 1)
    BY <1>0, <2>1, FS_AddElement, FS_CardinalityType
  <2>3. available = <<>>
    BY <1>1 DEF NoIdleBesideWaiter
  <2> QED  BY <1>0, <1>1, <2>2, <2>3 DEF NoIdleBesideWaiter
<1>2. CASE waitQueue = <<>> /\ ParkIdle(c, x)
  <2>1. /\ inUse' = inUse \ {x} /\ waitQueue' = <<>>
        /\ Len(available') = Len(available) + 1
    BY <1>0, <1>2, AppendProperties DEF ParkIdle, TypeOK
  <2>2. /\ IsFiniteSet(inUse') /\ Cardinality(inUse') \in Nat
        /\ Cardinality(inUse') = Cardinality(inUse) - (IF x \in inUse THEN 1 ELSE 0)
    BY <1>0, <2>1, FS_RemoveElement, FS_CardinalityType
  <2> QED  BY <1>0, <2>1, <2>2 DEF NoIdleBesideWaiter
<1> QED  BY <1>1, <1>2 DEF HandOffOrPark

\* A step that only takes connections, slots and waiters away.
LEMMA CapacityShrinks ==
  ASSUME TypeInv, TypeInv', CapacityInv, InitAlone', NoIdleBesideWaiter',
         inUse' \subseteq inUse, Len(available') <= Len(available),
         pending' <= pending, initLeft' <= initLeft
  PROVE  CapacityInv'
<1>1. /\ IsFiniteSet(inUse') /\ Cardinality(inUse') <= Cardinality(inUse)
  BY FS_Subset DEF CapacityInv, CapacityRoom
<1>2. /\ Cardinality(inUse') \in Nat /\ Cardinality(inUse) \in Nat
  BY <1>1, FS_CardinalityType DEF CapacityInv, CapacityRoom
<1>3. /\ Len(available') \in Nat /\ Len(available) \in Nat /\ MaxSize \in Nat
      /\ pending \in Nat /\ pending' \in Nat /\ initLeft \in Nat /\ initLeft' \in Nat
  BY LenProperties, ConstantsAssumption DEF TypeInv, TypeOK
<1> QED  BY <1>1, <1>2, <1>3 DEF CapacityInv, CapacityRoom, Total

\* No caller moves while initialize() runs.
LEMMA CallersWaitForInit ==
  ASSUME EagerInit, TypeInv, InitAlone, NEW c \in Caller, CallerStep(c)
  PROVE  initLeft = 0 /\ initLeft' = 0
<1>1. initLeft' = initLeft /\ initLeft \in Nat
  BY DEF CallerStep, Settle, Acquire, PingAlive, PingDead, Discarded, Created,
         ReleaseClosed, Retired, Replenished, Release, CreateFailed,
         ReplenishFailed, WaitTimeout, initVars, TypeInv, TypeOK
<1>2. CASE Acquire(c)
  BY <1>1, <1>2 DEF Acquire
<1>3. CASE WaitTimeout(c)
  BY <1>1, <1>3, QuietQueue DEF WaitTimeout, InitAlone
<1>4. CASE Release(c)
  BY <1>1, <1>4 DEF Release, InitAlone, Quiet
<1>5. CASE Settle(c) \/ CreateFailed(c) \/ ReplenishFailed(c)
  BY <1>1, <1>5 DEF InitAlone, Quiet, Settle, PingAlive, PingDead, Discarded, Created,
                    ReleaseClosed, Retired, Replenished, CreateFailed, ReplenishFailed
<1> QED
  BY <1>2, <1>3, <1>4, <1>5 DEF CallerStep

LEMMA CapacityInvNext ==
  ASSUME EagerInit, RoomToInit, TypeInv, CapacityInv, [Next]_vars
  PROVE  CapacityInv'
<1> USE DEF members, calls, initVars, drainVars, probeVars
<1>0. /\ TypeOK /\ MaxSize \in Nat /\ Len(available) \in Nat
      /\ IsFiniteSet(inUse) /\ Cardinality(inUse) \in Nat
      /\ pending \in Nat /\ initLeft \in Nat
  BY LenProperties, FS_CardinalityType, ConstantsAssumption
     DEF TypeInv, TypeOK, CapacityInv, CapacityRoom
<1>00. TypeInv'
  BY TypeInvNext
<1>1. ASSUME NEW c \in Caller, CallerStep(c) PROVE CapacityInv'
  <2>0. initLeft = 0 /\ initLeft' = 0 /\ InitAlone'
    BY <1>1, CallersWaitForInit DEF CapacityInv, InitAlone
  <2>1. CASE \/ PingAlive(c) \/ PingDead(c) \/ CreateFailed(c) \/ ReleaseClosed(c)
    <3>1. /\ inUse' \subseteq inUse /\ UNCHANGED <<available, waitQueue>>
          /\ pending' <= pending
      BY <1>0, <2>1 DEF PingAlive, PingDead, CreateFailed, ReleaseClosed
    <3>2. NoIdleBesideWaiter' /\ Len(available') <= Len(available)
      BY <1>0, <3>1 DEF CapacityInv, NoIdleBesideWaiter
    <3> QED  BY <1>0, <1>00, <2>0, <3>1, <3>2, CapacityShrinks
  <2>2. CASE WaitTimeout(c) \/ ReplenishFailed(c)
    <3>1. UNCHANGED <<available, inUse>> /\ pending' <= pending
      BY <1>0, <2>2 DEF WaitTimeout, ReplenishFailed
    <3>2. waitQueue = <<>> => waitQueue' = <<>>
      <4> SUFFICES ASSUME waitQueue = <<>> PROVE waitQueue' = <<>>
        OBVIOUS
      <4>1. Len(waitQueue) = 0
        OBVIOUS
      <4> QED  BY <2>2, <4>1 DEF WaitTimeout, ReplenishFailed
    <3>3. NoIdleBesideWaiter' /\ Len(available') <= Len(available)
      BY <1>0, <3>1, <3>2 DEF CapacityInv, NoIdleBesideWaiter
    <3> QED  BY <1>0, <1>00, <2>0, <3>1, <3>3, CapacityShrinks
  <2>3. CASE Acquire(c)
    BY <2>0, <2>3, CapacityAcquireLoop DEF Acquire
  <2>4. CASE Discarded(c)
    <3>1. CASE closed
      <4>1. UNCHANGED members
        BY <2>4, <3>1 DEF Discarded
      <4>2. NoIdleBesideWaiter' /\ Len(available') <= Len(available)
        BY <1>0, <4>1 DEF CapacityInv, NoIdleBesideWaiter
      <4> QED  BY <1>0, <1>00, <2>0, <4>1, <4>2, CapacityShrinks
    <3>2. CASE ~closed
      BY <2>0, <2>4, <3>2, CapacityAcquireLoop DEF Discarded
    <3> QED  BY <3>1, <3>2
  <2>5. CASE Created(c)
    <3>1. PICK x \in Fresh : inUse' = inUse \cup {x}
      BY <2>5 DEF Created
    <3>2. /\ IsFiniteSet(inUse') /\ Cardinality(inUse') = Cardinality(inUse) + 1
      BY <1>0, <3>1, FS_AddElement DEF Fresh
    <3>3. UNCHANGED <<available, waitQueue>> /\ pending' = pending - 1
      BY <2>5 DEF Created
    <3>4. NoIdleBesideWaiter'
      BY <3>3 DEF CapacityInv, NoIdleBesideWaiter
    <3> QED
      BY <1>0, <2>0, <3>2, <3>3, <3>4 DEF CapacityInv, CapacityRoom, Total
  <2>6. CASE Retired(c)
    <3>1. /\ UNCHANGED <<available, inUse, waitQueue>>
          /\ pending' = pending \/ (Total < MaxSize /\ pending' = pending + 1)
      BY <2>6 DEF Retired
    <3>2. NoIdleBesideWaiter'
      BY <3>1 DEF CapacityInv, NoIdleBesideWaiter
    <3> QED
      BY <1>0, <2>0, <3>1, <3>2 DEF CapacityInv, CapacityRoom, Total
  <2>7. CASE Release(c)
    <3>1. pending' = pending
      BY <2>7 DEF Release
    <3>2. CASE conn[c] \in inUse /\ HandOffOrPark(c, conn[c])
      <4>1. conn[c] \in Conn
        BY <1>0, <3>2 DEF TypeOK
      <4>2. /\ IsFiniteSet(inUse') /\ NoIdleBesideWaiter'
            /\ Len(available') + Cardinality(inUse') <= Len(available) + Cardinality(inUse)
            /\ Len(available') + Cardinality(inUse') \in Nat
        BY <1>0, <3>2, <4>1, CapacityHandOffOrPark
      <4> QED
        BY <1>0, <2>0, <3>1, <4>2 DEF CapacityInv, CapacityRoom, Total
    <3>3. CASE ~(conn[c] \in inUse /\ HandOffOrPark(c, conn[c]))
      <4>1. inUse' \subseteq inUse /\ UNCHANGED <<available, waitQueue>>
        BY <2>7, <3>3 DEF Release
      <4>2. NoIdleBesideWaiter' /\ Len(available') <= Len(available)
        BY <1>0, <4>1 DEF CapacityInv, NoIdleBesideWaiter
      <4> QED  BY <1>0, <1>00, <2>0, <3>1, <4>1, <4>2, CapacityShrinks
    <3> QED  BY <3>2, <3>3
  <2>8. CASE Replenished(c)
    <3>1. PICK x \in Fresh : \/ UNCHANGED <<available, inUse, waitQueue>>
                             \/ HandOffOrPark(c, x)
      BY <2>8 DEF Replenished
    <3>2. pending' = pending - 1 /\ x \in Conn
      BY <2>8 DEF Replenished, Fresh
    <3>3. CASE HandOffOrPark(c, x)
      <4>1. /\ IsFiniteSet(inUse') /\ NoIdleBesideWaiter'
            /\ Len(available') + Cardinality(inUse') <=
                 Len(available) + Cardinality(inUse) + (IF x \in inUse THEN 0 ELSE 1)
            /\ Len(available') + Cardinality(inUse') \in Nat
        BY <3>2, <3>3, CapacityHandOffOrPark
      <4> QED
        BY <1>0, <2>0, <3>2, <4>1 DEF CapacityInv, CapacityRoom, Total
    <3>4. CASE UNCHANGED <<available, inUse, waitQueue>>
      <4>1. NoIdleBesideWaiter'
        BY <3>4 DEF CapacityInv, NoIdleBesideWaiter
      <4> QED
        BY <1>0, <2>0, <3>2, <3>4, <4>1 DEF CapacityInv, CapacityRoom, Total
    <3> QED  BY <3>1, <3>3, <3>4
  <2> QED
    BY <1>1, <2>1, <2>2, <2>3, <2>4, <2>5, <2>6, <2>7, <2>8 DEF CallerStep, Settle
<1>2. CASE InitializeStart
  <2>1. /\ Quiet /\ UNCHANGED <<members, pc, conn>>
        /\ initLeft' \in Nat /\ Total + initLeft' <= MaxSize
    BY <1>2, ConstantsAssumption DEF InitializeStart, Initial, Quiet
  <2>2. NoIdleBesideWaiter' /\ Quiet'
    BY <2>1 DEF CapacityInv, NoIdleBesideWaiter, Quiet
  <2> QED
    BY <1>0, <2>1, <2>2 DEF CapacityInv, CapacityRoom, InitAlone, Total
<1>3. CASE InitializeCreated
  <2>1. PICK x \in Conn : available' = Append(available, x)
    BY <1>3 DEF InitializeCreated, Fresh
  <2>2. /\ initLeft > 0 /\ initLeft' = initLeft - 1
        /\ UNCHANGED <<inUse, waitQueue, pending, pc, conn>>
    BY <1>3 DEF InitializeCreated
  <2>3. Len(available') = Len(available) + 1
    BY <1>0, <2>1, AppendProperties DEF TypeOK
  <2>4. Quiet /\ Quiet' /\ waitQueue = <<>>
    BY <2>2, QuietQueue DEF CapacityInv, InitAlone, Quiet
  <2> QED
    BY <1>0, <2>2, <2>3, <2>4
       DEF CapacityInv, CapacityRoom, InitAlone, NoIdleBesideWaiter, Total
<1>4. CASE InitializeFailed
  <2>1. UNCHANGED <<members, pc, conn>> /\ initLeft' = 0
    BY <1>4 DEF InitializeFailed
  <2>2. NoIdleBesideWaiter' /\ InitAlone'
    BY <2>1 DEF CapacityInv, NoIdleBesideWaiter, InitAlone
  <2> QED  BY <1>0, <1>00, <2>1, <2>2, CapacityShrinks
<1>5. CASE DrainStart \/ DrainIdleClosed
  <2>1. /\ DrainIdle /\ UNCHANGED <<inUse, pending, conn, initLeft>>
        /\ waitQueue' = waitQueue \/ waitQueue' = <<>>
    BY <1>5 DEF DrainStart, DrainIdleClosed
  <2>2. Len(available') <= Len(available) /\ (available = <<>> => available' = available)
    <3>1. CASE available # <<>>
      BY <1>0, <2>1, <3>1, FrontLast DEF DrainIdle, TypeOK
    <3>2. CASE available = <<>>
      BY <1>0, <2>1, <3>2 DEF DrainIdle
    <3> QED  BY <3>1, <3>2
  <2>3. NoIdleBesideWaiter'
    BY <2>1, <2>2 DEF CapacityInv, NoIdleBesideWaiter
  <2>4. \A c \in Caller : pc[c] = "idle" => pc'[c] = "idle"
    BY <1>0, <1>5 DEF DrainStart, DrainIdleClosed, TypeOK
  <2>5. InitAlone'
    BY <2>1, <2>4 DEF CapacityInv, InitAlone, Quiet
  <2> QED  BY <1>0, <1>00, <2>1, <2>2, <2>3, <2>5, CapacityShrinks
<1>6. CASE \/ DrainWaited \/ DrainForceClosed
           \/ ProbeStart \/ ProbeCreated \/ ProbeFailed \/ ProbeClosed
           \/ UNCHANGED vars
  <2>1. /\ inUse' \subseteq inUse
        /\ UNCHANGED <<available, waitQueue, pending, pc, conn, initLeft>>
    BY <1>6 DEF DrainWaited, DrainForceClosed, DrainForce,
                ProbeStart, ProbeCreated, ProbeFailed, ProbeClosed, vars
  <2>2. NoIdleBesideWaiter' /\ InitAlone'
    BY <2>1 DEF CapacityInv, NoIdleBesideWaiter, InitAlone, Quiet
  <2> QED  BY <1>0, <1>00, <2>1, <2>2, CapacityShrinks
<1> QED
  BY <1>1, <1>2, <1>3, <1>4, <1>5, <1>6 DEF Next, DrainStep

LEMMA CapacityInvInit == Init => CapacityInv
<1> SUFFICES ASSUME Init PROVE CapacityInv
  OBVIOUS
<1>1. IsFiniteSet(inUse) /\ Cardinality(inUse) = 0 /\ Len(available) = 0
  BY FS_EmptySet DEF Init
<1> QED
  BY <1>1, ConstantsAssumption
     DEF Init, CapacityInv, InitAlone, CapacityRoom, Total, NoIdleBesideWaiter

-----------------------------------------------------------------------------
(* The queue is exact: whoever is parked is in it, so that somebody answers *)
(* the call, next to QueueInv, which says that only parked callers are.     *)

Queued(c)       == \E i \in 1..Len(waitQueue) : waitQueue[i] = c
ParkedAreQueued == \A c \in Caller : pc[c] = "parked" => Queued(c)

\* A step that keeps the queue and parks nobody.
LEMMA ParkedSame ==
  ASSUME ParkedAreQueued, waitQueue' = waitQueue,
         \A d \in Caller : pc'[d] = "parked" => pc[d] = "parked"
  PROVE  ParkedAreQueued'
BY DEF ParkedAreQueued, Queued

\* The head of the queue leaves it and is parked no more.
LEMMA ParkedTail ==
  ASSUME TypeOK, ParkedAreQueued, waitQueue # <<>>, waitQueue' = Tail(waitQueue),
         pc'[Head(waitQueue)] # "parked",
         \A d \in Caller : pc'[d] = "parked" => pc[d] = "parked"
  PROVE  ParkedAreQueued'
<1> SUFFICES ASSUME NEW d \in Caller, pc'[d] = "parked" PROVE Queued(d)'
  BY DEF ParkedAreQueued
<1>1. waitQueue \in Seq(Caller) /\ Len(waitQueue) \in Nat \ {0}
  BY EmptySeq DEF TypeOK
<1>2. /\ Head(waitQueue) = waitQueue[1] /\ Len(Tail(waitQueue)) = Len(waitQueue) - 1
      /\ \A i \in 1..Len(Tail(waitQueue)) : Tail(waitQueue)[i] = waitQueue[i + 1]
  BY <1>1, HeadTailProperties
<1>3. PICK i \in 1..Len(waitQueue) : waitQueue[i] = d
  BY DEF ParkedAreQueued, Queued
<1>4. i # 1
  BY <1>2, <1>3
<1>5. i - 1 \in 1..Len(Tail(waitQueue)) /\ Tail(waitQueue)[i - 1] = d
  BY <1>1, <1>2, <1>3, <1>4
<1> QED  BY <1>5 DEF Queued

LEMMA ParkedAcquireLoop ==
  ASSUME TypeOK, ParkedAreQueued, NEW c \in Caller, AcquireLoop(c)
  PROVE  ParkedAreQueued'
<1>1. CASE TakeIdle(c) \/ Reserve(c)
  BY <1>1, ParkedSame DEF TakeIdle, Reserve, TypeOK, PC, Reserving, Closing
<1>2. CASE Park(c)
  <2> SUFFICES ASSUME NEW d \in Caller, pc'[d] = "parked" PROVE Queued(d)'
    BY DEF ParkedAreQueued
  <2>1. /\ waitQueue' = Append(waitQueue, c) /\ Len(waitQueue) \in Nat
        /\ Len(waitQueue') = Len(waitQueue) + 1 /\ waitQueue'[Len(waitQueue) + 1] = c
        /\ \A i \in 1..Len(waitQueue) : waitQueue'[i] = waitQueue[i]
    BY <1>2, AppendProperties, LenProperties DEF Park, TypeOK
  <2>2. CASE d = c
    BY <2>1, <2>2 DEF Queued
  <2>3. CASE d # c
    <3>1. pc[d] = "parked"
      BY <1>2, <2>3 DEF Park, TypeOK
    <3>2. PICK i \in 1..Len(waitQueue) : waitQueue[i] = d
      BY <3>1 DEF ParkedAreQueued, Queued
    <3> QED  BY <2>1, <3>2 DEF Queued
  <2> QED  BY <2>2, <2>3
<1> QED  BY <1>1, <1>2 DEF AcquireLoop

LEMMA ParkedHandOffOrPark ==
  ASSUME TypeInv, ParkedAreQueued, NEW c \in Caller, NEW x, HandOffOrPark(c, x)
  PROVE  ParkedAreQueued'
<1>0. TypeOK
  BY DEF TypeInv
<1>1. CASE waitQueue = <<>>
  BY <1>0, <1>1, ParkedSame DEF HandOffOrPark, ParkIdle, TypeOK
<1>2. CASE waitQueue # <<>>
  <2> DEFINE w == Head(waitQueue)
  <2>1. w \in Caller
    BY <1>0, <1>2, QueueHead DEF TypeInv
  <2>2. waitQueue' = Tail(waitQueue) /\ pc' = [pc EXCEPT ![c] = "idle", ![w] = "holding"]
    BY <1>2 DEF HandOffOrPark, HandOff
  <2> HIDE DEF w
  <2>3. pc'[w] # "parked" /\ \A d \in Caller : pc'[d] = "parked" => pc[d] = "parked"
    BY <1>0, <2>1, <2>2 DEF TypeOK
  <2> QED  BY <1>0, <1>2, <2>2, <2>3, ParkedTail DEF w
<1> QED  BY <1>1, <1>2

LEMMA ParkedNext == TypeInv /\ ParkedAreQueued /\ [Next]_vars => ParkedAreQueued'
<1> SUFFICES ASSUME TypeInv, ParkedAreQueued, [Next]_vars PROVE ParkedAreQueued'
  OBVIOUS
<1> USE DEF members, calls, initVars, drainVars, probeVars
<1>0. TypeOK
  BY DEF TypeInv
<1>1. ASSUME NEW c \in Caller,
             PingAlive(c) \/ PingDead(c) \/ Created(c) \/ CreateFailed(c)
               \/ ReleaseClosed(c) \/ Retired(c)
      PROVE  ParkedAreQueued'
  BY <1>0, <1>1, ParkedSame
     DEF PingAlive, PingDead, Created, CreateFailed, ReleaseClosed, Retired, TypeOK
<1>2. ASSUME NEW c \in Caller, Acquire(c) \/ Discarded(c) PROVE ParkedAreQueued'
  <2>1. CASE AcquireLoop(c)
    BY <1>0, <2>1, ParkedAcquireLoop
  <2>2. CASE ~AcquireLoop(c)
    BY <1>0, <1>2, <2>2, ParkedSame DEF Acquire, Discarded, TypeOK
  <2> QED  BY <2>1, <2>2
<1>3. ASSUME NEW c \in Caller, WaitTimeout(c) PROVE ParkedAreQueued'
  <2>1. PICK i \in 1..Len(waitQueue) : /\ waitQueue[i] = c
                                       /\ waitQueue' = RemoveAt(waitQueue, i)
    BY <1>3 DEF WaitTimeout
  <2>2. /\ Len(waitQueue') = Len(waitQueue) - 1 /\ Len(waitQueue) \in Nat
        /\ \A j \in 1..Len(waitQueue) - 1 :
             waitQueue'[j] = IF j < i THEN waitQueue[j] ELSE waitQueue[j + 1]
    BY <1>0, <2>1, RemoveAtProperties, LenProperties DEF TypeOK
  <2> SUFFICES ASSUME NEW d \in Caller, pc'[d] = "parked" PROVE Queued(d)'
    BY DEF ParkedAreQueued
  <2>3. d # c /\ pc[d] = "parked"
    BY <1>0, <1>3 DEF WaitTimeout, TypeOK
  <2>4. PICK k \in 1..Len(waitQueue) : waitQueue[k] = d
    BY <2>3 DEF ParkedAreQueued, Queued
  <2>5. k # i
    BY <2>1, <2>3, <2>4
  <2>6. CASE k < i
    <3>1. k \in 1..Len(waitQueue') /\ waitQueue'[k] = d
      BY <2>2, <2>4, <2>6
    <3> QED  BY <3>1 DEF Queued
  <2>7. CASE k > i
    <3>1. k - 1 \in 1..Len(waitQueue') /\ waitQueue'[k - 1] = d
      BY <2>2, <2>4, <2>7
    <3> QED  BY <3>1 DEF Queued
  <2> QED  BY <2>5, <2>6, <2>7
<1>4. ASSUME NEW c \in Caller, Release(c) PROVE ParkedAreQueued'
  <2>1. CASE HandOffOrPark(c, conn[c])
    BY <2>1, ParkedHandOffOrPark
  <2>2. CASE ~HandOffOrPark(c, conn[c])
    BY <1>0, <1>4, <2>2, ParkedSame DEF Release, TypeOK
  <2> QED  BY <2>1, <2>2
<1>5. ASSUME NEW c \in Caller, Replenished(c) PROVE ParkedAreQueued'
  <2>1. PICK x : \/ waitQueue' = waitQueue /\ pc' = [pc EXCEPT ![c] = "closing"]
                 \/ HandOffOrPark(c, x)
    BY <1>5 DEF Replenished
  <2>2. CASE HandOffOrPark(c, x)
    BY <2>2, ParkedHandOffOrPark
  <2>3. CASE waitQueue' = waitQueue /\ pc' = [pc EXCEPT ![c] = "closing"]
    BY <1>0, <2>3, ParkedSame DEF TypeOK
  <2> QED  BY <2>1, <2>2, <2>3
<1>6. ASSUME NEW c \in Caller, ReplenishFailed(c) PROVE ParkedAreQueued'
  <2>1. CASE waitQueue = <<>>
    BY <1>0, <1>6, <2>1, ParkedSame DEF ReplenishFailed, TypeOK
  <2>2. CASE waitQueue # <<>>
    <3> DEFINE w == Head(waitQueue)
    <3>1. w \in Caller
      BY <1>0, <2>2, QueueHead DEF TypeInv
    <3>2. waitQueue' = Tail(waitQueue) /\ pc' = [pc EXCEPT ![c] = "idle", ![w] = "idle"]
      BY <1>6, <2>2 DEF ReplenishFailed
    <3> HIDE DEF w
    <3>3. pc'[w] # "parked" /\ \A d \in Caller : pc'[d] = "parked" => pc[d] = "parked"
      BY <1>0, <3>1, <3>2 DEF TypeOK
    <3> QED  BY <1>0, <2>2, <3>2, <3>3, ParkedTail DEF w
  <2> QED  BY <2>1, <2>2
<1>7. CASE DrainStart
  <2>1. \A d \in Caller : pc'[d] # "parked"
    BY <1>7 DEF DrainStart
  <2> QED  BY <2>1 DEF ParkedAreQueued
<1>8. CASE \/ InitializeStart \/ InitializeCreated \/ InitializeFailed
           \/ DrainIdleClosed \/ DrainWaited \/ DrainForceClosed
           \/ ProbeStart \/ ProbeCreated \/ ProbeFailed \/ ProbeClosed
           \/ UNCHANGED vars
  <2>1. UNCHANGED <<waitQueue, pc>>
    BY <1>8 DEF InitializeStart, InitializeCreated, InitializeFailed, DrainIdleClosed,
                DrainWaited, DrainForceClosed, ProbeStart, ProbeCreated, ProbeFailed,
                ProbeClosed, vars
  <2> QED  BY <2>1, ParkedSame
<1> QED
  BY <1>1, <1>2, <1>3, <1>4, <1>5, <1>6, <1>7, <1>8
     DEF Next, CallerStep, Settle, DrainStep

-----------------------------------------------------------------------------
\* A pool whose initialize() overlaps neither acquire() nor drain(), and is called
\* or called again only with room for all it creates, never holds more than max
\* connections, counting the slots reserved, and those are the slots of the calls
\* that await the factory.
THEOREM CapacityIsBounded ==
  ASSUME EagerInit, RoomToInit
  PROVE  Spec => []SlotsAreKept
<1>1. TypeInv /\ CapacityInv /\ [Next]_vars => TypeInv' /\ CapacityInv'
  BY TypeInvNext, CapacityInvNext
<1>2. TypeInv /\ CapacityInv => SlotsAreKept
  BY LenProperties, FS_CardinalityType, ConstantsAssumption
     DEF TypeInv, TypeOK, CapacityInv, CapacityRoom, SlotsAreKept, PendingIsReserved, Total
<1> QED
  BY <1>1, <1>2, TypeInvInit, CapacityInvInit, PTL DEF Spec

\* The queue of such a pool holds exactly the parked callers, each of them once,
\* and nobody waits while a connection lies idle.
THEOREM QueueStaysExact ==
  ASSUME EagerInit, RoomToInit
  PROVE  Spec => []QueueIsExact
<1> DEFINE Inv == TypeInv /\ CapacityInv /\ ParkedAreQueued
<1>1. Init => Inv
  BY TypeInvInit, CapacityInvInit DEF Init, ParkedAreQueued
<1>2. Inv /\ [Next]_vars => Inv'
  BY TypeInvNext, CapacityInvNext, ParkedNext
<1>3. Inv => QueueIsExact
  <2> SUFFICES ASSUME Inv PROVE QueueIsExact
    OBVIOUS
  <2>1. /\ waitQueue \in Seq(Caller) /\ DOMAIN waitQueue = 1..Len(waitQueue)
        /\ \A i \in 1..Len(waitQueue) : waitQueue[i] \in Caller
    BY LenProperties, ElementOfSeq DEF TypeInv, TypeOK
  <2>2. ToSet(waitQueue) = { c \in Caller : pc[c] = "parked" }
    BY <2>1 DEF ToSet, TypeInv, QueueInv, ParkedAreQueued, Queued
  <2>3. IsInjective(waitQueue)
    BY <2>1 DEF IsInjective, TypeInv, QueueInv
  <2> QED  BY <2>2, <2>3 DEF QueueIsExact, CapacityInv, NoIdleBesideWaiter
<1> HIDE DEF Inv
<1> QED
  BY <1>1, <1>2, <1>3, PTL DEF Spec

-----------------------------------------------------------------------------
(* Drain: nothing is left behind.  Inductive is, beside the property, that  *)
(* the flag closed and the progress of drain() agree, that nothing that     *)
(* fills the idle list is under way once it was emptied, and what drain()   *)
(* and the probe have in their hands: the forced close visits a connection  *)
(* once, so of those it has visited only the one it is closing is open.     *)

ClosedByDrain     == closed <=> drainPc # "none"
ClosedParksNobody == closed => waitQueue = <<>> /\ initLeft = 0
IdleIsDrained     == drainPc \in {"waiting", "forcing", "done"} => available = <<>>

DrainFlow == ClosedByDrain /\ ClosedParksNobody /\ IdleIsDrained

DrainHolds   == drainPc \notin {"closingIdle", "forcing"} => drainConn = NoConn
ForcedIsShut == \A x \in forced : x \in open => x = drainConn
ForcedOnly   == drainPc # "forcing" => forced = {}
ProbeHolds   == probePc # "closing" => probeConn = NoConn

DrainHands == DrainHolds /\ ForcedIsShut /\ ForcedOnly /\ ProbeHolds

Pooled   == ToSet(available) \cup inUse
OpenKept == \A x \in open : \/ x \in Pooled
                            \/ \E c \in Caller : pc[c] \in Closing /\ conn[c] = x
                            \/ x = drainConn \/ x = probeConn

DrainInv == DrainFlow /\ DrainHands /\ OpenKept

\* No call touches what drain(), initialize() and the probe keep, and on a closed
\* pool none puts a connection on the idle list or parks.
LEMMA CallersLeaveDrain ==
  ASSUME TypeOK, NEW c \in Caller, CallerStep(c)
  PROVE  /\ UNCHANGED <<closed, drainPc, drainConn, forced, initLeft, probePc, probeConn>>
         /\ closed /\ waitQueue = <<>> => UNCHANGED <<available, waitQueue>>
<1> USE DEF initVars, drainVars, probeVars
<1>1. UNCHANGED <<closed, drainPc, drainConn, forced, initLeft, probePc, probeConn>>
  BY DEF CallerStep, Settle, Acquire, PingAlive, PingDead, Discarded, Created,
         ReleaseClosed, Retired, Replenished, Release, CreateFailed,
         ReplenishFailed, WaitTimeout
<1>2. ASSUME closed, waitQueue = <<>> PROVE UNCHANGED <<available, waitQueue>>
  <2>1. CASE Settle(c)
    BY <1>2, <2>1 DEF Settle, PingAlive, PingDead, Discarded, Created, ReleaseClosed,
                      Retired, Replenished, members
  <2>2. CASE WaitTimeout(c)
    <3>1. Len(waitQueue) = 0
      BY <1>2
    <3> QED  BY <2>2, <3>1 DEF WaitTimeout
  <2>3. CASE Acquire(c) \/ Release(c) \/ CreateFailed(c) \/ ReplenishFailed(c)
    BY <1>2, <2>3 DEF Acquire, Release, CreateFailed, ReplenishFailed
  <2> QED  BY <2>1, <2>2, <2>3 DEF CallerStep
<1> QED  BY <1>1, <1>2

LEMMA DrainFlowNext ==
  ASSUME EagerInit, TypeInv, DrainFlow, [Next]_vars
  PROVE  DrainFlow'
<1> USE DEF DrainFlow, ClosedByDrain, ClosedParksNobody, IdleIsDrained, members, calls,
            initVars, drainVars, probeVars
<1>0. TypeOK
  BY DEF TypeInv
<1>1. ASSUME NEW c \in Caller, CallerStep(c) PROVE DrainFlow'
  BY <1>0, <1>1, CallersLeaveDrain
<1>2. CASE InitializeStart \/ InitializeCreated \/ InitializeFailed
  BY <1>0, <1>2 DEF InitializeStart, InitializeCreated, InitializeFailed, TypeOK
<1>3. CASE DrainStart \/ DrainIdleClosed
  BY <1>0, <1>3 DEF DrainStart, DrainIdleClosed, DrainIdle
<1>4. CASE DrainWaited \/ DrainForceClosed
  BY <1>4 DEF DrainWaited, DrainForceClosed, DrainForce
<1>5. CASE ProbeStart \/ ProbeCreated \/ ProbeFailed \/ ProbeClosed \/ UNCHANGED vars
  BY <1>5 DEF ProbeStart, ProbeCreated, ProbeFailed, ProbeClosed, vars
<1> QED
  BY <1>1, <1>2, <1>3, <1>4, <1>5 DEF Next, DrainStep

\* What becomes open was nobody's, nothing the forced close has visited included.
LEMMA OpenGrows ==
  ASSUME [Next]_vars
  PROVE  open' \subseteq open \cup Fresh
<1> USE DEF members, calls, initVars, drainVars, probeVars
<1>1. ASSUME NEW c \in Caller, CallerStep(c) PROVE open' \subseteq open \cup Fresh
  BY <1>1 DEF CallerStep, Settle, Acquire, PingAlive, PingDead, Discarded, Created,
              ReleaseClosed, Retired, Replenished, Release, CreateFailed,
              ReplenishFailed, WaitTimeout
<1>2. CASE \/ InitializeStart \/ InitializeCreated \/ InitializeFailed \/ DrainStep
           \/ ProbeStart \/ ProbeCreated \/ ProbeFailed \/ ProbeClosed \/ UNCHANGED vars
  BY <1>2 DEF InitializeStart, InitializeCreated, InitializeFailed, DrainStep, DrainStart,
              DrainIdleClosed, DrainWaited, DrainForceClosed, ProbeStart, ProbeCreated,
              ProbeFailed, ProbeClosed, vars
<1> QED  BY <1>1, <1>2 DEF Next

LEMMA DrainHandsNext ==
  ASSUME TypeInv, DrainHands, [Next]_vars
  PROVE  DrainHands'
<1> USE DEF DrainHands, DrainHolds, ForcedIsShut, ForcedOnly, ProbeHolds, members, calls,
            initVars, drainVars, probeVars
<1>0. TypeOK /\ open' \subseteq open \cup Fresh
  BY OpenGrows DEF TypeInv
<1>1. \A x \in Fresh : x \notin forced
  BY DEF Fresh
<1>2. ASSUME NEW c \in Caller, CallerStep(c) PROVE DrainHands'
  BY <1>0, <1>1, <1>2, CallersLeaveDrain
<1>3. CASE \/ InitializeStart \/ InitializeCreated \/ InitializeFailed \/ UNCHANGED vars
  BY <1>0, <1>1, <1>3 DEF InitializeStart, InitializeCreated, InitializeFailed, vars
<1>4. CASE DrainStart \/ DrainIdleClosed
  BY <1>0, <1>4 DEF DrainStart, DrainIdleClosed, DrainIdle
<1>5. CASE DrainWaited \/ DrainForceClosed
  BY <1>0, <1>5 DEF DrainWaited, DrainForceClosed, DrainForce
<1>6. CASE ProbeStart \/ ProbeCreated \/ ProbeFailed \/ ProbeClosed
  BY <1>0, <1>1, <1>6 DEF ProbeStart, ProbeCreated, ProbeFailed, ProbeClosed
<1> QED
  BY <1>2, <1>3, <1>4, <1>5, <1>6 DEF Next, DrainStep

\* The step of a call keeps every open connection: what leaves the pool is in the
\* hands of the call, what it had in its hands is closed, and the other calls
\* that are closing something go on.
LEMMA OpenKeptByCaller ==
  ASSUME OpenKept, NEW c \in Caller, UNCHANGED <<drainConn, probeConn>>,
         \A d \in Caller \ {c} : pc[d] \in Closing => pc'[d] = pc[d] /\ conn'[d] = conn[d],
         \A x \in Pooled \cup (open' \ open) :
           x \in Pooled' \/ (pc'[c] \in Closing /\ conn'[c] = x),
         pc[c] \in Closing => conn[c] \notin open'
  PROVE  OpenKept'
BY DEF OpenKept

\* A connection popped from the idle list is issued or closed by the call.
LEMMA AcquireLoopKeeps ==
  ASSUME TypeOK, NEW c \in Caller, AcquireLoop(c)
  PROVE  /\ \A x \in Pooled : x \in Pooled' \/ (pc'[c] \in Closing /\ conn'[c] = x)
         /\ \A d \in Caller \ {c} : pc'[d] = pc[d] /\ conn'[d] = conn[d]
<1>1. CASE TakeIdle(c)
  <2>1. /\ available # <<>> /\ available' = Front(available)
        /\ conn'[c] = Last(available)
        /\ \/ pc'[c] = "discarding" /\ inUse' = inUse
           \/ inUse' = inUse \cup {Last(available)}
        /\ \A d \in Caller \ {c} : pc'[d] = pc[d] /\ conn'[d] = conn[d]
    BY <1>1 DEF TakeIdle, TypeOK
  <2>2. ToSet(available') \cup {Last(available)} = ToSet(available)
    BY <2>1, EndEntries DEF TypeOK
  <2> QED  BY <2>1, <2>2 DEF Pooled, Closing
<1>2. CASE Reserve(c) \/ Park(c)
  BY <1>2 DEF Reserve, Park, Pooled, TypeOK
<1> QED  BY <1>1, <1>2 DEF AcquireLoop

LEMMA HandOffOrParkKeeps ==
  ASSUME TypeInv, NEW c \in Caller, NEW x \in Conn, HandOffOrPark(c, x)
  PROVE  /\ Pooled \cup {x} \subseteq Pooled'
         /\ \A d \in Caller \ {c} :
              pc[d] \in Closing => pc'[d] = pc[d] /\ conn'[d] = conn[d]
<1>0. TypeOK
  BY DEF TypeInv
<1>1. CASE waitQueue # <<>> /\ HandOff(c, x) /\ UNCHANGED available
  <2>1. Head(waitQueue) \in Caller /\ pc[Head(waitQueue)] = "parked"
    BY <1>1, QueueHead DEF TypeInv
  <2> DEFINE w == Head(waitQueue)
  <2>2. /\ inUse' = inUse \cup {x} /\ available' = available
        /\ pc' = [pc EXCEPT ![c] = "idle", ![w] = "holding"]
        /\ conn' = [conn EXCEPT ![c] = Left(c), ![w] = x]
    BY <1>1 DEF HandOff
  <2> HIDE DEF w
  <2>3. \A d \in Caller \ {c, w} : pc'[d] = pc[d] /\ conn'[d] = conn[d]
    BY <1>0, <2>2 DEF TypeOK
  <2>4. pc[w] \notin Closing
    BY <2>1 DEF Closing, w
  <2> QED  BY <2>2, <2>3, <2>4 DEF Pooled
<1>2. CASE waitQueue = <<>> /\ ParkIdle(c, x)
  <2>1. /\ available' = Append(available, x) /\ inUse' = inUse \ {x}
        /\ \A d \in Caller \ {c} : pc'[d] = pc[d] /\ conn'[d] = conn[d]
    BY <1>0, <1>2 DEF ParkIdle, TypeOK
  <2>2. ToSet(available') = ToSet(available) \cup {x}
    BY <1>0, <2>1, EndEntries DEF TypeOK
  <2> QED  BY <2>1, <2>2 DEF Pooled
<1> QED  BY <1>1, <1>2 DEF HandOffOrPark

LEMMA OpenKeptCaller ==
  ASSUME TypeInv, OpenKept, NEW c \in Caller, CallerStep(c)
  PROVE  OpenKept'
<1> USE DEF members, calls, initVars, drainVars, probeVars
<1>0. TypeOK /\ UNCHANGED <<drainConn, probeConn>>
  BY CallersLeaveDrain DEF TypeInv
<1>1. CASE Acquire(c)
  <2>1. AcquireLoop(c) /\ open' = open /\ pc[c] \notin Closing
    BY <1>1 DEF Acquire, Closing
  <2> QED  BY <1>0, <2>1, AcquireLoopKeeps, OpenKeptByCaller
<1>2. CASE Discarded(c)
  <2>1. open' = open \ {conn[c]}
    BY <1>2 DEF Discarded
  <2>2. CASE AcquireLoop(c)
    BY <1>0, <2>1, <2>2, AcquireLoopKeeps, OpenKeptByCaller
  <2>3. CASE ~AcquireLoop(c)
    <3>1. /\ \A d \in Caller \ {c} : pc'[d] = pc[d] /\ conn'[d] = conn[d]
          /\ Pooled' = Pooled
      BY <1>0, <1>2, <2>3 DEF Discarded, Pooled, TypeOK
    <3> QED  BY <1>0, <2>1, <3>1, OpenKeptByCaller
  <2> QED  BY <2>2, <2>3
<1>3. CASE Release(c)
  <2>1. open' = open /\ pc[c] \notin Closing
    BY <1>3 DEF Release, Closing
  <2>2. CASE conn[c] \in inUse /\ HandOffOrPark(c, conn[c])
    <3>1. conn[c] \in Conn
      BY <1>0, <2>2 DEF TypeOK
    <3> QED  BY <1>0, <2>1, <2>2, <3>1, HandOffOrParkKeeps, OpenKeptByCaller
  <2>3. CASE ~(conn[c] \in inUse /\ HandOffOrPark(c, conn[c]))
    <3>1. /\ \A d \in Caller \ {c} : pc'[d] = pc[d] /\ conn'[d] = conn[d]
          /\ available' = available
          /\ \/ inUse' = inUse
             \/ inUse' = inUse \ {conn[c]} /\ pc'[c] \in Closing /\ conn'[c] = conn[c]
      BY <1>0, <1>3, <2>3 DEF Release, Closing, TypeOK
    <3>2. \A x \in Pooled : x \in Pooled' \/ (pc'[c] \in Closing /\ conn'[c] = x)
      BY <3>1 DEF Pooled
    <3> QED  BY <1>0, <2>1, <3>1, <3>2, OpenKeptByCaller
  <2> QED  BY <2>2, <2>3
<1>4. CASE Replenished(c)
  <2>1. PICK x \in Fresh :
          /\ open' = open \cup {x}
          /\ \/ /\ pc' = [pc EXCEPT ![c] = "closing"]
                /\ conn' = [conn EXCEPT ![c] = x]
                /\ UNCHANGED <<available, inUse>>
             \/ HandOffOrPark(c, x)
    BY <1>4 DEF Replenished
  <2>2. x \in Conn /\ pc[c] \notin Closing
    BY <1>4 DEF Replenished, Fresh, Closing
  <2>3. CASE HandOffOrPark(c, x)
    BY <1>0, <2>1, <2>2, <2>3, HandOffOrParkKeeps, OpenKeptByCaller
  <2>4. CASE ~HandOffOrPark(c, x)
    <3>1. /\ \A d \in Caller \ {c} : pc'[d] = pc[d] /\ conn'[d] = conn[d]
          /\ Pooled' = Pooled /\ pc'[c] \in Closing /\ conn'[c] = x
      BY <1>0, <2>1, <2>4 DEF Pooled, Closing, TypeOK
    <3> QED  BY <1>0, <2>1, <2>2, <3>1, OpenKeptByCaller
  <2> QED  BY <2>1, <2>3, <2>4
<1>5. CASE Created(c)
  <2>1. PICK x \in Fresh : open' = open \cup {x} /\ inUse' = inUse \cup {x}
    BY <1>5 DEF Created
  <2>2. /\ \A d \in Caller \ {c} : pc'[d] = pc[d] /\ conn'[d] = conn[d]
        /\ available' = available /\ pc[c] \notin Closing
    BY <1>0, <1>5 DEF Created, Closing, TypeOK
  <2>3. Pooled' = Pooled \cup {x}
    BY <2>1, <2>2 DEF Pooled
  <2> QED  BY <1>0, <2>1, <2>2, <2>3, OpenKeptByCaller
<1>6. CASE PingDead(c)
  <2>1. /\ \A d \in Caller \ {c} : pc'[d] = pc[d] /\ conn'[d] = conn[d]
        /\ available' = available /\ inUse' = inUse \ {conn[c]}
        /\ pc[c] \notin Closing /\ pc'[c] \in Closing /\ conn'[c] = conn[c]
        /\ open' = open
    BY <1>0, <1>6 DEF PingDead, Closing, TypeOK
  <2>2. \A x \in Pooled : x \in Pooled' \/ (pc'[c] \in Closing /\ conn'[c] = x)
    BY <2>1 DEF Pooled
  <2> QED  BY <1>0, <2>1, <2>2, OpenKeptByCaller
<1>7. CASE PingAlive(c) \/ CreateFailed(c) \/ ReleaseClosed(c) \/ Retired(c)
  <2>1. /\ \A d \in Caller \ {c} : pc'[d] = pc[d] /\ conn'[d] = conn[d]
        /\ UNCHANGED <<available, inUse>> /\ open' \subseteq open
        /\ pc[c] \in Closing => open' = open \ {conn[c]}
    BY <1>0, <1>7
       DEF PingAlive, CreateFailed, ReleaseClosed, Retired, Closing, TypeOK
  <2>2. Pooled' = Pooled
    BY <2>1 DEF Pooled
  <2> QED  BY <1>0, <2>1, <2>2, OpenKeptByCaller
<1>8. CASE WaitTimeout(c) \/ ReplenishFailed(c)
  <2>1. \A d \in Caller : pc[d] \in Closing => pc'[d] = pc[d]
    <3>1. CASE WaitTimeout(c)
      BY <1>0, <3>1 DEF WaitTimeout, TypeInv, QueueInv, Closing, TypeOK
    <3>2. CASE ReplenishFailed(c) /\ waitQueue = <<>>
      BY <1>0, <3>2 DEF ReplenishFailed, Closing, TypeOK
    <3>3. CASE ReplenishFailed(c) /\ waitQueue # <<>>
      <4> DEFINE w == Head(waitQueue)
      <4>1. w \in Caller /\ pc[w] = "parked"
        BY <3>3, QueueHead DEF TypeInv
      <4>2. pc' = [pc EXCEPT ![c] = "idle", ![w] = "idle"] /\ pc[c] = "replenishing"
        BY <3>3 DEF ReplenishFailed
      <4> HIDE DEF w
      <4> QED  BY <1>0, <4>1, <4>2 DEF Closing, TypeOK
    <3> QED  BY <1>8, <3>1, <3>2, <3>3
  <2>2. UNCHANGED <<available, inUse, conn, open>>
    BY <1>8 DEF WaitTimeout, ReplenishFailed
  <2>3. pc[c] \notin Closing
    BY <1>8 DEF WaitTimeout, ReplenishFailed, TypeInv, QueueInv, Closing
  <2>4. Pooled' = Pooled
    BY <2>2 DEF Pooled
  <2> QED  BY <1>0, <2>1, <2>2, <2>3, <2>4, OpenKeptByCaller
<1> QED
  BY <1>1, <1>2, <1>3, <1>4, <1>5, <1>6, <1>7, <1>8 DEF CallerStep, Settle

LEMMA OpenKeptNext ==
  ASSUME TypeInv, DrainHands, OpenKept, [Next]_vars
  PROVE  OpenKept'
<1> USE DEF members, calls, initVars, drainVars, probeVars
<1>0. TypeOK /\ open \subseteq Conn /\ NoConn \notin Conn
  BY ConstantsAssumption DEF TypeInv, TypeOK
<1>1. ASSUME NEW c \in Caller, CallerStep(c) PROVE OpenKept'
  BY <1>1, OpenKeptCaller
<1>2. CASE InitializeCreated
  <2>1. PICK x \in Fresh : open' = open \cup {x} /\ available' = Append(available, x)
    BY <1>2 DEF InitializeCreated
  <2>2. ToSet(available') = ToSet(available) \cup {x}
    BY <1>0, <2>1, EndEntries DEF TypeOK, Fresh
  <2>3. UNCHANGED <<inUse, pc, conn, drainConn, probeConn>>
    BY <1>2 DEF InitializeCreated
  <2> QED  BY <2>1, <2>2, <2>3 DEF OpenKept, Pooled
<1>3. CASE DrainStart \/ DrainIdleClosed
  <2>1. /\ DrainIdle /\ UNCHANGED <<inUse, conn, probeConn>>
        /\ open' = open \ {drainConn}
    BY <1>0, <1>3 DEF DrainStart, DrainIdleClosed, DrainHands, DrainHolds
  <2>2. \A c \in Caller : pc[c] \in Closing => pc'[c] = pc[c]
    BY <1>0, <1>3 DEF DrainStart, DrainIdleClosed, Closing, TypeOK
  <2>3. \A x \in ToSet(available) : x \in ToSet(available') \/ x = drainConn'
    <3>1. CASE available = <<>>
      BY <2>1, <3>1 DEF DrainIdle
    <3>2. CASE available # <<>>
      BY <1>0, <2>1, <3>2, EndEntries DEF DrainIdle, TypeOK
    <3> QED  BY <3>1, <3>2
  <2> QED  BY <2>1, <2>2, <2>3 DEF OpenKept, Pooled
<1>4. CASE DrainWaited \/ DrainForceClosed
  <2>1. /\ DrainForce /\ UNCHANGED <<available, pc, conn, probeConn>>
        /\ open' = open \ {drainConn}
    BY <1>0, <1>4 DEF DrainWaited, DrainForceClosed, DrainHands, DrainHolds
  <2>2. \A x \in open' : x \in inUse => x \in inUse'
    BY <2>1 DEF DrainForce, DrainHands, ForcedIsShut
  <2> QED  BY <2>1, <2>2 DEF OpenKept, Pooled
<1>5. CASE ProbeStart \/ ProbeCreated \/ ProbeFailed \/ ProbeClosed
  <2>1. /\ UNCHANGED <<available, inUse, pc, conn, drainConn>>
        /\ \A x \in open' : x \in open \/ x = probeConn'
        /\ \A x \in open' : x = probeConn => x = probeConn'
    BY <1>0, <1>5 DEF ProbeStart, ProbeCreated, ProbeFailed, ProbeClosed, DrainHands,
                      ProbeHolds, Fresh
  <2> QED  BY <2>1 DEF OpenKept, Pooled
<1>6. CASE InitializeStart \/ InitializeFailed \/ UNCHANGED vars
  <2>1. UNCHANGED <<available, inUse, pc, conn, drainConn, probeConn, open>>
    BY <1>6 DEF InitializeStart, InitializeFailed, vars
  <2> QED  BY <2>1 DEF OpenKept, Pooled
<1> QED
  BY <1>1, <1>2, <1>3, <1>4, <1>5, <1>6 DEF Next, DrainStep

\* A closed pool parks nobody, a drained one has no idle connection, and no step of
\* a call, of drain() or of the probe loses an open connection, whatever they
\* interleave with.
THEOREM DrainLosesNothing ==
  ASSUME EagerInit
  PROVE  Spec => []NothingIsLeftBehind
<1> DEFINE Inv == TypeInv /\ DrainInv
<1>1. Init => Inv
  BY TypeInvInit
     DEF Init, DrainInv, DrainFlow, ClosedByDrain, ClosedParksNobody, IdleIsDrained,
         DrainHands, DrainHolds, ForcedIsShut, ForcedOnly, ProbeHolds, OpenKept
<1>2. Inv /\ [Next]_vars => Inv'
  BY TypeInvNext, DrainFlowNext, DrainHandsNext, OpenKeptNext DEF DrainInv
<1>3. Inv => NothingIsLeftBehind
  BY DEF DrainInv, DrainFlow, ClosedParksNobody, IdleIsDrained, OpenKept, Pooled,
         NothingIsLeftBehind
<1> HIDE DEF Inv
<1> QED
  BY <1>1, <1>2, <1>3, PTL DEF Spec

-----------------------------------------------------------------------------
(* The pool implements Lease.  The simulation needs to know that a free      *)
(* slot of the pool is a free slot of the lease.  While the pool is open the *)
(* borrowers' connections are among the issued ones; the forced close        *)
(* forgets those, and a factory that answers later still issues one, so the  *)
(* borrowers are counted beside the reserved slots.                          *)

Borrowers    == { c \in Caller : Using(c) }
UsedIsIssued == ~closed => \A c \in Caller : Using(c) => conn[c] \in inUse
LeaseRoom    == Cardinality(Borrowers) + pending <= MaxSize
LeaseInv     == UsedIsIssued /\ LeaseRoom

\* Users of distinct items of a set are no more than the set.
LEMMA DistinctItemsFit ==
  ASSUME NEW B, NEW f, NEW S, IsFiniteSet(S),
         \A b \in B : f[b] \in S,
         \A a, b \in B : f[a] = f[b] => a = b
  PROVE  IsFiniteSet(B) /\ Cardinality(B) <= Cardinality(S)
<1> DEFINE g == [b \in B |-> f[b]]
<1>1. g \in Injection(B, S)
  BY DEF Injection, IsInjective
<1> HIDE DEF g
<1> QED  BY <1>1, FS_Injection

\* What a hand-over or a parking does to the calls: at most the waiter gains.
LEMMA HandOffOrParkIssues ==
  ASSUME TypeInv, ExclusiveInv, NEW c \in Caller, NEW x \in Conn,
         HandOffOrPark(c, x), pc[c] # "parked"
  PROVE  /\ ~Using(c)'
         /\ \A d \in Caller \ {c} : Using(d)' =>
              \/ Using(d) /\ conn'[d] = conn[d]
              \/ waitQueue # <<>> /\ d = Head(waitQueue) /\ conn'[d] = x
         /\ \A d \in Caller \ {c} : Using(d) => Using(d)'
         /\ waitQueue # <<>> => /\ x \in inUse'
                                /\ \E w \in Caller \ {c} : /\ w = Head(waitQueue)
                                                          /\ ~Using(w) /\ Using(w)'
                                                          /\ conn'[w] = x
         /\ inUse \ {x} \subseteq inUse'
<1> USE DEF Using
<1>0. TypeOK
  BY DEF TypeInv
<1>1. CASE waitQueue # <<>> /\ HandOff(c, x) /\ UNCHANGED available
  <2>1. PICK w \in Caller \ {c} : w = Head(waitQueue) /\ pc[w] = "parked"
    BY <1>1, QueueHead DEF TypeInv
  <2>2. /\ pc' = [pc EXCEPT ![c] = "idle", ![w] = "holding"]
        /\ conn' = [conn EXCEPT ![c] = Left(c), ![w] = x]
        /\ inUse' = inUse \cup {x}
    BY <1>1, <2>1 DEF HandOff
  <2>3. /\ \A d \in Caller \ {c, w} : conn'[d] = conn[d] /\ pc'[d] = pc[d]
        /\ pc'[c] = "idle" /\ pc'[w] = "holding" /\ conn'[w] = x
    BY <1>0, <2>1, <2>2 DEF TypeOK
  <2>4. /\ ~Using(c)' /\ ~Using(w) /\ Using(w)'
        /\ \A d \in Caller \ {c, w} : (Using(d)' <=> Using(d)) /\ conn'[d] = conn[d]
    BY <2>1, <2>3
  <2> QED  BY <1>1, <2>1, <2>2, <2>3, <2>4
<1>2. CASE waitQueue = <<>> /\ ParkIdle(c, x)
  BY <1>0, <1>2 DEF ParkIdle, TypeOK
<1> QED  BY <1>1, <1>2 DEF HandOffOrPark

LEMMA UsedIsIssuedNext ==
  ASSUME ~DoubleRelease, TypeInv, ExclusiveInv, DrainFlow, UsedIsIssued, [Next]_vars
  PROVE  UsedIsIssued'
<1> SUFFICES ASSUME ~closed' PROVE \A d \in Caller : Using(d)' => conn'[d] \in inUse'
  BY DEF UsedIsIssued
<1> USE DEF Using, members, calls, initVars, drainVars, probeVars
<1>0. TypeOK
  BY DEF TypeInv
<1>1. ASSUME NEW c \in Caller, CallerStep(c)
      PROVE  \A d \in Caller : Using(d)' => conn'[d] \in inUse'
  <2>0. ~closed /\ \A d \in Caller : Using(d) => conn[d] \in inUse
    BY <1>0, <1>1, CallersLeaveDrain DEF UsedIsIssued
  <2>00. \A d \in Caller \ {c} : Using(d) /\ conn[d] = conn[c] => ~Using(c)
    BY ConstantsAssumption DEF ExclusiveInv, RefersAlone, RefersToConn
  <2>1. CASE AcquireLoop(c)
    BY <1>0, <2>0, <2>1 DEF AcquireLoop, TakeIdle, Reserve, Park, TypeOK
  <2>2. CASE PingDead(c)
    BY <1>0, <2>0, <2>00, <2>2 DEF PingDead, TypeOK
  <2>3. CASE Release(c) /\ ~HandOffOrPark(c, conn[c])
    BY <1>0, <2>0, <2>00, <2>3 DEF Release, TypeOK
  <2>4. CASE Release(c) /\ HandOffOrPark(c, conn[c])
    <3>1. conn[c] \in Conn /\ pc[c] = "holding"
      BY <2>4 DEF Release, ExclusiveInv, RefersToConn
    <3> QED  BY <2>0, <2>00, <2>4, <3>1, HandOffOrParkIssues
  <2>5. CASE Created(c)
    BY <1>0, <2>0, <2>5 DEF Created, TypeOK
  <2>6. CASE Replenished(c)
    <3>1. PICK x \in Fresh : HandOffOrPark(c, x)
      BY <2>0, <2>6 DEF Replenished
    <3>2. x \in Conn /\ \A d \in Caller : conn[d] # x
      BY DEF Fresh
    <3>3. pc[c] # "parked"
      BY <2>6 DEF Replenished
    <3> QED  BY <2>0, <3>1, <3>2, <3>3, HandOffOrParkIssues
  <2>7. CASE \/ PingAlive(c) \/ CreateFailed(c) \/ ReleaseClosed(c) \/ Retired(c)
    BY <1>0, <2>0, <2>7 DEF PingAlive, CreateFailed, ReleaseClosed, Retired, TypeOK
  <2>8. CASE WaitTimeout(c) \/ ReplenishFailed(c)
    <3>1. waitQueue # <<>> => Head(waitQueue) \in Caller
      BY <1>0, QueueHead DEF TypeInv
    <3>2. /\ inUse' = inUse /\ conn' = conn
          /\ \A d \in Caller : pc'[d] = pc[d] \/ pc'[d] = "idle"
      BY <1>0, <2>8, <3>1 DEF WaitTimeout, ReplenishFailed, TypeOK
    <3> QED  BY <2>0, <3>2
  <2> QED
    BY <1>1, <2>0, <2>1, <2>2, <2>3, <2>4, <2>5, <2>6, <2>7, <2>8
       DEF CallerStep, Settle, Acquire, Discarded
<1>2. CASE DrainStep
  BY <1>2 DEF DrainStep, DrainStart, DrainIdleClosed, DrainWaited, DrainForceClosed,
              DrainFlow, ClosedByDrain
<1>3. CASE \/ InitializeStart \/ InitializeCreated \/ InitializeFailed
           \/ ProbeStart \/ ProbeCreated \/ ProbeFailed \/ ProbeClosed \/ UNCHANGED vars
  <2>1. UNCHANGED <<closed, inUse, pc, conn>>
    BY <1>3 DEF InitializeStart, InitializeCreated, InitializeFailed, ProbeStart,
                ProbeCreated, ProbeFailed, ProbeClosed, vars
  <2> QED  BY <2>1 DEF UsedIsIssued
<1> QED  BY <1>1, <1>2, <1>3 DEF Next

\* On an open pool the room for borrowers follows from the capacity: each has an
\* issued connection of its own.
LEMMA BorrowersAreIssued ==
  ASSUME TypeInv, ExclusiveInv, CapacityInv, UsedIsIssued, ~closed
  PROVE  /\ Cardinality(Borrowers) \in Nat
         /\ Cardinality(Borrowers) <= Cardinality(inUse)
<1>1. \A c \in Borrowers : conn[c] \in inUse /\ conn[c] # NoConn
  BY ConstantsAssumption DEF Borrowers, UsedIsIssued, ExclusiveInv, RefersToConn
<1>2. \A c, d \in Borrowers : conn[c] = conn[d] => c = d
  BY <1>1 DEF Borrowers, ExclusiveInv, RefersAlone
<1> QED
  BY <1>1, <1>2, DistinctItemsFit, FS_CardinalityType DEF CapacityInv, CapacityRoom

LEMMA LeaseRoomOpen ==
  TypeInv /\ ExclusiveInv /\ CapacityInv /\ UsedIsIssued /\ ~closed => LeaseRoom
BY BorrowersAreIssued, LenProperties, FS_CardinalityType, ConstantsAssumption
   DEF TypeInv, TypeOK, CapacityInv, CapacityRoom, Total, LeaseRoom

\* A closed pool grants only the slots that were reserved before.
LEMMA LeaseRoomClosed ==
  ASSUME ~DoubleRelease, TypeInv, ExclusiveInv, DrainFlow, LeaseRoom, [Next]_vars, closed'
  PROVE  LeaseRoom'
<1> USE DEF Using, members, calls, initVars, drainVars, probeVars, LeaseRoom
<1>0. TypeOK /\ pending \in Nat /\ MaxSize \in Nat
  BY ConstantsAssumption DEF TypeInv, TypeOK
<1>1. ASSUME NEW c \in Caller, CallerStep(c) PROVE LeaseRoom'
  <2>1. closed /\ waitQueue = <<>>
    BY <1>0, <1>1, CallersLeaveDrain DEF DrainFlow, ClosedParksNobody
  <2>2. ~WaitTimeout(c)
    <3>1. Len(waitQueue) = 0
      BY <2>1
    <3> QED  BY <3>1 DEF WaitTimeout
  <2>3. \A d \in Caller \ {c} : pc'[d] = pc[d]
    BY <1>0, <1>1, <2>1, <2>2
       DEF CallerStep, Settle, Acquire, PingAlive, PingDead, Discarded, Created,
           ReleaseClosed, Retired, Replenished, Release, CreateFailed,
           ReplenishFailed, TypeOK
  <2>4. \/ Using(c)' /\ ~Using(c) /\ pending' = pending - 1
        \/ (Using(c)' => Using(c)) /\ pending' \in {pending, pending - 1}
    BY <1>0, <1>1, <2>1, <2>2
       DEF CallerStep, Settle, Acquire, PingAlive, PingDead, Discarded, Created,
           ReleaseClosed, Retired, Replenished, Release, CreateFailed,
           ReplenishFailed, TypeOK
  <2>5. /\ Cardinality(Borrowers) \in Nat
        /\ Cardinality(Borrowers') = Cardinality(Borrowers)
             + (IF Using(c)' THEN 1 ELSE 0) - (IF Using(c) THEN 1 ELSE 0)
    <3> DEFINE P == {"pinging", "holding"}
    <3>1. \A d \in Caller \ {c} : pc'[d] \in P <=> pc[d] \in P
      BY <2>3
    <3>2. /\ Borrowers = { d \in Caller : pc[d] \in P }
          /\ Borrowers' = { d \in Caller : pc'[d] \in P }
      BY DEF Borrowers
    <3> HIDE DEF P
    <3>3. /\ Cardinality(Borrowers) \in Nat
          /\ Cardinality(Borrowers') = Cardinality(Borrowers)
               + (IF pc'[c] \in P THEN 1 ELSE 0) - (IF pc[c] \in P THEN 1 ELSE 0)
      BY <3>1, <3>2, CountChange
    <3> QED  BY <3>3 DEF P
  <2> QED  BY <1>0, <2>4, <2>5
<1>2. CASE ~\E c \in Caller : CallerStep(c)
  <2>1. /\ \A d \in Caller : Using(d)' <=> Using(d)
        /\ pending' = pending
    BY <1>0, <1>2
       DEF Next, InitializeStart, InitializeCreated, InitializeFailed, DrainStep, DrainStart,
           DrainIdleClosed, DrainWaited, DrainForceClosed, ProbeStart, ProbeCreated,
           ProbeFailed, ProbeClosed, vars, TypeOK
  <2>2. Borrowers' = Borrowers
    BY <2>1 DEF Borrowers
  <2> QED  BY <2>1, <2>2
<1> QED  BY <1>1, <1>2

LEMMA LeaseInvNext ==
  ASSUME EagerInit, RoomToInit, ~DoubleRelease, TypeInv, ExclusiveInv, CapacityInv, DrainFlow,
         LeaseInv, [Next]_vars
  PROVE  LeaseInv'
<1>1. UsedIsIssued'
  BY UsedIsIssuedNext DEF LeaseInv
<1>2. TypeInv' /\ ExclusiveInv' /\ CapacityInv'
  BY TypeInvNext, ExclusiveInvNext, CapacityInvNext
<1>3. (TypeInv /\ ExclusiveInv /\ CapacityInv /\ UsedIsIssued /\ ~closed => LeaseRoom)'
  BY LeaseRoomOpen, PTL
<1>4. CASE ~closed'
  BY <1>1, <1>2, <1>3, <1>4 DEF LeaseInv
<1>5. CASE closed'
  BY <1>1, <1>5, LeaseRoomClosed DEF LeaseInv
<1> QED  BY <1>4, <1>5

\* An instance of Lease counts as this module does.
LEMMA LeaseCounts == \A S : L!Cardinality(S) = Cardinality(S)
BY DEF L!Cardinality, Cardinality

\* What the lease shows: the borrowers, each with its connection.
LEMMA LeaseReads ==
  ASSUME TypeInv, ExclusiveInv
  PROVE  /\ leaseOf \in [Caller -> Conn \cup {NoConn}]
         /\ \A c \in Caller : leaseOf[c] # NoConn <=> Using(c)
         /\ \A c \in Caller : Using(c) => leaseOf[c] = conn[c]
         /\ L!Users(leaseOf) = Borrowers
<1>1. \A c \in Caller : Using(c) => conn[c] \in Conn /\ conn[c] # NoConn
  BY ConstantsAssumption DEF ExclusiveInv, RefersToConn
<1>2. /\ leaseOf \in [Caller -> Conn \cup {NoConn}]
      /\ \A c \in Caller : leaseOf[c] = IF Using(c) THEN conn[c] ELSE NoConn
  BY <1>1 DEF leaseOf
<1>3. L!Users(leaseOf) = { c \in Caller : leaseOf[c] # NoConn }
  BY DEF L!Users
<1> QED  BY <1>1, <1>2, <1>3 DEF Borrowers

\* A step that changes nobody's use of a connection.
LEMMA LeaseStutters ==
  ASSUME \A d \in Caller : /\ Using(d)' <=> Using(d)
                           /\ Using(d) => conn'[d] = conn[d]
  PROVE  UNCHANGED leaseOf
<1>1. \A d \in Caller : (IF Using(d) THEN conn[d] ELSE NoConn)'
                          = IF Using(d) THEN conn[d] ELSE NoConn
  OBVIOUS
<1> QED  BY <1>1 DEF leaseOf

\* The caller whose step ends its use returns the connection.
LEMMA LeaseReturns ==
  ASSUME TypeInv, ExclusiveInv, NEW c \in Caller, Using(c), ~Using(c)',
         \A d \in Caller \ {c} : /\ Using(d)' <=> Using(d)
                                 /\ Using(d) => conn'[d] = conn[d]
  PROVE  L!Next
<1>1. \A d \in Caller : (IF Using(d) THEN conn[d] ELSE NoConn)'
                          = IF d = c THEN NoConn ELSE leaseOf[d]
  BY DEF leaseOf
<1>2. leaseOf' = [leaseOf EXCEPT ![c] = NoConn]
  BY <1>1, LeaseReads DEF leaseOf
<1>3. L!Return(c)
  BY <1>2, LeaseReads DEF L!Return
<1> QED  BY <1>3 DEF L!Next

\* The caller whose step begins its use is granted a connection nobody else uses.
LEMMA LeaseGrants ==
  ASSUME TypeInv, ExclusiveInv, NEW c \in Caller, NEW x \in Conn, ~Using(c),
         Using(c)', conn'[c] = x, Cardinality(Borrowers) < MaxSize,
         \A d \in Caller : Using(d) => conn[d] # x,
         \A d \in Caller \ {c} : /\ Using(d)' <=> Using(d)
                                 /\ Using(d) => conn'[d] = conn[d]
  PROVE  L!Next
<1>1. \A d \in Caller : (IF Using(d) THEN conn[d] ELSE NoConn)'
                          = IF d = c THEN x ELSE leaseOf[d]
  BY DEF leaseOf
<1>2. leaseOf' = [leaseOf EXCEPT ![c] = x]
  BY <1>1, LeaseReads DEF leaseOf
<1>3. x \notin L!Leased(leaseOf)
  BY LeaseReads DEF L!Leased, Borrowers
<1>4. L!Grant(c)
  BY <1>2, <1>3, LeaseReads, LeaseCounts DEF L!Grant
<1> QED  BY <1>4 DEF L!Next

\* ... or takes it over from the caller whose step it is.
LEMMA LeaseTransfers ==
  ASSUME TypeInv, ExclusiveInv, NEW c \in Caller, NEW w \in Caller \ {c},
         Using(c), ~Using(c)', ~Using(w), Using(w)', conn'[w] = conn[c],
         \A d \in Caller \ {c, w} : /\ Using(d)' <=> Using(d)
                                    /\ Using(d) => conn'[d] = conn[d]
  PROVE  L!Next
<1>1. \A d \in Caller : (IF Using(d) THEN conn[d] ELSE NoConn)'
                          = IF d = c THEN NoConn ELSE IF d = w THEN conn[c] ELSE leaseOf[d]
  BY DEF leaseOf
<1>2. leaseOf' = [leaseOf EXCEPT ![c] = NoConn, ![w] = leaseOf[c]]
  BY <1>1, LeaseReads DEF leaseOf
<1>3. L!Transfer(c, w)
  BY <1>2, LeaseReads DEF L!Transfer
<1> QED  BY <1>3 DEF L!Next

\* A connection handed over or parked, which nobody but c may be using.
LEMMA LeaseHandOffOrPark ==
  ASSUME TypeInv, ExclusiveInv, LeaseInv, NEW c \in Caller, NEW x \in Conn,
         HandOffOrPark(c, x), pc[c] # "parked",
         \/ Using(c) /\ conn[c] = x
         \/ ~Using(c) /\ Cardinality(Borrowers) < MaxSize,
         \A d \in Caller \ {c} : Using(d) => conn[d] # x
  PROVE  L!Next \/ UNCHANGED leaseOf
<1>1. /\ ~Using(c)'
      /\ \A d \in Caller \ {c} : Using(d)' =>
           \/ Using(d) /\ conn'[d] = conn[d]
           \/ waitQueue # <<>> /\ d = Head(waitQueue) /\ conn'[d] = x
      /\ \A d \in Caller \ {c} : Using(d) => Using(d)'
      /\ waitQueue # <<>> => \E w \in Caller \ {c} : /\ w = Head(waitQueue)
                                                     /\ ~Using(w) /\ Using(w)'
                                                     /\ conn'[w] = x
  BY HandOffOrParkIssues
<1>2. CASE waitQueue = <<>>
  <2>1. \A d \in Caller \ {c} : /\ Using(d)' <=> Using(d)
                                /\ Using(d) => conn'[d] = conn[d]
    BY <1>1, <1>2
  <2> QED  BY <1>1, <2>1, LeaseReturns, LeaseStutters
<1>3. CASE waitQueue # <<>>
  <2>1. PICK w \in Caller \ {c} : /\ w = Head(waitQueue) /\ ~Using(w) /\ Using(w)'
                                  /\ conn'[w] = x
    BY <1>1, <1>3
  <2>2. \A d \in Caller \ {c, w} : /\ Using(d)' <=> Using(d)
                                   /\ Using(d) => conn'[d] = conn[d]
    BY <1>1, <2>1
  <2>3. CASE Using(c)
    BY <1>1, <2>1, <2>2, <2>3, LeaseTransfers
  <2>4. CASE ~Using(c)
    <3>1. \A d \in Caller \ {w} : /\ Using(d)' <=> Using(d)
                                  /\ Using(d) => conn'[d] = conn[d]
      BY <1>1, <2>2, <2>4
    <3> QED  BY <2>1, <2>4, <3>1, LeaseGrants
  <2> QED  BY <2>3, <2>4
<1> QED  BY <1>2, <1>3

\* An idle connection popped for a caller is granted to it, or closed.
LEMMA LeaseAcquireLoop ==
  ASSUME TypeInv, ExclusiveInv, CapacityInv, UsedIsIssued, ~closed, NEW c \in Caller,
         ~Using(c), AcquireLoop(c)
  PROVE  L!Next \/ UNCHANGED leaseOf
<1>0. TypeOK
  BY DEF TypeInv
<1>1. \A d \in Caller \ {c} : pc'[d] = pc[d] /\ conn'[d] = conn[d]
  BY <1>0 DEF AcquireLoop, TakeIdle, Reserve, Park, TypeOK
<1>2. \A d \in Caller \ {c} : /\ Using(d)' <=> Using(d)
                              /\ Using(d) => conn'[d] = conn[d]
  BY <1>1 DEF Using
<1>3. CASE Using(c)'
  <2>1. available # <<>> /\ conn'[c] = Last(available)
    BY <1>0, <1>3 DEF AcquireLoop, TakeIdle, Reserve, Park, Using, TypeOK
  <2>2. PICK x \in Conn : x = conn'[c] /\ x = available[Len(available)] /\ Len(available) \in Nat \ {0}
    BY <1>0, <2>1, FrontLast DEF TypeOK
  <2>3. \A d \in Caller : conn[d] # x
    BY <2>2 DEF ExclusiveInv, RefersNotIdle
  <2>4. /\ Cardinality(Borrowers) \in Nat
        /\ Cardinality(Borrowers) <= Cardinality(inUse)
    BY BorrowersAreIssued
  <2>5. Cardinality(Borrowers) < MaxSize
    BY <1>0, <2>2, <2>4, FS_CardinalityType, ConstantsAssumption
       DEF CapacityInv, CapacityRoom, Total, TypeOK
  <2> QED  BY <1>2, <1>3, <2>2, <2>3, <2>5, LeaseGrants
<1>4. CASE ~Using(c)'
  <2>1. \A d \in Caller : /\ Using(d)' <=> Using(d)
                          /\ Using(d) => conn'[d] = conn[d]
    BY <1>2, <1>4
  <2> QED  BY <2>1, LeaseStutters
<1> QED  BY <1>3, <1>4

LEMMA LeaseCallerStep ==
  ASSUME ~DoubleRelease, TypeInv, ExclusiveInv, CapacityInv, LeaseInv,
         NEW c \in Caller, CallerStep(c)
  PROVE  L!Next \/ UNCHANGED leaseOf
<1> USE DEF members, calls
<1>0. TypeOK
  BY DEF TypeInv
<1>1. CASE Acquire(c)
  BY <1>1, LeaseAcquireLoop DEF Acquire, Using, LeaseInv
<1>2. CASE Discarded(c)
  <2>1. CASE closed
    <3>1. \A d \in Caller : /\ Using(d)' <=> Using(d)
                            /\ Using(d) => conn'[d] = conn[d]
      BY <1>0, <1>2, <2>1 DEF Discarded, Using, TypeOK
    <3> QED  BY <3>1, LeaseStutters
  <2>2. CASE ~closed
    BY <1>2, <2>2, LeaseAcquireLoop DEF Discarded, Using, LeaseInv
  <2> QED  BY <2>1, <2>2
<1>3. CASE PingDead(c) \/ (Release(c) /\ ~HandOffOrPark(c, conn[c]))
  <2>1. Using(c)
    BY <1>3 DEF PingDead, Release, Using
  <2>2. /\ pc'[c] \in {"discarding", "idle"} \cup Closing
        /\ \A d \in Caller \ {c} : pc'[d] = pc[d] /\ conn'[d] = conn[d]
    BY <1>0, <1>3 DEF PingDead, Release, Closing, TypeOK
  <2>3. /\ ~Using(c)'
        /\ \A d \in Caller \ {c} : /\ Using(d)' <=> Using(d)
                                   /\ Using(d) => conn'[d] = conn[d]
    BY <2>2 DEF Using, Closing
  <2> QED  BY <2>1, <2>3, LeaseReturns
<1>4. CASE Release(c) /\ HandOffOrPark(c, conn[c])
  <2>1. Using(c) /\ pc[c] # "parked"
    BY <1>4 DEF Release, Using
  <2>2. conn[c] \in Conn /\ \A d \in Caller \ {c} : conn[d] # conn[c]
    BY <2>1, ConstantsAssumption DEF ExclusiveInv, RefersToConn, RefersAlone
  <2> QED  BY <1>4, <2>1, <2>2, LeaseHandOffOrPark
<1>5. CASE Created(c) \/ Replenished(c)
  <2>1. ~Using(c) /\ pc[c] # "parked" /\ pc[c] \in Reserving
    BY <1>5 DEF Created, Replenished, Using, Reserving
  <2>2. Cardinality(Borrowers) < MaxSize
    <3>1. pending > 0 /\ pending \in Nat
      <4>1. IsFiniteSet(Reservers) /\ Reservers # {}
        BY <2>1, ConstantsAssumption, FS_Subset DEF Reservers
      <4>2. Cardinality(Reservers) \in Nat /\ Cardinality(Reservers) # 0
        BY <4>1, FS_CardinalityType, FS_EmptySet
      <4> QED  BY <1>0, <4>2 DEF TypeInv, PendingIsReserved, TypeOK
    <3>2. IsFiniteSet(Borrowers) /\ MaxSize \in Nat
      BY ConstantsAssumption, FS_Subset DEF Borrowers
    <3> QED  BY <3>1, <3>2, FS_CardinalityType DEF LeaseInv, LeaseRoom
  <2>3. CASE Created(c)
    <3>1. PICK x \in Fresh : conn' = [conn EXCEPT ![c] = x]
      BY <2>3 DEF Created
    <3>2. x \in Conn /\ \A d \in Caller : conn[d] # x
      BY DEF Fresh
    <3>3. /\ Using(c)' /\ conn'[c] = x
          /\ \A d \in Caller \ {c} : /\ Using(d)' <=> Using(d)
                                     /\ Using(d) => conn'[d] = conn[d]
      BY <1>0, <2>3, <3>1 DEF Created, Using, TypeOK
    <3> QED  BY <2>1, <2>2, <3>2, <3>3, LeaseGrants
  <2>4. CASE Replenished(c)
    <3>1. PICK x \in Fresh :
            \/ /\ pc' = [pc EXCEPT ![c] = "closing"]
               /\ conn' = [conn EXCEPT ![c] = x]
            \/ HandOffOrPark(c, x)
      BY <2>4 DEF Replenished
    <3>2. x \in Conn /\ \A d \in Caller : conn[d] # x
      BY DEF Fresh
    <3>3. CASE HandOffOrPark(c, x)
      BY <2>1, <2>2, <3>2, <3>3, LeaseHandOffOrPark
    <3>4. CASE ~HandOffOrPark(c, x)
      <4>1. \A d \in Caller : /\ Using(d)' <=> Using(d)
                              /\ Using(d) => conn'[d] = conn[d]
        BY <1>0, <2>1, <3>1, <3>4 DEF Using, TypeOK
      <4> QED  BY <4>1, LeaseStutters
    <3> QED  BY <3>3, <3>4
  <2> QED  BY <1>5, <2>3, <2>4
<1>6. CASE PingAlive(c) \/ CreateFailed(c) \/ ReleaseClosed(c) \/ Retired(c)
  <2>1. \A d \in Caller : /\ Using(d)' <=> Using(d)
                          /\ Using(d) => conn'[d] = conn[d]
    BY <1>0, <1>6 DEF PingAlive, CreateFailed, ReleaseClosed, Retired, Using, TypeOK
  <2> QED  BY <2>1, LeaseStutters
<1>7. CASE WaitTimeout(c) \/ ReplenishFailed(c)
  <2>1. conn' = conn
    BY <1>7 DEF WaitTimeout, ReplenishFailed
  <2>2. \A d \in Caller : Using(d)' <=> Using(d)
    <3>1. CASE WaitTimeout(c)
      BY <1>0, <3>1 DEF WaitTimeout, TypeInv, QueueInv, Using, TypeOK
    <3>2. CASE ReplenishFailed(c)
      <4>1. waitQueue # <<>> =>
              \E w \in Caller : w = Head(waitQueue) /\ pc[w] = "parked"
        BY QueueHead DEF TypeInv
      <4> QED  BY <1>0, <3>2, <4>1 DEF ReplenishFailed, Using, TypeOK
    <3> QED  BY <1>7, <3>1, <3>2
  <2> QED  BY <2>1, <2>2, LeaseStutters
<1> QED
  BY <1>1, <1>2, <1>3, <1>4, <1>5, <1>6, <1>7 DEF CallerStep, Settle

LEMMA LeaseStep ==
  ASSUME ~DoubleRelease, TypeInv, ExclusiveInv, CapacityInv, LeaseInv, [Next]_vars
  PROVE  L!Next \/ UNCHANGED leaseOf
<1> USE DEF members, calls, initVars, drainVars, probeVars
<1>0. TypeOK
  BY DEF TypeInv
<1>1. ASSUME NEW c \in Caller, CallerStep(c) PROVE L!Next \/ UNCHANGED leaseOf
  BY <1>1, LeaseCallerStep
<1>2. CASE ~\E c \in Caller : CallerStep(c)
  <2>1. \A d \in Caller : /\ Using(d)' <=> Using(d)
                          /\ Using(d) => conn'[d] = conn[d]
    BY <1>0, <1>2
       DEF Next, InitializeStart, InitializeCreated, InitializeFailed, DrainStep, DrainStart,
           DrainIdleClosed, DrainWaited, DrainForceClosed, ProbeStart, ProbeCreated,
           ProbeFailed, ProbeClosed, vars, Using, TypeOK
  <2> QED  BY <2>1, LeaseStutters
<1> QED  BY <1>1, <1>2

\* The pool implements Lease: every step of every call, of initialize(), drain() and
\* the probe grants a connection nobody uses while a slot is free, returns one,
\* passes one on to a waiter, or is none of the users' business.
THEOREM PoolImplementsLease ==
  ASSUME EagerInit, RoomToInit, ~DoubleRelease
  PROVE  Spec => ImplementsLease
<1> DEFINE Inv == TypeInv /\ ExclusiveInv /\ CapacityInv /\ DrainFlow /\ LeaseInv
<1>1. Init => Inv
  <2> SUFFICES ASSUME Init PROVE Inv
    OBVIOUS
  <2>1. Borrowers = {}
    BY DEF Init, Borrowers, Using
  <2>2. LeaseInv
    BY <2>1, FS_EmptySet, ConstantsAssumption
       DEF Init, LeaseInv, UsedIsIssued, LeaseRoom, Using
  <2>3. ExclusiveInv /\ DrainFlow
    BY DEF Init, ExclusiveInv, RefersToConn, RefersAlone, RefersNotIdle, IdleOnce,
           DrainFlow, ClosedByDrain, ClosedParksNobody, IdleIsDrained, Using, Closing
  <2> QED  BY <2>2, <2>3, TypeInvInit, CapacityInvInit
<1>2. Inv /\ [Next]_vars => Inv'
  BY TypeInvNext, ExclusiveInvNext, CapacityInvNext, DrainFlowNext, LeaseInvNext
<1>3. Init => L!Init
  BY DEF Init, L!Init, leaseOf, Using
<1>4. Inv /\ [Next]_vars => [L!Next]_leaseOf
  BY LeaseStep
<1> HIDE DEF Inv
<1> QED
  BY <1>1, <1>2, <1>3, <1>4, PTL DEF Spec, ImplementsLease, L!Spec

-----------------------------------------------------------------------------
(* The waiters.  A caller is parked only beside a full pool; every slot that *)
(* a step frees is one its own call, or the reservation it made, still owes  *)
(* to the queue.                                                             *)

Transit == {"discarding", "retiring"}

\* A hand-over serves the head of the queue, a parking finds nobody waiting.
LEMMA HandOffOrParkServes ==
  ASSUME TypeInv, NEW c \in Caller, NEW x \in Conn, HandOffOrPark(c, x), pc[c] # "parked"
  PROVE  /\ \A d \in Caller : pc[d] = "parked" /\ pc'[d] = "holding" => d = Head(waitQueue)
         /\ \A d \in Caller \ {c} : pc'[d] \in Transit <=> pc[d] \in Transit
         /\ pc'[c] = "idle"
         /\ waitQueue' # <<>> => /\ waitQueue # <<>> /\ available' = available
                                 /\ inUse' = inUse \cup {x}
<1>0. TypeOK
  BY DEF TypeInv
<1>1. CASE waitQueue # <<>> /\ HandOff(c, x) /\ UNCHANGED available
  <2>1. PICK w \in Caller \ {c} : w = Head(waitQueue) /\ pc[w] = "parked"
    BY <1>1, QueueHead DEF TypeInv
  <2>2. /\ pc' = [pc EXCEPT ![c] = "idle", ![w] = "holding"]
        /\ inUse' = inUse \cup {x}
    BY <1>1, <2>1 DEF HandOff
  <2>3. /\ \A d \in Caller \ {c, w} : pc'[d] = pc[d]
        /\ pc'[c] = "idle" /\ pc'[w] = "holding"
    BY <1>0, <2>1, <2>2 DEF TypeOK
  <2> QED  BY <1>1, <2>1, <2>2, <2>3 DEF Transit
<1>2. CASE waitQueue = <<>> /\ ParkIdle(c, x)
  BY <1>0, <1>2 DEF ParkIdle, Transit, TypeOK
<1> QED  BY <1>1, <1>2 DEF HandOffOrPark

LEMMA CountsAreNaturals ==
  TypeInv /\ CapacityInv =>
    /\ Len(available) \in Nat /\ IsFiniteSet(inUse) /\ Cardinality(inUse) \in Nat
    /\ pending \in Nat /\ Total \in Nat /\ MaxSize \in Nat
<1> SUFFICES ASSUME TypeInv, CapacityInv
             PROVE  /\ Len(available) \in Nat /\ IsFiniteSet(inUse)
                    /\ Cardinality(inUse) \in Nat /\ pending \in Nat /\ MaxSize \in Nat
  BY DEF Total
<1> QED
  BY LenProperties, FS_CardinalityType, ConstantsAssumption
     DEF TypeInv, TypeOK, CapacityInv, CapacityRoom

\* How the calls in transit change by the step of one call.
LEMMA TransitChange ==
  ASSUME NEW c \in Caller, \A d \in Caller \ {c} : pc'[d] \in Transit <=> pc[d] \in Transit
  PROVE  /\ Cardinality(InTransit) \in Nat
         /\ Cardinality(InTransit') =
              Cardinality(InTransit) + (IF pc'[c] \in Transit THEN 1 ELSE 0)
                                     - (IF pc[c] \in Transit THEN 1 ELSE 0)
BY CountChange DEF InTransit, Transit

\* The step of a call serves nobody but the head of the queue.
LEMMA CallerServesHead ==
  ASSUME TypeInv, NEW c \in Caller, CallerStep(c)
  PROVE  \A d \in Caller : pc[d] = "parked" /\ pc'[d] = "holding" => d = Head(waitQueue)
<1>0. TypeOK
  BY DEF TypeInv
<1>1. CASE Release(c) /\ conn[c] \in inUse /\ HandOffOrPark(c, conn[c])
  <2>1. conn[c] \in Conn /\ pc[c] # "parked"
    BY <1>0, <1>1 DEF Release, TypeOK
  <2> QED  BY <1>1, <2>1, HandOffOrParkServes
<1>2. CASE Replenished(c)
  <2>1. PICK x \in Fresh : \/ pc' = [pc EXCEPT ![c] = "closing"]
                           \/ HandOffOrPark(c, x)
    BY <1>2 DEF Replenished
  <2>2. x \in Conn /\ pc[c] # "parked"
    BY <1>2 DEF Replenished, Fresh
  <2> QED  BY <1>0, <2>1, <2>2, HandOffOrParkServes DEF TypeOK
<1>3. CASE ReplenishFailed(c)
  <2>1. waitQueue # <<>> => \E w \in Caller : w = Head(waitQueue)
    BY QueueHead DEF TypeInv
  <2> QED  BY <1>0, <1>3, <2>1 DEF ReplenishFailed, TypeOK
<1>4. CASE ~(Release(c) /\ conn[c] \in inUse /\ HandOffOrPark(c, conn[c]))
           /\ ~Replenished(c) /\ ~ReplenishFailed(c)
  BY <1>0, <1>4
     DEF CallerStep, Settle, Acquire, AcquireLoop, TakeIdle, Reserve, Park, PingAlive,
         PingDead, Discarded, Created, ReleaseClosed, Retired, Release, CreateFailed,
         WaitTimeout, calls, TypeOK
<1> QED  BY <1>1, <1>2, <1>3, <1>4

\* What a step adds to the connections counted and to the calls in transit
\* outweighs what it takes from them.
LEMMA StrandsNobody ==
  ASSUME TypeInv, CapacityInv, CapacityInv', TypeInv', NEW c \in Caller,
         \A d \in Caller \ {c} : pc'[d] \in Transit <=> pc[d] \in Transit,
         waitQueue # <<>> => Total + Cardinality(InTransit) >= MaxSize,
         waitQueue' # <<>> =>
           \/ /\ waitQueue # <<>>
              /\ Total' + (IF pc'[c] \in Transit THEN 1 ELSE 0) >=
                   Total + (IF pc[c] \in Transit THEN 1 ELSE 0)
           \/ Total' >= MaxSize
  PROVE  NoStrandedWaiter'
<1>1. /\ Cardinality(InTransit) \in Nat /\ Cardinality(InTransit') \in Nat
      /\ Cardinality(InTransit') =
           Cardinality(InTransit) + (IF pc'[c] \in Transit THEN 1 ELSE 0)
                                  - (IF pc[c] \in Transit THEN 1 ELSE 0)
  <2>1. IsFiniteSet(InTransit')
    BY ConstantsAssumption, FS_Subset DEF InTransit
  <2> QED  BY <2>1, TransitChange, FS_CardinalityType
<1>2. Total \in Nat /\ Total' \in Nat /\ MaxSize \in Nat
  <2>1. (TypeInv /\ CapacityInv => Total \in Nat /\ MaxSize \in Nat)'
    BY CountsAreNaturals, PTL
  <2> QED  BY <2>1, CountsAreNaturals
<1> QED  BY <1>1, <1>2 DEF NoStrandedWaiter

LEMMA AcquireLoopStrandsNobody ==
  ASSUME TypeInv, TypeInv', CapacityInv, CapacityInv', NEW c \in Caller,
         AcquireLoop(c), NoStrandedWaiter
  PROVE  NoStrandedWaiter'
<1>0. /\ TypeOK /\ Len(available) \in Nat /\ Cardinality(inUse) \in Nat
      /\ pending \in Nat /\ MaxSize \in Nat
  BY CountsAreNaturals DEF TypeInv
<1>1. CASE TakeIdle(c)
  <2>1. waitQueue' = <<>>
    BY <1>1 DEF TakeIdle, CapacityInv, NoIdleBesideWaiter
  <2> QED  BY <2>1 DEF NoStrandedWaiter
<1>2. CASE Reserve(c)
  <2>1. /\ \A d \in Caller \ {c} : pc'[d] = pc[d]
        /\ waitQueue' = waitQueue /\ Total' = Total + 1
    BY <1>0, <1>2 DEF Reserve, Total, TypeOK
  <2>2. Total \in Nat
    BY <1>0 DEF Total
  <2> QED  BY <2>1, <2>2, StrandsNobody DEF NoStrandedWaiter
<1>3. CASE Park(c)
  <2>1. /\ \A d \in Caller \ {c} : pc'[d] = pc[d]
        /\ Total' = Total /\ Total >= MaxSize
    BY <1>0, <1>3 DEF Park, Total, TypeOK
  <2> QED  BY <2>1, StrandsNobody DEF NoStrandedWaiter
<1> QED  BY <1>1, <1>2, <1>3 DEF AcquireLoop

LEMMA CallerStrandsNobody ==
  ASSUME TypeInv, TypeInv', CapacityInv, CapacityInv', DrainFlow, NEW c \in Caller,
         CallerStep(c), NoStrandedWaiter
  PROVE  NoStrandedWaiter' \/ (pending' < pending /\ open' = open)
<1> USE DEF members, calls
<1>0. /\ TypeOK /\ Len(available) \in Nat /\ pending \in Nat /\ MaxSize \in Nat
      /\ IsFiniteSet(inUse) /\ Cardinality(inUse) \in Nat /\ Total \in Nat
  BY CountsAreNaturals DEF TypeInv
<1>00. \A x : /\ x \notin inUse => Cardinality(inUse \cup {x}) = Cardinality(inUse) + 1
              /\ Cardinality(inUse \ {x}) \in {Cardinality(inUse), Cardinality(inUse) - 1}
  <2> SUFFICES ASSUME NEW x
               PROVE  /\ x \notin inUse => Cardinality(inUse \cup {x}) = Cardinality(inUse) + 1
                      /\ Cardinality(inUse \ {x}) \in {Cardinality(inUse), Cardinality(inUse) - 1}
    OBVIOUS
  <2> QED  BY <1>0, FS_AddElement, FS_RemoveElement
<1>1. CASE closed
  <2>1. waitQueue' = <<>>
    BY <1>0, <1>1, CallersLeaveDrain DEF DrainFlow, ClosedParksNobody
  <2> QED  BY <2>1 DEF NoStrandedWaiter
<1> SUFFICES ASSUME ~closed
             PROVE  NoStrandedWaiter' \/ (pending' < pending /\ open' = open)
  BY <1>1
<1>2. CASE Acquire(c) \/ Discarded(c)
  BY <1>2, AcquireLoopStrandsNobody DEF Acquire, Discarded
<1>3. CASE CreateFailed(c) \/ ReplenishFailed(c)
  BY <1>0, <1>3 DEF CreateFailed, ReplenishFailed
<1>4. CASE PingDead(c)
  <2>1. /\ \A d \in Caller \ {c} : pc'[d] = pc[d]
        /\ pc'[c] \in Transit /\ pc[c] \notin Transit
        /\ UNCHANGED <<available, waitQueue, pending>> /\ inUse' = inUse \ {conn[c]}
    BY <1>0, <1>4 DEF PingDead, Transit, TypeOK
  <2>2. Cardinality(inUse') \in {Cardinality(inUse), Cardinality(inUse) - 1}
    BY <1>00, <2>1
  <2>3. Total' + 1 >= Total
    BY <1>0, <2>1, <2>2 DEF Total
  <2> QED  BY <1>0, <2>1, <2>3, StrandsNobody DEF NoStrandedWaiter
<1>5. CASE PingAlive(c) \/ ReleaseClosed(c)
  <2>1. /\ \A d \in Caller \ {c} : pc'[d] = pc[d]
        /\ pc'[c] \notin Transit /\ pc[c] \notin Transit
        /\ waitQueue' = waitQueue /\ Total' = Total
    BY <1>0, <1>5 DEF PingAlive, ReleaseClosed, Transit, Total, TypeOK
  <2> QED  BY <1>0, <2>1, StrandsNobody DEF NoStrandedWaiter
<1>6. CASE Created(c)
  <2>1. PICK x \in Fresh : inUse' = inUse \cup {x}
    BY <1>6 DEF Created
  <2>2. /\ \A d \in Caller \ {c} : pc'[d] = pc[d]
        /\ pc'[c] \notin Transit /\ pc[c] \notin Transit
        /\ waitQueue' = waitQueue /\ available' = available /\ pending' = pending - 1
    BY <1>0, <1>6 DEF Created, Transit, TypeOK
  <2>3. Total' = Total
    <3>1. Cardinality(inUse') = Cardinality(inUse) + 1
      BY <1>00, <2>1 DEF Fresh
    <3> QED  BY <1>0, <2>2, <3>1 DEF Total
  <2> QED  BY <1>0, <2>2, <2>3, StrandsNobody DEF NoStrandedWaiter
<1>7. CASE Retired(c)
  <2>1. /\ \A d \in Caller \ {c} : pc'[d] = pc[d]
        /\ pc'[c] \notin Transit
        /\ UNCHANGED <<available, inUse, waitQueue>>
        /\ \/ pending' = pending /\ (waitQueue = <<>> \/ Total >= MaxSize)
           \/ pending' = pending + 1
    BY <1>0, <1>7 DEF Retired, Transit, TypeOK
  <2>2. \/ Total' = Total /\ (waitQueue = <<>> \/ Total >= MaxSize)
        \/ Total' = Total + 1
    BY <1>0, <2>1 DEF Total
  <2> QED  BY <1>0, <2>1, <2>2, StrandsNobody DEF NoStrandedWaiter
<1>8. CASE Release(c)
  <2>1. conn[c] \in Conn \/ conn[c] \notin inUse
    BY <1>0 DEF TypeOK
  <2>2. CASE conn[c] \in inUse /\ HandOffOrPark(c, conn[c])
    <3>1. pc[c] \notin Transit /\ pc[c] # "parked" /\ pending' = pending
      BY <1>8 DEF Release, Transit
    <3>2. /\ \A d \in Caller \ {c} : pc'[d] \in Transit <=> pc[d] \in Transit
          /\ pc'[c] = "idle"
          /\ waitQueue' # <<>> => /\ waitQueue # <<>> /\ available' = available
                                  /\ inUse' = inUse
      BY <2>1, <2>2, <3>1, HandOffOrParkServes
    <3>3. waitQueue' # <<>> => waitQueue # <<>> /\ Total' = Total /\ pc'[c] \notin Transit
      BY <3>1, <3>2 DEF Total, Transit
    <3> QED  BY <1>0, <3>1, <3>2, <3>3, StrandsNobody DEF NoStrandedWaiter
  <2>3. CASE ~(conn[c] \in inUse /\ HandOffOrPark(c, conn[c]))
    <3>1. /\ \A d \in Caller \ {c} : pc'[d] = pc[d]
          /\ pc[c] \notin Transit /\ UNCHANGED <<available, waitQueue, pending>>
          /\ \/ inUse' = inUse
             \/ inUse' = inUse \ {conn[c]} /\ pc'[c] \in Transit
      BY <1>0, <1>8, <2>3 DEF Release, Transit, TypeOK
    <3>2. \/ inUse' = inUse
          \/ /\ Cardinality(inUse') \in {Cardinality(inUse), Cardinality(inUse) - 1}
             /\ pc'[c] \in Transit
      BY <1>00, <3>1
    <3>3. Total' + (IF pc'[c] \in Transit THEN 1 ELSE 0) >= Total
      BY <1>0, <3>1, <3>2 DEF Total
    <3> QED  BY <1>0, <3>1, <3>3, StrandsNobody DEF NoStrandedWaiter
  <2> QED  BY <2>2, <2>3
<1>9. CASE Replenished(c)
  <2>1. PICK x \in Fresh : HandOffOrPark(c, x)
    BY <1>9 DEF Replenished
  <2>2. /\ pc[c] \notin Transit /\ pc[c] # "parked" /\ pending' = pending - 1
        /\ x \in Conn /\ x \notin inUse
    BY <1>9, <2>1 DEF Replenished, Fresh, Transit
  <2>3. /\ \A d \in Caller \ {c} : pc'[d] \in Transit <=> pc[d] \in Transit
        /\ pc'[c] = "idle"
        /\ waitQueue' # <<>> => /\ waitQueue # <<>> /\ available' = available
                                /\ inUse' = inUse \cup {x}
    BY <2>1, <2>2, HandOffOrParkServes
  <2>4. waitQueue' # <<>> => waitQueue # <<>> /\ Total' = Total /\ pc'[c] \notin Transit
    BY <1>0, <1>00, <2>2, <2>3 DEF Total, Transit
  <2> QED  BY <1>0, <2>2, <2>3, <2>4, StrandsNobody DEF NoStrandedWaiter
<1>10. CASE WaitTimeout(c)
  <2>1. pc[c] = "parked"
    BY <1>10 DEF WaitTimeout, TypeInv, QueueInv
  <2>2. /\ \A d \in Caller \ {c} : pc'[d] = pc[d]
        /\ pc'[c] \notin Transit /\ pc[c] \notin Transit
        /\ UNCHANGED <<available, inUse, pending>>
    BY <1>0, <1>10, <2>1 DEF WaitTimeout, Transit, TypeOK
  <2>3. waitQueue # <<>>
    <3>1. waitQueue = <<>> => Len(waitQueue) = 0
      OBVIOUS
    <3> QED  BY <1>10, <3>1 DEF WaitTimeout
  <2>4. Total' = Total
    BY <2>2 DEF Total
  <2> QED  BY <1>0, <2>2, <2>3, <2>4, StrandsNobody DEF NoStrandedWaiter
<1> QED
  BY <1>2, <1>3, <1>4, <1>5, <1>6, <1>7, <1>8, <1>9, <1>10 DEF CallerStep, Settle

LEMMA WaitersStep ==
  ASSUME EagerInit, RoomToInit, TypeInv, CapacityInv, DrainFlow, [Next]_vars
  PROVE  /\ \A c \in Caller : pc[c] = "parked" /\ pc'[c] = "holding" => c = Head(waitQueue)
         /\ NoStrandedWaiter => NoStrandedWaiter' \/ (pending' < pending /\ open' = open)
<1> USE DEF members, calls, initVars, drainVars, probeVars
<1>0. TypeOK /\ TypeInv' /\ CapacityInv' /\ DrainFlow'
  BY TypeInvNext, CapacityInvNext, DrainFlowNext DEF TypeInv
<1>1. ASSUME NEW c \in Caller, CallerStep(c)
      PROVE  /\ \A d \in Caller : pc[d] = "parked" /\ pc'[d] = "holding" => d = Head(waitQueue)
             /\ NoStrandedWaiter => NoStrandedWaiter' \/ (pending' < pending /\ open' = open)
  BY <1>0, <1>1, CallerServesHead, CallerStrandsNobody
<1>2. CASE ~\E c \in Caller : CallerStep(c)
  <2>1. \A c \in Caller : pc'[c] = pc[c] \/ pc'[c] = "idle"
    BY <1>0, <1>2
       DEF Next, InitializeStart, InitializeCreated, InitializeFailed, DrainStep, DrainStart,
           DrainIdleClosed, DrainWaited, DrainForceClosed, ProbeStart, ProbeCreated,
           ProbeFailed, ProbeClosed, vars, TypeOK
  <2>2. CASE closed'
    BY <1>0, <2>1, <2>2 DEF DrainFlow, ClosedParksNobody, NoStrandedWaiter
  <2>3. CASE InitializeCreated
    <3>1. waitQueue' = <<>>
      BY <2>3, QuietQueue DEF InitializeCreated, CapacityInv, InitAlone, Quiet
    <3> QED  BY <2>1, <3>1 DEF NoStrandedWaiter
  <2>4. CASE ~closed' /\ ~InitializeCreated
    <3>1. UNCHANGED <<available, inUse, waitQueue, pending, pc>>
      BY <1>2, <2>4
         DEF Next, InitializeStart, InitializeFailed, DrainStep, DrainStart, DrainFlow,
             ClosedByDrain, DrainIdleClosed, DrainWaited, DrainForceClosed, ProbeStart,
             ProbeCreated, ProbeFailed, ProbeClosed, vars
    <3>2. Total' = Total /\ InTransit' = InTransit
      BY <3>1 DEF Total, InTransit
    <3> QED  BY <2>1, <3>1, <3>2 DEF NoStrandedWaiter
  <2> QED  BY <2>2, <2>3, <2>4
<1> QED  BY <1>1, <1>2

\* Whoever is handed a connection is the head of the queue, and no step leaves a
\* waiter beside a free slot except the failed create() that gives the slot back.
THEOREM WaitersComeFirst ==
  ASSUME EagerInit, RoomToInit
  PROVE  Spec => WaitersAreServed
<1> DEFINE Inv == TypeInv /\ CapacityInv /\ DrainFlow
<1>1. Init => Inv
  BY TypeInvInit, CapacityInvInit
     DEF Init, DrainFlow, ClosedByDrain, ClosedParksNobody, IdleIsDrained
<1>2. Inv /\ [Next]_vars => Inv'
  BY TypeInvNext, CapacityInvNext, DrainFlowNext
<1>3. Inv /\ [Next]_vars =>
        [/\ \A c \in Caller : pc[c] = "parked" /\ pc'[c] = "holding" => c = Head(waitQueue)
         /\ NoStrandedWaiter => NoStrandedWaiter' \/ (pending' < pending /\ open' = open)]_vars
  BY WaitersStep
<1> HIDE DEF Inv
<1> QED
  BY <1>1, <1>2, <1>3, PTL DEF Spec, WaitersAreServed
=============================================================================
