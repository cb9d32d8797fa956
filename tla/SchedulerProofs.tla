-------------------------- MODULE SchedulerProofs --------------------------
(***************************************************************************)
(* Proofs about the scheduler, for every set of schedules, jobs, policies, *)
(* ceilings and operations that a handler calls before its first await.    *)
(***************************************************************************)
EXTENDS SchedulerProperties, SequenceLemmas

-----------------------------------------------------------------------------
(* Lists without duplicates *)

\* What a list is made of, position by position, without its length.
LEMMA TailEntries ==
  ASSUME NEW S, NEW q \in Seq(S), q # <<>>
  PROVE  /\ Head(q) \in S /\ Contains(q, Head(q)) /\ Tail(q) \in Seq(S)
         /\ \A x : Contains(q, x) <=> x = Head(q) \/ Contains(Tail(q), x)
         /\ IsInjective(q) => IsInjective(Tail(q)) /\ ~Contains(Tail(q), Head(q))
<1>1. /\ Len(q) \in Nat \ {0} /\ Head(q) = q[1] /\ Head(q) \in S
      /\ Tail(q) \in Seq(S) /\ Len(Tail(q)) = Len(q) - 1
      /\ \A i \in 1..Len(Tail(q)) : Tail(q)[i] = q[i + 1]
  BY HeadTailProperties, EmptySeq, ElementOfSeq
<1>2. DOMAIN q = 1..Len(q) /\ DOMAIN Tail(q) = 1..Len(Tail(q))
  BY <1>1, LenProperties
<1>3. ASSUME NEW x, Contains(q, x)
      PROVE  x = Head(q) \/ Contains(Tail(q), x)
  <2>1. PICK i \in 1..Len(q) : q[i] = x
    BY <1>3 DEF Contains
  <2>2. CASE i = 1
    BY <1>1, <2>1, <2>2
  <2>3. CASE i # 1
    <3>1. i - 1 \in 1..Len(Tail(q)) /\ (i - 1) + 1 = i
      BY <1>1, <2>3
    <3>2. Tail(q)[i - 1] = q[i]
      BY <1>1, <3>1
    <3> QED
      BY <2>1, <3>1, <3>2 DEF Contains
  <2> QED
    BY <2>2, <2>3
<1>4. ASSUME NEW x, Contains(Tail(q), x) PROVE Contains(q, x)
  <2>1. PICK i \in 1..Len(Tail(q)) : Tail(q)[i] = x
    BY <1>4 DEF Contains
  <2>2. i + 1 \in 1..Len(q) /\ q[i + 1] = x
    BY <1>1, <2>1
  <2> QED
    BY <2>2 DEF Contains
<1>5. Contains(q, Head(q))
  <2>1. 1 \in 1..Len(q)
    BY <1>1
  <2> QED
    BY <1>1, <2>1 DEF Contains
<1>6. ASSUME IsInjective(q)
      PROVE  IsInjective(Tail(q)) /\ ~Contains(Tail(q), Head(q))
  <2>1. \A i, j \in 1..Len(q) : q[i] = q[j] => i = j
    BY <1>2, <1>6 DEF IsInjective
  <2>2. ASSUME NEW i \in 1..Len(Tail(q)), NEW j \in 1..Len(Tail(q)), Tail(q)[i] = Tail(q)[j]
        PROVE  i = j
    <3>1. i + 1 \in 1..Len(q) /\ j + 1 \in 1..Len(q) /\ q[i + 1] = q[j + 1]
      BY <1>1, <2>2
    <3>2. i + 1 = j + 1
      BY <2>1, <3>1
    <3> QED
      BY <3>2, <1>1
  <2>3. ASSUME NEW i \in 1..Len(Tail(q)) PROVE Tail(q)[i] # Head(q)
    <3>1. i + 1 \in 1..Len(q) /\ 1 \in 1..Len(q) /\ i + 1 # 1 /\ Tail(q)[i] = q[i + 1]
      BY <1>1
    <3> QED
      BY <1>1, <2>1, <3>1
  <2> QED
    BY <1>2, <2>2, <2>3 DEF IsInjective, Contains
<1> QED
  BY <1>1, <1>3, <1>4, <1>5, <1>6

\* Splicing an entry in, anywhere.
LEMMA InsertAtEntries ==
  ASSUME NEW S, NEW q \in Seq(S), NEW k \in 1..Len(q) + 1, NEW s \in S
  PROVE  /\ InsertAt(q, k, s) \in Seq(S)
         /\ \A x : Contains(InsertAt(q, k, s), x) <=> x = s \/ Contains(q, x)
         /\ IsInjective(q) /\ ~Contains(q, s) => IsInjective(InsertAt(q, k, s))
<1> DEFINE a == SubSeq(q, 1, k - 1)
           b == SubSeq(q, k, Len(q))
           r == InsertAt(q, k, s)
<1>1. Len(q) \in Nat /\ k \in Nat \ {0} /\ k <= Len(q) + 1 /\ DOMAIN q = 1..Len(q)
  BY LenProperties
<1>2. a \in Seq(S) /\ Len(a) = k - 1 /\ \A j \in 1..k - 1 : a[j] = q[j]
  <2>1. \A j \in 1..k - 1 : q[j] \in S
    BY <1>1, ElementOfSeq
  <2> QED
    BY <1>1, <2>1, SubSeqProperties
<1>3. b \in Seq(S) /\ Len(b) = Len(q) - k + 1 /\ \A j \in 1..Len(q) - k + 1 : b[j] = q[k + j - 1]
  <2>1. \A j \in k..Len(q) : q[j] \in S
    BY <1>1, ElementOfSeq
  <2> QED
    BY <1>1, <2>1, SubSeqProperties
<1>4. <<s>> \in Seq(S) /\ Len(<<s>>) = 1 /\ <<s>>[1] = s
  OBVIOUS
<1>5. /\ a \o <<s>> \in Seq(S) /\ Len(a \o <<s>>) = k
      /\ \A j \in 1..k : (a \o <<s>>)[j] = IF j <= k - 1 THEN q[j] ELSE s
  <2> HIDE DEF a
  <2>1. /\ a \o <<s>> \in Seq(S) /\ Len(a \o <<s>>) = Len(a) + Len(<<s>>)
        /\ \A j \in 1..Len(a) + Len(<<s>>) :
             (a \o <<s>>)[j] = IF j <= Len(a) THEN a[j] ELSE <<s>>[j - Len(a)]
    BY <1>2, <1>4, ConcatProperties
  <2> QED
    BY <1>1, <1>2, <1>4, <2>1
<1>6. /\ r \in Seq(S) /\ Len(r) = Len(q) + 1
      /\ \A j \in 1..Len(q) + 1 :
           r[j] = IF j <= k - 1 THEN q[j] ELSE IF j = k THEN s ELSE q[j - 1]
  <2> DEFINE c == a \o <<s>>
  <2>1. r = c \o b
    BY DEF InsertAt
  <2>2. c \in Seq(S) /\ Len(c) = k /\ \A j \in 1..k : c[j] = IF j <= k - 1 THEN q[j] ELSE s
    BY <1>5
  <2> HIDE DEF a, b, c, r
  <2>3. /\ c \o b \in Seq(S) /\ Len(c \o b) = Len(c) + Len(b)
        /\ \A j \in 1..Len(c) + Len(b) :
             (c \o b)[j] = IF j <= Len(c) THEN c[j] ELSE b[j - Len(c)]
    BY <1>3, <2>2, ConcatProperties
  <2>4. ASSUME NEW j \in 1..Len(q) + 1
        PROVE  r[j] = IF j <= k - 1 THEN q[j] ELSE IF j = k THEN s ELSE q[j - 1]
    <3>1. CASE j <= k
      BY <1>1, <1>3, <2>1, <2>2, <2>3, <3>1
    <3>2. CASE j > k
      <4>1. j - k \in 1..Len(q) - k + 1 /\ k + (j - k) - 1 = j - 1
        BY <1>1, <3>2
      <4>2. b[j - k] = q[j - 1]
        BY <1>3, <4>1
      <4> QED
        BY <1>1, <1>3, <2>1, <2>2, <2>3, <3>2, <4>2
    <3> QED
      BY <1>1, <3>1, <3>2
  <2> QED
    BY <1>1, <1>3, <2>1, <2>2, <2>3, <2>4
<1> HIDE DEF a, b, r
<1>7. DOMAIN r = 1..Len(q) + 1
  BY <1>6, LenProperties
<1>8. ASSUME NEW x, Contains(r, x) PROVE x = s \/ Contains(q, x)
  <2>1. PICK j \in 1..Len(q) + 1 : r[j] = x
    BY <1>6, <1>8 DEF Contains
  <2>2. CASE j <= k - 1
    BY <1>1, <1>6, <2>1, <2>2 DEF Contains
  <2>3. CASE j = k
    BY <1>1, <1>6, <2>1, <2>3
  <2>4. CASE j > k
    <3>1. j - 1 \in 1..Len(q) /\ q[j - 1] = x
      BY <1>1, <1>6, <2>1, <2>4
    <3> QED
      BY <3>1 DEF Contains
  <2> QED
    BY <1>1, <2>2, <2>3, <2>4
<1>9. Contains(r, s)
  BY <1>1, <1>6 DEF Contains
<1>10. ASSUME NEW x, Contains(q, x) PROVE Contains(r, x)
  <2>1. PICK j \in 1..Len(q) : q[j] = x
    BY <1>10 DEF Contains
  <2>2. CASE j <= k - 1
    BY <1>1, <1>6, <2>1, <2>2 DEF Contains
  <2>3. CASE j >= k
    <3>1. j + 1 \in 1..Len(q) + 1 /\ r[j + 1] = q[(j + 1) - 1] /\ (j + 1) - 1 = j
      BY <1>1, <1>6, <2>3
    <3> QED
      BY <1>6, <2>1, <3>1 DEF Contains
  <2> QED
    BY <1>1, <2>2, <2>3
<1>11. ASSUME IsInjective(q), ~Contains(q, s) PROVE IsInjective(r)
  <2>1. \A i, j \in 1..Len(q) : q[i] = q[j] => i = j
    BY <1>1, <1>11 DEF IsInjective
  <2>2. \A i \in 1..Len(q) : q[i] # s
    BY <1>11 DEF Contains
  <2> DEFINE at(j) == IF j <= k - 1 THEN j ELSE j - 1
  <2>3. \A j \in 1..Len(q) + 1 : j # k => at(j) \in 1..Len(q) /\ r[j] = q[at(j)]
    BY <1>1, <1>6
  <2>4. r[k] = s
    BY <1>1, <1>6
  <2>5. \A i, j \in 1..Len(q) + 1 : i # k /\ j # k /\ at(i) = at(j) => i = j
    BY <1>1
  <2> HIDE DEF at
  <2>6. ASSUME NEW i \in 1..Len(q) + 1, NEW j \in 1..Len(q) + 1, r[i] = r[j]
        PROVE  i = j
    BY <2>1, <2>2, <2>3, <2>4, <2>5, <2>6
  <2> QED
    BY <1>7, <2>6 DEF IsInjective
<1> QED
  BY <1>6, <1>8, <1>9, <1>10, <1>11 DEF r

\* Adding an entry at the end.
LEMMA AppendEntries ==
  ASSUME NEW S, NEW q \in Seq(S), NEW s \in S
  PROVE  /\ Append(q, s) \in Seq(S)
         /\ \A x : Contains(Append(q, s), x) <=> x = s \/ Contains(q, x)
         /\ IsInjective(q) /\ ~Contains(q, s) => IsInjective(Append(q, s))
<1> DEFINE r == Append(q, s)
<1>1. /\ r \in Seq(S) /\ Len(r) = Len(q) + 1 /\ Len(q) \in Nat
      /\ \A j \in 1..Len(q) : r[j] = q[j]
      /\ r[Len(q) + 1] = s
  BY AppendProperties, LenProperties
<1>2. DOMAIN r = 1..Len(q) + 1 /\ DOMAIN q = 1..Len(q)
  BY <1>1, LenProperties
<1> HIDE DEF r
<1>3. \A x : Contains(r, x) <=> x = s \/ Contains(q, x)
  BY <1>1 DEF Contains
<1>4. ASSUME IsInjective(q), ~Contains(q, s) PROVE IsInjective(r)
  <2>1. \A i, j \in 1..Len(q) : q[i] = q[j] => i = j
    BY <1>2, <1>4 DEF IsInjective
  <2>2. \A i \in 1..Len(q) : q[i] # s
    BY <1>4 DEF Contains
  <2>3. \A i, j \in 1..Len(q) + 1 : r[i] = r[j] => i = j
    BY <1>1, <2>1, <2>2
  <2> QED
    BY <1>2, <2>3 DEF IsInjective
<1> QED
  BY <1>1, <1>3, <1>4 DEF r

\* Taking an entry out.
LEMMA WithoutEntries ==
  ASSUME NEW S, NEW q \in Seq(S), NEW s
  PROVE  /\ Without(q, s) \in Seq(S)
         /\ \A x : Contains(Without(q, s), x) => Contains(q, x)
         /\ \A x : Contains(q, x) /\ x # s => Contains(Without(q, s), x)
         /\ IsInjective(q) => IsInjective(Without(q, s)) /\ ~Contains(Without(q, s), s)
<1>1. CASE ~Contains(q, s)
  BY <1>1 DEF Without
<1>2. CASE Contains(q, s)
  <2> DEFINE k == CHOOSE i \in 1..Len(q) : q[i] = s
             r == RemoveAt(q, k)
  <2>1. k \in 1..Len(q) /\ q[k] = s
    BY <1>2 DEF Contains
  <2>2. Without(q, s) = r
    BY <1>2 DEF Without
  <2> HIDE DEF k
  <2>3. /\ r \in Seq(S) /\ Len(r) = Len(q) - 1 /\ Len(q) \in Nat
        /\ \A j \in 1..Len(q) - 1 : r[j] = IF j < k THEN q[j] ELSE q[j + 1]
    BY <2>1, RemoveAtProperties, LenProperties
  <2> HIDE DEF r
  <2>4. DOMAIN r = 1..Len(q) - 1 /\ DOMAIN q = 1..Len(q)
    BY <2>3, LenProperties
  <2> DEFINE at(j) == IF j < k THEN j ELSE j + 1
  <2>5. \A j \in 1..Len(q) - 1 : at(j) \in 1..Len(q) /\ at(j) # k /\ r[j] = q[at(j)]
    BY <2>1, <2>3
  <2>6. \A i, j \in 1..Len(q) - 1 : at(i) = at(j) => i = j
    BY <2>1, <2>3
  <2>7. ASSUME NEW i \in 1..Len(q), i # k
        PROVE  \E j \in 1..Len(q) - 1 : r[j] = q[i]
    <3>1. CASE i < k
      BY <2>1, <2>3, <3>1
    <3>2. CASE i > k
      <4>1. i - 1 \in 1..Len(q) - 1 /\ ~(i - 1 < k) /\ (i - 1) + 1 = i
        BY <2>1, <2>3, <3>2
      <4>2. r[i - 1] = q[i]
        BY <2>3, <4>1
      <4> QED
        BY <4>1, <4>2
    <3> QED
      BY <2>1, <2>7, <3>1, <3>2
  <2> HIDE DEF at
  <2>8. \A x : Contains(r, x) => Contains(q, x)
    BY <2>3, <2>5 DEF Contains
  <2>9. \A x : Contains(q, x) /\ x # s => Contains(r, x)
    BY <2>1, <2>3, <2>7 DEF Contains
  <2>10. ASSUME IsInjective(q) PROVE IsInjective(r) /\ ~Contains(r, s)
    <3>1. \A i, j \in 1..Len(q) : q[i] = q[j] => i = j
      BY <2>4, <2>10 DEF IsInjective
    <3>2. \A i, j \in 1..Len(q) - 1 : r[i] = r[j] => i = j
      BY <2>5, <2>6, <3>1
    <3>3. \A i \in 1..Len(q) - 1 : r[i] # s
      BY <2>1, <2>5, <3>1
    <3> QED
      BY <2>3, <2>4, <3>2, <3>3 DEF IsInjective, Contains
  <2> QED
    BY <2>2, <2>3, <2>8, <2>9, <2>10
<1> QED
  BY <1>1, <1>2

-----------------------------------------------------------------------------
(* The queue and the held-back runs *)

Queued(s) == s \in later \/ Contains(due, s)

QueueIsClean ==
    /\ IsInjective(due)
    /\ \A s \in Schedules : ~(s \in later /\ Contains(due, s))

HeldIsFound == \A s \in Schedules : pendingRuns[s] > 0 => Contains(pending, s)

QueueTypes == later \subseteq Schedules /\ due \in Seq(Schedules)
HeldTypes  == /\ pendingRuns \in [Schedules -> 0 .. MAX_PENDING_RUNS]
              /\ pending \in Seq(Schedules)

LEMMA Unqueues ==
  ASSUME TypeOK, NEW s \in Schedules, Unqueue(s)
  PROVE  /\ QueueTypes'
         /\ QueueIsClean => /\ QueueIsClean'
                            /\ \A x \in Schedules : Queued(x)' <=> Queued(x) /\ x # s
<1>1. /\ Without(due, s) \in Seq(Schedules)
      /\ \A x : Contains(Without(due, s), x) => Contains(due, x)
      /\ \A x : Contains(due, x) /\ x # s => Contains(Without(due, s), x)
      /\ IsInjective(due) => IsInjective(Without(due, s)) /\ ~Contains(Without(due, s), s)
  BY WithoutEntries DEF TypeOK
<1>2. later' = later \ {s} /\ due' = Without(due, s)
  BY DEF Unqueue
<1>3. QueueTypes'
  BY <1>1, <1>2 DEF QueueTypes, TypeOK
<1>4. ASSUME QueueIsClean
      PROVE  QueueIsClean' /\ \A x \in Schedules : Queued(x)' <=> Queued(x) /\ x # s
  BY <1>1, <1>2, <1>4, Zenon DEF QueueIsClean, Queued
<1> QED
  BY <1>3, <1>4

LEMMA Enqueues ==
  ASSUME TypeOK, NEW s \in Schedules, EnqueueLater(s) \/ EnqueueNow(s)
  PROVE  /\ QueueTypes'
         /\ QueueIsClean => /\ QueueIsClean'
                            /\ \A x \in Schedules : Queued(x)' <=> Queued(x) \/ x = s
<1> DEFINE w == Without(due, s)
<1>1. /\ w \in Seq(Schedules)
      /\ \A x : Contains(w, x) => Contains(due, x)
      /\ \A x : Contains(due, x) /\ x # s => Contains(w, x)
      /\ IsInjective(due) => IsInjective(w) /\ ~Contains(w, s)
  BY WithoutEntries DEF TypeOK
<1>2. CASE EnqueueLater(s)
  <2>1. later' = later \union {s} /\ due' = w
    BY <1>2 DEF EnqueueLater
  <2> HIDE DEF w
  <2>2. QueueTypes'
    BY <1>1, <2>1 DEF QueueTypes, TypeOK
  <2>3. ASSUME QueueIsClean
        PROVE  QueueIsClean' /\ \A x \in Schedules : Queued(x)' <=> Queued(x) \/ x = s
    BY <1>1, <2>1, <2>3, Zenon DEF QueueIsClean, Queued
  <2> QED
    BY <2>2, <2>3
<1>3. CASE EnqueueNow(s)
  <2>1. later' = later \ {s} /\ due' = Append(w, s)
    BY <1>3 DEF EnqueueNow
  <2> HIDE DEF w
  <2>2. /\ Append(w, s) \in Seq(Schedules)
        /\ \A x : Contains(Append(w, s), x) <=> x = s \/ Contains(w, x)
        /\ IsInjective(w) /\ ~Contains(w, s) => IsInjective(Append(w, s))
    BY <1>1, AppendEntries
  <2>3. QueueTypes'
    BY <2>1, <2>2 DEF QueueTypes, TypeOK
  <2>4. ASSUME QueueIsClean
        PROVE  QueueIsClean' /\ \A x \in Schedules : Queued(x)' <=> Queued(x) \/ x = s
    BY <1>1, <2>1, <2>2, <2>4, Zenon DEF QueueIsClean, Queued
  <2> QED
    BY <2>3, <2>4
<1> QED
  BY <1>2, <1>3

\* The head of the queue is taken off, or its schedule is at work elsewhere.
Absent(s, behind) == /\ IsInjective(behind) /\ ~Contains(behind, s) /\ s \notin later
                     /\ \A x \in Schedules : ~(x \in later /\ Contains(behind, x))

LEMMA Dequeues ==
  ASSUME TypeOK, due # <<>>
  PROVE  /\ Head(due) \in Schedules /\ Contains(due, Head(due)) /\ Tail(due) \in Seq(Schedules)
         /\ \A x : Contains(due, x) <=> x = Head(due) \/ Contains(Tail(due), x)
         /\ QueueIsClean => Absent(Head(due), Tail(due))
<1>1. due \in Seq(Schedules)
  BY DEF TypeOK
<1>2. /\ Head(due) \in Schedules /\ Contains(due, Head(due)) /\ Tail(due) \in Seq(Schedules)
      /\ \A x : Contains(due, x) <=> x = Head(due) \/ Contains(Tail(due), x)
      /\ IsInjective(due) => IsInjective(Tail(due)) /\ ~Contains(Tail(due), Head(due))
  BY <1>1, TailEntries
<1> QED
  BY <1>2, Zenon DEF QueueIsClean, Absent

LEMMA Reschedules ==
  ASSUME TypeOK, NEW s \in Schedules, NEW behind \in Seq(Schedules), Reschedule(s, behind)
  PROVE  /\ QueueTypes'
         /\ status' = IF s \in Recurring THEN status ELSE [status EXCEPT ![s] = "completed"]
         /\ Absent(s, behind) =>
              /\ QueueIsClean'
              /\ \A x \in Schedules :
                   Queued(x)' <=> \/ x \in later \/ Contains(behind, x)
                                  \/ x = s /\ s \in Recurring
<1> DEFINE Goal == Absent(s, behind) =>
              /\ QueueIsClean'
              /\ \A x \in Schedules :
                   Queued(x)' <=> \/ x \in later \/ Contains(behind, x)
                                  \/ x = s /\ s \in Recurring
<1>1. CASE s \in Recurring /\ later' = later \union {s} /\ due' = behind /\ status' = status
  <2>1. QueueTypes'
    BY <1>1 DEF QueueTypes, TypeOK
  <2>2. Goal
    BY <1>1, Zenon DEF Absent, QueueIsClean, Queued
  <2> QED
    BY <1>1, <2>1, <2>2
<1>2. CASE /\ s \in Recurring /\ later' = later /\ status' = status
           /\ \E i \in 1 .. Len(behind) + 1 : due' = InsertAt(behind, i, s)
  <2>1. PICK i \in 1 .. Len(behind) + 1 : due' = InsertAt(behind, i, s)
    BY <1>2
  <2>2. /\ due' \in Seq(Schedules)
        /\ \A x : Contains(due', x) <=> x = s \/ Contains(behind, x)
        /\ IsInjective(behind) /\ ~Contains(behind, s) => IsInjective(due')
    BY <2>1, InsertAtEntries
  <2>3. QueueTypes'
    BY <1>2, <2>2 DEF QueueTypes, TypeOK
  <2>4. Goal
    BY <1>2, <2>2, Zenon DEF Absent, QueueIsClean, Queued
  <2> QED
    BY <1>2, <2>3, <2>4
<1>3. CASE /\ s \notin Recurring /\ later' = later /\ due' = behind
           /\ status' = [status EXCEPT ![s] = "completed"]
  <2>1. QueueTypes'
    BY <1>3 DEF QueueTypes, TypeOK
  <2>2. Goal
    BY <1>3, Zenon DEF Absent, QueueIsClean, Queued
  <2> QED
    BY <1>3, <2>1, <2>2
<1> QED
  BY <1>1, <1>2, <1>3 DEF Reschedule

LEMMA DropsHeld ==
  ASSUME TypeOK, NEW s \in Schedules, DropHeld(s)
  PROVE  /\ HeldTypes' /\ pendingRuns' = [pendingRuns EXCEPT ![s] = 0]
         /\ HeldIsFound => HeldIsFound'
<1>1. /\ pending' \in Seq(Schedules)
      /\ \A x : Contains(pending, x) /\ x # s => Contains(pending', x)
  BY WithoutEntries DEF TypeOK, DropHeld
<1>2. pendingRuns' = [pendingRuns EXCEPT ![s] = 0] /\ 0 \in 0 .. MAX_PENDING_RUNS
  BY SchedulerAssumption DEF DropHeld
<1>3. HeldTypes'
  BY <1>1, <1>2 DEF HeldTypes, TypeOK
<1>4. HeldIsFound => HeldIsFound'
  BY <1>1, <1>2 DEF HeldIsFound, TypeOK
<1> QED
  BY <1>2, <1>3, <1>4

LEMMA Defers ==
  ASSUME TypeOK, NEW s \in Schedules, Defer(s)
  PROVE  /\ HeldTypes'
         /\ \A x \in Schedules \ {s} : pendingRuns'[x] = pendingRuns[x]
         /\ HeldIsFound => HeldIsFound'
<1>1. CASE pendingRuns[s] >= MAX_PENDING_RUNS
  BY <1>1 DEF Defer, heldVars, HeldTypes, TypeOK, HeldIsFound
<1>2. CASE pendingRuns[s] < MAX_PENDING_RUNS
  <2>1. /\ pendingRuns' = [pendingRuns EXCEPT ![s] = @ + 1]
        /\ pending' = IF Contains(pending, s) THEN pending ELSE Append(pending, s)
    BY <1>2, SchedulerAssumption DEF Defer, TypeOK
  <2>2. pending \in Seq(Schedules)
    BY DEF TypeOK
  <2>3. /\ Append(pending, s) \in Seq(Schedules)
        /\ \A x : Contains(Append(pending, s), x) <=> x = s \/ Contains(pending, x)
    BY <2>2, AppendEntries
  <2>4. /\ pending' \in Seq(Schedules)
        /\ \A x : Contains(pending', x) <=> x = s \/ Contains(pending, x)
    BY <2>1, <2>2, <2>3, Zenon
  <2>5. pendingRuns[s] + 1 \in 0 .. MAX_PENDING_RUNS
    BY <1>2, SchedulerAssumption DEF TypeOK
  <2>6. HeldTypes'
    BY <2>1, <2>4, <2>5 DEF HeldTypes, TypeOK
  <2>7. HeldIsFound => HeldIsFound'
    BY <2>1, <2>4 DEF HeldIsFound, TypeOK
  <2> QED
    BY <2>1, <2>6, <2>7 DEF TypeOK
<1> QED
  BY <1>1, <1>2, SchedulerAssumption DEF TypeOK

-----------------------------------------------------------------------------
(* The executions *)

\* Between two calls of a handler every execution is in flight.
NoSync == turn.calling = None =>
            \A e \in Execs : exec[e] # None => exec[e].phase # "sync"

ExecType == exec \in [Execs -> Execution \union {None}]

LEMMA AllInFlight ==
  ASSUME NoSync, turn.calling = None
  PROVE  InFlight = Active
BY DEF NoSync, InFlight, Active

LEMMA ActiveIsFinite ==
  ASSUME NEW E, E \subseteq Execs
  PROVE  IsFiniteSet(E) /\ Cardinality(E) \in Nat
BY SchedulerAssumption, FS_Subset, FS_CardinalityType

LEMMA Room ==
  ASSUME NoSync, turn.calling = None, ~AtCeiling
  PROVE  Cardinality(Active) < MaxConcurrency
<1>1. Active \subseteq Execs /\ InFlight = Active
  BY AllInFlight DEF Active
<1>2. Cardinality(Active) \in Nat
  BY <1>1, ActiveIsFinite
<1> QED
  BY <1>1, <1>2, SchedulerAssumption DEF AtCeiling

LEMMA AbortedProperties ==
  ASSUME TypeOK, NEW E
  PROVE  /\ Aborted(E) \in [Execs -> Execution \union {None}]
         /\ \A e \in Execs : Aborted(E)[e] = None <=> exec[e] = None
         /\ \A e \in Execs : exec[e] # None =>
              /\ Aborted(E)[e].of = exec[e].of /\ Aborted(E)[e].phase = exec[e].phase
              /\ Aborted(E)[e].aborted <=> exec[e].aborted \/ e \in E
<1> SUFFICES ASSUME NEW e \in Execs
             PROVE  /\ Aborted(E)[e] \in Execution \union {None}
                    /\ Aborted(E)[e] = None <=> exec[e] = None
                    /\ exec[e] # None =>
                         /\ Aborted(E)[e].of = exec[e].of /\ Aborted(E)[e].phase = exec[e].phase
                         /\ Aborted(E)[e].aborted <=> exec[e].aborted \/ e \in E
  BY DEF Aborted
<1>1. CASE exec[e] = None
  BY <1>1 DEF Aborted
<1>2. CASE exec[e] # None /\ e \notin E
  BY <1>2 DEF Aborted, TypeOK
<1>3. CASE exec[e] # None /\ e \in E
  <2>1. Aborted(E)[e] = [exec[e] EXCEPT !.aborted = TRUE]
    BY <1>3 DEF Aborted
  <2>2. exec[e] \in Execution
    BY <1>3 DEF TypeOK
  <2>3. Aborted(E)[e] \in Execution
    BY <2>1, <2>2 DEF Execution
  <2>4. /\ Aborted(E)[e].of = exec[e].of /\ Aborted(E)[e].phase = exec[e].phase
        /\ Aborted(E)[e].aborted
    BY <2>1, <2>2 DEF Execution
  <2> QED
    BY <1>3, <2>3, <2>4, SchedulerAssumption
<1> QED
  BY <1>1, <1>2, <1>3

\* There is a name for one more execution below the ceiling.
LEMMA Begins ==
  ASSUME TypeOK, NEW s \in Schedules, Cardinality(Active) < MaxConcurrency, Begin(s)
  PROVE  /\ ExecType'
         /\ \E e \in Execs :
              /\ exec[e] = None
              /\ exec'[e] = [of |-> s, attempt |-> 1, aborted |-> FALSE, phase |-> "sync"]
              /\ \A f \in Execs \ {e} : exec'[f] = Aborted(Superseded(s))[f]
<1>1. \E x \in Execs : exec[x] = None
  <2>1. SUFFICES ASSUME \A x \in Execs : exec[x] # None PROVE FALSE
    OBVIOUS
  <2>2. Active = Execs
    BY <2>1 DEF Active
  <2> QED
    BY <2>2, SchedulerAssumption, ActiveIsFinite
<1> DEFINE e == CHOOSE x \in Execs : exec[x] = None
           new == [of |-> s, attempt |-> 1, aborted |-> FALSE, phase |-> "sync"]
<1>2. e \in Execs /\ exec[e] = None
  BY <1>1
<1>3. exec' = [Aborted(Superseded(s)) EXCEPT ![e] = new]
  BY DEF Begin
<1>4. new \in Execution
  BY DEF Execution
<1> HIDE DEF e, new
<1>5. Aborted(Superseded(s)) \in [Execs -> Execution \union {None}]
  BY AbortedProperties
<1> QED
  BY <1>2, <1>3, <1>4, <1>5 DEF ExecType, new

LEMMA Rearms ==
  ASSUME TypeOK, Rearm
  PROVE  timer' \in {"off", "head", "far"} /\ (~running' => timer' = timer)
BY DEF Rearm, TypeOK

-----------------------------------------------------------------------------
(* Types *)

LEMMA TypesInit == Init => TypeOK /\ NoSync
<1> SUFFICES ASSUME Init PROVE TypeOK /\ NoSync
  OBVIOUS
<1>1. <<>> \in Seq(Schedules) /\ 0 \in 0 .. MAX_PENDING_RUNS
  BY SchedulerAssumption
<1>2. turn \in [kind : {"none", "tick", "drain"}, left : Seq(Schedules),
                calling : Schedules \union {None}]
  BY <1>1 DEF Init, Idle
<1>3. exec \in [Execs -> Execution \union {None}]
  BY DEF Init
<1> QED
  BY <1>1, <1>2, <1>3 DEF Init, TypeOK, NoSync

\* The types of the variables that most steps leave to the lemmas above.
Others == /\ running \in BOOLEAN /\ registered \subseteq Jobs
          /\ overlap \in [Schedules -> {"allow", "skip", "queue", "replace"}]
          /\ status \in [Schedules -> {"unborn", "active", "paused", "completed", "cancelled"}]
          /\ timer \in {"off", "head", "far"}
          /\ stopper \in {"idle", "waiting", "returned", "timedOut"}
          /\ awaited \subseteq Execs /\ aborting \in BOOLEAN
          /\ cancelCalls \subseteq Schedules

TurnType == turn \in [kind : {"none", "tick", "drain"}, left : Seq(Schedules),
                      calling : Schedules \union {None}]

Parts == QueueTypes /\ HeldTypes /\ ExecType /\ Others /\ TurnType

LEMMA TypesOfParts ==
  /\ TypeOK => Parts
  /\ QueueTypes' /\ HeldTypes' /\ ExecType' /\ Others' /\ TurnType' => TypeOK'
<1> USE DEF QueueTypes, HeldTypes, ExecType, Others, TurnType
<1>1. TypeOK => Parts
  BY Zenon DEF TypeOK, Parts
<1>2. QueueTypes' /\ HeldTypes' /\ ExecType' /\ Others' /\ TurnType' => TypeOK'
  BY Zenon DEF TypeOK
<1> QED
  BY <1>1, <1>2

LEMMA TypesStep ==
  ASSUME TypeOK, NoSync, [Next]_vars
  PROVE  TypeOK' /\ NoSync'
<1> USE DEF setup, queueVars, heldVars, stopVars
<1>0. QueueTypes /\ HeldTypes /\ ExecType /\ Others /\ TurnType
  BY TypesOfParts DEF Parts
<1>a. /\ UNCHANGED queueVars => QueueTypes'
      /\ UNCHANGED heldVars => HeldTypes'
      /\ UNCHANGED exec => ExecType'
      /\ UNCHANGED turn => TurnType'
  BY <1>0 DEF QueueTypes, HeldTypes, ExecType, TurnType
<1>b. UNCHANGED <<exec, turn>> => NoSync'
  BY DEF NoSync
<1>c. turn.left \in Seq(Schedules) /\ <<>> \in Seq(Schedules)
  BY <1>0 DEF TurnType
<1>1. CASE TickBegin
  <2>1. TurnType'
    BY <1>1, <1>c DEF TickBegin, Idle, TurnType
  <2>2. Others'
    BY <1>0, <1>1 DEF TickBegin, Others
  <2>3. NoSync'
    BY <1>1 DEF TickBegin, Idle, NoSync
  <2> QED
    BY <1>1, <1>a, <2>1, <2>2, <2>3, TypesOfParts DEF TickBegin
<1>2. CASE TickEnd \/ DrainEnd
  <2>0. turn' = Idle /\ turn.calling = None
    BY <1>2 DEF TickEnd, DrainEnd, Looping
  <2>1. TurnType' /\ turn.calling = None
    BY <2>0, <1>c DEF Idle, TurnType
  <2>2. Others'
    BY <1>0, <1>2, Rearms DEF TickEnd, DrainEnd, Others
  <2>3. NoSync'
    BY <1>2, <2>1 DEF TickEnd, DrainEnd, NoSync
  <2> QED
    BY <1>2, <1>a, <2>1, <2>2, <2>3, TypesOfParts DEF TickEnd, DrainEnd
<1>3. CASE TickSkip
  <2>1. QueueTypes'
    BY <1>3, <1>0, Dequeues DEF TickSkip, QueueTypes
  <2>2. Others'
    BY <1>0, <1>3 DEF TickSkip, Others
  <2> QED
    BY <1>3, <1>a, <1>b, <2>1, <2>2, TypesOfParts DEF TickSkip
<1>4. CASE TickDispatch
  <2> DEFINE s == Head(due)
  <2>1. s \in Schedules /\ Tail(due) \in Seq(Schedules) /\ turn.calling = None
    BY <1>4, Dequeues DEF TickDispatch, Looping
  <2>2. Cardinality(Active) < MaxConcurrency
    BY <1>4, <2>1, Room DEF TickDispatch
  <2>3. /\ UNCHANGED <<running, setup, timer, stopVars, cancelCalls>>
        /\ \/ RetireDropping(s, "cancelled") /\ UNCHANGED <<exec, turn>>
           \/ Reschedule(s, Tail(due)) /\ UNCHANGED <<heldVars, exec, turn>>
           \/ /\ Defer(s) /\ exec' = Aborted(Superseded(s)) /\ Reschedule(s, Tail(due))
              /\ UNCHANGED turn
           \/ /\ Begin(s) /\ due' = Tail(due) /\ turn' = [turn EXCEPT !.calling = s]
              /\ UNCHANGED <<status, later, heldVars>>
    BY <1>4 DEF TickDispatch
  <2> HIDE DEF s
  <2>4. CASE RetireDropping(s, "cancelled") /\ UNCHANGED <<exec, turn>>
    <3>1. QueueTypes' /\ HeldTypes'
      BY <2>1, <2>4, Unqueues, DropsHeld DEF RetireDropping
    <3>2. Others'
      BY <1>0, <2>1, <2>3, <2>4 DEF RetireDropping, Others
    <3> QED
      BY <1>a, <1>b, <2>4, <3>1, <3>2, TypesOfParts
  <2>5. CASE Reschedule(s, Tail(due)) /\ UNCHANGED <<heldVars, exec, turn>>
    <3>1. QueueTypes' /\ Others'
      BY <1>0, <2>1, <2>3, <2>5, Reschedules DEF Others
    <3> QED
      BY <1>a, <1>b, <2>5, <3>1, TypesOfParts
  <2>6. CASE /\ Defer(s) /\ exec' = Aborted(Superseded(s)) /\ Reschedule(s, Tail(due))
             /\ UNCHANGED turn
    <3>1. QueueTypes' /\ Others'
      BY <1>0, <2>1, <2>3, <2>6, Reschedules DEF Others
    <3>2. HeldTypes' /\ ExecType'
      BY <2>1, <2>6, Defers, AbortedProperties DEF ExecType
    <3>3. NoSync'
      BY <2>6, AbortedProperties DEF NoSync
    <3> QED
      BY <1>a, <2>6, <3>1, <3>2, <3>3, TypesOfParts
  <2>7. CASE /\ Begin(s) /\ due' = Tail(due) /\ turn' = [turn EXCEPT !.calling = s]
             /\ UNCHANGED <<status, later, heldVars>>
    <3>1. QueueTypes' /\ Others'
      BY <1>0, <2>1, <2>3, <2>7 DEF QueueTypes, Others
    <3>2. ExecType'
      BY <2>1, <2>2, <2>7, Begins
    <3>3. TurnType' /\ turn'.calling # None
      BY <1>0, <2>1, <2>7, SchedulerAssumption DEF TurnType
    <3> QED
      BY <1>a, <2>7, <3>1, <3>2, <3>3, TypesOfParts DEF NoSync
  <2> QED
    BY <2>3, <2>4, <2>5, <2>6, <2>7
<1>5. CASE DrainNext
  <2>1. Tail(turn.left) \in Seq(Schedules) /\ Head(turn.left) \in Schedules
    BY <1>5, <1>c, TailEntries DEF DrainNext
  <2>2. HeldTypes'
    BY <1>0, <1>5, <2>1, WithoutEntries DEF DrainNext, HeldTypes
  <2>3. TurnType' /\ turn'.calling = turn.calling
    BY <1>0, <1>5, <2>1 DEF DrainNext, TurnType
  <2>4. Others'
    BY <1>0, <1>5 DEF DrainNext, Others
  <2>5. NoSync'
    BY <1>5, <2>3 DEF DrainNext, NoSync
  <2> QED
    BY <1>5, <1>a, <2>2, <2>3, <2>4, <2>5, TypesOfParts DEF DrainNext
<1>6. CASE DrainDispatch
  <2> DEFINE s == Head(turn.left)
             OneLess == pendingRuns' = [pendingRuns EXCEPT ![s] = @ - 1]
  <2>1. s \in Schedules /\ Tail(turn.left) \in Seq(Schedules) /\ turn.calling = None
    BY <1>6, <1>c, TailEntries DEF DrainDispatch, Looping
  <2>2. Cardinality(Active) < MaxConcurrency
    BY <1>6, <2>1, Room DEF DrainDispatch
  <2>3. /\ UNCHANGED <<running, setup, timer, stopVars, cancelCalls>>
        /\ pendingRuns[s] > 0
        /\ \/ RetireDropping(s, "cancelled") /\ UNCHANGED <<exec, turn>>
           \/ OneLess /\ UNCHANGED <<status, queueVars, pending, exec, turn>>
           \/ /\ exec' = Aborted(Superseded(s))
              /\ turn' = [turn EXCEPT !.left = Tail(@)]
              /\ UNCHANGED <<status, queueVars, heldVars>>
           \/ /\ OneLess /\ Begin(s) /\ turn' = [turn EXCEPT !.calling = s]
              /\ UNCHANGED <<status, queueVars, pending>>
    BY <1>6 DEF DrainDispatch
  <2> HIDE DEF s
  <2>4. CASE RetireDropping(s, "cancelled") /\ UNCHANGED <<exec, turn>>
    <3>1. QueueTypes' /\ HeldTypes'
      BY <2>1, <2>4, Unqueues, DropsHeld DEF RetireDropping
    <3>2. Others'
      BY <1>0, <2>1, <2>3, <2>4 DEF RetireDropping, Others
    <3> QED
      BY <1>a, <1>b, <2>4, <3>1, <3>2, TypesOfParts
  <2>5. CASE OneLess /\ UNCHANGED <<status, queueVars, pending, exec, turn>>
    <3>1. HeldTypes'
      BY <1>0, <2>1, <2>3, <2>5, SchedulerAssumption DEF HeldTypes
    <3>2. Others'
      BY <1>0, <2>3, <2>5 DEF Others
    <3> QED
      BY <1>a, <1>b, <2>5, <3>1, <3>2, TypesOfParts
  <2>6. CASE /\ exec' = Aborted(Superseded(s)) /\ turn' = [turn EXCEPT !.left = Tail(@)]
             /\ UNCHANGED <<status, queueVars, heldVars>>
    <3>1. ExecType'
      BY <2>6, AbortedProperties DEF ExecType
    <3>2. TurnType' /\ turn'.calling = turn.calling
      BY <1>0, <2>1, <2>6 DEF TurnType
    <3>3. Others'
      BY <1>0, <2>3, <2>6 DEF Others
    <3>4. NoSync'
      BY <2>6, <3>2, AbortedProperties DEF NoSync
    <3> QED
      BY <1>a, <2>6, <3>1, <3>2, <3>3, <3>4, TypesOfParts
  <2>7. CASE /\ OneLess /\ Begin(s) /\ turn' = [turn EXCEPT !.calling = s]
             /\ UNCHANGED <<status, queueVars, pending>>
    <3>1. HeldTypes'
      BY <1>0, <2>1, <2>3, <2>7, SchedulerAssumption DEF HeldTypes
    <3>2. ExecType'
      BY <2>1, <2>2, <2>7, Begins
    <3>3. TurnType' /\ turn'.calling # None
      BY <1>0, <2>1, <2>7, SchedulerAssumption DEF TurnType
    <3>4. Others'
      BY <1>0, <2>3, <2>7 DEF Others
    <3> QED
      BY <1>a, <2>7, <3>1, <3>2, <3>3, <3>4, TypesOfParts DEF NoSync
  <2> QED
    BY <2>3, <2>4, <2>5, <2>6, <2>7
<1>7. CASE HandlerAwaits
  <2>1. turn.calling \in Schedules /\ TurnType' /\ turn' = [turn EXCEPT !.calling = None]
    BY <1>0, <1>7 DEF HandlerAwaits, TurnType
  <2>2. /\ exec' = [e \in Execs |-> IF e \in Active \ InFlight
                                    THEN [exec[e] EXCEPT !.phase = "attempt"]
                                    ELSE exec[e]]
        /\ Reschedule(turn.calling, due) \/ UNCHANGED <<status, queueVars>>
        /\ UNCHANGED <<running, setup, heldVars, timer, stopVars, cancelCalls>>
    BY <1>7 DEF HandlerAwaits
  <2>3. ASSUME NEW e \in Execs
        PROVE  /\ exec'[e] \in Execution \union {None}
               /\ exec'[e] # None => exec'[e].phase # "sync"
    <3>1. CASE e \in Active \ InFlight
      <4>1. exec[e] \in Execution /\ exec'[e] = [exec[e] EXCEPT !.phase = "attempt"]
        BY <1>0, <2>2, <3>1 DEF Active, ExecType
      <4> QED
        BY <4>1 DEF Execution
    <3>2. CASE e \notin Active \ InFlight
      BY <1>0, <2>2, <3>2 DEF Active, InFlight, ExecType
    <3> QED
      BY <3>1, <3>2
  <2>4. ExecType' /\ NoSync'
    BY <2>2, <2>3 DEF ExecType, NoSync
  <2>5. due \in Seq(Schedules)
    BY <1>0 DEF QueueTypes
  <2>6. QueueTypes' /\ Others'
    <3>1. CASE Reschedule(turn.calling, due)
      BY <1>0, <2>1, <2>2, <2>5, <3>1, Reschedules DEF Others
    <3>2. CASE UNCHANGED <<status, queueVars>>
      BY <1>0, <1>a, <2>2, <3>2 DEF Others
    <3> QED
      BY <2>2, <3>1, <3>2
  <2> QED
    BY <1>a, <2>1, <2>2, <2>4, <2>6, TypesOfParts
<1>8. ASSUME NEW e \in Execs, Progress(e) PROVE TypeOK' /\ NoSync'
  <2>1. e \in Active /\ exec[e] \in Execution /\ turn.calling = None
    BY <1>0, <1>8 DEF Progress, AttemptFails, RetryWakes, Settle, Active, ExecType, Idle
  <2>2. CASE AttemptFails(e)
    <3>1. exec' = [exec EXCEPT ![e].phase = "sleep"]
      BY <2>2 DEF AttemptFails
    <3>2. [exec[e] EXCEPT !.phase = "sleep"] \in Execution
      BY <2>1 DEF Execution
    <3>3. ExecType'
      BY <1>0, <3>1, <3>2 DEF ExecType
    <3>4. NoSync'
      BY <1>0, <2>1, <2>2, <3>1 DEF AttemptFails, NoSync, ExecType, Execution
    <3>5. Others'
      BY <1>0, <2>2 DEF AttemptFails, Others
    <3> QED
      BY <1>a, <2>2, <3>3, <3>4, <3>5, TypesOfParts DEF AttemptFails
  <2>3. CASE RetryWakes(e)
    <3>1. exec' = [exec EXCEPT ![e].phase = "attempt", ![e].attempt = @ + 1]
      BY <2>3 DEF RetryWakes
    <3>2. [exec[e] EXCEPT !.phase = "attempt", !.attempt = @ + 1] \in Execution
      <4>1. exec[e].attempt + 1 \in Nat
        BY <2>1 DEF Execution
      <4> DEFINE n == exec[e].attempt + 1
      <4> HIDE DEF n
      <4>3. [exec[e] EXCEPT !.phase = "attempt", !.attempt = n] \in Execution
        BY <2>1, <4>1 DEF Execution, n
      <4> QED
        BY <4>3 DEF n
    <3>3. exec'[e] = [exec[e] EXCEPT !.phase = "attempt", !.attempt = @ + 1]
          /\ \A f \in Execs \ {e} : exec'[f] = exec[f]
      BY <1>0, <2>1, <3>1, <3>2 DEF ExecType
    <3>4. NoSync'
      BY <1>0, <2>1, <2>3, <3>3 DEF RetryWakes, NoSync, ExecType, Execution
    <3>5. Others'
      BY <1>0, <2>3 DEF RetryWakes, Others
    <3>6. ExecType'
      BY <1>0, <2>1, <3>1, <3>2 DEF ExecType
    <3> QED
      BY <1>a, <2>3, <3>4, <3>5, <3>6, TypesOfParts DEF RetryWakes
  <2>4. CASE Settle(e)
    <3>1. exec' = [exec EXCEPT ![e] = None]
      BY <2>4 DEF Settle
    <3>2. ExecType' /\ \A f \in Execs : exec'[f] # None => exec'[f] = exec[f]
      BY <1>0, <3>1 DEF ExecType
    <3>3. TurnType' /\ turn'.calling = None
      <4>1. turn' = turn \/ turn' = [Idle EXCEPT !.kind = "drain", !.left = pending]
        BY <2>4 DEF Settle
      <4>2. pending \in Seq(Schedules)
        BY <1>0 DEF HeldTypes
      <4> QED
        BY <1>0, <2>1, <4>1, <4>2 DEF TurnType, Idle
    <3>4. NoSync'
      BY <2>1, <3>2 DEF NoSync
    <3>5. Others'
      <4>1. timer' \in {"off", "head", "far"}
        BY <1>0, <2>4, Rearms DEF Settle, Others
      <4> QED
        BY <1>0, <2>4, <4>1 DEF Settle, Others
    <3> QED
      BY <1>a, <2>4, <3>2, <3>3, <3>4, <3>5, TypesOfParts DEF Settle
  <2> QED
    BY <1>8, <2>2, <2>3, <2>4 DEF Progress
<1>9. ASSUME NEW s \in Schedules, ScheduleJob(s) PROVE TypeOK' /\ NoSync'
  <2>1. QueueTypes'
    BY <1>9, Enqueues DEF ScheduleJob
  <2>2. overlap' \in [Schedules -> {"allow", "skip", "queue", "replace"}]
    <3>1. PICK policy \in Policies[s] : overlap' = [overlap EXCEPT ![s] = policy]
      BY <1>9 DEF ScheduleJob
    <3>2. policy \in {"allow", "skip", "queue", "replace"}
      BY SchedulerAssumption
    <3> QED
      BY <1>0, <3>1, <3>2 DEF Others
  <2>3. Others'
    BY <1>0, <1>9, <2>2, Rearms DEF ScheduleJob, Others
  <2> QED
    BY <1>9, <1>a, <1>b, <2>1, <2>3, TypesOfParts DEF ScheduleJob
<1>10. ASSUME NEW s \in Schedules, Pause(s) PROVE TypeOK' /\ NoSync'
  <2>1. QueueTypes'
    BY <1>10, Unqueues DEF Pause
  <2>2. Others'
    BY <1>0, <1>10 DEF Pause, Others
  <2> QED
    BY <1>10, <1>a, <1>b, <2>1, <2>2, TypesOfParts DEF Pause
<1>11. ASSUME NEW s \in Schedules, Resume(s) PROVE TypeOK' /\ NoSync'
  <2>1. CASE /\ EnqueueLater(s) \/ (s \notin Recurring /\ EnqueueNow(s))
             /\ status' = [status EXCEPT ![s] = "active"]
             /\ UNCHANGED heldVars
             /\ UNCHANGED <<running, setup, exec, turn, stopVars, cancelCalls>>
             /\ Rearm
    <3>1. QueueTypes'
      BY <2>1, Enqueues
    <3>2. Others'
      BY <1>0, <2>1, Rearms DEF Others
    <3> QED
      BY <2>1, <1>a, <1>b, <3>1, <3>2, TypesOfParts
  <2>2. CASE /\ RetireDropping(s, "completed")
             /\ UNCHANGED <<running, setup, exec, timer, turn, stopVars, cancelCalls>>
    <3>1. QueueTypes' /\ HeldTypes'
      BY <2>2, Unqueues, DropsHeld DEF RetireDropping
    <3>2. Others'
      BY <1>0, <2>2 DEF RetireDropping, Others
    <3> QED
      BY <2>2, <1>a, <1>b, <3>1, <3>2, TypesOfParts
  <2> QED
    BY <1>11, <2>1, <2>2 DEF Resume
<1>12. ASSUME NEW s \in Schedules, Cancel(s) PROVE TypeOK' /\ NoSync'
  <2>1. exec' = Aborted(ExecutionsOf(s)) /\ UNCHANGED turn
    BY <1>12 DEF Cancel
  <2>2. ExecType' /\ NoSync'
    BY <2>1, AbortedProperties DEF ExecType, NoSync
  <2>3. CASE RetireDropping(s, "cancelled")
    <3>1. QueueTypes' /\ HeldTypes'
      BY <2>3, Unqueues, DropsHeld DEF RetireDropping
    <3>2. Others'
      BY <1>0, <1>12, <2>3 DEF Cancel, RetireDropping, Others
    <3> QED
      BY <1>a, <2>1, <2>2, <3>1, <3>2, TypesOfParts
  <2>4. CASE UNCHANGED <<status, queueVars, heldVars>>
    <3>1. Others'
      BY <1>0, <1>12, <2>4 DEF Cancel, Others
    <3> QED
      BY <1>a, <2>1, <2>2, <2>4, <3>1, TypesOfParts
  <2> QED
    BY <1>12, <2>3, <2>4 DEF Cancel
<1>13. ASSUME NEW s \in Schedules, FireTimeComes(s) PROVE TypeOK' /\ NoSync'
  <2>1. QueueTypes'
    BY <1>13, Enqueues DEF FireTimeComes
  <2>2. Others'
    BY <1>0, <1>13 DEF FireTimeComes, Others
  <2> QED
    BY <1>13, <1>a, <1>b, <2>1, <2>2, TypesOfParts DEF FireTimeComes
<1>14. ASSUME NEW j \in Jobs, Unregister(j) PROVE TypeOK' /\ NoSync'
  <2>1. Others'
    BY <1>0, <1>14 DEF Unregister, Others
  <2> QED
    BY <1>14, <1>a, <1>b, <2>1, TypesOfParts DEF Unregister
<1>15. CASE Start
  <2>1. TurnType'
    BY <1>15, <1>c DEF Start, Idle, TurnType
  <2>2. Others'
    BY <1>0, <1>15 DEF Start, Others
  <2>3. NoSync'
    BY <1>15 DEF Start, Idle, NoSync
  <2> QED
    BY <1>15, <1>a, <2>1, <2>2, <2>3, TypesOfParts DEF Start
<1>16. CASE StopAgain \/ StopReturns \/ StopTimesOut
  <2>1. Others'
    BY <1>0, <1>16 DEF StopAgain, WaitForAll, StopReturns, StopTimesOut, Others, InFlight, Active
  <2> QED
    BY <1>16, <1>a, <1>b, <2>1, TypesOfParts DEF StopAgain, StopReturns, StopTimesOut
<1>17. ASSUME NEW kind \in StopKinds, Stop(kind) PROVE TypeOK' /\ NoSync'
  <2>1. Others'
    BY <1>0, <1>17 DEF Stop, WaitForAll, Others, InFlight, Active
  <2>2. CASE kind = "abort"
    <3>1. exec' = Aborted(Active) /\ UNCHANGED turn
      BY <1>17, <2>2 DEF Stop
    <3>2. ExecType' /\ NoSync'
      BY <3>1, AbortedProperties DEF ExecType, NoSync
    <3>3. HeldTypes'
      <4>1. /\ pendingRuns' = [s \in Schedules |->
                                IF Contains(pending, s) THEN 0 ELSE pendingRuns[s]]
            /\ pending' = <<>>
        BY <1>17, <2>2 DEF Stop
      <4> QED
        BY <1>0, <1>c, <4>1, SchedulerAssumption DEF HeldTypes
    <3> QED
      BY <1>17, <1>a, <2>1, <3>1, <3>2, <3>3, TypesOfParts DEF Stop
  <2>3. CASE kind # "abort"
    BY <1>17, <1>a, <1>b, <2>1, <2>3, TypesOfParts DEF Stop
  <2> QED
    BY <2>2, <2>3
<1>18. CASE UNCHANGED vars
  <2>1. Others'
    BY <1>0, <1>18 DEF vars, Others
  <2> QED
    BY <1>18, <1>a, <1>b, <2>1, TypesOfParts DEF vars
<1> QED
  BY <1>1, <1>2, <1>3, <1>4, <1>5, <1>6, <1>7, <1>8, <1>9, <1>10, <1>11, <1>12, <1>13,
     <1>14, <1>15, <1>16, <1>17, <1>18 DEF Next, TurnStep

\* Every variable keeps its type, and a loop stands where the code can stand.
THEOREM SchedulerTypes == Spec => []TypeOK
<1>1. Init => TypeOK /\ NoSync
  BY TypesInit
<1>2. TypeOK /\ NoSync /\ [Next]_vars => (TypeOK /\ NoSync)'
  BY TypesStep
<1> QED
  BY <1>1, <1>2, PTL DEF Spec

-----------------------------------------------------------------------------
(* Fire times.  While tick() calls the handler of a schedule that schedule *)
(* is out of the queue, which is why queueing it afterwards doubles nothing. *)

TickCalls(s) == turn.kind = "tick" /\ turn.calling = s

Gone == {"unborn", "completed", "cancelled"}

FireTimeOf(s) == /\ status[s] = "active" /\ ~TickCalls(s) => Queued(s)
                 /\ status[s] \in Gone => ~Queued(s)
                 /\ TickCalls(s) => ~Queued(s) /\ status[s] # "unborn"

FireInv == QueueIsClean /\ HeldIsFound /\ \A s \in Schedules : FireTimeOf(s)

LEMMA FireInit == Init => FireInv
<1> SUFFICES ASSUME Init PROVE FireInv
  OBVIOUS
<1>1. IsInjective(due) /\ \A x : ~Contains(due, x)
  BY DEF Init, IsInjective, Contains
<1> QED
  BY <1>1 DEF Init, FireInv, QueueIsClean, HeldIsFound, FireTimeOf, TickCalls, Queued, Idle

\* A retired schedule leaves the queue and its held-back runs.
LEMMA Retires ==
  ASSUME TypeOK, FireInv, NEW s \in Schedules, NEW state \in Gone \ {"unborn"},
         RetireDropping(s, state), UNCHANGED turn
  PROVE  FireInv'
<1>1. QueueIsClean' /\ \A x \in Schedules : Queued(x)' <=> Queued(x) /\ x # s
  BY Unqueues DEF RetireDropping, FireInv
<1>2. HeldIsFound'
  BY DropsHeld DEF RetireDropping, FireInv
<1>3. status'[s] = state /\ \A x \in Schedules \ {s} : status'[x] = status[x]
  BY DEF RetireDropping, TypeOK
<1>4. ASSUME NEW x \in Schedules PROVE FireTimeOf(x)'
  BY <1>1, <1>3, Zenon DEF FireInv, FireTimeOf, TickCalls, Gone
<1> QED
  BY <1>1, <1>2, <1>4 DEF FireInv

\* A schedule that stands in no queue is queued again, or retired.
LEMMA FiresAgain ==
  ASSUME TypeOK, FireInv, NEW s \in Schedules, NEW behind \in Seq(Schedules),
         Reschedule(s, behind), Absent(s, behind), status[s] # "unborn",
         \A x \in Schedules \ {s} : Queued(x) <=> x \in later \/ Contains(behind, x),
         s \in Recurring => status[s] \in {"active", "paused"},
         \A x \in Schedules \ {s} : ~TickCalls(x),
         ~TickCalls(s)', \A x \in Schedules \ {s} : ~TickCalls(x)'
  PROVE  QueueIsClean' /\ \A x \in Schedules : FireTimeOf(x)'
<1>1. /\ QueueIsClean'
      /\ \A x \in Schedules :
           Queued(x)' <=> x \in later \/ Contains(behind, x) \/ (x = s /\ s \in Recurring)
      /\ status' = IF s \in Recurring THEN status ELSE [status EXCEPT ![s] = "completed"]
  BY Reschedules
<1>2. ASSUME NEW x \in Schedules \ {s} PROVE FireTimeOf(x)'
  <2>1. status'[x] = status[x]
    BY <1>1 DEF TypeOK
  <2>2. Queued(x)' <=> Queued(x)
    BY <1>1
  <2> QED
    BY <2>1, <2>2 DEF FireInv, FireTimeOf
<1>3. FireTimeOf(s)'
  <2>1. CASE s \in Recurring
    <3>1. status'[s] \in {"active", "paused"} /\ Queued(s)'
      BY <1>1, <2>1
    <3> QED
      BY <3>1 DEF FireTimeOf, Gone
  <2>2. CASE s \notin Recurring
    <3>1. status'[s] = "completed"
      BY <1>1, <2>2 DEF TypeOK
    <3>2. ~Queued(s)'
      BY <1>1, <2>2 DEF Absent
    <3> QED
      BY <3>1, <3>2 DEF FireTimeOf
  <2> QED
    BY <2>1, <2>2
<1> QED
  BY <1>1, <1>2, <1>3

LEMMA FireStep ==
  ASSUME TypeOK, NoSync, FireInv, [Next]_vars
  PROVE  FireInv'
<1> USE DEF setup, queueVars, heldVars, stopVars
<1>0. QueueIsClean /\ HeldIsFound /\ \A s \in Schedules : FireTimeOf(s)
  BY DEF FireInv
<1>a. /\ UNCHANGED queueVars => QueueIsClean' /\ \A x \in Schedules : Queued(x)' <=> Queued(x)
      /\ UNCHANGED heldVars => HeldIsFound'
      /\ UNCHANGED turn => \A x \in Schedules : TickCalls(x)' <=> TickCalls(x)
      /\ turn' = [turn EXCEPT !.left = Tail(@)] => \A x \in Schedules : TickCalls(x)' <=> TickCalls(x)
  BY <1>0 DEF QueueIsClean, Queued, HeldIsFound, TickCalls, TypeOK
<1>b. /\ turn.calling = None => \A x \in Schedules : ~TickCalls(x)
      /\ turn'.calling = None => \A x \in Schedules : ~TickCalls(x)'
  BY SchedulerAssumption DEF TickCalls
<1>c. Idle.calling = None
  BY DEF Idle
\* A step that leaves the statuses and the queue alone, and calls nobody anew.
<1>d. ASSUME UNCHANGED <<status, queueVars, heldVars>>,
             UNCHANGED turn \/ (turn.calling = None /\ turn'.calling = None)
      PROVE  FireInv'
  <2>1. \A x \in Schedules : TickCalls(x)' <=> TickCalls(x)
    BY <1>a, <1>b, <1>d
  <2> QED
    BY <1>0, <1>a, <1>d, <2>1 DEF FireInv, FireTimeOf
<1>1. CASE TickBegin \/ TickEnd \/ DrainEnd \/ Start
  <2>1. turn.calling = None /\ turn'.calling = None
    BY <1>1 DEF TickBegin, TickEnd, DrainEnd, Start, Looping, Idle
  <2> QED
    BY <1>1, <1>d, <2>1 DEF TickBegin, TickEnd, DrainEnd, Start
<1>2. CASE TickSkip
  <2>1. /\ Absent(Head(due), Tail(due)) /\ Head(due) \in Schedules
        /\ \A x : Contains(due, x) <=> x = Head(due) \/ Contains(Tail(due), x)
    BY <1>0, <1>2, Dequeues DEF TickSkip
  <2>2. /\ turn.calling = None /\ due' = Tail(due) /\ UNCHANGED <<status, later, heldVars, turn>>
        /\ status[Head(due)] # "active"
    BY <1>2 DEF TickSkip, Looping
  <2>3. QueueIsClean' /\ \A x \in Schedules : Queued(x)' <=> Queued(x) /\ x # Head(due)
    BY <2>1, <2>2, Zenon DEF Absent, QueueIsClean, Queued
  <2>4. ASSUME NEW x \in Schedules PROVE FireTimeOf(x)'
    BY <1>0, <1>a, <2>2, <2>3 DEF FireTimeOf
  <2> QED
    BY <1>a, <2>2, <2>3, <2>4 DEF FireInv
<1>3. CASE TickDispatch
  <2> DEFINE s == Head(due)
  <2>1. /\ s \in Schedules /\ Tail(due) \in Seq(Schedules) /\ Absent(s, Tail(due))
        /\ \A x : Contains(due, x) <=> x = s \/ Contains(Tail(due), x)
    BY <1>0, <1>3, Dequeues DEF TickDispatch
  <2>2. /\ turn.calling = None /\ status[s] = "active"
        /\ \/ RetireDropping(s, "cancelled") /\ UNCHANGED <<exec, turn>>
           \/ Reschedule(s, Tail(due)) /\ UNCHANGED <<heldVars, exec, turn>>
           \/ Defer(s) /\ Reschedule(s, Tail(due)) /\ UNCHANGED turn
           \/ /\ due' = Tail(due) /\ turn' = [turn EXCEPT !.calling = s]
              /\ UNCHANGED <<status, later, heldVars>>
    BY <1>3 DEF TickDispatch, Looping
  <2>3. turn.kind = "tick"
    BY <1>3 DEF TickDispatch, Looping
  <2> HIDE DEF s
  <2>4. CASE RetireDropping(s, "cancelled") /\ UNCHANGED <<exec, turn>>
    BY <2>1, <2>4, Retires DEF Gone
  <2>5. CASE Reschedule(s, Tail(due)) /\ UNCHANGED turn /\ HeldIsFound'
    <3>1. \A x \in Schedules : ~TickCalls(x) /\ ~TickCalls(x)'
      BY <1>a, <1>b, <2>2, <2>5
    <3>2. \A x \in Schedules \ {s} : Queued(x) <=> x \in later \/ Contains(Tail(due), x)
      BY <2>1 DEF Queued
    <3>3. QueueIsClean' /\ \A x \in Schedules : FireTimeOf(x)'
      BY <2>1, <2>2, <2>5, <3>1, <3>2, FiresAgain
    <3> QED
      BY <2>5, <3>3 DEF FireInv
  <2>6. CASE /\ due' = Tail(due) /\ turn' = [turn EXCEPT !.calling = s]
             /\ UNCHANGED <<status, later, heldVars>>
    <3>1. QueueIsClean' /\ \A x \in Schedules : Queued(x)' <=> Queued(x) /\ x # s
      BY <2>1, <2>6, Zenon DEF Absent, QueueIsClean, Queued
    <3>2. \A x \in Schedules : TickCalls(x)' <=> x = s
      BY <2>3, <2>6 DEF TickCalls, TypeOK
    <3>3. \A x \in Schedules : ~TickCalls(x)
      BY <1>b, <2>2
    <3>4. ASSUME NEW x \in Schedules PROVE FireTimeOf(x)'
      BY <1>0, <2>2, <2>6, <3>1, <3>2, <3>3 DEF FireTimeOf
    <3> QED
      BY <1>a, <2>6, <3>1, <3>4 DEF FireInv
  <2>7. Defer(s) => HeldIsFound'
    BY <1>0, <2>1, Defers
  <2>8. UNCHANGED heldVars => HeldIsFound'
    BY <1>a
  <2> QED
    BY <2>2, <2>4, <2>5, <2>6, <2>7, <2>8
<1>4. CASE DrainNext
  <2> DEFINE s == Head(turn.left)
  <2>1. /\ pendingRuns[s] = 0 /\ pending' = Without(pending, s)
        /\ turn' = [turn EXCEPT !.left = Tail(@)]
        /\ UNCHANGED <<status, queueVars, pendingRuns>>
    BY <1>4 DEF DrainNext
  <2>2. \A x : Contains(pending, x) /\ x # s => Contains(pending', x)
    BY <2>1, WithoutEntries DEF TypeOK
  <2> HIDE DEF s
  <2>3. HeldIsFound'
    BY <1>0, <2>1, <2>2 DEF HeldIsFound, TypeOK
  <2>4. ASSUME NEW x \in Schedules PROVE FireTimeOf(x)'
    BY <1>0, <1>a, <2>1 DEF FireTimeOf
  <2> QED
    BY <1>a, <2>1, <2>3, <2>4 DEF FireInv
<1>5. CASE DrainDispatch
  <2> DEFINE s == Head(turn.left)
             OneLess == pendingRuns' = [pendingRuns EXCEPT ![s] = @ - 1]
  <2>1. s \in Schedules /\ turn.kind = "drain"
    BY <1>5, TailEntries DEF DrainDispatch, Looping, TypeOK
  <2>2. /\ turn.calling = None
        /\ \/ RetireDropping(s, "cancelled") /\ UNCHANGED <<exec, turn>>
           \/ OneLess /\ UNCHANGED <<status, queueVars, pending, exec, turn>>
           \/ /\ turn' = [turn EXCEPT !.left = Tail(@)]
              /\ UNCHANGED <<status, queueVars, heldVars>>
           \/ /\ OneLess /\ turn' = [turn EXCEPT !.calling = s]
              /\ UNCHANGED <<status, queueVars, pending>>
    BY <1>5 DEF DrainDispatch, Looping
  <2> HIDE DEF s
  <2>3. CASE RetireDropping(s, "cancelled") /\ UNCHANGED <<exec, turn>>
    BY <2>1, <2>3, Retires DEF Gone
  <2>4. CASE OneLess /\ UNCHANGED <<status, queueVars, pending>>
             /\ (UNCHANGED turn \/ turn' = [turn EXCEPT !.calling = s])
    <3>1. HeldIsFound'
      BY <1>0, <2>1, <2>4 DEF HeldIsFound, TypeOK
    <3>2. \A x \in Schedules : ~TickCalls(x) /\ ~TickCalls(x)'
      BY <2>1, <2>4 DEF TickCalls, TypeOK
    <3>3. ASSUME NEW x \in Schedules PROVE FireTimeOf(x)'
      BY <1>0, <1>a, <2>4, <3>2 DEF FireTimeOf
    <3> QED
      BY <1>a, <2>4, <3>1, <3>3 DEF FireInv
  <2>5. CASE /\ turn' = [turn EXCEPT !.left = Tail(@)]
             /\ UNCHANGED <<status, queueVars, heldVars>>
    <3>1. ASSUME NEW x \in Schedules PROVE FireTimeOf(x)'
      BY <1>0, <1>a, <2>5 DEF FireTimeOf
    <3> QED
      BY <1>a, <2>5, <3>1 DEF FireInv
  <2> QED
    BY <2>2, <2>3, <2>4, <2>5
<1>6. CASE HandlerAwaits
  <2> DEFINE s == turn.calling
  <2>1. /\ s \in Schedules /\ turn' = [turn EXCEPT !.calling = None] /\ UNCHANGED heldVars
        /\ IF turn.kind = "tick" /\ Live(s) THEN Reschedule(s, due)
                                            ELSE UNCHANGED <<status, queueVars>>
    BY <1>6 DEF HandlerAwaits, TypeOK
  <2>2. \A x \in Schedules : ~TickCalls(x)'
    <3>1. turn'.calling = None
      BY <2>1 DEF TypeOK
    <3> QED
      BY <1>b, <3>1
  <2>3. CASE turn.kind = "tick" /\ Live(s)
    <3>1. TickCalls(s) /\ status[s] \in {"active", "paused"}
      BY <2>3 DEF TickCalls, Live
    <3>2. ~Queued(s) /\ Reschedule(s, due)
      BY <1>0, <2>1, <2>3, <3>1 DEF FireTimeOf
    <3>3. Absent(s, due) /\ due \in Seq(Schedules)
      BY <1>0, <3>2 DEF Absent, Queued, QueueIsClean, TypeOK
    <3>4. \A x \in Schedules \ {s} : ~TickCalls(x)
      BY DEF TickCalls
    <3>5. \A x \in Schedules \ {s} : Queued(x) <=> x \in later \/ Contains(due, x)
      BY DEF Queued
    <3> HIDE DEF s
    <3>6. QueueIsClean' /\ \A x \in Schedules : FireTimeOf(x)'
      BY <2>1, <2>2, <3>1, <3>2, <3>3, <3>4, <3>5, FiresAgain
    <3> QED
      BY <1>a, <2>1, <3>6 DEF FireInv
  <2>4. CASE ~(turn.kind = "tick" /\ Live(s))
    <3>1. UNCHANGED <<status, queueVars>>
      BY <2>1, <2>4
    <3>2. ASSUME NEW x \in Schedules PROVE TickCalls(x) => status[x] # "active"
      BY <2>4 DEF TickCalls, Live
    <3>3. ASSUME NEW x \in Schedules PROVE FireTimeOf(x)'
      BY <1>0, <1>a, <2>2, <3>1, <3>2 DEF FireTimeOf
    <3> QED
      BY <1>a, <2>1, <3>1, <3>3 DEF FireInv
  <2> QED
    BY <2>3, <2>4
<1>7. ASSUME NEW e \in Execs, Progress(e) PROVE FireInv'
  <2>1. turn = Idle /\ UNCHANGED <<status, queueVars, heldVars>>
    BY <1>7 DEF Progress, AttemptFails, RetryWakes, Settle
  <2>2. UNCHANGED turn \/ turn'.calling = None
    BY <1>7 DEF Progress, AttemptFails, RetryWakes, Settle, Idle
  <2> QED
    BY <1>c, <1>d, <2>1, <2>2
<1>8. ASSUME NEW s \in Schedules, ScheduleJob(s) PROVE FireInv'
  <2>1. /\ EnqueueLater(s) \/ EnqueueNow(s)
        /\ status[s] = "unborn" /\ status' = [status EXCEPT ![s] = "active"]
        /\ UNCHANGED <<heldVars, turn>>
    BY <1>8 DEF ScheduleJob
  <2>2. QueueIsClean' /\ \A x \in Schedules : Queued(x)' <=> Queued(x) \/ x = s
    BY <1>0, <2>1, Enqueues
  <2>3. status'[s] = "active" /\ \A x \in Schedules \ {s} : status'[x] = status[x]
    BY <2>1 DEF TypeOK
  <2>4. ASSUME NEW x \in Schedules PROVE FireTimeOf(x)'
    BY <1>0, <1>a, <2>1, <2>2, <2>3 DEF FireTimeOf, Gone
  <2> QED
    BY <1>a, <2>1, <2>2, <2>4 DEF FireInv
<1>9. ASSUME NEW s \in Schedules, Pause(s) PROVE FireInv'
  <2>1. QueueIsClean' /\ \A x \in Schedules : Queued(x)' <=> Queued(x) /\ x # s
    BY <1>0, <1>9, Unqueues DEF Pause
  <2>2. /\ status'[s] = "paused" /\ \A x \in Schedules \ {s} : status'[x] = status[x]
        /\ UNCHANGED <<heldVars, turn>>
    BY <1>9 DEF Pause, TypeOK
  <2>3. ASSUME NEW x \in Schedules PROVE FireTimeOf(x)'
    BY <1>0, <1>a, <2>1, <2>2 DEF FireTimeOf, Gone
  <2> QED
    BY <1>a, <2>1, <2>2, <2>3 DEF FireInv
<1>10. ASSUME NEW s \in Schedules, Resume(s) PROVE FireInv'
  <2>1. turn.calling = None /\ UNCHANGED turn
    BY <1>10, <1>c DEF Resume
  <2>2. CASE RetireDropping(s, "completed")
    BY <2>1, <2>2, Retires DEF Gone
  <2>3. CASE /\ EnqueueLater(s) \/ EnqueueNow(s)
             /\ status' = [status EXCEPT ![s] = "active"] /\ UNCHANGED heldVars
    <3>1. QueueIsClean' /\ \A x \in Schedules : Queued(x)' <=> Queued(x) \/ x = s
      BY <1>0, <2>3, Enqueues
    <3>2. status'[s] = "active" /\ \A x \in Schedules \ {s} : status'[x] = status[x]
      BY <2>3 DEF TypeOK
    <3>3. \A x \in Schedules : ~TickCalls(x) /\ ~TickCalls(x)'
      BY <1>b, <2>1
    <3>4. ASSUME NEW x \in Schedules PROVE FireTimeOf(x)'
      BY <1>0, <3>1, <3>2, <3>3 DEF FireTimeOf, Gone
    <3> QED
      BY <1>a, <2>3, <3>1, <3>4 DEF FireInv
  <2> QED
    BY <1>10, <2>2, <2>3 DEF Resume
<1>11. ASSUME NEW s \in Schedules, Cancel(s) PROVE FireInv'
  <2>1. UNCHANGED turn
    BY <1>11 DEF Cancel
  <2>2. RetireDropping(s, "cancelled") \/ UNCHANGED <<status, queueVars, heldVars>>
    BY <1>11 DEF Cancel
  <2> QED
    BY <1>d, <2>1, <2>2, Retires DEF Gone
<1>12. ASSUME NEW s \in Schedules, FireTimeComes(s) PROVE FireInv'
  <2>1. EnqueueNow(s) /\ UNCHANGED <<status, heldVars, turn>> /\ Queued(s)
    BY <1>12 DEF FireTimeComes, Queued
  <2>2. QueueIsClean' /\ \A x \in Schedules : Queued(x)' <=> Queued(x)
    BY <1>0, <2>1, Enqueues
  <2>3. ASSUME NEW x \in Schedules PROVE FireTimeOf(x)'
    BY <1>0, <1>a, <2>1, <2>2 DEF FireTimeOf
  <2> QED
    BY <1>a, <2>1, <2>2, <2>3 DEF FireInv
<1>13. ASSUME NEW kind \in StopKinds, Stop(kind) PROVE FireInv'
  <2>1. UNCHANGED <<status, queueVars, turn>>
    BY <1>13 DEF Stop
  <2>2. HeldIsFound'
    <3>1. CASE kind = "abort"
      <4>1. pendingRuns' = [s \in Schedules |->
                              IF Contains(pending, s) THEN 0 ELSE pendingRuns[s]]
        BY <1>13, <3>1 DEF Stop
      <4>2. \A s \in Schedules : ~(pendingRuns'[s] > 0)
        BY <1>0, <4>1 DEF HeldIsFound
      <4> QED
        BY <4>2 DEF HeldIsFound
    <3>2. CASE kind # "abort"
      BY <1>13, <1>a, <3>2 DEF Stop
    <3> QED
      BY <3>1, <3>2
  <2>3. ASSUME NEW x \in Schedules PROVE FireTimeOf(x)'
    BY <1>0, <1>a, <2>1 DEF FireTimeOf
  <2> QED
    BY <1>a, <2>1, <2>2, <2>3 DEF FireInv
<1>14. CASE StopAgain \/ StopReturns \/ StopTimesOut \/ (\E j \in Jobs : Unregister(j)) \/ UNCHANGED vars
  BY <1>14, <1>d DEF StopAgain, StopReturns, StopTimesOut, Unregister, vars
<1> QED
  BY <1>1, <1>2, <1>3, <1>4, <1>5, <1>6, <1>7, <1>8, <1>9, <1>10, <1>11, <1>12, <1>13,
     <1>14 DEF Next, TurnStep

LEMMA FireInvIsEnough == FireInv => FireTimesAreKept
<1> SUFFICES ASSUME FireInv, NEW s \in Schedules
             PROVE  /\ IsInjective(due) /\ ~(s \in later /\ Contains(due, s))
                    /\ status[s] = "active" /\ turn.calling # s => s \in later \/ Contains(due, s)
                    /\ status[s] \in {"unborn", "completed", "cancelled"} =>
                           s \notin later /\ ~Contains(due, s)
                    /\ pendingRuns[s] > 0 => Contains(pending, s)
  BY DEF FireTimesAreKept, FireInv, QueueIsClean
<1>1. FireTimeOf(s) /\ (turn.calling # s => ~TickCalls(s))
  BY DEF FireInv, TickCalls
<1> QED
  BY <1>1 DEF FireInv, QueueIsClean, HeldIsFound, FireTimeOf, Queued, Gone

\* No fire time and no held-back run is lost or doubled, whatever a handler does
\* to its own schedule before its first await.
THEOREM FireTimesKept == Spec => []FireTimesAreKept
<1>1. Init => TypeOK /\ NoSync /\ FireInv
  BY TypesInit, FireInit
<1>2. TypeOK /\ NoSync /\ FireInv /\ [Next]_vars => (TypeOK /\ NoSync /\ FireInv)'
  BY TypesStep, FireStep
<1>3. FireInv => FireTimesAreKept
  BY FireInvIsEnough
<1> QED
  BY <1>1, <1>2, <1>3, PTL DEF Spec

-----------------------------------------------------------------------------
(* What a step may do to the executions and to a schedule *)

Survives(e) == /\ exec[e] # None /\ exec'[e].of = exec[e].of
               /\ exec[e].aborted => exec'[e].aborted

NoneStarts == \A e \in Execs : exec'[e] # None => Survives(e)

\* One execution of s starts; with "replace", the others of s are told to abort.
Starts(s, e) ==
    /\ exec[e] = None /\ exec'[e] # None /\ exec'[e].of = s
    /\ \A f \in Execs \ {e} : exec'[f] # None =>
          Survives(f) /\ (overlap[s] = "replace" /\ exec[f].of = s => exec'[f].aborted)

\* A dispatch starts it, from the queue or from the held-back runs.
Dispatched(s) == /\ turn.calling = None /\ turn # Idle /\ ~AtCeiling /\ Fate(s) = "start"
                 /\ status[s] = "active" \/ pendingRuns[s] > 0

LEMMA AbortStartsNone ==
  ASSUME TypeOK, NEW E, exec' = Aborted(E)
  PROVE  NoneStarts /\ \A e \in Execs : exec'[e] # None => (exec'[e].aborted <=> exec[e].aborted \/ e \in E)
BY AbortedProperties DEF NoneStarts, Survives

LEMMA BeginStarts ==
  ASSUME TypeOK, NEW s \in Schedules, Begin(s), Cardinality(Active) < MaxConcurrency
  PROVE  \E e \in Execs : Starts(s, e)
<1> DEFINE new == [of |-> s, attempt |-> 1, aborted |-> FALSE, phase |-> "sync"]
<1>1. PICK e \in Execs : /\ exec[e] = None /\ exec'[e] = new
                         /\ \A f \in Execs \ {e} : exec'[f] = Aborted(Superseded(s))[f]
  BY Begins
<1>2. new \in Execution /\ new.of = s
  BY DEF Execution
<1>3. exec'[e] # None /\ exec'[e].of = s
  BY <1>1, <1>2, SchedulerAssumption
<1>4. ASSUME NEW f \in Execs \ {e}, exec'[f] # None
      PROVE  Survives(f) /\ (overlap[s] = "replace" /\ exec[f].of = s => exec'[f].aborted)
  <2>1. exec[f] # None /\ exec'[f] = Aborted(Superseded(s))[f]
    BY <1>1, <1>4, AbortedProperties
  <2>2. /\ exec'[f].of = exec[f].of
        /\ exec'[f].aborted <=> exec[f].aborted \/ f \in Superseded(s)
    BY <2>1, AbortedProperties
  <2>3. overlap[s] = "replace" /\ exec[f].of = s => f \in Superseded(s)
    BY <2>1 DEF Superseded, ExecutionsOf, Active
  <2> QED
    BY <2>1, <2>2, <2>3 DEF Survives
<1> QED
  BY <1>1, <1>3, <1>4 DEF Starts

LEMMA ExecutionMoves ==
  ASSUME TypeOK, NoSync, [Next]_vars
  PROVE  \/ NoneStarts
         \/ \E s \in Schedules : /\ Dispatched(s) /\ UNCHANGED <<setup, cancelCalls>>
                                /\ \E e \in Execs : Starts(s, e)
<1>a. UNCHANGED exec => NoneStarts
  BY DEF NoneStarts, Survives
<1>1. CASE TickDispatch
  <2> DEFINE s == Head(due)
  <2>1. s \in Schedules /\ turn.calling = None /\ turn # Idle
    BY <1>1, Dequeues DEF TickDispatch, Looping, Idle
  <2>2. /\ ~AtCeiling /\ status[s] = "active" /\ UNCHANGED <<setup, cancelCalls>>
        /\ \/ UNCHANGED exec
           \/ exec' = Aborted(Superseded(s))
           \/ Fate(s) = "start" /\ Begin(s)
    BY <1>1 DEF TickDispatch
  <2> HIDE DEF s
  <2>3. Cardinality(Active) < MaxConcurrency
    BY <2>1, <2>2, Room
  <2> QED
    BY <1>a, <2>1, <2>2, <2>3, AbortStartsNone, BeginStarts DEF Dispatched
<1>2. CASE DrainDispatch
  <2> DEFINE s == Head(turn.left)
  <2>1. s \in Schedules /\ turn.calling = None /\ turn # Idle
    BY <1>2, TailEntries DEF DrainDispatch, Looping, Idle, TypeOK
  <2>2. /\ ~AtCeiling /\ pendingRuns[s] > 0 /\ UNCHANGED <<setup, cancelCalls>>
        /\ \/ UNCHANGED exec
           \/ exec' = Aborted(Superseded(s))
           \/ Fate(s) = "start" /\ Begin(s)
    BY <1>2 DEF DrainDispatch
  <2> HIDE DEF s
  <2>3. Cardinality(Active) < MaxConcurrency
    BY <2>1, <2>2, Room
  <2> QED
    BY <1>a, <2>1, <2>2, <2>3, AbortStartsNone, BeginStarts DEF Dispatched
<1>3. CASE HandlerAwaits
  <2>1. exec' = [e \in Execs |-> IF e \in Active \ InFlight
                                THEN [exec[e] EXCEPT !.phase = "attempt"]
                                ELSE exec[e]]
    BY <1>3 DEF HandlerAwaits
  <2>2. ASSUME NEW e \in Execs, exec'[e] # None PROVE Survives(e)
    <3>1. CASE e \in Active \ InFlight
      <4>1. exec[e] \in Execution /\ exec[e] # None
        BY <3>1 DEF Active, TypeOK
      <4>2. exec'[e] = [exec[e] EXCEPT !.phase = "attempt"]
        BY <2>1, <3>1
      <4> QED
        BY <4>1, <4>2 DEF Survives, Execution
    <3>2. CASE e \notin Active \ InFlight
      BY <2>1, <2>2, <3>2 DEF Survives
    <3> QED
      BY <3>1, <3>2
  <2> QED
    BY <2>2 DEF NoneStarts
<1>4. ASSUME NEW e \in Execs, Progress(e) PROVE NoneStarts
  <2>1. e \in Active /\ exec[e] \in Execution /\ exec[e] # None
    BY <1>4 DEF Progress, AttemptFails, RetryWakes, Settle, Active, TypeOK
  <2>2. /\ \A f \in Execs \ {e} : exec'[f] = exec[f]
        /\ \/ exec'[e] = None
           \/ exec'[e] = [exec[e] EXCEPT !.phase = "sleep"]
           \/ exec'[e] = [exec[e] EXCEPT !.phase = "attempt", !.attempt = exec[e].attempt + 1]
    BY <1>4 DEF Progress, AttemptFails, RetryWakes, Settle, TypeOK
  <2>3. exec'[e] # None => Survives(e)
    BY <2>1, <2>2 DEF Survives, Execution
  <2> QED
    BY <2>2, <2>3 DEF NoneStarts, Survives
<1>5. ASSUME NEW s \in Schedules, Cancel(s) PROVE NoneStarts
  BY <1>5, AbortStartsNone DEF Cancel
<1>6. ASSUME NEW kind \in StopKinds, Stop(kind) PROVE NoneStarts
  BY <1>6, <1>a, AbortStartsNone DEF Stop
<1>7. CASE \/ TickBegin \/ TickEnd \/ TickSkip \/ DrainNext \/ DrainEnd \/ Start
           \/ StopAgain \/ StopReturns \/ StopTimesOut \/ \E j \in Jobs : Unregister(j)
           \/ UNCHANGED vars
  BY <1>7, <1>a DEF TickBegin, TickEnd, TickSkip, DrainNext, DrainEnd, Start,
                    StopAgain, StopReturns, StopTimesOut, Unregister, vars
<1>8. ASSUME NEW s \in Schedules, ScheduleJob(s) \/ Pause(s) \/ Resume(s) \/ FireTimeComes(s)
      PROVE  NoneStarts
  BY <1>8, <1>a DEF ScheduleJob, Pause, Resume, FireTimeComes
<1> QED
  BY <1>1, <1>2, <1>3, <1>4, <1>5, <1>6, <1>7, <1>8 DEF Next, TurnStep

HeldStaysZero(x) == status[x] = "unborn" /\ pendingRuns[x] = 0 => pendingRuns'[x] = 0

\* A schedule is created once, a recurring one is never completed, a cancelled one
\* stays so, and only one that exists has a run held back.
Moves(x) == /\ status'[x] = "unborn" => status[x] = "unborn"
            /\ x \in Recurring /\ status[x] = "cancelled" => status'[x] = "cancelled"
            /\ x \in Recurring /\ status[x] # "completed" => status'[x] # "completed"
            /\ HeldStaysZero(x)
            /\ overlap'[x] = overlap[x] \/ status[x] = "unborn"

LEMMA ScheduleMoves ==
  ASSUME TypeOK, [Next]_vars, NEW x \in Schedules
  PROVE  Moves(x)
<1> USE DEF setup, queueVars, heldVars, stopVars
<1>a. ASSUME NEW s \in Schedules, NEW state \in {"completed", "cancelled"},
             RetireDropping(s, state), UNCHANGED setup,
             state = "completed" => s \notin Recurring
      PROVE  Moves(x)
  <2>1. pendingRuns'[x] = IF x = s THEN 0 ELSE pendingRuns[x]
    BY <1>a, DropsHeld DEF RetireDropping, TypeOK
  <2>2. status'[x] = IF x = s THEN state ELSE status[x]
    BY <1>a DEF RetireDropping, TypeOK
  <2> QED
    BY <1>a, <2>1, <2>2 DEF Moves, HeldStaysZero
<1>b. ASSUME NEW s \in Schedules, NEW behind \in Seq(Schedules), Reschedule(s, behind),
             UNCHANGED setup, HeldStaysZero(x), status[s] # "unborn"
      PROVE  Moves(x)
  <2>1. status'[x] = IF x = s /\ s \notin Recurring THEN "completed" ELSE status[x]
    BY <1>b, Reschedules DEF TypeOK
  <2> QED
    BY <1>b, <2>1 DEF Moves
<1>c. ASSUME UNCHANGED <<status, setup>>, HeldStaysZero(x) PROVE Moves(x)
  BY <1>c DEF Moves
<1>1. CASE TickDispatch
  <2> DEFINE s == Head(due)
  <2>1. s \in Schedules /\ Tail(due) \in Seq(Schedules)
    BY <1>1, Dequeues DEF TickDispatch
  <2>2. /\ status[s] = "active" /\ UNCHANGED setup
        /\ \/ RetireDropping(s, "cancelled")
           \/ Reschedule(s, Tail(due)) /\ UNCHANGED heldVars
           \/ Defer(s) /\ Reschedule(s, Tail(due))
           \/ UNCHANGED <<status, heldVars>>
    BY <1>1 DEF TickDispatch
  <2> HIDE DEF s
  <2>3. Defer(s) => HeldStaysZero(x)
    BY <2>1, <2>2, Defers DEF HeldStaysZero
  <2>4. CASE RetireDropping(s, "cancelled")
    BY <1>a, <2>1, <2>2, <2>4
  <2>5. CASE Reschedule(s, Tail(due)) /\ HeldStaysZero(x)
    BY <1>b, <2>1, <2>2, <2>5
  <2>6. CASE UNCHANGED <<status, heldVars>>
    BY <1>c, <2>2, <2>6 DEF HeldStaysZero
  <2>7. UNCHANGED heldVars => HeldStaysZero(x)
    BY DEF HeldStaysZero
  <2> QED
    BY <2>2, <2>3, <2>4, <2>5, <2>6, <2>7
<1>2. CASE DrainDispatch
  <2> DEFINE s == Head(turn.left)
  <2>1. s \in Schedules
    BY <1>2, TailEntries DEF DrainDispatch, TypeOK
  <2>2. /\ pendingRuns[s] > 0 /\ UNCHANGED setup
        /\ \/ RetireDropping(s, "cancelled")
           \/ pendingRuns' = [pendingRuns EXCEPT ![s] = @ - 1] /\ UNCHANGED status
           \/ UNCHANGED <<status, heldVars>>
    BY <1>2 DEF DrainDispatch
  <2> HIDE DEF s
  <2>3. pendingRuns' = [pendingRuns EXCEPT ![s] = @ - 1] => HeldStaysZero(x)
    BY <2>1, <2>2 DEF HeldStaysZero, TypeOK
  <2>4. CASE RetireDropping(s, "cancelled")
    BY <1>a, <2>1, <2>2, <2>4
  <2>5. CASE UNCHANGED status /\ HeldStaysZero(x)
    BY <1>c, <2>2, <2>5
  <2>6. UNCHANGED heldVars => HeldStaysZero(x)
    BY DEF HeldStaysZero
  <2> QED
    BY <2>2, <2>3, <2>4, <2>5, <2>6
<1>3. CASE HandlerAwaits
  <2>1. /\ turn.calling \in Schedules /\ due \in Seq(Schedules) /\ UNCHANGED <<setup, heldVars>>
        /\ \/ Reschedule(turn.calling, due) /\ Live(turn.calling)
           \/ UNCHANGED status
    BY <1>3 DEF HandlerAwaits, TypeOK
  <2> QED
    BY <1>b, <1>c, <2>1 DEF Live, HeldStaysZero
<1>4. ASSUME NEW s \in Schedules, Cancel(s) PROVE Moves(x)
  <2>1. UNCHANGED setup /\ (RetireDropping(s, "cancelled") \/ UNCHANGED <<status, heldVars>>)
    BY <1>4 DEF Cancel
  <2> QED
    BY <1>a, <1>c, <2>1 DEF HeldStaysZero
<1>5. ASSUME NEW s \in Schedules, Resume(s) PROVE Moves(x)
  <2>1. /\ UNCHANGED setup /\ status[s] = "paused"
        /\ \/ s \notin Recurring /\ RetireDropping(s, "completed")
           \/ status' = [status EXCEPT ![s] = "active"] /\ UNCHANGED heldVars
    BY <1>5 DEF Resume
  <2> QED
    BY <1>a, <2>1 DEF Moves, HeldStaysZero, TypeOK
<1>6. ASSUME NEW s \in Schedules, ScheduleJob(s) PROVE Moves(x)
  <2>1. /\ status[s] = "unborn" /\ status' = [status EXCEPT ![s] = "active"]
        /\ UNCHANGED heldVars /\ \E policy \in Policies[s] : overlap' = [overlap EXCEPT ![s] = policy]
    BY <1>6 DEF ScheduleJob
  <2> QED
    BY <2>1 DEF Moves, HeldStaysZero, TypeOK
<1>7. ASSUME NEW s \in Schedules, Pause(s) PROVE Moves(x)
  BY <1>7 DEF Pause, Live, Moves, HeldStaysZero, TypeOK
<1>8. ASSUME NEW kind \in StopKinds, Stop(kind) PROVE Moves(x)
  BY <1>8, <1>c DEF Stop, HeldStaysZero, TypeOK
<1>9. CASE \/ TickBegin \/ TickEnd \/ TickSkip \/ DrainNext \/ DrainEnd \/ Start
           \/ StopAgain \/ StopReturns \/ StopTimesOut \/ UNCHANGED vars
  BY <1>9, <1>c DEF TickBegin, TickEnd, TickSkip, DrainNext, DrainEnd, Start,
                    StopAgain, StopReturns, StopTimesOut, vars, HeldStaysZero
<1>10. ASSUME NEW e \in Execs, Progress(e) PROVE Moves(x)
  BY <1>10, <1>c DEF Progress, AttemptFails, RetryWakes, Settle, HeldStaysZero
<1>11. ASSUME NEW s \in Schedules, FireTimeComes(s) PROVE Moves(x)
  BY <1>11, <1>c DEF FireTimeComes, HeldStaysZero
<1>12. ASSUME NEW j \in Jobs, Unregister(j) PROVE Moves(x)
  BY <1>12 DEF Unregister, Moves, HeldStaysZero
<1> QED
  BY <1>1, <1>2, <1>3, <1>4, <1>5, <1>6, <1>7, <1>8, <1>9, <1>10, <1>11, <1>12
     DEF Next, TurnStep

-----------------------------------------------------------------------------
(* The ceilings and the overlap policies *)

\* The policy of a schedule is set before anything of it can run.
UnbornIsIdle ==
    \A s \in Schedules : status[s] = "unborn" =>
        pendingRuns[s] = 0 /\ ExecutionsOf(s) = {}

LimitsInv == CeilingsAreKept /\ OverlapIsKept /\ UnbornIsIdle

LEMMA LimitsInit == Init => LimitsInv
<1> SUFFICES ASSUME Init PROVE LimitsInv
  OBVIOUS
<1>1. Active = {} /\ Cardinality({}) = 0
  BY FS_EmptySet DEF Init, Active
<1>2. \A s \in Schedules : ExecutionsOf(s) = {}
  BY <1>1 DEF ExecutionsOf
<1>3. \A j \in Jobs : ExecutionsOfJob(j) = {}
  BY <1>1 DEF ExecutionsOfJob
<1>4. CeilingsAreKept
  <2>1. MaxConcurrency \in Nat /\ \A j \in Jobs : JobLimit[j] \in Nat
    BY SchedulerAssumption
  <2> QED
    BY <1>1, <1>3, <2>1 DEF CeilingsAreKept
<1>5. OverlapIsKept /\ UnbornIsIdle
  BY <1>2 DEF OverlapIsKept, UnbornIsIdle, Init
<1> QED
  BY <1>4, <1>5 DEF LimitsInv

\* A set that gained at most one execution.
LEMMA OneMore ==
  ASSUME NEW E, E \subseteq Execs, NEW F, NEW e, F \subseteq E \union {e}
  PROVE  Cardinality(F) <= Cardinality(E) + 1
<1>1. IsFiniteSet(E) /\ Cardinality(E) \in Nat
  BY ActiveIsFinite
<1>2. IsFiniteSet(E \union {e}) /\ Cardinality(E \union {e}) <= Cardinality(E) + 1
  BY <1>1, FS_AddElement
<1>3. Cardinality(F) <= Cardinality(E \union {e}) /\ Cardinality(F) \in Nat
      /\ Cardinality(E \union {e}) \in Nat
  BY <1>2, FS_Subset, FS_CardinalityType
<1> QED
  BY <1>1, <1>2, <1>3

LEMMA NoMore ==
  ASSUME NEW E, E \subseteq Execs, NEW F, F \subseteq E
  PROVE  Cardinality(F) <= Cardinality(E) /\ Cardinality(F) \in Nat /\ Cardinality(E) \in Nat
BY ActiveIsFinite, FS_Subset, FS_CardinalityType

LEMMA LimitsStep ==
  ASSUME TypeOK, NoSync, LimitsInv, [Next]_vars
  PROVE  LimitsInv'
<1>0. /\ CeilingsAreKept /\ OverlapIsKept /\ UnbornIsIdle
      /\ Active \subseteq Execs /\ \A j : ExecutionsOfJob(j) \subseteq Execs
  BY DEF LimitsInv, Active, ExecutionsOfJob
<1>1. \A x \in Schedules : Moves(x)
  BY ScheduleMoves
<1>2. CASE NoneStarts
  <2>1. /\ Active' \subseteq Active
        /\ \A j : ExecutionsOfJob(j)' \subseteq ExecutionsOfJob(j)
        /\ \A x : ExecutionsOf(x)' \subseteq ExecutionsOf(x)
    BY <1>2 DEF NoneStarts, Survives, Active, ExecutionsOfJob, ExecutionsOf
  <2>2. CeilingsAreKept'
    <3>1. Cardinality(Active') <= MaxConcurrency
      BY <1>0, <2>1, NoMore, SchedulerAssumption DEF CeilingsAreKept
    <3>2. ASSUME NEW j \in Jobs PROVE Cardinality(ExecutionsOfJob(j)') <= JobLimit[j]
      <4>1. /\ Cardinality(ExecutionsOfJob(j)') <= Cardinality(ExecutionsOfJob(j))
            /\ Cardinality(ExecutionsOfJob(j)') \in Nat /\ Cardinality(ExecutionsOfJob(j)) \in Nat
        BY <1>0, <2>1, NoMore
      <4>2. JobLimit[j] \in Nat /\ Cardinality(ExecutionsOfJob(j)) <= JobLimit[j]
        BY <1>0, SchedulerAssumption DEF CeilingsAreKept
      <4> QED
        BY <4>1, <4>2
    <3> QED
      BY <3>1, <3>2 DEF CeilingsAreKept
  <2>3. OverlapIsKept'
    <3> SUFFICES ASSUME NEW x \in Schedules, NEW e \in ExecutionsOf(x)', NEW f \in ExecutionsOf(x)'
                 PROVE  \/ e = f \/ overlap'[x] = "allow"
                        \/ overlap'[x] = "replace" /\ (exec'[e].aborted \/ exec'[f].aborted)
      BY DEF OverlapIsKept
    <3>1. e \in ExecutionsOf(x) /\ f \in ExecutionsOf(x)
      BY <2>1
    <3>2. overlap'[x] = overlap[x]
      BY <1>0, <1>1, <3>1 DEF Moves, UnbornIsIdle
    <3>3. /\ exec[e].aborted => exec'[e].aborted
          /\ exec[f].aborted => exec'[f].aborted
      BY <1>2 DEF NoneStarts, Survives, ExecutionsOf, Active
    <3>4. \/ e = f \/ overlap[x] = "allow"
          \/ overlap[x] = "replace" /\ (exec[e].aborted \/ exec[f].aborted)
      BY <1>0, <3>1 DEF OverlapIsKept
    <3> QED
      BY <3>2, <3>3, <3>4
  <2>4. UnbornIsIdle'
    BY <1>0, <1>1, <2>1 DEF UnbornIsIdle, Moves, HeldStaysZero
  <2> QED
    BY <2>2, <2>3, <2>4 DEF LimitsInv
<1>3. ASSUME NEW s \in Schedules, NEW e \in Execs, Dispatched(s), Starts(s, e), UNCHANGED setup
      PROVE  LimitsInv'
  <2>1. /\ Active' \subseteq Active \union {e}
        /\ \A j : j # JobOf[s] => ExecutionsOfJob(j)' \subseteq ExecutionsOfJob(j)
        /\ \A j : ExecutionsOfJob(j)' \subseteq ExecutionsOfJob(j) \union {e}
        /\ \A x : x # s => ExecutionsOf(x)' \subseteq ExecutionsOf(x)
        /\ ExecutionsOf(s)' \subseteq ExecutionsOf(s) \union {e}
    BY <1>3 DEF Starts, Survives, Active, ExecutionsOfJob, ExecutionsOf
  <2>2. /\ Cardinality(ExecutionsOfJob(JobOf[s])) < JobLimit[JobOf[s]]
        /\ ExecutionsOf(s) = {} \/ overlap[s] \notin {"skip", "queue"}
        /\ JobOf[s] \in Jobs
    <3>1. ExecutionsOf(s) = {} \/ overlap[s] \notin {"skip", "queue"}
      BY <1>3 DEF Dispatched, Fate
    <3>2. ~(Cardinality(ExecutionsOfJob(JobOf[s])) >= JobLimit[JobOf[s]])
      BY <1>3 DEF Dispatched, Fate
    <3>3. JobOf[s] \in Jobs /\ JobLimit[JobOf[s]] \in Nat
      BY SchedulerAssumption
    <3>4. Cardinality(ExecutionsOfJob(JobOf[s])) \in Nat
      BY <1>0, ActiveIsFinite
    <3> QED
      BY <3>1, <3>2, <3>3, <3>4
  <2>3. CeilingsAreKept'
    <3>1. Cardinality(Active') <= MaxConcurrency
      <4>1. Cardinality(Active) < MaxConcurrency
        BY <1>3, Room DEF Dispatched
      <4>2. Cardinality(Active') <= Cardinality(Active) + 1
        BY <1>0, <2>1, OneMore
      <4>3. Cardinality(Active) \in Nat /\ Cardinality(Active') \in Nat
        <5>1. Active' \subseteq Execs
          BY <1>0, <2>1
        <5> QED
          BY <1>0, <5>1, ActiveIsFinite
      <4> QED
        BY <4>1, <4>2, <4>3, SchedulerAssumption
    <3>2. ASSUME NEW j \in Jobs PROVE Cardinality(ExecutionsOfJob(j)') <= JobLimit[j]
      <4>1. /\ JobLimit[j] \in Nat /\ Cardinality(ExecutionsOfJob(j)) <= JobLimit[j]
            /\ Cardinality(ExecutionsOfJob(j)) \in Nat
        BY <1>0, ActiveIsFinite, SchedulerAssumption DEF CeilingsAreKept
      <4>2. Cardinality(ExecutionsOfJob(j)') \in Nat
        <5>1. ExecutionsOfJob(j)' \subseteq Execs
          BY <1>0, <2>1
        <5> QED
          BY <5>1, ActiveIsFinite
      <4>3. CASE j = JobOf[s]
        <5>1. Cardinality(ExecutionsOfJob(j)') <= Cardinality(ExecutionsOfJob(j)) + 1
          BY <1>0, <2>1, OneMore
        <5>2. Cardinality(ExecutionsOfJob(j)) < JobLimit[j]
          BY <2>2, <4>3
        <5> QED
          BY <4>1, <4>2, <5>1, <5>2
      <4>4. CASE j # JobOf[s]
        <5>1. Cardinality(ExecutionsOfJob(j)') <= Cardinality(ExecutionsOfJob(j))
          BY <1>0, <2>1, <4>4, NoMore
        <5> QED
          BY <4>1, <4>2, <5>1
      <4> QED
        BY <4>3, <4>4
    <3> QED
      BY <3>1, <3>2 DEF CeilingsAreKept
  <2>4. OverlapIsKept'
    <3> SUFFICES ASSUME NEW x \in Schedules, NEW f \in ExecutionsOf(x)', NEW g \in ExecutionsOf(x)'
                 PROVE  \/ f = g \/ overlap[x] = "allow"
                        \/ overlap[x] = "replace" /\ (exec'[f].aborted \/ exec'[g].aborted)
      BY <1>3 DEF OverlapIsKept, setup
    <3>0. f \in Execs /\ g \in Execs /\ exec'[f] # None /\ exec'[g] # None
      BY DEF ExecutionsOf, Active
    <3>1. CASE f # e /\ g # e
      <4>1. f \in ExecutionsOf(x) /\ g \in ExecutionsOf(x)
        BY <2>1, <3>1
      <4>2. /\ exec[f].aborted => exec'[f].aborted
            /\ exec[g].aborted => exec'[g].aborted
        BY <1>3, <3>0, <3>1 DEF Starts, Survives
      <4>3. \/ f = g \/ overlap[x] = "allow"
            \/ overlap[x] = "replace" /\ (exec[f].aborted \/ exec[g].aborted)
        BY <1>0, <4>1 DEF OverlapIsKept
      <4> QED
        BY <4>2, <4>3
    <3>2. ASSUME NEW h \in {f, g}, h # e, e \in {f, g}
          PROVE  overlap[x] = "allow" \/ (overlap[x] = "replace" /\ exec'[h].aborted)
      <4>1. x = s
        BY <1>3, <3>2 DEF Starts, ExecutionsOf, Active
      <4>2. h \in ExecutionsOf(s) /\ exec[h].of = s
        BY <2>1, <3>2, <4>1 DEF ExecutionsOf
      <4>3. overlap[s] \in {"allow", "replace"}
        BY <2>2, <4>2 DEF TypeOK
      <4>4. overlap[s] = "replace" => exec'[h].aborted
        BY <1>3, <3>0, <3>2, <4>2 DEF Starts
      <4> QED
        BY <4>1, <4>3, <4>4
    <3> QED
      BY <3>1, <3>2
  <2>5. UnbornIsIdle'
    <3>1. status[s] # "unborn"
      BY <1>0, <1>3, SchedulerAssumption DEF Dispatched, UnbornIsIdle
    <3> QED
      BY <1>0, <1>1, <2>1, <3>1 DEF UnbornIsIdle, Moves, HeldStaysZero
  <2> QED
    BY <2>3, <2>4, <2>5 DEF LimitsInv
<1> QED
  BY <1>2, <1>3, ExecutionMoves

\* "maxConcurrency bounds executions in flight across all schedules", the ceiling
\* of a job those of the job, and the policy of a schedule those of the schedule.
THEOREM LimitsHold == Spec => []LimitsAreKept
<1>1. Init => TypeOK /\ NoSync /\ LimitsInv
  BY TypesInit, LimitsInit
<1>2. TypeOK /\ NoSync /\ LimitsInv /\ [Next]_vars => (TypeOK /\ NoSync /\ LimitsInv)'
  BY TypesStep, LimitsStep
<1>3. LimitsInv => LimitsAreKept
  BY DEF LimitsInv, LimitsAreKept
<1> QED
  BY <1>1, <1>2, <1>3, PTL DEF Spec

-----------------------------------------------------------------------------
(* Silence: a stopped scheduler takes no turn, for a scheduler whose       *)
(* handlers do not stop it before their first await.                       *)

CancelIsFinal ==
    \A s \in cancelCalls \intersect Recurring :
        status[s] = "cancelled" /\ \A e \in ExecutionsOf(s) : exec[e].aborted

NeverCompleted == \A s \in Recurring : status[s] # "completed"

StopIsFinal ==
    /\ ~running => turn = Idle /\ timer = "off"
    /\ stopper # "idle" => ~running /\ Active \subseteq awaited
    /\ stopper = "returned" => awaited = {}
    /\ aborting => ~running /\ \A e \in Active : exec[e].aborted

SilenceInv == CancelIsFinal /\ NeverCompleted /\ StopIsFinal

LEMMA SilenceInit == Init => SilenceInv
BY SchedulerAssumption DEF Init, SilenceInv, CancelIsFinal, NeverCompleted, StopIsFinal

LEMMA CancelStep ==
  ASSUME TypeOK, NoSync, CancelIsFinal, NeverCompleted, [Next]_vars
  PROVE  CancelIsFinal' /\ NeverCompleted'
<1>1. \A x \in Schedules : Moves(x)
  BY ScheduleMoves
<1>2. NeverCompleted'
  BY <1>1, SchedulerAssumption DEF NeverCompleted, Moves
<1>3. ASSUME NEW s \in Schedules, Cancel(s) PROVE CancelIsFinal'
  <2>1. /\ cancelCalls' = cancelCalls \union {s} /\ exec' = Aborted(ExecutionsOf(s))
        /\ status[s] # "unborn" /\ (Live(s) => status' = [status EXCEPT ![s] = "cancelled"])
    BY <1>3 DEF Cancel, RetireDropping
  <2>2. /\ \A x : ExecutionsOf(x)' \subseteq ExecutionsOf(x)
        /\ \A e \in Execs : exec'[e] # None =>
             (exec'[e].aborted <=> exec[e].aborted \/ e \in ExecutionsOf(s))
    BY <2>1, AbortStartsNone DEF NoneStarts, Survives, ExecutionsOf, Active
  <2> SUFFICES ASSUME NEW x \in cancelCalls' \intersect Recurring
               PROVE  status'[x] = "cancelled" /\ \A e \in ExecutionsOf(x)' : exec'[e].aborted
    BY DEF CancelIsFinal
  <2>3. x \in Schedules
    BY SchedulerAssumption
  <2>4. CASE x = s
    <3>1. status'[x] = "cancelled"
      <4>1. CASE Live(s)
        BY <2>1, <2>4, <4>1 DEF TypeOK
      <4>2. CASE ~Live(s)
        <5>1. status[s] = "cancelled"
          BY <2>1, <2>4, <4>2 DEF Live, NeverCompleted, TypeOK
        <5> QED
          BY <1>1, <2>4, <5>1 DEF Moves
      <4> QED
        BY <4>1, <4>2
    <3>2. ASSUME NEW e \in ExecutionsOf(x)' PROVE exec'[e].aborted
      <4>1. e \in ExecutionsOf(s) /\ e \in Execs /\ exec'[e] # None
        BY <2>2, <2>4 DEF ExecutionsOf, Active
      <4> QED
        BY <2>2, <4>1
    <3> QED
      BY <3>1, <3>2
  <2>5. CASE x # s
    <3>1. x \in cancelCalls /\ status[x] = "cancelled" /\ \A e \in ExecutionsOf(x) : exec[e].aborted
      BY <2>1, <2>5 DEF CancelIsFinal
    <3>2. ASSUME NEW e \in ExecutionsOf(x)' PROVE exec'[e].aborted
      <4>1. e \in ExecutionsOf(x) /\ e \in Execs /\ exec'[e] # None
        BY <2>2 DEF ExecutionsOf, Active
      <4> QED
        BY <2>2, <3>1, <4>1
    <3> QED
      BY <1>1, <2>3, <3>1, <3>2 DEF Moves
  <2> QED
    BY <2>4, <2>5
<1>4. ASSUME UNCHANGED cancelCalls PROVE CancelIsFinal'
  <2> SUFFICES ASSUME NEW x \in cancelCalls \intersect Recurring
               PROVE  status'[x] = "cancelled" /\ \A e \in ExecutionsOf(x)' : exec'[e].aborted
    BY <1>4 DEF CancelIsFinal
  <2>1. status[x] = "cancelled" /\ status'[x] = "cancelled" /\ x \in Schedules
    BY <1>1, SchedulerAssumption DEF CancelIsFinal, Moves
  <2>2. \A e \in ExecutionsOf(x) : exec[e].aborted
    BY DEF CancelIsFinal
  <2>3. CASE NoneStarts
    BY <2>1, <2>2, <2>3 DEF NoneStarts, Survives, ExecutionsOf, Active
  <2>4. ASSUME NEW s \in Schedules, NEW e \in Execs, Dispatched(s), Starts(s, e)
        PROVE  \A f \in ExecutionsOf(x)' : exec'[f].aborted
    <3>1. s # x
      BY <2>1, <2>4 DEF Dispatched, Fate
    <3> QED
      BY <2>2, <2>4, <3>1 DEF Starts, Survives, ExecutionsOf, Active
  <2> QED
    BY <2>1, <2>3, <2>4, ExecutionMoves
<1>5. UNCHANGED cancelCalls \/ \E s \in Schedules : Cancel(s)
  BY DEF Next, TurnStep, Progress, TickBegin, TickEnd, TickSkip, TickDispatch, DrainNext,
         DrainEnd, DrainDispatch, HandlerAwaits, AttemptFails, RetryWakes, Settle, ScheduleJob,
         Pause, Resume, FireTimeComes, Unregister, Start, Stop, StopAgain,
         StopReturns, StopTimesOut, vars
<1> QED
  BY <1>2, <1>3, <1>4, <1>5

LEMMA StopStep ==
  ASSUME TypeOK, NoSync, StopIsFinal, [Next]_vars, "stop" \notin Reentrant
  PROVE  StopIsFinal'
<1> USE DEF stopVars
<1>a. ASSUME UNCHANGED <<running, turn, stopVars>>, UNCHANGED timer \/ Rearm, NoneStarts
      PROVE  StopIsFinal'
  <2>1. /\ Active' \subseteq Active
        /\ (\A e \in Active : exec[e].aborted) => \A e \in Active' : exec'[e].aborted
    BY <1>a DEF NoneStarts, Survives, Active
  <2>2. ~running => timer' = timer
    BY <1>a DEF Rearm
  <2> QED
    BY <1>a, <2>1, <2>2 DEF StopIsFinal
\* A turn is under way only while the scheduler runs.
<1>b. ASSUME turn # Idle \/ timer # "off", UNCHANGED <<running, stopVars>> PROVE StopIsFinal'
  BY <1>b DEF StopIsFinal
<1>c. UNCHANGED exec => NoneStarts
  BY DEF NoneStarts, Survives
<1>1. CASE TickBegin \/ TurnStep
  <2>1. turn # Idle \/ timer # "off"
    BY <1>1, SchedulerAssumption DEF TickBegin, TurnStep, TickEnd, TickSkip, TickDispatch,
       DrainNext, DrainEnd, DrainDispatch, HandlerAwaits, Looping, Idle
  <2>2. UNCHANGED <<running, stopVars>>
    BY <1>1 DEF TickBegin, TurnStep, TickEnd, TickSkip, TickDispatch, DrainNext, DrainEnd,
       DrainDispatch, HandlerAwaits
  <2> QED
    BY <1>b, <2>1, <2>2
<1>2. CASE Start
  BY <1>2 DEF Start, StopIsFinal
<1>3. CASE StopAgain \/ StopReturns \/ StopTimesOut
  <2>1. CASE StopAgain
    <3>1. InFlight = Active /\ Active' = Active /\ turn = Idle /\ awaited' = InFlight
      BY <2>1, AllInFlight DEF StopAgain, MayCall, WaitForAll, Idle, Active
    <3> QED
      BY <2>1, <3>1 DEF StopAgain, WaitForAll, StopIsFinal
  <2>2. CASE StopReturns \/ StopTimesOut
    BY <2>2 DEF StopReturns, StopTimesOut, StopIsFinal, Active
  <2> QED
    BY <1>3, <2>1, <2>2
<1>4. ASSUME NEW e \in Execs, AttemptFails(e) \/ RetryWakes(e) PROVE StopIsFinal'
  <2>1. /\ UNCHANGED <<running, turn, timer, stopVars>> /\ exec[e] # None /\ ~exec[e].aborted
        /\ \A f \in Execs \ {e} : exec'[f] = exec[f]
    BY <1>4 DEF AttemptFails, RetryWakes, Active, TypeOK
  <2>2. Active' \subseteq Active /\ e \in Active
    BY <2>1 DEF Active
  <2> QED
    BY <2>1, <2>2 DEF StopIsFinal
<1>5. ASSUME NEW e \in Execs, Settle(e) PROVE StopIsFinal'
  <2>1. /\ UNCHANGED <<running, stopper, aborting>> /\ awaited' = awaited \ {e}
        /\ exec' = [exec EXCEPT ![e] = None] /\ turn = Idle
        /\ \/ running
           \/ UNCHANGED turn /\ Rearm
    BY <1>5 DEF Settle
  <2>2. Active' \subseteq Active \ {e} /\ \A f \in Active' : exec'[f] = exec[f]
    BY <2>1 DEF Active, TypeOK
  <2>3. ~running => timer' = timer /\ turn' = turn
    BY <2>1 DEF Rearm
  <2> QED
    BY <2>1, <2>2, <2>3 DEF StopIsFinal
<1>6. ASSUME NEW s \in Schedules,
             ScheduleJob(s) \/ Pause(s) \/ Resume(s) \/ Cancel(s) \/ FireTimeComes(s)
      PROVE  StopIsFinal'
  <2>1. UNCHANGED <<running, turn, stopVars>> /\ (UNCHANGED timer \/ Rearm)
    BY <1>6 DEF ScheduleJob, Pause, Resume, Cancel, FireTimeComes
  <2>2. exec' = exec \/ exec' = Aborted(ExecutionsOf(s))
    BY <1>6 DEF ScheduleJob, Pause, Resume, Cancel, FireTimeComes
  <2> QED
    BY <1>a, <1>c, <2>1, <2>2, AbortStartsNone
<1>7. ASSUME NEW kind \in StopKinds, Stop(kind) PROVE StopIsFinal'
  <2>1. /\ running' = FALSE /\ timer' = "off" /\ UNCHANGED turn /\ turn = Idle
        /\ stopper' \in {"waiting", "returned"} /\ awaited' = InFlight
        /\ stopper' = "returned" => InFlight = {}
        /\ exec' = exec \/ exec' = Aborted(Active)
        /\ aborting' => exec' = Aborted(Active)
    BY <1>7 DEF Stop, WaitForAll, MayCall
  <2>2. InFlight = Active
    BY <2>1, AllInFlight DEF Idle
  <2>3. Active' \subseteq Active /\ (aborting' => \A e \in Active' : exec'[e].aborted)
    BY <1>c, <2>1, AbortStartsNone DEF NoneStarts, Survives, Active
  <2> QED
    BY <2>1, <2>2, <2>3 DEF StopIsFinal
<1>8. CASE (\E j \in Jobs : Unregister(j)) \/ UNCHANGED vars
  BY <1>8, <1>a, <1>c DEF Unregister, vars
<1> QED
  BY <1>1, <1>2, <1>3, <1>4, <1>5, <1>6, <1>7, <1>8 DEF Next, Progress

\* A recurring schedule that was cancelled runs nothing that was not told to abort.
\* Once stop() has returned nothing runs, unless its timeoutMs ran out: then, as
\* while it waits, only what was under way when it was called goes on, told to abort
\* if the scheduler was stopped without drain.
THEOREM SilenceHolds == "stop" \notin Reentrant => (Spec => []SilenceIsKept)
<1> SUFFICES ASSUME "stop" \notin Reentrant PROVE Spec => []SilenceIsKept
  OBVIOUS
<1>1. Init => TypeOK /\ NoSync /\ SilenceInv
  BY TypesInit, SilenceInit
<1>2. TypeOK /\ NoSync /\ SilenceInv /\ [Next]_vars => (TypeOK /\ NoSync /\ SilenceInv)'
  BY TypesStep, CancelStep, StopStep DEF SilenceInv
<1>3. SilenceInv => SilenceIsKept
  BY DEF SilenceInv, CancelIsFinal, StopIsFinal, SilenceIsKept
<1> QED
  BY <1>1, <1>2, <1>3, PTL DEF Spec
=============================================================================
