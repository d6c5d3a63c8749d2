------------------------------ MODULE ImagesProofs ------------------------------
(***************************************************************************)
(* The slots, the queue and the cache of the image proxy, for any requests, *)
(* urls, sizes and budgets.                                                 *)
(*                                                                         *)
(* DoorInv counts: each counter is the number of handlers in the phases    *)
(* that answer for it, and the queue holds exactly handlers that block,    *)
(* each once, so that a slot given to the first of them goes to one that   *)
(* waits for it.  CacheInv weighs: the bytes of the entries, as pairs of   *)
(* an entry and a number, add up over disjoint sets of entries.            *)
(***************************************************************************)
EXTENDS MCImages, TLAPS, SequenceTheorems, FiniteSetTheorems

Pcs == {"idle", "try", "counted", "queued", "granted", "refused", "gone",
        "fetch", "store", "stream", "release"}
Locals ==
  [pc : Pcs, url : Urls \cup {None}, size : Sizes \cup {0}, whole : BOOLEAN, begun : 0 .. 1]
\* A handler that has not answered knows its url; one that has, has answered once.
Handlers ==
  {q \in Locals :
     /\ q.pc \in {"idle", "stream", "release"} \/ q.url \in Urls
     /\ q.pc \in {"stream", "release"} \/ q.begun = 0
     /\ q.pc = "store" => q.size \in Sizes}

Holding == {"granted", "fetch", "store", "stream", "release"}
Blocked == {"counted", "queued"}
Lined == {"counted", "queued", "granted", "refused", "gone"}

\* The queue is of the handlers that block, each in it once.
QueueOK ==
  /\ queue \in Seq(Requests)
  /\ \A i \in DOMAIN queue : req[queue[i]].pc = "queued"
  /\ \A i, j \in DOMAIN queue : queue[i] = queue[j] => i = j

DoorInv ==
  /\ req \in [Requests -> Handlers]
  /\ QueueOK
  /\ IsFiniteSet(At(Holding)) /\ slots = Cardinality(At(Holding)) /\ slots <= Slots
  /\ IsFiniteSet(At(Lined)) /\ waiters = Cardinality(At(Lined))
  /\ IsFiniteSet(At(Blocked)) /\ Cardinality(At(Blocked)) <= MaxWaiters

CacheInv ==
  /\ items \in [Urls -> Entries \cup {None}]
  /\ IsFiniteSet(Cached)
  /\ Budget

-----------------------------------------------------------------------------
LEMMA IdleLocals == Idle \in Locals
  BY DEF Idle, Locals, Pcs

\* How a set's size changes when at most one element does.
LEMMA Counted ==
  ASSUME NEW S, NEW T, NEW a, IsFiniteSet(S), T \ {a} = S \ {a}
  PROVE  /\ IsFiniteSet(T) /\ Cardinality(S) \in Nat
         /\ Cardinality(T) = Cardinality(S) + (IF a \in T THEN 1 ELSE 0) - (IF a \in S THEN 1 ELSE 0)
<1>1. /\ IsFiniteSet(S \ {a}) /\ Cardinality(S) \in Nat /\ Cardinality(S \ {a}) \in Nat
      /\ Cardinality(S \ {a}) = IF a \in S THEN Cardinality(S) - 1 ELSE Cardinality(S)
  BY FS_RemoveElement, FS_CardinalityType
<1>2. /\ IsFiniteSet((T \ {a}) \cup {a})
      /\ Cardinality((T \ {a}) \cup {a}) = Cardinality(T \ {a}) + 1
  <2>1. IsFiniteSet(T \ {a}) /\ a \notin T \ {a}
    BY <1>1
  <2> QED BY <2>1, FS_AddElement
<1>3. CASE a \in T
  <2>1. (T \ {a}) \cup {a} = T
    BY <1>3
  <2> QED BY <1>1, <1>2, <1>3, <2>1
<1>4. CASE a \notin T
  <2>1. T = S \ {a}
    BY <1>4
  <2> QED BY <1>1, <1>4, <2>1
<1> QED BY <1>3, <1>4

\* The handlers in a set of phases when one of them moves.
LEMMA OneMoves ==
  ASSUME req \in [Requests -> Handlers], NEW r \in Requests, NEW q \in Handlers,
         req' = [req EXCEPT ![r] = q],
         NEW S, IsFiniteSet(At(S))
  PROVE  /\ IsFiniteSet(At(S)') /\ Cardinality(At(S)) \in Nat
         /\ Cardinality(At(S)') = Cardinality(At(S)) + (IF q.pc \in S THEN 1 ELSE 0)
                                                    - (IF req[r].pc \in S THEN 1 ELSE 0)
<1>1. At(S)' \ {r} = At(S) \ {r}
  BY DEF At
<1>2. (r \in At(S)' <=> q.pc \in S) /\ (r \in At(S) <=> req[r].pc \in S)
  BY DEF At
<1> DEFINE T == At(S)'
           U == At(S)
<1> HIDE DEF T, U
<1>3. /\ IsFiniteSet(T) /\ Cardinality(U) \in Nat
      /\ Cardinality(T) = Cardinality(U) + (IF r \in T THEN 1 ELSE 0) - (IF r \in U THEN 1 ELSE 0)
  BY <1>1, Counted DEF T, U
<1> QED BY <1>2, <1>3 DEF T, U

\* What a step from phase p to phase q must do to the counters.
Counts(p, q) ==
  /\ slots' = slots + (IF q \in Holding THEN 1 ELSE 0) - (IF p \in Holding THEN 1 ELSE 0)
  /\ slots' <= Slots
  /\ waiters' = waiters + (IF q \in Lined THEN 1 ELSE 0) - (IF p \in Lined THEN 1 ELSE 0)
  /\ q \in Blocked /\ p \notin Blocked => waiters' <= MaxWaiters

LEMMA Move ==
  ASSUME DoorInv, NEW r \in Requests, NEW q \in Handlers,
         req' = [req EXCEPT ![r] = q], QueueOK',
         Counts(req[r].pc, q.pc)
  PROVE  DoorInv'
<1>0. req \in [Requests -> Handlers] /\ req' \in [Requests -> Handlers]
  BY DEF DoorInv
<1>1. IsFiniteSet(At(Holding)') /\ slots' = Cardinality(At(Holding)')
  BY <1>0, OneMoves DEF DoorInv, Counts
<1>2. IsFiniteSet(At(Lined)') /\ waiters' = Cardinality(At(Lined)')
  BY <1>0, OneMoves DEF DoorInv, Counts
<1>3. /\ IsFiniteSet(At(Blocked)') /\ Cardinality(At(Blocked)) \in Nat
      /\ Cardinality(At(Blocked)') = Cardinality(At(Blocked)) + (IF q.pc \in Blocked THEN 1 ELSE 0)
                                       - (IF req[r].pc \in Blocked THEN 1 ELSE 0)
  BY <1>0, OneMoves DEF DoorInv
<1>4. Cardinality(At(Blocked)') <= MaxWaiters
  <2>0. MaxWaiters \in Nat /\ Cardinality(At(Blocked)) <= MaxWaiters
    BY ImagesAssumption DEF DoorInv
  <2>1. CASE q.pc \in Blocked /\ req[r].pc \notin Blocked
    <3>1. At(Blocked)' \subseteq At(Lined)'
      BY DEF At, Blocked, Lined
    <3>2. Cardinality(At(Blocked)') <= waiters'
      BY <1>2, <3>1, FS_Subset
    <3>3. Cardinality(At(Blocked)') \in Nat /\ waiters' \in Nat
      BY <1>2, <1>3, FS_CardinalityType
    <3> QED BY <2>0, <2>1, <3>2, <3>3 DEF Counts
  <2>2. CASE ~(q.pc \in Blocked /\ req[r].pc \notin Blocked)
    BY <1>3, <2>0, <2>2
  <2> QED BY <2>1, <2>2
<1>5. slots' <= Slots
  BY DEF Counts
<1> QED BY <1>0, <1>1, <1>2, <1>3, <1>4, <1>5 DEF DoorInv

\* The queue stays as it is when a handler moves that is not in it.
LEMMA QueueStays ==
  ASSUME DoorInv, NEW r \in Requests, NEW q, req' = [req EXCEPT ![r] = q],
         req[r].pc # "queued", queue' = queue
  PROVE  QueueOK'
<1>1. \A i \in DOMAIN queue : queue[i] \in Requests /\ queue[i] # r
  BY DEF DoorInv, QueueOK
<1> QED BY <1>1 DEF DoorInv, QueueOK

LEMMA Counters ==
  ASSUME DoorInv
  PROVE  /\ slots \in Nat /\ waiters \in Nat /\ slots <= Slots
         /\ Slots \in Nat \ {0} /\ MaxWaiters \in Nat
         /\ \A r \in Requests : req[r] \in Handlers
  BY FS_CardinalityType, ImagesAssumption DEF DoorInv
\* Where the elements of a sequence go when its i-th leaves.
LeftOf(s, i) == SubSeq(s, 1, i - 1) \o SubSeq(s, i + 1, Len(s))
From(i, j) == IF j < i THEN j ELSE j + 1

LEMMA OneLeaves ==
  ASSUME NEW S, NEW s \in Seq(S), NEW i \in DOMAIN s
  PROVE  /\ LeftOf(s, i) \in Seq(S)
         /\ Len(s) \in Nat /\ Len(s) > 0 /\ Len(LeftOf(s, i)) = Len(s) - 1
         /\ \A j \in DOMAIN LeftOf(s, i) :
              From(i, j) \in DOMAIN s \ {i} /\ LeftOf(s, i)[j] = s[From(i, j)]
         /\ \A j, k \in DOMAIN LeftOf(s, i) : From(i, j) = From(i, k) => j = k
         /\ \A k \in DOMAIN s \ {i} : \E j \in DOMAIN LeftOf(s, i) : From(i, j) = k
<1> DEFINE n == Len(s)
           a == SubSeq(s, 1, i - 1)
           b == SubSeq(s, i + 1, n)
<1>1. n \in Nat /\ DOMAIN s = 1 .. n /\ i \in 1 .. n
  OBVIOUS
<1>2. /\ a \in Seq(S) /\ Len(a) = i - 1 /\ \A j \in 1 .. (i - 1) : a[j] = s[j]
  BY <1>1
<1>3. b \in Seq(S) /\ Len(b) = n - i /\ \A j \in 1 .. (n - i) : b[j] = s[i + j]
  BY <1>1
<1>4. LeftOf(s, i) = a \o b
  BY DEF LeftOf
<1> HIDE DEF a, b, n
<1>5. /\ a \o b \in Seq(S) /\ Len(a \o b) = n - 1 /\ DOMAIN (a \o b) = 1 .. (n - 1)
      /\ \A j \in 1 .. (n - 1) : (a \o b)[j] = (IF j <= i - 1 THEN a[j] ELSE b[j - (i - 1)])
  <2>1. /\ a \o b \in Seq(S) /\ Len(a \o b) = Len(a) + Len(b)
        /\ \A j \in 1 .. Len(a) + Len(b) :
             (a \o b)[j] = IF j <= Len(a) THEN a[j] ELSE b[j - Len(a)]
    BY <1>2, <1>3, ConcatProperties
  <2>2. Len(a) + Len(b) = n - 1
    BY <1>1, <1>2, <1>3
  <2>3. DOMAIN (a \o b) = 1 .. Len(a \o b)
    BY <2>1
  <2> QED
    BY <1>2, <2>1, <2>2, <2>3
<1>6. ASSUME NEW j \in 1 .. (n - 1)
      PROVE  From(i, j) \in (1 .. n) \ {i} /\ (a \o b)[j] = s[From(i, j)]
  <2>1. CASE j < i
    BY <1>1, <1>2, <1>5, <2>1 DEF From
  <2>2. CASE ~(j < i)
    <3>1. j - (i - 1) \in 1 .. (n - i) /\ i + (j - (i - 1)) = j + 1 /\ ~(j <= i - 1)
      BY <1>1, <2>2
    <3>2. (a \o b)[j] = s[j + 1]
      BY <1>3, <1>5, <3>1
    <3> QED
      BY <1>1, <2>2, <3>2 DEF From
  <2> QED
    BY <2>1, <2>2
<1>7. \A j, k \in 1 .. (n - 1) : From(i, j) = From(i, k) => j = k
  BY <1>1 DEF From
<1>8. \A k \in (1 .. n) \ {i} : \E j \in 1 .. (n - 1) : From(i, j) = k
  <2>1. SUFFICES ASSUME NEW k \in (1 .. n) \ {i} PROVE \E j \in 1 .. (n - 1) : From(i, j) = k
    OBVIOUS
  <2>2. CASE k < i
    BY <1>1, <2>2 DEF From
  <2>3. CASE k > i
    <3>1. k - 1 \in 1 .. (n - 1) /\ From(i, k - 1) = k
      BY <1>1, <2>3 DEF From
    <3> QED
      BY <3>1
  <2> QED
    BY <1>1, <2>2, <2>3
<1>9. n > 0
  BY <1>1
<1> DEFINE t == LeftOf(s, i)
<1>10. /\ t \in Seq(S) /\ Len(t) = n - 1 /\ DOMAIN t = 1 .. (n - 1)
       /\ \A j \in 1 .. (n - 1) : t[j] = s[From(i, j)]
  BY <1>4, <1>5, <1>6
<1> HIDE DEF t
<1>11. /\ t \in Seq(S) /\ n \in Nat /\ n > 0 /\ Len(t) = n - 1
       /\ \A j \in DOMAIN t : From(i, j) \in DOMAIN s \ {i} /\ t[j] = s[From(i, j)]
       /\ \A j, k \in DOMAIN t : From(i, j) = From(i, k) => j = k
       /\ \A k \in DOMAIN s \ {i} : \E j \in DOMAIN t : From(i, j) = k
  BY <1>1, <1>6, <1>7, <1>8, <1>9, <1>10
<1> QED
  BY <1>11 DEF n, t

\* Without the i-th, a queue holds the others, each once.
LEMMA QueueLeft ==
  ASSUME NEW T, NEW s \in Seq(T), NEW i \in DOMAIN s,
         \A j, k \in DOMAIN s : s[j] = s[k] => j = k
  PROVE  /\ RemoveAt(s, i) \in Seq(T)
         /\ \A j \in DOMAIN RemoveAt(s, i) :
              /\ RemoveAt(s, i)[j] # s[i]
              /\ \E k \in DOMAIN s : RemoveAt(s, i)[j] = s[k]
         /\ \A j, k \in DOMAIN RemoveAt(s, i) :
              RemoveAt(s, i)[j] = RemoveAt(s, i)[k] => j = k
<1> DEFINE t == LeftOf(s, i)
<1>1. /\ t \in Seq(T)
      /\ \A j \in DOMAIN t : From(i, j) \in DOMAIN s \ {i} /\ t[j] = s[From(i, j)]
      /\ \A j, k \in DOMAIN t : From(i, j) = From(i, k) => j = k
  BY OneLeaves
<1>2. RemoveAt(s, i) = t
  BY DEF RemoveAt, LeftOf
<1> HIDE DEF t
<1>3. \A j \in DOMAIN t : t[j] # s[i] /\ \E k \in DOMAIN s : t[j] = s[k]
  BY <1>1
<1>4. \A j, k \in DOMAIN t : t[j] = t[k] => j = k
  BY <1>1
<1> QED BY <1>1, <1>2, <1>3, <1>4

-----------------------------------------------------------------------------
(* The handler's steps                                                     *)

LEMMA MissKeeps == ASSUME DoorInv, NEW r \in Requests, Miss(r) PROVE DoorInv'
<1> PICK u \in Urls : req' = [req EXCEPT ![r] = [Idle EXCEPT !.pc = "try", !.url = u]]
  BY DEF Miss
<1> DEFINE q == [Idle EXCEPT !.pc = "try", !.url = u]
<1>1. req[r].pc = "idle" /\ queue' = queue /\ slots' = slots /\ waiters' = waiters
  BY DEF Miss, door
<1>2. q \in Handlers /\ req' = [req EXCEPT ![r] = q] /\ q.pc = "try"
  <2>1. q \in Locals
    BY IdleLocals DEF Locals, Pcs
  <2>2. q.pc = "try" /\ q.url \in Urls /\ q.begun = 0
    BY DEF Idle
  <2> QED BY <2>1, <2>2 DEF Handlers
<1> HIDE DEF q
<1>3. QueueOK'
  BY <1>1, <1>2, QueueStays
<1>4. Counts(req[r].pc, q.pc)
  BY <1>1, <1>2, Counters DEF Counts, Holding, Lined, Blocked
<1> QED BY <1>2, <1>3, <1>4, Move

\* A handler that goes on to another phase, its locals as they were.
LEMMA Gone ==
  ASSUME DoorInv, NEW r \in Requests, NEW pc, Goto(r, pc), req[r].pc \notin {"idle", "stream"},
         pc \in {"try", "counted", "queued", "granted", "refused", "gone", "fetch"},
         req[r].pc # "release"
  PROVE  /\ [req[r] EXCEPT !.pc = pc] \in Handlers
         /\ req' = [req EXCEPT ![r] = [req[r] EXCEPT !.pc = pc]]
         /\ [req[r] EXCEPT !.pc = pc].pc = pc
<1>1. req[r] \in Handlers /\ req \in [Requests -> Handlers]
  BY DEF DoorInv
<1> QED BY <1>1 DEF Handlers, Locals, Goto, Pcs

LEMMA AcquireKeeps == ASSUME DoorInv, NEW r \in Requests, Acquire(r) PROVE DoorInv'
<1> DEFINE pc == IF req[r].pc = "try" THEN "fetch" ELSE "granted"
           q == [req[r] EXCEPT !.pc = pc]
<1>1. /\ req[r].pc \in {"try", "counted"} /\ slots < Slots /\ slots' = slots + 1
      /\ queue' = queue /\ waiters' = waiters /\ Goto(r, pc)
  BY DEF Acquire
<1>2. q \in Handlers /\ req' = [req EXCEPT ![r] = q] /\ q.pc = pc
  BY <1>1, Gone
<1> HIDE DEF q
<1>3. QueueOK'
  BY <1>1, <1>2, QueueStays
<1>4. Counts(req[r].pc, q.pc)
  BY <1>1, <1>2, Counters DEF Counts, Holding, Lined, Blocked
<1> QED BY <1>2, <1>3, <1>4, Move

LEMMA CountKeeps == ASSUME DoorInv, NEW r \in Requests, Count(r) PROVE DoorInv'
<1> DEFINE pc == IF waiters + 1 > MaxWaiters THEN "refused" ELSE "counted"
           q == [req[r] EXCEPT !.pc = pc]
<1>1. /\ req[r].pc = "try" /\ waiters' = waiters + 1
      /\ queue' = queue /\ slots' = slots /\ Goto(r, pc)
  BY DEF Count
<1>2. q \in Handlers /\ req' = [req EXCEPT ![r] = q] /\ q.pc = pc
  BY <1>1, Gone
<1> HIDE DEF q
<1>3. QueueOK'
  BY <1>1, <1>2, QueueStays
<1>4. Counts(req[r].pc, q.pc)
  BY <1>1, <1>2, Counters DEF Counts, Holding, Lined, Blocked
<1> QED BY <1>2, <1>3, <1>4, Move

LEMMA BlockKeeps == ASSUME DoorInv, NEW r \in Requests, Block(r) PROVE DoorInv'
<1> DEFINE q == [req[r] EXCEPT !.pc = "queued"]
<1>1. /\ req[r].pc = "counted" /\ waiters' = waiters
      /\ queue' = Append(queue, r) /\ slots' = slots /\ Goto(r, "queued")
  BY DEF Block
<1>2. q \in Handlers /\ req' = [req EXCEPT ![r] = q] /\ q.pc = "queued"
  BY <1>1, Gone
<1> HIDE DEF q
<1>3. QueueOK'
  <2>1. /\ queue \in Seq(Requests) /\ req \in [Requests -> Handlers]
        /\ \A i \in DOMAIN queue : req[queue[i]].pc = "queued"
        /\ \A i, j \in DOMAIN queue : queue[i] = queue[j] => i = j
    BY DEF DoorInv, QueueOK
  <2>2. /\ queue' \in Seq(Requests) /\ Len(queue) \in Nat
        /\ DOMAIN queue' = 1 .. (Len(queue) + 1) /\ DOMAIN queue = 1 .. Len(queue)
        /\ \A i \in 1 .. Len(queue) : queue'[i] = queue[i]
        /\ queue'[Len(queue) + 1] = r
    BY <1>1, <2>1, AppendProperties
  <2>3. \A i \in 1 .. Len(queue) : queue[i] \in Requests /\ queue[i] # r
    BY <1>1, <2>1, <2>2
  <2>4. \A i \in DOMAIN queue' : i \in 1 .. Len(queue) \/ i = Len(queue) + 1
    BY <2>2
  <2>5. \A i \in DOMAIN queue' : req'[queue'[i]].pc = "queued"
    BY <1>2, <2>1, <2>2, <2>3, <2>4
  <2>6. \A i, j \in DOMAIN queue' : queue'[i] = queue'[j] => i = j
    BY <2>1, <2>2, <2>3, <2>4
  <2> QED BY <2>2, <2>5, <2>6 DEF QueueOK
<1>4. Counts(req[r].pc, q.pc)
  BY <1>1, <1>2, Counters DEF Counts, Holding, Lined, Blocked
<1> QED BY <1>2, <1>3, <1>4, Move

LEMMA DisconnectKeeps == ASSUME DoorInv, NEW r \in Requests, Disconnect(r) PROVE DoorInv'
<1> DEFINE q == [req[r] EXCEPT !.pc = "gone"]
<1>1. /\ req[r].pc \in {"counted", "queued"} /\ waiters' = waiters
      /\ slots' = slots /\ Goto(r, "gone")
  BY DEF Disconnect
<1>2. q \in Handlers /\ req' = [req EXCEPT ![r] = q] /\ q.pc = "gone"
  BY <1>1, Gone
<1> HIDE DEF q
<1>3. QueueOK'
  <2>1. CASE req[r].pc = "counted"
    BY <1>2, <2>1, QueueStays DEF Disconnect
  <2>2. CASE req[r].pc = "queued"
    <3>1. PICK i \in DOMAIN queue : queue[i] = r /\ queue' = RemoveAt(queue, i)
      BY <2>2 DEF Disconnect
    <3>2. /\ queue \in Seq(Requests) /\ req \in [Requests -> Handlers]
          /\ \A j \in DOMAIN queue : req[queue[j]].pc = "queued" /\ queue[j] \in Requests
          /\ \A j, k \in DOMAIN queue : queue[j] = queue[k] => j = k
      BY DEF DoorInv, QueueOK
    <3>3. /\ queue' \in Seq(Requests)
          /\ \A j \in DOMAIN queue' : queue'[j] # r /\ \E k \in DOMAIN queue : queue'[j] = queue[k]
          /\ \A j, k \in DOMAIN queue' : queue'[j] = queue'[k] => j = k
      BY <3>1, <3>2, QueueLeft
    <3>4. \A j \in DOMAIN queue' : req'[queue'[j]].pc = "queued"
      BY <1>2, <3>2, <3>3
    <3> QED BY <3>3, <3>4 DEF QueueOK
  <2> QED BY <1>1, <2>1, <2>2
<1>4. Counts(req[r].pc, q.pc)
  BY <1>1, <1>2, Counters DEF Counts, Holding, Lined, Blocked
<1> QED BY <1>2, <1>3, <1>4, Move

LEMMA UncountKeeps == ASSUME DoorInv, NEW r \in Requests, Uncount(r) PROVE DoorInv'
<1> DEFINE q == IF req[r].pc = "granted" THEN [req[r] EXCEPT !.pc = "fetch"] ELSE Idle
<1>1. /\ req[r].pc \in {"granted", "refused", "gone"} /\ waiters' = waiters - 1
      /\ queue' = queue /\ slots' = slots
  BY DEF Uncount
<1>2. /\ q \in Handlers /\ req' = [req EXCEPT ![r] = q]
      /\ q.pc = IF req[r].pc = "granted" THEN "fetch" ELSE "idle"
  <2>1. CASE req[r].pc = "granted"
    BY <1>1, <2>1, Gone DEF Uncount
  <2>2. CASE req[r].pc # "granted"
    BY <2>2 DEF Uncount, Return, Idle, Handlers, Locals, Pcs
  <2> QED BY <2>1, <2>2
<1> HIDE DEF q
<1>3. QueueOK'
  BY <1>1, <1>2, QueueStays
<1>4. Counts(req[r].pc, q.pc)
  BY <1>1, <1>2, Counters DEF Counts, Holding, Lined, Blocked
<1> QED BY <1>2, <1>3, <1>4, Move

\* Whatever becomes of a fetch, the handler keeps its slot until it gives it back.
LEMMA FetchKeeps ==
  ASSUME DoorInv, NEW r \in Requests,
         Buffer(r) \/ Stream(r) \/ StreamEnds(r) \/ Fail(r) \/ Store(r)
  PROVE  DoorInv'
<1>1. /\ req[r] \in Handlers /\ req[r].pc \in {"fetch", "store", "stream"}
      /\ queue' = queue /\ slots' = slots /\ waiters' = waiters
  BY Counters DEF Buffer, Stream, StreamEnds, Fail, Store, door
<1>0. req[r] \in Locals
  BY <1>1 DEF Handlers, Locals
<1>2. PICK q \in Handlers : req' = [req EXCEPT ![r] = q] /\ q.pc \in {"store", "stream", "release"}
  <2>1. CASE Buffer(r)
    <3> PICK n \in Sizes, whole \in BOOLEAN :
               req' = [req EXCEPT ![r].pc = "store", ![r].size = n, ![r].whole = whole]
      BY <2>1 DEF Buffer
    <3> DEFINE q == [req[r] EXCEPT !.pc = "store", !.size = n, !.whole = whole]
    <3>1. req[r].url \in Urls /\ req[r].begun = 0
      BY <1>1, <2>1 DEF Buffer, Handlers, Locals
    <3>2. q \in Locals
      BY <1>0 DEF Locals, Pcs
    <3>3. q.pc = "store" /\ q.url = req[r].url /\ q.size = n /\ q.begun = req[r].begun
      BY <1>0 DEF Locals
    <3>4. req' = [req EXCEPT ![r] = q]
      BY DEF DoorInv
    <3> HIDE DEF q
    <3> QED BY <3>1, <3>2, <3>3, <3>4 DEF Handlers
  <2>2. CASE Stream(r) \/ Fail(r) \/ Store(r)
    <3>1. req[r].begun = 0
      BY <1>1, <2>2 DEF Stream, Fail, Store, Handlers, Locals
    <3>2. PICK pc \in {"stream", "release"} : Answer(r, pc)
      BY <2>2 DEF Stream, Fail, Store
    <3> DEFINE q == [Idle EXCEPT !.pc = pc, !.begun = req[r].begun + 1]
    <3>3. q \in Locals
      <4>1. req[r].begun + 1 \in 0 .. 1 /\ pc \in Pcs
        BY <3>1 DEF Pcs
      <4> QED BY <4>1, IdleLocals DEF Locals
    <3>4. q.pc = pc
      BY DEF Idle
    <3>5. req' = [req EXCEPT ![r] = q]
      BY <3>2 DEF Answer
    <3> HIDE DEF q
    <3> QED BY <3>3, <3>4, <3>5 DEF Handlers
  <2>3. CASE StreamEnds(r)
    <3> DEFINE q == [req[r] EXCEPT !.pc = "release"]
    <3>1. q \in Handlers /\ q.pc = "release"
      BY <1>0 DEF Handlers, Locals, Pcs
    <3>2. req' = [req EXCEPT ![r] = q]
      BY <1>0, <2>3 DEF StreamEnds, Goto
    <3> QED BY <3>1, <3>2
  <2> QED BY <1>1, <2>1, <2>2, <2>3
<1>3. QueueOK'
  BY <1>1, <1>2, QueueStays
<1>4. Counts(req[r].pc, q.pc)
  BY <1>1, <1>2, Counters DEF Counts, Holding, Lined, Blocked
<1> QED BY <1>2, <1>3, <1>4, Move

\* The slot goes to the first in the queue, or back.
LEMMA ReleaseKeeps == ASSUME DoorInv, NEW r \in Requests, Release(r) PROVE DoorInv'
<1>1. req[r].pc = "release" /\ waiters' = waiters
  BY DEF Release
<1>2. CASE queue = <<>>
  <2>1. Idle \in Handlers /\ req' = [req EXCEPT ![r] = Idle] /\ Idle.pc = "idle"
    BY <1>2, IdleLocals DEF Release, Return, Idle, Handlers
  <2>2. slots' = slots - 1 /\ queue' = queue
    BY <1>2 DEF Release
  <2>3. QueueOK'
    BY <1>1, <2>1, <2>2, QueueStays
  <2>4. Counts(req[r].pc, Idle.pc)
    BY <1>1, <2>1, <2>2, Counters DEF Counts, Holding, Lined, Blocked
  <2> QED BY <2>1, <2>3, <2>4, Move
<1>3. CASE queue # <<>>
  <2> DEFINE h == Head(queue)
             g == [req[h] EXCEPT !.pc = "granted"]
  <2>1. /\ queue \in Seq(Requests) /\ req \in [Requests -> Handlers]
        /\ \A i \in DOMAIN queue : req[queue[i]].pc = "queued" /\ queue[i] \in Requests
        /\ \A i, j \in DOMAIN queue : queue[i] = queue[j] => i = j
    BY DEF DoorInv, QueueOK
  <2>2. /\ Len(queue) \in Nat \ {0} /\ DOMAIN queue = 1 .. Len(queue) /\ h = queue[1]
        /\ Tail(queue) \in Seq(Requests) /\ DOMAIN Tail(queue) = 1 .. (Len(queue) - 1)
        /\ \A i \in 1 .. (Len(queue) - 1) : Tail(queue)[i] = queue[i + 1]
    BY <1>3, <2>1, HeadTailProperties
  <2>3. /\ slots' = slots /\ queue' = Tail(queue)
        /\ req' = [req EXCEPT ![r] = Idle, ![h].pc = "granted"]
    BY <1>3 DEF Release
  <2>4. h \in Requests /\ req[h].pc = "queued" /\ h # r
    BY <1>1, <2>1, <2>2
  <2> HIDE DEF h
  <2>5. req' = [[req EXCEPT ![r] = Idle] EXCEPT ![h] = g]
    BY <2>1, <2>3, <2>4
  <2>6. g \in Handlers /\ g.pc = "granted" /\ Idle \in Handlers /\ Idle.pc = "idle"
    <3>1. req[h] \in Handlers
      BY <2>1, <2>4
    <3>2. g \in Locals /\ g.pc = "granted" /\ g.url = req[h].url /\ g.begun = req[h].begun
      BY <3>1 DEF Handlers, Locals, Pcs
    <3>3. req[h].url \in Urls /\ req[h].begun = 0
      BY <2>4, <3>1 DEF Handlers
    <3> HIDE DEF g
    <3>4. Idle \in Handlers /\ Idle.pc = "idle"
      BY IdleLocals DEF Idle, Handlers
    <3> QED BY <3>2, <3>3, <3>4 DEF Handlers
  <2> HIDE DEF g
  <2>7. /\ req' \in [Requests -> Handlers]
        /\ req'[r].pc = "idle" /\ req'[h].pc = "granted"
        /\ \A x \in Requests \ {r, h} : req'[x] = req[x]
    BY <2>1, <2>4, <2>5, <2>6
  <2>8. QueueOK'
    <3>1. \A i \in 1 .. (Len(queue) - 1) :
            queue[i + 1] \in Requests \ {r, h} /\ req[queue[i + 1]].pc = "queued"
      <4> TAKE i \in 1 .. (Len(queue) - 1)
      <4>1. i + 1 \in DOMAIN queue /\ 1 \in DOMAIN queue /\ i + 1 # 1
        BY <2>2
      <4> QED BY <1>1, <2>1, <2>2, <4>1
    <3>2. \A i \in DOMAIN queue' : req'[queue'[i]].pc = "queued"
      BY <2>2, <2>3, <2>7, <3>1
    <3>3. \A i, j \in DOMAIN queue' : queue'[i] = queue'[j] => i = j
      <4> SUFFICES ASSUME NEW i \in 1 .. (Len(queue) - 1), NEW j \in 1 .. (Len(queue) - 1),
                          queue[i + 1] = queue[j + 1]
                   PROVE  i = j
        BY <2>2, <2>3
      <4>1. i + 1 \in DOMAIN queue /\ j + 1 \in DOMAIN queue
        BY <2>2
      <4>2. i + 1 = j + 1
        BY <2>1, <4>1
      <4> QED BY <4>2
    <3> QED BY <2>2, <2>3, <3>2, <3>3 DEF QueueOK
  <2>9. IsFiniteSet(At(Holding)') /\ slots' = Cardinality(At(Holding)')
    <3>1. IsFiniteSet(At(Holding)) /\ slots = Cardinality(At(Holding))
      BY DEF DoorInv
    <3>2. r \in At(Holding) /\ h \notin At(Holding)
      BY <1>1, <2>4 DEF At, Holding
    <3>3. At(Holding)' = (At(Holding) \ {r}) \cup {h}
      BY <1>1, <2>1, <2>4, <2>7 DEF At, Holding
    <3> DEFINE T == At(Holding)
               U == T \ {r}
    <3>4. IsFiniteSet(U) /\ Cardinality(U) = Cardinality(T) - 1 /\ Cardinality(T) \in Nat
      BY <3>1, <3>2, FS_RemoveElement, FS_CardinalityType
    <3>5. h \notin U
      BY <3>2
    <3> HIDE DEF T, U
    <3>6. IsFiniteSet(U \cup {h}) /\ Cardinality(U \cup {h}) = Cardinality(U) + 1
      BY <3>4, <3>5, FS_AddElement
    <3>7. Cardinality(U \cup {h}) = slots'
      BY <2>3, <3>1, <3>4, <3>6 DEF T
    <3> QED BY <3>3, <3>6, <3>7 DEF T, U
  <2>10. At(Lined)' = At(Lined)
    BY <1>1, <2>1, <2>4, <2>7 DEF At, Lined
  <2>11. IsFiniteSet(At(Blocked)') /\ Cardinality(At(Blocked)') <= MaxWaiters
    <3>1. At(Blocked)' \subseteq At(Blocked)
      BY <1>1, <2>1, <2>4, <2>7 DEF At, Blocked
    <3>2. IsFiniteSet(At(Blocked)) /\ Cardinality(At(Blocked)) <= MaxWaiters /\ MaxWaiters \in Nat
      BY ImagesAssumption DEF DoorInv
    <3>3. /\ IsFiniteSet(At(Blocked)') /\ Cardinality(At(Blocked)') <= Cardinality(At(Blocked))
          /\ Cardinality(At(Blocked)') \in Nat /\ Cardinality(At(Blocked)) \in Nat
      BY <3>1, <3>2, FS_Subset, FS_CardinalityType
    <3> QED BY <3>2, <3>3
  <2> QED BY <1>1, <2>3, <2>7, <2>8, <2>9, <2>10, <2>11 DEF DoorInv
<1> QED BY <1>2, <1>3

-----------------------------------------------------------------------------
(* The cache                                                               *)

\* The bytes of the entries f of S, as pairs of an entry and a number.
Pile(f, S) == UNION {{u} \X (1 .. f[u].size) : u \in S}

LEMMA PileFinite ==
  ASSUME NEW f, NEW S, IsFiniteSet(S), \A u \in S : f[u].size \in Nat
  PROVE  IsFiniteSet(Pile(f, S)) /\ Cardinality(Pile(f, S)) \in Nat
<1> DEFINE g == [u \in S |-> {u} \X (1 .. f[u].size)]
           P == {{u} \X (1 .. f[u].size) : u \in S}
<1>1. \A u \in S : IsFiniteSet({u} \X (1 .. f[u].size))
  <2> TAKE u \in S
  <2>1. IsFiniteSet(1 .. f[u].size)
    BY FS_Interval
  <2>2. IsFiniteSet({u})
    BY FS_Singleton
  <2> QED BY <2>1, <2>2, FS_Product
<1>2. g \in Surjection(S, P)
  <2>1. g \in [S -> P]
    OBVIOUS
  <2>2. \A t \in P : \E u \in S : g[u] = t
    OBVIOUS
  <2> HIDE DEF g, P
  <2> QED BY <2>1, <2>2, Zenon DEF Surjection
<1>3. \A T \in P : IsFiniteSet(T)
  BY <1>1
<1> HIDE DEF g, P
<1>4. IsFiniteSet(P)
  BY <1>2, FS_Surjection
<1>5. IsFiniteSet(UNION P)
  BY <1>3, <1>4, FS_UNION
<1>6. IsFiniteSet(Pile(f, S))
  BY <1>5 DEF Pile, P
<1> QED BY <1>6, FS_CardinalityType

\* What two sets of entries weigh together.
LEMMA PileAdds ==
  ASSUME NEW f, NEW S, NEW T, IsFiniteSet(S), IsFiniteSet(T), S \cap T = {},
         \A u \in S \cup T : f[u].size \in Nat
  PROVE  Cardinality(Pile(f, S \cup T)) = Cardinality(Pile(f, S)) + Cardinality(Pile(f, T))
<1>1. Pile(f, S \cup T) = Pile(f, S) \cup Pile(f, T)
  BY DEF Pile
<1>2. Pile(f, S) \cap Pile(f, T) = {}
  <2>1. ASSUME NEW p \in Pile(f, S), p \in Pile(f, T) PROVE FALSE
    <3>1. PICK u \in S : p \in {u} \X (1 .. f[u].size)
      BY DEF Pile
    <3>2. PICK v \in T : p \in {v} \X (1 .. f[v].size)
      BY <2>1 DEF Pile
    <3>3. p[1] = u /\ p[1] = v
      BY <3>1, <3>2
    <3> QED BY <3>3
  <2> QED BY <2>1
<1> DEFINE A == Pile(f, S)
           B == Pile(f, T)
<1>3. /\ IsFiniteSet(A) /\ Cardinality(A) \in Nat
      /\ IsFiniteSet(B) /\ Cardinality(B) \in Nat
  BY PileFinite
<1> HIDE DEF A, B
<1>4. Cardinality(A \cup B) = Cardinality(A) + Cardinality(B) - Cardinality(A \cap B)
  BY <1>3, FS_Union
<1>5. Cardinality(A \cap B) = 0
  BY <1>2, FS_EmptySet DEF A, B
<1>6. Cardinality(A \cup B) = Cardinality(A) + Cardinality(B)
  BY <1>3, <1>4, <1>5
<1> QED BY <1>1, <1>6 DEF A, B

LEMMA PileOfOne ==
  ASSUME NEW f, NEW u, f[u].size \in Nat
  PROVE  Cardinality(Pile(f, {u})) = f[u].size
<1> DEFINE n == f[u].size
<1>1. Pile(f, {u}) = {u} \X (1 .. n)
  BY DEF Pile
<1> HIDE DEF n
<1>2. IsFiniteSet(1 .. n) /\ Cardinality(1 .. n) = IF 1 > n THEN 0 ELSE n - 1 + 1
  <2>1. n \in Int
    BY DEF n
  <2> QED BY <2>1, FS_Interval
<1>3. IsFiniteSet({u}) /\ Cardinality({u}) = 1
  BY FS_Singleton
<1>4. Cardinality({u} \X (1 .. n)) = 1 * Cardinality(1 .. n)
  BY <1>2, <1>3, FS_Product
<1>5. 1 * Cardinality(1 .. n) = n
  BY <1>2 DEF n
<1> QED BY <1>1, <1>4, <1>5 DEF n

LEMMA PileSame ==
  ASSUME NEW f, NEW g, NEW S, \A u \in S : f[u].size = g[u].size
  PROVE  Pile(f, S) = Pile(g, S)
  BY DEF Pile

LEMMA Weighs ==
  ASSUME CacheInv
  PROVE  /\ \A u \in Cached : items[u] \in Entries /\ items[u].size \in Nat
         /\ \A S : Bytes(S) = Cardinality(Pile(items, S))
  BY ImagesAssumption DEF CacheInv, Cached, Entries, Bytes, Pile

\* A cache whose entries are S, none left out of the total, is within its budgets.
LEMMA Within ==
  ASSUME items' \in [Urls -> Entries \cup {None}], NEW S, Cached' = S, IsFiniteSet(S),
         totalBytes' = Cardinality(Pile(items', S)), Cardinality(S) <= MaxEntries,
         totalBytes' > MaxBytes => Cardinality(S) = 1
  PROVE  CacheInv'
  BY DEF CacheInv, Budget, Bytes, Pile

LEMMA SetKeeps ==
  ASSUME CacheInv, NEW u \in Urls, NEW n \in Sizes, NEW whole \in BOOLEAN, Set(u, n, whole)
  PROVE  CacheInv'
<1> PICK V \in Evictions(Cached \ {u}, n) :
      /\ items' = [w \in Urls |->
                     IF w = u THEN [size |-> n, whole |-> whole, left |-> TTL]
                     ELSE IF w \in V THEN None ELSE items[w]]
      /\ totalBytes' = totalBytes + n - Bytes(V \cup (Cached \cap {u}))
  BY DEF Set
<1> DEFINE R == (Cached \ {u}) \ V
           D == V \cup (Cached \cap {u})
           e == [size |-> n, whole |-> whole, left |-> TTL]
<1>1. /\ e \in Entries /\ e # None /\ e.size = n /\ n \in Nat
      /\ MaxEntries \in Nat \ {0} /\ MaxBytes \in Nat
  BY ImagesAssumption, NoneIsNoEntry DEF Entries
<1>2. /\ items \in [Urls -> Entries \cup {None}] /\ IsFiniteSet(Cached)
      /\ totalBytes = Bytes(Cached)
  BY DEF CacheInv, Budget
<1>3. V \subseteq Cached \ {u} /\ (R = {} \/ Fits(R, n))
  BY DEF Evictions
<1>4. R \cap D = {} /\ Cached = R \cup D /\ u \notin R /\ R \subseteq Urls
  BY <1>3 DEF Cached
<1>5. IsFiniteSet(R) /\ IsFiniteSet(D) /\ Cardinality(R) \in Nat
  BY <1>2, <1>4, FS_Subset, FS_CardinalityType
<1>6. /\ items' \in [Urls -> Entries \cup {None}]
      /\ items'[u] = e /\ \A w \in R : items'[w] = items[w]
      /\ \A w \in Urls \ (R \cup {u}) : items'[w] = None
  <2> HIDE DEF e
  <2>1. items' = [w \in Urls |-> IF w = u THEN e ELSE IF w \in V THEN None ELSE items[w]]
    BY DEF e
  <2>2. \A w \in R : w # u /\ w \notin V /\ w \in Urls
    BY <1>4
  <2>3. \A w \in Urls \ (R \cup {u}) : w # u /\ (w \in V \/ items[w] = None)
    BY DEF Cached
  <2> HIDE DEF R
  <2> QED BY <1>1, <1>2, <2>1, <2>2, <2>3
<1>7. Cached' = R \cup {u}
  <2>1. \A w \in R : items[w] # None
    BY DEF Cached
  <2> HIDE DEF e, R
  <2> QED BY <1>1, <1>4, <1>6, <2>1 DEF Cached
<1>8. \A w \in Cached : items[w].size \in Nat
  BY Weighs
<1>9. Bytes(Cached) = Bytes(R) + Bytes(D) /\ Bytes(R) \in Nat /\ Bytes(D) \in Nat
  <2> DEFINE C == Cached
  <2>1. C = R \cup D /\ \A w \in C : items[w].size \in Nat
    BY <1>4, <1>8
  <2> HIDE DEF C, R, D
  <2>2. Cardinality(Pile(items, C)) = Cardinality(Pile(items, R)) + Cardinality(Pile(items, D))
    BY <1>4, <1>5, <2>1, PileAdds
  <2>3. Cardinality(Pile(items, R)) \in Nat /\ Cardinality(Pile(items, D)) \in Nat
    BY <1>5, <2>1, PileFinite
  <2> QED BY <2>2, <2>3, Weighs DEF C
<1>10. totalBytes' = Bytes(R) + n
  <2>1. totalBytes' = totalBytes + n - Bytes(D)
    OBVIOUS
  <2> HIDE DEF R, D
  <2> QED BY <1>1, <1>2, <1>9, <2>1
<1>11. Cardinality(Pile(items', R \cup {u})) = Bytes(R) + n
  <2>1. \A w \in R : items'[w].size = items[w].size /\ items[w].size \in Nat
    BY <1>4, <1>6, <1>8
  <2>2. items'[u].size = n
    BY <1>1, <1>6
  <2>3. IsFiniteSet({u}) /\ R \cap {u} = {}
    BY <1>4, FS_Singleton
  <2> HIDE DEF R
  <2>4. Cardinality(Pile(items', R \cup {u})) = Cardinality(Pile(items', R)) + Cardinality(Pile(items', {u}))
    <3>1. \A w \in R \cup {u} : items'[w].size \in Nat
      BY <1>1, <2>1, <2>2
    <3> QED BY <1>5, <2>3, <3>1, PileAdds
  <2>5. Cardinality(Pile(items', {u})) = n
    BY <1>1, <2>2, PileOfOne
  <2>6. Pile(items', R) = Pile(items, R)
    BY <2>1, PileSame
  <2>7. Cardinality(Pile(items, R)) = Bytes(R)
    BY Weighs
  <2> QED BY <2>4, <2>5, <2>6, <2>7
<1>12. IsFiniteSet(R \cup {u}) /\ Cardinality(R \cup {u}) = Cardinality(R) + 1
  BY <1>4, <1>5, FS_AddElement
<1>13. /\ Cardinality(R \cup {u}) <= MaxEntries
       /\ Bytes(R) + n > MaxBytes => Cardinality(R \cup {u}) = 1
  <2>1. CASE R = {}
    <3>1. Cardinality(R) = 0
      BY <2>1, FS_EmptySet
    <3> HIDE DEF R
    <3> QED BY <1>1, <1>12, <3>1
  <2>2. CASE Fits(R, n)
    <3>1. Cardinality(R) < MaxEntries /\ Bytes(R) + n <= MaxBytes
      BY <2>2 DEF Fits
    <3> HIDE DEF R
    <3> QED BY <1>1, <1>5, <1>9, <1>12, <3>1
  <2> QED BY <1>3, <2>1, <2>2
<1> HIDE DEF R, D, e
<1> QED BY <1>6, <1>7, <1>10, <1>11, <1>12, <1>13, Within

LEMMA ReapKeeps == ASSUME CacheInv, ReapOnce PROVE CacheInv'
<1> DEFINE V == {u \in Cached : Expired(u)}
           R == Cached \ V
<1>1. /\ items' = [u \in Urls |-> IF u \in V THEN None ELSE items[u]]
      /\ totalBytes' = totalBytes - Bytes(V)
  BY DEF ReapOnce
<1>2. /\ items \in [Urls -> Entries \cup {None}] /\ IsFiniteSet(Cached)
      /\ totalBytes = Bytes(Cached) /\ Cardinality(Cached) <= MaxEntries
      /\ totalBytes > MaxBytes => Cardinality(Cached) = 1
      /\ MaxEntries \in Nat /\ MaxBytes \in Nat
  BY ImagesAssumption DEF CacheInv, Budget
<1>3. V \cap R = {} /\ Cached = R \cup V /\ R \subseteq Urls /\ V \subseteq Cached
  BY DEF Cached
<1>4. \A w \in Cached : items[w].size \in Nat
  BY Weighs
<1> HIDE DEF V
<1>5. items' \in [Urls -> Entries \cup {None}] /\ \A w \in R : items'[w] = items[w]
  BY <1>1, <1>2, <1>3
<1>6. Cached' = R
  BY <1>1, <1>2, <1>3 DEF Cached
<1>7. /\ IsFiniteSet(R) /\ IsFiniteSet(V)
      /\ Cardinality(R) \in Nat /\ Cardinality(Cached) \in Nat
      /\ Cardinality(R) <= Cardinality(Cached)
  BY <1>2, <1>3, FS_Subset, FS_CardinalityType
<1> HIDE DEF R
<1>8. /\ Bytes(Cached) = Bytes(R) + Bytes(V) /\ Bytes(R) \in Nat /\ Bytes(V) \in Nat
  <2> DEFINE C == Cached
  <2>1. C = R \cup V /\ R \cap V = {} /\ \A w \in C : items[w].size \in Nat
    BY <1>3, <1>4
  <2> HIDE DEF C
  <2>2. Cardinality(Pile(items, C)) = Cardinality(Pile(items, R)) + Cardinality(Pile(items, V))
    BY <1>7, <2>1, PileAdds
  <2>3. Cardinality(Pile(items, R)) \in Nat /\ Cardinality(Pile(items, V)) \in Nat
    BY <1>7, <2>1, PileFinite
  <2> QED BY <2>2, <2>3, Weighs DEF C
<1>9. totalBytes' = Bytes(R)
  BY <1>1, <1>2, <1>8
<1>10. Cardinality(Pile(items', R)) = Bytes(R)
  <2>1. Pile(items', R) = Pile(items, R)
    BY <1>5, PileSame
  <2> QED BY <2>1, Weighs
<1>11. totalBytes' > MaxBytes => Cardinality(R) = 1
  <2> SUFFICES ASSUME totalBytes' > MaxBytes PROVE Cardinality(R) = 1
    OBVIOUS
  <2>1. Cardinality(Cached) = 1
    BY <1>2, <1>8, <1>9
  <2>2. R # {}
    <3> SUFFICES ASSUME R = {} PROVE FALSE
      OBVIOUS
    <3>1. Pile(items, R) = {}
      BY DEF Pile
    <3>2. Bytes(R) = 0
      BY <3>1, FS_EmptySet, Weighs
    <3> QED BY <1>2, <1>9, <3>2
  <2>3. Cardinality(R) # 0
    BY <1>7, <2>2, FS_EmptySet
  <2> QED BY <1>7, <2>1, <2>3
<1>12. Cardinality(R) <= MaxEntries
  BY <1>2, <1>7
<1> QED BY <1>5, <1>6, <1>7, <1>9, <1>10, <1>11, <1>12, Within

LEMMA TickKeeps == ASSUME CacheInv, Tick PROVE CacheInv'
<1>1. /\ items' = [u \in Urls |-> IF u \in Cached /\ ~Expired(u)
                                  THEN [items[u] EXCEPT !.left = @ - 1] ELSE items[u]]
      /\ totalBytes' = totalBytes
  BY DEF Tick
<1>2. /\ items \in [Urls -> Entries \cup {None}] /\ IsFiniteSet(Cached)
      /\ totalBytes = Bytes(Cached) /\ Cardinality(Cached) <= MaxEntries
      /\ totalBytes > MaxBytes => Cardinality(Cached) = 1
  BY DEF CacheInv, Budget
<1>3. ASSUME NEW u \in Cached
      PROVE  items'[u] \in Entries /\ items'[u] # None /\ items'[u].size = items[u].size
  <2>1. u \in Urls /\ items[u] \in Entries
    BY <1>2 DEF Cached
  <2>2. CASE ~Expired(u)
    <3>1. items[u].left \in 1 .. TTL
      <4>1. items[u].left \in 0 .. TTL /\ items[u].left # 0 /\ TTL \in Nat
        BY <2>1, <2>2, ImagesAssumption DEF Expired, Entries
      <4> QED BY <4>1
    <3>2. items[u].left - 1 \in 0 .. TTL
      BY <3>1, ImagesAssumption
    <3>3. items'[u] = [items[u] EXCEPT !.left = items[u].left - 1]
      BY <1>1, <2>1, <2>2
    <3> QED BY <2>1, <3>2, <3>3, NoneIsNoEntry DEF Entries
  <2>3. CASE Expired(u)
    BY <1>1, <2>1, <2>3, NoneIsNoEntry
  <2> QED BY <2>2, <2>3
<1>4. \A u \in Urls \ Cached : items'[u] = None /\ items[u] = None
  BY <1>1 DEF Cached
<1>5. items' \in [Urls -> Entries \cup {None}]
  <2>1. \A u \in Urls : items'[u] \in Entries \cup {None}
    BY <1>3, <1>4
  <2>2. items' = [u \in Urls |-> items'[u]]
    BY <1>1
  <2> QED BY <2>1, <2>2
<1>6. Cached' = Cached
  BY <1>3, <1>4 DEF Cached
<1> PICK C : C = Cached
  OBVIOUS
<1>7. Pile(items', C) = Pile(items, C) /\ Bytes(C) = Cardinality(Pile(items, C))
  BY <1>3, PileSame, Weighs
<1>8. /\ Cached' = C /\ IsFiniteSet(C) /\ totalBytes' = Cardinality(Pile(items', C))
      /\ Cardinality(C) <= MaxEntries
      /\ totalBytes' > MaxBytes => Cardinality(C) = 1
  BY <1>1, <1>2, <1>6, <1>7
<1> QED BY <1>5, <1>8, Within

-----------------------------------------------------------------------------

Inv == DoorInv /\ CacheInv

LEMMA InitInv == Init => Inv
<1> SUFFICES ASSUME Init PROVE Inv
  OBVIOUS
<1>1. IsFiniteSet({}) /\ Cardinality({}) = 0
  BY FS_EmptySet
<1>2. DoorInv
  <2>1. At(Holding) = {} /\ At(Lined) = {} /\ At(Blocked) = {}
    BY DEF Init, At, Holding, Lined, Blocked, Idle
  <2>2. req \in [Requests -> Handlers]
    <3>1. Idle \in Handlers
      BY IdleLocals DEF Idle, Handlers
    <3> QED BY <3>1 DEF Init
  <2>3. QueueOK
    BY DEF Init, QueueOK
  <2>4. slots = 0 /\ waiters = 0 /\ 0 <= Slots /\ 0 <= MaxWaiters
    BY ImagesAssumption DEF Init
  <2> QED BY <1>1, <2>1, <2>2, <2>3, <2>4 DEF DoorInv
<1>3. CacheInv
  <2>1. Cached = {} /\ items \in [Urls -> Entries \cup {None}] /\ totalBytes = 0
    BY DEF Init, Cached
  <2>2. Bytes(Cached) = 0
    <3>1. UNION {{u} \X (1 .. items[u].size) : u \in Cached} = {}
      BY <2>1
    <3> QED BY <1>1, <3>1 DEF Bytes
  <2>3. 0 <= MaxEntries /\ ~(0 > MaxBytes)
    BY ImagesAssumption
  <2> QED BY <1>1, <2>1, <2>2, <2>3 DEF CacheInv, Budget
<1> QED BY <1>2, <1>3 DEF Inv

LEMMA NextInv == Inv /\ [Next]_vars => Inv'
<1> SUFFICES ASSUME Inv, [Next]_vars PROVE Inv'
  OBVIOUS
<1>0. DoorInv /\ CacheInv
  BY DEF Inv
<1>1. ASSUME UNCHANGED cache PROVE CacheInv'
  BY <1>0, <1>1 DEF cache, CacheInv, Budget, Bytes, Cached
<1>2. ASSUME UNCHANGED <<door, req>> PROVE DoorInv'
  BY <1>0, <1>2 DEF door, DoorInv, QueueOK, At
<1>3. ASSUME NEW r \in Requests, Miss(r) \/ Disconnect(r) PROVE Inv'
  <2>1. DoorInv'
    BY <1>0, <1>3, MissKeeps, DisconnectKeeps
  <2>2. UNCHANGED cache
    BY <1>3 DEF Miss, Disconnect
  <2> QED BY <1>1, <2>1, <2>2 DEF Inv
<1>4. ASSUME NEW r \in Requests, Step(r) PROVE Inv'
  <2>1. DoorInv'
    BY <1>0, <1>4, AcquireKeeps, CountKeeps, BlockKeeps, UncountKeeps, FetchKeeps, ReleaseKeeps DEF Step
  <2>2. CASE Store(r)
    <3>1. req[r].url \in Urls /\ req[r].size \in Sizes /\ req[r].whole \in BOOLEAN
      BY <1>0, <2>2, Counters DEF Store, Handlers, Locals
    <3>2. CacheInv'
      BY <1>0, <2>2, <3>1, SetKeeps DEF Store
    <3> QED BY <2>1, <3>2 DEF Inv
  <2>3. CASE ~Store(r)
    <3>1. UNCHANGED cache
      BY <1>4, <2>3 DEF Step, Acquire, Count, Block, Uncount, Buffer, Stream, StreamEnds, Fail, Release
    <3> QED BY <1>1, <2>1, <3>1 DEF Inv
  <2> QED BY <2>2, <2>3
<1>5. CASE ReapOnce
  <2>1. UNCHANGED <<door, req>>
    BY <1>5 DEF ReapOnce
  <2> QED BY <1>0, <1>2, <1>5, <2>1, ReapKeeps DEF Inv
<1>6. CASE Tick
  <2>1. UNCHANGED <<door, req>>
    BY <1>6 DEF Tick
  <2> QED BY <1>0, <1>2, <1>6, <2>1, TickKeeps DEF Inv
<1>7. CASE UNCHANGED vars
  <2>1. UNCHANGED cache /\ UNCHANGED <<door, req>>
    BY <1>7 DEF vars, cache, door
  <2> QED BY <1>1, <1>2, <2>1 DEF Inv
<1> QED BY <1>3, <1>4, <1>5, <1>6, <1>7 DEF Next

\* The inductive invariant.
LEMMA Invariance == Spec => []Inv
  BY InitInv, NextInv, PTL DEF Spec

\* Every variable keeps its type, whatever a request does and however it ends.
THEOREM TypeCorrect == Spec => []TypeOK
<1>1. Inv => TypeOK
  <2> SUFFICES ASSUME Inv PROVE TypeOK
    OBVIOUS
  <2>1. items \in [Urls -> Entries \cup {None}] /\ queue \in Seq(Requests)
    BY DEF Inv, CacheInv, DoorInv, QueueOK
  <2>2. totalBytes \in Nat
    <3>1. CacheInv /\ totalBytes = Bytes(Cached) /\ IsFiniteSet(Cached)
      BY DEF Inv, CacheInv, Budget
    <3>2. /\ \A u \in Cached : items[u].size \in Nat
          /\ Bytes(Cached) = Cardinality(Pile(items, Cached))
      BY <3>1, Weighs
    <3> QED BY <3>1, <3>2, PileFinite
  <2>3. slots \in 0 .. Slots /\ waiters \in Nat
    BY Counters DEF Inv
  <2>4. \A q \in Handlers :
          q \in [pc : {"idle", "try", "counted", "queued", "granted", "refused", "gone",
                     "fetch", "store", "stream", "release"},
                url : Urls \cup {None}, size : Sizes \cup {0}, whole : BOOLEAN, begun : Nat]
    BY DEF Handlers, Locals, Pcs
  <2>5. req \in [Requests -> Handlers]
    BY DEF Inv, DoorInv
  <2> QED BY <2>1, <2>2, <2>3, <2>4, <2>5 DEF TypeOK
<1> QED BY Invariance, <1>1, PTL

\* Budget: the total is what the entries weigh, and the cache keeps to both of
\* its budgets (set, reapOnce).
THEOREM CacheKeepsBudget == Spec => []Budget
<1>1. Inv => Budget
  BY DEF Inv, CacheInv
<1> QED BY Invariance, <1>1, PTL

\* SlotsHeld: slots, waiters and the counter never drift apart from the handlers
\* that answer for them, whichever way each leaves (imgFetchSlots, imgQueueWaiters).
THEOREM NoSlotLeaks == Spec => []SlotsHeld
<1>1. Inv => SlotsHeld
  BY DEF Inv, DoorInv, SlotsHeld, Holding, Lined, Blocked
<1> QED BY Invariance, <1>1, PTL

\* OneResponse: nothing is appended to a response that has begun (ErrStreamCommitted).
THEOREM OneAnswer == Spec => []OneResponse
<1>1. Inv => OneResponse
  BY DEF Inv, DoorInv, OneResponse, Handlers, Locals
<1> QED BY Invariance, <1>1, PTL
====
