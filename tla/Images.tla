-------------------------------- MODULE Images --------------------------------
(***************************************************************************)
(* GET /api/img: the image cache and its reaper (main.go), the fetch slots *)
(* and the bounded queue in front of them (handlers.go) and the two ways   *)
(* ProxyImageStream (pixiv/images.go) delivers a body: returned whole for  *)
(* the handler to cache and write, or streamed to a response it has begun. *)
(*                                                                         *)
(* A body is its size and whether all of it arrived, an entry's expiry the *)
(* time it has left, 0 once that is over.  Blocked senders on a Go channel *)
(* are served in order: the slots are a counter and a queue.               *)
(***************************************************************************)
EXTENDS Integers, SequencesExt

CONSTANTS Requests, Urls,
          Sizes,          \* of the bodies of the CDN
          Slots,          \* maxConcurrentImageFetches
          MaxWaiters,     \* maxImgQueueWaiters
          MaxEntries,     \* imageCache.maxEntries
          MaxBytes,       \* imageCache.maxBytes
          MaxEntryBytes,  \* maxEntryBytes, and maxCacheableBody with it
          TTL,            \* imageCache.ttl, in ticks
          None

ASSUME ImagesAssumption ==
  /\ Sizes \subseteq Nat
  /\ {Slots, MaxEntries, MaxBytes, MaxEntryBytes, TTL} \subseteq Nat \ {0}
  /\ MaxWaiters \in Nat

VARIABLES
  items,       \* imageCache.items
  totalBytes,  \* imageCache.totalBytes
  slots,       \* how many tokens are in imgFetchSlots
  queue,       \* the requests blocked sending to it, in order
  waiters,     \* imgQueueWaiters
  req          \* req[r]: the handler serving r

cache == <<items, totalBytes>>
door == <<slots, queue, waiters>>
vars == <<items, totalBytes, slots, queue, waiters, req>>

Entries == [size : Sizes, whole : BOOLEAN, left : 0 .. TTL]
ASSUME NoneIsNoEntry == None \notin Entries

\* `begun` counts the times a status line was written for the request.
Idle == [pc |-> "idle", url |-> None, size |-> 0, whole |-> TRUE, begun |-> 0]

Init ==
  /\ items = [u \in Urls |-> None]
  /\ totalBytes = 0
  /\ slots = 0
  /\ queue = <<>>
  /\ waiters = 0
  /\ req = [r \in Requests |-> Idle]

Goto(r, pc) == req' = [req EXCEPT ![r].pc = pc]
\* The handler answers, with nothing left to read in its locals, and goes on to pc.
Answer(r, pc) == req' = [req EXCEPT ![r] = [Idle EXCEPT !.pc = pc, !.begun = req[r].begun + 1]]
Return(r) == req' = [req EXCEPT ![r] = Idle]

-----------------------------------------------------------------------------
(* imageCache                                                              *)

Cached == {u \in Urls : items[u] # None}
\* The bytes of the entries of S, counted one by one.
Bytes(S) == Cardinality(UNION {{u} \X (1 .. items[u].size) : u \in S})
Expired(u) == items[u].left = 0

\* The entries of S leave room for one of n bytes.
Fits(S, n) == Cardinality(S) < MaxEntries /\ Bytes(S) + n <= MaxBytes

\* The sets the eviction loop of `set` may remove from S: the soonest to expire
\* first, one by one, until n bytes fit or nothing is left.
Evictions(S, n) ==
  {V \in SUBSET S :
     /\ \A v \in V, k \in S \ V : items[v].left <= items[k].left
     /\ S \ V = {} \/ Fits(S \ V, n)
     /\ V = {} \/ \E v \in V : /\ \A w \in V : items[w].left <= items[v].left
                               /\ ~Fits((S \ V) \cup {v}, n)}

\* Mutant: the entry that is replaced stays in the total.
SetOverwriting(u, n, whole) ==
  \E V \in Evictions(Cached \ {u}, n) :
    /\ items' = [w \in Urls |->
                   IF w = u THEN [size |-> n, whole |-> whole, left |-> TTL]
                   ELSE IF w \in V THEN None ELSE items[w]]
    /\ totalBytes' = totalBytes + n - Bytes(V)

\* set, for a body not above maxEntryBytes: the old entry goes first.
Set(u, n, whole) ==
  \E V \in Evictions(Cached \ {u}, n) :
    /\ items' = [w \in Urls |->
                   IF w = u THEN [size |-> n, whole |-> whole, left |-> TTL]
                   ELSE IF w \in V THEN None ELSE items[w]]
    /\ totalBytes' = totalBytes + n - Bytes(V \cup (Cached \cap {u}))

\* One tick of the reaper's loop.
ReapOnce ==
  LET V == {u \in Cached : Expired(u)} IN
  /\ V # {}
  /\ items' = [u \in Urls |-> IF u \in V THEN None ELSE items[u]]
  /\ totalBytes' = totalBytes - Bytes(V)
  /\ UNCHANGED <<door, req>>

Tick ==
  /\ \E u \in Cached : ~Expired(u)
  /\ items' = [u \in Urls |-> IF u \in Cached /\ ~Expired(u)
                             THEN [items[u] EXCEPT !.left = @ - 1] ELSE items[u]]
  /\ UNCHANGED <<totalBytes, door, req>>

-----------------------------------------------------------------------------
(* The handler                                                             *)

\* An unexpired entry answers at once (and changes nothing); a miss goes on.
Miss(r) ==
  /\ req[r].pc = "idle"
  /\ \E u \in Urls :
       /\ u \in Cached => Expired(u)
       /\ req' = [req EXCEPT ![r] = [Idle EXCEPT !.pc = "try", !.url = u]]
  /\ UNCHANGED <<cache, door>>

\* A slot is free: take it, ...
Acquire(r) ==
  /\ req[r].pc \in {"try", "counted"}
  /\ slots < Slots
  /\ slots' = slots + 1
  /\ Goto(r, IF req[r].pc = "try" THEN "fetch" ELSE "granted")
  /\ UNCHANGED <<cache, queue, waiters>>

\* Mutant: the counter is read, and raised later.
CountLate(r) ==
  /\ \/ /\ req[r].pc = "try"
        /\ slots = Slots
        /\ Goto(r, IF waiters + 1 > MaxWaiters THEN "refused" ELSE "room")
        /\ waiters' = IF waiters + 1 > MaxWaiters THEN waiters + 1 ELSE waiters
     \/ /\ req[r].pc = "room"
        /\ waiters' = waiters + 1
        /\ Goto(r, "counted")
  /\ UNCHANGED <<cache, slots, queue>>

\* ... or else be counted (Add), and refused when that is one too many.
Count(r) ==
  /\ req[r].pc = "try"
  /\ slots = Slots
  /\ waiters' = waiters + 1
  /\ Goto(r, IF waiters + 1 > MaxWaiters THEN "refused" ELSE "counted")
  /\ UNCHANGED <<cache, slots, queue>>

Block(r) ==
  /\ req[r].pc = "counted"
  /\ slots = Slots
  /\ queue' = Append(queue, r)
  /\ Goto(r, "queued")
  /\ UNCHANGED <<cache, slots, waiters>>

\* r.Context().Done: the client went away while it waited.
Disconnect(r) ==
  /\ req[r].pc \in {"counted", "queued"}
  /\ IF req[r].pc = "counted" THEN UNCHANGED queue
     ELSE \E i \in DOMAIN queue : queue[i] = r /\ queue' = RemoveAt(queue, i)
  /\ Goto(r, "gone")
  /\ UNCHANGED <<cache, slots, waiters>>

\* imgQueueWaiters.Add(-1), on each of the three ways out of the queue.
Uncount(r) ==
  /\ req[r].pc \in {"granted", "refused", "gone"}
  /\ waiters' = waiters - 1
  /\ IF req[r].pc = "granted" THEN Goto(r, "fetch") ELSE Return(r)
  /\ UNCHANGED <<cache, slots, queue>>

\* ProxyImageStream: ReadFull ends before the buffer is full, and what it read is
\* returned.  io.ErrUnexpectedEOF, its answer to a body of any length that
\* broke off early, counts as the end of a small one.
Buffer(r) ==
  /\ req[r].pc = "fetch"
  /\ \E n \in {m \in Sizes : m <= MaxEntryBytes}, whole \in BOOLEAN :
       req' = [req EXCEPT ![r].pc = "store", ![r].size = n, ![r].whole = whole]
  /\ UNCHANGED <<cache, door>>

\* More than the buffer holds: the response is begun.
Stream(r) ==
  /\ req[r].pc = "fetch"
  /\ \E n \in Sizes : n > MaxEntryBytes
  /\ Answer(r, "stream")
  /\ UNCHANGED <<cache, door>>

\* Mutant: a broken stream returns with its slot.
StreamBreaks(r) ==
  /\ req[r].pc = "stream"
  /\ Goto(r, "release") \/ Return(r)
  /\ UNCHANGED <<cache, door>>

\* The stream ends, or breaks off with ErrStreamCommitted: nothing is written.
StreamEnds(r) ==
  /\ req[r].pc = "stream"
  /\ Goto(r, "release")
  /\ UNCHANGED <<cache, door>>

\* Mutant: every error of ProxyImageStream is answered 502.
FailAnyway(r) ==
  /\ req[r].pc \in {"fetch", "stream"}
  /\ Answer(r, "release")
  /\ UNCHANGED <<cache, door>>

\* Host, transport, status, content type, any other error reading the body: 502.
Fail(r) ==
  /\ req[r].pc = "fetch"
  /\ Answer(r, "release")
  /\ UNCHANGED <<cache, door>>

Store(r) ==
  /\ req[r].pc = "store"
  /\ Set(req[r].url, req[r].size, req[r].whole)
  /\ Answer(r, "release")
  /\ UNCHANGED door

\* The deferred receive: the first blocked sender has the slot at once.
Release(r) ==
  /\ req[r].pc = "release"
  /\ IF queue = <<>> THEN slots' = slots - 1 /\ Return(r) /\ UNCHANGED queue
     ELSE /\ req' = [req EXCEPT ![r] = Idle, ![Head(queue)].pc = "granted"]
          /\ queue' = Tail(queue)
          /\ UNCHANGED slots
  /\ UNCHANGED <<cache, waiters>>

Step(r) ==
  \/ Acquire(r) \/ Count(r) \/ Block(r) \/ Uncount(r)
  \/ Buffer(r) \/ Stream(r) \/ StreamEnds(r) \/ Fail(r) \/ Store(r) \/ Release(r)

Next ==
  \/ \E r \in Requests : Miss(r) \/ Disconnect(r) \/ Step(r)
  \/ ReapOnce \/ Tick

Spec == Init /\ [][Next]_vars

\* Handlers run, and upstream ends every fetch (imageClientTimeout).
FairSpec == Spec /\ \A r \in Requests : WF_vars(Step(r))

-----------------------------------------------------------------------------

TypeOK ==
  /\ items \in [Urls -> Entries \cup {None}]
  /\ totalBytes \in Nat
  /\ slots \in 0 .. Slots
  /\ queue \in Seq(Requests)
  /\ waiters \in Nat
  /\ req \in [Requests ->
       [pc : {"idle", "try", "counted", "queued", "granted", "refused", "gone",
              "fetch", "store", "stream", "release"},
        url : Urls \cup {None}, size : Sizes \cup {0}, whole : BOOLEAN, begun : Nat]]

At(S) == {r \in Requests : req[r].pc \in S}

\* totalBytes, on which eviction decides, is what the entries weigh, after any
\* sequence of inserts, replacements, evictions and reaps, and the cache keeps to
\* both of its budgets; one entry alone may exceed the bytes, when the budget is
\* configured below maxEntryBytes (main.go, lines 78-123).
Budget ==
  /\ totalBytes = Bytes(Cached)
  /\ Cardinality(Cached) <= MaxEntries
  /\ totalBytes > MaxBytes => Cardinality(Cached) = 1

\* Every token in imgFetchSlots is held by a request that gives it back, on every
\* path out of the handler, no more requests than maxImgQueueWaiters block, and
\* the counter is theirs plus those between an Add and its undoing: nothing
\* drifts, nothing is given back twice (handlers.go, 66-69).
SlotsHeld ==
  /\ slots = Cardinality(At({"granted", "fetch", "store", "stream", "release"}))
  /\ Cardinality(At({"counted", "queued"})) <= MaxWaiters
  /\ waiters = Cardinality(At({"counted", "queued", "granted", "refused", "gone"}))

\* A response is begun at most once: no error page is appended to a stream under
\* way (images.go, lines 43-47; handlers.go, lines 1001-1008).
OneResponse == \A r \in Requests : req[r].begun <= 1

\* Every image request ends, those that queued included: a burst is slow, not
\* broken (handlers.go, lines 51-61).
Answered == \A r \in Requests : req[r].pc # "idle" ~> req[r].pc = "idle"

\* The claim of images.go, lines 56-65: what is returned to be cached is the whole
\* of a small body, and every error of that path can still be answered as one.
CachedWhole == \A u \in Cached : items[u].whole
=============================================================================
