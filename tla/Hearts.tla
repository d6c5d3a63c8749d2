--------------------------------- MODULE Hearts ---------------------------------
(***************************************************************************)
(* The hearts (store.ts, runToggleLike of FeedCard.tsx and GridFeed.tsx).  *)
(* Every mounted card of a work holds the entry of likeStates it found or  *)
(* made: a signal of its own merged with the set likedIds, which the boot  *)
(* seed replaces.  A toggle flips the heart at once and reverts it when    *)
(* the page is told that the request failed, which it also is when Pixiv   *)
(* applied it and the answer was lost or late (likeWork gives up after     *)
(* 10 s); the lock against a second request is the card's.                 *)
(***************************************************************************)
EXTENDS Naturals, Sequences, FiniteSets

CONSTANTS Slots,     \* the places where a card is mounted
          Works,
          Cap,       \* maxLikeStateEntries
          Users,     \* "patient": taps a heart after the seed, sees at most Cap
                     \* works, waits for the request under way on a work; the
                     \* "early", "tireless" and "racing" skip one of these
          None

VARIABLES
  entries,   \* likeStates, oldest first: a work and its signal each
  local,     \* the signals that are TRUE
  likedIds,
  card,      \* what is mounted in each slot: a work and its signal
  request,   \* the like or unlike each slot's card has under way: its lock
  server,    \* the bookmarks at Pixiv
  astray,    \* history: the works whose last request to reach Pixiv was
             \* told failed
  seed,      \* what the boot's GET /api/bookmarks/ids came to
  user

store == <<entries, local, likedIds>>
vars == <<store, card, request, server, astray, seed, user>>

Signals == 1 .. (Cap + 2 * Cardinality(Slots))
Held == {card[s].signal : s \in {s \in Slots : card[s] # None}}
          \cup {request[s].signal : s \in {s \in Slots : request[s] # None}}
          \cup {entries[i].signal : i \in DOMAIN entries}
Fresh == CHOOSE n \in Signals : n \notin Held /\ \A m \in Signals : m < n => m \in Held

Init ==
  /\ entries = <<>> /\ local = {} /\ likedIds = {}
  /\ card = [s \in Slots |-> None] /\ request = [s \in Slots |-> None]
  /\ server \in SUBSET Works /\ astray = {}
  /\ seed = [phase |-> "asked", ids |-> {}]
  /\ user \in Users

EntryOf(work) == {entries[i] : i \in {i \in DOMAIN entries : entries[i].work = work}}
Liked(e) == e.signal \in local \/ e.work \in likedIds
Busy(s) == request[s] # None
Requested(work) == \E s \in Slots : Busy(s) /\ request[s].work = work

\* setLiked: the set and the signal
SetLiked(e, on) ==
  /\ likedIds' = IF on THEN likedIds \cup {e.work} ELSE likedIds \ {e.work}
  /\ local' = IF on THEN local \cup {e.signal} ELSE local \ {e.signal}

-----------------------------------------------------------------------------
\* Mutant: every card keeps a signal of its own.
GetOwnState(s, work, initial) ==
  /\ entries' = Append(entries, [work |-> work, signal |-> Fresh])
  /\ local' = IF initial THEN local \cup {Fresh} ELSE local \ {Fresh}
  /\ card' = [card EXCEPT ![s] = [work |-> work, signal |-> Fresh]]
\* The entry of the work, or a new one and the oldest evicted past the cap.
GetLikeState(s, work, initial) ==
  \/ /\ \E e \in EntryOf(work) : card' = [card EXCEPT ![s] = e]
     /\ UNCHANGED <<entries, local>>
  \/ /\ EntryOf(work) = {}
     /\ user # "tireless" => Len(entries) < Cap
     /\ LET all == Append(entries, [work |-> work, signal |-> Fresh])
        IN entries' = IF Len(all) > Cap THEN Tail(all) ELSE all
     /\ local' = IF initial THEN local \cup {Fresh} ELSE local \ {Fresh}
     /\ card' = [card EXCEPT ![s] = [work |-> work, signal |-> Fresh]]

\* A web feed carries no bookmark state, the others the state of the answer.
Mount(s, work) ==
  /\ card[s] = None /\ ~Busy(s)
  /\ \E initial \in {FALSE, (work \in server)} : GetLikeState(s, work, initial)
  /\ UNCHANGED <<likedIds, request, server, astray, seed, user>>

\* The request of a card that leaves goes on.
Unmount(s) ==
  /\ card[s] # None
  /\ card' = [card EXCEPT ![s] = None]
  /\ UNCHANGED <<store, request, server, astray, seed, user>>

\* runToggleLike up to its await, from the heart or a double tap
ToggleLike(s) ==
  /\ card[s] # None /\ ~Busy(s)
  /\ user # "early" => seed.phase = "applied"
  /\ user # "racing" => ~Requested(card[s].work)
  /\ LET e == card[s] IN
       /\ SetLiked(e, ~Liked(e))
       /\ request' = [request EXCEPT ![s] =
            [work |-> e.work, signal |-> e.signal, to |-> ~Liked(e), answer |-> None]]
  /\ UNCHANGED <<entries, card, server, astray, seed, user>>

Told(s, answer) == request' = [request EXCEPT ![s].answer = answer]
Apply(r) == server' = IF r.to THEN server \cup {r.work} ELSE server \ {r.work}

\* The request is applied and answered, applied without the page's learning
\* of it, or fails on its way.
Serve(s) ==
  /\ Busy(s) /\ request[s].answer = None
  /\ \/ Told(s, "ok") /\ Apply(request[s]) /\ astray' = astray \ {request[s].work}
     \/ Told(s, "failed") /\ Apply(request[s]) /\ astray' = astray \cup {request[s].work}
     \/ Told(s, "failed") /\ UNCHANGED <<server, astray>>
  /\ UNCHANGED <<store, card, seed, user>>

Revert(e) == SetLiked(e, ~e.to)

\* what follows the await
Answered(s) ==
  /\ Busy(s) /\ request[s].answer # None
  /\ IF request[s].answer = "failed" THEN Revert(request[s])
                                     ELSE UNCHANGED <<likedIds, local>>
  /\ request' = [request EXCEPT ![s] = None]
  /\ UNCHANGED <<entries, card, server, astray, seed, user>>

\* The boot's request: Pixiv answers it, seedLikedIds runs later, or never.
SeedServed ==
  /\ seed.phase = "asked"
  /\ seed' = [phase |-> "served", ids |-> server]
  /\ UNCHANGED <<store, card, request, server, astray, user>>

SeedLikedIds ==
  /\ seed.phase = "served"
  /\ likedIds' = seed.ids
  /\ seed' = [phase |-> "applied", ids |-> {}]
  /\ UNCHANGED <<entries, local, card, request, server, astray, user>>

Next ==
  \/ \E s \in Slots : \/ \E work \in Works : Mount(s, work)
                      \/ Unmount(s) \/ ToggleLike(s) \/ Serve(s) \/ Answered(s)
  \/ SeedServed \/ SeedLikedIds

Spec == Init /\ [][Next]_vars

-----------------------------------------------------------------------------
Quiet(work) == ~Requested(work) /\ seed.phase = "applied"

\* When no request for a work is under way every heart of the work on the
\* screen shows what Pixiv holds ("all instances must reflect the same heart",
\* "in-flight lock: no double-tap POST races"), but for the works whose last
\* request to reach Pixiv was told failed: these show the opposite, all of
\* them, until a request for the work is answered.
HeartsMatchPixiv ==
  \A s \in Slots : card[s] # None /\ Quiet(card[s].work) =>
    Liked(card[s]) = ((card[s].work \in server) # (card[s].work \in astray))
=============================================================================
