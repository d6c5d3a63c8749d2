----------------------------- MODULE FollowState -----------------------------
(***************************************************************************)
(* pixiv/followstate.go and its callers in pixiv/appapi.go: the cache of   *)
(* follow states, its per-artist single flight, the epochs that keep a     *)
(* fetch from outliving an invalidation, the 429 circuit breaker, and the  *)
(* three things that race with a read: a follow/unfollow, a login that     *)
(* swaps the bearer token, and the expiry of a cached value.               *)
(*                                                                         *)
(* A follow state is abstracted to its stamp (module Stamps): `session`    *)
(* counts logins and upstream[s][i] counts the toggles pixiv has applied   *)
(* to artist i under session s's account.                                  *)
(***************************************************************************)
EXTENDS Stamps

CONSTANTS Ids,         \* artist ids
          Readers,     \* goroutines calling IsFollowed
          Togglers,    \* goroutines calling SetFollow
          Swappers,    \* goroutines that end in resetSessionCaches
          TokenLogin,  \* the one of them that swaps the bearer (SetTokens)
          Retries,     \* followStateRetries
          MaxSession,  \* bound: logins, and web sessions set
          MaxVersion,  \* bound: toggles of one artist under one session
          NoReader, Unknown

ASSUME FollowStateAssumption ==
  /\ Ids # {}
  /\ Retries \in Nat \ {0}
  /\ MaxSession \in Nat
  /\ MaxVersion \in Nat
  /\ TokenLogin \in Swappers
  /\ NoReader \notin Readers
  /\ Unknown \notin Stamp

AnyId == CHOOSE i \in Ids : TRUE
Sessions == 0 .. MaxSession

VARIABLES
  items,     \* followStateCache.items: the unexpired value of an id, or Unknown
  inflight,  \* followStateCache.inflight: the reader whose ticket is registered
  epochs,    \* followStateCache.epochs (an absent marker is 0)
  cooldown,  \* Client.followCooldown: the circuit breaker is open
  commits,   \* commits[w]: how many credentials swapper w has committed
  swap,      \* swap[w]: the next step of swapper w
  upstream,  \* pixiv: upstream[s][i]
  call,      \* call[r]: the local state of reader r's IsFollowed
  toggle,    \* toggle[t]: the local state of toggler t's SetFollow
  floor,     \* history: the newest state of i announced by an invalidation
  need,      \* history: floor[i] when r's call began
  base       \* history: floor[i] when r registered its ticket

\* The session of Client.accessToken.
session == commits[TokenLogin]

cache == <<items, inflight, epochs>>
history == <<floor, need, base>>
vars == <<items, inflight, epochs, cooldown, commits, swap, upstream, call, toggle,
          floor, need, base>>

PCs == {"idle", "enter", "lead", "sent", "received", "closing", "wait", "woken", "done"}

\* The ticket (epoch, ans, superseded) of a leader is kept in its own record;
\* a follower's copy is made when the leader closes done.
Call == [pc : PCs, id : Ids, attempt : 0 .. Retries, ticket : Readers \cup {NoReader},
         epoch : Nat, sess : Sessions, ans : Stamp \cup {Unknown},
         superseded : BOOLEAN]

Toggle == [pc : {"idle", "posted", "applied"}, id : Ids, sess : Sessions, stamp : Stamp]

Idle == [pc |-> "idle", id |-> AnyId, attempt |-> 0, ticket |-> NoReader, epoch |-> 0,
         sess |-> 0, ans |-> Unknown, superseded |-> FALSE]

NoToggle == [pc |-> "idle", id |-> AnyId, sess |-> 0, stamp |-> Origin]

Init ==
  /\ items = [i \in Ids |-> Unknown]
  /\ inflight = [i \in Ids |-> NoReader]
  /\ epochs = [i \in Ids |-> 0]
  /\ cooldown = FALSE
  /\ commits = [w \in Swappers |-> 0]
  /\ swap = [w \in Swappers |-> "idle"]
  /\ upstream = [s \in Sessions |-> [i \in Ids |-> 0]]
  /\ call = [r \in Readers |-> Idle]
  /\ toggle = [t \in Togglers |-> NoToggle]
  /\ floor = [i \in Ids |-> Origin]
  /\ need = [r \in Readers |-> Origin]
  /\ base = [r \in Readers |-> Origin]

-----------------------------------------------------------------------------
(* IsFollowed                                                              *)

\* The locals of r's call become c.
Become(r, c) == call' = [call EXCEPT ![r] = c]

\* The round trip of r ends with answer a.
Arrive(r, a) == Become(r, [call[r] EXCEPT !.pc = "received", !.ans = a, !.sess = 0])

\* The call of r returns a.
Done(r, a) == [Idle EXCEPT !.pc = "done", !.id = call[r].id, !.ans = a]
Return(r, a) == Become(r, Done(r, a))

\* IsFollowed(i) is called.
Begin(r, i) ==
  /\ call[r].pc = "idle"
  /\ Become(r, [Idle EXCEPT !.pc = "enter", !.id = i])
  /\ need' = [need EXCEPT ![r] = floor[i]]
  /\ UNCHANGED <<cache, cooldown, commits, swap, upstream, toggle, floor, base>>

\* getOrStart: served from the cache ...
Hit(r) ==
  /\ call[r].pc = "enter"
  /\ items[call[r].id] # Unknown
  /\ Return(r, items[call[r].id])
  /\ UNCHANGED <<cache, cooldown, commits, swap, upstream, toggle, history>>

\* ... a follower of the registered ticket ...
Follow(r) ==
  /\ call[r].pc = "enter"
  /\ items[call[r].id] = Unknown
  /\ inflight[call[r].id] # NoReader
  /\ Become(r, [call[r] EXCEPT !.pc = "wait", !.ticket = inflight[call[r].id]])
  /\ UNCHANGED <<cache, cooldown, commits, swap, upstream, toggle, history>>

\* ... or the leader: it registers a ticket that carries the id's epoch.
Lead(r) ==
  LET i == call[r].id IN
  /\ call[r].pc = "enter"
  /\ items[i] = Unknown
  /\ inflight[i] = NoReader
  /\ inflight' = [inflight EXCEPT ![i] = r]
  /\ Become(r, [call[r] EXCEPT !.pc = "lead", !.epoch = epochs[i]])
  /\ base' = [base EXCEPT ![r] = floor[i]]
  /\ UNCHANGED <<items, epochs, cooldown, commits, swap, upstream, toggle, floor, need>>

\* fetchFollowState with the breaker open: "unknown", pixiv is not asked.
Cooling(r) ==
  /\ call[r].pc = "lead"
  /\ cooldown
  /\ Arrive(r, Unknown)
  /\ UNCHANGED <<cache, cooldown, commits, swap, upstream, toggle, history>>

\* The request leaves with the bearer token of this moment (doWith).
Send(r) ==
  /\ call[r].pc = "lead"
  /\ ~cooldown
  /\ Become(r, [call[r] EXCEPT !.pc = "sent", !.sess = session])
  /\ UNCHANGED <<cache, cooldown, commits, swap, upstream, toggle, history>>

\* pixiv answers with the state of the account the token belongs to.
Serve(r) ==
  LET s == call[r].sess IN
  /\ call[r].pc = "sent"
  /\ Arrive(r, [s |-> s, v |-> upstream[s][call[r].id]])
  /\ UNCHANGED <<cache, cooldown, commits, swap, upstream, toggle, history>>

\* Any other outcome of the round trip (a transport error, a timeout, a status
\* that is not 200, an error envelope, a body without the user) is an error.
Lose(r) ==
  /\ call[r].pc = "sent"
  /\ Arrive(r, Unknown)
  /\ UNCHANGED <<cache, cooldown, commits, swap, upstream, toggle, history>>

\* A 429 opens the breaker and is otherwise such a failure.
Throttle(r) ==
  /\ call[r].pc = "sent"
  /\ cooldown' = TRUE
  /\ Arrive(r, Unknown)
  /\ UNCHANGED <<cache, commits, swap, upstream, toggle, history>>

\* finish, the part under f.mu.  A successful answer is cached when no
\* invalidation bumped the epoch, and is marked superseded when one did.
Finish(r) ==
  LET i == call[r].id
      ok == call[r].ans # Unknown
      current == epochs[i] = call[r].epoch
  IN
  /\ call[r].pc = "received"
  /\ inflight' = [inflight EXCEPT ![i] = IF @ = r THEN NoReader ELSE @]
  /\ items' = [items EXCEPT ![i] = IF ok /\ current THEN call[r].ans ELSE @]
  /\ epochs' = [epochs EXCEPT ![i] = 0]
  /\ Become(r, [call[r] EXCEPT !.pc = "closing", !.epoch = 0,
                               !.superseded = ok /\ ~current])
  /\ UNCHANGED <<cooldown, commits, swap, upstream, toggle, history>>

\* Mutant: close(done) forgotten on one path.
CloseWithoutWaking(r) ==
  /\ call[r].pc = "closing"
  /\ Return(r, call[r].ans)
  /\ base' = [base EXCEPT ![r] = Origin]
  /\ UNCHANGED <<cache, cooldown, commits, swap, upstream, toggle, floor, need>>

\* finish, after the unlock: close(done) hands the ticket to the followers, and
\* the leader returns its own answer.
Close(r) ==
  /\ call[r].pc = "closing"
  /\ call' = [q \in Readers |->
                IF q = r THEN Done(r, call[r].ans)
                ELSE IF call[q].pc = "wait" /\ call[q].ticket = r
                THEN [call[q] EXCEPT !.pc = "woken", !.ans = call[r].ans,
                                     !.superseded = call[r].superseded]
                ELSE call[q]]
  /\ base' = [base EXCEPT ![r] = Origin]
  /\ UNCHANGED <<cache, cooldown, commits, swap, upstream, toggle, floor, need>>

\* A follower wakes: it enters once more if the ticket was superseded.
Retry(r) ==
  /\ call[r].pc = "woken"
  /\ call[r].superseded
  /\ call[r].attempt < Retries
  /\ Become(r, [Idle EXCEPT !.pc = "enter", !.id = call[r].id,
                            !.attempt = call[r].attempt + 1])
  /\ UNCHANGED <<cache, cooldown, commits, swap, upstream, toggle, history>>

\* Mutant: a follower renders its ticket's answer without looking at superseded.
ShareAnything(r) ==
  /\ call[r].pc = "woken"
  /\ Return(r, call[r].ans)
  /\ UNCHANGED <<cache, cooldown, commits, swap, upstream, toggle, history>>

Share(r) ==
  /\ call[r].pc = "woken"
  /\ ~call[r].superseded \/ call[r].attempt >= Retries
  /\ Return(r, call[r].ans)
  /\ UNCHANGED <<cache, cooldown, commits, swap, upstream, toggle, history>>

\* The handler has written the answer.
Leave(r) ==
  /\ call[r].pc = "done"
  /\ Become(r, Idle)
  /\ need' = [need EXCEPT ![r] = Origin]
  /\ UNCHANGED <<cache, cooldown, commits, swap, upstream, toggle, floor, base>>

-----------------------------------------------------------------------------
(* SetFollow                                                               *)

\* The POST leaves with the bearer token of this moment.
Post(t, i) ==
  /\ toggle[t].pc = "idle"
  /\ toggle' = [toggle EXCEPT ![t] = [NoToggle EXCEPT !.pc = "posted", !.id = i,
                                                      !.sess = session]]
  /\ UNCHANGED <<cache, cooldown, commits, swap, upstream, call, history>>

\* pixiv applies the toggle.
Apply(t) ==
  LET i == toggle[t].id  s == toggle[t].sess  v == upstream[s][i] + 1 IN
  /\ toggle[t].pc = "posted"
  /\ v <= MaxVersion
  /\ upstream' = [upstream EXCEPT ![s][i] = v]
  /\ toggle' = [toggle EXCEPT ![t] = [@ EXCEPT !.pc = "applied", !.stamp = [s |-> s, v |-> v]]]
  /\ UNCHANGED <<cache, cooldown, commits, swap, call, history>>

\* Mutant: only the cached value goes.
InvalidateValue(i) ==
  /\ items' = [items EXCEPT ![i] = Unknown]
  /\ UNCHANGED <<inflight, epochs>>

\* Mutant: the epoch is bumped with nothing in flight.
InvalidateAlwaysBumps(i) ==
  /\ items' = [items EXCEPT ![i] = Unknown]
  /\ epochs' = [epochs EXCEPT ![i] = @ + 1]
  /\ UNCHANGED inflight

\* invalidate(id): the cached value goes, and an in-flight ticket is superseded.
Invalidate(i) ==
  /\ items' = [items EXCEPT ![i] = Unknown]
  /\ epochs' = [epochs EXCEPT ![i] = IF inflight[i] # NoReader THEN @ + 1 ELSE 0]
  /\ UNCHANGED inflight

\* The 200 arrives: SetFollow invalidates before it returns.
Acknowledge(t) ==
  LET i == toggle[t].id IN
  /\ toggle[t].pc = "applied"
  /\ Invalidate(i)
  /\ toggle' = [toggle EXCEPT ![t] = NoToggle]
  /\ floor' = [floor EXCEPT ![i] = Later(@, toggle[t].stamp)]
  /\ UNCHANGED <<cooldown, commits, swap, upstream, call, need, base>>

\* Refused, or the answer is lost with the toggle applied or not: SetFollow
\* returns an error and touches nothing.
Refuse(t) ==
  /\ toggle[t].pc # "idle"
  /\ toggle' = [toggle EXCEPT ![t] = NoToggle]
  /\ UNCHANGED <<cache, cooldown, commits, swap, upstream, call, history>>

-----------------------------------------------------------------------------
(* Logins and the passing of time                                          *)

\* SetTokens commits the new pair (refreshMu keeps logins apart); SetWebSession
\* commits a web session, which follow states do not depend on.
Swap(w) ==
  /\ swap[w] = "idle"
  /\ commits[w] < MaxSession
  /\ commits' = [commits EXCEPT ![w] = @ + 1]
  /\ swap' = [swap EXCEPT ![w] = "reset"]
  /\ UNCHANGED <<cache, cooldown, upstream, call, toggle, history>>

\* Mutant: reset forgets the tickets as well.
ResetTickets ==
  /\ items' = [i \in Ids |-> Unknown]
  /\ epochs' = [i \in Ids |-> 0]
  /\ inflight' = [i \in Ids |-> NoReader]

\* followState.reset
ResetCache ==
  /\ items' = [i \in Ids |-> Unknown]
  /\ epochs' = [i \in Ids |-> IF inflight[i] # NoReader THEN epochs[i] + 1 ELSE epochs[i]]
  /\ UNCHANGED inflight

\* resetSessionCaches, its first step for follow states ...
Reset(w) ==
  /\ swap[w] = "reset"
  /\ ResetCache
  /\ swap' = [swap EXCEPT ![w] = "rearm"]
  /\ floor' = [i \in Ids |-> Later(floor[i], [s |-> session, v |-> 0])]
  /\ UNCHANGED <<cooldown, commits, upstream, call, toggle, need, base>>

\* ... and its last: followCooldown.Store(0).
Rearm(w) ==
  /\ swap[w] = "rearm"
  /\ cooldown' = FALSE
  /\ swap' = [swap EXCEPT ![w] = "idle"]
  /\ UNCHANGED <<cache, commits, upstream, call, toggle, history>>

\* followStateTTL passes for one id.
Expire(i) ==
  /\ items[i] # Unknown
  /\ items' = [items EXCEPT ![i] = Unknown]
  /\ UNCHANGED <<inflight, epochs, cooldown, commits, swap, upstream, call, toggle, history>>

\* followCooldownDuration passes.
CoolDown ==
  /\ cooldown
  /\ cooldown' = FALSE
  /\ UNCHANGED <<cache, commits, swap, upstream, call, toggle, history>>

-----------------------------------------------------------------------------

\* What the goroutine of r and its HTTP round trip (which has a timeout) do.
Step(r) ==
  \/ Hit(r) \/ Follow(r) \/ Lead(r) \/ Cooling(r) \/ Send(r) \/ Serve(r)
  \/ Lose(r) \/ Throttle(r) \/ Finish(r) \/ Close(r) \/ Retry(r) \/ Share(r) \/ Leave(r)

Next ==
  \/ \E r \in Readers : Step(r) \/ \E i \in Ids : Begin(r, i)
  \/ \E t \in Togglers : Apply(t) \/ Acknowledge(t) \/ Refuse(t) \/ \E i \in Ids : Post(t, i)
  \/ \E w \in Swappers : Swap(w) \/ Reset(w) \/ Rearm(w)
  \/ \E i \in Ids : Expire(i)
  \/ CoolDown

Spec == Init /\ [][Next]_vars

\* A goroutine in IsFollowed keeps running and a round trip ends (client timeout).
FairSpec == Spec /\ \A r \in Readers : WF_vars(Step(r))

-----------------------------------------------------------------------------

TypeOK ==
  /\ items \in [Ids -> Stamp \cup {Unknown}]
  /\ inflight \in [Ids -> Readers \cup {NoReader}]
  /\ epochs \in [Ids -> Nat]
  /\ cooldown \in BOOLEAN
  /\ commits \in [Swappers -> Sessions]
  /\ swap \in [Swappers -> {"idle", "reset", "rearm"}]
  /\ upstream \in [Sessions -> [Ids -> Nat]]
  /\ call \in [Readers -> Call]
  /\ toggle \in [Togglers -> Toggle]
  /\ floor \in [Ids -> Stamp]
  /\ need \in [Readers -> Stamp]
  /\ base \in [Readers -> Stamp]

\* A reader holds the registered ticket of its id.
Leads(r) == call[r].pc \in {"lead", "sent", "received"}

\* At most one fetch per artist is in flight, and it is the registered one: a
\* burst of cards by one artist is one request (followstate.go, lines 14-19).
SingleFlight ==
  /\ \A r \in Readers : Leads(r) => inflight[call[r].id] = r
  /\ \A i \in Ids : inflight[i] # NoReader => Leads(inflight[i]) /\ call[inflight[i]].id = i

\* No cached value is older than an acknowledged toggle or a finished login,
\* whatever was in flight when it happened (followstate.go, lines 25-31).
CacheFresh == \A i \in Ids : items[i] # Unknown => Leq(floor[i], items[i])

\* An epoch marker exists only while the ticket it supersedes is in flight, so
\* that markers cannot accumulate (followstate.go, lines 93-95).
NoDeadEpochs == \A i \in Ids : epochs[i] # 0 => inflight[i] # NoReader

\* No call, leader or follower, is answered with a state older than the last
\* toggle or login announced before it began: the cache keeps what FreshReads
\* promises, with one retry.
Fresh == INSTANCE FreshReads WITH Keys <- Ids, Callers <- Readers,
           phase <- [r \in Readers |-> IF call[r].pc \in {"idle", "done"}
                                        THEN call[r].pc ELSE "busy"],
           reply <- [r \in Readers |-> IF call[r].pc = "done" THEN call[r].ans ELSE Unknown]
KeepsPromise == Fresh!Spec

\* Every call returns: no follower waits for a ticket nobody closes, and
\* superseded answers do not make a caller loop.
CallsReturn == \A r \in Readers : call[r].pc # "idle" ~> call[r].pc = "idle"
=============================================================================
