----------------------------- MODULE BookmarkIds -----------------------------
(***************************************************************************)
(* pixiv/bookmarkids.go, GetBookmarkIDs (pixiv/appapi.go) and the handler  *)
(* of /api/bookmarks/ids: the walk over both visibility pools, the cache   *)
(* and the single flight in front of it, its 429 window, and the login     *)
(* that replaces, in two steps, the two credentials a walk reads.          *)
(*                                                                         *)
(* A list of ids is abstracted to the credentials it was read under: the   *)
(* web session that supplied the uid and the bearer token of its first     *)
(* page.  Both are counted: login n leaves bearer n and, when its capture  *)
(* succeeds, one more web session.                                         *)
(***************************************************************************)
EXTENDS Naturals

CONSTANTS Readers,    \* requests to /api/bookmarks/ids
          Logins,     \* login callbacks
          MaxPages,   \* pages of one walk
          NoReader, None, Failed, Throttled

ASSUME BookmarkIdsAssumption ==
  /\ MaxPages \in Nat \ {0}
  /\ NoReader \notin Readers

Keys == {"private", "public"}

\* The credentials a list was read under.
Creds == [web : Nat, bearer : Nat]
Covers(x, y) == x.web >= y.web /\ x.bearer >= y.bearer
Lesser(m, n) == IF m < n THEN m ELSE n
Oldest(x, y) == [web |-> Lesser(x.web, y.web), bearer |-> Lesser(x.bearer, y.bearer)]

ASSUME ResultsAreNotLists == {None, Failed, Throttled} \cap Creds = {}

VARIABLES
  items,     \* bookmarkIDsCache.items: the unexpired list of a key, or None
  inflight,  \* bookmarkIDsCache.inflight: the reader whose walk is registered
  gen,       \* bookmarkIDsCache.gen
  cooldown,  \* now is before bookmarkIDsCache.cooldownUntil
  creds,     \* the web session and the bearer token of the Client
  login,     \* login[l]: the next step of handlePkceCallback
  call,      \* call[r]: the locals of r's request
  told,      \* history: the newest credentials whose resetSessionCaches returned
  need       \* history: told when r's request arrived

cache == <<items, inflight, gen, cooldown>>
vars == <<items, inflight, gen, cooldown, creds, login, call, told, need>>

PCs == {"idle", "check", "enter", "lead", "walk", "received", "closing", "wait", "woken", "done"}

\* `list` is what the walk (or the ticket joined) yields, `merged` what the
\* handler has so far, `joined` whether any part of it came from another's walk.
Call == [pc : PCs, key : Keys, gen : Nat, ticket : Readers \cup {NoReader}, page : 0 .. MaxPages - 1,
         list : Creds \cup {None, Failed, Throttled}, merged : Creds \cup {None, Failed},
         joined : BOOLEAN]

Idle == [pc |-> "idle", key |-> "private", gen |-> 0, ticket |-> NoReader, page |-> 0,
         list |-> None, merged |-> None, joined |-> FALSE]

Boot == [web |-> 0, bearer |-> 0]

Init ==
  /\ items = [k \in Keys |-> None]
  /\ inflight = [k \in Keys |-> NoReader]
  /\ gen = 0
  /\ cooldown = FALSE
  /\ creds = Boot
  /\ login = [l \in Logins |-> "exchange"]
  /\ call = [r \in Readers |-> Idle]
  /\ told = Boot
  /\ need = [r \in Readers |-> Boot]

-----------------------------------------------------------------------------
(* One request: CachedBookmarkIDs("private"), then CachedBookmarkIDs("public") *)

Become(r, c) == call' = [call EXCEPT ![r] = c]

\* The locals of r once CachedBookmarkIDs has returned a: an error ends the
\* request, the private list is followed by the public one, the two are merged.
Given(r, a, joined) ==
  LET c == call[r]  j == c.joined \/ joined IN
  IF a \in {Failed, Throttled} THEN [Idle EXCEPT !.pc = "done", !.merged = Failed, !.joined = j]
  ELSE IF c.key = "private"
  THEN [Idle EXCEPT !.pc = "check", !.key = "public", !.merged = a, !.joined = j]
  ELSE [Idle EXCEPT !.pc = "done", !.key = "public", !.merged = Oldest(c.merged, a), !.joined = j]

Begin(r) ==
  /\ call[r].pc = "idle"
  /\ Become(r, [Idle EXCEPT !.pc = "check"])
  /\ need' = [need EXCEPT ![r] = told]
  /\ UNCHANGED <<cache, creds, login, told>>

\* coolingDown: while the window is open the answer is ErrBookmarkCooldown.
Cooling(r) ==
  /\ call[r].pc = "check"
  /\ cooldown
  /\ Become(r, Given(r, Failed, FALSE))
  /\ UNCHANGED <<cache, creds, login, told, need>>

\* The mutex is released between that look and getOrStart.
Pass(r) ==
  /\ call[r].pc = "check"
  /\ ~cooldown
  /\ Become(r, [call[r] EXCEPT !.pc = "enter"])
  /\ UNCHANGED <<cache, creds, login, told, need>>

\* getOrStart: fresh ...
Hit(r) ==
  /\ call[r].pc = "enter"
  /\ items[call[r].key] # None
  /\ Become(r, Given(r, items[call[r].key], FALSE))
  /\ UNCHANGED <<cache, creds, login, told, need>>

\* ... a follower of the registered walk ...
Follow(r) ==
  LET k == call[r].key IN
  /\ call[r].pc = "enter"
  /\ items[k] = None
  /\ inflight[k] # NoReader
  /\ Become(r, [call[r] EXCEPT !.pc = "wait", !.ticket = inflight[k]])
  /\ UNCHANGED <<cache, creds, login, told, need>>

\* Mutant: every miss starts a walk.
LeadAnyway(r) ==
  LET k == call[r].key IN
  /\ call[r].pc = "enter"
  /\ items[k] = None
  /\ inflight' = [inflight EXCEPT ![k] = r]
  /\ Become(r, [call[r] EXCEPT !.pc = "lead", !.gen = gen])
  /\ UNCHANGED <<items, gen, cooldown, creds, login, told, need>>

\* ... or the leader, whose ticket carries the generation.
Lead(r) ==
  LET k == call[r].key IN
  /\ call[r].pc = "enter"
  /\ items[k] = None
  /\ inflight[k] = NoReader
  /\ inflight' = [inflight EXCEPT ![k] = r]
  /\ Become(r, [call[r] EXCEPT !.pc = "lead", !.gen = gen])
  /\ UNCHANGED <<items, gen, cooldown, creds, login, told, need>>

\* GetBookmarkIDs reads the uid from the web session (under sessionMu, which
\* SetWebSession holds until its reset is done).
Start(r) ==
  /\ call[r].pc = "lead"
  /\ \A l \in Logins : login[l] # "resetWeb"
  /\ Become(r, [call[r] EXCEPT !.pc = "walk", !.list = [web |-> creds.web, bearer |-> 0]])
  /\ UNCHANGED <<cache, creds, login, told, need>>

\* One page, under the bearer of this moment.  The first dates the list: a
\* bearer only gets newer.  The walk ends when pixiv names no next page.
Page(r) ==
  LET c == call[r] IN
  /\ c.pc = "walk"
  /\ \E last \in BOOLEAN :
       /\ c.page + 1 = MaxPages => last
       /\ Become(r, [c EXCEPT !.pc = IF last THEN "received" ELSE "walk",
                              !.page = IF last THEN 0 ELSE @ + 1,
                              !.list = IF c.page = 0 THEN [@ EXCEPT !.bearer = creds.bearer] ELSE @])
  /\ UNCHANGED <<cache, creds, login, told, need>>

\* No uid, a transport error or timeout, a status other than 200, an envelope,
\* no illusts, a next page on another host: the whole walk fails, or is throttled.
Fail(r) ==
  /\ call[r].pc \in {"lead", "walk"}
  /\ \E e \in {Failed} \cup (IF call[r].pc = "walk" THEN {Throttled} ELSE {}) :
       Become(r, [call[r] EXCEPT !.pc = "received", !.page = 0, !.list = e])
  /\ UNCHANGED <<cache, creds, login, told, need>>

\* Mutant: the generation is not compared.
FinishStoring(r) ==
  LET c == call[r]  k == c.key IN
  /\ c.pc = "received"
  /\ inflight' = [inflight EXCEPT ![k] = NoReader]
  /\ items' = [items EXCEPT ![k] = IF c.list \in Creds THEN c.list ELSE @]
  /\ cooldown' = (cooldown \/ c.list = Throttled)
  /\ Become(r, [c EXCEPT !.pc = "closing", !.gen = 0])
  /\ UNCHANGED <<gen, creds, login, told, need>>

\* finish, under b.mu: a list read under this generation is stored, an error
\* never is, a 429 opens the window.
Finish(r) ==
  LET c == call[r]  k == c.key IN
  /\ c.pc = "received"
  /\ inflight' = [inflight EXCEPT ![k] = NoReader]
  /\ items' = [items EXCEPT ![k] = IF c.list \in Creds /\ c.gen = gen THEN c.list ELSE @]
  /\ cooldown' = (cooldown \/ c.list = Throttled)
  /\ Become(r, [c EXCEPT !.pc = "closing", !.gen = 0])
  /\ UNCHANGED <<gen, creds, login, told, need>>

\* Mutant: close(done) is skipped for an error.
CloseOnSuccess(r) ==
  /\ call[r].pc = "closing"
  /\ call' = [q \in Readers |->
                IF q = r THEN Given(r, call[r].list, FALSE)
                ELSE IF call[q].pc = "wait" /\ call[q].ticket = r /\ call[r].list \in Creds
                THEN [call[q] EXCEPT !.pc = "woken", !.list = call[r].list]
                ELSE call[q]]
  /\ UNCHANGED <<cache, creds, login, told, need>>

\* close(done): the followers have the leader's list, the leader returns.
Close(r) ==
  /\ call[r].pc = "closing"
  /\ call' = [q \in Readers |->
                IF q = r THEN Given(r, call[r].list, FALSE)
                ELSE IF call[q].pc = "wait" /\ call[q].ticket = r
                THEN [call[q] EXCEPT !.pc = "woken", !.list = call[r].list]
                ELSE call[q]]
  /\ UNCHANGED <<cache, creds, login, told, need>>

\* A follower returns call.ids, call.err.
Join(r) ==
  /\ call[r].pc = "woken"
  /\ Become(r, Given(r, call[r].list, TRUE))
  /\ UNCHANGED <<cache, creds, login, told, need>>

Leave(r) ==
  /\ call[r].pc = "done"
  /\ Become(r, Idle)
  /\ need' = [need EXCEPT ![r] = Boot]
  /\ UNCHANGED <<cache, creds, login, told>>

-----------------------------------------------------------------------------
(* handlePkceCallback, from SetTokens on                                   *)

Goto(l, pc) == login' = [login EXCEPT ![l] = pc]

\* bookmarkIDsCache.reset
ResetCache ==
  /\ items' = [k \in Keys |-> None]
  /\ gen' = gen + 1
  /\ UNCHANGED <<inflight, cooldown>>

\* SetTokens commits (refreshMu keeps two of them apart) ...
CommitTokens(l) ==
  /\ login[l] = "exchange"
  /\ \A m \in Logins : login[m] # "resetTokens"
  /\ creds' = [creds EXCEPT !.bearer = @ + 1]
  /\ Goto(l, "resetTokens")
  /\ UNCHANGED <<cache, call, told, need>>

\* ... and resets the caches.
ResetTokens(l) ==
  /\ login[l] = "resetTokens"
  /\ ResetCache
  /\ told' = [told EXCEPT !.bearer = creds.bearer]
  /\ Goto(l, "scrape")
  /\ UNCHANGED <<creds, call, need>>

\* SetWebSession commits, after the scrape (sessionMu keeps two of them apart) ...
CommitWeb(l) ==
  /\ login[l] = "scrape"
  /\ \A m \in Logins : login[m] # "resetWeb"
  /\ creds' = [creds EXCEPT !.web = @ + 1]
  /\ Goto(l, "resetWeb")
  /\ UNCHANGED <<cache, call, told, need>>

ResetWeb(l) ==
  /\ login[l] = "resetWeb"
  /\ ResetCache
  /\ told' = [told EXCEPT !.web = creds.web]
  /\ Goto(l, "over")
  /\ UNCHANGED <<creds, call, need>>

\* The exchange, the persisting, the scrape or the cookie fails: what is left of
\* the login does not happen.
GiveUp(l) ==
  /\ login[l] \in {"exchange", "scrape"}
  /\ Goto(l, "over")
  /\ UNCHANGED <<cache, creds, call, told, need>>

-----------------------------------------------------------------------------

\* bookmarkIDsTTL passes.
Expire(k) ==
  /\ items[k] # None
  /\ items' = [items EXCEPT ![k] = None]
  /\ UNCHANGED <<inflight, gen, cooldown, creds, login, call, told, need>>

\* bookmarkCooldownDuration passes.
CoolDown ==
  /\ cooldown
  /\ cooldown' = FALSE
  /\ UNCHANGED <<items, inflight, gen, creds, login, call, told, need>>

Step(r) ==
  \/ Cooling(r) \/ Pass(r) \/ Hit(r) \/ Follow(r) \/ Lead(r) \/ Start(r) \/ Page(r)
  \/ Fail(r) \/ Finish(r) \/ Close(r) \/ Join(r) \/ Leave(r)

LoginStep(l) ==
  CommitTokens(l) \/ ResetTokens(l) \/ CommitWeb(l) \/ ResetWeb(l) \/ GiveUp(l)

Next ==
  \/ \E r \in Readers : Begin(r) \/ Step(r)
  \/ \E l \in Logins : LoginStep(l)
  \/ \E k \in Keys : Expire(k)
  \/ CoolDown

Spec == Init /\ [][Next]_vars

\* Goroutines run, round trips end (client timeout), a callback goes on.
FairSpec ==
  /\ Spec
  /\ \A r \in Readers : WF_vars(Step(r))
  /\ \A l \in Logins : WF_vars(LoginStep(l))

-----------------------------------------------------------------------------

TypeOK ==
  /\ items \in [Keys -> Creds \cup {None}]
  /\ inflight \in [Keys -> Readers \cup {NoReader}]
  /\ gen \in Nat
  /\ cooldown \in BOOLEAN
  /\ creds \in Creds
  /\ login \in [Logins -> {"exchange", "resetTokens", "scrape", "resetWeb", "over"}]
  /\ call \in [Readers -> Call]
  /\ told \in Creds
  /\ need \in [Readers -> Creds]

Leads(r) == call[r].pc \in {"lead", "walk", "received"}

\* A pool is walked by at most one request at a time: a spiral of reloads is one
\* walk (bookmarkids.go, lines 22-28).
SingleFlight ==
  \A r, q \in Readers : Leads(r) /\ Leads(q) /\ call[r].key = call[q].key => r = q

\* Once a credential's reset is done, no list read under an earlier one is in the
\* cache, though its walk was in flight then, and no request that joined no
\* other's walk is answered with ids read before a login that had finished when
\* it arrived, in either pool (bookmarkids.go, lines 55-57).
OldListsGone ==
  /\ \A k \in Keys : items[k] # None => Covers(items[k], told)
  /\ \A r \in Readers : call[r].pc = "done" /\ call[r].merged # Failed /\ ~call[r].joined
                        => Covers(call[r].merged, need[r])

\* Every request is answered: no follower is left behind by a failed walk.
RequestsReturn == \A r \in Readers : call[r].pc # "idle" ~> call[r].pc = "idle"

\* The claim of auth.go, lines 269-274: the reset keeps account A's ids from being
\* served to account B, whoever performs the walk.
OldIdsNotServed == \A r \in Readers :
  call[r].pc = "done" /\ call[r].merged # Failed => Covers(call[r].merged, need[r])
=============================================================================
