----------------------------- MODULE Credentials -----------------------------
(***************************************************************************)
(* The two credentials of pixiv.Client and the two locks around them:      *)
(* pixiv/auth.go (refresh, forceRefresh, ensureToken, SetTokens), the web  *)
(* session of pixiv/web.go (csrfToken, SetWebSession), the .env file both  *)
(* are persisted to, handlePkceCallback (authproxy.go), which replaces     *)
(* both, and a process that may die and boot again at any moment.          *)
(*                                                                         *)
(* A refresh token is its account and a serial number; an access token, a  *)
(* PHPSESSID and a csrf token are the account they belong to (each login   *)
(* captures one session).  The process environment carries no credential:  *)
(* main.go, lines 156-167, documents that one there hides the file.        *)
(***************************************************************************)
EXTENDS Naturals

CONSTANTS Callers,     \* app-API requests: doWith calls ensureToken
          Main,        \* the one of them that is NewClient, at boot
          Probes,      \* AuthHealth requests: forceRefresh
          Scrapers,    \* web requests that need the csrf token (GetStreet)
          Logins,      \* login callbacks, each into an account of its own
          Home,        \* the account of the first .env file
          MaxSerial,   \* bound: refresh tokens pixiv hands out
          MaxCrashes,  \* bound: crashes
          NoOne, None

ASSUME CredentialsAssumption ==
  /\ MaxSerial \in Nat /\ MaxCrashes \in Nat
  /\ Main \in Callers /\ Main \notin Probes \cup Logins
  /\ Home \notin Logins /\ None \notin Logins \cup {Home}
  /\ NoOne \notin Callers \cup Probes \cup Logins
  /\ (Callers \cup Probes) \cap Logins = {}

Refreshers == Callers \cup Probes
Accounts == Logins \cup {Home}
Token == [acct : Accounts, serial : Nat]
First == [acct |-> Home, serial |-> 0]

VARIABLES
  disk,       \* the .env file: refresh token, php session, csrf token
  mem,        \* the Client: refreshToken, accessToken, phpSessID, csrfTokenCache
  expired,    \* now is after Client.expiresAt
  refreshMu,  \* who holds it
  sessionMu,  \* who holds it across a step
  life,       \* the process: "down", "booting" (NewClient) or "up"
  ref,        \* ref[c]: refreshLocked in goroutine c
  scrape,     \* scrape[s]: csrfToken and the request it is for
  login,      \* login[l]: handlePkceCallback
  issued,     \* pixiv: refresh tokens handed out so far
  crashes,
  account,    \* history: the account of the last login whose token was persisted
  asks        \* history: unforced token requests since the token last expired

secrets == <<disk, mem, expired>>
locks == <<refreshMu, sessionMu>>
world == <<life, issued, crashes>>
history == <<account, asks>>
vars == <<disk, mem, expired, refreshMu, sessionMu, life, ref, scrape, login, issued, crashes,
          account, asks>>

NoRefresh == [pc |-> "idle", tok |-> First]
NoScrape == [pc |-> "idle", sess |-> Home, tok |-> None, tries |-> 0]
NoLogin == [pc |-> "exchange", tok |-> First]

Stored == [refresh : Token, php : Accounts, csrf : Accounts \cup {None}]
Held == [refresh : Token, access : Accounts \cup {None}, php : Accounts, csrf : Accounts \cup {None}]

\* What NewClient reads back.
Loaded == [refresh |-> disk.refresh, access |-> None, php |-> disk.php, csrf |-> disk.csrf]

Init ==
  /\ disk \in {[refresh |-> First, php |-> Home, csrf |-> c] : c \in {Home, None}}
  /\ mem = Loaded
  /\ expired = TRUE
  /\ refreshMu = NoOne
  /\ sessionMu = NoOne
  /\ life = "booting"
  /\ ref = [c \in Refreshers |-> NoRefresh]
  /\ scrape = [s \in Scrapers |-> NoScrape]
  /\ login = [l \in Logins |-> NoLogin]
  /\ issued = 0
  /\ crashes = 0
  /\ account = Home
  /\ asks = 0

-----------------------------------------------------------------------------
(* refresh and forceRefresh                                                *)

Ref(c, pc, tok) == ref' = [ref EXCEPT ![c] = [pc |-> pc, tok |-> tok]]

\* refreshLocked returns; a failed initial refresh ends the process.
Released(c, ok) ==
  /\ Ref(c, "idle", First)
  /\ refreshMu' = NoOne
  /\ life' = IF c = Main /\ life = "booting" THEN (IF ok THEN "up" ELSE "down") ELSE life

\* Every failure moves expiresAt to now + tokenRetryBackoff.
BackOff(c) == Released(c, FALSE) /\ expired' = FALSE

\* ensureToken saw an expired token; a probe does not look.
Need(c) ==
  /\ life = "up" \/ (life = "booting" /\ c = Main)
  /\ c \in Probes \/ expired
  /\ ref[c].pc = "idle"
  /\ Ref(c, "blocked", First)
  /\ UNCHANGED <<secrets, locks, scrape, login, world, history>>

Lock(c) ==
  /\ ref[c].pc = "blocked"
  /\ refreshMu = NoOne
  /\ refreshMu' = c
  /\ Ref(c, "locked", First)
  /\ UNCHANGED <<secrets, sessionMu, scrape, login, world, history>>

\* Another goroutine refreshed while this one waited for the lock.
AlreadyFresh(c) ==
  /\ ref[c].pc = "locked"
  /\ c \notin Probes
  /\ ~expired
  /\ Released(c, TRUE)
  /\ UNCHANGED <<secrets, sessionMu, scrape, login, issued, crashes, history>>

\* Mutant: the waiters are not re-checked.
AskAgain(c) ==
  /\ ref[c].pc = "locked"
  /\ Ref(c, "asked", mem.refresh)
  /\ asks' = IF c \in Probes THEN asks ELSE asks + 1
  /\ UNCHANGED <<secrets, locks, scrape, login, world, account>>

\* The POST to the token endpoint leaves with a snapshot of the refresh token.
Ask(c) ==
  /\ ref[c].pc = "locked"
  /\ c \in Probes \/ expired
  /\ Ref(c, "asked", mem.refresh)
  /\ asks' = IF c \in Probes THEN asks ELSE asks + 1
  /\ UNCHANGED <<secrets, locks, scrape, login, world, account>>

\* Mutant: one failure path leaves expiresAt in the past.
RefusedBare(c) ==
  /\ ref[c].pc = "asked"
  /\ Released(c, FALSE)
  /\ UNCHANGED <<secrets, sessionMu, scrape, login, issued, crashes, history>>

\* No answer, an unreadable body, a status other than 200, no access token.
Refused(c) ==
  /\ ref[c].pc = "asked"
  /\ BackOff(c)
  /\ UNCHANGED <<disk, mem, sessionMu, scrape, login, issued, crashes, history>>

\* pixiv answers: with a rotated refresh token, which has to be persisted first,
\* or without one.
Rotated(c) ==
  /\ ref[c].pc = "asked"
  /\ issued < MaxSerial
  /\ issued' = issued + 1
  /\ Ref(c, "persist", [acct |-> ref[c].tok.acct, serial |-> issued + 1])
  /\ UNCHANGED <<secrets, locks, scrape, login, life, crashes, history>>

Granted(c) ==
  /\ ref[c].pc = "asked"
  /\ Ref(c, "granted", ref[c].tok)
  /\ UNCHANGED <<secrets, locks, scrape, login, world, history>>

\* UpdateEnvFile replaces the file in one rename, or leaves it as it was.
Persist(c) ==
  /\ ref[c].pc = "persist"
  /\ disk' = [disk EXCEPT !.refresh = ref[c].tok]
  /\ Ref(c, "commit", ref[c].tok)
  /\ UNCHANGED <<mem, expired, locks, scrape, login, world, history>>

\* Mutant: a failed write is logged and the rotated token is used anyway.
CommitUnpersisted(c) ==
  /\ ref[c].pc = "persist"
  /\ Ref(c, "commit", ref[c].tok)
  /\ UNCHANGED <<secrets, locks, scrape, login, world, history>>

PersistFails(c) ==
  /\ ref[c].pc = "persist"
  /\ BackOff(c)
  /\ UNCHANGED <<disk, mem, sessionMu, scrape, login, issued, crashes, history>>

Commit(c) ==
  /\ ref[c].pc \in {"granted", "commit"}
  /\ mem' = [mem EXCEPT !.refresh = IF ref[c].pc = "commit" THEN ref[c].tok ELSE @,
                        !.access = ref[c].tok.acct]
  /\ expired' = FALSE
  /\ Released(c, TRUE)
  /\ UNCHANGED <<disk, sessionMu, scrape, login, issued, crashes, history>>

\* expiresAt passes: of a token, or of the backoff.
Expire ==
  /\ life = "up"
  /\ ~expired
  /\ expired' = TRUE
  /\ asks' = 0
  /\ UNCHANGED <<disk, mem, locks, ref, scrape, login, world, account>>

-----------------------------------------------------------------------------
(* csrfToken and the request made with it                                  *)

Scr(s, c) == scrape' = [scrape EXCEPT ![s] = c]

\* webSession: the session and its token are read under one lock.
ReadPair(s) ==
  LET c == scrape[s] IN
  /\ life = "up"
  /\ c.pc = "idle"
  /\ sessionMu = NoOne
  /\ Scr(s, [c EXCEPT !.pc = IF mem.csrf = None THEN "fetch" ELSE "send",
                      !.sess = mem.php, !.tok = mem.csrf])
  /\ UNCHANGED <<secrets, locks, ref, login, world, history>>

\* fetchCsrfToken: the profile page of the session's uid.
Fetch(s) ==
  /\ scrape[s].pc = "fetch"
  /\ Scr(s, [scrape[s] EXCEPT !.pc = "store", !.tok = scrape[s].sess])
  /\ UNCHANGED <<secrets, locks, ref, login, world, history>>

\* Mutant: setWebCache's token half without the comparison.
StoreAlways(s) ==
  /\ scrape[s].pc = "store"
  /\ sessionMu = NoOne
  /\ mem' = [mem EXCEPT !.csrf = scrape[s].tok]
  /\ Scr(s, [scrape[s] EXCEPT !.pc = "send"])
  /\ UNCHANGED <<disk, expired, locks, ref, login, world, history>>

\* setWebCacheIfCurrent
Store(s) ==
  /\ scrape[s].pc = "store"
  /\ sessionMu = NoOne
  /\ mem' = [mem EXCEPT !.csrf = IF mem.php = scrape[s].sess THEN scrape[s].tok ELSE @]
  /\ Scr(s, [scrape[s] EXCEPT !.pc = "send"])
  /\ UNCHANGED <<disk, expired, locks, ref, login, world, history>>

\* The answer is final (also when the fetch fails, or a retried request is
\* refused again), ...
Answered(s) ==
  /\ scrape[s].pc \in {"fetch", "send"}
  /\ Scr(s, NoScrape)
  /\ UNCHANGED <<secrets, locks, ref, login, world, history>>

\* ... or a first 400 or 401, which drops the cached token and tries once more.
Rejected(s) ==
  /\ scrape[s].pc = "send"
  /\ scrape[s].tries = 0
  /\ sessionMu = NoOne
  /\ mem' = [mem EXCEPT !.csrf = None]
  /\ Scr(s, [NoScrape EXCEPT !.tries = scrape[s].tries + 1])
  /\ UNCHANGED <<disk, expired, locks, ref, login, world, history>>

-----------------------------------------------------------------------------
(* handlePkceCallback                                                      *)

Log(l, pc) == login' = [login EXCEPT ![l].pc = pc]

\* ExchangePkce hands out the first refresh token of l's account.
Exchange(l) ==
  /\ life = "up"
  /\ login[l].pc = "exchange"
  /\ issued < MaxSerial
  /\ issued' = issued + 1
  /\ login' = [login EXCEPT ![l] = [pc |-> "tokens", tok |-> [acct |-> l, serial |-> issued + 1]]]
  /\ UNCHANGED <<secrets, locks, ref, scrape, life, crashes, history>>

\* Mutant: SetTokens does not wait for a refresh under way.
LockTokensAnyway(l) ==
  /\ login[l].pc = "tokens"
  /\ refreshMu' = l
  /\ Log(l, "persist")
  /\ UNCHANGED <<secrets, sessionMu, ref, scrape, world, history>>

\* SetTokens: lock, persist, commit.
LockTokens(l) ==
  /\ login[l].pc = "tokens"
  /\ refreshMu = NoOne
  /\ refreshMu' = l
  /\ Log(l, "persist")
  /\ UNCHANGED <<secrets, sessionMu, ref, scrape, world, history>>

PersistTokens(l) ==
  /\ login[l].pc = "persist"
  /\ disk' = [disk EXCEPT !.refresh = login[l].tok]
  /\ account' = l
  /\ Log(l, "commit")
  /\ UNCHANGED <<mem, expired, locks, ref, scrape, world, asks>>

CommitTokens(l) ==
  /\ login[l].pc = "commit"
  /\ mem' = [mem EXCEPT !.refresh = login[l].tok, !.access = l]
  /\ expired' = FALSE
  /\ refreshMu' = NoOne
  /\ Log(l, "scrape")
  /\ UNCHANGED <<disk, sessionMu, ref, scrape, world, history>>

\* ScrapeCsrfFor succeeds and SetWebSession takes sessionMu ...
LockSession(l) ==
  /\ login[l].pc = "scrape"
  /\ sessionMu = NoOne
  /\ sessionMu' = l
  /\ Log(l, "persistWeb")
  /\ UNCHANGED <<secrets, refreshMu, ref, scrape, world, history>>

\* ... persists both halves, and commits them.
PersistSession(l) ==
  /\ login[l].pc = "persistWeb"
  /\ disk' = [disk EXCEPT !.php = l, !.csrf = l]
  /\ Log(l, "commitWeb")
  /\ UNCHANGED <<mem, expired, locks, ref, scrape, world, history>>

CommitSession(l) ==
  /\ login[l].pc = "commitWeb"
  /\ mem' = [mem EXCEPT !.php = l, !.csrf = l]
  /\ sessionMu' = NoOne
  /\ Log(l, "over")
  /\ UNCHANGED <<disk, expired, refreshMu, ref, scrape, world, history>>

\* The exchange, a write, the cookie or the scrape fails; the locks are let go.
GiveUp(l) ==
  /\ life = "up"
  /\ login[l].pc \in {"exchange", "persist", "scrape", "persistWeb"}
  /\ refreshMu' = IF refreshMu = l THEN NoOne ELSE refreshMu
  /\ sessionMu' = IF sessionMu = l THEN NoOne ELSE sessionMu
  /\ Log(l, "over")
  /\ UNCHANGED <<secrets, ref, scrape, world, history>>

-----------------------------------------------------------------------------
(* The process                                                             *)

\* The process dies; what it had in memory and under way is gone.
Crash ==
  /\ life # "down"
  /\ crashes < MaxCrashes
  /\ crashes' = crashes + 1
  /\ life' = "down"
  /\ refreshMu' = NoOne
  /\ sessionMu' = NoOne
  /\ ref' = [c \in Refreshers |-> NoRefresh]
  /\ scrape' = [s \in Scrapers |-> NoScrape]
  /\ login' = [l \in Logins |-> IF login[l].pc = "exchange" THEN NoLogin
                                ELSE [NoLogin EXCEPT !.pc = "over"]]
  /\ UNCHANGED <<secrets, issued, history>>

\* NewClient reads the .env file and refreshes before anything is served.
Boot ==
  /\ life = "down"
  /\ life' = "booting"
  /\ mem' = Loaded
  /\ expired' = TRUE
  /\ asks' = 0
  /\ UNCHANGED <<disk, locks, ref, scrape, login, issued, crashes, account>>

-----------------------------------------------------------------------------

RefreshStep(c) ==
  \/ Lock(c) \/ AlreadyFresh(c) \/ Ask(c) \/ Refused(c) \/ Rotated(c) \/ Granted(c)
  \/ Persist(c) \/ PersistFails(c) \/ Commit(c)

ScrapeStep(s) == Fetch(s) \/ Store(s) \/ Answered(s) \/ Rejected(s)

LoginStep(l) ==
  \/ LockTokens(l) \/ PersistTokens(l) \/ CommitTokens(l)
  \/ LockSession(l) \/ PersistSession(l) \/ CommitSession(l) \/ GiveUp(l)

Next ==
  \/ \E c \in Refreshers : Need(c) \/ RefreshStep(c)
  \/ \E s \in Scrapers : ReadPair(s) \/ ScrapeStep(s)
  \/ \E l \in Logins : Exchange(l) \/ LoginStep(l)
  \/ Expire \/ Crash \/ Boot

Spec == Init /\ [][Next]_vars

-----------------------------------------------------------------------------

TypeOK ==
  /\ disk \in Stored
  /\ mem \in Held
  /\ expired \in BOOLEAN
  /\ refreshMu \in Refreshers \cup Logins \cup {NoOne}
  /\ sessionMu \in Logins \cup {NoOne}
  /\ life \in {"down", "booting", "up"}
  /\ ref \in [Refreshers -> [pc : {"idle", "blocked", "locked", "asked", "persist", "granted",
                                    "commit"}, tok : Token]]
  /\ scrape \in [Scrapers -> [pc : {"idle", "fetch", "store", "send"}, sess : Accounts,
                              tok : Accounts \cup {None}, tries : 0 .. 1]]
  /\ login \in [Logins -> [pc : {"exchange", "tokens", "persist", "commit", "scrape",
                                 "persistWeb", "commitWeb", "over"}, tok : Token]]
  /\ issued \in Nat
  /\ crashes \in Nat
  /\ account \in Accounts
  /\ asks \in Nat

\* A refresh or a login is between its write and its commit.
Committing ==
  \/ \E c \in Refreshers : ref[c].pc = "commit"
  \/ \E l \in Logins : login[l].pc = "commit"
CommittingWeb == \E l \in Logins : login[l].pc = "commitWeb"

\* The running client never uses a refresh token or a web session that a restart
\* would not find: persist before commit, on every path (auth.go, lines 147-154
\* and 251-254; web.go, lines 326-332).
MemoryNotAhead == life # "down" =>
  /\ mem.refresh # disk.refresh => Committing
  /\ mem.php # disk.php => CommittingWeb

\* A login is the last writer: no refresh that was under way brings the previous
\* account's token back, in the file or in memory (auth.go, lines 239-246), and
\* the bearer in use is of the account of the refresh token beside it.
LoginSticks ==
  /\ disk.refresh.acct = account
  /\ life # "down" /\ mem.refresh.acct # account => \E l \in Logins : login[l].pc = "commit"
  /\ life = "up" => mem.access = mem.refresh.acct

\* However many requests find the token expired, pixiv's token endpoint is asked
\* once until it expires again, whether it answers or not (auth.go, lines 16-19,
\* 49-55 and 104-107).
OneAskPerExpiry == asks <= 1

\* A csrf token is used only with the session it was scraped with, though a login
\* may swap the session at any point (web.go, lines 219-222 and 239-244).
PairsMatch ==
  /\ mem.csrf \in {None, mem.php}
  /\ disk.csrf \in {None, disk.php}
  /\ \A s \in Scrapers : scrape[s].pc = "send" => scrape[s].tok = scrape[s].sess
=============================================================================
