----------------------------- MODULE FrontDoorProofs -----------------------------
(***************************************************************************)
(* The parts a request meets before its handler, and what is kept on disk: *)
(* the credentials, the password gate, the rate limiter, the PKCE flows,   *)
(* the .env files and run itself.  They share no state; each has its own   *)
(* invariant, its own lemmas and its own theorems below.                   *)
(***************************************************************************)
EXTENDS Credentials, Gate, RateLimiter, PkceFlows, EnvFiles, Server,
        FiniteSetTheorems, WellFoundedInduction, TLAPS

(***************************************************************************)
(* What the process holds is what a restart would find, for any requests,  *)
(* probes, web requests and logins and any number of crashes: because of   *)
(* who may be at work.  Whoever asks, writes or commits a token holds      *)
(* refreshMu (MutexOK), so what it read of memory when it asked is still   *)
(* there when it commits (TokensOK); and what a crash leaves is only what  *)
(* the next boot reads (LifeOK).                                           *)
(***************************************************************************)

Asking == {"asked", "persist", "granted", "commit"}

\* refreshMu belongs to the refresh or the login that is at work on the tokens,
\* sessionMu to the login at work on the session.
MutexOK ==
  /\ \A c \in Refreshers : ref[c].pc \in Asking \cup {"locked"} => refreshMu = c
  /\ \A l \in Logins : login[l].pc \in {"persist", "commit"} => refreshMu = l
  /\ \A l \in Logins : login[l].pc \in {"persistWeb", "commitWeb"} => sessionMu = l
\* Only NewClient runs before the process is up, with an expired token, and
\* nothing does when it is down.
LifeOK ==
  /\ life # "up" =>
       /\ \A c \in Refreshers : c # Main => ref[c].pc = "idle"
       /\ \A s \in Scrapers : scrape[s].pc = "idle"
       /\ \A l \in Logins : login[l].pc \in {"exchange", "over"}
  /\ life = "down" => ref[Main].pc = "idle"
  /\ life = "booting" => expired
\* What a refresh or a login holds is what memory or the file does.
TokensOK ==
  /\ \A c \in Refreshers :
       /\ ref[c].pc \in {"asked", "granted"} => ref[c].tok = mem.refresh
       /\ ref[c].pc \in {"persist", "commit"} => ref[c].tok.acct = mem.refresh.acct
       /\ ref[c].pc = "commit" => ref[c].tok = disk.refresh
  /\ \A l \in Logins :
       /\ login[l].pc \in {"tokens", "persist", "commit"} => login[l].tok.acct = l
       /\ login[l].pc = "commit" => login[l].tok = disk.refresh
       /\ login[l].pc = "commitWeb" => disk.php = l
\* A token that has expired has been asked for only by who is at it still.
AsksOK ==
  /\ asks \in {0, 1}
  /\ life # "down" /\ expired /\ (\A c \in Refreshers \ Probes : ref[c].pc \notin Asking) =>
       asks = 0
ScrapesOK == \A s \in Scrapers : scrape[s].pc = "store" => scrape[s].tok = scrape[s].sess

CredsInv ==
  /\ TypeOK /\ MutexOK /\ LifeOK /\ TokensOK /\ AsksOK /\ ScrapesOK
  /\ MemoryNotAhead /\ LoginSticks /\ PairsMatch


LEMMA CredsInit == Init => CredsInv
<1> SUFFICES ASSUME Init PROVE CredsInv
  OBVIOUS
<1> USE CredentialsAssumption DEF Init, Loaded, First, NoRefresh, NoScrape, NoLogin
<1>1. TypeOK
  BY DEF TypeOK, Stored, Held, Token, Accounts, Refreshers
<1>2. MutexOK /\ LifeOK /\ TokensOK /\ AsksOK /\ ScrapesOK
  BY DEF MutexOK, LifeOK, TokensOK, AsksOK, ScrapesOK, Asking, Refreshers
<1>3. MemoryNotAhead /\ LoginSticks /\ PairsMatch
  BY DEF MemoryNotAhead, LoginSticks, PairsMatch, Committing, CommittingWeb
<1> QED
  BY <1>1, <1>2, <1>3 DEF CredsInv

-----------------------------------------------------------------------------
(* What a step leaves alone.                                               *)

\* No step of a refresh or of a login's first half touches the web sessions.
LEMMA SessionsAlone ==
  ASSUME ScrapesOK, PairsMatch, UNCHANGED <<scrape, mem.php, mem.csrf, disk.php, disk.csrf>>
  PROVE  ScrapesOK' /\ PairsMatch'
  BY DEF ScrapesOK, PairsMatch

\* A web request touches the csrf token in memory and nothing else.
LEMMA TokensAlone ==
  ASSUME CredsInv, UNCHANGED <<disk, expired, refreshMu, sessionMu, ref, login, life, account, asks>>,
         UNCHANGED <<mem.refresh, mem.access, mem.php>>
  PROVE  MutexOK' /\ TokensOK' /\ AsksOK' /\ MemoryNotAhead' /\ LoginSticks'
<1>1. MutexOK' /\ TokensOK' /\ AsksOK'
  BY DEF CredsInv, MutexOK, TokensOK, AsksOK
<1>2. MemoryNotAhead' /\ LoginSticks'
  BY DEF CredsInv, MemoryNotAhead, LoginSticks, Committing, CommittingWeb
<1> QED
  BY <1>1, <1>2

\* A login asks for no token in the name of a request.
LEMMA AsksAlone ==
  ASSUME AsksOK, UNCHANGED <<ref, asks, life>>, expired' => expired
  PROVE  AsksOK'
  BY DEF AsksOK

-----------------------------------------------------------------------------
\* refreshLocked returns: what it changes keeps its type.
LEMMA ReleasedTyped ==
  ASSUME TypeOK, NEW c \in Refreshers, NEW ok \in BOOLEAN, Released(c, ok)
  PROVE  /\ ref' \in [Refreshers -> [pc : {"idle", "blocked", "locked", "asked", "persist",
                                           "granted", "commit"}, tok : Token]]
         /\ refreshMu' \in Refreshers \cup Logins \cup {NoOne}
         /\ life' \in {"down", "booting", "up"}
<1>1. [pc |-> "idle", tok |-> First] \in
        [pc : {"idle", "blocked", "locked", "asked", "persist", "granted", "commit"}, tok : Token]
  BY DEF First, Token, Accounts
<1> QED
  BY <1>1 DEF TypeOK, Released, Ref

\* refresh and forceRefresh, one at a time under refreshMu.
LEMMA RefreshKeeps ==
  ASSUME CredsInv, NEW c \in Refreshers, Need(c) \/ RefreshStep(c)
  PROVE  CredsInv'
<1> USE CredentialsAssumption DEF Refreshers, Asking, Ref, secrets, locks, world, history
<1>1. CASE Need(c)
  <2>1. TypeOK'
    BY <1>1 DEF CredsInv, Need, TypeOK, Stored, Held, Token, Accounts, First
  <2>2. MutexOK' /\ LifeOK'
    BY <1>1 DEF CredsInv, Need, TypeOK, MutexOK, LifeOK
  <2>3. TokensOK'
    BY <1>1 DEF CredsInv, Need, TypeOK, MutexOK, LifeOK, TokensOK, Stored, Held, Token,
       Accounts, First
  <2>4. AsksOK'
    BY <1>1 DEF CredsInv, Need, TypeOK, MutexOK, LifeOK, AsksOK
  <2>5. MemoryNotAhead' /\ LoginSticks'
    BY <1>1 DEF CredsInv, Need, TypeOK, MemoryNotAhead, LoginSticks, Committing, CommittingWeb
  <2>6. ScrapesOK' /\ PairsMatch'
    BY <1>1, SessionsAlone DEF CredsInv, TypeOK, Stored, Held, Need
  <2> QED
    BY <2>1, <2>2, <2>3, <2>4, <2>5, <2>6 DEF CredsInv
<1>2. CASE Lock(c)
  <2>1. TypeOK'
    BY <1>2 DEF CredsInv, Lock, TypeOK, Stored, Held, Token, Accounts, First
  <2>2. MutexOK' /\ LifeOK'
    BY <1>2 DEF CredsInv, Lock, TypeOK, MutexOK, LifeOK
  <2>3. TokensOK'
    BY <1>2 DEF CredsInv, Lock, TypeOK, MutexOK, LifeOK, TokensOK, Stored, Held, Token,
       Accounts, First
  <2>4. AsksOK'
    BY <1>2 DEF CredsInv, Lock, TypeOK, MutexOK, LifeOK, AsksOK
  <2>5. MemoryNotAhead' /\ LoginSticks'
    BY <1>2 DEF CredsInv, Lock, TypeOK, MemoryNotAhead, LoginSticks, Committing, CommittingWeb
  <2>6. ScrapesOK' /\ PairsMatch'
    BY <1>2, SessionsAlone DEF CredsInv, TypeOK, Stored, Held, Lock
  <2> QED
    BY <2>1, <2>2, <2>3, <2>4, <2>5, <2>6 DEF CredsInv
<1>3. CASE AlreadyFresh(c)
  <2>1. TypeOK'
    BY <1>3, ReleasedTyped DEF CredsInv, AlreadyFresh, TypeOK
  <2>2. MutexOK' /\ LifeOK'
    BY <1>3 DEF CredsInv, AlreadyFresh, Released, TypeOK, MutexOK, LifeOK
  <2>3. TokensOK'
    BY <1>3 DEF CredsInv, AlreadyFresh, Released, TypeOK, MutexOK, LifeOK, TokensOK,
       Stored, Held, Token, Accounts, First
  <2>4. AsksOK'
    BY <1>3 DEF CredsInv, AlreadyFresh, Released, TypeOK, MutexOK, LifeOK, AsksOK
  <2>5. MemoryNotAhead'
    BY <1>3 DEF CredsInv, AlreadyFresh, Released, TypeOK, MutexOK, TokensOK,
       MemoryNotAhead, Committing, CommittingWeb
  <2>6. LoginSticks'
    BY <1>3 DEF CredsInv, AlreadyFresh, Released, TypeOK, MutexOK, LifeOK, TokensOK,
       LoginSticks, Stored, Held, Token, Accounts, First
  <2>7. ScrapesOK' /\ PairsMatch'
    BY <1>3, SessionsAlone DEF CredsInv, TypeOK, Stored, Held, AlreadyFresh, Released
  <2> QED
    BY <2>1, <2>2, <2>3, <2>4, <2>5, <2>6, <2>7 DEF CredsInv
<1>4. CASE Ask(c)
  <2>1. TypeOK'
    BY <1>4 DEF CredsInv, Ask, TypeOK, Stored, Held, Token, Accounts, First
  <2>2. MutexOK' /\ LifeOK'
    BY <1>4 DEF CredsInv, Ask, TypeOK, MutexOK, LifeOK
  <2>3. TokensOK'
    BY <1>4 DEF CredsInv, Ask, TypeOK, MutexOK, LifeOK, TokensOK, Stored, Held, Token,
       Accounts, First
  <2>4. AsksOK'
    BY <1>4 DEF CredsInv, Ask, TypeOK, MutexOK, LifeOK, AsksOK
  <2>5. MemoryNotAhead' /\ LoginSticks'
    BY <1>4 DEF CredsInv, Ask, TypeOK, MemoryNotAhead, LoginSticks, Committing, CommittingWeb
  <2>6. ScrapesOK' /\ PairsMatch'
    BY <1>4, SessionsAlone DEF CredsInv, TypeOK, Stored, Held, Ask
  <2> QED
    BY <2>1, <2>2, <2>3, <2>4, <2>5, <2>6 DEF CredsInv
<1>5. CASE Refused(c)
  <2>1. TypeOK'
    BY <1>5, ReleasedTyped DEF CredsInv, Refused, BackOff, TypeOK
  <2>2. MutexOK' /\ LifeOK'
    BY <1>5 DEF CredsInv, Refused, BackOff, Released, TypeOK, MutexOK, LifeOK
  <2>3. TokensOK'
    BY <1>5 DEF CredsInv, Refused, BackOff, Released, TypeOK, MutexOK, LifeOK, TokensOK,
       Stored, Held, Token, Accounts, First
  <2>4. AsksOK'
    BY <1>5 DEF CredsInv, Refused, BackOff, Released, TypeOK, MutexOK, LifeOK, AsksOK
  <2>5. MemoryNotAhead'
    BY <1>5 DEF CredsInv, Refused, BackOff, Released, TypeOK, MutexOK, TokensOK,
       MemoryNotAhead, Committing, CommittingWeb
  <2>6. LoginSticks'
    BY <1>5 DEF CredsInv, Refused, BackOff, Released, TypeOK, MutexOK, LifeOK, TokensOK,
       LoginSticks, Stored, Held, Token, Accounts, First
  <2>7. ScrapesOK' /\ PairsMatch'
    BY <1>5, SessionsAlone DEF CredsInv, TypeOK, Stored, Held, Refused, BackOff, Released
  <2> QED
    BY <2>1, <2>2, <2>3, <2>4, <2>5, <2>6, <2>7 DEF CredsInv
<1>6. CASE Rotated(c)
  <2>1. TypeOK'
    BY <1>6 DEF CredsInv, Rotated, TypeOK, Stored, Held, Token, Accounts, First
  <2>2. MutexOK' /\ LifeOK'
    BY <1>6 DEF CredsInv, Rotated, TypeOK, MutexOK, LifeOK
  <2>3. TokensOK'
    BY <1>6 DEF CredsInv, Rotated, TypeOK, MutexOK, LifeOK, TokensOK, Stored, Held, Token,
       Accounts, First
  <2>4. AsksOK'
    BY <1>6 DEF CredsInv, Rotated, TypeOK, MutexOK, LifeOK, AsksOK
  <2>5. MemoryNotAhead' /\ LoginSticks'
    BY <1>6 DEF CredsInv, Rotated, TypeOK, MemoryNotAhead, LoginSticks, Committing,
       CommittingWeb
  <2>6. ScrapesOK' /\ PairsMatch'
    BY <1>6, SessionsAlone DEF CredsInv, TypeOK, Stored, Held, Rotated
  <2> QED
    BY <2>1, <2>2, <2>3, <2>4, <2>5, <2>6 DEF CredsInv
<1>7. CASE Granted(c)
  <2>1. TypeOK'
    BY <1>7 DEF CredsInv, Granted, TypeOK, Stored, Held, Token, Accounts, First
  <2>2. MutexOK' /\ LifeOK'
    BY <1>7 DEF CredsInv, Granted, TypeOK, MutexOK, LifeOK
  <2>3. TokensOK'
    BY <1>7 DEF CredsInv, Granted, TypeOK, MutexOK, LifeOK, TokensOK, Stored, Held, Token,
       Accounts, First
  <2>4. AsksOK'
    BY <1>7 DEF CredsInv, Granted, TypeOK, MutexOK, LifeOK, AsksOK
  <2>5. MemoryNotAhead' /\ LoginSticks'
    BY <1>7 DEF CredsInv, Granted, TypeOK, MemoryNotAhead, LoginSticks, Committing,
       CommittingWeb
  <2>6. ScrapesOK' /\ PairsMatch'
    BY <1>7, SessionsAlone DEF CredsInv, TypeOK, Stored, Held, Granted
  <2> QED
    BY <2>1, <2>2, <2>3, <2>4, <2>5, <2>6 DEF CredsInv
<1>8. CASE Persist(c)
  <2>1. TypeOK'
    BY <1>8 DEF CredsInv, Persist, TypeOK, Stored, Held, Token, Accounts, First
  <2>2. MutexOK' /\ LifeOK'
    BY <1>8 DEF CredsInv, Persist, TypeOK, MutexOK, LifeOK
  <2>3. TokensOK'
    BY <1>8 DEF CredsInv, Persist, TypeOK, MutexOK, LifeOK, TokensOK, Stored, Held, Token,
       Accounts, First
  <2>4. AsksOK'
    BY <1>8 DEF CredsInv, Persist, TypeOK, MutexOK, LifeOK, AsksOK
  <2>5. MemoryNotAhead'
    BY <1>8 DEF CredsInv, Persist, TypeOK, MutexOK, TokensOK, MemoryNotAhead, Committing,
       CommittingWeb
  <2>6. LoginSticks'
    BY <1>8 DEF CredsInv, Persist, TypeOK, MutexOK, LifeOK, TokensOK, LoginSticks, Stored,
       Held, Token, Accounts, First
  <2>7. ScrapesOK' /\ PairsMatch'
    BY <1>8, SessionsAlone DEF CredsInv, TypeOK, Stored, Held, Persist
  <2> QED
    BY <2>1, <2>2, <2>3, <2>4, <2>5, <2>6, <2>7 DEF CredsInv
<1>9. CASE PersistFails(c)
  <2>1. TypeOK'
    BY <1>9, ReleasedTyped DEF CredsInv, PersistFails, BackOff, TypeOK
  <2>2. MutexOK' /\ LifeOK'
    BY <1>9 DEF CredsInv, PersistFails, BackOff, Released, TypeOK, MutexOK, LifeOK
  <2>3. TokensOK'
    BY <1>9 DEF CredsInv, PersistFails, BackOff, Released, TypeOK, MutexOK, LifeOK,
       TokensOK, Stored, Held, Token, Accounts, First
  <2>4. AsksOK'
    BY <1>9 DEF CredsInv, PersistFails, BackOff, Released, TypeOK, MutexOK, LifeOK, AsksOK
  <2>5. MemoryNotAhead'
    BY <1>9 DEF CredsInv, PersistFails, BackOff, Released, TypeOK, MutexOK, TokensOK,
       MemoryNotAhead, Committing, CommittingWeb
  <2>6. LoginSticks'
    BY <1>9 DEF CredsInv, PersistFails, BackOff, Released, TypeOK, MutexOK, LifeOK,
       TokensOK, LoginSticks, Stored, Held, Token, Accounts, First
  <2>7. ScrapesOK' /\ PairsMatch'
    BY <1>9, SessionsAlone DEF CredsInv, TypeOK, Stored, Held, PersistFails, BackOff, Released
  <2> QED
    BY <2>1, <2>2, <2>3, <2>4, <2>5, <2>6, <2>7 DEF CredsInv
<1>10. CASE Commit(c)
  <2>1. TypeOK'
    <3>1. mem' \in Held
      BY <1>10 DEF CredsInv, Commit, TypeOK, Held, Token
    <3> QED
      BY <1>10, <3>1, ReleasedTyped DEF CredsInv, Commit, TypeOK
  <2>2. MutexOK' /\ LifeOK'
    BY <1>10 DEF CredsInv, Commit, Released, TypeOK, MutexOK, LifeOK
  <2>3. TokensOK'
    BY <1>10 DEF CredsInv, Commit, Released, TypeOK, MutexOK, LifeOK, TokensOK, Stored,
       Held, Token, Accounts, First
  <2>4. AsksOK'
    BY <1>10 DEF CredsInv, Commit, Released, TypeOK, MutexOK, LifeOK, AsksOK
  <2>5. MemoryNotAhead'
    BY <1>10 DEF CredsInv, Commit, Released, TypeOK, MutexOK, TokensOK, MemoryNotAhead,
       Committing, CommittingWeb
  <2>6. LoginSticks'
    BY <1>10 DEF CredsInv, Commit, Released, TypeOK, MutexOK, LifeOK, TokensOK,
       LoginSticks, Stored, Held, Token, Accounts, First
  <2>7. ScrapesOK' /\ PairsMatch'
    BY <1>10, SessionsAlone DEF CredsInv, TypeOK, Stored, Held, Commit, Released
  <2> QED
    BY <2>1, <2>2, <2>3, <2>4, <2>5, <2>6, <2>7 DEF CredsInv
<1> QED
  BY <1>1, <1>2, <1>3, <1>4, <1>5, <1>6, <1>7, <1>8, <1>9, <1>10 DEF RefreshStep

\* csrfToken: a token is stored for the session it was scraped with, or not at all.
LEMMA ScrapeKeeps ==
  ASSUME CredsInv, NEW s \in Scrapers, ReadPair(s) \/ ScrapeStep(s)
  PROVE  CredsInv'
<1> USE CredentialsAssumption DEF Scr, secrets, locks, world, history
<1>1. CASE ReadPair(s)
  <2>1. TypeOK'
    <3>1. mem.php \in Accounts /\ mem.csrf \in Accounts \cup {None}
      BY DEF CredsInv, TypeOK, Held
    <3>2. scrape[s] \in [pc : {"idle", "fetch", "store", "send"}, sess : Accounts,
                         tok : Accounts \cup {None}, tries : 0 .. 1]
      BY DEF CredsInv, TypeOK
    <3>3. scrape'[s] \in [pc : {"idle", "fetch", "store", "send"}, sess : Accounts,
                          tok : Accounts \cup {None}, tries : 0 .. 1]
      <4>1. CASE mem.csrf = None
        BY <1>1, <3>1, <3>2, <4>1 DEF CredsInv, ReadPair, TypeOK
      <4>2. CASE mem.csrf # None
        BY <1>1, <3>1, <3>2, <4>2 DEF CredsInv, ReadPair, TypeOK
      <4> QED
        BY <4>1, <4>2
    <3> QED
      BY <1>1, <3>3 DEF CredsInv, ReadPair, TypeOK
  <2>2. LifeOK'
    BY <1>1 DEF CredsInv, ReadPair, TypeOK, LifeOK
  <2>3. ScrapesOK' /\ PairsMatch'
    BY <1>1 DEF CredsInv, ReadPair, TypeOK, ScrapesOK, PairsMatch, Held
  <2>4. MutexOK' /\ TokensOK' /\ AsksOK' /\ MemoryNotAhead' /\ LoginSticks'
    BY <1>1, TokensAlone DEF ReadPair, CredsInv, TypeOK, Held
  <2> QED
    BY <2>1, <2>2, <2>3, <2>4 DEF CredsInv
<1>2. CASE Fetch(s)
  <2>1. TypeOK'
    <3>1. scrape[s] \in [pc : {"idle", "fetch", "store", "send"}, sess : Accounts,
                         tok : Accounts \cup {None}, tries : 0 .. 1]
      BY DEF CredsInv, TypeOK
    <3>2. [scrape[s] EXCEPT !.pc = "store", !.tok = scrape[s].sess] \in
            [pc : {"idle", "fetch", "store", "send"}, sess : Accounts,
             tok : Accounts \cup {None}, tries : 0 .. 1]
      BY <3>1
    <3> QED
      BY <1>2, <3>2 DEF CredsInv, Fetch, Scr, TypeOK
  <2>2. LifeOK'
    BY <1>2 DEF CredsInv, Fetch, TypeOK, LifeOK
  <2>3. ScrapesOK' /\ PairsMatch'
    BY <1>2 DEF CredsInv, Fetch, TypeOK, ScrapesOK, PairsMatch, Held
  <2>4. MutexOK' /\ TokensOK' /\ AsksOK' /\ MemoryNotAhead' /\ LoginSticks'
    BY <1>2, TokensAlone DEF Fetch, CredsInv, TypeOK, Held
  <2> QED
    BY <2>1, <2>2, <2>3, <2>4 DEF CredsInv
<1>3. CASE Store(s)
  <2>1. TypeOK'
    BY <1>3 DEF CredsInv, Store, TypeOK, Held, Accounts
  <2>2. LifeOK'
    BY <1>3 DEF CredsInv, Store, TypeOK, LifeOK
  <2>3. ScrapesOK' /\ PairsMatch'
    BY <1>3 DEF CredsInv, Store, TypeOK, ScrapesOK, PairsMatch, Held
  <2>4. MutexOK' /\ TokensOK' /\ AsksOK' /\ MemoryNotAhead' /\ LoginSticks'
    BY <1>3, TokensAlone DEF Store, CredsInv, TypeOK, Held
  <2> QED
    BY <2>1, <2>2, <2>3, <2>4 DEF CredsInv
<1>4. CASE Answered(s)
  <2>1. TypeOK'
    BY <1>4 DEF CredsInv, Answered, NoScrape, TypeOK, Accounts
  <2>2. LifeOK'
    BY <1>4 DEF CredsInv, Answered, NoScrape, TypeOK, LifeOK
  <2>3. ScrapesOK' /\ PairsMatch'
    BY <1>4 DEF CredsInv, Answered, NoScrape, TypeOK, ScrapesOK, PairsMatch, Held
  <2>4. MutexOK' /\ TokensOK' /\ AsksOK' /\ MemoryNotAhead' /\ LoginSticks'
    BY <1>4, TokensAlone DEF Answered, CredsInv, TypeOK, Held
  <2> QED
    BY <2>1, <2>2, <2>3, <2>4 DEF CredsInv
<1>5. CASE Rejected(s)
  <2>1. TypeOK'
    <3>1. mem' \in Held
      BY <1>5 DEF CredsInv, Rejected, TypeOK, Held
    <3>2. Home \in Accounts
      BY DEF Accounts
    <3>3. scrape' \in [Scrapers -> [pc : {"idle", "fetch", "store", "send"},
    sess : Accounts,
                                    tok : Accounts \cup {None}, tries : 0 .. 1]]
      BY <1>5, <3>2 DEF CredsInv, Rejected, NoScrape, TypeOK
    <3> QED
      BY <1>5, <3>1, <3>3 DEF CredsInv, Rejected, TypeOK
  <2>2. LifeOK'
    BY <1>5 DEF CredsInv, Rejected, NoScrape, TypeOK, LifeOK
  <2>3. ScrapesOK' /\ PairsMatch'
    BY <1>5 DEF CredsInv, Rejected, NoScrape, TypeOK, ScrapesOK, PairsMatch, Held
  <2>4. MutexOK' /\ TokensOK' /\ AsksOK' /\ MemoryNotAhead' /\ LoginSticks'
    BY <1>5, TokensAlone DEF Rejected, CredsInv, TypeOK, Held
  <2> QED
    BY <2>1, <2>2, <2>3, <2>4 DEF CredsInv
<1> QED
  BY <1>1, <1>2, <1>3, <1>4, <1>5 DEF ScrapeStep

\* handlePkceCallback: SetTokens under refreshMu, SetWebSession under sessionMu.
LEMMA LoginKeeps ==
  ASSUME CredsInv, NEW l \in Logins, Exchange(l) \/ LoginStep(l)
  PROVE  CredsInv'
<1> USE CredentialsAssumption DEF Refreshers, Asking, Log, secrets, locks, world, history
<1>1. CASE Exchange(l)
  <2>1. TypeOK'
    BY <1>1 DEF CredsInv, Exchange, TypeOK, Stored, Held, Token, Accounts, First
  <2>2. MutexOK' /\ LifeOK'
    BY <1>1 DEF CredsInv, Exchange, TypeOK, MutexOK, LifeOK
  <2>3. TokensOK'
    BY <1>1 DEF CredsInv, Exchange, TypeOK, MutexOK, LifeOK, TokensOK, Stored, Held, Token,
       Accounts, First
  <2>4. MemoryNotAhead' /\ LoginSticks'
    BY <1>1 DEF CredsInv, Exchange, TypeOK, MemoryNotAhead, LoginSticks, Committing,
       CommittingWeb
  <2>5. AsksOK'
    BY <1>1, AsksAlone DEF Exchange, CredsInv
  <2>6. ScrapesOK' /\ PairsMatch'
    BY <1>1, SessionsAlone DEF Exchange, CredsInv, TypeOK, Stored, Held
  <2> QED
    BY <2>1, <2>2, <2>3, <2>4, <2>5, <2>6 DEF CredsInv
<1>2. CASE LockTokens(l)
  <2>1. TypeOK'
    BY <1>2 DEF CredsInv, LockTokens, TypeOK, Stored, Held, Token, Accounts, First
  <2>2. MutexOK' /\ LifeOK'
    BY <1>2 DEF CredsInv, LockTokens, TypeOK, MutexOK, LifeOK
  <2>3. TokensOK'
    BY <1>2 DEF CredsInv, LockTokens, TypeOK, MutexOK, LifeOK, TokensOK, Stored, Held,
       Token, Accounts, First
  <2>4. MemoryNotAhead' /\ LoginSticks'
    BY <1>2 DEF CredsInv, LockTokens, TypeOK, MemoryNotAhead, LoginSticks, Committing,
       CommittingWeb
  <2>5. AsksOK'
    BY <1>2, AsksAlone DEF LockTokens, CredsInv
  <2>6. ScrapesOK' /\ PairsMatch'
    BY <1>2, SessionsAlone DEF LockTokens, CredsInv, TypeOK, Stored, Held
  <2> QED
    BY <2>1, <2>2, <2>3, <2>4, <2>5, <2>6 DEF CredsInv
<1>3. CASE PersistTokens(l)
  <2>1. TypeOK'
    <3>1. l \in Accounts /\ login[l].tok \in Token
      BY DEF CredsInv, TypeOK, Accounts
    <3>2. disk' \in Stored
      BY <1>3, <3>1 DEF CredsInv, PersistTokens, TypeOK, Stored
    <3>3. login' \in [Logins -> [pc : {"exchange", "tokens", "persist", "commit", "scrape",
                                       "persistWeb", "commitWeb", "over"}, tok : Token]]
      BY <1>3 DEF CredsInv, PersistTokens, TypeOK
    <3> QED
      BY <1>3, <3>1, <3>2, <3>3 DEF CredsInv, PersistTokens, TypeOK
  <2>2. MutexOK' /\ LifeOK'
    BY <1>3 DEF CredsInv, PersistTokens, TypeOK, MutexOK, LifeOK
  <2>3. TokensOK'
    BY <1>3 DEF CredsInv, PersistTokens, TypeOK, MutexOK, LifeOK, TokensOK, Stored, Held,
       Token, Accounts, First
  <2>4. MemoryNotAhead'
    BY <1>3 DEF CredsInv, PersistTokens, TypeOK, MutexOK, TokensOK, MemoryNotAhead,
       Committing, CommittingWeb
  <2>5. LoginSticks'
    BY <1>3 DEF CredsInv, PersistTokens, TypeOK, MutexOK, LifeOK, TokensOK, LoginSticks,
       Stored, Held, Token, Accounts, First
  <2>6. AsksOK'
    BY <1>3, AsksAlone DEF PersistTokens, CredsInv
  <2>7. ScrapesOK' /\ PairsMatch'
    BY <1>3, SessionsAlone DEF PersistTokens, CredsInv, TypeOK, Stored, Held
  <2> QED
    BY <2>1, <2>2, <2>3, <2>4, <2>5, <2>6, <2>7 DEF CredsInv
<1>4. CASE CommitTokens(l)
  <2>1. TypeOK'
    <3>1. login[l].tok \in Token /\ l \in Accounts
      BY DEF CredsInv, TypeOK, Accounts
    <3>2. mem' \in Held
      BY <1>4, <3>1 DEF CredsInv, CommitTokens, TypeOK, Held
    <3>3. login' \in [Logins -> [pc : {"exchange", "tokens", "persist", "commit",
    "scrape",
                                             "persistWeb", "commitWeb", "over"},
                                             tok : Token]]
      BY <1>4 DEF CredsInv, CommitTokens, TypeOK
    <3> QED
      BY <1>4, <3>2, <3>3 DEF CredsInv, CommitTokens, TypeOK
  <2>2. MutexOK' /\ LifeOK'
    BY <1>4 DEF CredsInv, CommitTokens, TypeOK, MutexOK, LifeOK
  <2>3. TokensOK'
    BY <1>4 DEF CredsInv, CommitTokens, TypeOK, MutexOK, LifeOK, TokensOK, Stored, Held,
       Token, Accounts, First
  <2>4. MemoryNotAhead'
    BY <1>4 DEF CredsInv, CommitTokens, TypeOK, MutexOK, TokensOK, MemoryNotAhead,
       Committing, CommittingWeb
  <2>5. LoginSticks'
    BY <1>4 DEF CredsInv, CommitTokens, TypeOK, MutexOK, LifeOK, TokensOK, LoginSticks,
       Stored, Held, Token, Accounts, First
  <2>6. AsksOK'
    BY <1>4, AsksAlone DEF CommitTokens, CredsInv
  <2>7. ScrapesOK' /\ PairsMatch'
    BY <1>4, SessionsAlone DEF CommitTokens, CredsInv, TypeOK, Stored, Held
  <2> QED
    BY <2>1, <2>2, <2>3, <2>4, <2>5, <2>6, <2>7 DEF CredsInv
<1>5. CASE LockSession(l)
  <2>1. TypeOK'
    BY <1>5 DEF CredsInv, LockSession, TypeOK, Stored, Held, Token, Accounts, First
  <2>2. MutexOK' /\ LifeOK'
    BY <1>5 DEF CredsInv, LockSession, TypeOK, MutexOK, LifeOK
  <2>3. TokensOK'
    BY <1>5 DEF CredsInv, LockSession, TypeOK, MutexOK, LifeOK, TokensOK, Stored, Held,
       Token, Accounts, First
  <2>4. MemoryNotAhead' /\ LoginSticks'
    BY <1>5 DEF CredsInv, LockSession, TypeOK, MemoryNotAhead, LoginSticks, Committing,
       CommittingWeb
  <2>5. AsksOK'
    BY <1>5, AsksAlone DEF LockSession, CredsInv
  <2>6. ScrapesOK' /\ PairsMatch'
    BY <1>5, SessionsAlone DEF LockSession, CredsInv, TypeOK, Stored, Held
  <2> QED
    BY <2>1, <2>2, <2>3, <2>4, <2>5, <2>6 DEF CredsInv
<1>6. CASE PersistSession(l)
  <2>1. TypeOK'
    <3>1. l \in Accounts
      BY DEF Accounts
    <3>2. disk' \in Stored
      BY <1>6, <3>1 DEF CredsInv, PersistSession, TypeOK, Stored
    <3>3. login' \in [Logins -> [pc : {"exchange", "tokens", "persist", "commit",
    "scrape",
                                             "persistWeb", "commitWeb", "over"},
                                             tok : Token]]
      BY <1>6 DEF CredsInv, PersistSession, TypeOK
    <3> QED
      BY <1>6, <3>2, <3>3 DEF CredsInv, PersistSession, TypeOK
  <2>2. MutexOK' /\ LifeOK'
    BY <1>6 DEF CredsInv, PersistSession, TypeOK, MutexOK, LifeOK
  <2>3. TokensOK'
    BY <1>6 DEF CredsInv, PersistSession, TypeOK, MutexOK, LifeOK, TokensOK, Stored, Held,
       Token, Accounts, First
  <2>4. MemoryNotAhead'
    BY <1>6 DEF CredsInv, PersistSession, TypeOK, MutexOK, TokensOK, MemoryNotAhead,
       Committing, CommittingWeb
  <2>5. LoginSticks'
    BY <1>6 DEF CredsInv, PersistSession, TypeOK, MutexOK, LifeOK, TokensOK, LoginSticks,
       Stored, Held, Token, Accounts, First
  <2>6. ScrapesOK' /\ PairsMatch'
    BY <1>6 DEF CredsInv, PersistSession, TypeOK, ScrapesOK, PairsMatch, Stored, Held
  <2>7. AsksOK'
    BY <1>6, AsksAlone DEF PersistSession, CredsInv
  <2> QED
    BY <2>1, <2>2, <2>3, <2>4, <2>5, <2>6, <2>7 DEF CredsInv
<1>7. CASE CommitSession(l)
  <2>1. TypeOK'
    <3>1. l \in Accounts
      BY DEF Accounts
    <3>2. mem' \in Held
      BY <1>7, <3>1 DEF CredsInv, CommitSession, TypeOK, Held
    <3>3. login' \in [Logins -> [pc : {"exchange", "tokens", "persist", "commit",
    "scrape",
                                             "persistWeb", "commitWeb", "over"},
                                             tok : Token]]
      BY <1>7 DEF CredsInv, CommitSession, TypeOK
    <3> QED
      BY <1>7, <3>2, <3>3 DEF CredsInv, CommitSession, TypeOK
  <2>2. MutexOK' /\ LifeOK'
    BY <1>7 DEF CredsInv, CommitSession, TypeOK, MutexOK, LifeOK
  <2>3. TokensOK'
    BY <1>7 DEF CredsInv, CommitSession, TypeOK, MutexOK, LifeOK, TokensOK, Stored, Held,
       Token, Accounts, First
  <2>4. MemoryNotAhead'
    BY <1>7 DEF CredsInv, CommitSession, TypeOK, MutexOK, TokensOK, MemoryNotAhead,
       Committing, CommittingWeb
  <2>5. LoginSticks'
    BY <1>7 DEF CredsInv, CommitSession, TypeOK, MutexOK, LifeOK, TokensOK, LoginSticks,
       Stored, Held, Token, Accounts, First
  <2>6. ScrapesOK' /\ PairsMatch'
    BY <1>7 DEF CredsInv, CommitSession, TypeOK, ScrapesOK, PairsMatch, Stored, Held
  <2>7. AsksOK'
    BY <1>7, AsksAlone DEF CommitSession, CredsInv
  <2> QED
    BY <2>1, <2>2, <2>3, <2>4, <2>5, <2>6, <2>7 DEF CredsInv
<1>8. CASE GiveUp(l)
  <2>1. TypeOK'
    BY <1>8 DEF CredsInv, GiveUp, TypeOK, Stored, Held, Token, Accounts, First
  <2>2. MutexOK' /\ LifeOK'
    BY <1>8 DEF CredsInv, GiveUp, TypeOK, MutexOK, LifeOK
  <2>3. TokensOK'
    BY <1>8 DEF CredsInv, GiveUp, TypeOK, MutexOK, LifeOK, TokensOK, Stored, Held, Token,
       Accounts, First
  <2>4. MemoryNotAhead'
    BY <1>8 DEF CredsInv, GiveUp, TypeOK, MutexOK, TokensOK, MemoryNotAhead, Committing,
       CommittingWeb
  <2>5. LoginSticks'
    BY <1>8 DEF CredsInv, GiveUp, TypeOK, MutexOK, LifeOK, TokensOK, LoginSticks, Stored,
       Held, Token, Accounts, First
  <2>6. AsksOK'
    BY <1>8, AsksAlone DEF GiveUp, CredsInv
  <2>7. ScrapesOK' /\ PairsMatch'
    BY <1>8, SessionsAlone DEF GiveUp, CredsInv, TypeOK, Stored, Held
  <2> QED
    BY <2>1, <2>2, <2>3, <2>4, <2>5, <2>6, <2>7 DEF CredsInv
<1> QED
  BY <1>1, <1>2, <1>3, <1>4, <1>5, <1>6, <1>7, <1>8 DEF LoginStep

\* The token expires, the process dies, the process boots.
LEMMA ProcessKeeps == ASSUME CredsInv, Expire \/ Crash \/ Boot PROVE CredsInv'
<1> USE CredentialsAssumption
    DEF Refreshers, Asking, secrets, locks, world, history, NoRefresh, NoScrape,
    NoLogin, Loaded
<1>1. CASE Expire
  <2>1. TypeOK'
    BY <1>1 DEF CredsInv, Expire, TypeOK, Stored, Held, Token, Accounts, First
  <2>2. MutexOK' /\ LifeOK'
    BY <1>1 DEF CredsInv, Expire, TypeOK, MutexOK, LifeOK
  <2>3. TokensOK' /\ ScrapesOK'
    BY <1>1 DEF CredsInv, Expire, TypeOK, LifeOK, TokensOK, ScrapesOK
  <2>4. AsksOK'
    BY <1>1 DEF CredsInv, Expire, TypeOK, LifeOK, AsksOK
  <2>5. MemoryNotAhead' /\ LoginSticks'
    BY <1>1 DEF CredsInv, Expire, TypeOK, LifeOK, MemoryNotAhead, LoginSticks, Committing,
       CommittingWeb, Stored
  <2>6. PairsMatch'
    BY <1>1 DEF CredsInv, Expire, TypeOK, PairsMatch, Stored
  <2> QED
    BY <2>1, <2>2, <2>3, <2>4, <2>5, <2>6 DEF CredsInv
<1>2. CASE Crash
  <2>1. TypeOK'
    BY <1>2 DEF CredsInv, Crash, TypeOK, Stored, Held, Token, Accounts, First
  <2>2. MutexOK' /\ LifeOK'
    BY <1>2 DEF CredsInv, Crash, TypeOK, MutexOK, LifeOK
  <2>3. TokensOK' /\ ScrapesOK'
    BY <1>2 DEF CredsInv, Crash, TypeOK, LifeOK, TokensOK, ScrapesOK
  <2>4. AsksOK'
    BY <1>2 DEF CredsInv, Crash, TypeOK, LifeOK, AsksOK
  <2>5. MemoryNotAhead' /\ LoginSticks'
    BY <1>2 DEF CredsInv, Crash, TypeOK, LifeOK, MemoryNotAhead, LoginSticks, Committing,
       CommittingWeb, Stored
  <2>6. PairsMatch'
    BY <1>2 DEF CredsInv, Crash, TypeOK, PairsMatch, Stored
  <2> QED
    BY <2>1, <2>2, <2>3, <2>4, <2>5, <2>6 DEF CredsInv
<1>3. CASE Boot
  <2>1. TypeOK'
    BY <1>3 DEF CredsInv, Boot, TypeOK, Stored, Held, Token, Accounts, First
  <2>2. MutexOK' /\ LifeOK'
    BY <1>3 DEF CredsInv, Boot, TypeOK, MutexOK, LifeOK
  <2>3. TokensOK' /\ ScrapesOK'
    BY <1>3 DEF CredsInv, Boot, TypeOK, LifeOK, TokensOK, ScrapesOK
  <2>4. AsksOK'
    BY <1>3 DEF CredsInv, Boot, TypeOK, LifeOK, AsksOK
  <2>5. MemoryNotAhead' /\ LoginSticks'
    BY <1>3 DEF CredsInv, Boot, TypeOK, LifeOK, MemoryNotAhead, LoginSticks, Committing,
       CommittingWeb, Stored
  <2>6. PairsMatch'
    BY <1>3 DEF CredsInv, Boot, TypeOK, PairsMatch, Stored
  <2> QED
    BY <2>1, <2>2, <2>3, <2>4, <2>5, <2>6 DEF CredsInv
<1> QED
  BY <1>1, <1>2, <1>3

LEMMA CredsNext == CredsInv /\ [Next]_vars => CredsInv'
<1> SUFFICES ASSUME CredsInv, [Next]_vars PROVE CredsInv'
  OBVIOUS
<1>1. CASE Next
  BY <1>1, RefreshKeeps, ScrapeKeeps, LoginKeeps, ProcessKeeps DEF Next
<1>2. CASE UNCHANGED vars
  <2>1. TypeOK' /\ LifeOK' /\ ScrapesOK' /\ PairsMatch'
    BY <1>2 DEF vars, CredsInv, TypeOK, LifeOK, ScrapesOK, PairsMatch
  <2> QED
    BY <1>2, <2>1, TokensAlone DEF vars, CredsInv
<1> QED
  BY <1>1, <1>2

\* The inductive invariant.
THEOREM CredsInductive == Spec => []CredsInv
  BY CredsInit, CredsNext, PTL DEF Spec

\* Every variable keeps its type.
THEOREM CredentialsTyped == Spec => []TypeOK
<1>1. CredsInv => TypeOK
  BY DEF CredsInv
<1> QED
  BY <1>1, CredsInductive, PTL

-----------------------------------------------------------------------------
\* A running client never uses a token or a session that a restart would not
\* find (persist before commit in refreshLocked, SetTokens, SetWebSession).
THEOREM NotAhead == Spec => []MemoryNotAhead
<1>1. CredsInv => MemoryNotAhead
  BY DEF CredsInv
<1> QED
  BY <1>1, CredsInductive, PTL

\* A login is the last writer of the tokens, though refreshes were under way when
\* it came (refreshMu in SetTokens and refresh).
THEOREM LoginLasts == Spec => []LoginSticks
<1>1. CredsInv => LoginSticks
  BY DEF CredsInv
<1> QED
  BY <1>1, CredsInductive, PTL

\* One request to the token endpoint per expiry, however many callers wait for the
\* lock and however the request fails (refreshLocked's re-check and its backoff).
THEOREM AskedOnce == Spec => []OneAskPerExpiry
<1>1. CredsInv => OneAskPerExpiry
  BY DEF CredsInv, AsksOK, OneAskPerExpiry
<1> QED
  BY <1>1, CredsInductive, PTL

\* A csrf token is kept and sent only beside the session it was scraped with
\* (setWebCacheIfCurrent, webSession).
THEOREM PairsStay == Spec => []PairsMatch
<1>1. CredsInv => PairsMatch
  BY DEF CredsInv
<1> QED
  BY <1>1, CredsInductive, PTL

-----------------------------------------------------------------------------
(***************************************************************************)
(* Sleepers hold no slot of the comparisons, for any connections, any      *)
(* sizes of the two pools and any tarpit: each pool's count is the number  *)
(* of attempts in the phases that hold one of its slots.  Nothing is asked *)
(* of the streak, whose critical sections may interleave as they will.     *)
(***************************************************************************)

Comparing == In("compare")
Sleeping == In("delay") \cup In("asleep")

GateInv ==
  /\ phase \in [Attempts -> Phases]
  /\ IsFiniteSet(Comparing) /\ comparing = Cardinality(Comparing)
  /\ IsFiniteSet(Sleeping) /\ sleepers = Cardinality(Sleeping)
  /\ shutOut = FALSE

\* The members of a phase when one attempt moves.
LEMMA Moved ==
  ASSUME GateInv, NEW a \in Attempts, NEW p \in Phases, To(a, p)
  PROVE  /\ phase' \in [Attempts -> Phases] /\ phase'[a] = p
         /\ \A b \in Attempts : b # a => phase'[b] = phase[b]
         /\ a \in Comparing' <=> p = "compare"
         /\ a \in Sleeping' <=> p \in {"delay", "asleep"}
         /\ Comparing' \ {a} = Comparing \ {a}
         /\ Sleeping' \ {a} = Sleeping \ {a}
  BY DEF GateInv, To, In, Comparing, Sleeping

\* How a move changes the number of a set's members.
LEMMA Counted ==
  ASSUME NEW S, NEW T, NEW a, IsFiniteSet(S), T \ {a} = S \ {a}
  PROVE  /\ IsFiniteSet(T) /\ Cardinality(S) \in Nat /\ Cardinality(T) \in Nat
         /\ a \in S /\ a \notin T => Cardinality(T) = Cardinality(S) - 1
         /\ a \notin S /\ a \in T => Cardinality(T) = Cardinality(S) + 1
         /\ (a \in S <=> a \in T) => T = S
<1>1. CASE a \in S <=> a \in T
  <2>1. T = S
    BY <1>1
  <2> QED
    BY <1>1, <2>1, FS_CardinalityType
<1>2. CASE a \in S /\ a \notin T
  <2>1. T = S \ {a}
    BY <1>2
  <2> QED
    BY <1>2, <2>1, FS_RemoveElement, FS_CardinalityType
<1>3. CASE a \notin S /\ a \in T
  <2>1. T = S \cup {a}
    BY <1>3
  <2> QED
    BY <1>3, <2>1, FS_AddElement, FS_CardinalityType
<1> QED
  BY <1>1, <1>2, <1>3

\* An attempt that moves from one phase to another with the right change of
\* both counts.
LEMMA MoveKeeps ==
  ASSUME GateInv, NEW a \in Attempts, NEW p \in Phases, To(a, p), UNCHANGED shutOut,
         comparing' = IF phase[a] = "compare"
                      THEN IF p = "compare" THEN comparing ELSE comparing - 1
                      ELSE IF p = "compare" THEN comparing + 1 ELSE comparing,
         sleepers' = IF phase[a] \in {"delay", "asleep"}
                     THEN IF p \in {"delay", "asleep"} THEN sleepers ELSE sleepers - 1
                     ELSE IF p \in {"delay", "asleep"} THEN sleepers + 1 ELSE sleepers
  PROVE  GateInv'
<1>1. /\ a \in Comparing <=> phase[a] = "compare"
      /\ a \in Sleeping <=> phase[a] \in {"delay", "asleep"}
  BY DEF Comparing, Sleeping, In
<1>2. IsFiniteSet(Comparing') /\ comparing' = Cardinality(Comparing')
  <2>1. IsFiniteSet(Comparing) /\ comparing = Cardinality(Comparing)
    BY DEF GateInv
  <2>2. Comparing' \ {a} = Comparing \ {a} /\ (a \in Comparing' <=> p = "compare")
    BY Moved
  <2> QED
    BY <1>1, <2>1, <2>2, Counted
<1>3. IsFiniteSet(Sleeping') /\ sleepers' = Cardinality(Sleeping')
  <2>1. IsFiniteSet(Sleeping) /\ sleepers = Cardinality(Sleeping)
    BY DEF GateInv
  <2>2. Sleeping' \ {a} = Sleeping \ {a} /\ (a \in Sleeping' <=> p \in {"delay", "asleep"})
    BY Moved
  <2> QED
    BY <1>1, <2>1, <2>2, Counted
<1> QED
  BY <1>2, <1>3, Moved DEF GateInv

\* A step that moves nobody.
LEMMA StillKeeps ==
  ASSUME GateInv, UNCHANGED <<phase, comparing, sleepers, shutOut>> PROVE GateInv'
  BY DEF GateInv, Comparing, Sleeping, In

LEMMA GateInitInv == GateInit => GateInv
<1> SUFFICES ASSUME GateInit PROVE GateInv
  OBVIOUS
<1>1. Comparing = {} /\ Sleeping = {} /\ phase \in [Attempts -> Phases]
  BY DEF GateInit, Comparing, Sleeping, In, Phases
<1> QED
  BY <1>1, FS_EmptySet DEF GateInit, GateInv

LEMMA GateNextInv == GateInv /\ [GateNext]_gateVars => GateInv'
<1> SUFFICES ASSUME GateInv, [GateNext]_gateVars PROVE GateInv'
  OBVIOUS
<1> USE DEF pools, streak
<1>1. ASSUME NEW a \in Attempts, Post(a) PROVE GateInv'
  <2>1. CASE comparing < HashSlots
    <3>1. To(a, "compare") /\ comparing' = comparing + 1 /\ UNCHANGED <<sleepers, shutOut>>
      BY <1>1, <2>1 DEF Post
    <3> QED
      BY <1>1, <3>1, MoveKeeps DEF Post, Phases
  \* refused: the pool is full of comparisons
  <2>2. CASE ~(comparing < HashSlots)
    <3>1. UNCHANGED <<phase, comparing, sleepers>>
      BY <1>1, <2>2 DEF Post
    <3>2. ~(Cardinality(In("compare")) < HashSlots)
      BY <2>2 DEF GateInv, Comparing
    <3>3. shutOut' = FALSE
      BY <1>1, <2>2, <3>2, Zenon DEF Post, GateInv
    <3> QED
      BY <3>1, <3>3, StillKeeps DEF GateInv
  <2> QED
    BY <2>1, <2>2
<1>2. ASSUME NEW a \in Attempts, Compared(a) PROVE GateInv'
  BY <1>2, MoveKeeps DEF Compared, Phases
<1>3. ASSUME NEW a \in Attempts, RecordSuccess(a) PROVE GateInv'
  BY <1>3, MoveKeeps DEF RecordSuccess, Phases
<1>4. ASSUME NEW a \in Attempts, RecordFailure(a) PROVE GateInv'
  BY <1>4, MoveKeeps DEF RecordFailure, Phases
<1>5. ASSUME NEW a \in Attempts, TakeSlot(a) PROVE GateInv'
  BY <1>5, MoveKeeps DEF TakeSlot, Phases
<1>6. ASSUME NEW a \in Attempts, Delay(a) PROVE GateInv'
  BY <1>6, MoveKeeps DEF Delay, Phases
<1>7. ASSUME NEW a \in Attempts, Wake(a) PROVE GateInv'
  BY <1>7, MoveKeeps DEF Wake, Phases
<1>8. CASE GateTick
  BY <1>8, StillKeeps DEF GateTick
<1>9. CASE UNCHANGED gateVars
  BY <1>9, StillKeeps DEF gateVars
<1> QED
  BY <1>1, <1>2, <1>3, <1>4, <1>5, <1>6, <1>7, <1>8, <1>9 DEF GateNext

\* A login attempt is refused only while as many passwords are being compared as
\* the gate allows, however many failed ones are asleep (POST /api/gate).
THEOREM SleepersBlockNobody == GateSpec => []OwnerGetsIn
<1>1. GateInv => OwnerGetsIn
  BY DEF GateInv, OwnerGetsIn, Comparing, Sleeping
<1> QED
  BY <1>1, GateInitInv, GateNextInv, PTL DEF GateSpec

-----------------------------------------------------------------------------
(***************************************************************************)
(* Fewer clients than globalMultiplier cannot use up the ceiling, for any  *)
(* limits and any table with room for them.  The ceiling never lacks more  *)
(* parts than the clients have spent and not yet regained, counted as      *)
(* pairs of a client and a part: a request that passes adds as many pairs  *)
(* as it takes from the ceiling, and a tick, which gives the ceiling       *)
(* Multiplier parts, takes one pair at most from each of the few.          *)
(***************************************************************************)

\* The parts the clients K have spent and not yet regained.
Owed(tk, K) == {p \in K \X (1..Full) : p[2] > tk[p[1]]}

LimInv ==
  /\ IsFiniteSet(known) /\ known \subseteq Sources /\ table \subseteq known
  /\ tokens \in [Sources -> 0..Full]
  /\ ceiling \in 0..(Multiplier * Full)
  /\ Cardinality(known) <= Multiplier =>
       /\ table = known
       /\ \A s \in Sources \ known : tokens[s] = Full
       /\ Multiplier * Full - ceiling <= Cardinality(Owed(tokens, known))
  /\ FewNeverStarve

LEMMA RoundUp ==
  ASSUME NEW a \in Nat, NEW r \in Nat \ {0}
  PROVE  /\ (a + r - 1) \div r \in Int
         /\ ((a + r - 1) \div r) * r >= a
  OBVIOUS

LEMMA Sizes ==
  /\ Full \in Nat /\ Full >= Parts /\ Multiplier * Full \in Nat
  BY LimiterAssumption DEF Full

LEMMA Pairs ==
  ASSUME NEW K, IsFiniteSet(K), NEW tk
  PROVE  /\ IsFiniteSet(Owed(tk, K)) /\ Cardinality(Owed(tk, K)) \in Nat
         /\ Cardinality(K) \in Nat
         /\ Cardinality(Owed(tk, K)) <= Cardinality(K) * Full
<1>0. IsFiniteSet(1..Full) /\ Cardinality(1..Full) = Full
  BY Sizes, FS_Interval
<1>1. /\ IsFiniteSet(K \X (1..Full))
      /\ Cardinality(K \X (1..Full)) = Cardinality(K) * Full
  BY <1>0, FS_Product
<1> QED BY <1>1, FS_Subset, FS_CardinalityType DEF Owed

\* Time gives each client back at most one part.
LEMMA TimeReturns ==
  ASSUME NEW K, IsFiniteSet(K), K \subseteq Sources, NEW tk \in [Sources -> 0..Full],
         NEW new, new = [s \in Sources |-> Least(tk[s] + 1, Full)]
  PROVE  Cardinality(Owed(tk, K)) <= Cardinality(Owed(new, K)) + Cardinality(K)
<1> DEFINE Lost == Owed(tk, K) \ Owed(new, K)
           f == [p \in Lost |-> p[1]]
<1>1. \A p \in Lost : p = <<p[1], tk[p[1]] + 1>> /\ p[1] \in K
  <2> TAKE p \in Lost
  <2>1. /\ p = <<p[1], p[2]>> /\ p[1] \in K /\ p[2] \in 1..Full /\ p[2] > tk[p[1]]
        /\ ~ (p[2] > new[p[1]])
    BY DEF Owed
  <2>2. tk[p[1]] \in 0..Full /\ new[p[1]] = Least(tk[p[1]] + 1, Full)
    BY <2>1
  <2>3. p[2] = tk[p[1]] + 1
    BY <2>1, <2>2, Sizes DEF Least
  <2> QED BY <2>1, <2>3
<1>2. f \in Injection(Lost, K)
  <2>1. f \in [Lost -> K]
    BY <1>1
  <2>2. \A a, b \in Lost : f[a] = f[b] => a = b
    BY <1>1
  <2> QED BY <2>1, <2>2, Zenon DEF Injection, IsInjective
<1>3. IsFiniteSet(Lost) /\ Cardinality(Lost) <= Cardinality(K)
  <2> HIDE DEF f, Lost
  <2> QED BY <1>2, FS_Injection
<1>4. /\ IsFiniteSet(Owed(new, K)) /\ Cardinality(Owed(new, K)) \in Nat
      /\ Cardinality(Owed(tk, K)) \in Nat /\ Cardinality(K) \in Nat
  BY Pairs
<1>5. /\ IsFiniteSet(Owed(new, K) \cup Lost)
      /\ Cardinality(Owed(new, K) \cup Lost)
           = Cardinality(Owed(new, K)) + Cardinality(Lost) - Cardinality(Owed(new, K) \cap Lost)
  BY <1>3, <1>4, FS_Union
<1>6. Cardinality(Owed(tk, K)) <= Cardinality(Owed(new, K) \cup Lost)
  <2>1. Owed(tk, K) \subseteq Owed(new, K) \cup Lost
    OBVIOUS
  <2> QED BY <2>1, <1>5, FS_Subset
<1>7. Owed(new, K) \cap Lost = {}
  OBVIOUS
<1>8. Cardinality(Owed(new, K) \cap Lost) = 0 /\ Cardinality(Lost) \in Nat
  BY <1>7, <1>3, FS_EmptySet, FS_CardinalityType
<1> HIDE DEF Lost
<1> QED BY <1>3, <1>4, <1>5, <1>6, <1>8

\* A token spent is Parts parts owed more.
LEMMA SpendingOwes ==
  ASSUME NEW K, IsFiniteSet(K), K \subseteq Sources, NEW tk \in [Sources -> 0..Full],
         NEW s \in K, tk[s] >= Parts
  PROVE  Cardinality(Owed([tk EXCEPT ![s] = @ - Parts], K)) >= Cardinality(Owed(tk, K)) + Parts
<1> DEFINE new == [tk EXCEPT ![s] = @ - Parts]
           Extra == {s} \X ((tk[s] - Parts + 1)..tk[s])
<1>0. s \in Sources /\ tk[s] \in 0..Full /\ Parts \in Nat \ {0} /\ Full \in Nat
  BY Sizes, LimiterAssumption
<1>1. /\ IsFiniteSet((tk[s] - Parts + 1)..tk[s])
      /\ Cardinality((tk[s] - Parts + 1)..tk[s]) = Parts
  <2>1. tk[s] - Parts + 1 \in Int /\ tk[s] \in Int /\ ~ (tk[s] - Parts + 1 > tk[s])
    BY <1>0
  <2>2. /\ IsFiniteSet((tk[s] - Parts + 1)..tk[s])
        /\ Cardinality((tk[s] - Parts + 1)..tk[s]) = tk[s] - (tk[s] - Parts + 1) + 1
    BY <2>1, FS_Interval
  <2> QED BY <1>0, <2>2
<1>2. IsFiniteSet({s}) /\ Cardinality({s}) = 1
  BY FS_Singleton
<1>3. IsFiniteSet(Extra) /\ Cardinality(Extra) = Parts
  <2>1. IsFiniteSet(Extra) /\ Cardinality(Extra) = 1 * Parts
    <3> DEFINE Span == (tk[s] - Parts + 1)..tk[s]
    <3>1. IsFiniteSet(Span) /\ Cardinality(Span) = Parts
      BY <1>1
    <3> HIDE DEF Span
    <3>2. IsFiniteSet({s} \X Span) /\ Cardinality({s} \X Span) = 1 * Parts
      BY <1>2, <3>1, FS_Product
    <3> QED BY <3>2 DEF Span
  <2> QED BY <2>1, <1>0
<1>4. \A p \in Extra : p = <<s, p[2]>> /\ p[1] = s /\ p[2] \in (tk[s] - Parts + 1)..tk[s]
  OBVIOUS
<1>5. Extra \subseteq Owed(new, K)
  BY <1>0, <1>4 DEF Owed
<1>6. Extra \cap Owed(tk, K) = {}
  BY <1>0, <1>4 DEF Owed
<1>7. Owed(tk, K) \subseteq Owed(new, K)
  <2>1. \A x \in K : new[x] \in Int /\ tk[x] \in Int /\ new[x] <= tk[x]
    BY <1>0
  <2> HIDE DEF new
  <2> QED BY <2>1, Sizes DEF Owed
<1>8. /\ IsFiniteSet(Owed(tk, K)) /\ Cardinality(Owed(tk, K)) \in Nat
      /\ IsFiniteSet(Owed(new, K)) /\ Cardinality(Owed(new, K)) \in Nat
  BY Pairs
<1>9. Cardinality(Extra \cup Owed(tk, K))
        = Cardinality(Extra) + Cardinality(Owed(tk, K)) - Cardinality(Extra \cap Owed(tk, K))
  BY <1>3, <1>8, FS_Union
<1>10. Cardinality(Extra \cup Owed(tk, K)) <= Cardinality(Owed(new, K))
  <2>1. Extra \cup Owed(tk, K) \subseteq Owed(new, K)
    BY <1>5, <1>7
  <2> QED BY <2>1, <1>8, FS_Subset
<1>11. Cardinality(Extra \cap Owed(tk, K)) = 0
  BY <1>6, FS_EmptySet
<1> HIDE DEF Extra, new
<1>12. Cardinality(Owed(new, K)) >= Cardinality(Owed(tk, K)) + Parts
  BY <1>0, <1>3, <1>8, <1>9, <1>10, <1>11
<1> QED BY <1>12 DEF new

LEMMA Scales ==
  ASSUME NEW m \in Nat, NEW n \in Nat, m <= n, NEW k \in Nat
  PROVE  m * k <= n * k
  OBVIOUS

\* A client with a token to spend leaves the ceiling one, while they are few.
LEMMA RoomForAll ==
  ASSUME NEW K, IsFiniteSet(K), K \subseteq Sources, NEW tk \in [Sources -> 0..Full],
         NEW s \in K, tk[s] >= Parts, Cardinality(K) <= Multiplier
  PROVE  Cardinality(Owed(tk, K)) + Parts <= Multiplier * Full
<1> DEFINE new == [tk EXCEPT ![s] = @ - Parts]
<1>1. Cardinality(Owed(new, K)) >= Cardinality(Owed(tk, K)) + Parts
  BY SpendingOwes
<1>2. /\ Cardinality(Owed(new, K)) \in Nat /\ Cardinality(Owed(tk, K)) \in Nat
      /\ Cardinality(K) \in Nat
      /\ Cardinality(Owed(new, K)) <= Cardinality(K) * Full
  BY Pairs
<1>3. Cardinality(K) * Full <= Multiplier * Full
  BY <1>2, Scales, Sizes, LimiterAssumption
<1>4. Multiplier * Full \in Nat /\ Cardinality(K) * Full \in Nat /\ Parts \in Nat
  BY <1>2, Sizes, LimiterAssumption
<1> HIDE DEF new
<1> QED BY <1>1, <1>2, <1>3, <1>4

\* A new client owes nothing.
LEMMA NewcomerOwesNothing ==
  ASSUME NEW K, K \subseteq Sources, NEW tk \in [Sources -> 0..Full],
         NEW s \in Sources, s \in K \/ tk[s] = Full
  PROVE  Owed(tk, K \cup {s}) = Owed(tk, K)
  BY Sizes DEF Owed

LEMMA LimInitInv == LimiterInit => LimInv
<1> SUFFICES ASSUME LimiterInit PROVE LimInv
  OBVIOUS
<1>1. IsFiniteSet(known) /\ known \subseteq Sources /\ table \subseteq known
  BY FS_EmptySet DEF LimiterInit
<1>2. tokens \in [Sources -> 0..Full] /\ ceiling \in 0..(Multiplier * Full)
  BY Sizes DEF LimiterInit
<1>3. table = known /\ \A s \in Sources \ known : tokens[s] = Full
  BY DEF LimiterInit
<1>4. Multiplier * Full - ceiling <= Cardinality(Owed(tokens, known))
  BY <1>1, Pairs, Sizes DEF LimiterInit
<1>5. FewNeverStarve
  BY DEF LimiterInit, FewNeverStarve
<1> QED BY <1>1, <1>2, <1>3, <1>4, <1>5 DEF LimInv

LEMMA TickKeeps == ASSUME LimInv, LimiterTick PROVE LimInv'
<1> USE DEF LimInv, LimiterTick
<1>1. (IsFiniteSet(known) /\ known \subseteq Sources /\ table \subseteq known)'
  OBVIOUS
<1>2. \A s \in Sources : tokens[s] \in 0..Full
  OBVIOUS
<1>3. tokens' \in [Sources -> 0..Full]
  BY <1>2, Sizes DEF Least
<1>4. ceiling' \in 0..(Multiplier * Full)
  <2>1. Multiplier * Full \in Nat /\ Multiplier \in Nat /\ ceiling \in 0..(Multiplier * Full)
    BY Sizes, LimiterAssumption
  <2> QED BY <2>1 DEF Least
<1>5. ASSUME Cardinality(known') <= Multiplier
      PROVE  /\ table' = known'
             /\ \A s \in Sources \ known' : tokens'[s] = Full
             /\ Multiplier * Full - ceiling' <= Cardinality(Owed(tokens', known'))
  <2>1. /\ known' = known /\ table' = table /\ table = known
        /\ \A s \in Sources \ known : tokens[s] = Full
        /\ Multiplier * Full - ceiling <= Cardinality(Owed(tokens, known))
    BY <1>5
  <2>2. \A s \in Sources \ known' : tokens'[s] = Full
    BY <2>1, Sizes DEF Least
  <2>3. Cardinality(Owed(tokens, known)) <= Cardinality(Owed(tokens', known)) + Cardinality(known)
    BY TimeReturns
  <2>4. /\ Cardinality(known) \in Nat /\ Cardinality(Owed(tokens, known)) \in Nat
        /\ Cardinality(Owed(tokens', known)) \in Nat
    BY Pairs
  <2>5. /\ Multiplier * Full \in Nat /\ ceiling \in Int /\ Multiplier \in Nat
        /\ ceiling' = Least(ceiling + Multiplier, Multiplier * Full)
        /\ Cardinality(known) <= Multiplier
    BY <1>5, Sizes, LimiterAssumption
  <2>6. Multiplier * Full - ceiling' <= Cardinality(Owed(tokens', known))
    <3> HIDE DEF LimInv, LimiterTick
    <3> QED BY <2>1, <2>3, <2>4, <2>5 DEF Least
  <2> QED BY <2>1, <2>2, <2>6
<1>6. FewNeverStarve'
  BY DEF FewNeverStarve
<1> QED BY <1>1, <1>3, <1>4, <1>5, <1>6

\* While the clients are few, none is dropped from the table.
LEMMA FewAreKept ==
  ASSUME LimInv, NEW s \in Sources, NEW tabled \in Tabled(s)
  PROVE  /\ tabled \subseteq known \cup {s} /\ s \in tabled
         /\ IsFiniteSet(known \cup {s})
         /\ Buckets(tabled) \in [Sources -> 0..Full]
         /\ Cardinality(known \cup {s}) <= Multiplier =>
              /\ Cardinality(known) <= Multiplier
              /\ tabled = known \cup {s} /\ Buckets(tabled) = tokens
<1>1. tabled \subseteq known \cup {s} /\ s \in tabled
  BY DEF Tabled, LimInv
<1>2. IsFiniteSet(known \cup {s}) /\ IsFiniteSet(known)
      /\ Cardinality(known) \in Nat
      /\ Cardinality(known \cup {s}) = IF s \in known THEN Cardinality(known) ELSE Cardinality(known) + 1
  BY FS_AddElement, FS_CardinalityType DEF LimInv
<1>3. Buckets(tabled) \in [Sources -> 0..Full]
  BY Sizes DEF Buckets, LimInv
<1>4. ASSUME Cardinality(known \cup {s}) <= Multiplier
      PROVE  /\ Cardinality(known) <= Multiplier
             /\ tabled = known \cup {s} /\ Buckets(tabled) = tokens
  <2>1. Cardinality(known) <= Multiplier /\ Cardinality(known) \in Nat
        /\ (s \in known \/ Cardinality(known) < Multiplier)
    BY <1>2, <1>4, LimiterAssumption
  <2>2. table = known /\ \A x \in Sources \ known : tokens[x] = Full
    BY <2>1 DEF LimInv
  <2>3. s \in table \/ Cardinality(table) < MaxSources
    BY <2>1, <2>2, LimiterAssumption
  <2>4. tabled = known \cup {s}
    BY <2>2, <2>3 DEF Tabled
  <2>5. tokens \in [Sources -> 0..Full]
    BY DEF LimInv
  <2>6. \A x \in Sources : (IF x \in tabled THEN tokens[x] ELSE Full) = tokens[x]
    BY <2>2, <2>4
  <2>7. Buckets(tabled) = tokens
    BY <2>5, <2>6 DEF Buckets
  <2> QED BY <2>1, <2>4, <2>7
<1> QED BY <1>1, <1>2, <1>3, <1>4

LEMMA RequestKeeps == ASSUME LimInv, NEW s \in Sources, Request(s) PROVE LimInv'
<1> PICK tabled \in Tabled(s) : 
      LET have == Buckets(tabled)
          spent == [have EXCEPT ![s] = @ - Parts] IN
      /\ table' = tabled /\ known' = known \cup {s}
      /\ \/ /\ have[s] < Parts
            /\ tokens' = have /\ ceiling' = ceiling
            /\ Deny(s, "source", Wait(have[s], 1))
         \/ /\ have[s] >= Parts /\ ceiling < Parts
            /\ tokens' = spent /\ ceiling' = ceiling
            /\ Deny(s, "ceiling", Wait(ceiling, Multiplier))
         \/ /\ have[s] >= Parts /\ ceiling >= Parts
            /\ tokens' = spent /\ ceiling' = ceiling - Parts
            /\ refusal' = Nobody
  BY Zenon DEF Request
<1> DEFINE have == Buckets(tabled)
           spent == [have EXCEPT ![s] = @ - Parts]
           K == known \cup {s}
<1>1. table' = tabled /\ known' = K
  OBVIOUS
<1>2. \/ /\ have[s] < Parts
         /\ tokens' = have /\ ceiling' = ceiling
         /\ refusal' = [source |-> s, by |-> "source", wait |-> Wait(have[s], 1)]
      \/ /\ have[s] >= Parts /\ ceiling < Parts
         /\ tokens' = spent /\ ceiling' = ceiling
         /\ refusal' = [source |-> s, by |-> "ceiling", wait |-> Wait(ceiling, Multiplier)]
      \/ /\ have[s] >= Parts /\ ceiling >= Parts
         /\ tokens' = spent /\ ceiling' = ceiling - Parts
         /\ refusal' = Nobody
  BY Zenon DEF Deny
<1>3. /\ tabled \subseteq K /\ s \in tabled /\ IsFiniteSet(K)
      /\ have \in [Sources -> 0..Full] /\ K \subseteq Sources /\ s \in K
  BY FewAreKept DEF LimInv
<1>4. ASSUME Cardinality(K) <= Multiplier
      PROVE  /\ tabled = K /\ have = tokens
             /\ \A x \in Sources \ K : have[x] = Full
             /\ Multiplier * Full - ceiling <= Cardinality(Owed(have, K))
  <2>1. Cardinality(known) <= Multiplier /\ tabled = K /\ have = tokens
    BY <1>4, FewAreKept
  <2>2. /\ \A x \in Sources \ known : tokens[x] = Full
        /\ Multiplier * Full - ceiling <= Cardinality(Owed(tokens, known))
    BY <2>1 DEF LimInv
  <2>3. Owed(tokens, K) = Owed(tokens, known)
    BY <2>2, NewcomerOwesNothing DEF LimInv
  <2> QED BY <2>1, <2>2, <2>3
<1>5. /\ ceiling \in Nat /\ ceiling <= Multiplier * Full /\ Multiplier * Full \in Nat
      /\ Parts \in Nat \ {0} /\ Multiplier \in Nat \ {0} /\ Full \in Nat /\ have[s] \in 0..Full
  BY Sizes, LimiterAssumption, <1>3 DEF LimInv
<1>6. Cardinality(Owed(have, K)) \in Nat
  BY <1>3, Pairs
<1> HIDE DEF have, K
<1>7. spent \in [Sources -> 0..Full] \/ have[s] < Parts
  BY <1>3, <1>5
<1>8. CASE /\ have[s] < Parts
           /\ tokens' = have /\ ceiling' = ceiling
           /\ refusal' = [source |-> s, by |-> "source", wait |-> Wait(have[s], 1)]
  <2>1. FewNeverStarve'
    <3>1. Wait(have[s], 1) = Parts - have[s]
      BY <1>5 DEF Wait
    <3>2. refusal'.by = "source" /\ refusal'.source = s /\ refusal'.wait = Parts - have[s]
      BY <1>8, <3>1
    <3>3. /\ tokens'[refusal'.source] + refusal'.wait >= Parts
          /\ tokens'[refusal'.source] + refusal'.wait - 1 < Parts
      BY <1>5, <1>8, <3>2
    <3> QED BY <3>2, <3>3 DEF FewNeverStarve
  <2>2. tokens' \in [Sources -> 0..Full] /\ ceiling' \in 0..(Multiplier * Full)
    BY <1>3, <1>5, <1>8
  <2> QED BY <1>1, <1>3, <1>4, <1>8, <2>1, <2>2 DEF LimInv
<1>9. CASE /\ have[s] >= Parts /\ ceiling < Parts
           /\ tokens' = spent /\ ceiling' = ceiling
           /\ refusal' = [source |-> s, by |-> "ceiling", wait |-> Wait(ceiling, Multiplier)]
  <2>1. ~ (Cardinality(K) <= Multiplier)
    <3> SUFFICES ASSUME Cardinality(K) <= Multiplier PROVE FALSE
      OBVIOUS
    <3>1. Multiplier * Full - ceiling <= Cardinality(Owed(have, K))
      BY <1>4
    <3>2. Cardinality(Owed(have, K)) + Parts <= Multiplier * Full
      BY <1>3, <1>9, RoomForAll
    <3> QED BY <1>5, <1>6, <1>9, <3>1, <3>2
  <2>2. Cardinality(K) > Multiplier
    BY <1>3, <1>5, <2>1, FS_CardinalityType
  <2>3. FewNeverStarve'
    <3>1. refusal'.by = "ceiling" /\ refusal'.wait = Wait(ceiling, Multiplier)
      BY <1>9
    <3>2. Wait(ceiling, Multiplier) \in Int /\ Wait(ceiling, Multiplier) * Multiplier >= Parts - ceiling
      <4>1. Parts - ceiling \in Nat
        BY <1>5, <1>9
      <4> QED BY <1>5, <4>1, RoundUp DEF Wait
    <3>3. ceiling' + refusal'.wait * Multiplier >= Parts
      <4>1. Wait(ceiling, Multiplier) * Multiplier \in Int
        BY <3>2, <1>5
      <4> QED BY <1>5, <1>9, <3>1, <3>2, <4>1
    <3> QED BY <1>1, <2>2, <3>1, <3>3 DEF FewNeverStarve
  <2>4. tokens' \in [Sources -> 0..Full] /\ ceiling' \in 0..(Multiplier * Full)
    BY <1>5, <1>7, <1>9
  <2> QED BY <1>1, <1>3, <2>1, <2>3, <2>4 DEF LimInv
<1>10. CASE /\ have[s] >= Parts /\ ceiling >= Parts
            /\ tokens' = spent /\ ceiling' = ceiling - Parts
            /\ refusal' = Nobody
  <2>1. FewNeverStarve'
    BY <1>10 DEF FewNeverStarve
  <2>2. tokens' \in [Sources -> 0..Full] /\ ceiling' \in 0..(Multiplier * Full)
    BY <1>5, <1>7, <1>10
  <2>3. ASSUME Cardinality(K) <= Multiplier
        PROVE  /\ tabled = K
               /\ \A x \in Sources \ K : tokens'[x] = Full
               /\ Multiplier * Full - ceiling' <= Cardinality(Owed(tokens', K))
    <3>1. \A x \in Sources \ K : tokens'[x] = Full
      BY <1>3, <1>4, <1>10, <2>3
    <3>2. Cardinality(Owed(spent, K)) >= Cardinality(Owed(have, K)) + Parts
      BY <1>3, <1>10, SpendingOwes
    <3>3. Cardinality(Owed(spent, K)) \in Nat
      BY <1>3, Pairs
    <3>4. Multiplier * Full - (ceiling - Parts) <= Cardinality(Owed(spent, K))
      <4>1. Multiplier * Full - ceiling <= Cardinality(Owed(have, K))
        BY <1>4, <2>3
      <4> HIDE DEF spent
      <4> QED BY <1>5, <1>6, <3>2, <3>3, <4>1
    <3> QED BY <1>4, <1>10, <2>3, <3>1, <3>4
  <2> QED BY <1>1, <1>3, <2>1, <2>2, <2>3 DEF LimInv
<1> QED BY <1>2, <1>8, <1>9, <1>10

\* FewNeverStarve: of at most globalMultiplier clients none is refused by the
\* ceiling, and Retry-After is exact (take(), forSource(), allow()).
THEOREM FewAreServed == LimiterSpec => []FewNeverStarve
<1>1. LimInv /\ [LimiterNext]_limiterVars => LimInv'
  <2> SUFFICES ASSUME LimInv, [LimiterNext]_limiterVars PROVE LimInv'
    OBVIOUS
  <2>1. CASE LimiterTick
    BY <2>1, TickKeeps
  <2>2. CASE \E s \in Sources : Request(s)
    BY <2>2, RequestKeeps
  <2>3. CASE UNCHANGED limiterVars
    BY <2>3 DEF LimInv, FewNeverStarve, limiterVars, Owed
  <2> QED BY <2>1, <2>2, <2>3 DEF LimiterNext
<1>2. LimInv => FewNeverStarve
  BY DEF LimInv
<1> QED BY LimInitInv, <1>1, <1>2, PTL DEF LimiterSpec

-----------------------------------------------------------------------------
(***************************************************************************)
(* A verifier is handed out once and in time, and the store keeps its      *)
(* bound, for any flows, capacity and time to live.  A flow that was taken *)
(* is out of the store, and never comes back into it, because its id is    *)
(* not used again: what is in the store, or was taken, has been started.   *)
(***************************************************************************)

FlowInv ==
  /\ entries \subseteq started /\ taken \subseteq started /\ started \subseteq Flows
  /\ left \in [Flows -> Int]
  /\ taken \cap entries = {}
  /\ IsFiniteSet(entries) /\ Cardinality(entries) \in 0 .. MaxEntries
  /\ ~wrongly /\ ~relayed

LEMMA FlowInitInv == FlowInit => FlowInv
  BY FlowAssumption, FS_EmptySet DEF FlowInit, FlowInv

\* A part of the entries is a store within its bound.
LEMMA FewerEntries ==
  ASSUME FlowInv, NEW S, S \subseteq entries
  PROVE  IsFiniteSet(S) /\ Cardinality(S) \in 0 .. Cardinality(entries)
  BY FS_Subset, FS_CardinalityType DEF FlowInv

\* put: there is room for one more in what it keeps, and it keeps every live
\* flow unless the live ones fill the store.
LEMMA PutKeeps == ASSUME FlowInv, NEW f \in Flows, Put(f) PROVE FlowInv'
<1> PICK kept \in (IF Cardinality(Shed) < MaxEntries THEN {Shed}
                   ELSE {Shed \ {victim} : victim \in Shed}) :
      /\ entries' = kept \cup {f}
      /\ wrongly' = (wrongly \/ (~(Live \subseteq kept) /\ Cardinality(Live) < MaxEntries))
  BY DEF Put
<1>1. Shed = Live /\ Live \subseteq entries
  BY DEF Shed, Live
<1>2. IsFiniteSet(Live) /\ Cardinality(Live) \in 0 .. MaxEntries
  BY <1>1, FewerEntries, FlowAssumption DEF FlowInv
<1>3. /\ kept \subseteq entries /\ IsFiniteSet(kept)
      /\ Cardinality(kept) \in 0 .. MaxEntries - 1
      /\ ~(~(Live \subseteq kept) /\ Cardinality(Live) < MaxEntries)
  <2>1. CASE Cardinality(Shed) < MaxEntries
    BY <1>1, <1>2, <2>1, FlowAssumption
  <2>2. CASE ~(Cardinality(Shed) < MaxEntries)
    <3> PICK victim \in Live : kept = Live \ {victim}
      BY <1>1, <2>2
    <3>1. IsFiniteSet(kept) /\ Cardinality(kept) = Cardinality(Live) - 1
      BY <1>2, FS_RemoveElement
    <3> QED
      BY <1>1, <1>2, <2>2, <3>1, FlowAssumption
  <2> QED
    BY <2>1, <2>2
<1>4. f \notin kept /\ f \notin taken
  BY <1>3 DEF Put, FlowInv
<1>5. IsFiniteSet(entries') /\ Cardinality(entries') \in 0 .. MaxEntries
  <2>1. IsFiniteSet(kept \cup {f}) /\ Cardinality(kept \cup {f}) = Cardinality(kept) + 1
    BY <1>3, <1>4, FS_AddElement
  <2> QED
    BY <1>3, <2>1, FlowAssumption
<1>6. entries' \subseteq started' /\ taken' \subseteq started' /\ started' \subseteq Flows
  BY <1>3 DEF Put, FlowInv
<1>7. left' \in [Flows -> Int] /\ taken' \cap entries' = {}
  BY <1>3, <1>4, FlowAssumption DEF Put, FlowInv
<1>8. ~wrongly' /\ ~relayed'
  BY <1>3 DEF Put, FlowInv
<1> QED
  BY <1>5, <1>6, <1>7, <1>8 DEF FlowInv

LEMMA FlowNextInv == FlowInv /\ [FlowNext]_flowVars => FlowInv'
<1> SUFFICES ASSUME FlowInv, [FlowNext]_flowVars PROVE FlowInv'
  OBVIOUS
<1>1. ASSUME NEW f \in Flows, Put(f) PROVE FlowInv'
  BY <1>1, PutKeeps
<1>2. ASSUME NEW f \in Flows, Relay(f) PROVE FlowInv'
  <2>1. entries' \subseteq entries /\ UNCHANGED <<left, started, taken, wrongly>>
    BY <1>2 DEF Relay
  <2>2. IsFiniteSet(entries') /\ Cardinality(entries') \in 0 .. MaxEntries
    BY <2>1, FewerEntries, FlowAssumption DEF FlowInv
  \* peek has dropped the flow if it is late, and one that was taken is not there
  <2>3. ~relayed'
    <3>1. f \in entries' => f \in Live
      BY <1>2 DEF Relay
    <3>2. f \in Live => left[f] >= 0 /\ f \in entries
      BY DEF Live
    <3>3. left[f] \in Int /\ ~relayed /\ taken \cap entries = {}
      BY DEF FlowInv
    <3>4. ~(f \in entries' /\ (left[f] < 0 \/ f \in taken))
      BY <3>1, <3>2, <3>3
    <3> QED
      BY <1>2, <3>3, <3>4, Zenon DEF Relay
  <2> QED
    BY <2>1, <2>2, <2>3 DEF FlowInv
<1>3. ASSUME NEW f \in Flows, Take(f) PROVE FlowInv'
  <2>1. entries' = entries \ {f} /\ f \in entries /\ UNCHANGED <<left, started, relayed>>
    BY <1>3 DEF Take
  <2>2. IsFiniteSet(entries') /\ Cardinality(entries') \in 0 .. MaxEntries
    BY <2>1, FewerEntries, FlowAssumption DEF FlowInv
  <2>3. taken' \subseteq started /\ taken' \cap entries' = {} /\ ~wrongly'
    BY <1>3, <2>1 DEF Take, FlowInv
  <2> QED
    BY <2>1, <2>2, <2>3 DEF FlowInv
<1>4. CASE FlowTick
  BY <1>4 DEF FlowTick, FlowInv
<1>5. CASE UNCHANGED flowVars
  BY <1>5 DEF flowVars, FlowInv
<1> QED
  BY <1>1, <1>2, <1>3, <1>4, <1>5 DEF FlowNext

\* No verifier is handed out twice or late, no leg is relayed for a flow that is
\* over, and put evicts a live flow only for want of room (pkceStore).
THEOREM VerifiersOnce == FlowSpec => []FlowsSingleUse
<1>1. FlowInv => FlowsSingleUse
  BY FlowAssumption DEF FlowInv, FlowsSingleUse
<1> QED
  BY <1>1, FlowInitInv, FlowNextInv, PTL DEF FlowSpec

-----------------------------------------------------------------------------
(***************************************************************************)
(* What is written to the .env files is read from them, for any keys, any  *)
(* groups of them and any number of candidates.  A group is written to the *)
(* first file with one of its keys, so no file before that one has any of  *)
(* them, and reads of each find the new value first; where there is none,  *)
(* no other file has them at all.                                          *)
(***************************************************************************)

EnvInv ==
  /\ files \in [Paths -> Contents \cup {Absent}]
  /\ expect \in [Keys -> Values \cup {Absent}]
  /\ EnvRoundTrip

\* Some candidates have a first one.
LEMMA FirstIsLeast ==
  ASSUME NEW S, S \subseteq Paths, S # {}
  PROVE  FirstOf(S) \in S /\ \A j \in S : FirstOf(S) <= j
<1>1. Paths \subseteq Nat
  BY EnvAssumption DEF Paths
<1>2. PICK i \in S : \A j \in S : ~(<<j, i>> \in OpToRel(<, Nat))
  BY <1>1, NatLessThanWellFounded, WFMin, Zenon
<1>3. \A j \in S : ~(j < i)
  BY <1>1, <1>2, Zenon DEF OpToRel
<1>4. \A j \in S : i <= j
  BY <1>1, <1>3
<1> QED
  BY <1>4 DEF FirstOf

\* The candidate nobody is ahead of is the first.
LEMMA FirstIsUnique ==
  ASSUME NEW S, S \subseteq Paths, NEW i \in S, \A j \in S : i <= j
  PROVE  FirstOf(S) = i
<1>1. FirstOf(S) \in S /\ FirstOf(S) <= i
  BY FirstIsLeast
<1>2. i <= FirstOf(S)
  BY <1>1, Zenon
<1>3. S \subseteq Int
  BY EnvAssumption DEF Paths
<1>4. i \in Int /\ FirstOf(S) \in Int
  BY <1>1, <1>3, Zenon
<1> DEFINE first == FirstOf(S)
<1> HIDE DEF first
<1>5. first <= i /\ i <= first /\ first \in Int /\ i \in Int
  BY <1>1, <1>2, <1>4 DEF first
<1>6. first = i
  BY <1>5
<1> QED
  BY <1>6 DEF first

\* envFileForWrite: a candidate, and none before it has any of the keys.
LEMMA WriteFile ==
  ASSUME NEW keys, keys \subseteq Keys
  PROVE  /\ FileForWrite(keys) \in Paths
         /\ \A j \in Paths : j < FileForWrite(keys) => j \notin Holding(files, keys)
         /\ Holding(files, keys) # {} => FileForWrite(keys) \in Holding(files, keys)
<1>1. Holding(files, keys) \subseteq Paths /\ Existing(files) \subseteq Paths
  BY DEF Holding, Existing
<1>2. CASE Holding(files, keys) # {}
  <2>1. FileForWrite(keys) = FirstOf(Holding(files, keys))
    BY <1>2 DEF FileForWrite
  <2> QED
    BY <1>1, <1>2, <2>1, FirstIsLeast, EnvAssumption DEF Paths
<1>3. CASE Holding(files, keys) = {}
  <2>1. FileForWrite(keys) \in Paths
    <3>1. CASE Existing(files) # {}
      BY <1>1, <1>3, <3>1, FirstIsLeast DEF FileForWrite
    <3>2. CASE Existing(files) = {}
      BY <1>3, <3>2, EnvAssumption DEF FileForWrite, Paths
    <3> QED
      BY <3>1, <3>2
  <2> QED
    BY <1>3, <2>1
<1> QED
  BY <1>2, <1>3

\* Which candidates hold a key, told without the set of the existing ones.
LEMMA HoldingKey ==
  ASSUME NEW fs, NEW k
  PROVE  Holding(fs, {k}) = {i \in Paths : fs[i] # Absent /\ fs[i][k] # Absent}
  BY DEF Holding, Existing

\* A write, read back key by key.
LEMMA UpdateKeeps ==
  ASSUME EnvInv, NEW keys \in Groups, NEW to \in Values, Update(keys, to)
  PROVE  EnvInv'
<1> DEFINE path == FileForWrite(keys)
           old == IF files[path] = Absent THEN [k \in Keys |-> Absent] ELSE files[path]
           new == [k \in Keys |-> IF k \in keys THEN to ELSE old[k]]
<1>1. path \in Paths /\ keys \subseteq Keys /\ Paths \subseteq Int
  BY WriteFile, EnvAssumption DEF Paths
<1>2. old \in Contents
  <2>1. CASE files[path] = Absent
    BY <2>1 DEF Contents
  <2>2. CASE files[path] # Absent
    BY <1>1, <2>2 DEF EnvInv
  <2> QED
    BY <2>1, <2>2
<1>3. new \in Contents
  BY <1>2 DEF Contents
<1>4. files' = [files EXCEPT ![path] = new]
  BY DEF Update
<1>5. files' \in [Paths -> Contents \cup {Absent}]
  BY <1>3, <1>4 DEF EnvInv
<1>6. expect' \in [Keys -> Values \cup {Absent}]
  BY DEF Update, EnvInv
<1>7. /\ files'[path] = new /\ new # Absent
      /\ \A j \in Paths : j # path => files'[j] = files[j]
  BY <1>1, <1>3, <1>4, EnvAssumption DEF EnvInv, Contents
<1>8. ASSUME NEW k \in Keys PROVE ReadFiles(files', k) = expect'[k]
  <2> HIDE DEF path, old, new
  <2> DEFINE H == Holding(files, {k})
             G == Holding(files', {k})
  <2>1. /\ H = {i \in Paths : files[i] # Absent /\ files[i][k] # Absent}
        /\ G = {i \in Paths : files'[i] # Absent /\ files'[i][k] # Absent}
    BY DEF Holding, Existing
  <2> HIDE DEF H, G
  <2>2. ReadFiles(files, k) = expect[k]
    BY DEF EnvInv, EnvRoundTrip
  \* a key of the group: the file written to is the first that has it
  <2>3. CASE k \in keys
    <3>1. new[k] = to /\ to # Absent /\ expect'[k] = to
      BY <2>3, EnvAssumption DEF new, Update, EnvInv
    <3>2. path \in G
      BY <1>1, <1>7, <2>1, <3>1
    <3>3. ASSUME NEW j \in G PROVE path <= j
      <4>1. SUFFICES ASSUME j < path PROVE FALSE
        BY <1>1, <2>1
      <4>2. j \in Paths /\ j # path
        BY <1>1, <2>1, <4>1
      <4>3. files[j] # Absent /\ files[j][k] # Absent
        BY <1>7, <2>1, <4>2
      <4>4. j \in Holding(files, keys)
        BY <2>3, <4>2, <4>3 DEF Holding, Existing
      <4> QED
        BY <1>1, <4>1, <4>2, <4>4, WriteFile DEF path
    <3>4. FirstOf(G) = path
      BY <2>1, <3>2, <3>3, FirstIsUnique
    <3> QED
      BY <1>7, <3>1, <3>2, <3>4 DEF ReadFiles, G
  \* any other key: the same files have it as before, with the value they had
  <2>4. CASE k \notin keys
    <3>1. new[k] = old[k] /\ expect'[k] = expect[k]
      BY <2>4 DEF new, Update, EnvInv
    <3>2. /\ files[path] = Absent => old[k] = Absent
          /\ files[path] # Absent => old[k] = files[path][k]
      BY DEF old
    <3>3. G = H
      BY <1>7, <2>1, <3>1, <3>2
    <3>4. ASSUME NEW j \in H PROVE files'[j][k] = files[j][k]
      BY <1>7, <2>1, <3>1, <3>2
    <3>5. H # {} => FirstOf(H) \in H
      BY <2>1, FirstIsLeast
    <3> QED
      BY <2>2, <3>1, <3>3, <3>4, <3>5 DEF ReadFiles, H, G
  <2> QED
    BY <2>3, <2>4
<1> QED
  BY <1>5, <1>6, <1>8 DEF EnvInv, EnvRoundTrip

LEMMA EnvInitInv == EnvInit => EnvInv
<1> SUFFICES ASSUME EnvInit PROVE EnvInv
  OBVIOUS
<1>1. files \in [Paths -> Contents \cup {Absent}]
  BY DEF EnvInit
<1>2. ASSUME NEW k \in Keys PROVE ReadFiles(files, k) \in Values \cup {Absent}
  <2>1. CASE Holding(files, {k}) = {}
    BY <2>1 DEF ReadFiles
  <2>2. CASE Holding(files, {k}) # {}
    <3>1. FirstOf(Holding(files, {k})) \in Holding(files, {k})
      BY <2>2, FirstIsLeast DEF Holding, Existing
    <3>2. /\ FirstOf(Holding(files, {k})) \in Paths
          /\ files[FirstOf(Holding(files, {k}))] # Absent
      BY <3>1, HoldingKey
    <3> QED
      BY <1>1, <2>2, <3>2 DEF ReadFiles, Contents
  <2> QED
    BY <2>1, <2>2
<1>3. expect = [k \in Keys |-> ReadFiles(files, k)]
  BY DEF EnvInit
<1> QED
  BY <1>1, <1>2, <1>3 DEF EnvInv, EnvRoundTrip

\* Whatever is written is what the next boot reads, and nothing else changes
\* (envFileForWrite, UpdateEnvFile, readEnvKeyFrom).
THEOREM WritesAreRead == EnvSpec => []EnvRoundTrip
<1>1. EnvInv /\ [EnvNext]_envVars => EnvInv'
  <2> SUFFICES ASSUME EnvInv, [EnvNext]_envVars PROVE EnvInv'
    OBVIOUS
  <2>1. CASE EnvNext
    BY <2>1, UpdateKeeps DEF EnvNext
  <2>2. CASE UNCHANGED envVars
    BY <2>2 DEF envVars, EnvInv, EnvRoundTrip, ReadFiles, Holding, Existing
  <2> QED
    BY <2>1, <2>2
<1>2. EnvInv => EnvRoundTrip
  BY DEF EnvInv
<1> QED
  BY <1>1, <1>2, EnvInitInv, PTL DEF EnvSpec

-----------------------------------------------------------------------------
(***************************************************************************)
(* No write finds the preferences database closed, whichever way run ends, *)
(* for any requests.  The database is closed after a drain only, and once  *)
(* drained nothing is in flight nor ever will be: run has left "serving",  *)
(* the one place where requests are accepted, and never returns there.     *)
(***************************************************************************)

\* "drained" is set when nothing is in flight, and run is on its way out.
DrainedOK == drained => at \in {"returning", "exited"} /\ InFlight = {}
\* The reaper runs from NewClient on, and is stopped before all else.
ReaperOK ==
  /\ reaper \in {"none", "running", "stopped"}
  /\ at = "exited" => reaper # "running"
  /\ at = "client" => reaper = "none"
  /\ at \in {"prefs", "config", "serving", "draining"} => reaper = "running"
\* The database is closed by nobody but the cleanup.
PrefsOK ==
  /\ prefs \in {"none", "open", "closed"}
  /\ prefs = "closed" => drained /\ reaper = "stopped"
  /\ at = "exited" /\ drained /\ prefs # "none" => prefs = "closed"
TypesOK ==
  /\ at \in {"client", "prefs", "config", "serving", "draining", "returning", "exited"}
  /\ handler \in [Handlers -> {"none", "running", "done"}]
  /\ drained \in BOOLEAN /\ failed = FALSE

ServerInv == TypesOK /\ DrainedOK /\ ReaperOK /\ PrefsOK

LEMMA ServerInitInv == ServerInit => ServerInv
  BY DEF ServerInit, ServerInv, TypesOK, DrainedOK, ReaperOK, PrefsOK

\* Every step of run, and of a request beside it.
LEMMA ServerNextInv == ServerInv /\ [ServerNext]_serverVars => ServerInv'
<1> SUFFICES ASSUME ServerInv, [ServerNext]_serverVars PROVE ServerInv'
  OBVIOUS
<1> USE DEF ServerInv, TypesOK, DrainedOK, ReaperOK, PrefsOK, InFlight
<1>1. CASE ClientStep
  BY <1>1 DEF ClientStep
<1>2. CASE OpenPrefs
  BY <1>2 DEF OpenPrefs
<1>3. CASE ConfigStep
  BY <1>3 DEF ConfigStep
<1>4. CASE ListenFails
  BY <1>4 DEF ListenFails
<1>5. CASE Signal
  BY <1>5 DEF Signal
<1>6. CASE Drain
  BY <1>6 DEF Drain
<1>7. CASE StopReaper
  BY <1>7 DEF StopReaper
<1>8. CASE ClosePrefs
  BY <1>8 DEF ClosePrefs
<1>9. CASE Exit
  BY <1>9 DEF Exit
<1>10. ASSUME NEW h \in Handlers, Accept(h) PROVE ServerInv'
  BY <1>10 DEF Accept
\* a request that is running has kept the drain from being a clean one
<1>11. ASSUME NEW h \in Handlers, WritePref(h) PROVE ServerInv'
  BY <1>11 DEF WritePref
<1>12. CASE UNCHANGED serverVars
  BY <1>12 DEF serverVars
<1> QED
  BY <1>1, <1>2, <1>3, <1>4, <1>5, <1>6, <1>7, <1>8, <1>9, <1>10, <1>11, <1>12
  DEF ServerNext

\* No write of a preference finds the database closed (shutdownCleanup, run).
THEOREM WritesFindItOpen == ServerSpec => []NoWriteAfterClose
<1>1. ServerInv => NoWriteAfterClose
  BY DEF ServerInv, TypesOK, DrainedOK, ReaperOK, PrefsOK, NoWriteAfterClose
<1> QED
  BY <1>1, ServerInitInv, ServerNextInv, PTL DEF ServerSpec
==============================================================================
