---------------------------- MODULE BookmarkIdsProofs ----------------------------
(***************************************************************************)
(* One walk per pool, and no list of a replaced credential in the cache or *)
(* in the answer of a request that walked itself, for any requests, logins *)
(* and number of pages.                                                    *)
(*                                                                         *)
(* Credentials only get newer, and a reset that announces new ones counts  *)
(* the generation up.  So a walk whose generation still counts has read    *)
(* nothing older than what was announced, whichever page it is on; and any *)
(* walk, current or not, has read nothing older than what was announced    *)
(* when its request arrived.                                               *)
(***************************************************************************)
EXTENDS BookmarkIds, TLAPS

Walking == {"lead", "walk", "received"}

\* The locals c of a request that arrived when n had been announced.
GoodCall(c, n) ==
  \* the walk of this request, so far
  /\ c.pc # "walk" => c.page = 0
  /\ c.pc = "walk" =>
       /\ c.list \in Creds /\ c.list.web >= n.web
       /\ c.page > 0 => c.list.bearer >= n.bearer
  /\ c.pc \in {"received", "closing", "woken"} => c.list \in Creds \cup {Failed, Throttled}
  /\ c.pc \in {"received", "closing"} /\ c.list \in Creds => Covers(c.list, n)
  \* ... and what it is good for, while its generation counts
  /\ c.pc \in Walking => c.gen <= gen
  /\ c.pc = "walk" /\ c.gen = gen =>
       /\ c.list.web >= told.web
       /\ c.page > 0 => c.list.bearer >= told.bearer
  /\ c.pc = "received" /\ c.gen = gen /\ c.list \in Creds => Covers(c.list, told)
  \* what the handler has merged
  /\ c.key = "public" /\ c.pc # "done" => c.merged \in Creds
  /\ c.pc = "done" => c.merged \in Creds \cup {Failed}
  /\ c.merged \in Creds /\ ~c.joined => Covers(c.merged, n)

\* A walk is registered as long as it runs, under its own pool.
WalksOK ==
  /\ \A r \in Readers : call[r].pc \in Walking => inflight[call[r].key] = r
  /\ \A k \in Keys : inflight[k] # NoReader =>
       call[inflight[k]].pc \in Walking /\ call[inflight[k]].key = k
DatesOK == Covers(creds, told) /\ \A r \in Readers : Covers(told, need[r])
CallsOK == \A r \in Readers : GoodCall(call[r], need[r])
CacheOK == \A k \in Keys : items[k] # None => Covers(items[k], told)

IInv == TypeOK /\ WalksOK /\ DatesOK /\ CallsOK /\ CacheOK

-----------------------------------------------------------------------------
(* Requests.                                                               *)

LEMMA Zero == 0 \in 0 .. MaxPages - 1
  BY BookmarkIdsAssumption

LEMMA IdleInCall == Idle \in Call
  BY Zero DEF Idle, Call, Keys, PCs

LEMMA IdleIsGood == ASSUME TypeOK, NEW n PROVE Idle \in Call /\ GoodCall(Idle, n)
  BY BookmarkIdsAssumption, ResultsAreNotLists
  DEF TypeOK, Idle, Call, Keys, PCs, GoodCall, Walking

\* A step that changes the locals of one request, and leaves its walk, if it
\* has one, where it is registered.
LEMMA Locally ==
  ASSUME IInv, NEW r \in Readers, NEW c \in Call, Become(r, c),
         UNCHANGED <<cache, creds, login, told, need>>,
         c.pc \in Walking <=> call[r].pc \in Walking, c.key = call[r].key \/ c.pc \notin Walking,
         GoodCall(c, need[r])
  PROVE  IInv'
<1> USE DEF cache
<1>1. TypeOK'
  BY DEF IInv, TypeOK, Become
<1>2. call'[r] = c /\ \A q \in Readers : q # r => call'[q] = call[q]
  BY DEF IInv, TypeOK, Become
<1>3. WalksOK'
  BY <1>2 DEF IInv, TypeOK, WalksOK
<1>4. CallsOK'
  BY <1>2 DEF IInv, CallsOK, GoodCall
<1>5. DatesOK' /\ CacheOK'
  BY DEF IInv, DatesOK, CacheOK
<1> QED
  BY <1>1, <1>3, <1>4, <1>5 DEF IInv

\* What CachedBookmarkIDs returns, merged into what the handler has.
LEMMA GivenIsGood ==
  ASSUME IInv, NEW r \in Readers, NEW a \in Creds \cup {Failed, Throttled},
         NEW joined \in BOOLEAN, call[r].pc # "done",
         a \in Creds /\ ~joined => Covers(a, need[r])
  PROVE  /\ Given(r, a, joined) \in Call /\ GoodCall(Given(r, a, joined), need[r])
         /\ Given(r, a, joined).pc \notin Walking
<1> DEFINE c == call[r]
           j == c.joined \/ joined
<1>1. c \in Call /\ need[r] \in Creds /\ j \in BOOLEAN /\ Idle \in Call
  BY IdleIsGood DEF IInv, TypeOK, Call
<1>2. c.key \in Keys /\ (c.key = "public" => c.merged \in Creds)
      /\ (c.merged \in Creds /\ ~c.joined => Covers(c.merged, need[r]))
  BY <1>1 DEF IInv, CallsOK, GoodCall, Call
<1>3. CASE a \in {Failed, Throttled}
  <2>1. Given(r, a, joined) = [Idle EXCEPT !.pc = "done", !.merged = Failed, !.joined = j]
    BY <1>3 DEF Given
  <2> QED
    <3> DEFINE g == [Idle EXCEPT !.pc = "done", !.merged = Failed, !.joined = j]
    <3> HIDE DEF j
    <3>1. g \in Call /\ g.pc = "done" /\ g.key = "private" /\ g.merged = Failed /\ g.page = 0
      BY <1>1, Zero DEF Idle, Call, PCs, Keys
    <3>2. Failed \notin Creds
      BY ResultsAreNotLists
    <3> HIDE DEF g
    <3>3. GoodCall(g, need[r])
      BY <3>1, <3>2 DEF GoodCall, Walking
    <3> QED
      BY <2>1, <3>1, <3>3 DEF g, Walking
<1>4. CASE a \notin {Failed, Throttled} /\ c.key = "private"
  <2>1. Given(r, a, joined) =
          [Idle EXCEPT !.pc = "check", !.key = "public", !.merged = a, !.joined = j]
    BY <1>4 DEF Given
  <2> QED
    <3> DEFINE g == [Idle EXCEPT !.pc = "check", !.key = "public", !.merged = a, !.joined = j]
    <3>1. a \in Creds /\ (~j => Covers(a, need[r]))
      BY <1>4
    <3> HIDE DEF j
    <3>2. /\ g \in Call /\ g.pc = "check" /\ g.key = "public" /\ g.merged = a /\ g.joined = j
          /\ g.page = 0
      BY <1>1, <3>1, Zero DEF Idle, Call, PCs, Keys
    <3> HIDE DEF g
    <3>3. GoodCall(g, need[r])
      BY <3>1, <3>2 DEF GoodCall, Walking
    <3> QED
      BY <2>1, <3>2, <3>3 DEF g, Walking
<1>5. CASE a \notin {Failed, Throttled} /\ c.key # "private"
  <2>1. Given(r, a, joined) = [Idle EXCEPT !.pc = "done", !.key = "public",
                                           !.merged = Oldest(c.merged, a), !.joined = j]
    BY <1>5 DEF Given
  <2>2. c.merged \in Creds /\ a \in Creds
    BY <1>2, <1>5 DEF Keys
  <2>3. Oldest(c.merged, a) \in Creds
    BY <2>2 DEF Oldest, Lesser, Creds
  <2>4. ~j => Covers(Oldest(c.merged, a), need[r])
    BY <1>1, <1>2, <2>2 DEF Oldest, Lesser, Covers, Creds
  <2> DEFINE m == Oldest(c.merged, a)
             g == [Idle EXCEPT !.pc = "done", !.key = "public", !.merged = m, !.joined = j]
  <2> HIDE DEF m, j
  <2>5. /\ g \in Call /\ g.pc = "done" /\ g.key = "public" /\ g.merged = m /\ g.joined = j
        /\ g.page = 0
    BY <1>1, <2>3, Zero DEF m, Idle, Call, PCs, Keys
  <2> HIDE DEF g
  <2>6. GoodCall(g, need[r])
    BY <2>3, <2>4, <2>5 DEF m, GoodCall, Walking
  <2> QED
    BY <2>1, <2>5, <2>6 DEF g, m, Walking
<1> QED
  BY <1>3, <1>4, <1>5

LEMMA StepKeeps == ASSUME IInv, NEW r \in Readers, Begin(r) \/ Step(r) PROVE IInv'
<1> USE DEF cache
<1>0. /\ call[r] \in Call /\ need[r] \in Creds /\ told \in Creds /\ creds \in Creds
      /\ GoodCall(call[r], need[r]) /\ Covers(creds, told) /\ Covers(told, need[r])
  BY DEF IInv, TypeOK, CallsOK, DatesOK
<1>1. CASE Begin(r) \/ Leave(r)
  <2> PICK n \in Creds, c \in {Idle, [Idle EXCEPT !.pc = "check"]} :
        Become(r, c) /\ need' = [need EXCEPT ![r] = n] /\ Covers(told, n)
    <3>1. Boot \in Creds /\ Covers(told, Boot) /\ Covers(told, told)
      BY <1>0 DEF Boot, Covers, Creds
    <3> QED
      BY <1>0, <1>1, <3>1 DEF Begin, Leave
  <2>1. UNCHANGED <<cache, creds, login, told>> /\ call[r].pc \notin Walking
    BY <1>1 DEF Begin, Leave, Walking
  <2>2. c \in Call /\ c.pc \notin Walking /\ GoodCall(c, n)
    <3>1. CASE c = Idle
      BY <3>1, IdleIsGood DEF IInv, Idle, Walking
    <3>2. CASE c = [Idle EXCEPT !.pc = "check"]
      <4>1. c \in Call /\ c.pc = "check" /\ c.merged = None /\ c.key = "private" /\ c.page = 0
        BY <3>2, IdleInCall DEF Idle, Call, PCs
      <4> QED
        BY <4>1, ResultsAreNotLists DEF GoodCall, Walking
    <3> QED
      BY <3>1, <3>2
  <2>3. /\ call'[r] = c /\ need'[r] = n
        /\ \A q \in Readers : q # r => call'[q] = call[q] /\ need'[q] = need[q]
    BY DEF IInv, TypeOK, Become
  <2>4. TypeOK'
    BY <2>1, <2>2 DEF IInv, TypeOK, Become
  <2>5. WalksOK'
    BY <2>1, <2>2, <2>3 DEF IInv, TypeOK, WalksOK
  <2>6. CallsOK'
    BY <2>1, <2>2, <2>3 DEF IInv, CallsOK, GoodCall
  <2>7. DatesOK' /\ CacheOK'
    BY <2>1, <2>3 DEF IInv, DatesOK, CacheOK
  <2> QED
    BY <2>4, <2>5, <2>6, <2>7 DEF IInv
<1>2. CASE Cooling(r)
  <2> DEFINE g == Given(r, Failed, FALSE)
  <2>1. Failed \notin Creds
    BY ResultsAreNotLists
  <2>2. call[r].pc = "check" /\ Become(r, g) /\ UNCHANGED <<cache, creds, login, told, need>>
    BY <1>2 DEF Cooling
  <2>3. g \in Call /\ GoodCall(g, need[r]) /\ g.pc \notin Walking
    BY <2>1, <2>2, GivenIsGood
  <2> HIDE DEF g
  <2> QED
    BY <2>2, <2>3, Locally DEF Walking
<1>3. CASE Pass(r)
  <2> DEFINE c == [call[r] EXCEPT !.pc = "enter"]
  <2>1. c \in Call /\ c.pc = "enter" /\ GoodCall(c, need[r])
    BY <1>0, <1>3 DEF Pass, Call, PCs, GoodCall, Walking
  <2> QED
    BY <1>3, <2>1, Locally DEF Pass, Walking
\* the cache holds nothing older than what has been announced
<1>4. CASE Hit(r)
  <2> DEFINE a == items[call[r].key]
  <2>1. a \in Creds /\ Covers(a, told)
    BY <1>0, <1>4 DEF Hit, IInv, TypeOK, CacheOK, Call
  <2>2. Covers(a, need[r])
    BY <1>0, <2>1 DEF Covers, Creds
  <2> QED
    BY <1>4, <2>1, <2>2, GivenIsGood, Locally DEF Hit, Walking
<1>5. CASE Follow(r)
  <2> DEFINE c == [call[r] EXCEPT !.pc = "wait", !.ticket = inflight[call[r].key]]
  <2>1. inflight[call[r].key] \in Readers \cup {NoReader}
    BY <1>0 DEF IInv, TypeOK, Call
  <2>2. c \in Call /\ c.pc = "wait" /\ GoodCall(c, need[r])
    BY <1>0, <1>5, <2>1 DEF Follow, Call, PCs, GoodCall, Walking
  <2> QED
    BY <1>5, <2>2, Locally DEF Follow, Walking
<1>6. CASE Lead(r)
  <2> DEFINE c == [call[r] EXCEPT !.pc = "lead", !.gen = gen]
             k == call[r].key
  <2>1. gen \in Nat /\ k \in Keys
    BY <1>0 DEF IInv, TypeOK, Call
  <2>2. c \in Call /\ c.pc = "lead" /\ c.key = k /\ GoodCall(c, need[r])
    <3>1. c \in Call /\ c.pc = "lead" /\ c.key = k /\ c.gen = gen /\ c.page = call[r].page
          /\ c.merged = call[r].merged /\ c.joined = call[r].joined
      BY <1>0, <2>1 DEF Call, PCs
    <3>2. call[r].pc = "enter"
      BY <1>6 DEF Lead
    <3> HIDE DEF c
    <3> QED
      BY <1>0, <2>1, <3>1, <3>2 DEF GoodCall, Walking
  <2>3. call'[r] = c /\ \A q \in Readers : q # r => call'[q] = call[q]
    BY <1>6 DEF IInv, TypeOK, Lead, Become
  <2>4. TypeOK'
    BY <1>6, <2>1, <2>2 DEF IInv, TypeOK, Lead, Become
  <2>5. WalksOK'
    <3>1. inflight'[k] = r /\ \A m \in Keys : m # k => inflight'[m] = inflight[m]
      BY <1>6, <2>1 DEF IInv, TypeOK, Lead
    <3>2. inflight[k] = NoReader /\ call[r].pc \notin Walking /\ r # NoReader
      BY <1>6, BookmarkIdsAssumption DEF Lead, Walking
    <3>3. \A q \in Readers : call[q].pc \in Walking => call[q].key # k /\ call[q].key \in Keys
      BY <3>2, BookmarkIdsAssumption DEF IInv, TypeOK, WalksOK, Call
    <3>4. \A m \in Keys : inflight[m] # r
      BY <3>2 DEF IInv, WalksOK
    <3> HIDE DEF c
    <3>5. \A q \in Readers : call'[q].pc \in Walking => inflight'[call'[q].key] = q
      BY <2>2, <2>3, <3>1, <3>3 DEF IInv, WalksOK
    <3>6. \A m \in Keys : inflight'[m] # NoReader =>
            call'[inflight'[m]].pc \in Walking /\ call'[inflight'[m]].key = m
      <4> SUFFICES ASSUME NEW m \in Keys, inflight'[m] # NoReader
                   PROVE  call'[inflight'[m]].pc \in Walking /\ call'[inflight'[m]].key = m
        OBVIOUS
      <4>1. CASE m = k
        BY <2>2, <2>3, <3>1, <4>1 DEF Walking
      <4>2. CASE m # k
        <5>1. inflight'[m] = inflight[m] /\ inflight[m] # r
          BY <3>1, <3>4, <4>2
        <5>2. inflight[m] \in Readers /\ call[inflight[m]].pc \in Walking /\ call[inflight[m]].key = m
          BY <5>1 DEF IInv, TypeOK, WalksOK
        <5> QED
          BY <2>3, <5>1, <5>2
      <4> QED
        BY <4>1, <4>2
    <3> QED
      BY <3>5, <3>6 DEF WalksOK
  <2>6. CallsOK'
    <3> HIDE DEF c
    <3>1. \A q \in Readers : GoodCall(call'[q], need[q])
      BY <2>2, <2>3 DEF IInv, CallsOK
    <3> QED
      BY <1>6, <3>1 DEF Lead, CallsOK, GoodCall
  <2>7. DatesOK' /\ CacheOK'
    BY <1>6 DEF IInv, Lead, DatesOK, CacheOK
  <2> QED
    BY <2>4, <2>5, <2>6, <2>7 DEF IInv
\* the web session of this moment is no older than any announced
<1>7. CASE Start(r)
  <2> DEFINE c == [call[r] EXCEPT !.pc = "walk", !.list = [web |-> creds.web, bearer |-> 0]]
  <2>1. [web |-> creds.web, bearer |-> 0] \in Creds
    BY <1>0 DEF Creds
  <2>2. creds.web >= told.web /\ creds.web >= need[r].web
    BY <1>0 DEF Covers, Creds
  <2>3. c \in Call /\ c.pc = "walk" /\ c.key = call[r].key
    BY <1>0, <2>1 DEF Call, PCs
  <2>4. GoodCall(c, need[r])
    <3>1. /\ c.pc = "walk" /\ c.list = [web |-> creds.web, bearer |-> 0] /\ c.page = call[r].page
          /\ c.key = call[r].key /\ c.gen = call[r].gen /\ c.merged = call[r].merged
          /\ c.joined = call[r].joined
      BY <1>0 DEF Call
    <3>2. call[r].pc = "lead" /\ call[r].page = 0
      BY <1>0, <1>7 DEF Start, GoodCall
    <3> HIDE DEF c
    <3> QED
      BY <1>0, <2>1, <2>2, <3>1, <3>2 DEF GoodCall, Walking
  <2> QED
    BY <1>7, <2>3, <2>4, Locally DEF Start, Walking
\* nor is the bearer of the first page
<1>8. CASE Page(r)
  <2> PICK last \in BOOLEAN :
        /\ call[r].page + 1 = MaxPages => last
        /\ Become(r, [call[r] EXCEPT !.pc = IF last THEN "received" ELSE "walk",
             !.page = IF last THEN 0 ELSE @ + 1,
             !.list = IF call[r].page = 0 THEN [@ EXCEPT !.bearer = creds.bearer] ELSE @])
    BY <1>8 DEF Page
  <2> DEFINE list == IF call[r].page = 0 THEN [call[r].list EXCEPT !.bearer = creds.bearer]
                                         ELSE call[r].list
             page == IF last THEN 0 ELSE call[r].page + 1
             c == [call[r] EXCEPT !.pc = IF last THEN "received" ELSE "walk",
                                  !.page = page, !.list = list]
  <2>1. call[r].list \in Creds /\ call[r].pc = "walk"
    BY <1>0, <1>8 DEF Page, GoodCall
  <2>2. list \in Creds /\ Covers(list, need[r]) /\ (call[r].gen = gen => Covers(list, told))
    BY <1>0, <2>1 DEF GoodCall, Covers, Creds, Call
  <2>3. page \in 0 .. MaxPages - 1
    BY <1>0, BookmarkIdsAssumption DEF Call
  <2>4. Become(r, c)
    BY <1>0 DEF Call
  <2>5. c \in Call /\ c.pc \in Walking /\ c.key = call[r].key /\ c.list = list
    BY <1>0, <2>2, <2>3 DEF Call, PCs, Walking
  <2> HIDE DEF list, page
  <2>6. GoodCall(c, need[r])
    <3>1. /\ c.pc = (IF last THEN "received" ELSE "walk") /\ c.page = page
          /\ c.gen = call[r].gen /\ c.merged = call[r].merged /\ c.joined = call[r].joined
      BY <1>0 DEF Call
    <3>2. last => page = 0
      BY DEF page
    <3> HIDE DEF c
    <3> QED
      BY <1>0, <2>1, <2>2, <2>5, <3>1, <3>2 DEF GoodCall, Walking, Covers
  <2> HIDE DEF c
  <2> QED
    BY <1>8, <2>1, <2>4, <2>5, <2>6, Locally DEF Page, Walking
<1>9. CASE Fail(r)
  <2> PICK e \in {Failed, Throttled} :
        Become(r, [call[r] EXCEPT !.pc = "received", !.page = 0, !.list = e])
    BY <1>9 DEF Fail
  <2> DEFINE c == [call[r] EXCEPT !.pc = "received", !.page = 0, !.list = e]
  <2>1. c \in Call /\ c.pc = "received" /\ c.key = call[r].key
    BY <1>0, Zero DEF Call, PCs
  <2>2. GoodCall(c, need[r])
    BY <1>0, <1>9, ResultsAreNotLists DEF Fail, Call, GoodCall, Walking
  <2> QED
    BY <1>9, <2>1, <2>2, Locally DEF Fail, Walking
\* a list is stored while its generation counts, so it covers what is announced
<1>10. CASE Finish(r)
  <2> DEFINE c == [call[r] EXCEPT !.pc = "closing", !.gen = 0]
             k == call[r].key
  <2>1. k \in Keys /\ call[r].pc \in Walking /\ inflight[k] = r
    BY <1>0, <1>10 DEF Finish, Call, IInv, WalksOK, Walking
  <2>2. c \in Call /\ c.pc = "closing" /\ GoodCall(c, need[r])
    BY <1>0, <1>10 DEF Finish, Call, PCs, GoodCall, Walking
  <2>3. call'[r] = c /\ \A q \in Readers : q # r => call'[q] = call[q]
    BY <1>10 DEF IInv, TypeOK, Finish, Become
  <2>4. TypeOK'
    BY <1>10, <2>2 DEF IInv, TypeOK, Finish, Become
  <2>5. WalksOK'
    <3>1. inflight'[k] = NoReader /\ \A m \in Keys : m # k => inflight'[m] = inflight[m]
      BY <1>10, <2>1 DEF IInv, TypeOK, Finish
    <3> HIDE DEF c
    <3>2. \A q \in Readers : call'[q].pc \in Walking => inflight'[call'[q].key] = q
      <4> SUFFICES ASSUME NEW q \in Readers, call'[q].pc \in Walking
                   PROVE  inflight'[call'[q].key] = q
        OBVIOUS
      <4>1. q # r /\ call'[q] = call[q]
        BY <2>2, <2>3 DEF Walking
      <4>2. inflight[call[q].key] = q /\ call[q].key \in Keys
        BY <4>1 DEF IInv, TypeOK, WalksOK, Call
      <4> QED
        BY <2>1, <3>1, <4>1, <4>2
    <3>3. \A m \in Keys : inflight'[m] # NoReader =>
            call'[inflight'[m]].pc \in Walking /\ call'[inflight'[m]].key = m
      <4> SUFFICES ASSUME NEW m \in Keys, inflight'[m] # NoReader
                   PROVE  call'[inflight'[m]].pc \in Walking /\ call'[inflight'[m]].key = m
        OBVIOUS
      <4>1. m # k /\ inflight'[m] = inflight[m]
        BY <3>1
      <4>2. call[inflight[m]].pc \in Walking /\ call[inflight[m]].key = m /\ inflight[m] \in Readers
        BY <4>1 DEF IInv, TypeOK, WalksOK
      <4> QED
        BY <2>3, <4>1, <4>2
    <3> QED
      BY <3>2, <3>3 DEF WalksOK
  <2>6. CallsOK'
    <3> HIDE DEF c
    <3>1. \A q \in Readers : GoodCall(call'[q], need[q])
      BY <2>2, <2>3 DEF IInv, CallsOK
    <3> QED
      BY <1>10, <3>1 DEF Finish, CallsOK, GoodCall
  <2>7. CacheOK'
    BY <1>0, <1>10, <2>1 DEF IInv, TypeOK, Finish, CacheOK, GoodCall
  <2>8. DatesOK'
    BY <1>10 DEF IInv, Finish, DatesOK
  <2> QED
    BY <2>4, <2>5, <2>6, <2>7, <2>8 DEF IInv
\* the followers get the list, and answers that joined are not promised about
<1>11. CASE Close(r)
  <2> DEFINE g == Given(r, call[r].list, FALSE)
             woken(q) == [call[q] EXCEPT !.pc = "woken", !.list = call[r].list]
  <2>1. /\ call[r].list \in Creds \cup {Failed, Throttled} /\ call[r].pc = "closing"
        /\ call[r].list \in Creds => Covers(call[r].list, need[r])
    BY <1>0, <1>11 DEF Close, GoodCall
  <2>2. g \in Call /\ GoodCall(g, need[r]) /\ g.pc \notin Walking
    BY <2>1, GivenIsGood
  <2>3. ASSUME NEW q \in Readers, call[q].pc = "wait"
        PROVE  woken(q) \in Call /\ GoodCall(woken(q), need[q]) /\ woken(q).pc = "woken"
    <3>1. call[q] \in Call /\ GoodCall(call[q], need[q])
      BY DEF IInv, TypeOK, CallsOK
    <3> QED
      BY <2>1, <2>3, <3>1 DEF Call, PCs, GoodCall, Walking
  <2> HIDE DEF g, woken
  <2>4. \A q \in Readers :
          \/ q = r /\ call'[q] = g
          \/ q # r /\ call[q].pc = "wait" /\ call'[q] = woken(q)
          \/ q # r /\ call'[q] = call[q]
    BY <1>11 DEF Close, g, woken
  <2>5. UNCHANGED <<cache, creds, login, told, need>>
    BY <1>11 DEF Close
  <2>6. TypeOK'
    <3>1. call' \in [Readers -> Call]
      <4>1. call' = [q \in Readers |-> call'[q]]
        BY <1>11 DEF Close
      <4>2. \A q \in Readers : call'[q] \in Call
        BY <2>2, <2>3, <2>4 DEF IInv, TypeOK
      <4> QED
        BY <4>1, <4>2
    <3> QED
      BY <2>5, <3>1 DEF IInv, TypeOK
  <2>7. WalksOK'
    <3>1. \A q \in Readers : /\ call'[q].pc \in Walking => call'[q] = call[q]
                             /\ call[q].pc \in Walking => call'[q] = call[q]
      BY <2>1, <2>2, <2>3, <2>4 DEF Walking
    <3> QED
      BY <2>5, <3>1 DEF IInv, TypeOK, WalksOK
  <2>8. CallsOK'
    <3>1. \A q \in Readers : GoodCall(call'[q], need[q])
      BY <2>2, <2>3, <2>4 DEF IInv, CallsOK
    <3> QED
      BY <2>5, <3>1 DEF CallsOK, GoodCall
  <2>9. DatesOK' /\ CacheOK'
    BY <2>5 DEF IInv, DatesOK, CacheOK
  <2> QED
    BY <2>6, <2>7, <2>8, <2>9 DEF IInv
<1>12. CASE Join(r)
  <2>1. call[r].list \in Creds \cup {Failed, Throttled}
    BY <1>0, <1>12 DEF Join, GoodCall
  <2> QED
    BY <1>12, <2>1, GivenIsGood, Locally DEF Join, Walking
<1> QED
  BY <1>1, <1>2, <1>3, <1>4, <1>5, <1>6, <1>7, <1>8, <1>9, <1>10, <1>11, <1>12 DEF Step

-----------------------------------------------------------------------------
(* Logins and the clock.                                                   *)

\* A login commits a credential: the dates of lists stay, credentials get newer.
LEMMA CommitKeeps ==
  ASSUME IInv, NEW l \in Logins, CommitTokens(l) \/ CommitWeb(l) \/ GiveUp(l)
  PROVE  IInv'
<1> USE DEF cache
<1>1. UNCHANGED <<cache, call, told, need>>
  BY DEF CommitTokens, CommitWeb, GiveUp
<1>2. creds' \in Creds /\ Covers(creds', creds) /\ creds \in Creds
  BY DEF IInv, TypeOK, CommitTokens, CommitWeb, GiveUp, Covers, Creds
<1>3. TypeOK'
  BY <1>1, <1>2 DEF IInv, TypeOK, CommitTokens, CommitWeb, GiveUp, Goto
<1>4. DatesOK'
  BY <1>1, <1>2 DEF IInv, TypeOK, DatesOK, Covers, Creds
<1>5. WalksOK' /\ CallsOK' /\ CacheOK'
  BY <1>1 DEF IInv, WalksOK, CallsOK, CacheOK, GoodCall
<1> QED
  BY <1>3, <1>4, <1>5 DEF IInv

\* ... and announces it: no walk under way is of the new generation.
LEMMA ResetKeeps ==
  ASSUME IInv, NEW l \in Logins, ResetTokens(l) \/ ResetWeb(l)
  PROVE  IInv'
<1> USE DEF ResetCache
<1>1. UNCHANGED <<inflight, creds, call, need>> /\ gen' = gen + 1
  BY DEF ResetTokens, ResetWeb
<1>2. /\ told' \in Creds /\ Covers(told', told) /\ Covers(creds, told')
      /\ told \in Creds /\ creds \in Creds
  BY DEF IInv, TypeOK, DatesOK, ResetTokens, ResetWeb, Covers, Creds
<1>3. items' = [k \in Keys |-> None]
  BY DEF ResetTokens, ResetWeb
<1>4. TypeOK'
  BY <1>1, <1>2, <1>3 DEF IInv, TypeOK, ResetTokens, ResetWeb, Goto
<1>5. DatesOK'
  BY <1>1, <1>2 DEF IInv, TypeOK, DatesOK, Covers, Creds
<1>6. CallsOK'
  <2> SUFFICES ASSUME NEW r \in Readers PROVE GoodCall(call[r], need[r])'
    BY DEF CallsOK
  <2>1. GoodCall(call[r], need[r]) /\ call[r] \in Call /\ gen \in Nat
    BY DEF IInv, CallsOK, TypeOK
  <2>2. call[r].pc \in Walking => call[r].gen # gen' /\ call[r].gen <= gen'
    BY <1>1, <2>1 DEF GoodCall, Call
  <2> QED
    BY <1>1, <2>1, <2>2 DEF GoodCall, Walking
<1>7. WalksOK' /\ CacheOK'
  BY <1>1, <1>3 DEF IInv, WalksOK, CacheOK
<1> QED
  BY <1>4, <1>5, <1>6, <1>7 DEF IInv

LEMMA ClockKeeps == ASSUME IInv, CoolDown \/ \E k \in Keys : Expire(k) PROVE IInv'
<1>1. UNCHANGED <<inflight, gen, creds, login, call, told, need>>
  BY DEF CoolDown, Expire
<1>2. TypeOK' /\ CacheOK'
  BY DEF IInv, TypeOK, CacheOK, CoolDown, Expire
<1>3. WalksOK' /\ DatesOK' /\ CallsOK'
  BY <1>1 DEF IInv, WalksOK, DatesOK, CallsOK, GoodCall
<1> QED
  BY <1>2, <1>3 DEF IInv

-----------------------------------------------------------------------------

LEMMA InitIInv == Init => IInv
<1> SUFFICES ASSUME Init PROVE IInv
  OBVIOUS
<1>1. Boot \in Creds /\ Covers(Boot, Boot)
  BY DEF Boot, Creds, Covers
<1>2. TypeOK
  BY <1>1, IdleInCall DEF Init, TypeOK
<1>3. CallsOK
  BY <1>2, IdleIsGood DEF Init, CallsOK
<1>4. WalksOK /\ DatesOK /\ CacheOK
  BY <1>1 DEF Init, WalksOK, DatesOK, CacheOK, Idle, Walking
<1> QED
  BY <1>2, <1>3, <1>4 DEF IInv

LEMMA NextIInv == IInv /\ [Next]_vars => IInv'
<1> SUFFICES ASSUME IInv, [Next]_vars PROVE IInv'
  OBVIOUS
<1>1. CASE Next
  BY <1>1, StepKeeps, CommitKeeps, ResetKeeps, ClockKeeps DEF Next, LoginStep
<1>2. CASE UNCHANGED vars
  BY <1>2 DEF vars, cache, IInv, TypeOK, WalksOK, DatesOK, CallsOK, CacheOK, GoodCall
<1> QED
  BY <1>1, <1>2

\* The inductive invariant.
THEOREM Inductive == Spec => []IInv
  BY InitIInv, NextIInv, PTL DEF Spec

\* Every variable keeps its type.
THEOREM TypeCorrect == Spec => []TypeOK
<1>1. IInv => TypeOK
  BY DEF IInv
<1> QED
  BY <1>1, Inductive, PTL

\* A pool is walked by one request at a time (getOrStart).
THEOREM OneWalk == Spec => []SingleFlight
<1>1. IInv => SingleFlight
  BY DEF IInv, WalksOK, Walking, SingleFlight, Leads
<1> QED
  BY <1>1, Inductive, PTL

\* Once a reset has announced a credential, no list read under an older one is in
\* the cache or in the answer of a later request that joined nobody's walk
\* (reset, finish, getOrStart).
THEOREM OldListsLeave == Spec => []OldListsGone
<1>1. IInv => OldListsGone
  BY DEF IInv, CacheOK, CallsOK, GoodCall, OldListsGone
<1> QED
  BY <1>1, Inductive, PTL
=============================================================================
