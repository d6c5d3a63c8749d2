------------------------------- MODULE SearchPage -------------------------------
(***************************************************************************)
(* One search layer (SearchScreen.tsx) and what a reload of the page makes *)
(* of it (the search part of state-persistence.ts): a bar, two modes that  *)
(* share one page counter, filters, results that pages are added to, and   *)
(* the state reported for the snapshot.                                    *)
(*                                                                         *)
(* Results are kept as the pages shown, each with the search it answers.   *)
(***************************************************************************)
EXTENDS Integers, Sequences, SequencesExt

CONSTANTS Queries, Filters,
          LastPage,   \* of every search
          WorksKept,  \* pages of works a snapshot keeps at least, the last ones
          UsersKept,  \* pages of artists it keeps, the first ones
          Slow,       \* answers may take longer than the saver's debounce
          MaxLoads, MaxTaps,  \* bounds: requests in flight, the user's taps
          None

VARIABLES
  query, mode, filter,      \* what was searched last
  works, users,             \* pages shown
  counter, hasMore,
  loading, error, loadMoreError,
  loads,                    \* requests in flight; live: seq = reqSeq
  saved,                    \* the snapshot
  cut,                      \* history: a snapshot cut off pages of what is shown
  taps

bar == <<query, mode, filter>>
results == <<works, users, counter, hasMore>>
flags == <<loading, error, loadMoreError>>
vars == <<bar, results, flags, loads, saved, cut, taps>>

\* onState: the query searched, never what is only typed (and the history)
Report == [query |-> query, mode |-> mode, filter |-> filter, works |-> works,
           users |-> users, counter |-> counter, hasMore |-> hasMore, cut |-> cut]

\* the artists have no filters
Search == [query |-> query, filter |-> IF mode = "works" THEN filter ELSE None]
Shown == IF mode = "works" THEN works ELSE users

-----------------------------------------------------------------------------
(* runSearch                                                               *)

Superseded == [i \in DOMAIN loads |-> [loads[i] EXCEPT !.live = FALSE]]

\* No guard on loading: the new request takes over the spinner.
RunSearch(fresh) ==
  /\ Len(loads) < MaxLoads
  /\ loads' = Append(Superseded,
       [live |-> TRUE, fresh |-> fresh, mode |-> mode', search |-> Search',
        page |-> IF fresh THEN 1 ELSE counter' + 1])
  /\ loading' = TRUE /\ error' = FALSE /\ loadMoreError' = FALSE

Idle == loads' = loads /\ UNCHANGED flags

Without(i) == loads' = RemoveAt(loads, i)
Finishes == loading' = FALSE

\* The page asked for arrives; a first page may be empty.
PageArrives(i, found) ==
  LET load == loads[i]
      new == IF found THEN {[search |-> load.search, page |-> load.page]} ELSE {}
      Added(pages) == IF load.fresh THEN new ELSE pages \cup new IN
  /\ ~found => load.page = 1
  /\ Without(i)
  /\ IF load.live
     THEN /\ works' = IF load.mode = "works" THEN Added(works) ELSE works
          /\ users' = IF load.mode = "artists" THEN Added(users) ELSE users
          /\ counter' = load.page /\ hasMore' = (found /\ load.page < LastPage)
          /\ cut' = (cut /\ ~load.fresh)
          /\ Finishes
     ELSE UNCHANGED <<results, cut, loading>>
  /\ UNCHANGED <<bar, error, loadMoreError, saved, taps>>

ResultsCleared == works' = {} /\ users' = {} /\ counter' = 0 /\ hasMore' = FALSE

LoadFails(i) ==
  LET load == loads[i] IN
  /\ Without(i)
  /\ IF load.live
     THEN /\ IF load.fresh THEN ResultsCleared ELSE UNCHANGED results
          /\ error' = load.fresh /\ loadMoreError' = ~load.fresh
          /\ Finishes
     ELSE UNCHANGED <<results, flags>>
  /\ UNCHANGED <<bar, saved, cut, taps>>

-----------------------------------------------------------------------------
(* The user.                                                               *)

\* submit, searchRelatedTag
Submit(q) ==
  /\ query' = q /\ UNCHANGED <<mode, filter, results, saved, cut>>
  /\ RunSearch(TRUE)

\* switchMode, changeFilter, resetFilters: nothing to search for yet
Again == IF query # None THEN RunSearch(TRUE) ELSE Idle

SwitchMode(m) ==
  /\ m # mode
  /\ mode' = m /\ UNCHANGED <<query, filter, results, saved, cut>>
  /\ Again

ChangeFilter(f) ==
  /\ mode = "works" /\ filter' = f
  /\ UNCHANGED <<query, mode, results, saved, cut>>
  /\ Again

\* loadMore, from the sentinel or the button
LoadMore ==
  /\ hasMore /\ ~loading /\ UNCHANGED <<bar, results, saved, cut>>
  /\ RunSearch(FALSE)
Retry == loadMoreError /\ LoadMore

CanLoad == hasMore /\ ~loading /\ ~loadMoreError
SentinelFires == CanLoad /\ LoadMore /\ taps' = taps

\* saveSnapshot keeps the last 100 works, as many pages as these fill (a page
\* that the cut goes through counts as cut off), and the first 30 artists.
LastPages(pages, n) == {p \in pages : \A q \in pages : q.page < p.page + n}
FirstPages(pages, n) == {p \in pages : p.page <= n}

\* the saver of App.tsx, half a second after the last change
Save ==
  /\ Slow \/ ~loading
  /\ \E n \in WorksKept .. LastPage :
       LET kept == [works |-> LastPages(works, n), artists |-> FirstPages(users, UsersKept)]
       IN saved' = [Report EXCEPT !.works = kept.works, !.users = kept.artists,
                                  !.cut = cut \/ kept[mode] # Shown]
  /\ UNCHANGED <<bar, results, flags, loads, cut, taps>>

\* The page is killed and comes back: loadSnapshot, mount, onMount.
Reopen ==
  /\ query' = saved.query /\ mode' = saved.mode /\ filter' = saved.filter
  /\ works' = saved.works /\ users' = saved.users
  /\ counter' = saved.counter /\ hasMore' = saved.hasMore
  /\ cut' = saved.cut
  /\ IF saved.query # None /\ saved.works = {} /\ saved.users = {}
     THEN /\ loads' = <<[live |-> TRUE, fresh |-> TRUE, mode |-> mode', search |-> Search', page |-> 1]>>
          /\ loading' = TRUE
     ELSE loads' = <<>> /\ loading' = FALSE
  /\ error' = FALSE /\ loadMoreError' = FALSE
  /\ saved' = saved

Init ==
  /\ query = None /\ mode = "works" /\ filter \in Filters
  /\ works = {} /\ users = {} /\ counter = 0 /\ hasMore = FALSE
  /\ loading = FALSE /\ error = FALSE /\ loadMoreError = FALSE /\ loads = <<>>
  /\ cut = FALSE /\ saved = Report /\ taps = MaxTaps

User ==
  /\ taps > 0 /\ taps' = taps - 1
  /\ \/ \E q \in Queries : Submit(q)
     \/ \E m \in {"works", "artists"} : SwitchMode(m)
     \/ \E f \in Filters : ChangeFilter(f)
     \/ Retry
     \/ Reopen

LoadEnds ==
  \E i \in DOMAIN loads : LoadFails(i) \/ \E found \in BOOLEAN : PageArrives(i, found)

Next == User \/ SentinelFires \/ Save \/ LoadEnds

Fairness == WF_vars(LoadEnds)
Spec == Init /\ [][Next]_vars /\ Fairness

-----------------------------------------------------------------------------
TypeOK ==
  /\ query \in Queries \cup {None} /\ mode \in {"works", "artists"} /\ filter \in Filters
  /\ counter \in 0 .. LastPage /\ taps \in 0 .. MaxTaps
  /\ {hasMore, loading, error, loadMoreError, cut} \subseteq BOOLEAN

\* What no snapshot may take of the pages shown: the last works, and none from
\* among those it leaves; the first artists; of either nothing, if it cut nothing.
Uncut(pages, n) ==
  \/ ~cut
  \/ mode = "works" /\ (n + WorksKept > counter \/ \E p \in pages : p.page < n)
  \/ mode = "artists" /\ n <= UsersKept

\* At rest the cards answer the bar: each page is of the search the bar, the
\* mode and the filters name, and none is missing up to the counter but those a
\* snapshot cut off (state-persistence.ts, saveSnapshot), through superseded
\* searches, failures and reloads.
AnswersTheBar ==
  ~loading /\ Shown # {} =>
    /\ \A p \in Shown : p.search = Search /\ p.page \in 1 .. counter
    /\ \A n \in 1 .. counter : Uncut(Shown, n) => \E p \in Shown : p.page = n

\* The spinner turns exactly while the current request is in flight.
SpinnerHonest == loading = (\E i \in DOMAIN loads : loads[i].live)

\* Once the user stops, the layer stops asking.
Settles == <>[](loads = <<>>)
=============================================================================
