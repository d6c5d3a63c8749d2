------------------------------- MODULE MCScreens -------------------------------
(* Seven parts of the page: in each behaviour one of them runs.  What a part    *)
(* has no use for is None; the parts share the variables they share names of. *)
EXTENDS Integers, Sequences, FiniteSets

CONSTANTS Parts, Tabs, Works, Queries, Filters, SearchPages, WorksKept, UsersKept, Slow,
          Owners, Tags, Values, Faults, Artists, Returns, Lossy, LastPage, MaxLoads,
          MaxCalls, MaxTaps, MoverTaps, Ids, Hard, None

VARIABLES
  part,
  illusts, nextUrl, loading, error, loadMoreError, loads, taps,
  tab, pill, seenIds, carried, dropped, loadError, gateLocked, booted, blocked,
  query, mode, filter, works, users, counter, hasMore, saved, cut,
  kind, owner,
  db, tags, value, seeds, blockedSeedApplied, pendingAdds, pendingRemovals, queue, want, lost,
  artist, followed, busy, calls, server,
  onPile, selectionMode, selectedIds, step, targets, aborted, moved, skipped, failures,
  report, public, private, gone, before,
  stored, damaged, session, loaded

Feed == INSTANCE FeedLoader
Search == INSTANCE SearchPage WITH LastPage <- SearchPages
Pages == INSTANCE WorkPages
Prefs == INSTANCE Preferences
Button == INSTANCE FollowButton
Mover == INSTANCE BookmarkMover WITH MaxTaps <- MoverTaps
Kept == INSTANCE Snapshots

ASSUME ScreensAssumption ==
  /\ Artists \subseteq Nat /\ LastPage \in Nat \ {0} /\ Hard \in Nat
  /\ WorksKept \in 1 .. SearchPages
  /\ IsFiniteSet(Works)
  /\ None \notin BOOLEAN \cup Queries \cup Kept!Sessions
  /\ None \notin [owner : Owners, page : Nat]

feed == <<tab, pill, seenIds, carried, dropped, loadError, gateLocked, booted, blocked>>
search == <<query, mode, filter, works, users, counter, hasMore, saved, cut>>
pages == <<kind, owner>>
loader == <<loading, loads>>
listed == <<illusts, nextUrl>>
errors == <<error, loadMoreError>>
prefs == <<db, tags, value, seeds, blockedSeedApplied, pendingAdds, pendingRemovals, queue,
           want, lost>>
button == <<artist, followed, busy, calls, server>>
mover == <<onPile, selectionMode, selectedIds, targets, aborted, moved, skipped, failures,
           report, public, private, gone, before>>
kept == <<stored, damaged, session, loaded>>

notFeed == <<part, errors, search, pages, prefs, button, mover, step, kept>>
notSearch == <<part, listed, feed, pages, prefs, button, mover, step, kept>>
notPages == <<part, feed, search, prefs, button, mover, step, kept>>
notPrefs == <<part, loader, listed, errors, feed, search, pages, button, mover, step, kept>>
notButton == <<part, loader, listed, errors, feed, search, pages, prefs, mover, step, kept>>
notMover == <<part, loader, listed, errors, feed, search, pages, prefs, button, kept>>
notKept == <<part, loader, listed, errors, feed, search, pages, prefs, button, mover, step, taps>>
vars == <<notFeed, feed, loader, listed, taps>>

NoFeed == tab = None /\ pill = None /\ seenIds = None /\ carried = None /\ dropped = None
          /\ loadError = None /\ gateLocked = None /\ booted = None /\ blocked = None
NoSearch == query = None /\ mode = None /\ filter = None /\ works = None /\ users = None
            /\ counter = None /\ hasMore = None /\ saved = None /\ cut = None
NoPages == kind = None /\ owner = None
NoList == illusts = None /\ nextUrl = None
NoErrors == error = None /\ loadMoreError = None
NoLoader == loading = None /\ loads = <<>>
NoPrefs == db = None /\ tags = None /\ value = None /\ seeds = None /\ queue = None
           /\ blockedSeedApplied = None /\ pendingAdds = None /\ pendingRemovals = None
           /\ want = None /\ lost = None
NoButton == artist = None /\ followed = None /\ busy = None /\ calls = None /\ server = None
NoMover == onPile = None /\ selectionMode = None /\ selectedIds = None /\ step = "off"
           /\ targets = None /\ aborted = None /\ moved = None /\ skipped = None
           /\ failures = None /\ report = None /\ public = None /\ private = None
           /\ gone = None /\ before = None
NoKept == stored = None /\ damaged = None /\ session = None /\ loaded = None

Init ==
  /\ part \in Parts
  /\ CASE part = "feed" ->
            Feed!Init /\ NoErrors /\ NoSearch /\ NoPages /\ NoPrefs /\ NoButton /\ NoMover /\ NoKept
       [] part = "search" ->
            Search!Init /\ NoList /\ NoFeed /\ NoPages /\ NoPrefs /\ NoButton /\ NoMover /\ NoKept
       [] part = "pages" ->
            Pages!Init /\ NoFeed /\ NoSearch /\ NoPrefs /\ NoButton /\ NoMover /\ NoKept
       [] part = "prefs" ->
            /\ Prefs!Init /\ NoLoader /\ NoList /\ NoErrors /\ NoFeed /\ NoSearch /\ NoPages
            /\ NoButton /\ NoMover /\ NoKept
       [] part = "button" ->
            /\ Button!Init /\ NoLoader /\ NoList /\ NoErrors /\ NoFeed /\ NoSearch /\ NoPages
            /\ NoPrefs /\ NoMover /\ NoKept
       [] part = "mover" ->
            /\ Mover!Init /\ NoLoader /\ NoList /\ NoErrors /\ NoFeed /\ NoSearch /\ NoPages
            /\ NoPrefs /\ NoButton /\ NoKept
       [] part = "kept" ->
            /\ Kept!Init /\ NoLoader /\ NoList /\ NoErrors /\ NoFeed /\ NoSearch /\ NoPages
            /\ NoPrefs /\ NoButton /\ NoMover /\ taps = None

Next ==
  \/ part = "feed" /\ Feed!Next /\ UNCHANGED notFeed
  \/ part = "search" /\ Search!Next /\ UNCHANGED notSearch
  \/ part = "pages" /\ Pages!Next /\ UNCHANGED notPages
  \/ part = "prefs" /\ Prefs!Next /\ UNCHANGED notPrefs
  \/ part = "button" /\ Button!Next /\ UNCHANGED notButton
  \/ part = "mover" /\ Mover!Next /\ UNCHANGED notMover
  \/ part = "kept" /\ Kept!Next /\ UNCHANGED notKept

\* what no user, scroll or clock need do: requests end, the queue goes on
Progress ==
  \/ part = "feed" /\ Feed!LoadEnds /\ UNCHANGED notFeed
  \/ part = "search" /\ Search!LoadEnds /\ UNCHANGED notSearch
  \/ part = "pages" /\ Pages!LoadEnds /\ UNCHANGED notPages
  \/ part = "mover" /\ Mover!RunStep /\ UNCHANGED notMover

Spec == Init /\ [][Next]_vars /\ WF_vars(Progress)

-----------------------------------------------------------------------------
\* The cards of a search answer its bar (SearchScreen.tsx).
AnswersTheBar == part = "search" => Search!AnswersTheBar
\* Every list is of what is selected (loadMore, runSearch, and the artist page).
ShowsSelected ==
  /\ part = "feed" => Feed!ShowsSelected
  /\ part = "pages" => Pages!ShowsOwner
  /\ AnswersTheBar
\* A spinner turns exactly while the current request is in flight.
SpinnersHonest ==
  /\ part = "feed" => Feed!SpinnerHonest
  /\ part = "search" => Search!SpinnerHonest
  /\ part = "pages" => Pages!SpinnerHonest
\* The preferences and the table agree in the end (store.ts).
PrefsAgree == part = "prefs" => Prefs!PrefsAgree
\* The follow button tells what Pixiv holds (FollowButton.tsx).
ButtonHonest == part = "button" => Button!ButtonHonest
\* No bookmark is lost in silence (useBookmarkMover.ts).
LossIsTold == part = "mover" => Mover!LossIsTold
\* What a boot restores is whole and what was saved (state-persistence.ts).
RestoresSound == part = "kept" => Kept!RestoresSound
\* Once the user stops, the lists stop asking, and a run of the mover ends.
Settles == <>[](loads = <<>>) /\ Mover!RunEnds
=============================================================================
