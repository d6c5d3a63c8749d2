------------------------------- MODULE FeedLoader -------------------------------
(***************************************************************************)
(* The main feed (App.tsx): tabs and their pills, the one list with its    *)
(* cursor, the sentinel that loads the next page, the boot, the gate that  *)
(* may lock again, and the changes to the list that no load makes.         *)
(*                                                                         *)
(* reqSeq is kept as what it decides: whether a load in flight is the last *)
(* one (live) or was superseded.                                           *)
(***************************************************************************)
EXTENDS Integers, Sequences, SequencesExt, Lists

CONSTANTS Tabs,      \* feedType; "top" has no further pages, "bookmarks" drops what is unliked
          Works, LastPage,
          MaxLoads,  \* bound: requests in flight
          MaxTaps,   \* bound: what the user does after the boot
          None

VARIABLES
  tab, pill,      \* feedType; the selected pill of every tab
  illusts,        \* the list: works, and the feed each was loaded for
  nextUrl, loading, loadError, seenIds,
  loads,          \* the requests in flight
  gateLocked, booted,
  blocked,        \* the works that carry a blocked tag
  carried,        \* history: unblocked works the pages of this feed carried,
  dropped,        \* ... and those taken from the list since
  taps

picked == <<tab, pill>>
list == <<illusts, seenIds, carried, dropped>>
page == <<nextUrl, loading, loadError, loads>>
gate == <<gateLocked, booted>>
vars == <<picked, list, page, gate, blocked, taps>>

PillsOf(t) == CASE t = "bookmarks" -> {"public", "folder", "private"}
                [] t = "home" -> {"all"}
                [] OTHER -> {"all", "r18"}
Feed == <<tab, pill[tab]>>
OnList == {item.work : item \in Range(illusts)}

Init ==
  /\ tab = "home" /\ pill = [t \in Tabs |-> IF t = "bookmarks" THEN "public" ELSE "all"]
  /\ illusts = <<>> /\ seenIds = {} /\ carried = {} /\ dropped = {}
  /\ nextUrl = None /\ loading = FALSE /\ loadError = FALSE /\ loads = <<>>
  /\ gateLocked = TRUE /\ booted = FALSE
  /\ blocked = {} /\ taps = MaxTaps

-----------------------------------------------------------------------------
(* Loads.                                                                  *)

Superseded == [i \in DOMAIN loads |-> [loads[i] EXCEPT !.live = FALSE]]

\* The page a load asks for: the first one, or the one at the cursor.
PageAt(cursor) == IF cursor = None \/ Feed'[1] = "top" THEN 1 ELSE cursor.page

\* loadMore, past its guard
Request(cursor) ==
  /\ Len(loads) < MaxLoads
  /\ loads' = Append(Superseded, [live |-> TRUE, feed |-> Feed', page |-> PageAt(cursor)])
  /\ loading' = TRUE

\* Mutant: a switch leaves the spinner to the load it supersedes.
LoadingKept == loading
\* setLoading(false) of a reset
LoadingAfterReset == FALSE

\* Mutant: what was seen on the last feed is remembered.
SeenKept == seenIds
SeenAfterReset == {}

\* resetFeedAndReload: the first load follows the resets
Reload ==
  /\ illusts' = <<>> /\ seenIds' = SeenAfterReset /\ carried' = {} /\ dropped' = {}
  /\ nextUrl' = None /\ loadError' = FALSE
  /\ IF LoadingAfterReset THEN loads' = Superseded /\ loading' = loading ELSE Request(None)

\* changeFeedType
ChangeFeedType(t) ==
  /\ ~gateLocked /\ t # tab
  /\ tab' = t /\ pill' = pill
  /\ Reload
  /\ UNCHANGED <<gate, blocked>>

\* changeRankingContent, ...Mode, changeNewestR18, changeTopMode,
\* changeBookmarkVis, selectBookmarkTag; the private pile has no folders
ChangePill(p) ==
  /\ ~gateLocked /\ p # pill[tab]
  /\ ~(pill[tab] = "private" /\ p = "folder")
  /\ tab' = tab /\ pill' = [pill EXCEPT ![tab] = p]
  /\ Reload
  /\ UNCHANGED <<gate, blocked>>

LoadMore ==
  /\ ~loading
  /\ UNCHANGED <<picked, list, nextUrl, loadError, gate, blocked>>
  /\ Request(nextUrl)

\* the buttons of FeedArea: an empty feed, a load that failed
Retry == ~gateLocked /\ (illusts = <<>> \/ loadError) /\ LoadMore

\* Mutant: a failed load leaves the sentinel armed.
CanLoadAfterError == nextUrl # None /\ ~loading /\ ~gateLocked
CanLoad == nextUrl # None /\ ~loading /\ ~loadError /\ ~gateLocked

SentinelFires == CanLoad /\ LoadMore /\ taps' = taps

Without(i) == loads' = RemoveAt(loads, i)

FilterBlockedTags(works) == works \ blocked
DedupeSeen(works) == works \ seenIds

\* A page arrives: what is blocked, then what was seen, is dropped from it.
PageArrives(i, works, more) ==
  LET load == loads[i]
      shown == FilterBlockedTags(works)
      new == DedupeSeen(shown) IN
  /\ Without(i)
  /\ IF load.live
     THEN /\ illusts' = illusts \o
               [k \in DOMAIN SetToSeq(new) |-> [work |-> SetToSeq(new)[k], feed |-> load.feed]]
          /\ seenIds' = seenIds \cup shown
          /\ carried' = carried \cup shown /\ dropped' = dropped
          /\ nextUrl' = IF more /\ load.page < LastPage /\ load.feed[1] # "top"
                        THEN [feed |-> load.feed, page |-> load.page + 1] ELSE None
          /\ loading' = FALSE /\ loadError' = FALSE
     ELSE UNCHANGED <<list, nextUrl, loading, loadError>>
  /\ UNCHANGED <<picked, gate, blocked, taps>>

\* Only the current load's failure is reported: it may lock the gate.
LoadFails(i, kind) ==
  /\ Without(i)
  /\ IF loads[i].live
     THEN /\ loadError' = TRUE /\ loading' = FALSE
          /\ gateLocked' = (gateLocked \/ kind = "gate-locked")
     ELSE UNCHANGED <<loadError, loading, gateLocked>>
  /\ UNCHANGED <<picked, list, nextUrl, booted, blocked, taps>>

-----------------------------------------------------------------------------
(* The boot and the gate.                                                  *)

\* gateStatus finds it open, or onUnlocked.  Only the first time boots: the
\* snapshot sets tab and pills, then the first page is loaded.
Unlock ==
  /\ gateLocked
  /\ gateLocked' = FALSE /\ booted' = TRUE
  /\ IF booted
     THEN UNCHANGED <<picked, list, page>>
     ELSE /\ tab' \in Tabs
          /\ \E p \in PillsOf(tab') : pill' = [pill EXCEPT ![tab'] = p]
          /\ Request(None)
          /\ UNCHANGED <<list, nextUrl, loadError>>
  /\ UNCHANGED <<blocked, taps>>

\* Another request of the page answers that the gate is locked.
Relock ==
  /\ booted /\ ~gateLocked
  /\ gateLocked' = TRUE
  /\ UNCHANGED <<picked, list, page, booted, blocked>>

-----------------------------------------------------------------------------
(* What else changes the list.                                             *)

Drop(works) ==
  /\ illusts' = Filtered(illusts, {i \in DOMAIN illusts : illusts[i].work \notin works})
  /\ dropped' = dropped \cup (works \cap OnList)
  /\ UNCHANGED <<seenIds, carried>>

\* The effect on blockedTags: the boot's seed, or an edit.
BlockedTags(works) ==
  /\ booted /\ works # blocked
  /\ blocked' = works
  /\ Drop(works)
  /\ UNCHANGED <<picked, page, gate>>

\* A card's unlike is done: handleUnlike.
Unlike(w) ==
  /\ tab = "bookmarks" /\ w \in OnList
  /\ Drop({w})
  /\ UNCHANGED <<picked, page, gate, blocked>>

User ==
  /\ booted /\ taps > 0 /\ taps' = taps - 1
  /\ \/ \E t \in Tabs : ChangeFeedType(t)
     \/ \E p \in PillsOf(tab) : ChangePill(p)
     \/ Retry
     \/ Relock
     \/ \E works \in SUBSET Works : BlockedTags(works)
     \/ \E w \in Works : Unlike(w)

LoadEnds ==
  \E i \in DOMAIN loads :
    \/ \E works \in SUBSET Works, more \in BOOLEAN : PageArrives(i, works, more)
    \/ \E kind \in {"http", "gate-locked"} : LoadFails(i, kind)

Next == Unlock \/ User \/ SentinelFires \/ LoadEnds

\* Every request times out (AbortSignal.timeout); nobody need tap or scroll.
Fairness == WF_vars(LoadEnds)
Spec == Init /\ [][Next]_vars /\ Fairness

-----------------------------------------------------------------------------
TypeOK ==
  /\ tab \in Tabs /\ \A t \in Tabs : pill[t] \in PillsOf(t)
  /\ illusts \in Seq([work : Works, feed : {<<t, p>> : t \in Tabs, p \in PillsOf(tab)}])
  /\ {loading, loadError, gateLocked, booted} \subseteq BOOLEAN
  /\ (seenIds \cup blocked \cup carried \cup dropped) \subseteq Works
  /\ taps \in 0 .. MaxTaps

\* Whatever loads were superseded and whenever they answer, the list and its
\* cursor are of the selected feed, no work is on it twice, and nothing its
\* pages carried is missing but what was blocked or unliked since.
ShowsSelected ==
  /\ \A i \in DOMAIN illusts :
       /\ illusts[i].feed = Feed
       /\ \A j \in DOMAIN illusts : illusts[i].work = illusts[j].work => i = j
  /\ nextUrl # None => nextUrl.feed = Feed
  /\ carried \ dropped \subseteq OnList

\* The spinner turns exactly while the current load is in flight.
SpinnerHonest == loading = (\E i \in DOMAIN loads : loads[i].live)

\* Once the user stops, the feed stops asking: a failure is not retried by the
\* sentinel it re-subscribes (useFeedSentinel).
Settles == <>[](loads = <<>>)
=============================================================================
