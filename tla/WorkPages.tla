-------------------------------- MODULE WorkPages --------------------------------
(***************************************************************************)
(* The two other layers that page through works: the artist page           *)
(* (ArtistView.tsx), one instance whose artist may be swapped, and the     *)
(* related view (RelatedView.tsx), whose anchor never changes and whose    *)
(* loads are therefore not numbered.                                       *)
(***************************************************************************)
EXTENDS Integers, Sequences, SequencesExt

CONSTANTS Owners,            \* artists, or anchors of related views
          LastPage,
          MaxLoads, MaxTaps, \* bounds: requests in flight, the user's taps
          None

VARIABLES
  kind,         \* "artist" or "related"
  owner,        \* props.userId, props.anchor
  illusts,      \* the pages shown, each with its owner
  nextUrl,      \* the page at the cursor and its owner
  loading, error, loadMoreError,
  loads,        \* requests in flight; live: seq = reqSeq
  taps

flags == <<loading, error, loadMoreError>>
vars == <<kind, owner, illusts, nextUrl, flags, loads, taps>>

Superseded == [i \in DOMAIN loads |-> [loads[i] EXCEPT !.live = FALSE]]
First(o) == [owner |-> o, page |-> 1]

Request(what) ==
  /\ Len(loads) < MaxLoads
  /\ loads' = Append(IF kind = "artist" THEN Superseded ELSE loads,
                     [live |-> TRUE, at |-> what])
  /\ loading' = TRUE

\* both mount with their first page on the way
Init ==
  /\ kind \in {"artist", "related"} /\ owner \in Owners
  /\ illusts = {} /\ nextUrl = None
  /\ loading = TRUE /\ error = FALSE /\ loadMoreError = FALSE
  /\ loads = <<[live |-> TRUE, at |-> First(owner)]>>
  /\ taps = MaxTaps

\* the effect on props.userId of an artist page
Swap(o) ==
  /\ kind = "artist" /\ o # owner
  /\ owner' = o
  /\ illusts' = {} /\ nextUrl' = None /\ error' = FALSE /\ loadMoreError' = FALSE
  /\ Request(First(o))
  /\ kind' = kind

\* loadMore, of either: the artist's serves the first page as well
LoadMore ==
  /\ ~loading
  /\ kind = "related" => nextUrl # None
  /\ Request(IF nextUrl = None THEN First(owner) ELSE nextUrl)
  /\ loadMoreError' = FALSE
  /\ UNCHANGED <<kind, owner, illusts, nextUrl, error>>

\* the button of a related view whose first page failed
LoadRelated ==
  /\ kind = "related" /\ error /\ ~loading
  /\ Request(First(owner))
  /\ error' = FALSE
  /\ UNCHANGED <<kind, owner, illusts, nextUrl, loadMoreError>>

CanLoad == nextUrl # None /\ ~loading /\ ~loadMoreError /\ (kind = "related" => ~error)
SentinelFires == CanLoad /\ LoadMore /\ taps' = taps

PageArrives(i) ==
  LET load == loads[i] IN
  /\ loads' = RemoveAt(loads, i)
  /\ IF load.live
     THEN /\ illusts' = illusts \cup {load.at}
          /\ nextUrl' = IF load.at.page < LastPage
                        THEN [load.at EXCEPT !.page = @ + 1] ELSE None
          /\ error' = (IF kind = "artist" THEN FALSE ELSE error)
          /\ loading' = FALSE
     ELSE UNCHANGED <<illusts, nextUrl, error, loading>>
  /\ UNCHANGED <<kind, owner, loadMoreError, taps>>

\* The artist page says so when it shows nothing, be it that all is blocked.
LoadFails(i) ==
  LET load == loads[i] IN
  /\ loads' = RemoveAt(loads, i)
  /\ IF load.live
     THEN /\ loading' = FALSE
          /\ \/ /\ kind = "artist"
                /\ loadMoreError' = TRUE
                /\ error' \in (IF illusts = {} THEN {TRUE} ELSE {error, TRUE})
             \/ /\ kind = "related"
                /\ loadMoreError' = (loadMoreError \/ load.at.page > 1)
                /\ error' = (error \/ load.at.page = 1)
     ELSE UNCHANGED flags
  /\ UNCHANGED <<kind, owner, illusts, nextUrl, taps>>

User ==
  /\ taps > 0 /\ taps' = taps - 1
  /\ \/ \E o \in Owners : Swap(o)
     \/ loadMoreError /\ LoadMore
     \/ LoadRelated

LoadEnds == \E i \in DOMAIN loads : PageArrives(i) \/ LoadFails(i)

Next == User \/ SentinelFires \/ LoadEnds

Fairness == WF_vars(LoadEnds)
Spec == Init /\ [][Next]_vars /\ Fairness

-----------------------------------------------------------------------------
TypeOK ==
  /\ kind \in {"artist", "related"} /\ owner \in Owners
  /\ illusts \subseteq [owner : Owners, page : 1 .. LastPage]
  /\ {loading, error, loadMoreError} \subseteq BOOLEAN /\ taps \in 0 .. MaxTaps

\* The page shows the works of its artist or anchor only, without a gap, and
\* its cursor stands behind them, whatever the loads of an artist before do.
ShowsOwner ==
  LET n == Cardinality(illusts) IN
  /\ illusts = {[owner |-> owner, page |-> p] : p \in 1 .. n}
  /\ nextUrl = IF n \in 1 .. LastPage - 1 THEN [owner |-> owner, page |-> n + 1] ELSE None

\* The spinner turns exactly while the current request is in flight; a related
\* view has one request at most.
SpinnerHonest ==
  /\ loading = (\E i \in DOMAIN loads : loads[i].live)
  /\ kind = "related" => Len(loads) <= 1

\* Once the user stops, the layer stops asking.
Settles == <>[](loads = <<>>)
=============================================================================
