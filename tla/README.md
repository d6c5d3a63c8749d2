# pixtok: specifications

pixtok is a Go server (`src/backend`) in front of pixiv's app API and web AJAX
endpoints, and a SolidJS single-page client (`src/frontend`). The specifications
in this directory model the parts whose correctness depends on what happens
*between* two steps: caches that are filled while the account behind them
changes, credentials that live in a file and in memory, a pool of fetch slots
with a queue in front of it, overlays whose slide-outs end after the next tap,
lists whose loads are superseded, touches whose synthetic clicks come late.
TLC checks them on small instances; TLAPS proves the safety invariants and action
properties of these runs for every instance, the liveness properties excepted.

| module | what it models | runs | proofs |
|---|---|---|---|
| `Stamps`, `FreshReads` | the age of an answer; the promise of a cache in front of pixiv | as `KeepsPromise` | |
| `Lists` | what a filter leaves of a list | by `Layers` and the lists of `MCScreens` | `ListsProofs` |
| `FollowState` | `pixiv/followstate.go` and its callers | `follow_state`, `follow_live` | `FollowStateProofs` |
| `BookmarkIds` | `pixiv/bookmarkids.go`, the walk, its handler | `bookmark_ids`, `bookmark_follower` | `BookmarkIdsProofs` |
| `Credentials` | `pixiv/auth.go`, the web session, `.env`, the login, crashes | `front_door` | `FrontDoorProofs` |
| `Gate` | `gate.go`: the password, its tarpit and two pools | `front_door` | `FrontDoorProofs` |
| `RateLimiter` | `ratelimit.go`: one tier | `front_door` | `FrontDoorProofs` |
| `PkceFlows` | `pkceStore` and the legs of a login | `front_door` | `FrontDoorProofs` |
| `EnvFiles` | which `.env` a key is read from and written to | `front_door` | `FrontDoorProofs` |
| `Server` | `run` of `main.go`: boot, drain, cleanup | `front_door` | `FrontDoorProofs` |
| `Images` | `/api/img`: cache, slots, queue, streaming | `images`, `images_cut` | `ImagesProofs` |
| `Layers` | `useLayers.ts`, the saver of `App.tsx`, the edge gesture | `layers`, `layers_overlap` | `LayersProofs` |
| `Taps` | `gestures.ts`: taps, pinches, synthetic clicks, immersive mode | `cards` | `CardsProofs` |
| `Hearts` | likes in `store.ts`, `runToggleLike` | `cards` | `CardsProofs` |
| `CardImages` | the pictures of one card: `FeedCard.tsx`, `settle.ts` | `cards` | `CardsProofs` |
| `Ugoira` | `UgoiraPlayer.tsx`: poster and frames | `cards` | `CardsProofs` |
| `FeedLoader` | the main feed of `App.tsx` | `screens` | `ScreensProofs` |
| `SearchPage` | `SearchScreen.tsx` and its part of the snapshot | `screens`, `search_restored` | `ScreensProofs` |
| `WorkPages` | `ArtistView.tsx`, `RelatedView.tsx` | `screens` | `ScreensProofs` |
| `Preferences` | `store.ts`, `api/prefs.ts`, `prefs.go` | `screens` | `ScreensProofs` |
| `FollowButton` | `FollowButton.tsx`, `api/follow.ts` | `screens` | `ScreensProofs` |
| `BookmarkMover` | `useBookmarkMover.ts` | `screens` | `ScreensProofs` |
| `Snapshots` | `state-persistence.ts`: what is kept, what is accepted | `screens` | `ScreensProofs` |

`MCFollowState`, `MCBookmarkIds`, `MCImages` and `MCLayers` instantiate one
specification each. `MCFrontDoor`, `MCCards` and `MCScreens` hold several that
share no state: the initial state picks one (`door`, `part`), and only that one
runs. A run over them is a run of each, so its state space is the sum of theirs
and not the product, which would show nothing more.

To check one: `tlc -config MCImages.cfg MCImages.tla`; to check the proofs:
`tlapm FollowStateProofs.tla`. `PROJECT.json` lists the runs, the lines every
definition models, the hazards and the disagreements found.

## 1. The system

### Backend

- **Client (`pixiv/client.go`)**. State: refresh and access token, `expiresAt`
  (`mu`), PHPSESSID and csrf token (`sessionMu`), `upstreamSlots` (6),
  `followCooldown`, and the two caches below. Every app-API request goes
  through `doWith`: `ensureToken`, then the bearer of that moment, then a slot.
- **Token lifecycle (`pixiv/auth.go`)**. `refresh`, `forceRefresh` (health
  probes) and `SetTokens` (login) share `refreshMu`; each persists before it
  commits. Failures arm a 30 s backoff. *Hard*: a login during a refresh; a
  crash or a failed write between file and memory; a herd of waiters.
  *Correct when* memory is never ahead of the file, a login is the last writer,
  and one expiry costs one request.
- **Web session (`pixiv/web.go`)**. `csrfToken` scrapes a session-bound token
  and commits it only if the session is still the same; `GetStreet` and its
  siblings retry once after a 400 or 401. *Correct when* a token rides only
  with its session.
- **Follow states (`pixiv/followstate.go`)**. A TTL cache per artist with a
  single flight and epochs. Operations: `getOrStart`, `finish`, `invalidate`
  (after a follow or unfollow), `reset` (after a login). *Hard*: an
  invalidation during a fetch, followers of a superseded fetch. *Correct when*
  no stale value is cached or answered, and no marker or waiter is left.
- **Bookmark ids (`pixiv/bookmarkids.go`, `GetBookmarkIDs`)**. The same shape
  with one generation for all keys, a negative window after a 429, and a walk
  of several pages that reads two credentials at different times.
- **Image proxy (`main.go`, `handlers.go`, `pixiv/images.go`)**. A cache with
  two budgets and a reaper, 8 fetch slots, 24 waiters, bodies returned or
  streamed. *Correct when* the accounting is exact, slots and counters never
  leak, a response is begun once, what is cached is what pixiv sent.
- **Login proxy and PKCE flows (`authproxy.go`, `handlers.go`)**. A bounded
  table of verifiers keyed by a cookie; every leg of the proxied login looks its
  flow up, the callback takes it, exchanges the code, then calls `SetTokens`,
  scrapes, calls `SetWebSession`. *Correct when* a verifier is used once, in time.
- **Gate (`gate.go`)**. A failure streak with a decaying tarpit, one pool of
  slots for comparisons and one for sleepers. *Correct when* sleepers never keep
  the owner out and every path gives its slot back.
- **Rate limiter (`ratelimit.go`)**. A token bucket per source in a bounded
  table, and a ceiling for all. *Correct when* one client cannot exhaust the
  ceiling and `Retry-After` is right.
- **`.env` resolver (`client.go`)**. Reads the first file that has a key, writes
  the first that has any of the keys, atomically. *Correct when* the next boot
  reads what was written.
- **Preferences (`prefs.go`)**, **boot and shutdown (`main.go`)**. A SQLite
  table, closed only after a clean drain.
- **Transforms, static files, origin check**: functions of one request or body.

### Frontend

- **Layers (`useLayers.ts`)**: related views, artist pages and search layers,
  their z-order, keys that are array indices, and 250 ms close animations whose
  timers land after whatever the user did meanwhile.
- **Lists (`App.tsx`, `SearchScreen.tsx`, `ArtistView.tsx`, `RelatedView.tsx`)**:
  a request number, a spinner, a cursor, a sentinel. *Correct when* a superseded
  answer touches nothing and the spinner always clears.
- **Cards (`FeedCard.tsx`, `gestures.ts`, `settle.ts`, `UgoiraPlayer.tsx`)**:
  taps deferred for a double tap, clicks the browser makes up for them, pinches,
  immersive mode, a window of loaded pictures, an animation in two loads.
- **Shared store (`store.ts`)** and **preference writes (`api/prefs.ts`)**: likes
  merged from a set and a signal per work; blocked tags edited before their boot
  seed arrives.
- **Bookmark mover (`useBookmarkMover.ts`)**: delete, re-add, pace, cancel.
- **Follow button**: optimistic toggles, one instance reused across artists.
- **Snapshots (`state-persistence.ts`)**: what a reload brings back.
- Views, drawers, modals, diagnostics.

### Interactions

The client calls `/api/...`; handlers call `pixiv.Client`. `SetTokens` and
`SetWebSession` both end in `resetSessionCaches`, which resets the two caches
and the breaker one after the other, while requests run. A follow toggle
invalidates one artist. The process environment and `.env` are read at boot.
Concurrency in the backend is goroutine per request, a mutex per structure and
no lock that spans two structures (but `refreshMu` and `sessionMu`, which are
held across the write, the commit and the reset). In the frontend it is
promises and timers on one thread.

## 2. What is modelled, and how

Values are abstracted to what the properties tell apart. A follow state is its
*stamp* (the session it was read under, how many toggles pixiv had applied); a
list of ids is the pair of credentials it was read under; a token is its account
and a serial number; a body is its size and whether all of it arrived; a page of
a feed is the feed it belongs to. Time is a nondeterministic step (`Expire`,
`CoolDown`) or, where two delays are compared, ticks.

One action is one critical section, or one side of a round trip. Where the code
releases a mutex and takes it again, so does the model. In the page a handler,
with every effect it wakes, is one action, because scripts run to their end; an
`await` ends it.

### Backend

**FollowState.** `items`, `inflight`, `epochs` are the fields of
`followStateCache`; a ticket is identified with the reader that leads it, since
a reader leads at most one at a time, and its fields are in `call[r]` until
`Close` copies them to the followers (`close(done)`). `Begin .. Leave` follow
`IsFollowed` line by line, `Send/Serve/Lose/Throttle` the round trip of
`fetchFollowState`, `Post/Apply/Acknowledge/Refuse` those of `SetFollow` (`Apply`
is pixiv's part), `Swap/Reset/Rearm` a login. `floor`, `need` and `base` are
history: what has been announced, and what had been when a call began, or its
fetch was registered. `FreshReads` is the promise seen from outside: once a
toggle is acknowledged or a login finished, a call that begins later is not
answered with anything older. It has no cache, no tickets and no retry;
`KeepsPromise` maps a call to its phase and answer.

**BookmarkIds.** As above, plus the look at the window before `getOrStart`
(`Cooling`, `Pass`), a uid read (`Start`) apart from the pages (`Page`), and a
request that walks one pool after the other and merges (`Given`). A login is
`CommitTokens, ResetTokens, CommitWeb, ResetWeb`, or `GiveUp` in between.
Readers wait in `Start` while a session swap holds `sessionMu`.

**Credentials.** `disk` is the file, `mem` the client. `ref[c]` is
`refreshLocked` in a request, a health probe or `NewClient`; `scrape[s]` is
`csrfToken` with its request; `login[l]` is `handlePkceCallback` from the
exchange on. A write is one step, because `UpdateEnvFile` renames a finished
temporary file over the old one. `Crash` may happen between any two steps and
loses all but `disk`; `Boot` starts again from it. Which file is written is
`EnvFiles`' question: candidates that hold any of the keys, in any combination.

**Gate.** An attempt is its phase: the comparison in its slot, the verdict, the
slot of a sleeper, the delay, the sleep. `recordFailure`, the slot and
`failureDelay` are steps of their own, as their locks are, so the streak they
read may change between them. Time is ticks since the last failure.

**RateLimiter.** A bucket counts in parts of a token and gains one a tick;
`take`, which adds what has gathered since it last looked, comes to the same.
`refusal` remembers by which bucket a client was turned away, and the
`Retry-After` it was given.

**PkceFlows.** `put` with its shedding and eviction, `peek` of every leg, `take`
of the callback, which deletes before it looks at the time. **Server.** `run` as
its places (`at`), the two ways the drain ends, and the one deferred cleanup;
requests that write preferences run beside it.

**Images.** `items` and `totalBytes` are `imageCache`; an eviction is the set
its loop removes, given any choice among entries that expire together. `slots`
and `queue` are the Go channel, whose blocked senders are served in order;
`Release` hands a slot over as the runtime does. `waiters` is the atomic
counter, raised before it is compared. `Buffer` is `io.ReadFull`
ending before the buffer is full, `Stream` and `StreamEnds` the other path.

### The page

**Layers.** `artistClosing` holds the z its timer captured, `searchTimers` the
timers `closeSearch` started (a page opened early leaves one behind),
`closingDepth` is itself the timer of a related view. `TopZ` is the memo,
`Facing` the layer that really gets the taps: the highest one without the class
`exit`, which lets them through; Back and close buttons belong to that layer,
works, artists and tags can be tapped on any, the drawer only on the feed.
`Reload` is a kill at any moment, `loadSnapshot` and `restore` together. The
saver's timer is `armed`; `before` holds the slide-outs that were under way when
it was last set, which end before it (260 ms against 500 ms), and `cooling` the
one a gesture started (against its 350 ms). A `patient` user waits for a
slide-out before closing the next layer, a `hurried` one does not.

**FeedLoader, SearchPage, WorkPages.** `reqSeq` is kept as what it decides: a
load in flight is `live` or superseded. Works and pages carry the feed, search
or owner they were loaded for, which the code does not record: that is what the
properties compare. FeedLoader has the gate that locks again, the boot with and
without a snapshot, and what leaves the list without a load (blocked tags,
bookmarks that are unliked or moved). SearchPage has two modes over one page
counter, filters, and the snapshot a reload restores. `saveSnapshot` cuts that
snapshot: of the works it keeps the last 100, however many pages these are
(`Save` chooses, at least `WorksKept`; a page that the cut goes through counts as
cut off), of the artists the first 30 (`UsersKept` pages). `cut` remembers that
pages of what is shown were cut off; it is kept with the snapshot and ends with
the next first page. A related view does not number its loads, an artist page
does, and its artist may be swapped.

**Preferences.** The boot's two answers, edits before and after them, the one
write queue, the table. **FollowButton.** One request per mount and per swap,
toggles with their optimistic flip and revert. **BookmarkMover.** The run's
steps `boundary, unlike, like, pace`, `pixiv`'s two piles, and `before`, the
piles as the run found them. **Snapshots.** `Saved` and `Validated` as functions;
`Damage` spoils one field: entries without their shape, tags that are gone, an
unknown feed, a folder on the private pile, another version.

**Taps.** Ticks count the window of a double tap, the suppression after a
scroll and the life of the click budget. The browser owes a click for every tap
and may pay late, on another card, labelled a mouse click, or not at all.
**Hearts.** Signals are numbers, so that two cards of a work can hold different
ones, as they do once the table has dropped the oldest. A like or unlike is
applied and answered, fails on its way, or is applied although the page is told
that it failed (the 10 s of `api/illust.ts` ran out, or the answer was lost), and
then the card reverts. `astray` holds the works whose last request to reach pixiv
ended so. **CardImages.** The
observer, the two delays, the settle poll and the frame callback of one card, each a
step of its own. **Ugoira.** The poster and the frames are separate loads; an
abort ends a fetch, a decode runs on and finds out at its sequence check.

## 3. Runs

Checked with two workers; sizes are distinct states.

| run | instance | checks |
|---|---|---|
| `follow_state` | 1 artist, 2 readers, 1 toggler, 1 login, 1 retry (514 k) | `SingleFlight`, `CacheFresh`, `NoDeadEpochs`, refinement of `FreshReads` |
| `follow_live` | 1 artist, 2 readers, both credential swaps (43 k) | `CallsReturn` |
| `bookmark_ids` | 2 requests, 1 login, 2 pages, 2 pools (260 k) | `SingleFlight`, `OldListsGone`, `RequestsReturn` |
| `bookmark_follower` | the same | shows `OldIdsNotServed` violated |
| `front_door` | see below (1.76 M) | `MemoryNotAhead`, `LoginSticks`, `OneAskPerExpiry`, `PairsMatch`, `OwnerGetsIn`, `FewNeverStarve`, `FlowsSingleUse`, `EnvRoundTrip`, `NoWriteAfterClose` |
| `images` | 3 requests, 2 urls, 1 slot, 1 waiter, 3 sizes (169 k) | `Budget`, `SlotsHeld`, `OneResponse`, `Answered` |
| `images_cut` | the same | shows `CachedWhole` violated |
| `layers` | 2 works, 1 artist, 2 tags, cap 2, 4 z-values, both users, kills for the patient one (117 k) | `TopIsVisible`, `BooksAgree`, `SavedWhenQuiet`, `OnlyClosedLeave`, `ReloadFaithful`, `SlideOutsEnd` |
| `layers_overlap` | 1 work, 1 artist, 1 tag, the hurried user | shows `ClosedForGood` violated |
| `cards` | see below (639 k) | `NoGhostClicks`, `ChromeFollows`, `HeartsMatchPixiv`, `WindowAtRest`, `PlaysOnScreenOnly`, `SpinnerEnds` |
| `screens` | see below (615 k) | `ShowsSelected`, `SpinnersHonest`, `PrefsAgree`, `ButtonHonest`, `LossIsTold`, `RestoresSound`, `Settles` |
| `search_restored` | the search page alone, answers of any age | shows `AnswersTheBar` violated |

The type invariants (`TypeOK`, `GateTypeOK`) hold in the same instances (name one
under `INVARIANTS` to see it); section 4 says which are proved. The runs list the
properties that say more.

What the runs show, where the name does not say it:

- `front_door`. A login that comes while a refresh is at pixiv's token endpoint
  waits for it and is still the last writer; a process that dies between any
  write and its commit starts again with what it had used. Sleepers in the gate
  take no comparison slot. The ceiling turns nobody away before more clients
  than the multiplier have come. A flow is completed at most once, and a live
  one makes room only when all are live. Every way out of `run` leaves the
  database to the writes that are still running.
- `images`. No path through the handler, client gone, queue full, broken stream,
  leaks a slot or a waiter, and every request ends.
- `layers`. Whichever layers are opened during whichever slide-outs, the layer
  the user sees on top is the one whose images are shown, and a timer that fires
  late takes no layer opened since.
- `cards`. A click that comes late never acts on the card a tap already acted on
  or deferred; the hearts of a work agree with one another and with pixiv, but
  for a work whose like or unlike was applied and told failed: there all of them
  show the opposite, until a request for the work is answered; a card covered,
  scrolled away or unmounted in immersive mode gives the header back; a card at
  rest holds its pictures whatever order the delays, the observer and the swipe
  ended in; an animation that left the screen while it was decoded does not
  play.
- `screens`. Lists show what is selected after any sequence of superseded,
  failed and late loads, and a restored search misses no page but those the
  snapshot cut off: the works before the first one shown, the artists behind the
  first `UsersKept` pages; edits before the seed survive it; the mover's report
  accounts for every bookmark; a damaged snapshot is cut down to what can be
  rendered.

### Bounds

Artists are independent (no action but a reset touches
two, and a reset treats them alike), so one is enough for TLC; the proofs cover
any number. Two readers are a leader and a follower, and with a second round a
follower that leads. One toggle and one login suffice to supersede a fetch; two
swaps (`follow_live`) supersede the re-fetch too, which is where `Retries`
decides. Two pages are the least with a middle.

`front_door`: two logins are the least that can overlap each other and a
refresh, with a request, a health probe, a web request and the boot; two issued
tokens let one of them be a rotation; one crash. Three attempts against two
comparison slots and one sleeper overflow both pools. Three sources against a
table of two and a multiplier of two evict a live client and reach the ceiling.
Four flows against a table of two overflow it twice. Three candidate files, one
group of two keys and one of one, let a group be spread over two files with a third
beside them. Two handlers write during the drain.

`images`: with three requests, one slot and one waiter the queue fills,
overflows and drains; sizes 1, 3 and 4 against budgets of 2 bytes and 2 entries
and a limit of 3 give an entry that fits, one above the budget of the whole
cache and one that must be streamed.

`layers`: two works, and two tags beside the page without one, are the least
with which a second level lies on a first and the cap refuses a third page; four
z-values let every pair of overlays lie on each other and a third open during a
slide-out.

`cards`: two cards of a strip and a grid cell (a click may land on either kind);
a double-tap window of one tick, a budget that lives two; two slots and two
works, so that one work is on two cards and a slot is reused; three pages with a
window of one, so that a page is outside it; two decodes at once.

`screens`: three tabs, the two special ones among them, two works, two pages of
every list but three of a search (`SearchPages`), of which a snapshot keeps the
last works page at least and one page of artists: the cut may then take one page
or two, and a page is still there to be loaded after one. Two requests in
flight, four taps after the boot (seven for the mover, whose selection costs
some); two queries and two filters; three artists for the button.

Bounds in guards: `MaxSession` (`Swap`), `MaxVersion` (`Apply`), `MaxSerial`
(`Rotated`, `Exchange`), `MaxCrashes` (`Crash`), `MaxZ` (every open),
`MaxTimers` (`CloseSearch`), `MaxLoads` (every request of a list), `MaxCalls`
(the button), `MaxTaps`, `MoverTaps` (the user), `MaxOwed`, `MaxEaten`, `Late`
(`Taps`), `Loads` (`Ugoira`). A login callback runs once.

### What some runs assume of the world

These parameters leave something out, and what is left out is not vacuous:

- `Layers`, `MaxTimers` = 1: with two search slide-out timers TLC finds the
  states and the pages out of step. A page is closed, another opened from the
  feed (which finishes the first slide-out and rewinds the counter), a second on
  top of that, which gets the z the first had, and is closed too, all within
  260 ms; the first timer takes the new slide-out for its own. No hand is that
  fast. Kills are modelled for the patient user only, because of finding 2.
- `Hearts`, `Users` = {"patient"}: with any other user TLC finds
  `HeartsMatchPixiv` violated. A heart tapped before the seed arrives (`early`) is
  overwritten by a seed that was read before it; two requests for one work from
  two cards (`racing`) end in the order pixiv serves them, not that of the taps.
  The cap of the table never drops an entry for the patient user; with more works
  than the cap (`tireless`, and `Cap` = 1) two cards of a work hold signals of
  their own, and an unlike through one leaves that of the other on, which an
  answer had mounted as liked, whether or not a request fails.
- `Hearts`, too: a request that was told failed has reached pixiv by then or
  never does. One that pixiv applies only after a later request for the same work
  is not modelled.
- `FollowButton`, `Returns` = FALSE: an answer is checked by the artist's id, so
  with A, B, A the first load of A is taken for the last.
- `BookmarkMover`, `Lossy` = FALSE: a delete that is applied but whose answer is
  lost is reported as a failed delete.
- `Preferences`, `Faults` without "hasty user": a plain value chosen before its
  seed arrives is overwritten on screen by it.
- `Preferences`, `Faults` without "seed late": the server reads the table for the
  boot's GET before the first edit, as `store.ts` takes for granted ("it is a
  snapshot of the DB from before those edits", 95-96). Nothing in the code orders
  the two requests. An edit made before the seed arrives writes the list as the
  page has it, which lacks all that the seed would bring (`store.ts:143`); if that
  PUT overtakes the GET, the seed reads it back, the
  merge finds nothing to add, and the other blocked tags are gone from the table
  too: `PrefsAgree` is violated after four steps. It takes a user who blocks a tag
  within one round trip of the boot and a network that reorders the two requests.
- `Preferences`: `PrefsAgree` exempts lost requests. A tag list edited after a seed
  that was lost overwrites the durable one with the partial one, which
  `store.ts:89-91` accepts.
- `Taps`: clicks the browser makes up land on cards. One that lands on a control of
  a layer that a tap has just opened is not modelled.
- `SearchPage`, `Slow` = FALSE in `screens`: answers come before the saver
  fires. `TRUE` is finding 4.

### Fairness

Weak fairness for each reader's, request's and callback's own
steps: a goroutine that can run does, and a round trip ends, because the HTTP
clients have timeouts (30 s, 120 s for images), which the models show as the
step that loses the answer. A follower's wait, the wait for a slot and the wait
for a mutex get no help: they end only because somebody's step ends them. No
fairness is assumed of users, toggles, expiry or a client that disconnects.
Requests take one mutex at a time and for a bounded section, so the order in
which Go serves them does not matter for the liveness checked.

In the page, timers fire unless it is killed (`SlideOutsEnd`); fetches and
decodes end (`SpinnerEnds`, under `Ugoira`'s `Fairness`); `Settles` assumes weak
fairness of the end of requests and of the mover's next step, joined in
`Progress`: only one part of `screens` runs in a behaviour, and each of its
requests in flight stays able to end until it does. Nothing is assumed of the
user, scrolling or the observer.

### Disagreements found

The four of `findings` in `PROJECT.json`, each a run that violates one property:

1. `bookmark_follower`: `reset` bumps the generation but leaves the old
   account's walk registered and, unlike the follow-state cache, does not mark
   its ticket. A request after the login joins it and is answered with the
   previous account's ids.
2. `layers_overlap`: the flush of a close writes the arrays as they are, a layer
   that is still sliding out included. Two taps on Back, on an artist page and
   on the related view under it, and a kill within the second: the artist page
   is back.
3. `images_cut`: `io.ErrUnexpectedEOF` is taken for the end of a small body, but
   is also what a broken connection yields; the truncated image is cached.
4. `search_restored`: a new search is reported to the saver before its answer;
   a save in between and a reload show the last search's cards under the new
   words, and nothing fetches them again.

Noticed while modelling, without a run of their own:

- A like or unlike that pixiv applied but that fails for the page is reverted, and
  the heart says the opposite of pixiv until the work is toggled again or the next
  boot seeds the set. `store.ts:22-24` says that "on failure the caller's error path
  re-syncs"; the error paths (`FeedCard.tsx:383-385`, `GridFeed.tsx:229-234`) only
  revert. `HeartsMatchPixiv` says so with `astray`; without that exception TLC finds
  it violated after six steps.
- A snapshot keeps the last 100 works and the first 30 artists of a search with its
  page counter as it was (`state-persistence.ts:229-230`): a restored list of works
  begins in the middle and never gets its first pages back, one of artists has a gap.
- Tags of search layers are matched by position, also after a damaged layer in the
  middle was filtered out: each later one then shows the tag of its neighbour
  (`RestoresSound` compares lengths only).
- The 429 window is looked at in one critical section and the walk registered in
  another (`bookmarkids.go:139`).
- A login whose web half fails leaves a bearer and a web session of different
  accounts (`authproxy.go:618`).
- Two merges at once may write the spare capacity of one cached slice
  (`handlers.go:507`).
- `shutdownCleanup` does not close the database after a failed boot or a listen
  error, which its comment does not say.
- `popRelated` never rewinds the z counter (`useLayers.ts:171`).
- Unliking shifts the offset of a paginated list; the mover leaves out its pause
  after a work that is gone; an animation drawn before its poster has loaded may
  show a blank canvas.

## 4. Proofs

| module | theorems | for every |
|---|---|---|
| `FollowStateProofs` | `TypeCorrect`, `OneFlight`, `CacheStaysFresh`, `EpochsBounded`, `Implements` | artists, readers, togglers, logins, retries |
| `BookmarkIdsProofs` | `TypeCorrect`, `OneWalk`, `OldListsLeave` | requests, logins, pages |
| `FrontDoorProofs` | `CredentialsTyped`, `NotAhead`, `LoginLasts`, `AskedOnce`, `PairsStay` | callers, probes, scrapers, logins, crashes |
| | `SleepersBlockNobody`, `FewAreServed` | attempts, pools, tarpit; limits, rates, sources |
| | `VerifiersOnce`, `WritesAreRead`, `WritesFindItOpen` | flows and capacity; keys and files; requests |
| `ImagesProofs` | `TypeCorrect`, `CacheKeepsBudget`, `NoSlotLeaks`, `OneAnswer` | requests, urls, sizes, slots, waiters, budgets |
| `LayersProofs` | `TopShown`, `BooksRight`, `QuietIsSaved`, `OnlyTheClosed`, `ReloadsFaithfully` | works, artists, tags, depth, z |
| `CardsProofs` | `TypeCorrect`, `NoGhosts`, `Chrome` (Taps) | cards, windows, bounds |
| | `CardAtRest`, `PlaysOnScreen`, `HeartsAgree` | pages and window; decodes; works, slots, table |
| `ScreensProofs` | `ShowsWhatIsSelected`, `SpinnersTellTruth`, `RestoredWhole` | tabs, works, pages, requests; depth |
| | `PreferencesAgree`, `ButtonTellsTruth`, `LossesAreTold` | tags and values; artists; works and selections |
| `ListsProofs` | lemmas about the operators of `Lists` | lists |

Each rests on the named assumptions of its modules (`FollowStateAssumption`
and so on: sizes are positive where the code's are, a model value that stands
for "none" is not one of the others, a table has room for the clients a ceiling
is meant for), which TLC evaluates in the runs. Where a theorem has a hypothesis
besides, it is the one under which the run checks the property, and the list
above (*What some runs assume of the world*) says what happens without it:
`Waits` for `Layers` (one slide-out timer of a page at a time, and a kill only of
the page of a user who waits; finding 2), `user = "patient"` for `HeartsAgree`,
`Slow = FALSE` for `ShowsWhatIsSelected` (finding 4), `Returns = FALSE`,
`Lossy = FALSE` and the two faults left out of `PreferencesAgree`.

**FollowState.** `SingleFlight` and `NoDeadEpochs` are inductive with the types;
`CacheFresh` and the refinement are not: they need to know what the answers
under way may be. `IInv` adds, one name each:

- `AnnouncedOK`: nothing announced is ahead of pixiv, nor will a toggle under
  way be, so whatever is asked from now on is fresh enough;
- `EpochOK`: epochs only grow while a ticket is registered, so a superseded
  ticket never matches again;
- `TicketOK`: the answer of a ticket whose epoch matches is as new as `floor`
  (this is what makes `Finish` keep `CacheFresh`), and that of any ticket as new
  as `base`, the floor at its registration;
- `NeedOK`: a call needs no more than has been announced, a leader no more than
  its `base`, and a returned answer is as new as its call needs;
- `WaitOK`, `WokenOK`: what a follower may assume of the ticket it waits for: one
  that closes without being superseded is fresh enough, and on a retry any is;
- `SeenOK`: why that is so. A follower that retries has seen a ticket end after
  its call began, and the next one of the artist was registered after that.

So one retry is enough for freshness. The proof that a step preserves `IInv` has
one lemma per action (steps that change only the locals of one reader share
one), and the facts about the order of stamps are stated once. `Implements`
shows that every `Hit`, `Close` and `Share` is an `Answer` that `need` allows,
and that every other step is `Announce`, `Begin`, `Leave` or a stutter.

**BookmarkIds.** A walk reads the web session once and the bearer on its first
page, so its list may be of two logins. `GoodCall` says what it is good for:
read under nothing older than what its request needed, and, while its
generation counts, nothing older than what has been announced (a reset that
announces more counts the generation up, and `Finish` compares). A follower's
list is good for nothing, which is why `OldListsGone` speaks of requests that
joined nobody; `WalksOK` ties a walk to its registration, `DatesOK` says
credentials only get newer. The proof also shows why finding 1 is confined to
followers.

**Credentials.** `MutexOK`: whoever is between asking and committing holds
`refreshMu`. `TokensOK`: so what it read of memory is still there, in the file
too, or is its own write. `LifeOK`: after a crash nothing of the process is
left, and at boot nobody but the boot itself runs. `AsksOK`: while the
token is expired and no request is at the token endpoint, it has not been asked
yet. The four properties are part of the invariant; there is one lemma per group
of actions.

**RateLimiter.** `LimInv` counts in pairs of a client and a part of a token:
the ceiling never lacks more parts than the clients there have been have spent
and not yet regained. A request that passes adds as many pairs as it takes from
the ceiling; a tick, which gives the ceiling `Multiplier` parts, takes back one
pair of each client at most (`TimeReturns`). So while there are no more clients than
`Multiplier`, an empty ceiling means that each of their buckets is empty too,
and it is the bucket, looked at first, that refuses.

**The rest of the front door.** `Gate`: each pool's count is the number of
attempts in the phases that hold its slots, whatever the streak's sections read.
`PkceFlows`: what is in the store, or was taken, has been started, and an id is
not used again. `EnvFiles`: a group goes to the first file with one of its keys,
so no file before that one has any. `Server`: once drained, nothing is in flight
nor ever will be, since `run` never serves again.

**Images.** `DoorInv`: `slots` and `waiters` are the sizes of the sets of
handlers in the phases that answer for them, and the queue holds handlers that
block, each once; so the slot that `Release` hands to the head goes to one that
takes it. No more than `MaxWaiters` ever block, though the counter may be
higher for a moment: it is raised before it is compared. `CacheInv`: the bytes
of the entries, as pairs of an entry and a number, add up over disjoint sets of
entries, so that what an eviction or an overwrite subtracts is what it removes.
A handler that has not answered has begun no response (`Handlers`).

**Layers.** `LayersInv`: the open order holds the key of each layer that is
there and stays, and no other (`KeysAgree`); a later key is of a higher layer,
where only the artist's may be there twice and its last place counts (`IsOrdered`);
no z is above the counter, and a later page or level is above an earlier one
(`Climbing`);
only the last level and the last page ever slide out, a page with the timer that
will take it (`SlidesOut`). Hence the last key is of the layer on top of the
screen, and every button and gesture closes the last of its kind, which is why
keys that are array indices still name the same layers afterwards. When a page
leaves nothing behind, the counter is rewound: that the new z is above every
layer is `RewindBelow`. A reload needs `SnapOK` of the snapshot it finds: its order
names its layers, each page and each level once and in turn; a patient user's
closes keep it, because nothing else slides out when they write. The two action
properties follow from the same invariant. What stays is left at its place and
its z by every timer and every open (`Grown`), though these rewind the counter:
no layer is taken that was not asked to close. The z of two open layers differ,
and what the gesture closes is the last key of the order, so exactly the layer on
top goes (`GestureTakesTop`). The snapshot names no layer that has been asked to
close (`Behind`), at any moment of a slide-out, so a reload brings none back; and
the z it gives out go up in the order it finds, so two layers lie on each other as
before (`OrderTells`, `OrderStays`). `QuietIsSaved` needs one fact
more (`ReplArmed`): an artist page that replaced one on its way out was itself
opened, so the saver is armed until after that slide-out.

**Cards.** *Taps*: a click in flight must find a unit of the budget, so
`ClicksCovered` says every click owed has one behind it, and that no click is owed
for longer than the budget lives. A card that leaves immersive mode shows the
header, so no other may be immersive then: only the card in view ever is, and two
fingers never lie on any other (`TouchOK`, `LooksOK`). *CardImages*: the timers
agree with what the observer last said (`TimersOK`), the counter is a page behind
at most once its frame is drawn (`SliderOK`), and the pictures are those of the
pages wanted, at every moment (`PicturesOK`); at rest the pages wanted are the
window. *Ugoira*: one load of frames at most is current, and only while the card is
on screen or the observer has yet to say that it is not (`PlayerInv`). *Hearts*:
one entry a work, one signal an entry, held by every card and request of the
work (`OneSignal`, `HeldOK`); before the seed the set is empty and nobody has
tapped (`BeforeSeed`); after it the set differs from what pixiv told the page, which
is what it holds but for the works astray (`Believed`), by the one request a work
may have under way (`AfterSeed`).

**Screens.** *Spinners*: at most one request is the current one (`SpinnerInv`).
*Lists*: the list of a page is the first `n` pages of its owner, the next one is
behind the cursor and the current request is for that one (`PagesAt`). A search
shows every page up to the counter that no snapshot takes (`Stays`), what was
saved included (`Whole`), unless a first page is on its way: cutting a whole
report leaves a whole one (`KeptStays`), since the works it keeps are the last
and what is loaded later comes behind them. The feed holds what it has seen and
not dropped, each work once (`FeedList`). *Preferences*: the last write of a key
in the queue, or else the table, is what is shown (`Settled`), and until the
boot's tags are in, the two sets of edits applied to them give the list there
should be (`TagsPending`). *Button*: while none is opened again (`Returns` =
FALSE) artists are opened in order, so of the answers in flight one at most is
for the artist on view, and it says what the button shows until then
(`Waiting`). *Mover*: between its two calls the work at hand is in neither pile,
those before it are where they went and those after it untouched (`RunOK`), so
whatever call fails the report names what is missing. *Snapshots*: what was not
damaged is as it was saved, and what `Validated` leaves of it is sound
(`KeptInv`).

**Lists.** `Filtered` is `SelectSeq` without its recursion, which is what lets
these proofs speak of filters: what is kept keeps its order and each position
kept is there once.

Only model-checked: the liveness properties `CallsReturn`, `RequestsReturn`,
`Answered`, `SlideOutsEnd`, `SpinnerEnds` and `Settles`, with everything under
fairness (out of the prover's reach), and of course the four violations: every
other property of the passing runs is the statement of a theorem.

## 5. What is not modelled

Transforms, header rewriting, host allowlists, SVG and content-type checks,
static files, the origin check: functions of one input, better served by the
unit tests they have. Rendering, geometry and velocities of gestures, the canvas
in the client; suggestions, recent searches, profile headers, forms and toasts.
Real time: deadlines and budgets appear as "may time out" or as a few ticks.
`upstreamSlots` (a wait without a lock held) is left out: it delays a request,
which the models allow anywhere. A nil cache (test clients) and `ValidID` guards
are left out. In the client also: the scroll position and the modal of a snapshot, a cap that
changes while layers are open, a search layer's contents inside `Layers` (they
are in `SearchPage`), the grid cells' own simpler image window, a follow POST
that is applied although its answer is lost, made-up clicks that land on the
controls of a layer a tap has just opened. In the limiter: the tier of a path
and the key of a source, the table's bound in bytes. In `.env`: quoting, and keys
that the process environment hides.
Memory shared through a slice's capacity (`handlers.go:507`) is beyond a model
whose lists are values.
The components that are `partly` or `not_modelled` in `PROJECT.json` say why.

What would come next: a model of the grid's images; two tiers sharing the
limiter's table; the hypothesis on `MaxTimers` of `Layers` replaced by a clock.

Three properties hold less than their names may suggest. `OldListsGone`
excludes requests that joined another's walk (finding 1). `OneAskPerExpiry`
counts requests' refreshes, not health probes, which always ask. `Budget`
trusts that a body's length does not change once cached.
