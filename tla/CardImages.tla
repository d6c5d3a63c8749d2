------------------------------- MODULE CardImages -------------------------------
(***************************************************************************)
(* The images of one card (FeedCard.tsx, settle.ts): which of its pages    *)
(* hold a picture and which the placeholder pixel.  A card loads within a  *)
(* margin of the screen, with a delay in and out; a layer on top unloads   *)
(* it; of its pages a window around the page on the counter and the page   *)
(* the slider came to rest on is loaded.                                   *)
(*                                                                         *)
(* Solid's effects run to their end within the handler that woke them.     *)
(***************************************************************************)
EXTENDS Integers

CONSTANTS LastPage,  \* the index of the last page
          Size,      \* sliderWindowSize of the work
          None

Pages == 0 .. LastPage

VARIABLES
  suppressed,   \* suppressImages: a layer covers the card's layer
  near,         \* the card is within the margin of the screen
  told,         \* ... as the IntersectionObserver last said, None if it is new
  active,
  loadTimer, unloadTimer,
  at,           \* the page the slider is on
  gliding,      \* a swipe, its momentum or the snap is moving it
  live,         \* currentPage
  settled,      \* settledPage
  poll,         \* the settle timer: "off"; "first" before the first read of the
                \* position; then "still" or, if it has changed since, "moved"
  raf,          \* the frame that updates the counter is requested
  img,          \* each <img>: "pixel", or what became of the real picture
  loaded, failed \* the signals of the pages loaded and in error

margin == <<suppressed, near, told>>
timers == <<loadTimer, unloadTimer>>
slider == <<at, gliding>>
counter == <<live, settled>>
vars == <<margin, active, timers, slider, counter, poll, raf, img, loaded, failed>>

Init ==
  /\ suppressed = FALSE /\ near \in BOOLEAN /\ told = None
  /\ active = FALSE /\ loadTimer = FALSE /\ unloadTimer = FALSE
  /\ at = 0 /\ gliding = FALSE /\ live = 0 /\ settled = 0
  /\ poll = "off" /\ raf = FALSE
  /\ img = [p \in Pages |-> "pixel"] /\ loaded = {} /\ failed = {}

\* sliderWindowBounds spans the page on the counter and the settled one.
Window(page, rest) ==
  {p \in Pages : (p >= page - Size \/ p >= rest - Size) /\ (p <= page + Size \/ p <= rest + Size)}
\* shouldLoad
Loading(on, page, rest) == IF on THEN Window(page, rest) ELSE {}

\* What the effects make of the pages, given the signals before they run: a
\* page that leaves the window forgets its state, an <img> gets its source.
Effects(done, bad) ==
  LET keep == Loading(active', live', settled') IN
  /\ loaded' = done \cap keep
  /\ failed' = bad \cap keep
  /\ img' = [p \in Pages |-> CASE p \notin keep -> "pixel"
                               [] p \in keep /\ img[p] = "pixel" -> "fetching"
                               [] OTHER -> img[p]]
Settings == Effects(loaded, failed)

-----------------------------------------------------------------------------
(* Activation.                                                             *)

Approach ==
  /\ near' = ~near
  /\ UNCHANGED <<suppressed, told, active, timers, slider, counter, poll, raf, img, loaded, failed>>

\* Mutant: the way back in leaves the unload timer running.
EnterAgain == UNCHANGED unloadTimer /\ loadTimer' = (loadTimer \/ ~active)
EnterMargin ==
  /\ unloadTimer' = FALSE
  /\ loadTimer' = (loadTimer \/ ~active)

LeaveMargin == loadTimer' = FALSE /\ unloadTimer' = TRUE

\* the observer's callback
Observe ==
  /\ ~suppressed /\ told # near
  /\ told' = near
  /\ IF near THEN EnterMargin ELSE LeaveMargin
  /\ UNCHANGED <<suppressed, near, active, slider, counter, poll, raf, img, loaded, failed>>

LoadTimer ==
  /\ loadTimer
  /\ loadTimer' = FALSE /\ active' = TRUE
  /\ UNCHANGED <<margin, unloadTimer, slider, counter, poll, raf>>
  /\ Settings

UnloadTimer ==
  /\ unloadTimer
  /\ unloadTimer' = FALSE /\ active' = FALSE
  /\ UNCHANGED <<margin, loadTimer, slider, counter, poll, raf>>
  /\ Settings

\* The effect's cleanup, then its run for the new value: also the settle
\* detector is disposed of, and a new observer will report.
Cover ==
  /\ suppressed' = ~suppressed
  /\ told' = None
  /\ loadTimer' = FALSE /\ unloadTimer' = FALSE
  /\ poll' = "off"
  /\ active' = (active /\ suppressed)
  /\ UNCHANGED <<near, slider, counter, raf>>
  /\ Settings

-----------------------------------------------------------------------------
(* The slider.                                                             *)

Neighbours == {p \in Pages : p - at \in -1 .. 1}

\* onScroll: of a swipe that begins, or goes on under a layer that opened
ScrollEvent ==
  /\ gliding \/ ~suppressed
  /\ gliding' = TRUE
  /\ at' \in Neighbours
  /\ poll' = "first" /\ raf' = TRUE
  /\ UNCHANGED <<margin, active, timers, counter, img, loaded, failed>>

\* The snap lands after the last scroll event, on that page or the next one.
\* (A finger that held still until the page was committed moves it by events.)
SnapLands ==
  /\ gliding
  /\ gliding' = FALSE
  /\ at' \in IF poll = "off" /\ ~suppressed THEN {at} ELSE Neighbours
  /\ poll' = IF poll = "still" /\ at' # at THEN "moved" ELSE poll
  /\ UNCHANGED <<margin, active, timers, counter, raf, img, loaded, failed>>

Frame ==
  /\ raf
  /\ raf' = FALSE /\ live' = at
  /\ UNCHANGED <<margin, active, timers, slider, settled, poll>>
  /\ Settings

\* check: two reads that agree commit the page
Poll ==
  /\ poll # "off"
  /\ IF poll = "still" THEN poll' = "off" /\ settled' = at /\ live' = at
                       ELSE poll' = "still" /\ UNCHANGED counter
  /\ UNCHANGED <<margin, active, timers, slider, raf>>
  /\ Settings

-----------------------------------------------------------------------------
(* The pictures.                                                           *)

\* onPageLoad
PageLoads(p) ==
  /\ img[p] = "fetching"
  /\ img' = [img EXCEPT ![p] = "done"]
  /\ loaded' = loaded \cup {p}
  /\ UNCHANGED <<margin, active, timers, slider, counter, poll, raf, failed>>

\* onPageError
PageFails(p) ==
  /\ img[p] = "fetching"
  /\ img' = [img EXCEPT ![p] = "failed"]
  /\ failed' = failed \cup {p}
  /\ UNCHANGED <<margin, active, timers, slider, counter, poll, raf, loaded>>

\* retryPage: a new attempt draws every page of the window anew
RetryPage(p) ==
  /\ p \in failed
  /\ failed' = failed \ {p}
  /\ img' = [q \in Pages |-> IF img[q] = "pixel" THEN "pixel" ELSE "fetching"]
  /\ UNCHANGED <<margin, active, timers, slider, counter, poll, raf, loaded>>

Next ==
  \/ Approach \/ Observe \/ LoadTimer \/ UnloadTimer \/ Cover
  \/ ScrollEvent \/ SnapLands \/ Frame \/ Poll
  \/ \E p \in Pages : PageLoads(p) \/ PageFails(p) \/ RetryPage(p)

Spec == Init /\ [][Next]_vars

-----------------------------------------------------------------------------
AtRest ==
  /\ told = near \/ suppressed
  /\ ~loadTimer /\ ~unloadTimer /\ ~gliding /\ poll = "off" /\ ~raf
  /\ \A p \in Pages : img[p] # "fetching"

\* Whatever way a card came to rest, through the delays in and out, a cover in
\* the middle of them and swipes whose last event came before their snap, it
\* holds pictures exactly when it is near and uncovered, the page on view among
\* them, and the frame is drawn around every picture that is there.
WindowAtRest ==
  AtRest =>
    /\ active = (near /\ ~suppressed)
    /\ {p \in Pages : img[p] # "pixel"} = Loading(active, live, settled)
    /\ active => at \in Window(live, settled)
    /\ loaded \cup failed = Loading(active, live, settled)
    /\ \A p \in Pages : img[p] = "done" => p \in loaded
=============================================================================
