------------------------------ MODULE BookmarkMover ------------------------------
(***************************************************************************)
(* Moving public bookmarks to the private pile (useBookmarkMover.ts, its   *)
(* wiring in App.tsx, SelectionBar.tsx): a serial queue that deletes and   *)
(* adds again, one work after the other, stops at the first failure and    *)
(* at a work boundary when it is cancelled, and reports every work.        *)
(***************************************************************************)
EXTENDS Naturals, Sequences, FiniteSets, SequencesExt

CONSTANTS Works,
          Lossy,   \* an answer may be lost after Pixiv did as it was told
          MaxTaps, \* bound: the user's taps
          None

VARIABLES
  onPile,                    \* the public pile of the bookmarks tab is on view
  selectionMode, selectedIds,
  step,     \* of the run: "off", "boundary", "unlike", "like", "pace"
  targets,  \* its works that are left, the one at hand first
  aborted, moved, skipped, failures,
  report,   \* what the last run told the user, and its works
  public, private, gone,     \* Pixiv: the two piles, the works deleted there
  before,   \* history: the piles when the last run began
  taps

selection == <<selectionMode, selectedIds>>
tally == <<moved, skipped, failures>>
pixiv == <<public, private, gone>>
vars == <<onPile, selection, step, targets, aborted, tally, report, pixiv, before, taps>>

running == step # "off"

Init ==
  /\ onPile = TRUE /\ selectionMode = FALSE /\ selectedIds = {}
  /\ step = "off" /\ targets = <<>> /\ aborted = FALSE
  /\ moved = 0 /\ skipped = 0 /\ failures = {} /\ report = None
  /\ public = Works /\ private = {} /\ gone = {}
  /\ before = [public |-> public, private |-> private] /\ taps = MaxTaps

-----------------------------------------------------------------------------
(* The user.                                                               *)

Chrome == onPile /\ ~running

EnterSelection ==
  /\ Chrome /\ ~selectionMode /\ selectionMode' = TRUE
  /\ UNCHANGED <<onPile, selectedIds, step, targets, aborted, tally, report, pixiv, before>>
\* Done
ExitSelection ==
  /\ Chrome /\ selectionMode
  /\ selectionMode' = FALSE /\ selectedIds' = {}
  /\ UNCHANGED <<onPile, step, targets, aborted, tally, report, pixiv, before>>
\* toggle, selectAll, deselectAll: the cards stay selectable during a run
Select ==
  /\ onPile /\ selectionMode
  /\ \/ \E w \in Works : selectedIds' = (selectedIds \ {w}) \cup ({w} \ selectedIds)
     \/ ~running /\ selectedIds' \in {Works, {}}
  /\ UNCHANGED <<onPile, selectionMode, step, targets, aborted, tally, report, pixiv, before>>

\* run, in the order the works were picked
Run ==
  /\ Chrome /\ selectionMode /\ selectedIds # {}
  /\ step' = "boundary" /\ aborted' = FALSE
  /\ targets' \in SetToSeqs(selectedIds)
  /\ moved' = 0 /\ skipped' = 0 /\ failures' = {} /\ report' = None
  /\ before' = [public |-> public, private |-> private]
  /\ UNCHANGED <<onPile, selection, pixiv>>

Cancel ==
  /\ onPile /\ running /\ aborted' = TRUE
  /\ UNCHANGED <<onPile, selection, step, targets, tally, report, pixiv, before>>

\* The tab or the pile changes: reset.
LeavePile ==
  /\ onPile /\ onPile' = FALSE
  /\ aborted' = running
  /\ IF running THEN UNCHANGED selection ELSE selectionMode' = FALSE /\ selectedIds' = {}
  /\ UNCHANGED <<step, targets, tally, report, pixiv, before>>
ReturnToPile ==
  /\ ~onPile /\ onPile' = TRUE
  /\ UNCHANGED <<selection, step, targets, aborted, tally, report, pixiv, before>>

User ==
  /\ taps > 0 /\ taps' = taps - 1
  /\ \/ EnterSelection \/ ExitSelection \/ Select \/ Run \/ Cancel
     \/ LeavePile \/ ReturnToPile

-----------------------------------------------------------------------------
(* The queue.                                                              *)

\* markCancelled
Cancelled(works) == {[id |-> w, kind |-> "cancelled"] : w \in works}

\* The run ends: failures, and the works before and after them, are told.
Finish(m, s, fails) ==
  /\ step' = "off" /\ targets' = <<>> /\ aborted' = FALSE
  /\ selectionMode' = FALSE /\ selectedIds' = {}
  /\ moved' = m /\ skipped' = s /\ failures' = fails
  /\ report' = [moved |-> m, skipped |-> s, failures |-> fails]

\* One work is done with; the others wait their turn.
NextWork(m, s, pause) ==
  IF Len(targets) = 1 THEN Finish(m, s, failures)
  ELSE /\ step' = pause /\ targets' = Tail(targets)
       /\ moved' = m /\ skipped' = s
       /\ UNCHANGED <<selection, aborted, failures, report>>

Stop(kind) ==
  Finish(moved, skipped, failures \cup {[id |-> Head(targets), kind |-> kind]}
                           \cup Cancelled(Range(Tail(targets))))

\* Mutant: cancelled between the two calls of a work.
HonoursAnywhere == aborted /\ step \in {"boundary", "like"}
HonoursCancel == aborted /\ step = "boundary"

Stops ==
  /\ HonoursCancel
  /\ Finish(moved, skipped, failures \cup Cancelled(Range(targets)))
  /\ UNCHANGED <<onPile, pixiv, taps, before>>

Boundary ==
  /\ step = "boundary" /\ ~aborted
  /\ step' = "unlike"
  /\ UNCHANGED <<onPile, selection, targets, aborted, tally, report, pixiv, taps, before>>

\* the list on view may be stale: the work may have been moved before
BookmarkDelete(w) == public' = public \ {w} /\ private' = private \ {w}

\* A work that is gone upstream is skipped, without a pause.
Unlike ==
  LET w == Head(targets) IN
  /\ step = "unlike"
  /\ \/ /\ w \notin gone /\ BookmarkDelete(w)
        /\ step' = "like"
        /\ UNCHANGED <<selection, targets, aborted, tally, report>>
     \/ /\ w \in gone /\ NextWork(moved, skipped + 1, "boundary")
        /\ UNCHANGED <<public, private>>
     \/ /\ Stop("delete")
        /\ UNCHANGED <<public, private>> \/ (Lossy /\ BookmarkDelete(w))
  /\ UNCHANGED <<onPile, gone, taps, before>>

Like ==
  LET w == Head(targets) IN
  /\ step = "like" /\ ~HonoursCancel
  /\ \/ /\ w \notin gone /\ private' = private \cup {w}
        /\ NextWork(moved + 1, skipped, "pace")
     \/ /\ w \in gone /\ NextWork(moved, skipped + 1, "boundary")
        /\ private' = private
     \/ /\ Stop("add")
        /\ private' \in (IF Lossy THEN {private, private \cup {w}} ELSE {private})
  /\ UNCHANGED <<onPile, public, gone, taps, before>>

PaceOver ==
  /\ step = "pace" /\ step' = "boundary"
  /\ UNCHANGED <<onPile, selection, targets, aborted, tally, report, pixiv, taps, before>>

\* An artist deletes a work.
Deleted(w) ==
  /\ gone' = gone \cup {w} /\ w \notin gone
  /\ public' = public \ {w} /\ private' = private \ {w}
  /\ UNCHANGED <<onPile, selection, step, targets, aborted, tally, report, taps, before>>

RunStep == Stops \/ Boundary \/ Unlike \/ Like \/ PaceOver
Next == User \/ RunStep \/ \E w \in Works : Deleted(w)

Fairness == WF_vars(RunStep)
Spec == Init /\ [][Next]_vars /\ Fairness

-----------------------------------------------------------------------------
TypeOK ==
  /\ selectedIds \subseteq Works /\ targets \in Seq(Works)
  /\ step \in {"off", "boundary", "unlike", "like", "pace"}
  /\ (public \cup private \cup gone) \subseteq Works /\ taps \in 0 .. MaxTaps

\* The report accounts for every bookmark there was: all that it does not call
\* lost are still in a pile, and what it calls not moved is still public (unless
\* the work itself is gone), so that no bookmark is lost in silence.
LossIsTold ==
  report # None =>
    LET Named(kind) == {f.id : f \in {g \in report.failures : g.kind = kind}}
        kept == public \cup private \cup gone IN
    /\ (before.public \cup before.private) \ kept \subseteq Named("add")
    /\ (Named("delete") \cup Named("cancelled")) \cap before.public \subseteq public \cup gone
    /\ Named("add") \cap (public \cup private) = {}

\* A run ends, cancelled or not.
RunEnds == [](running => <>~running)
=============================================================================
