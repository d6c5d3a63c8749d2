---------------------------------- MODULE Taps ----------------------------------
(***************************************************************************)
(* Touches on the cards (FeedCard/gestures.ts, and how FeedCard.tsx and    *)
(* GridFeed.tsx use it): the tap tracker of each card, the pinch detector, *)
(* the immersive mode that hides the header of the layer, and the one      *)
(* budget of synthetic clicks that all trackers of the page share.         *)
(*                                                                         *)
(* Time passes in ticks.  The browser owes a click for every tap, as long  *)
(* as CLICK_BUDGET_MS: it may come late, on another card, labelled a mouse *)
(* click, or not at all.                                                   *)
(***************************************************************************)
EXTENDS Integers, Sequences

CONSTANTS Strip,       \* the cards of a strip (FeedCard)
          Cells,       \* the cells of a grid (GridCell): no pinch, deaf to scrolls
          TapWindow,   \* TAP_WINDOW_MS
          Suppress,    \* CLICK_SUPPRESS_MS
          Life,        \* CLICK_BUDGET_MS
          Late,        \* bound: how late a timer may run
          MaxOwed,     \* bound: clicks the browser owes, units in the budget
          MaxEaten,    \* bound: mouse clicks swallowed
          None

Cards == Strip \cup Cells

ASSUME TapsAssumption ==
  /\ {TapWindow, Suppress, Life, Late, MaxOwed, MaxEaten} \subseteq Nat
  /\ None \notin Cards

VARIABLES
  since,       \* ticks since the tap a card defers, -1 if it defers none
  touch,       \* the fingers on the screen
  budget,      \* clickBudget
  life,        \* ticks until clickBudgetExpiresAt, -1 when it is past
  mute,        \* ticks until suppressUntil of each card, -1 when it is past
  owed,        \* for each click the browser owes: ticks it has left to fire
  eaten,       \* mouse clicks swallowed, less synthetic clicks acted upon
  immersive,   \* the cards in immersive mode
  hidden,      \* the parent's signal: the header of the layer is hidden
  covered,     \* another layer lies over the cards (suppressImages)
  selectable,  \* selection mode
  facing       \* the card of the strip in view

clicks == <<budget, life, mute, owed, eaten>>
looks == <<immersive, hidden, covered>>
vars == <<since, touch, clicks, looks, selectable, facing>>

NoTouch == [card |-> None, fingers |-> 0, active |-> FALSE, pinch |-> {}]

Init ==
  /\ since = [c \in Cards |-> -1]
  /\ touch = NoTouch
  /\ budget = 0 /\ life = -1 /\ mute = [c \in Cards |-> -1]
  /\ owed = <<>> /\ eaten = 0
  /\ immersive = {} /\ hidden = FALSE /\ covered = FALSE
  /\ selectable \in BOOLEAN /\ facing \in Strip

-----------------------------------------------------------------------------
(* What a card does.                                                       *)

\* setImmersive: the parent hears of real transitions only
SetImmersive(c, on) ==
  /\ immersive' = IF on THEN immersive \cup {c} ELSE immersive \ {c}
  /\ hidden' = IF (c \in immersive) = on THEN hidden ELSE on
\* Mutant: the card leaves the mode without a word to its parent.
EndAllQuietly == immersive' = {} /\ hidden' = hidden
\* every card of the layer: setImmersive(false)
EndAllImmersive ==
  /\ immersive' = {}
  /\ hidden' = (immersive = {} /\ hidden)

\* handleSingleTap, handleTap, onSingleTap of a cell: select the work, leave
\* the immersive mode, or open a layer over the cards
Act(c) ==
  \/ /\ selectable
     /\ UNCHANGED looks
  \/ /\ ~selectable /\ c \in immersive
     /\ SetImmersive(c, FALSE)
     /\ UNCHANGED covered
  \/ /\ ~selectable /\ c \notin immersive
     /\ covered' = TRUE
     /\ EndAllImmersive
\* handleDoubleTap toggles the heart, nothing of this module
Keep == UNCHANGED looks

\* cancelPending
Cancel(c) == since' = [since EXCEPT ![c] = -1]

-----------------------------------------------------------------------------
(* Touches.                                                                *)

InView(c) == ~covered /\ (c \in Strip => c = facing)

\* A touch on a control is none of the trackers' business.
TouchStart(c) ==
  /\ touch = NoTouch /\ InView(c)
  /\ touch' \in [card : {c}, fingers : {1}, active : BOOLEAN, pinch : {{}}]
  /\ UNCHANGED <<since, clicks, looks, selectable, facing>>

SecondFinger ==
  /\ touch.fingers = 1
  /\ \E control \in BOOLEAN :
       touch' = [touch EXCEPT !.fingers = 2, !.active = FALSE,
                   !.pinch = IF control \/ touch.card \in Cells THEN {} ELSE BOOLEAN]
  /\ Cancel(touch.card)
  /\ UNCHANGED <<clicks, looks, selectable, facing>>

\* onTouchMove beyond the slop
Move ==
  /\ touch.fingers = 1 /\ touch.active
  /\ touch' = [touch EXCEPT !.active = FALSE]
  /\ Cancel(touch.card)
  /\ UNCHANGED <<clicks, looks, selectable, facing>>

\* the spread or the contraction crosses the threshold, each once a gesture
Pinch ==
  /\ \E on \in touch.pinch :
       /\ touch' = [touch EXCEPT !.pinch = @ \ {on}]
       /\ SetImmersive(touch.card, on)
  /\ mute' = [mute EXCEPT ![touch.card] = Suppress]
  /\ Cancel(touch.card)
  /\ UNCHANGED <<budget, life, owed, eaten, covered, selectable, facing>>

\* The fingers lift after a pinch, a swipe or a touch on a control.
Lift ==
  /\ touch # NoTouch /\ ~touch.active
  /\ touch' = NoTouch
  /\ UNCHANGED <<since, clicks, looks, selectable, facing>>

\* Mutant: the time window alone, as before the budget.
BankNothing(c) ==
  /\ mute' = [mute EXCEPT ![c] = Suppress]
  /\ owed' = Append(owed, Life)
  /\ UNCHANGED <<budget, life, eaten>>
\* One unit for the click that will follow; expired units are dropped.
Bank(c) ==
  /\ budget' = (IF life < 0 THEN 0 ELSE budget) + 1
  /\ life' = Life
  /\ mute' = [mute EXCEPT ![c] = Suppress]
  /\ owed' = Append(owed, Life)
  /\ eaten' = eaten

\* onTouchEnd of a tap, near the one before it or not
TapEnds(near) ==
  LET c == touch.card IN
  /\ touch.active /\ Len(owed) < MaxOwed /\ (life >= 0 => budget < MaxOwed)
  /\ touch' = NoTouch
  /\ Bank(c)
  /\ \/ /\ since[c] \in 0 .. TapWindow /\ near
        /\ Cancel(c) /\ Keep
     \/ /\ ~(since[c] \in 0 .. TapWindow /\ near)
        /\ since' = [since EXCEPT ![c] = 0]
        /\ IF since[c] >= 0 THEN Act(c) ELSE Keep
  /\ UNCHANGED <<selectable, facing>>

TouchCancel ==
  /\ touch # NoTouch
  /\ touch' = NoTouch
  /\ Cancel(touch.card)
  /\ UNCHANGED <<clicks, looks, selectable, facing>>

\* the timer of a deferred tap
SingleFires(c) ==
  /\ since[c] >= TapWindow
  /\ Cancel(c)
  /\ Act(c)
  /\ UNCHANGED <<touch, clicks, selectable, facing>>

-----------------------------------------------------------------------------
(* Clicks.                                                                 *)

\* absorbClick, then what it does to the budget; a unit left over expires
Absorbed == budget > 0 /\ life >= 0
Consume == budget' = (IF Absorbed THEN budget - 1 ELSE 0)

\* The click the browser owes, wherever it lands and whatever its pointerType.
SyntheticClick(c, pointer) ==
  /\ owed # <<>>
  /\ owed' = Tail(owed)
  /\ Consume
  /\ IF ~Absorbed /\ (pointer = "mouse" \/ mute[c] < 0)
     THEN Act(c) /\ eaten' = eaten - 1
     ELSE Keep /\ eaten' = eaten
  /\ UNCHANGED <<since, touch, life, mute, selectable, facing>>

NoClick ==
  /\ owed # <<>>
  /\ owed' = Tail(owed)
  /\ UNCHANGED <<since, touch, budget, life, mute, eaten, looks, selectable, facing>>

MouseClick(c) ==
  /\ InView(c) /\ eaten < MaxEaten
  /\ Consume
  /\ IF Absorbed THEN Keep /\ eaten' = eaten + 1 ELSE Act(c) /\ eaten' = eaten
  /\ UNCHANGED <<since, touch, life, mute, owed, selectable, facing>>

-----------------------------------------------------------------------------
(* Around the card.                                                        *)

\* onContainerScroll, heard by the cards of a strip: after a swipe, or gliding.
\* Two fingers do not scroll, their moves are prevented.
Scroll ==
  /\ ~covered /\ ~touch.active /\ touch.fingers < 2
  /\ touch' = NoTouch
  /\ since' = [c \in Cards |-> IF c \in Strip THEN -1 ELSE since[c]]
  /\ EndAllImmersive
  /\ facing' \in Strip
  /\ UNCHANGED <<clicks, covered, selectable>>

Uncover ==
  /\ covered
  /\ covered' = FALSE
  /\ UNCHANGED <<since, touch, clicks, immersive, hidden, selectable, facing>>

\* The card leaves the list, another takes its place: dispose, onCleanup.
Remount(c) ==
  /\ since' = [since EXCEPT ![c] = -1]
  /\ mute' = [mute EXCEPT ![c] = -1]
  /\ touch' = IF touch.card = c THEN NoTouch ELSE touch
  /\ SetImmersive(c, FALSE)
  /\ UNCHANGED <<budget, life, owed, eaten, covered, selectable, facing>>

SwitchMode ==
  /\ ~covered
  /\ selectable' = ~selectable
  /\ UNCHANGED <<since, touch, clicks, looks, facing>>

Down(t) == IF t < 0 THEN -1 ELSE t - 1
Tick ==
  /\ \A c \in Cards : since[c] < TapWindow + Late
  /\ \A i \in DOMAIN owed : owed[i] > 0
  /\ since' = [c \in Cards |-> IF since[c] < 0 THEN -1 ELSE since[c] + 1]
  /\ mute' = [c \in Cards |-> Down(mute[c])]
  /\ life' = Down(life)
  /\ owed' = [i \in DOMAIN owed |-> owed[i] - 1]
  /\ UNCHANGED <<touch, budget, eaten, looks, selectable, facing>>

Next ==
  \/ \E c \in Cards :
       \/ TouchStart(c)
       \/ SingleFires(c)
       \/ \E pointer \in {"mouse", "touch"} : SyntheticClick(c, pointer)
       \/ MouseClick(c)
       \/ Remount(c)
  \/ \E near \in BOOLEAN : TapEnds(near)
  \/ SecondFinger \/ Move \/ Pinch \/ Lift \/ TouchCancel
  \/ NoClick \/ Scroll \/ Uncover \/ SwitchMode \/ Tick

Spec == Init /\ [][Next]_vars

-----------------------------------------------------------------------------
TypeOK ==
  /\ since \in [Cards -> Int] /\ mute \in [Cards -> Int]
  /\ touch \in [card : Cards \cup {None}, fingers : 0 .. 2, active : BOOLEAN,
                pinch : SUBSET BOOLEAN]
  /\ touch.active => touch.card \in Cards
  /\ budget \in Nat /\ life \in Int /\ owed \in Seq(Nat) /\ eaten \in Int
  /\ immersive \subseteq Cards /\ facing \in Strip
  /\ {hidden, covered, selectable} \subseteq BOOLEAN

\* No click the browser makes up for a tap acts on a card: the clicks acted
\* upon are never more than those the user made with a mouse (absorbClick).
NoGhostClicks == eaten >= 0

\* The header is hidden exactly while a card is immersive, whichever way the
\* card leaves the mode: a tap, a pinch, a scroll, a cover or its unmounting.
ChromeFollows == hidden = (immersive # {})

\* Every click still owed has a live unit of the budget behind it, or a mouse
\* click that was swallowed in its stead.
ClicksCovered ==
  /\ Len(owed) <= (IF life >= 0 THEN budget ELSE 0) + eaten
  /\ \A i \in DOMAIN owed : owed[i] <= life
=============================================================================
