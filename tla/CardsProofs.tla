------------------------------ MODULE CardsProofs ------------------------------
(***************************************************************************)
(* The four parts of a card keep their promises for any cards, pages,      *)
(* works, slots, loads and bounds.                                         *)
(*                                                                         *)
(* Taps.  A click in flight must find a unit of the budget, so every click *)
(* owed has one behind it (ClicksCovered), and the unit must not have      *)
(* expired, so no click is owed for longer than the budget lives.  A card  *)
(* that leaves the immersive mode shows the header again, so no other card *)
(* may be immersive then: only the card in view ever is, and two fingers   *)
(* never lie on any other (TouchOK).                                       *)
(*                                                                         *)
(* Hearts.  A card shows a signal merged with the set likedIds, and only   *)
(* the set is compared with what Pixiv told the page (Believed): so a      *)
(* signal never says more than the set (AfterSeed), which needs one signal *)
(* a work, never given twice (OneSignal, FreshIsFree), and the set is off  *)
(* by the request under way, of which there is one a work.                 *)
(*                                                                         *)
(* Images.  The timers follow what the observer last said (TimersOK), the  *)
(* counter is one page behind the slider at most once its frame is drawn   *)
(* (SliderOK), and the pictures are those of the window at every moment,   *)
(* not only at rest (PicturesOK).                                          *)
(*                                                                         *)
(* Player.  The load whose sequence number is current is the only one, and *)
(* there is none unless the spinner turns and the card is on the screen.   *)
(***************************************************************************)
EXTENDS MCCards, TLAPS, SequenceTheorems, FiniteSetTheorems, WellFoundedInduction

-----------------------------------------------------------------------------
(* Taps: what is invariant.                                                *)

\* A touch lies on a card, one in view; only a card of the strip pinches.
TouchOK ==
  /\ touch \in [card : Cards \cup {None}, fingers : 0 .. 2, active : BOOLEAN,
               pinch : SUBSET BOOLEAN]
  /\ touch.active => touch.card \in Cards
  /\ touch.fingers = 1 => touch.card \in Cards
  /\ touch.card \in Strip => touch.card = facing
  /\ touch.pinch # {} => touch.card \in Strip
\* The part of the type that the looks make up; no card out of view is immersive.
LooksOK == immersive \subseteq {facing} /\ {hidden, covered} \subseteq BOOLEAN
\* The part about clicks, with what makes it inductive.
ClicksOK ==
  /\ mute \in [Cards -> Int] /\ budget \in Nat /\ life \in Int /\ owed \in Seq(Nat)
  /\ eaten \in Int /\ ClicksCovered /\ NoGhostClicks /\ life <= Life
RestOK == since \in [Cards -> Int] /\ selectable \in BOOLEAN /\ facing \in Strip

TapsInv == TouchOK /\ LooksOK /\ ChromeFollows /\ ClicksOK /\ RestOK

-----------------------------------------------------------------------------
(* The looks.                                                              *)

\* setImmersive keeps the parent's signal in step (gestures.ts, FeedCard.tsx),
\* as long as no other card is immersive.
LEMMA SetImmersiveKeeps ==
  ASSUME LooksOK, ChromeFollows, NEW c \in Cards, NEW on \in BOOLEAN,
         on => c = facing, SetImmersive(c, on), covered' \in BOOLEAN, facing' = facing
  PROVE  LooksOK' /\ ChromeFollows'
<1> USE DEF LooksOK, ChromeFollows, SetImmersive
<1>1. CASE on = TRUE /\ c \in immersive
  BY <1>1
<1>2. CASE on = TRUE /\ c \notin immersive
  BY <1>2
<1>3. CASE on = FALSE /\ c \in immersive
  BY <1>3
<1>4. CASE on = FALSE /\ c \notin immersive
  <2>1. immersive' = immersive
    BY <1>4
  <2>2. hidden' = hidden
    BY <1>4
  <2> QED
    BY <2>1, <2>2
<1> QED
  BY <1>1, <1>2, <1>3, <1>4

\* A scroll or a cover ends every immersive card and tells the parent.
LEMMA EndAllKeeps ==
  ASSUME LooksOK, ChromeFollows, EndAllImmersive, covered' \in BOOLEAN
  PROVE  LooksOK' /\ ChromeFollows'
  BY DEF LooksOK, ChromeFollows, EndAllImmersive

\* Whatever a tap or a click does to a card, the parent hears of it.
LEMMA ActKeeps ==
  ASSUME LooksOK, ChromeFollows, NEW c \in Cards, Act(c), facing' = facing
  PROVE  LooksOK' /\ ChromeFollows'
<1>1. CASE UNCHANGED looks
  BY <1>1 DEF LooksOK, ChromeFollows, looks
<1>2. CASE SetImmersive(c, FALSE) /\ UNCHANGED covered
  BY <1>2, SetImmersiveKeeps DEF LooksOK
<1>3. CASE covered' = TRUE /\ EndAllImmersive
  BY <1>3, EndAllKeeps
<1> QED
  BY <1>1, <1>2, <1>3 DEF Act

-----------------------------------------------------------------------------
(* The clicks.                                                             *)

\* A tap banks one unit for one click, and both live equally long.
LEMMA BankKeeps ==
  ASSUME ClicksOK, NEW c \in Cards, Bank(c)
  PROVE  ClicksOK'
<1> USE DEF ClicksOK, ClicksCovered, NoGhostClicks
<1>1. Life \in Nat /\ Suppress \in Nat
  BY TapsAssumption
<1>2. life < 0 => owed = <<>>
  <2>1. SUFFICES ASSUME life < 0, Len(owed) > 0 PROVE FALSE
    OBVIOUS
  <2>2. 1 \in DOMAIN owed /\ owed[1] \in Nat
    BY <2>1
  <2> QED BY <2>1, <2>2
<1>3. owed' \in Seq(Nat) /\ Len(owed') = Len(owed) + 1
  BY <1>1 DEF Bank
<1>4. \A i \in DOMAIN owed' : owed'[i] <= life'
  BY <1>1, <1>3 DEF Bank
<1>5. Len(owed') <= budget' + eaten' /\ life' = Life /\ budget' \in Nat /\ eaten' = eaten
  BY <1>1, <1>2, <1>3 DEF Bank
<1> QED
  BY <1>1, <1>3, <1>4, <1>5 DEF Bank

\* Nothing is owed once the budget has expired.
LEMMA NothingOwed ==
  ASSUME ClicksOK, life < 0
  PROVE  owed = <<>>
<1> USE DEF ClicksOK, ClicksCovered
<1>1. SUFFICES ASSUME Len(owed) > 0 PROVE FALSE
  OBVIOUS
<1>2. 1 \in DOMAIN owed /\ owed[1] \in Nat
  BY <1>1
<1> QED
  BY <1>2

\* A click of the browser's takes its unit, or stands for one that was taken.
LEMMA SyntheticKeeps ==
  ASSUME ClicksOK, NEW c \in Cards, NEW pointer, SyntheticClick(c, pointer)
  PROVE  ClicksOK'
<1> USE DEF ClicksOK, ClicksCovered, NoGhostClicks
<1>1. /\ owed # <<>> /\ owed' = Tail(owed) /\ life' = life /\ mute' = mute
      /\ eaten' \in {eaten, eaten - 1} /\ Consume
  BY DEF SyntheticClick
<1>2. Len(owed) > 0 /\ owed' \in Seq(Nat) /\ Len(owed') = Len(owed) - 1
  BY <1>1
<1>3. \A i \in DOMAIN owed' : owed'[i] <= life
  BY <1>1, <1>2
<1>4. life >= 0
  BY <1>2, NothingOwed
<1>5. CASE Absorbed
  <2>1. eaten' = eaten /\ budget' = budget - 1 /\ budget > 0
    BY <1>5, <1>1 DEF SyntheticClick, Consume, Absorbed
  <2> QED
    BY <1>1, <1>2, <1>3, <1>4, <2>1
<1>6. CASE ~Absorbed
  <2>1. budget = 0 /\ budget' = 0
    BY <1>6, <1>1, <1>4 DEF Consume, Absorbed
  <2>2. eaten >= Len(owed)
    BY <2>1
  <2> QED
    BY <1>1, <1>2, <1>3, <1>4, <2>1, <2>2
<1> QED
  BY <1>5, <1>6

\* A mouse click that takes a unit is counted in its stead.
LEMMA MouseKeeps ==
  ASSUME ClicksOK, NEW c \in Cards, MouseClick(c)
  PROVE  ClicksOK'
<1> USE DEF ClicksOK, ClicksCovered, NoGhostClicks, MouseClick, Consume, Absorbed
<1>1. owed' = owed /\ life' = life /\ mute' = mute
  OBVIOUS
<1>2. CASE budget > 0 /\ life >= 0
  BY <1>1, <1>2
<1>3. CASE ~(budget > 0 /\ life >= 0)
  BY <1>1, <1>3
<1> QED
  BY <1>2, <1>3

\* Time never outruns a click: what is still owed is owed for no longer than
\* the budget lives.
LEMMA TickKeeps ==
  ASSUME ClicksOK, Tick
  PROVE  ClicksOK'
<1> USE DEF ClicksOK, ClicksCovered, NoGhostClicks, Tick, Down
<1>1. mute' \in [Cards -> Int] /\ life' \in Int /\ budget' = budget /\ eaten' = eaten
  OBVIOUS
<1>2. \A i \in DOMAIN owed : owed[i] \in Nat /\ owed[i] > 0
  OBVIOUS
<1>3. owed' \in Seq(Nat) /\ Len(owed') = Len(owed) /\ DOMAIN owed' = DOMAIN owed
  <2>1. owed' = [i \in 1 .. Len(owed) |-> owed[i] - 1]
    OBVIOUS
  <2>2. \A i \in 1 .. Len(owed) : owed[i] - 1 \in Nat
    BY <1>2
  <2>3. owed' \in [1 .. Len(owed) -> Nat]
    BY <2>1, <2>2
  <2> QED
    BY <2>1, <2>3
<1>4. CASE life < 0
  <2>1. owed = <<>>
    BY <1>4, NothingOwed
  <2>2. Len(owed') = 0 /\ life' = -1
    BY <1>3, <1>4, <2>1
  <2> QED
    BY <1>1, <1>3, <1>4, <2>2, TapsAssumption
<1>5. CASE life >= 0
  <2>1. life' = life - 1
    BY <1>5
  <2>2. \A i \in DOMAIN owed' : owed'[i] <= life'
    BY <1>3, <2>1
  <2>3. life = 0 => Len(owed) = 0
    <3>1. SUFFICES ASSUME life = 0, Len(owed) > 0 PROVE FALSE
      BY <1>3
    <3>2. 1 \in DOMAIN owed
      BY <3>1
    <3> QED
      BY <3>1, <3>2, <1>2
  <2>4. CASE life = 0
    BY <1>1, <1>3, <2>1, <2>2, <2>3, <2>4, TapsAssumption
  <2>5. CASE life > 0
    <3>1. life' >= 0 /\ life' <= Life /\ life' \in Int
      BY <2>1, <2>5, TapsAssumption
    <3>2. Len(owed') <= budget' + eaten'
      BY <1>1, <1>3, <2>5
    <3> QED
      BY <1>1, <1>3, <2>2, <3>1, <3>2
  <2> QED
    BY <1>5, <2>4, <2>5
<1> QED
  BY <1>4, <1>5

-----------------------------------------------------------------------------
(* Every step of a touch, a click or a timer.                              *)

\* The first state is in order.
LEMMA TapsInit == Init => TapsInv
<1> USE DEF Init, NoTouch, TapsInv
<1>1. Init => TouchOK
  BY TapsAssumption DEF TouchOK, Cards
<1>2. Init => LooksOK /\ ChromeFollows /\ RestOK
  <2>1. Init => LooksOK
    BY DEF LooksOK
  <2>3. Init => RestOK
    BY DEF RestOK
  <2>2. Init => (immersive # {}) = FALSE /\ hidden = FALSE
    OBVIOUS
  <2> QED
    BY <2>1, <2>2, <2>3 DEF ChromeFollows
<1>3. Init => ClicksOK
  BY TapsAssumption DEF ClicksOK, ClicksCovered, NoGhostClicks
<1> QED
  BY <1>1, <1>2, <1>3

\* No finger on the screen is always in order.
LEMMA NoTouchOK ==
  ASSUME touch' = NoTouch
  PROVE  TouchOK'
  BY TapsAssumption DEF TouchOK, NoTouch, Cards

\* The parts an action leaves alone.
LEMMA Unchanged ==
  ASSUME TapsInv
  PROVE  /\ UNCHANGED <<touch, facing>> => TouchOK'
         /\ UNCHANGED <<looks, facing>> => LooksOK' /\ ChromeFollows'
         /\ UNCHANGED clicks => ClicksOK'
         /\ UNCHANGED <<since, selectable, facing>> => RestOK'
<1>1. UNCHANGED <<touch, facing>> => TouchOK'
  BY DEF TapsInv, TouchOK
<1>2. UNCHANGED <<looks, facing>> => LooksOK' /\ ChromeFollows'
  BY DEF TapsInv, LooksOK, ChromeFollows, looks
<1>3. UNCHANGED clicks => ClicksOK'
  BY DEF TapsInv, ClicksOK, ClicksCovered, NoGhostClicks, clicks
<1>4. UNCHANGED <<since, selectable, facing>> => RestOK'
  BY DEF TapsInv, RestOK
<1> QED
  BY <1>1, <1>2, <1>3, <1>4

\* A deferred tap can be cancelled on any card.
LEMMA CancelKeeps ==
  ASSUME NEW c, Cancel(c), since \in [Cards -> Int]
  PROVE  since' \in [Cards -> Int]
<1>1. since' = [x \in Cards |-> IF x = c THEN -1 ELSE since[x]]
  BY DEF Cancel
<1> QED
  BY <1>1

\* Every action keeps every part.
LEMMA TapsNext == TapsInv /\ [Next]_vars => TapsInv'
<1> SUFFICES ASSUME TapsInv, [Next]_vars PROVE TapsInv'
  OBVIOUS
<1> USE DEF TapsInv
<1>1. ASSUME NEW c \in Cards, TouchStart(c) PROVE TapsInv'
  <2>1. TouchOK'
    BY <1>1 DEF TouchStart, InView, TouchOK, Cards, RestOK
  <2> QED
    BY <1>1, <2>1, Unchanged DEF TouchStart
<1>2. ASSUME NEW c \in Cards, SingleFires(c) PROVE TapsInv'
  <2>1. RestOK'
    BY <1>2 DEF SingleFires, Cancel, RestOK
  <2>2. LooksOK' /\ ChromeFollows'
    BY <1>2, ActKeeps DEF SingleFires
  <2> QED
    BY <1>2, <2>1, <2>2, Unchanged DEF SingleFires
<1>3. ASSUME NEW c \in Cards, NEW pointer \in {"mouse", "touch"}, SyntheticClick(c, pointer)
      PROVE TapsInv'
  <2>1. LooksOK' /\ ChromeFollows'
    BY <1>3, ActKeeps, Unchanged DEF SyntheticClick, Keep
  <2> QED
    BY <1>3, <2>1, SyntheticKeeps, Unchanged DEF SyntheticClick
<1>4. ASSUME NEW c \in Cards, MouseClick(c) PROVE TapsInv'
  <2>1. LooksOK' /\ ChromeFollows'
    BY <1>4, ActKeeps, Unchanged DEF MouseClick, Keep
  <2> QED
    BY <1>4, <2>1, MouseKeeps, Unchanged DEF MouseClick
<1>5. ASSUME NEW c \in Cards, Remount(c) PROVE TapsInv'
  <2>1. LooksOK' /\ ChromeFollows'
    BY <1>5, SetImmersiveKeeps DEF Remount, LooksOK
  <2>2. ClicksOK'
    BY <1>5 DEF Remount, ClicksOK, ClicksCovered, NoGhostClicks
  <2>3. TouchOK'
    BY <1>5, NoTouchOK, Unchanged DEF Remount
  <2>4. RestOK'
    BY <1>5 DEF Remount, RestOK
  <2> QED
    BY <2>1, <2>2, <2>3, <2>4
<1>6. ASSUME NEW again \in BOOLEAN, TapEnds(again) PROVE TapsInv'
  <2> DEFINE c == touch.card
  <2>1. c \in Cards
    BY <1>6 DEF TapEnds, TouchOK
  <2>2. LooksOK' /\ ChromeFollows'
    BY <1>6, <2>1, ActKeeps, Unchanged DEF TapEnds, Keep
  <2>3. RestOK'
    BY <1>6, <2>1 DEF TapEnds, Cancel, RestOK
  <2>4. ClicksOK'
    BY <1>6, <2>1, BankKeeps DEF TapEnds
  <2>5. TouchOK'
    BY <1>6, NoTouchOK DEF TapEnds
  <2> QED
    BY <2>2, <2>3, <2>4, <2>5
<1>7. ASSUME SecondFinger PROVE TapsInv'
  <2>1. touch.card \in Cards
    BY <1>7 DEF SecondFinger, TouchOK
  <2>2. PICK pinch \in SUBSET BOOLEAN :
          /\ touch' = [touch EXCEPT !.fingers = 2, !.active = FALSE, !.pinch = pinch]
          /\ pinch # {} => touch.card \notin Cells
    BY <1>7 DEF SecondFinger
  <2>4. TouchOK'
    <3>1. touch' = [card |-> touch.card, fingers |-> 2, active |-> FALSE, pinch |-> pinch]
      BY <2>2 DEF TouchOK
    <3>2. touch' \in [card : Cards \cup {None}, fingers : 0 .. 2, active : BOOLEAN,
                     pinch : SUBSET BOOLEAN]
      BY <2>1, <3>1
    <3>3. facing' = facing
      BY <1>7 DEF SecondFinger
    <3>4. pinch # {} => touch.card \in Strip
      BY <2>1, <2>2 DEF Cards
    <3> QED
      BY <2>1, <3>1, <3>2, <3>3, <3>4 DEF TouchOK
  <2>3. RestOK'
    BY <1>7, <2>1 DEF SecondFinger, Cancel, RestOK
  <2> QED
    BY <1>7, <2>3, <2>4, Unchanged DEF SecondFinger
<1>8. ASSUME Move PROVE TapsInv'
  <2>1. TouchOK'
    BY <1>8 DEF Move, TouchOK
  <2>2. RestOK'
    BY <1>8, CancelKeeps DEF Move, RestOK
  <2> QED
    BY <1>8, <2>1, <2>2, Unchanged DEF Move
<1>9. ASSUME Pinch PROVE TapsInv'
  <2>1. PICK on \in touch.pinch :
          /\ touch' = [touch EXCEPT !.pinch = @ \ {on}]
          /\ SetImmersive(touch.card, on)
    BY <1>9 DEF Pinch
  <2>2. on \in BOOLEAN /\ touch.card \in Cards /\ touch.card = facing
    BY <2>1 DEF TouchOK, Cards
  <2>3. LooksOK' /\ ChromeFollows'
    BY <1>9, <2>1, <2>2, SetImmersiveKeeps DEF Pinch, LooksOK
  <2>4. TouchOK'
    BY <1>9, <2>1, <2>2 DEF Pinch, TouchOK
  <2>5. ClicksOK'
    BY <1>9, <2>2, TapsAssumption DEF Pinch, ClicksOK, ClicksCovered, NoGhostClicks
  <2>6. RestOK'
    BY <1>9, <2>2 DEF Pinch, Cancel, RestOK
  <2> QED
    BY <2>3, <2>4, <2>5, <2>6
<1>10. ASSUME Lift PROVE TapsInv'
  BY <1>10, NoTouchOK, Unchanged DEF Lift
<1>11. ASSUME TouchCancel PROVE TapsInv'
  <2>1. RestOK'
    BY <1>11, CancelKeeps DEF TouchCancel, RestOK
  <2> QED
    BY <1>11, <2>1, NoTouchOK, Unchanged DEF TouchCancel
<1>12. ASSUME NoClick PROVE TapsInv'
  <2> USE DEF ClicksOK, ClicksCovered, NoGhostClicks
  <2>1. Len(owed) > 0 /\ owed' \in Seq(Nat) /\ Len(owed') = Len(owed) - 1
    BY <1>12 DEF NoClick
  <2>2. \A i \in DOMAIN owed' : owed'[i] <= life'
    BY <1>12, <2>1 DEF NoClick
  <2>3. ClicksOK'
    BY <1>12, <2>1, <2>2 DEF NoClick
  <2> QED
    BY <1>12, <2>3, Unchanged DEF NoClick, looks
<1>13. ASSUME Scroll PROVE TapsInv'
  <2>1. LooksOK' /\ ChromeFollows'
    BY <1>13, EndAllKeeps DEF Scroll, LooksOK
  <2>2. RestOK'
    BY <1>13 DEF Scroll, RestOK
  <2> QED
    BY <1>13, <2>1, <2>2, NoTouchOK, Unchanged DEF Scroll
<1>14. ASSUME Uncover PROVE TapsInv'
  <2>1. LooksOK' /\ ChromeFollows'
    BY <1>14 DEF Uncover, LooksOK, ChromeFollows
  <2> QED
    BY <1>14, <2>1, Unchanged DEF Uncover
<1>15. ASSUME SwitchMode PROVE TapsInv'
  <2>1. RestOK'
    BY <1>15 DEF SwitchMode, RestOK
  <2> QED
    BY <1>15, <2>1, Unchanged DEF SwitchMode
<1>16. ASSUME Tick PROVE TapsInv'
  <2>1. RestOK'
    BY <1>16 DEF Tick, RestOK
  <2> QED
    BY <1>16, <2>1, TickKeeps, Unchanged DEF Tick
<1>17. ASSUME UNCHANGED vars PROVE TapsInv'
  BY <1>17, Unchanged DEF vars
<1> QED
  BY <1>1, <1>2, <1>3, <1>4, <1>5, <1>6, <1>7, <1>8, <1>9, <1>10, <1>11, <1>12, <1>13,
     <1>14, <1>15, <1>16, <1>17 DEF Next

\* The inductive invariant.
THEOREM TapsInductive == Spec => []TapsInv
  BY TapsInit, TapsNext, PTL DEF Spec

\* Every variable keeps its type.
THEOREM TypeCorrect == Spec => []TypeOK
<1>1. TapsInv => TypeOK
  BY DEF TapsInv, TouchOK, LooksOK, ClicksOK, RestOK, TypeOK, Cards
<1> QED
  BY <1>1, TapsInductive, PTL

\* No click that a browser makes up for a tap acts on a card, however late it
\* comes, whichever card it lands on and whatever it calls itself (absorbClick).
THEOREM NoGhosts == Spec => []NoGhostClicks
<1>1. TapsInv => NoGhostClicks
  BY DEF TapsInv, ClicksOK
<1> QED
  BY <1>1, TapsInductive, PTL

\* The header of a layer is hidden exactly while one of its cards is immersive,
\* whichever way the card leaves the mode (setImmersive, endImmersive).
THEOREM Chrome == Spec => []ChromeFollows
<1>1. TapsInv => ChromeFollows
  BY DEF TapsInv
<1> QED
  BY <1>1, TapsInductive, PTL

-----------------------------------------------------------------------------
(* The player.                                                             *)

\* The runs of loadFrames.
FrameLoads == [stage : {"meta", "zip", "decode"}, current : BOOLEAN]
\* A run of loadFrames that has not been made stale.
Current(l) == frameLoad[l] # None /\ frameLoad[l].current
\* The card is on the screen, or the observer has yet to say that it has left.
OnScreen == seen = TRUE \/ visible

\* The invariant of the player.
PlayerInv ==
  /\ status \in {"idle", "loading", "playing", "paused"}
  /\ frameLoad \in [Loads -> FrameLoads \cup {None}] /\ {frames, visible} \subseteq BOOLEAN
  /\ loops = IF status = "playing" THEN 1 ELSE 0
  /\ \A l \in Loads : Current(l) => status = "loading" /\ OnScreen
  /\ \A l, k \in Loads : Current(l) /\ Current(k) => l = k
  /\ PlaysOnScreenOnly

\* The loads that a step leaves alone or only makes stale.
LEMMA FewerLoads ==
  ASSUME PlayerInv, \A l \in Loads : Current(l)' => Current(l),
         frameLoad' \in [Loads -> FrameLoads \cup {None}]
  PROVE  /\ \A l \in Loads : Current(l)' => status = "loading" /\ OnScreen
         /\ \A l, k \in Loads : Current(l)' /\ Current(k)' => l = k
  BY DEF PlayerInv

\* At first nothing is loaded.
LEMMA PlayerInit == Player!Init => PlayerInv
  BY DEF Player!Init, PlayerInv, Current, PlaysOnScreenOnly, Player!PlaysOnScreenOnly

\* A stale load stays stale.
LEMMA PlayerStops ==
  ASSUME NEW load \in FrameLoads \cup {None}, NEW stage
  PROVE  /\ Player!Stop(load) \in FrameLoads \cup {None}
         /\ Player!Stale(load, stage) \in FrameLoads \cup {None}
         /\ Player!Stop(load) = None \/ ~Player!Stop(load).current
         /\ Player!Stale(load, stage) = None \/ ~Player!Stale(load, stage).current
<1> USE DEF FrameLoads, Player!Stop, Player!Stale
<1>1. CASE load = None
  BY <1>1
<1>2. CASE load # None
  <2>1. load = [stage |-> load.stage, current |-> load.current]
    BY <1>2
  <2>2. Player!Stop(load) = [stage |-> load.stage, current |-> FALSE]
    BY <1>2, <2>1
  <2>3. Player!Stale(load, stage) \in {None, Player!Stop(load)}
    BY <1>2
  <2> QED
    BY <1>2, <2>1, <2>2, <2>3
<1> QED
  BY <1>1, <1>2

\* A step of one load.
LEMMA PlayerFrameStep ==
  ASSUME PlayerInv, NEW l \in Loads, Player!FrameStep(l)
  PROVE  PlayerInv'
<1> USE DEF PlaysOnScreenOnly, Player!PlaysOnScreenOnly, Player!Ended, Player!picture,
            Player!screen, OnScreen
<1>1. CASE Player!MetaFetched(l) \/ Player!ZipFetched(l)
  <2>1. PICK load \in FrameLoads \cup {None} :
          /\ frameLoad' = [frameLoad EXCEPT ![l] = load]
          /\ frameLoad[l] # None
          /\ load = None \/ load.current = frameLoad[l].current
    <3>1. CASE Player!MetaFetched(l) /\ ~frameLoad[l].current
      BY <1>1, <3>1 DEF Player!MetaFetched, PlayerInv
    <3>2. CASE ~(Player!MetaFetched(l) /\ ~frameLoad[l].current)
      <4>1. PICK stage \in {"zip", "decode"} : frameLoad' = [frameLoad EXCEPT ![l].stage = stage]
        BY <1>1, <3>2 DEF Player!MetaFetched, Player!ZipFetched
      <4>2. frameLoad[l] # None /\ frameLoad[l] \in FrameLoads
        BY <1>1 DEF Player!MetaFetched, Player!ZipFetched, PlayerInv
      <4>3. [frameLoad[l] EXCEPT !.stage = stage]
              = [stage |-> stage, current |-> frameLoad[l].current]
        BY <4>2 DEF FrameLoads
      <4> DEFINE load == [stage |-> stage, current |-> frameLoad[l].current]
      <4>4. frameLoad' = [frameLoad EXCEPT ![l] = load]
        BY <4>1, <4>3
      <4>5. load \in FrameLoads /\ load.current = frameLoad[l].current
        BY <4>2 DEF FrameLoads
      <4> HIDE DEF load
      <4> QED
        BY <4>2, <4>4, <4>5
    <3> QED
      BY <3>1, <3>2
  <2>2. UNCHANGED <<status, frames, canvas, loops, visible, seen>>
    BY <1>1 DEF Player!MetaFetched, Player!ZipFetched
  <2>5. frameLoad \in [Loads -> FrameLoads \cup {None}]
    BY DEF PlayerInv
  <2>3. frameLoad' \in [Loads -> FrameLoads \cup {None}]
    BY <2>1, <2>5
  <2>7. \A k \in Loads : frameLoad'[k] = IF k = l THEN load ELSE frameLoad[k]
    BY <2>1, <2>5
  <2>4. \A k \in Loads : Current(k)' => Current(k)
    BY <2>1, <2>7 DEF Current
  <2> QED
    BY <2>2, <2>3, <2>4, FewerLoads DEF PlayerInv
<1>2. CASE Player!FramesDecoded(l) \/ Player!FramesFail(l)
  <2>1. frameLoad' = [frameLoad EXCEPT ![l] = None]
    BY <1>2 DEF Player!FramesDecoded, Player!FramesFail
  <2>2. frameLoad' \in [Loads -> FrameLoads \cup {None}]
    BY <2>1 DEF PlayerInv
  <2>3. \A k \in Loads : Current(k)' => Current(k) /\ k # l
    BY <2>1 DEF Current, PlayerInv
  <2>4. CASE ~frameLoad[l].current
    <3>1. UNCHANGED <<status, frames, canvas, loops, visible, seen>>
      BY <1>2, <2>4 DEF Player!FramesDecoded, Player!FramesFail
    <3> QED
      BY <3>1, <2>2, <2>3, FewerLoads DEF PlayerInv
  <2>5. CASE frameLoad[l].current
    <3>1. Current(l) /\ status = "loading" /\ OnScreen /\ loops = 0
      BY <1>2, <2>5 DEF Player!FramesDecoded, Player!FramesFail, PlayerInv, Current
    <3>2. \A k \in Loads : ~Current(k)'
      BY <2>3, <3>1 DEF PlayerInv
    <3>3. CASE Player!FramesDecoded(l)
      <4>1. /\ frames' = TRUE /\ canvas' = "frame" /\ status' = "playing" /\ loops' = 1
            /\ UNCHANGED <<visible, seen>>
        BY <2>5, <3>1, <3>3 DEF Player!FramesDecoded
      <4> QED
        BY <2>2, <3>1, <3>2, <4>1 DEF PlayerInv
    <3>4. CASE Player!FramesFail(l)
      <4>1. status' = "idle" /\ UNCHANGED <<frames, canvas, loops, visible, seen>>
        BY <2>5, <3>4 DEF Player!FramesFail
      <4> QED
        BY <2>2, <3>1, <3>2, <4>1 DEF PlayerInv
    <3> QED
      BY <1>2, <3>3, <3>4
  <2> QED
    BY <2>4, <2>5
<1> QED
  BY <1>1, <1>2 DEF Player!FrameStep

\* Every step of the player keeps its invariant: a load that is not current changes
\* nothing that is seen, and the current one ends the spinner.
LEMMA PlayerNext == PlayerInv /\ [Player!Next]_player => PlayerInv'
<1> SUFFICES ASSUME PlayerInv, [Player!Next]_player PROVE PlayerInv'
  OBVIOUS
<1> USE DEF PlaysOnScreenOnly, Player!PlaysOnScreenOnly, Player!picture, Player!screen
<1>1. CASE Player!PosterFetched \/ Player!PosterDecoded \/ Player!PosterFails
  <2>1. /\ UNCHANGED <<status, frames, loops, frameLoad, visible, seen>>
        /\ status # "idle" => canvas' = canvas
    BY <1>1 DEF Player!PosterFetched, Player!PosterDecoded, Player!PosterFails
  <2> QED
    BY <2>1 DEF PlayerInv, Current, OnScreen
<1>2. CASE Player!Start
  <2>1. PICK l \in Loads :
          /\ frameLoad[l] = None
          /\ Player!LoadStatic([k \in Loads |->
               IF k = l THEN [stage |-> "meta", current |-> TRUE]
                        ELSE Player!Stop(frameLoad[k])])
    BY <1>2 DEF Player!Start
  <2>2. frameLoad' = [k \in Loads |-> IF k = l THEN [stage |-> "meta", current |-> TRUE]
                                              ELSE Player!Stop(frameLoad[k])]
    BY <2>1 DEF Player!LoadStatic
  <2>3. frameLoad' \in [Loads -> FrameLoads \cup {None}]
    BY <2>2, PlayerStops DEF PlayerInv, FrameLoads
  <2>4. \A k \in Loads : Current(k)' => k = l
    BY <2>2, PlayerStops DEF PlayerInv, Current
  <2>5. /\ status = "idle" /\ status' = "loading" /\ visible
        /\ UNCHANGED <<frames, canvas, loops, visible, seen>>
    BY <1>2 DEF Player!Start
  <2> QED
    BY <2>3, <2>4, <2>5 DEF PlayerInv, OnScreen
<1>3. CASE Player!Pause
  BY <1>3 DEF Player!Pause, Player!ClearTimer, PlayerInv, Current, OnScreen
<1>4. CASE Player!Resume
  BY <1>4 DEF Player!Resume, PlayerInv, Current, OnScreen
<1>5. CASE Player!Step
  BY <1>5 DEF Player!Step, PlayerInv, Current, OnScreen
<1>6. ASSUME NEW l \in Loads, Player!FrameStep(l) PROVE PlayerInv'
  BY <1>6, PlayerFrameStep
<1>7. CASE Player!Move
  <2>1. OnScreen => OnScreen'
    BY <1>7 DEF Player!Move, OnScreen
  <2> QED
    BY <1>7, <2>1 DEF Player!Move, PlayerInv, Current, OnScreen
<1>8. CASE Player!Leave
  <2>1. frameLoad' = [l \in Loads |-> Player!Stale(frameLoad[l], "zip")]
    BY <1>8 DEF Player!Leave
  <2>2. frameLoad' \in [Loads -> FrameLoads \cup {None}]
    BY <2>1, PlayerStops DEF PlayerInv
  <2>3. \A l \in Loads : ~Current(l)'
    BY <2>1, PlayerStops DEF PlayerInv, Current
  <2>4. status' = "idle" /\ frames' = FALSE /\ loops' = 0 /\ visible' = visible
    BY <1>8 DEF Player!Leave, Player!ClearTimer, PlayerInv
  <2> QED
    BY <2>2, <2>3, <2>4 DEF PlayerInv
<1>9. CASE Player!Enter
  <2>1. seen' = TRUE /\ UNCHANGED <<status, frames, canvas, loops, frameLoad, visible>>
    BY <1>9 DEF Player!Enter, Player!LoadStatic
  <2> QED
    BY <2>1 DEF PlayerInv, Current, OnScreen
<1>10. CASE UNCHANGED player
  BY <1>10 DEF player, PlayerInv, Current, OnScreen
<1> QED
  BY <1>1, <1>2, <1>3, <1>4, <1>5, <1>6, <1>7, <1>8, <1>9, <1>10 DEF Player!Next

-----------------------------------------------------------------------------
(* The images.                                                             *)

\* The pages that should hold a picture (shouldLoad).
Wanted == Image!Loading(active, live, settled)
\* The timers agree with what the observer last said.
TimersOK ==
  /\ {suppressed, near, active, loadTimer, unloadTimer} \subseteq BOOLEAN
  /\ told \in BOOLEAN \cup {None} /\ (suppressed => told = None)
  /\ told = None => ~active /\ ~loadTimer /\ ~unloadTimer
  /\ told = TRUE => ~unloadTimer /\ (active \/ loadTimer)
  /\ told = FALSE => ~loadTimer /\ (active => unloadTimer)
\* The counter is at most one page behind once its frame is drawn.
SliderOK ==
  /\ at \in Image!Pages /\ live \in Image!Pages /\ settled \in Image!Pages
  /\ raf \in BOOLEAN
  /\ ~raf => (gliding => live = at) /\ at - live <= 1 /\ live - at <= 1
\* The pictures are those of the pages wanted, and nothing is forgotten.
PicturesOK ==
  /\ img \in [Image!Pages -> {"pixel", "fetching", "done", "failed"}]
  /\ loaded \cup failed \subseteq Wanted
  /\ \A p \in Image!Pages : /\ img[p] = "pixel" <=> p \notin Wanted
                            /\ img[p] = "done" => p \in loaded
                            /\ img[p] = "failed" => p \in failed
ImagesInv == TimersOK /\ SliderOK /\ PicturesOK

\* At rest no timer is left and no picture is on its way, so the rest follows.
LEMMA ImagesAtRest == ImagesInv => WindowAtRest
<1> SUFFICES ASSUME ImagesInv, Image!AtRest PROVE WindowAtRest
  BY DEF WindowAtRest, Image!WindowAtRest
<1> USE DEF ImagesInv, Image!AtRest
<1>1. active = (near /\ ~suppressed)
  BY CardsAssumption DEF TimersOK
<1>2. {p \in Image!Pages : img[p] # "pixel"} = Wanted
  <2>1. Wanted \subseteq Image!Pages
    BY DEF Wanted, Image!Loading, Image!Window
  <2> QED
    BY <2>1 DEF PicturesOK
<1>3. active => at \in Image!Window(live, settled)
  BY CardsAssumption DEF SliderOK, Image!Window, Image!Pages
<1>4. loaded \cup failed = Wanted
  BY <1>2 DEF PicturesOK
<1>5. \A p \in Image!Pages : img[p] = "done" => p \in loaded
  BY DEF PicturesOK
<1> QED
  BY <1>1, <1>2, <1>3, <1>4, <1>5 DEF WindowAtRest, Image!WindowAtRest, Wanted

\* A new card shows pixels.
LEMMA ImagesInit == Image!Init => ImagesInv
<1> SUFFICES ASSUME Image!Init PROVE ImagesInv
  OBVIOUS
<1> USE CardsAssumption DEF Image!Init
<1>1. TimersOK
  BY DEF TimersOK
<1>2. SliderOK
  <2>1. 0 \in Image!Pages
    BY DEF Image!Pages
  <2>2. at - live <= 1 /\ live - at <= 1
    OBVIOUS
  <2> QED
    BY <2>1, <2>2 DEF SliderOK
<1>3. PicturesOK
  BY DEF PicturesOK, Wanted, Image!Loading
<1> QED
  BY <1>1, <1>2, <1>3 DEF ImagesInv

\* What the effects make of the pages.
LEMMA SettingsKeep ==
  ASSUME PicturesOK, Image!Settings
  PROVE  PicturesOK'
<1> DEFINE keep == Wanted'
<1>1. /\ loaded' = loaded \cap keep /\ failed' = failed \cap keep
      /\ img' = [p \in Image!Pages |-> CASE p \notin keep -> "pixel"
                               [] p \in keep /\ img[p] = "pixel" -> "fetching"
                               [] OTHER -> img[p]]
  BY DEF Image!Settings, Image!Effects, Wanted, Image!Loading, Image!Window, Image!Pages
<1> HIDE DEF keep
<1>2. \A p \in Image!Pages :
        img'[p] = IF p \notin keep THEN "pixel"
                  ELSE IF img[p] = "pixel" THEN "fetching" ELSE img[p]
  BY <1>1
<1>3. img' \in [Image!Pages -> {"pixel", "fetching", "done", "failed"}]
  <2>1. \A p \in Image!Pages : img'[p] \in {"pixel", "fetching", "done", "failed"}
    BY <1>2 DEF PicturesOK
  <2> QED
    BY <1>1, <2>1
<1>4. loaded' \cup failed' \subseteq keep
  BY <1>1
<1>5. \A p \in Image!Pages : /\ img'[p] = "pixel" <=> p \notin keep
                             /\ img'[p] = "done" => p \in loaded'
                             /\ img'[p] = "failed" => p \in failed'
  BY <1>1, <1>2 DEF PicturesOK
<1>6. Image!Pages' = Image!Pages
  BY DEF Image!Pages
<1> QED
  BY <1>3, <1>4, <1>5, <1>6 DEF PicturesOK, keep

\* The distance of two pages, either way round.
LEMMA OnePageApart == \A x, y \in Int : y - x \in -1 .. 1 => y - x <= 1 /\ x - y <= 1
  OBVIOUS

\* Every step of the images keeps their invariant.
LEMMA ImagesNext == ImagesInv /\ [Image!Next]_images => ImagesInv'
<1> SUFFICES ASSUME ImagesInv, [Image!Next]_images PROVE ImagesInv'
  OBVIOUS
<1> USE DEF Image!margin, Image!timers, Image!slider, Image!counter
<1>a. TimersOK /\ SliderOK /\ PicturesOK
  BY DEF ImagesInv
<1>t. UNCHANGED <<suppressed, near, told, active, loadTimer, unloadTimer>> => TimersOK'
  BY <1>a DEF TimersOK
<1>s. UNCHANGED <<at, gliding, live, settled, raf>> => SliderOK'
  BY <1>a DEF SliderOK, Image!Pages
<1>p. UNCHANGED <<active, live, settled, img, loaded, failed>> => PicturesOK'
  BY <1>a DEF PicturesOK, Wanted, Image!Loading, Image!Window, Image!Pages
<1>1. CASE Image!Approach
  <2>1. TimersOK'
    BY <1>1, <1>a DEF Image!Approach, TimersOK
  <2> QED
    BY <1>1, <2>1, <1>s, <1>p DEF Image!Approach, ImagesInv
<1>2. CASE Image!Observe
  <2>1. TimersOK'
    <3>1. CASE near
      BY <1>2, <3>1, <1>a, CardsAssumption DEF Image!Observe, Image!EnterMargin, TimersOK
    <3>2. CASE ~near
      BY <1>2, <3>2, <1>a, CardsAssumption DEF Image!Observe, Image!LeaveMargin, TimersOK
    <3> QED
      BY <3>1, <3>2
  <2> QED
    BY <1>2, <2>1, <1>s, <1>p DEF Image!Observe, ImagesInv
<1>3. CASE Image!LoadTimer
  <2>1. TimersOK'
    BY <1>3, <1>a DEF Image!LoadTimer, TimersOK
  <2> QED
    BY <1>3, <1>a, <2>1, <1>s, SettingsKeep DEF Image!LoadTimer, ImagesInv
<1>4. CASE Image!UnloadTimer
  <2>1. TimersOK'
    BY <1>4, <1>a DEF Image!UnloadTimer, TimersOK
  <2> QED
    BY <1>4, <1>a, <2>1, <1>s, SettingsKeep DEF Image!UnloadTimer, ImagesInv
<1>5. CASE Image!Cover
  <2>1. TimersOK'
    BY <1>5, <1>a, CardsAssumption DEF Image!Cover, TimersOK
  <2> QED
    BY <1>5, <1>a, <2>1, <1>s, SettingsKeep DEF Image!Cover, ImagesInv
<1>6. CASE Image!ScrollEvent
  <2>1. SliderOK'
    BY <1>6, <1>a DEF Image!ScrollEvent, Image!Neighbours, SliderOK, Image!Pages
  <2> QED
    BY <1>6, <2>1, <1>t, <1>p DEF Image!ScrollEvent, ImagesInv
<1>7. CASE Image!SnapLands
  <2>5. at \in Int /\ at \in Image!Pages
    BY <1>a DEF SliderOK, Image!Pages
  <2>6. at \in Image!Neighbours
    BY <2>5 DEF Image!Neighbours
  <2>1. at' \in Image!Neighbours
    BY <1>7, <2>6 DEF Image!SnapLands
  <2>7. at' \in Image!Pages /\ at' - at <= 1 /\ at - at' <= 1
    <3>1. at' \in Image!Pages /\ at' - at \in -1 .. 1
      BY <2>1 DEF Image!Neighbours
    <3>2. at' \in Int
      BY <3>1, CardsAssumption DEF Image!Pages
    <3>3. at' - at <= 1 /\ at - at' <= 1
      BY <2>5, <3>1, <3>2, OnePageApart
    <3> QED
      BY <3>1, <3>3
  <2>2. /\ gliding /\ gliding' = FALSE
        /\ UNCHANGED <<live, settled, raf>> /\ Image!Pages' = Image!Pages
    BY <1>7 DEF Image!SnapLands, Image!Pages
  <2>3. ~raf => at' - live <= 1 /\ live - at' <= 1
    BY <2>2, <2>7, <1>a DEF SliderOK
  <2>4. SliderOK'
    BY <2>2, <2>3, <2>7, <1>a DEF SliderOK
  <2> QED
    BY <1>7, <2>4, <1>t, <1>p DEF Image!SnapLands, ImagesInv
<1>8. CASE Image!Frame
  <2>1. /\ at' = at /\ live' = at /\ settled' = settled /\ raf' = FALSE /\ at \in Int
        /\ Image!Pages' = Image!Pages
    BY <1>8, <1>a DEF Image!Frame, SliderOK, Image!Pages
  <2>3. at' - live' <= 1 /\ live' - at' <= 1
    BY <2>1
  <2>2. SliderOK'
    BY <2>1, <2>3, <1>a DEF SliderOK
  <2> QED
    BY <1>8, <1>a, <2>2, <1>t, SettingsKeep DEF Image!Frame, ImagesInv
<1>9. CASE Image!Poll
  <2>1. SliderOK'
    BY <1>9, <1>a, CardsAssumption DEF Image!Poll, SliderOK, Image!Pages
  <2> QED
    BY <1>9, <1>a, <2>1, <1>t, SettingsKeep DEF Image!Poll, ImagesInv
<1>10. ASSUME NEW p \in Image!Pages, Image!PageLoads(p) \/ Image!PageFails(p) \/ Image!RetryPage(p)
       PROVE ImagesInv'
  <2>1. /\ UNCHANGED <<suppressed, near, told, active, loadTimer, unloadTimer>>
        /\ UNCHANGED <<at, gliding, live, settled, raf>>
    BY <1>10 DEF Image!PageLoads, Image!PageFails, Image!RetryPage
  <2>2. Wanted' = Wanted /\ Image!Pages' = Image!Pages
    BY <2>1 DEF Wanted, Image!Loading, Image!Window, Image!Pages
  <2>3. CASE Image!PageLoads(p) \/ Image!PageFails(p)
    <3>1. img[p] = "fetching" /\ p \in Wanted
      BY <2>3, <1>a DEF Image!PageLoads, Image!PageFails, PicturesOK
    <3> QED
      BY <2>1, <2>2, <2>3, <3>1, <1>a, <1>t, <1>s
      DEF Image!PageLoads, Image!PageFails, PicturesOK, ImagesInv
  <2>4. CASE Image!RetryPage(p)
    BY <2>1, <2>2, <2>4, <1>a, <1>t, <1>s DEF Image!RetryPage, PicturesOK, ImagesInv
  <2> QED
    BY <1>10, <2>3, <2>4
<1>11. CASE UNCHANGED images
  BY <1>11, <1>t, <1>s, <1>p DEF images, ImagesInv
<1> QED
  BY <1>1, <1>2, <1>3, <1>4, <1>5, <1>6, <1>7, <1>8, <1>9, <1>10, <1>11 DEF Image!Next

-----------------------------------------------------------------------------
(* The hearts.                                                             *)

\* What the hearts are made of.
Requests == [work : Works, signal : Nat, to : BOOLEAN, answer : {None, "ok", "failed"}]
EntrySet == [work : Works, signal : Nat]
Entries == {entries[i] : i \in DOMAIN entries}
\* One entry a work, one signal an entry.
OneSignal == \A e, f \in Entries : e.work = f.work \/ e.signal = f.signal => e = f
\* What a card or a request holds is the entry of its work.
HeldOK ==
  /\ card \in [Slots -> EntrySet \cup {None}] /\ request \in [Slots -> Requests \cup {None}]
  /\ \A s \in Slots : card[s] # None => card[s] \in Entries
  /\ \A s \in Slots : request[s] # None =>
       \E e \in Entries : e.work = request[s].work /\ e.signal = request[s].signal
\* Until the seed has come nobody has tapped a heart.
BeforeSeed ==
  /\ likedIds = {} /\ astray = {} /\ \A s \in Slots : request[s] = None
  /\ \A e \in Entries : e.signal \in local => e.work \in server
  /\ seed.phase = "served" => seed.ids = server
\* What Pixiv's answers tell the page that it holds.
Believed == {w \in Works : (w \in server) # (w \in astray)}
\* Then the set knows all that a signal does, and differs from what the page
\* was told by the request under way, of which there is one a work.
AfterSeed ==
  /\ \A e \in Entries : e.signal \in local => e.work \in likedIds
  /\ \A w \in Works : ~Heart!Requested(w) => (w \in likedIds <=> w \in Believed)
  /\ \A s \in Slots : request[s] # None =>
       /\ request[s].to <=> request[s].work \in likedIds
       /\ (request[s].work \in Believed) <=> (request[s].to <=> request[s].answer = "ok")
  /\ \A s, t \in Slots : request[s] # None /\ request[t] # None
                           /\ request[s].work = request[t].work => s = t
  /\ \A w \in astray : \E e \in Entries : e.work = w
SeedOK ==
  /\ seed \in [phase : {"asked", "served", "applied"}, ids : SUBSET Works]
  /\ server \subseteq Works /\ astray \subseteq Works
  /\ seed.phase # "applied" => BeforeSeed
  /\ seed.phase = "applied" => AfterSeed
EntriesOK == entries \in Seq(EntrySet) /\ Len(entries) <= Cap /\ OneSignal

HeartsInv == user = "patient" /\ EntriesOK /\ HeldOK /\ SeedOK

\* A heart without a request shows the set, and the set is what the page was told.
LEMMA HeartsShown == HeartsInv => HeartsMatchPixiv
<1> SUFFICES ASSUME HeartsInv, NEW s \in Slots, card[s] # None, Heart!Quiet(card[s].work)
             PROVE  Heart!Liked(card[s]) = ((card[s].work \in server) # (card[s].work \in astray))
  BY DEF HeartsMatchPixiv, Heart!HeartsMatchPixiv
<1>1. card[s] \in Entries /\ card[s].work \in Works
  BY DEF HeartsInv, HeldOK, EntrySet
<1>2. AfterSeed /\ ~Heart!Requested(card[s].work)
  BY DEF HeartsInv, SeedOK, Heart!Quiet
<1>3. card[s].signal \in local => card[s].work \in likedIds
  BY <1>1, <1>2 DEF AfterSeed
<1>4. card[s].work \in likedIds <=> card[s].work \in Believed
  BY <1>1, <1>2 DEF AfterSeed
<1>5. Heart!Liked(card[s]) <=> card[s].work \in Believed
  BY <1>3, <1>4 DEF Heart!Liked
<1>6. Heart!Liked(card[s]) \in BOOLEAN
  BY DEF Heart!Liked
<1> QED
  BY <1>1, <1>5, <1>6 DEF Believed

\* At first there are no entries, no cards and no requests.
LEMMA HeartsInit == Heart!Init /\ user = "patient" => HeartsInv
<1> SUFFICES ASSUME Heart!Init, user = "patient" PROVE HeartsInv
  OBVIOUS
<1> USE DEF Heart!Init
<1>1. entries = <<>> /\ Entries = {}
  BY DEF Entries
<1>2. EntriesOK
  BY <1>1, CardsAssumption DEF EntriesOK, OneSignal
<1>3. HeldOK
  BY DEF HeldOK
<1>4. SeedOK
  BY <1>1 DEF SeedOK, BeforeSeed
<1> QED
  BY <1>2, <1>3, <1>4 DEF HeartsInv

\* A set of numbers has a least one.
LEMMA LeastNumber ==
  ASSUME NEW S, S \subseteq Nat, S # {}
  PROVE  \E n \in S : \A m \in S : n <= m
<1>1. PICK n \in S : \A m \in S : ~(<<m, n>> \in OpToRel(<, Nat))
  BY NatLessThanWellFounded, WFMin, Zenon
<1>2. \A m \in S : ~(m < n)
  BY <1>1, Zenon DEF OpToRel
<1>3. \A m \in S : n <= m
  BY <1>2
<1> QED
  BY <1>3

\* As long as the cap is not reached there is a signal that nobody holds.
LEMMA FreshIsFree ==
  ASSUME HeartsInv, Len(entries) < Cap
  PROVE  Heart!Fresh \in Nat /\ \A e \in Entries : e.signal # Heart!Fresh
<1> DEFINE indices == 1 .. Len(entries)
           held == {entries[i].signal : i \in indices}
           signalOf == [i \in indices |-> entries[i].signal]
<1>1. IsFiniteSet(held) /\ Cardinality(held) <= Len(entries)
  <2>1. Len(entries) \in Nat /\ 1 \in Int
    BY DEF HeartsInv, EntriesOK
  <2>2. /\ IsFiniteSet(indices)
        /\ Cardinality(indices) = IF 1 > Len(entries) THEN 0 ELSE Len(entries) - 1 + 1
    BY <2>1, FS_Interval
  <2>3. signalOf \in Surjection(indices, held)
    BY DEF Surjection
  <2> HIDE DEF indices, held, signalOf
  <2>4. IsFiniteSet(held) /\ Cardinality(held) <= Cardinality(indices)
    BY <2>2, <2>3, FS_Surjection
  <2>5. Cardinality(indices) = Len(entries)
    BY <2>1, <2>2
  <2> QED
    BY <2>4, <2>5
<1>2. Heart!Held = held
  <2>1. DOMAIN entries = 1 .. Len(entries)
    BY DEF HeartsInv, EntriesOK
  <2>2. \A s \in Slots : card[s] # None => card[s].signal \in held
    BY <2>1 DEF HeartsInv, HeldOK, Entries
  <2>3. \A s \in Slots : request[s] # None => request[s].signal \in held
    BY <2>1 DEF HeartsInv, HeldOK, Entries
  <2> QED
    BY <2>1, <2>2, <2>3 DEF Heart!Held
<1>3. /\ IsFiniteSet(Heart!Signals) /\ Heart!Signals \subseteq Nat
      /\ Cardinality(Heart!Signals) >= Cap
  <2>1. Cardinality(Slots) \in Nat /\ Cap \in Nat
    BY CardsAssumption, FS_CardinalityType
  <2> DEFINE top == Cap + 2 * Cardinality(Slots)
  <2>2. top \in Nat /\ top >= Cap
    BY <2>1
  <2>3. Heart!Signals = 1 .. top
    BY Zenon DEF Heart!Signals, Heart!Cardinality, Cardinality
  <2> HIDE DEF top
  <2>4. /\ IsFiniteSet(1 .. top)
        /\ Cardinality(1 .. top) = IF 1 > top THEN 0 ELSE top - 1 + 1
    BY <2>2, FS_Interval
  <2>5. Cardinality(1 .. top) = top
    BY <2>2, <2>4
  <2> QED
    BY <2>2, <2>3, <2>4, <2>5
<1>4. ~(Heart!Signals \subseteq held)
  <2>1. SUFFICES ASSUME Heart!Signals \subseteq held PROVE FALSE
    OBVIOUS
  <2>2. Cardinality(Heart!Signals) <= Cardinality(held)
    BY <1>1, <2>1, FS_Subset
  <2>3. Cardinality(Heart!Signals) \in Nat /\ Cardinality(held) \in Nat
    BY <1>1, <1>3, FS_CardinalityType
  <2> QED
    BY <1>1, <1>3, <2>2, <2>3, CardsAssumption DEF HeartsInv, EntriesOK
<1>5. PICK n \in Heart!Signals \ held : \A m \in Heart!Signals \ held : n <= m
  BY <1>3, <1>4, LeastNumber
<1>6. \A m \in Heart!Signals : m < n => m \in held
  BY <1>3, <1>5
<1>7. Heart!Fresh \in Heart!Signals /\ Heart!Fresh \notin held
  BY <1>2, <1>5, <1>6 DEF Heart!Fresh
<1>8. \A e \in Entries : e.signal \in held
  BY DEF Entries, HeartsInv, EntriesOK
<1> QED
  BY <1>3, <1>7, <1>8

\* What depends on the entries, when only those change that a step names.
LEMMA EntriesSame == entries' = entries => Entries' = Entries /\ (EntriesOK => EntriesOK')
  BY DEF Entries, EntriesOK, OneSignal

\* A new entry joins the others, with a signal of its own.
LEMMA EntryJoins ==
  ASSUME HeartsInv, Len(entries) < Cap, NEW e \in EntrySet, entries' = Append(entries, e),
         \A f \in Entries : f.work # e.work /\ f.signal # e.signal
  PROVE  Entries' = Entries \cup {e} /\ EntriesOK'
<1>1. entries \in Seq(EntrySet) /\ OneSignal
  BY DEF HeartsInv, EntriesOK
<1>2. /\ Len(entries) \in Nat /\ Len(entries') = Len(entries) + 1 /\ entries' \in Seq(EntrySet)
      /\ DOMAIN entries = 1 .. Len(entries) /\ DOMAIN entries' = 1 .. (Len(entries) + 1)
      /\ entries'[Len(entries) + 1] = e
      /\ \A i \in 1 .. Len(entries) : entries'[i] = entries[i]
  BY <1>1
<1>3. Entries' = Entries \cup {e}
  <2>1. ASSUME NEW f \in Entries' PROVE f \in Entries \cup {e}
    <3>1. PICK i \in 1 .. (Len(entries) + 1) : f = entries'[i]
      BY <1>2, <2>1 DEF Entries
    <3>2. i = Len(entries) + 1 \/ i \in 1 .. Len(entries)
      BY <1>2
    <3> QED
      BY <1>2, <3>1, <3>2 DEF Entries
  <2>2. ASSUME NEW f \in Entries \cup {e} PROVE f \in Entries'
    <3>1. CASE f = e
      <4>1. Len(entries) + 1 \in DOMAIN entries'
        BY <1>2
      <4> QED
        BY <1>2, <3>1, <4>1 DEF Entries
    <3>2. CASE f \in Entries
      <4>1. PICK i \in 1 .. Len(entries) : f = entries[i]
        BY <1>2, <3>2 DEF Entries
      <4>2. i \in DOMAIN entries' /\ entries'[i] = f
        BY <1>2, <4>1
      <4> QED
        BY <4>2 DEF Entries
    <3> QED
      BY <2>2, <3>1, <3>2
  <2> QED
    BY <2>1, <2>2
<1>4. OneSignal'
  BY <1>1, <1>3 DEF OneSignal
<1>5. Len(entries') <= Cap
  BY <1>2, CardsAssumption
<1> QED
  BY <1>2, <1>3, <1>4, <1>5 DEF EntriesOK

\* getLikeState: the entry of the work, or a new one with a fresh signal.
LEMMA HeartsMount ==
  ASSUME HeartsInv, NEW s \in Slots, NEW work \in Works, Heart!Mount(s, work)
  PROVE  HeartsInv'
<1>1. /\ UNCHANGED <<likedIds, request, server, astray, seed, user>>
      /\ \E initial \in {FALSE, (work \in server)} : Heart!GetLikeState(s, work, initial)
  BY DEF Heart!Mount
<1>2. PICK initial \in {FALSE, (work \in server)} : Heart!GetLikeState(s, work, initial)
  BY <1>1
<1>3. EntriesOK /\ HeldOK /\ SeedOK /\ user = "patient"
  BY DEF HeartsInv
<1>4. CASE \E e \in Heart!EntryOf(work) :
             card' = [card EXCEPT ![s] = e] /\ UNCHANGED <<entries, local>>
  <2>1. PICK e \in Entries : card' = [card EXCEPT ![s] = e] /\ UNCHANGED <<entries, local>>
    BY <1>4 DEF Heart!EntryOf, Entries
  <2>2. Entries' = Entries /\ EntriesOK' /\ e \in EntrySet
    BY <1>3, <2>1, EntriesSame DEF Entries, EntriesOK
  <2>3. card' \in [Slots -> EntrySet \cup {None}] /\ \A t \in Slots : card'[t] \in {e, card[t]}
    BY <1>3, <2>1, <2>2 DEF HeldOK
  <2>4. HeldOK'
    BY <1>1, <1>3, <2>2, <2>3 DEF HeldOK
  <2>5. SeedOK'
    BY <1>1, <1>3, <2>1, <2>2
    DEF SeedOK, BeforeSeed, AfterSeed, Believed, Heart!Requested, Heart!Busy
  <2> QED
    BY <1>1, <1>3, <2>2, <2>4, <2>5 DEF HeartsInv
<1>5. CASE ~\E e \in Heart!EntryOf(work) :
             card' = [card EXCEPT ![s] = e] /\ UNCHANGED <<entries, local>>
  <2> DEFINE e == [work |-> work, signal |-> Heart!Fresh]
  <2>1. /\ Heart!EntryOf(work) = {} /\ Len(entries) < Cap
        /\ LET all == Append(entries, e)
           IN entries' = IF Len(all) > Cap THEN Tail(all) ELSE all
        /\ local' = IF initial THEN local \cup {Heart!Fresh} ELSE local \ {Heart!Fresh}
        /\ card' = [card EXCEPT ![s] = e]
    BY <1>2, <1>3, <1>5 DEF Heart!GetLikeState
  <2>2. Heart!Fresh \in Nat /\ \A f \in Entries : f.signal # Heart!Fresh
    BY <2>1, FreshIsFree
  <2>3. e \in EntrySet /\ e.work = work /\ e.signal = Heart!Fresh
    BY <2>2 DEF EntrySet
  <2>4. \A f \in Entries : f.work # e.work
    BY <2>1, <2>3 DEF Heart!EntryOf, Entries
  <2>5. \A f \in Entries : f.signal # e.signal
    BY <2>2, <2>3
  <2>6. local' = IF initial THEN local \cup {e.signal} ELSE local \ {e.signal}
    BY <2>1, <2>3
  <2> HIDE DEF e
  <2>7. entries' = Append(entries, e)
    <3>1. entries \in Seq(EntrySet) /\ Len(entries) \in Nat /\ Cap \in Nat
      BY <1>3, CardsAssumption DEF EntriesOK
    <3>2. Len(Append(entries, e)) = Len(entries) + 1
      BY <2>3, <3>1
    <3> QED
      BY <2>1, <3>1, <3>2
  <2>8. Entries' = Entries \cup {e} /\ EntriesOK'
    BY <2>1, <2>3, <2>4, <2>5, <2>7, EntryJoins
  <2>9. card' \in [Slots -> EntrySet \cup {None}] /\ \A t \in Slots : card'[t] \in {e, card[t]}
    BY <1>3, <2>1, <2>3 DEF HeldOK
  <2>10. HeldOK'
    BY <1>1, <1>3, <2>8, <2>9 DEF HeldOK
  <2>11. initial => work \in server
    BY <1>2
  <2>12. \A f \in Entries : f.signal \in local' => f.signal \in local
    BY <2>5, <2>6
  <2>13. e.signal \in local' => e.work \in server
    BY <2>3, <2>6, <2>11
  <2>14. CASE seed.phase # "applied"
    <3>1. BeforeSeed'
      BY <1>1, <1>3, <2>8, <2>12, <2>13, <2>14 DEF SeedOK, BeforeSeed
    <3> QED
      BY <1>1, <1>3, <2>8, <2>10, <2>14, <3>1 DEF SeedOK, HeartsInv
  <2>15. CASE seed.phase = "applied"
    <3>1. ~Heart!Requested(work)
      BY <1>3, <2>3, <2>4 DEF Heart!Requested, Heart!Busy, HeldOK
    <3>2. AfterSeed /\ work \notin astray
      BY <1>3, <2>3, <2>4, <2>15 DEF SeedOK, AfterSeed
    <3>3. e.signal \in local' => e.work \in likedIds
      BY <2>3, <2>13, <3>1, <3>2 DEF AfterSeed, Believed
    <3>4. Believed' = Believed
      BY <1>1 DEF Believed
    <3>5. AfterSeed'
      BY <1>1, <2>8, <2>12, <3>2, <3>3, <3>4 DEF AfterSeed, Heart!Requested, Heart!Busy
    <3> QED
      BY <1>1, <1>3, <2>8, <2>10, <2>15, <3>5 DEF SeedOK, HeartsInv
  <2> QED
    BY <2>14, <2>15
<1> QED
  BY <1>4, <1>5

\* setLiked on the entry of a work keeps the set above the signals.
LEMMA SetLikedKeeps ==
  ASSUME OneSignal, entries' = entries, NEW e, NEW f \in Entries, NEW on \in BOOLEAN,
         e.work = f.work, e.signal = f.signal, Heart!SetLiked(e, on),
         \A g \in Entries : g.signal \in local => g.work \in likedIds
  PROVE  /\ \A g \in Entries' : g.signal \in local' => g.work \in likedIds'
         /\ e.work \in likedIds' <=> on
         /\ \A w : w # e.work => (w \in likedIds' <=> w \in likedIds)
<1>1. Entries' = Entries
  BY EntriesSame
<1>2. CASE on
  BY <1>1, <1>2 DEF Heart!SetLiked, OneSignal
<1>3. CASE ~on
  BY <1>1, <1>3 DEF Heart!SetLiked, OneSignal
<1> QED
  BY <1>2, <1>3

\* runToggleLike up to its await.
LEMMA HeartsToggle ==
  ASSUME HeartsInv, NEW s \in Slots, Heart!ToggleLike(s)
  PROVE  HeartsInv'
<1>1. EntriesOK /\ HeldOK /\ SeedOK /\ user = "patient"
  BY DEF HeartsInv
<1> DEFINE e == card[s]
           on == ~Heart!Liked(e)
           r == [work |-> e.work, signal |-> e.signal, to |-> on, answer |-> None]
<1>2. /\ e # None /\ request[s] = None /\ seed.phase = "applied"
      /\ ~Heart!Requested(e.work)
      /\ Heart!SetLiked(e, on) /\ request' = [request EXCEPT ![s] = r]
      /\ UNCHANGED <<entries, card, server, astray, seed, user>>
  BY <1>1 DEF Heart!ToggleLike, Heart!Busy
<1>3. e \in Entries /\ e \in EntrySet /\ e.work \in Works
  BY <1>1, <1>2 DEF HeldOK, EntrySet
<1>4. on \in BOOLEAN
  BY DEF Heart!Liked
<1>5. r \in Requests /\ r # None
  <2>1. r \in Requests
    BY <1>3, <1>4 DEF Requests, EntrySet
  <2> QED
    BY <2>1, CardsAssumption DEF Requests
<1>6. AfterSeed /\ OneSignal
  BY <1>1, <1>2 DEF SeedOK, EntriesOK
<1>7. /\ \A g \in Entries' : g.signal \in local' => g.work \in likedIds'
      /\ e.work \in likedIds' <=> on
      /\ \A w : w # e.work => (w \in likedIds' <=> w \in likedIds)
  BY <1>2, <1>3, <1>4, <1>6, SetLikedKeeps DEF AfterSeed
<1>8. on <=> e.work \notin Believed
  <2>1. e.work \in likedIds <=> e.work \in Believed
    BY <1>2, <1>3, <1>6 DEF AfterSeed
  <2>2. Heart!Liked(e) <=> e.work \in likedIds
    BY <1>3, <1>6 DEF AfterSeed, Heart!Liked
  <2> QED
    BY <2>1, <2>2
<1>9. r.work = e.work /\ r.signal = e.signal /\ r.to = on /\ r.answer = None
  OBVIOUS
<1> HIDE DEF r, on, e
<1>10. /\ request' \in [Slots -> Requests \cup {None}] /\ request'[s] = r
       /\ \A t \in Slots : t # s => request'[t] = request[t]
  BY <1>1, <1>2, <1>5 DEF HeldOK
<1>11. Entries' = Entries /\ EntriesOK'
  BY <1>1, <1>2, EntriesSame
<1>12. HeldOK'
  BY <1>1, <1>2, <1>3, <1>9, <1>10, <1>11 DEF HeldOK
<1>13. \A t \in Slots : request[t] # None => request[t].work # e.work
  BY <1>2 DEF Heart!Requested, Heart!Busy
<1>14. \A w \in Works : ~Heart!Requested(w)' => (w \in likedIds' <=> w \in Believed)
  <2>1. SUFFICES ASSUME NEW w \in Works, ~Heart!Requested(w)'
        PROVE  w \in likedIds' <=> w \in Believed
    OBVIOUS
  <2>2. w # e.work
    BY <1>5, <1>9, <1>10, <2>1 DEF Heart!Requested, Heart!Busy
  <2>3. ~Heart!Requested(w)
    BY <1>2, <1>10, <2>1 DEF Heart!Requested, Heart!Busy
  <2> QED
    BY <1>6, <1>7, <2>2, <2>3 DEF AfterSeed
<1>15. \A t \in Slots : request'[t] # None =>
         /\ request'[t].to <=> request'[t].work \in likedIds'
         /\ (request'[t].work \in Believed) <=> (request'[t].to <=> request'[t].answer = "ok")
  <2>1. SUFFICES ASSUME NEW t \in Slots, request'[t] # None
        PROVE  /\ request'[t].to <=> request'[t].work \in likedIds'
               /\ (request'[t].work \in Believed) <=> (request'[t].to <=> request'[t].answer = "ok")
    OBVIOUS
  <2>2. CASE t = s
    BY <1>7, <1>8, <1>9, <1>10, <2>2, CardsAssumption
  <2>3. CASE t # s
    BY <1>6, <1>7, <1>10, <1>13, <2>1, <2>3 DEF AfterSeed
  <2> QED
    BY <2>2, <2>3
<1>16. \A t, u \in Slots : request'[t] # None /\ request'[u] # None
                             /\ request'[t].work = request'[u].work => t = u
  BY <1>6, <1>9, <1>10, <1>13 DEF AfterSeed
<1>17. AfterSeed'
  <2>1. Believed' = Believed
    BY <1>2 DEF Believed
  <2> QED
    BY <1>2, <1>6, <1>7, <1>11, <1>14, <1>15, <1>16, <2>1 DEF AfterSeed
<1>18. SeedOK'
  BY <1>1, <1>2, <1>17 DEF SeedOK
<1> QED
  BY <1>1, <1>2, <1>11, <1>12, <1>18 DEF HeartsInv

\* Pixiv answers a request for a heart.
LEMMA HeartsServe ==
  ASSUME HeartsInv, NEW s \in Slots, Heart!Serve(s)
  PROVE  HeartsInv'
<1>1. EntriesOK /\ HeldOK /\ SeedOK /\ user = "patient"
  BY DEF HeartsInv
<1>2. /\ request[s] # None /\ request[s] \in Requests /\ request[s].answer = None
      /\ UNCHANGED <<entries, local, likedIds, card, seed, user>>
  BY <1>1 DEF Heart!Serve, Heart!store, Heart!Busy, HeldOK
<1>3. AfterSeed /\ seed.phase = "applied"
  BY <1>1, <1>2 DEF SeedOK, BeforeSeed
<1>4. PICK answer \in {"ok", "failed"} :
        /\ request' = [request EXCEPT ![s].answer = answer]
        /\ \/ /\ server' = IF request[s].to THEN server \cup {request[s].work}
                                            ELSE server \ {request[s].work}
              /\ astray' = IF answer = "ok" THEN astray \ {request[s].work}
                                           ELSE astray \cup {request[s].work}
           \/ answer = "failed" /\ UNCHANGED <<server, astray>>
  BY DEF Heart!Serve, Heart!Told, Heart!Apply
<1> DEFINE r == [work |-> request[s].work, signal |-> request[s].signal,
                 to |-> request[s].to, answer |-> answer]
<1>5. r \in Requests /\ [request[s] EXCEPT !.answer = answer] = r
  BY <1>2 DEF Requests
<1>6. r # None
  BY <1>5, CardsAssumption DEF Requests
<1>7. /\ r.work = request[s].work /\ r.signal = request[s].signal /\ r.to = request[s].to
      /\ r.answer = answer
  OBVIOUS
<1> HIDE DEF r
<1>8. /\ request' \in [Slots -> Requests \cup {None}] /\ request'[s] = r
      /\ \A t \in Slots : t # s => request'[t] = request[t]
  BY <1>1, <1>4, <1>5 DEF HeldOK
<1>9. Entries' = Entries /\ EntriesOK'
  BY <1>1, <1>2, EntriesSame
<1>10. HeldOK'
  BY <1>1, <1>2, <1>7, <1>8, <1>9 DEF HeldOK
<1>11. \A w \in Works : Heart!Requested(w)' <=> Heart!Requested(w)
  BY <1>2, <1>6, <1>7, <1>8 DEF Heart!Requested, Heart!Busy
<1>12. \A w : w # r.work =>
         (w \in server' <=> w \in server) /\ (w \in astray' <=> w \in astray)
  BY <1>4, <1>7
<1>c. \A w : w # r.work => (w \in Believed' <=> w \in Believed)
  BY <1>12 DEF Believed
<1>13. r.work \in Works /\ r.to \in BOOLEAN /\ Heart!Requested(r.work)
  BY <1>2, <1>5, <1>7 DEF Requests, Heart!Requested, Heart!Busy
<1>14. (r.work \in Believed' <=> (r.to <=> r.answer = "ok"))
  <2>1. r.work \in Believed <=> ~r.to
    BY <1>2, <1>3, <1>7, CardsAssumption DEF AfterSeed
  <2>2. CASE UNCHANGED <<server, astray>> /\ answer = "failed"
    BY <1>7, <1>13, <2>1, <2>2 DEF Believed
  <2>3. CASE ~(UNCHANGED <<server, astray>> /\ answer = "failed")
    <3>1. /\ r.work \in server' <=> r.to
          /\ r.work \in astray' <=> answer # "ok"
      BY <1>4, <1>7, <1>13, <2>3
    <3> QED
      BY <1>7, <1>13, <3>1 DEF Believed
  <2> QED
    BY <2>2, <2>3
<1>15. \A t \in Slots : request'[t] # None =>
         /\ request'[t].to <=> request'[t].work \in likedIds'
         /\ (request'[t].work \in Believed') <=> (request'[t].to <=> request'[t].answer = "ok")
  <2>1. SUFFICES ASSUME NEW t \in Slots, request'[t] # None
        PROVE  /\ request'[t].to <=> request'[t].work \in likedIds'
               /\ (request'[t].work \in Believed') <=> (request'[t].to <=> request'[t].answer = "ok")
    OBVIOUS
  <2>2. CASE t = s
    BY <1>2, <1>3, <1>7, <1>8, <1>14, <2>2 DEF AfterSeed
  <2>3. CASE t # s
    <3>1. request'[t] = request[t] /\ request[t].work # r.work
      BY <1>2, <1>3, <1>7, <1>8, <2>1, <2>3 DEF AfterSeed
    <3> QED
      BY <1>2, <1>3, <1>c, <2>1, <3>1 DEF AfterSeed
  <2> QED
    BY <2>2, <2>3
<1>16. \A w \in Works : ~Heart!Requested(w)' => (w \in likedIds' <=> w \in Believed')
  BY <1>2, <1>3, <1>11, <1>c, <1>13 DEF AfterSeed
<1>17. \A t, u \in Slots : request'[t] # None /\ request'[u] # None
                             /\ request'[t].work = request'[u].work => t = u
  <2>1. \A t \in Slots : /\ request'[t] # None <=> request[t] # None
                         /\ request'[t] # None => request'[t].work = request[t].work
    BY <1>2, <1>6, <1>7, <1>8
  <2> QED
    BY <1>3, <2>1 DEF AfterSeed
<1>d. \A w \in astray' : \E e \in Entries' : e.work = w
  <2>1. \E e \in Entries : e.work = r.work
    BY <1>1, <1>2, <1>7 DEF HeldOK
  <2> QED
    BY <1>3, <1>9, <1>12, <2>1 DEF AfterSeed
<1>18. AfterSeed'
  BY <1>2, <1>3, <1>9, <1>15, <1>16, <1>17, <1>d DEF AfterSeed
<1>19. server' \subseteq Works /\ astray' \subseteq Works
  BY <1>1, <1>12, <1>13 DEF SeedOK
<1>20. SeedOK'
  BY <1>1, <1>2, <1>3, <1>18, <1>19 DEF SeedOK
<1> QED
  BY <1>1, <1>2, <1>9, <1>10, <1>20 DEF HeartsInv

\* runToggleLike after its await: a failure takes the heart back.
LEMMA HeartsAnswered ==
  ASSUME HeartsInv, NEW s \in Slots, Heart!Answered(s)
  PROVE  HeartsInv'
<1>1. EntriesOK /\ HeldOK /\ SeedOK /\ user = "patient"
  BY DEF HeartsInv
<1> DEFINE r == request[s]
<1>2. /\ r # None /\ r \in Requests /\ r.answer # None
      /\ IF r.answer = "failed" THEN Heart!SetLiked(r, ~r.to)
                                ELSE UNCHANGED <<likedIds, local>>
      /\ request' = [request EXCEPT ![s] = None]
      /\ UNCHANGED <<entries, card, server, astray, seed, user>>
  BY <1>1 DEF Heart!Answered, Heart!Revert, Heart!Busy, HeldOK
<1>3. AfterSeed /\ seed.phase = "applied" /\ OneSignal
  BY <1>1, <1>2 DEF SeedOK, BeforeSeed, EntriesOK
<1>4. PICK f \in Entries : f.work = r.work /\ f.signal = r.signal
  BY <1>1, <1>2 DEF HeldOK
<1>5. r.work \in Works /\ r.to \in BOOLEAN /\ r.answer \in {"ok", "failed"}
  BY <1>2 DEF Requests
<1>6. Entries' = Entries /\ EntriesOK'
  BY <1>1, <1>2, EntriesSame
<1>7. /\ r.to <=> r.work \in likedIds
      /\ (r.work \in Believed) <=> (r.to <=> r.answer = "ok")
  BY <1>2, <1>3 DEF AfterSeed
<1>b. Believed' = Believed
  BY <1>2 DEF Believed
<1> HIDE DEF r
<1>8. /\ \A g \in Entries' : g.signal \in local' => g.work \in likedIds'
      /\ \A w : w # r.work => (w \in likedIds' <=> w \in likedIds)
      /\ r.work \in likedIds' <=> r.work \in Believed
  <2>1. CASE r.answer = "failed"
    <3>1. Heart!SetLiked(r, ~r.to) /\ (~r.to) \in BOOLEAN /\ entries' = entries
      BY <1>2, <2>1
    <3>2. \A g \in Entries : g.signal \in local => g.work \in likedIds
      BY <1>3 DEF AfterSeed
    <3>3. /\ \A g \in Entries' : g.signal \in local' => g.work \in likedIds'
          /\ r.work \in likedIds' <=> ~r.to
          /\ \A w : w # r.work => (w \in likedIds' <=> w \in likedIds)
      BY <1>3, <1>4, <3>1, <3>2, SetLikedKeeps
    <3> QED
      BY <1>5, <1>7, <2>1, <3>3
  <2>2. CASE r.answer = "ok"
    BY <1>2, <1>3, <1>5, <1>6, <1>7, <2>2 DEF AfterSeed
  <2> QED
    BY <1>5, <2>1, <2>2
<1>9. /\ request' \in [Slots -> Requests \cup {None}] /\ request'[s] = None
      /\ \A t \in Slots : t # s => request'[t] = request[t]
  BY <1>1, <1>2 DEF HeldOK
<1>10. HeldOK'
  BY <1>1, <1>2, <1>6, <1>9 DEF HeldOK
<1>11. \A t \in Slots : request'[t] # None =>
         request'[t] = request[t] /\ request[t] # None /\ request[t].work # r.work
  BY <1>2, <1>3, <1>9 DEF AfterSeed, r
<1>12. \A t \in Slots : request'[t] # None =>
         /\ request'[t].to <=> request'[t].work \in likedIds'
         /\ (request'[t].work \in Believed') <=> (request'[t].to <=> request'[t].answer = "ok")
  BY <1>b, <1>3, <1>8, <1>11 DEF AfterSeed
<1>13. \A w \in Works : ~Heart!Requested(w)' => (w \in likedIds' <=> w \in Believed')
  <2>1. SUFFICES ASSUME NEW w \in Works, ~Heart!Requested(w)'
        PROVE  w \in likedIds' <=> w \in Believed'
    OBVIOUS
  <2>2. CASE w = r.work
    BY <1>b, <1>8, <2>2
  <2>3. CASE w # r.work
    <3>1. ~Heart!Requested(w)
      BY <1>9, <2>1, <2>3 DEF Heart!Requested, Heart!Busy, r
    <3> QED
      BY <1>b, <1>3, <1>8, <2>3, <3>1 DEF AfterSeed
  <2> QED
    BY <2>2, <2>3
<1>14. AfterSeed'
  BY <1>2, <1>3, <1>6, <1>8, <1>11, <1>12, <1>13 DEF AfterSeed
<1>15. SeedOK'
  BY <1>1, <1>2, <1>3, <1>14 DEF SeedOK
<1> QED
  BY <1>1, <1>2, <1>6, <1>10, <1>15 DEF HeartsInv

\* Every step keeps the invariant of the hearts.
LEMMA HeartsNext == HeartsInv /\ [Heart!Next]_heart => HeartsInv'
<1> SUFFICES ASSUME HeartsInv, [Heart!Next]_heart PROVE HeartsInv'
  OBVIOUS
<1>a. EntriesOK /\ HeldOK /\ SeedOK /\ user = "patient"
  BY DEF HeartsInv
<1>1. ASSUME NEW s \in Slots, NEW work \in Works, Heart!Mount(s, work) PROVE HeartsInv'
  BY <1>1, HeartsMount
<1>2. ASSUME NEW s \in Slots, Heart!Unmount(s) PROVE HeartsInv'
  <2>1. /\ card' = [card EXCEPT ![s] = None]
        /\ UNCHANGED <<entries, local, likedIds, request, server, astray, seed, user>>
    BY <1>2 DEF Heart!Unmount, Heart!store
  <2>2. Entries' = Entries /\ EntriesOK'
    BY <1>a, <2>1, EntriesSame
  <2>3. HeldOK'
    BY <1>a, <2>1, <2>2 DEF HeldOK
  <2>4. SeedOK'
    BY <1>a, <2>1, <2>2
    DEF SeedOK, BeforeSeed, AfterSeed, Believed, Heart!Requested, Heart!Busy
  <2> QED
    BY <1>a, <2>1, <2>2, <2>3, <2>4 DEF HeartsInv
<1>3. ASSUME NEW s \in Slots, Heart!ToggleLike(s) PROVE HeartsInv'
  BY <1>3, HeartsToggle
<1>4. ASSUME NEW s \in Slots, Heart!Serve(s) PROVE HeartsInv'
  BY <1>4, HeartsServe
<1>5. ASSUME NEW s \in Slots, Heart!Answered(s) PROVE HeartsInv'
  BY <1>5, HeartsAnswered
<1>6. CASE Heart!SeedServed
  <2>1. /\ seed.phase = "asked" /\ seed' = [phase |-> "served", ids |-> server]
        /\ UNCHANGED <<entries, local, likedIds, card, request, server, astray, user>>
    BY <1>6 DEF Heart!SeedServed, Heart!store
  <2>2. Entries' = Entries /\ EntriesOK'
    BY <1>a, <2>1, EntriesSame
  <2>3. HeldOK'
    BY <1>a, <2>1, <2>2 DEF HeldOK
  <2>4. SeedOK'
    BY <1>a, <2>1, <2>2 DEF SeedOK, BeforeSeed
  <2> QED
    BY <1>a, <2>1, <2>2, <2>3, <2>4 DEF HeartsInv
<1>7. CASE Heart!SeedLikedIds
  <2>1. /\ seed.phase = "served" /\ seed' = [phase |-> "applied", ids |-> {}]
        /\ likedIds' = seed.ids
        /\ UNCHANGED <<entries, local, card, request, server, astray, user>>
    BY <1>7 DEF Heart!SeedLikedIds
  <2>2. Entries' = Entries /\ EntriesOK'
    BY <1>a, <2>1, EntriesSame
  <2>3. HeldOK'
    BY <1>a, <2>1, <2>2 DEF HeldOK
  <2>4. BeforeSeed /\ likedIds' = server
    BY <1>a, <2>1 DEF SeedOK, BeforeSeed
  <2>5. AfterSeed'
    BY <1>a, <2>1, <2>2, <2>4 DEF SeedOK, BeforeSeed, AfterSeed, Believed
  <2>6. SeedOK'
    BY <1>a, <2>1, <2>5 DEF SeedOK
  <2> QED
    BY <1>a, <2>1, <2>2, <2>3, <2>6 DEF HeartsInv
<1>8. CASE UNCHANGED heart
  <2>1. UNCHANGED <<entries, local, likedIds, card, request, server, astray, seed, user>>
    BY <1>8 DEF heart
  <2>2. Entries' = Entries /\ EntriesOK'
    BY <1>a, <2>1, EntriesSame
  <2>3. HeldOK'
    BY <1>a, <2>1, <2>2 DEF HeldOK
  <2>4. SeedOK'
    BY <1>a, <2>1, <2>2
    DEF SeedOK, BeforeSeed, AfterSeed, Believed, Heart!Requested, Heart!Busy
  <2> QED
    BY <1>a, <2>1, <2>2, <2>3, <2>4 DEF HeartsInv
<1> QED
  BY <1>1, <1>2, <1>3, <1>4, <1>5, <1>6, <1>7, <1>8 DEF Heart!Next

-----------------------------------------------------------------------------
(* The card.                                                               *)

\* A step of one part leaves the others alone.
LEMMA CardKeeps ==
  /\ ImagesInv /\ [CardNext]_cardVars => ImagesInv'
  /\ PlayerInv /\ [CardNext]_cardVars => PlayerInv'
  /\ HeartsInv /\ [CardNext]_cardVars => HeartsInv'
<1>1. [CardNext]_cardVars => [Image!Next]_images /\ [Player!Next]_player /\ [Heart!Next]_heart
  BY Zenon DEF CardNext, cardVars
<1> QED
  BY <1>1, ImagesNext, PlayerNext, HeartsNext

\* Whatever way a card came to rest it holds the pictures of the window around
\* the page in view, or none when it is away or covered (FeedCard.tsx, settle.ts).
THEOREM CardAtRest == CardSpec => []WindowAtRest
<1>1. CardInit => ImagesInv
  BY ImagesInit DEF CardInit
<1> QED
  BY <1>1, CardKeeps, ImagesAtRest, PTL DEF CardSpec

\* The animation runs on one timer and on the screen only, however late a load
\* comes back (loadFrames, loadStatic, teardown of UgoiraPlayer.tsx).
THEOREM PlaysOnScreen == CardSpec => []PlaysOnScreenOnly
<1>1. CardInit => PlayerInv
  BY PlayerInit DEF CardInit
<1>2. PlayerInv => PlaysOnScreenOnly
  BY DEF PlayerInv
<1> QED
  BY <1>1, <1>2, CardKeeps, PTL DEF CardSpec

\* Every heart of a work shows what Pixiv holds once its requests are over, and
\* the opposite if the last one to reach Pixiv was told failed, for any cards,
\* works and cap, while the user neither taps before the seed nor twice a work
\* nor sees more works than the cap (runToggleLike, getLikeState).
THEOREM HeartsAgree == CardSpec /\ user = "patient" => []HeartsMatchPixiv
<1>1. CardInit /\ user = "patient" => HeartsInv
  BY HeartsInit DEF CardInit
<1> QED
  BY <1>1, CardKeeps, HeartsShown, PTL DEF CardSpec
=============================================================================
