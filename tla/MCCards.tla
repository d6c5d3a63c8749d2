-------------------------------- MODULE MCCards --------------------------------
(* The four parts of a card, which share no state: in each behaviour one of  *)
(* them runs and the others stay as they began.                              *)
(* Two cards of a strip, or a strip and a grid; two slots and two works;     *)
(* three pages; two loads of frames.                                         *)
EXTENDS Taps, FiniteSets

CONSTANTS Parts, Slots, Works, Cap, Users, LastPage, Size, Loads

\* The window spans a page on either side at least (sliderWindowSize, helpers.ts).
ASSUME CardsAssumption ==
  /\ IsFiniteSet(Slots) /\ Cap \in Nat
  /\ LastPage \in Nat /\ Size \in Nat \ {0}
  /\ None \notin BOOLEAN /\ None # "ok"
  /\ None \notin [work : Works, signal : Nat, to : BOOLEAN, answer : {None, "ok", "failed"}]

VARIABLES
  part,
  entries, local, likedIds, card, request, server, astray, seed, user,
  suppressed, near, told, active, loadTimer, unloadTimer, at, gliding, live, settled,
  poll, raf, img, loaded, failed,
  status, error, frames, poster, canvas, loops, frameLoad, posterLoad, visible, seen

Heart == INSTANCE Hearts
Image == INSTANCE CardImages
Player == INSTANCE Ugoira

heart == <<entries, local, likedIds, card, request, server, astray, seed, user>>
images == <<suppressed, near, told, active, loadTimer, unloadTimer, at, gliding, live,
            settled, poll, raf, img, loaded, failed>>
player == <<status, error, frames, poster, canvas, loops, frameLoad, posterLoad, visible,
            seen>>
cardVars == <<part, vars, heart, images, player>>

CardInit ==
  /\ part \in Parts
  /\ Init /\ Heart!Init /\ Image!Init /\ Player!Init
  /\ part # "taps" => selectable /\ facing = CHOOSE c \in Strip : TRUE
  /\ part # "hearts" => server = {}
  /\ part # "images" => near
  /\ part # "player" => visible

CardNext ==
  \/ part = "taps" /\ Next /\ UNCHANGED <<part, heart, images, player>>
  \/ part = "hearts" /\ Heart!Next /\ UNCHANGED <<part, vars, images, player>>
  \/ part = "images" /\ Image!Next /\ UNCHANGED <<part, vars, heart, player>>
  \/ part = "player" /\ Player!Next /\ UNCHANGED <<part, vars, heart, images>>

CardSpec == CardInit /\ [][CardNext]_cardVars /\ Player!Fairness

\* Every heart of a work shows what Pixiv holds once its requests are over, but
\* where Pixiv applied a request it was told failed (runToggleLike, getLikeState).
HeartsMatchPixiv == Heart!HeartsMatchPixiv
\* A card at rest holds the pictures it should (FeedCard.tsx, settle.ts).
WindowAtRest == Image!WindowAtRest
\* The animation plays on the screen only, on one timer (UgoiraPlayer.tsx).
PlaysOnScreenOnly == Player!PlaysOnScreenOnly
\* A load of frames that has begun ends (loadFrames).
SpinnerEnds == Player!SpinnerEnds
=============================================================================
