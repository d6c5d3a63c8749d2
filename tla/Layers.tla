-------------------------------- MODULE Layers --------------------------------
(***************************************************************************)
(* The overlays of the app (hooks/useLayers.ts): the stack of related      *)
(* views, the stacked search pages and the artist page; the order they     *)
(* were opened in, their z-indexes, the slide-outs that end on a timer,    *)
(* and the snapshot (state-persistence.ts, App.tsx) a reload restores.     *)
(*                                                                         *)
(* A handler runs to its end before the next one, so a handler is a step.  *)
(* The screen decides what can be tapped: the highest layer that is not    *)
(* sliding out, a layer on its way out letting taps through.  Every timer  *)
(* of a slide-out is shorter than the debounce of the saver.               *)
(***************************************************************************)
EXTENDS Integers, Sequences, SequencesExt, FiniteSetsExt, Lists

CONSTANTS Works, Artists, Tags,
          MaxDepth,    \* maxStackDepth(), the user's cap on both stacks
          ZBase,       \* LAYER_Z_BASE
          MaxZ,        \* bound: no layer is opened above it
          MaxTimers,   \* bound: timers of search slide-outs under way
          Users,       \* "hurried": may close a layer while another slides out
          Reloads,     \* the users whose page may be killed and loaded again
          None         \* null: no artist, the tag of a free-form search

ASSUME LayersAssumption ==
  /\ {MaxDepth, ZBase, MaxZ, MaxTimers} \subseteq Nat
  /\ MaxDepth > 0
  /\ Reloads \subseteq Users /\ Users \subseteq {"patient", "hurried"}
  /\ None \notin Artists \cup Tags
  /\ None \notin [id : Artists, z : Nat]   \* no artist page is null

VARIABLES
  stack,           \* the related views, each a work and its z
  closingDepth,    \* the level sliding out, 0 for null
  artist,          \* the artist page, an id and its z, or None
  artistClosing,   \* the z its running timer captured, 0 for false
  searches,        \* searchStack: a tag and a z each
  searchStates,    \* the parallel array: what each page was opened on
  closingSearchZ,  \* the z of the page sliding out, 0 for null
  searchTimers,    \* the timers closeSearch started, in order: a z and an index
  layerZ,          \* the counter
  layerSeq,        \* the keys of the layers in the order they were opened
  snap,            \* the snapshot in localStorage
  armed,           \* the debounce timer of the saver is running
  before,          \* the slide-outs that end before it fires
  cooling,         \* the slide-out a gesture started less than its cooldown ago
  user             \* who is using the app

pages == <<searches, searchStates, closingSearchZ, searchTimers>>
related == <<stack, closingDepth>>
artistPage == <<artist, artistClosing>>
saver == <<armed, before>>
vars == <<stack, closingDepth, artist, artistClosing, searches, searchStates,
          closingSearchZ, searchTimers, layerZ, layerSeq, snap, armed, before, cooling, user>>

Kinds == {"stack", "artist", "search"}
StackKey(i) == <<"stack", i>>
SearchKey(i) == <<"search", i>>
ArtistKey == <<"artist", 0>>

WorksOf(levels) == [i \in DOMAIN levels |-> levels[i].work]
TagsOf(entries) == [i \in DOMAIN entries |-> entries[i].tag]

\* layerSnapshot
Snapshot == [stack |-> WorksOf(stack),
             artist |-> IF artist = None THEN None ELSE artist.id,
             states |-> searchStates, tags |-> TagsOf(searches), order |-> layerSeq]

Init ==
  /\ stack = <<>> /\ closingDepth = 0
  /\ artist = None /\ artistClosing = 0
  /\ searches = <<>> /\ searchStates = <<>> /\ closingSearchZ = 0 /\ searchTimers = <<>>
  /\ layerZ = ZBase /\ layerSeq = <<>>
  /\ snap = Snapshot
  /\ armed = TRUE /\ before = {} /\ cooling = {}
  /\ user \in Users

-----------------------------------------------------------------------------
(* What is on the screen.                                                  *)

Closing == (IF closingDepth # 0 THEN {"stack"} ELSE {})
             \cup (IF artistClosing # 0 THEN {"artist"} ELSE {})
             \cup (IF closingSearchZ # 0 THEN {"search"} ELSE {})

\* The z of the layer a key names, 0 if there is none or it is sliding out.
ZOf(key) ==
  CASE key = ArtistKey -> IF artist # None /\ artistClosing = 0 THEN artist.z ELSE 0
    [] key[1] = "search" -> IF /\ key[2] \in DOMAIN searches
                               /\ searches[key[2]].z # closingSearchZ
                            THEN searches[key[2]].z ELSE 0
    [] OTHER -> IF key[2] \in DOMAIN stack /\ key[2] # closingDepth
                THEN stack[key[2]].z ELSE 0

\* the last key whose layer is there and stays
TopZ == LET shown == {i \in DOMAIN layerSeq : ZOf(layerSeq[i]) # 0}
        IN IF shown = {} THEN 0 ELSE ZOf(layerSeq[Max(shown)])

LayerKeys == {StackKey(i) : i \in DOMAIN stack} \cup {SearchKey(i) : i \in DOMAIN searches}
               \cup (IF artist = None THEN {} ELSE {ArtistKey})
\* The layers rendered without the class `exit`.
Open == {key \in LayerKeys : ZOf(key) # 0}
OpenZs == {ZOf(key) : key \in Open}
\* The z of the one that gets the taps, 0 for the feed.
Facing == Max(OpenZs \cup {0})
Faces(kind) == \E key \in Open : key[1] = kind /\ ZOf(key) = Facing

\* A tracked signal is written: the effect of App.tsx starts its timer anew.
Arm == armed' = TRUE /\ before' = Closing'
NoArm == armed' = armed /\ before' = before \cap Closing'
\* Mutant: the close is left to the debounced saver.
PersistLater(state) == UNCHANGED snap
\* persistNow, called after setLayerSeq and before the array is written
PersistNow(state) == snap' = [state EXCEPT !.order = layerSeq']

Without(key) == Filtered(layerSeq, {i \in DOMAIN layerSeq : layerSeq[i] # key})

\* resetLayerZIfIdle: what it makes of the counter
ResetIfIdle == layerZ' = IF Closing' = {} /\ LayerKeys' = {} THEN ZBase ELSE layerZ

MayClose == user = "hurried" \/ Closing = {}

-----------------------------------------------------------------------------
(* The related stack.                                                      *)

PushRelated(work) ==
  /\ closingDepth = 0
  /\ \A i \in DOMAIN stack : stack[i].work # work
  /\ Len(stack) < MaxDepth
  /\ layerZ < MaxZ
  /\ layerZ' = layerZ + 1
  /\ layerSeq' = Append(layerSeq, StackKey(Len(stack) + 1))
  /\ stack' = Append(stack, [work |-> work, z |-> layerZ + 1])
  /\ UNCHANGED <<closingDepth, artistPage, pages, snap>>
  /\ Arm

PopRelated ==
  /\ closingDepth = 0
  /\ stack # <<>>
  /\ closingDepth' = Len(stack)
  /\ layerSeq' = Without(StackKey(Len(stack)))
  /\ PersistNow([Snapshot EXCEPT !.stack = Front(@)])
  /\ UNCHANGED <<stack, artistPage, pages, layerZ>>
  /\ NoArm

\* its timer; the array may have been emptied meanwhile
PopDone ==
  /\ closingDepth # 0
  /\ stack' = IF stack = <<>> THEN <<>> ELSE Front(stack)
  /\ closingDepth' = 0
  /\ UNCHANGED <<artistPage, pages, layerZ, layerSeq, snap>>
  /\ Arm

\* Mutant: every key that starts with an s goes.
NoKeysInS == Filtered(layerSeq, {i \in DOMAIN layerSeq : layerSeq[i] = ArtistKey})
NoStackKeys == Filtered(layerSeq, {i \in DOMAIN layerSeq : layerSeq[i][1] # "stack"})

CloseAllStacks ==
  /\ layerSeq' = NoStackKeys
  /\ PersistNow([Snapshot EXCEPT !.stack = <<>>])
  /\ stack' = <<>>
  /\ UNCHANGED <<closingDepth, artistPage, pages>>
  /\ ResetIfIdle
  /\ Arm

-----------------------------------------------------------------------------
(* The artist page: one, replaced by the next.                             *)

\* openArtist and openArtistUser
OpenArtist(id) ==
  /\ layerZ < MaxZ
  /\ layerZ' = layerZ + 1
  /\ artist' = [id |-> id, z |-> layerZ + 1]
  /\ layerSeq' = Append(layerSeq, ArtistKey)
  /\ UNCHANGED <<related, artistClosing, pages, snap>>
  /\ Arm

CloseArtist ==
  /\ artistClosing = 0
  /\ artist # None
  /\ artistClosing' = artist.z
  /\ layerSeq' = Without(ArtistKey)
  /\ PersistNow([Snapshot EXCEPT !.artist = None])
  /\ UNCHANGED <<related, artist, pages, layerZ>>
  /\ NoArm

\* Mutant: the timer clears whatever page is there.
NoArtist == None
\* A page opened during the slide-out stays.
ArtistLeft == IF artist # None /\ artist.z = artistClosing THEN None ELSE artist

\* Mutant: the timer does nothing at all if the page was replaced.
ArtistDoneIfSame ==
  /\ artistClosing # 0
  /\ artist # None /\ artist.z = artistClosing
  /\ artist' = None
  /\ artistClosing' = 0
  /\ UNCHANGED <<related, pages, layerSeq, snap>>
  /\ ResetIfIdle
  /\ Arm
\* its timer
ArtistDone ==
  /\ artistClosing # 0
  /\ artist' = ArtistLeft
  /\ artistClosing' = 0
  /\ UNCHANGED <<related, pages, layerSeq, snap>>
  /\ ResetIfIdle
  /\ IF artist' # artist THEN Arm ELSE NoArm

-----------------------------------------------------------------------------
(* The search pages.                                                       *)

\* The pages without those at z
PagesBut(z) == Filtered(searches, {i \in DOMAIN searches : searches[i].z # z})
IndexOf(z) == Max({i \in DOMAIN searches : searches[i].z = z} \cup {0})

\* Mutant: the page's state stays in the parallel array.
FinalizeStack(z, idx) ==
  /\ searches' = PagesBut(z)
  /\ searchStates' = searchStates
  /\ closingSearchZ' = 0
\* Everything finalizeSearchClose does but the assignment of the counter
FinalizeSearchClose(z, idx) ==
  /\ searches' = PagesBut(z)
  /\ searchStates' = IF idx \in DOMAIN searchStates THEN RemoveAt(searchStates, idx)
                     ELSE searchStates
  /\ closingSearchZ' = 0

\* openSearch opens a second page without a tag, openTagPage no tag twice.
Refused(kept, tag) ==
  \/ Len(kept) >= MaxDepth
  \/ tag # None /\ \E i \in DOMAIN kept : kept[i].tag = tag

\* openSearch (no tag) and openTagPage finish a slide-out under way before
\* they look at the pages, then may still refuse.
OpenPage(tag) ==
  LET kept == PagesBut(closingSearchZ)
      states == IF closingSearchZ = 0 THEN searchStates
                ELSE RemoveAt(searchStates, IndexOf(closingSearchZ))
      idle == kept = <<>> /\ stack = <<>> /\ artist = None /\ Closing = {"search"}
      z == IF idle THEN ZBase ELSE layerZ
  IN /\ \/ /\ ~ Refused(kept, tag)
           /\ z < MaxZ
           /\ layerZ' = z + 1
           /\ searchStates' = Append(states, tag)
           /\ searches' = Append(kept, [tag |-> tag, z |-> z + 1])
           /\ layerSeq' = Append(layerSeq, SearchKey(Len(kept) + 1))
        \/ /\ Refused(kept, tag)
           /\ closingSearchZ # 0
           /\ layerZ' = z
           /\ searchStates' = states
           /\ searches' = kept
           /\ layerSeq' = layerSeq
     /\ closingSearchZ' = 0
     /\ UNCHANGED <<related, artistPage, searchTimers, snap>>
     /\ Arm

CloseSearch(z) ==
  LET idx == IndexOf(z) IN
  /\ closingSearchZ = 0
  /\ idx # 0
  /\ Len(searchTimers) < MaxTimers
  /\ closingSearchZ' = z
  /\ layerSeq' = Without(SearchKey(idx))
  /\ PersistNow([Snapshot EXCEPT !.states = RemoveAt(@, idx), !.tags = RemoveAt(@, idx)])
  /\ searchTimers' = Append(searchTimers, [z |-> z, idx |-> idx])
  /\ UNCHANGED <<related, artistPage, searches, searchStates, layerZ>>
  /\ NoArm

\* The oldest timer: it returns if what it was started for is over.
SearchDone ==
  /\ searchTimers # <<>>
  /\ searchTimers' = Tail(searchTimers)
  /\ UNCHANGED <<related, artistPage, layerSeq, snap>>
  /\ LET timer == Head(searchTimers) IN
     \/ /\ closingSearchZ = timer.z
        /\ FinalizeSearchClose(timer.z, timer.idx)
        /\ ResetIfIdle
        /\ Arm
     \/ /\ closingSearchZ # timer.z
        /\ UNCHANGED <<searches, searchStates, closingSearchZ, layerZ>>
        /\ NoArm

-----------------------------------------------------------------------------
(* The gesture, the saver, a reload.                                       *)

PopTopLayer ==
  /\ layerSeq # <<>>
  /\ LET top == Last(layerSeq) IN
     \/ top = ArtistKey /\ CloseArtist
     \/ top[1] = "search" /\ top[2] \in DOMAIN searches /\ CloseSearch(searches[top[2]].z)
     \/ top[1] = "stack" /\ PopRelated

\* Mutant: the debounce is shorter than a slide-out.
SaveSoon ==
  /\ armed
  /\ armed' = FALSE
  /\ snap' = IF Closing = {} THEN Snapshot ELSE snap
  /\ UNCHANGED <<related, artistPage, pages, layerZ, layerSeq, before>>
\* The debounced effect: it writes nothing while something slides out.
Save ==
  /\ armed
  /\ before = {}
  /\ armed' = FALSE
  /\ snap' = IF Closing = {} THEN Snapshot ELSE snap
  /\ UNCHANGED <<related, artistPage, pages, layerZ, layerSeq, before>>

\* The keys of all layers of the snapshot, in the order restore falls back on
SavedKeys == [i \in DOMAIN snap.states |-> SearchKey(i)]
               \o [i \in DOMAIN snap.stack |-> StackKey(i)]
               \o (IF snap.artist = None THEN <<>> ELSE <<ArtistKey>>)

\* The saved open order without the keys that name no layer
RestoredOrder == IF snap.order = <<>> THEN SavedKeys
                 ELSE Filtered(snap.order, {i \in DOMAIN snap.order : snap.order[i] \in Range(SavedKeys)})

\* A fresh page: loadSnapshot and restore.  z-values go up in the saved
\* order, and layers that are missing from it come on top.
Reload ==
  LET order == RestoredOrder
      all == order \o Filtered(SavedKeys, {i \in DOMAIN SavedKeys : SavedKeys[i] \notin Range(order)})
      Z(key) == ZBase + Max({p \in DOMAIN all : all[p] = key})
      tag == [i \in DOMAIN snap.states |-> IF i \in DOMAIN snap.tags THEN snap.tags[i] ELSE None]
  IN /\ user \in Reloads
     /\ searchStates' = snap.states
     /\ searches' = [i \in DOMAIN tag |-> [tag |-> tag[i], z |-> Z(SearchKey(i))]]
     /\ stack' = [i \in DOMAIN snap.stack |-> [work |-> snap.stack[i], z |-> Z(StackKey(i))]]
     /\ artist' = IF snap.artist = None THEN None ELSE [id |-> snap.artist, z |-> Z(ArtistKey)]
     /\ layerSeq' = order
     /\ layerZ' = ZBase + Len(all)
     /\ closingDepth' = 0 /\ artistClosing' = 0 /\ closingSearchZ' = 0 /\ searchTimers' = <<>>
     /\ armed' = TRUE /\ before' = {} /\ cooling' = {}
     /\ UNCHANGED <<snap, user>>

-----------------------------------------------------------------------------
\* The Back and close buttons of the layer that gets the taps
CloseButton ==
  /\ MayClose
  /\ \/ Faces("stack") /\ PopRelated
     \/ Faces("stack") /\ CloseAllStacks
     \/ Faces("artist") /\ CloseArtist
     \/ Faces("search") /\ CloseSearch(Facing)

\* Works, artists and tags can be tapped everywhere; the drawer that opens a
\* free-form search is part of the feed.
OpenLayer ==
  \/ \E work \in Works : PushRelated(work)
  \/ \E id \in Artists : OpenArtist(id)
  \/ \E tag \in Tags : OpenPage(tag)
  \/ Facing = 0 /\ OpenPage(None)

Timers == PopDone \/ ArtistDone \/ SearchDone

\* Two gestures are further apart than a slide-out takes.
EdgeBack ==
  /\ MayClose
  /\ cooling = {}
  /\ PopTopLayer
  /\ cooling' = Closing' \ Closing
  /\ UNCHANGED user

\* A step of the page during which no gesture ends
Step(action) == action /\ cooling' = cooling \cap Closing' /\ UNCHANGED user

Next ==
  \/ Step(OpenLayer)
  \/ Step(CloseButton)
  \/ Step(Timers)
  \/ Step(Save)
  \/ EdgeBack
  \/ Reload

Spec == Init /\ [][Next]_vars
\* Timers fire; nothing else has to happen.
FairSpec == Spec /\ WF_vars(Step(PopDone)) /\ WF_vars(Step(ArtistDone)) /\ WF_vars(Step(SearchDone))

-----------------------------------------------------------------------------
LayerZs == ZBase + 1 .. MaxZ
Keys == {StackKey(i) : i \in 1 .. MaxDepth} \cup {SearchKey(i) : i \in 1 .. MaxDepth}
          \cup {ArtistKey}

\* Types: every z is above the base, the closing level is the last there was.
TypeOK ==
  /\ stack \in Seq([work : Works, z : LayerZs]) /\ Len(stack) <= MaxDepth
  /\ closingDepth \in 0 .. MaxDepth
  /\ artist \in [id : Artists, z : LayerZs] \cup {None}
  /\ artistClosing \in {0} \cup LayerZs
  /\ searches \in Seq([tag : Tags \cup {None}, z : LayerZs]) /\ Len(searches) <= MaxDepth
  /\ searchStates \in Seq(Tags \cup {None})
  /\ closingSearchZ \in {0} \cup LayerZs
  /\ searchTimers \in Seq([z : LayerZs, idx : 1 .. MaxDepth])
  /\ layerZ \in {ZBase} \cup LayerZs
  /\ layerSeq \in Seq(Keys)
  /\ snap.order \in Seq(Keys)
  /\ armed \in BOOLEAN /\ before \subseteq Kinds /\ cooling \subseteq Kinds /\ user \in Users

\* The z the images of a layer are compared with (the topZ memo, and the dev
\* invariant below it) is the one of the layer the user sees on top: a layer
\* on top of topZ suppresses its own images and stays black.
TopIsVisible == TopZ = Facing

\* An artist page opened while the one before it slides out
Replaced == artist # None /\ artistClosing # 0 /\ artist.z # artistClosing
\* The z of every layer the user has not asked to close
Unasked == OpenZs \cup (IF Replaced THEN {artist.z} ELSE {})

\* The open order names the open layers and no other (the artist page once
\* for every time it was opened): a key left behind names whatever layer is
\* opened next in its place, a missing one hides a layer from topZ and from
\* the gesture.  And searchStates stays parallel to searchStack: a page that
\* closes takes its own state with it, whichever of timer and next open
\* removes it.
BooksAgree ==
  /\ Range(layerSeq) = {key \in LayerKeys : IF key = ArtistKey THEN Replaced \/ artistClosing = 0
                                            ELSE ZOf(key) # 0}
  /\ searchStates = TagsOf(searches)

\* Once nothing slides out and the debounce is over, the snapshot is the
\* screen: a save skipped during a slide-out is made up for (App.tsx 587-592).
SavedWhenQuiet == (~ armed /\ Closing = {}) => snap = Snapshot

\* What a reload brings back was still open: no layer the user has asked to
\* close returns, not even when the page is killed during its slide-out
\* (persistNow, App.tsx 632-639: a close is permanent the instant the user
\* asks for it).
ClosedForGood ==
  [][Reload =>
       /\ IsPrefix(WorksOf(stack'), WorksOf(IF closingDepth \in DOMAIN stack THEN Front(stack) ELSE stack))
       /\ IsPrefix(TagsOf(searches'), TagsOf(PagesBut(closingSearchZ)))
       /\ artist' # None => artist # None /\ artist.z # artistClosing]_vars

\* The timer of a slide-out, and an open that finishes one early, take no
\* layer that is open: a stale timer does not close the layer opened since,
\* though z-values are used again once the counter was rewound.  And the
\* gesture closes the layer the user sees on top and no other.
OnlyClosedLeave ==
  [][/\ Timers \/ (\E tag \in Tags \cup {None} : OpenPage(tag)) => Unasked \subseteq Unasked'
     /\ EdgeBack => OpenZs' = OpenZs \ {Facing}]_vars

\* Which open layer is on top of which
Above == {pair \in Open \X Open : ZOf(pair[1]) > ZOf(pair[2])}

\* A reload of what is on the screen brings the layers back in the order they
\* were on top of each other, and images to the one on top; and of what was on
\* the screen before, nothing returns that the user has asked to close.
ReloadKeepsOrder ==
  [][Reload /\ snap = Snapshot /\ Closing = {} => Open' = Open /\ Above' = Above]_vars
ReloadFaithful == ClosedForGood /\ ReloadKeepsOrder

\* Every slide-out ends: nothing stays half closed, deaf to taps and with its
\* images suppressed.
SlideOutsEnd == \A kind \in Kinds : (kind \in Closing) ~> (kind \notin Closing)
=============================================================================
