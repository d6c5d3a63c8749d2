------------------------------- MODULE Snapshots -------------------------------
(***************************************************************************)
(* The saved session (state-persistence.ts): what saveSnapshot keeps of a  *)
(* session, and what loadSnapshot makes of what it finds, be it what was   *)
(* saved, a snapshot damaged since, one of an older version, or nothing.   *)
(*                                                                         *)
(* A related work, a search result and a search layer are numbers with a   *)
(* flag: has it the shape that is rendered unconditionally?                *)
(***************************************************************************)
EXTENDS Integers, Sequences, SequencesExt, Lists

CONSTANTS Ids, Hard,   \* MAX_STACK_DEPTH_HARD, MAX_SEARCH_DEPTH_HARD
          None

VARIABLES stored,   \* localStorage
          damaged,  \* history: not as saveSnapshot left it
          session,  \* history: the session saved last
          loaded    \* what the boot restores, None for a fresh start

vars == <<stored, damaged, session, loaded>>

Sound(id) == [id |-> id, sound |-> TRUE]
Broken(entry) == [entry EXCEPT !.sound = FALSE]

\* The sessions there may be: related works all of one id, any search pages (an
\* even one was opened for its tag, an odd one is a free search)
Piles(n, ids) == [1 .. n -> ids]
Sessions == [stack : UNION {Piles(n, {1}) : n \in 0 .. Hard + 1},
             searches : UNION {Piles(n, Ids) : n \in 0 .. Hard + 1},
             recs : {{}, Ids}, pile : {"public", "private"}, folder : {"", "tag"}]
TagOf(id) == IF id % 2 = 0 THEN id ELSE None

Cut(seq, n) == SubSeq(seq, 1, IF Len(seq) < n THEN Len(seq) ELSE n)
Folder(pile, folder) == IF pile = "private" THEN "" ELSE folder
Each(op(_), seq) == [i \in DOMAIN seq |-> op(seq[i])]

-----------------------------------------------------------------------------
\* saveSnapshot
Saved(s) ==
  [v |-> 1, feedType |-> "known",
   stack |-> Each(Sound, Cut(s.stack, Hard)),
   searchStack |-> Each(Sound, Cut(s.searches, Hard)),
   searchTags |-> Each(TagOf, Cut(s.searches, Hard)),
   recs |-> {Sound(id) : id \in s.recs},
   pile |-> s.pile, folder |-> Folder(s.pile, s.folder)]

\* isRenderableIllustEntry, sanitizeSearchState
IsSound(entry) == entry.sound

\* Mutant: only the containers are validated.
ContainersOnly(seq) == seq
Validated(seq) == Filtered(seq, {i \in DOMAIN seq : IsSound(seq[i])})

\* the tags of the layers that are left, by position
TagsFor(searches, raw) == [i \in DOMAIN searches |-> IF i \in DOMAIN raw THEN raw[i] ELSE None]

\* loadSnapshot, at the depth the user set or at the hard bound
Loaded(raw, depth) ==
  LET searches == Cut(Validated(raw.searchStack), depth) IN
  [feedType |-> IF raw.feedType = "known" THEN "known" ELSE "home",
   stack |-> Cut(Validated(raw.stack), depth),
   searchStack |-> searches,
   searchTags |-> TagsFor(searches, Cut(raw.searchTags, depth)),
   recs |-> {entry \in raw.recs : IsSound(entry)},
   pile |-> raw.pile, folder |-> Folder(raw.pile, raw.folder)]

-----------------------------------------------------------------------------
Init == stored = None /\ damaged = FALSE /\ session = None /\ loaded = None

\* The session ends with this save: a later one replaces all of it
Save ==
  /\ session = None
  /\ \E s \in Sessions : session' = s /\ stored' = Saved(s)
  /\ UNCHANGED <<damaged, loaded>>

Spoilt(seq) == {[seq EXCEPT ![i] = Broken(@)] : i \in DOMAIN seq}
Damage ==
  /\ stored # None /\ ~damaged /\ loaded = None
  /\ damaged' = TRUE
  /\ stored' \in
       {[stored EXCEPT !.stack = seq] : seq \in Spoilt(stored.stack)}
         \cup {[stored EXCEPT !.searchStack = seq] : seq \in Spoilt(stored.searchStack)}
         \cup {[stored EXCEPT !.recs = {Broken(e) : e \in @}]}
         \cup {[stored EXCEPT !.searchTags = <<>>], [stored EXCEPT !.feedType = "unknown"],
               [stored EXCEPT !.pile = "private", !.folder = "tag"], [stored EXCEPT !.v = 2]}
  /\ UNCHANGED <<session, loaded>>

Load ==
  /\ stored # None /\ loaded = None
  /\ \E depth \in 1 .. Hard :
       loaded' = IF stored.v = 1 THEN Loaded(stored, depth) ELSE None
  /\ UNCHANGED <<stored, damaged, session>>

Next == Save \/ Damage \/ Load
Spec == Init /\ [][Next]_vars

-----------------------------------------------------------------------------
\* What the boot restores can be rendered: every entry has its shape, every
\* search layer a tag or none, no folder is open on the private pile; and an
\* undamaged session comes back as it was, up to the depth allowed.
RestoresSound ==
  loaded # None =>
    /\ \A e \in Range(loaded.stack) \cup Range(loaded.searchStack) \cup loaded.recs : e.sound
    /\ DOMAIN loaded.searchTags = DOMAIN loaded.searchStack
    /\ loaded.pile = "private" => loaded.folder = ""
    /\ loaded.feedType \in {"known", "home"}
    /\ ~damaged =>
         /\ IsPrefix(loaded.stack, Each(Sound, session.stack))
         /\ IsPrefix(loaded.searchStack, Each(Sound, session.searches))
         /\ IsPrefix(loaded.searchTags, Each(TagOf, session.searches))
         /\ loaded.recs = {Sound(id) : id \in session.recs}
         /\ loaded.pile = session.pile
=============================================================================
