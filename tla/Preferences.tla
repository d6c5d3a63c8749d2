------------------------------- MODULE Preferences -------------------------------
(***************************************************************************)
(* The preferences (store.ts, api/prefs.ts, the forms of ConfigModal.tsx   *)
(* and TagPopup.tsx, the table of prefs.go): the list of blocked tags,     *)
(* replaced as a whole by every write, and one of the plain values (image  *)
(* size, view modes, stack depth).  The boot asks for both; edits may come *)
(* before the answers.  One queue sends the writes one after the other.    *)
(***************************************************************************)
EXTENDS Sequences, FiniteSets, Naturals

CONSTANTS Tags, Values,
          Faults,     \* of "seed lost", "seed late", "write lost", "hasty user"
          MaxTaps,    \* bound: edits
          None

VARIABLES
  db,                        \* the table
  tags, value,               \* the working copies
  seeds,                     \* answers on their way to the boot; None if unread yet
  blockedSeedApplied, pendingAdds, pendingRemovals,
  queue,                     \* prefsWriteQueue: the first is in flight
  want,                      \* history: the tags there were, and the edits since
  lost,                      \* history: a request failed
  taps

pending == <<blockedSeedApplied, pendingAdds, pendingRemovals>>
vars == <<db, tags, value, seeds, pending, queue, want, lost, taps>>

Init ==
  /\ db \in [tags : SUBSET Tags, value : Values]
  /\ tags = {} /\ value = CHOOSE v \in Values : TRUE
  /\ seeds = [tags |-> None, value |-> db.value]
  /\ blockedSeedApplied = FALSE /\ pendingAdds = {} /\ pendingRemovals = {}
  /\ queue = <<>> /\ want = db.tags /\ lost = FALSE /\ taps = MaxTaps

Awaited(key) == key \in DOMAIN seeds
Received(key) == seeds' = [k \in DOMAIN seeds \ {key} |-> seeds[k]]

-----------------------------------------------------------------------------
(* The boot's answers.                                                     *)

\* The server reads the table.
SeedRead ==
  /\ Awaited("tags") /\ seeds.tags = None
  /\ seeds' = [seeds EXCEPT !.tags = db.tags]
  /\ UNCHANGED <<db, tags, value, pending, queue, want, lost, taps>>

\* Mutant: a removal before the answer leaves no trace.
MergedWithRemoved(server) == server \cup tags \cup pendingAdds
Merged(server) == (server \cup tags \cup pendingAdds) \ pendingRemovals

\* setBlockedTagsList: the edits of the meantime are merged and written back
TagsArrive ==
  LET edited == pendingAdds \cup pendingRemovals # {} IN
  /\ Awaited("tags") /\ seeds.tags # None
  /\ Received("tags")
  /\ tags' = IF edited THEN Merged(seeds.tags) ELSE seeds.tags
  /\ queue' = IF edited THEN Append(queue, [key |-> "tags", to |-> tags']) ELSE queue
  /\ blockedSeedApplied' = TRUE /\ pendingAdds' = {} /\ pendingRemovals' = {}
  /\ UNCHANGED <<db, value, want, lost, taps>>

\* setImageSizeFromServer and its like: whatever the user did meanwhile
ValueArrives ==
  /\ Awaited("value")
  /\ Received("value")
  /\ value' = seeds.value
  /\ UNCHANGED <<db, tags, pending, queue, want, lost, taps>>

SeedFails ==
  /\ "seed lost" \in Faults
  /\ \E key \in DOMAIN seeds : Received(key)
  /\ lost' = TRUE
  /\ UNCHANGED <<db, tags, value, pending, queue, want, taps>>

-----------------------------------------------------------------------------
(* Edits.                                                                  *)

\* The boot's request left first; the server need not have read it first.
Asked == "seed late" \notin Faults /\ Awaited("tags") => seeds.tags # None

Persist(key, to) == queue' = Append(queue, [key |-> key, to |-> to])

\* addBlockedTag
AddTag(t) ==
  /\ tags' = tags \cup {t} /\ want' = want \cup {t}
  /\ IF blockedSeedApplied THEN UNCHANGED pending
     ELSE /\ pendingAdds' = pendingAdds \cup {t}
          /\ pendingRemovals' = pendingRemovals \ {t}
          /\ UNCHANGED blockedSeedApplied
  /\ Persist("tags", tags')
  /\ UNCHANGED <<db, value, seeds, lost>>

\* removeBlockedTag: the forms offer it for a tag on the list
RemoveTag(t) ==
  /\ t \in tags
  /\ tags' = tags \ {t} /\ want' = want \ {t}
  /\ IF blockedSeedApplied THEN UNCHANGED pending
     ELSE /\ pendingRemovals' = pendingRemovals \cup {t}
          /\ pendingAdds' = pendingAdds \ {t}
          /\ UNCHANGED blockedSeedApplied
  /\ Persist("tags", tags')
  /\ UNCHANGED <<db, value, seeds, lost>>

\* setImageSize, setFeedViewMode, setArtistViewMode, setMaxStackDepth
SetValue(v) ==
  /\ "hasty user" \in Faults \/ ~Awaited("value")
  /\ value' = v
  /\ Persist("value", v)
  /\ UNCHANGED <<db, tags, seeds, pending, want, lost>>

User ==
  /\ taps > 0 /\ taps' = taps - 1
  /\ \/ Asked /\ \E t \in Tags : AddTag(t) \/ RemoveTag(t)
     \/ \E v \in Values : SetValue(v)

-----------------------------------------------------------------------------
(* Writes.                                                                 *)

WriteApplies == db' = [db EXCEPT ![Head(queue).key] = Head(queue).to]

\* queuedPrefWrite: the chain sends a write when the one before has ended
WriteEnds ==
  /\ queue # <<>>
  /\ queue' = Tail(queue)
  /\ \/ WriteApplies /\ lost' = lost
     \/ /\ "write lost" \in Faults
        /\ UNCHANGED db \/ WriteApplies
        /\ lost' = TRUE
  /\ UNCHANGED <<tags, value, seeds, pending, want, taps>>

Next == SeedRead \/ TagsArrive \/ ValueArrives \/ SeedFails \/ User \/ WriteEnds

Spec == Init /\ [][Next]_vars

-----------------------------------------------------------------------------
TypeOK ==
  /\ db \in [tags : SUBSET Tags, value : Values]
  /\ tags \subseteq Tags /\ value \in Values /\ want \subseteq Tags
  /\ \A i \in DOMAIN queue : queue[i].key \in {"tags", "value"}

\* Once the boot's answers are in, the list is what it was with every edit
\* since, early ones included, and once the queue is empty the table holds it
\* and the value shown, unless a request failed.
PrefsAgree ==
  /\ blockedSeedApplied => tags = want
  /\ DOMAIN seeds = {} /\ queue = <<>> /\ ~lost /\ blockedSeedApplied =>
       db = [tags |-> tags, value |-> value]
=============================================================================
