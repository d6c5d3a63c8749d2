-------------------------- MODULE FollowStateProofs --------------------------
(***************************************************************************)
(* Proofs about FollowState, for every set of readers, togglers and ids,   *)
(* any number of logins and toggles, and any Retries >= 1.                 *)
(***************************************************************************)
EXTENDS FollowState, TLAPS

\* pixiv's present state of i, as the current session sees it.
Now(i) == [s |-> session, v |-> upstream[session][i]]

\* What pixiv would answer to the request of r.
Asked(r) == [s |-> call[r].sess, v |-> upstream[call[r].sess][call[r].id]]

\* A ticket of r exists: it is registered, or finished and not yet closed.
Holds(r) == Leads(r) \/ call[r].pc = "closing"

\* Nothing ever announced is ahead of pixiv, nor is a toggle under way.
AnnouncedOK ==
  /\ \A i \in Ids : Leq(floor[i], Now(i))
  /\ \A t \in Togglers :
       /\ toggle[t].sess <= session
       /\ toggle[t].pc = "applied" => Leq(toggle[t].stamp, Now(toggle[t].id))

\* Epochs only grow while a ticket is registered, so a ticket that was passed
\* by never matches again.
EpochOK == \A r \in Readers : Leads(r) => call[r].epoch <= epochs[call[r].id]

\* The answer of a ticket whose epoch still matches is as new as the floor, and
\* that of any ticket is as new as the floor at its registration.
TicketOK == \A r \in Readers :
  /\ Leads(r) => Leq(base[r], floor[call[r].id])
  /\ Leads(r) /\ call[r].epoch = epochs[call[r].id] =>
       /\ call[r].pc = "sent" => Leq(floor[call[r].id], Asked(r))
       /\ call[r].pc = "received" /\ call[r].ans # Unknown => Leq(floor[call[r].id], call[r].ans)
  /\ call[r].pc = "sent" => Leq(base[r], Asked(r))
  /\ call[r].pc \in {"received", "closing"} /\ call[r].ans # Unknown => Leq(base[r], call[r].ans)
  /\ call[r].pc \in {"enter", "lead", "sent"} => call[r].ans = Unknown

NeedOK == \A r \in Readers :
  /\ call[r].pc # "idle" => Leq(need[r], floor[call[r].id])
  /\ Holds(r) => Leq(need[r], base[r])
  /\ call[r].pc = "done" /\ call[r].ans # Unknown => Leq(need[r], call[r].ans)

\* A waiting follower's ticket exists; on a retry it is one registered after
\* the follower's call began.
WaitOK == \A r \in Readers : call[r].pc = "wait" =>
  LET l == call[r].ticket IN
  /\ l \in Readers
  /\ Holds(l)
  /\ call[l].id = call[r].id
  /\ call[r].attempt # 0 => Leq(need[r], base[l])
  /\ call[l].pc = "closing" /\ call[l].ans # Unknown /\ ~call[l].superseded =>
       Leq(need[r], call[l].ans)

WokenOK == \A r \in Readers :
  call[r].pc = "woken" /\ call[r].ans # Unknown
    /\ (call[r].attempt # 0 \/ ~call[r].superseded) => Leq(need[r], call[r].ans)

\* The reader r has seen a ticket of its id finish, or is about to.
Seen(r) ==
  \/ call[r].pc = "enter" /\ call[r].attempt # 0
  \/ call[r].pc = "woken"
  \/ call[r].pc = "wait" /\ call[call[r].ticket].pc = "closing"

\* A ticket registered after that is as new as its call.
SeenOK == \A r \in Readers : Seen(r) /\ inflight[call[r].id] # NoReader =>
            Leq(need[r], base[inflight[call[r].id]])

IInv ==
  /\ TypeOK /\ SingleFlight /\ NoDeadEpochs
  /\ AnnouncedOK /\ EpochOK /\ TicketOK /\ NeedOK /\ WaitOK /\ WokenOK /\ SeenOK
  /\ CacheFresh

-----------------------------------------------------------------------------
(* What every step relies on                                               *)

LEMMA Constants ==
  /\ AnyId \in Ids /\ Origin \in Stamp /\ Idle \in Call /\ NoToggle \in Toggle
  /\ Idle.pc = "idle" /\ Idle.id = AnyId /\ Idle.attempt = 0 /\ Idle.ticket = NoReader
  /\ Idle.epoch = 0 /\ Idle.sess = 0 /\ Idle.ans = Unknown /\ Idle.superseded = FALSE
<1>1. AnyId \in Ids
  BY FollowStateAssumption DEF AnyId
<1>2. Origin \in Stamp
  BY DEF Origin, Stamp
<1>3. QED
  BY <1>1, <1>2, FollowStateAssumption DEF Idle, Call, PCs, NoToggle, Toggle, Sessions

\* The locals of one reader change; those of the others stay.
LEMMA Becomes == ASSUME call \in [Readers -> Call], NEW r \in Readers, NEW c \in Call, Become(r, c)
                 PROVE  /\ call' \in [Readers -> Call]
                        /\ call'[r] = c
                        /\ \A q \in Readers : q # r => call'[q] = call[q]
  BY DEF Become

\* Stamps are ordered by age.
LEMMA LeqTrans == \A x, y, z \in Stamp : Leq(x, y) /\ Leq(y, z) => Leq(x, z)
  BY DEF Stamp, Leq

LEMMA LaterBounds == \A x, y \in Stamp : Later(x, y) \in Stamp /\ Leq(x, Later(x, y))
                       /\ Leq(y, Later(x, y)) /\ Later(x, y) \in {x, y}
  BY DEF Stamp, Leq, Later

LEMMA LeqRefl == \A x \in Stamp : Leq(x, x)
  BY DEF Stamp, Leq

LEMMA StampTypes == ASSUME TypeOK
  PROVE /\ session \in Sessions
        /\ \A i \in Ids : Now(i) \in Stamp
        /\ \A r \in Readers : Asked(r) \in Stamp
<1>1. session \in Sessions /\ Sessions \subseteq Nat
  BY FollowStateAssumption DEF TypeOK, Sessions, session
<1>2. \A s \in Sessions, i \in Ids : [s |-> s, v |-> upstream[s][i]] \in Stamp
  BY <1>1 DEF TypeOK, Stamp
<1>3. \A r \in Readers : call[r].sess \in Sessions /\ call[r].id \in Ids
  BY DEF TypeOK, Call
<1>4. QED
  BY <1>1, <1>2, <1>3 DEF Now, Asked

-----------------------------------------------------------------------------
(* Steps that change nothing but the locals of one reader                  *)

Registered == {"lead", "sent", "received"}

\* The locals c are ones that r may step to without disturbing IInv: it keeps
\* the ticket it leads, and its answer is as new as it has to be.
Admissible(r, c) ==
  LET asked == [s |-> c.sess, v |-> upstream[c.sess][c.id]] IN
  /\ call[r].pc \notin {"idle", "closing"}
  /\ c.pc \notin {"idle", "closing", "woken", "lead"}
  /\ c.id = call[r].id
  /\ c.pc \in Registered <=> Leads(r)
  /\ Leads(r) => c.epoch = call[r].epoch
  /\ c.pc = "sent" =>
       /\ c.ans = Unknown
       /\ Leq(base[r], asked)
       /\ c.epoch = epochs[c.id] => Leq(floor[c.id], asked)
  /\ c.pc = "received" /\ c.ans # Unknown =>
       /\ Leq(base[r], c.ans)
       /\ c.epoch = epochs[c.id] => Leq(floor[c.id], c.ans)
  /\ c.pc = "done" /\ c.ans # Unknown => Leq(need[r], c.ans)
  /\ c.pc = "wait" =>
       /\ c.ticket = inflight[c.id]
       /\ inflight[c.id] # NoReader
       /\ c.attempt # 0 => Leq(need[r], base[c.ticket])
  /\ c.pc = "enter" =>
       /\ c.ans = Unknown
       /\ inflight[c.id] # NoReader => Leq(need[r], base[inflight[c.id]])

LEMMA LocalStep ==
  ASSUME IInv, NEW r \in Readers, NEW c \in Call, Become(r, c), Admissible(r, c),
         UNCHANGED <<items, inflight, epochs, commits, swap, upstream, toggle, floor, need, base>>,
         cooldown' \in BOOLEAN
  PROVE  IInv'
<1>1. TypeOK /\ call[r] \in Call /\ call \in [Readers -> Call]
  BY DEF IInv, TypeOK
<1>2. /\ call' \in [Readers -> Call] /\ call'[r] = c
      /\ \A q \in Readers : q # r => call'[q] = call[q]
  BY <1>1, Becomes
<1>3. /\ c.id = call[r].id /\ call[r].pc \notin {"idle", "closing"}
      /\ c.pc \notin {"idle", "closing", "woken", "lead"}
      /\ c.pc \in Registered <=> Leads(r)
      /\ Leads(r) => c.epoch = call[r].epoch
  BY DEF Admissible
<1>4. \A i \in Ids : inflight[i] # NoReader =>
        inflight[i] \in Readers /\ Leads(inflight[i]) /\ call[inflight[i]].id = i
  BY <1>1 DEF IInv, SingleFlight, TypeOK
<1>5. \A q \in Readers : /\ Leads(q)' <=> Leads(q)
                         /\ call'[q].id = call[q].id
                         /\ call'[q].pc = "closing" <=> call[q].pc = "closing"
                         /\ Holds(q)' <=> Holds(q)
  BY <1>2, <1>3 DEF Leads, Holds, Registered
<1>6. TypeOK'
  BY <1>1, <1>2 DEF TypeOK
<1>7. SingleFlight'
  <2>1. \A q \in Readers : Leads(q)' => inflight'[call'[q].id] = q
    BY <1>5 DEF IInv, SingleFlight
  <2>2. ASSUME NEW i \in Ids, inflight[i] # NoReader
        PROVE  (Leads(inflight[i]) /\ call[inflight[i]].id = i)'
    BY <1>4, <1>5, <2>2
  <2>3. QED
    BY <2>1, <2>2 DEF SingleFlight
<1>8. NoDeadEpochs' /\ CacheFresh'
  BY DEF IInv, NoDeadEpochs, CacheFresh
<1>9. AnnouncedOK'
  BY DEF IInv, AnnouncedOK, Now, session
<1>10. EpochOK'
  BY <1>2, <1>3, <1>5 DEF IInv, EpochOK
<1>11. TicketOK'
  <2>1. ASSUME NEW q \in Readers, q # r PROVE TicketOK!(q)'
    BY <2>1, <1>2 DEF IInv, TicketOK, Leads, Asked
  <2>2. TicketOK!(r)'
    BY <1>2, <1>3, <1>5 DEF IInv, TicketOK, Asked, Admissible
  <2>3. QED
    BY <2>1, <2>2 DEF TicketOK
<1>12. NeedOK'
  BY <1>2, <1>3, <1>5 DEF IInv, NeedOK, Admissible
<1>13. WaitOK'
  <2>1. ASSUME NEW q \in Readers, call'[q].pc = "wait", q # r PROVE WaitOK!(q)'
    <3>1. call'[q] = call[q] /\ call[q].pc = "wait" /\ call[q].ticket \in Readers
      BY <2>1, <1>2 DEF IInv, WaitOK
    <3>2. call[call[q].ticket].pc = "closing" => call'[call[q].ticket] = call[call[q].ticket]
      BY <3>1, <1>2, <1>3
    <3>3. QED
      BY <3>1, <3>2, <1>5 DEF IInv, WaitOK
  <2>2. ASSUME call'[r].pc = "wait" PROVE WaitOK!(r)'
    <3>1. c.ticket \in Readers /\ Leads(c.ticket) /\ call[c.ticket].id = c.id
      BY <2>2, <1>1, <1>2, <1>4 DEF Admissible, Call
    <3>2. call'[c.ticket].pc # "closing"
      BY <3>1, <1>5 DEF Leads
    <3>3. QED
      BY <2>2, <3>1, <3>2, <1>2, <1>3, <1>5 DEF Admissible, Holds
  <2>3. QED
    BY <2>1, <2>2 DEF WaitOK
<1>14. WokenOK'
  BY <1>2, <1>3 DEF IInv, WokenOK
<1>15. SeenOK'
  <2>1. ASSUME NEW q \in Readers, q # r, Seen(q)', inflight[call[q].id] # NoReader
        PROVE  Leq(need[q], base[inflight[call[q].id]])
    <3>1. Seen(q)
      BY <2>1, <1>2, <1>5 DEF Seen, IInv, WaitOK
    <3>2. QED
      BY <3>1, <2>1 DEF IInv, SeenOK
  <2>2. ASSUME Seen(r)', inflight[call[r].id] # NoReader
        PROVE  Leq(need[r], base[inflight[call[r].id]])
    <3>1. CASE c.pc = "enter"
      BY <3>1, <2>2, <1>3 DEF Admissible
    <3>2. CASE c.pc = "wait"
      <4>1. Leads(c.ticket) /\ c.ticket \in Readers
        BY <3>2, <1>1, <1>4 DEF Admissible, Call
      <4>2. call'[c.ticket].pc # "closing"
        BY <4>1, <1>5 DEF Leads
      <4>3. QED
        BY <4>2, <3>2, <2>2, <1>2 DEF Seen
    <3>3. QED
      BY <3>1, <3>2, <2>2, <1>2, <1>3 DEF Seen
  <2>3. QED
    BY <2>1, <2>2, <1>5 DEF SeenOK
<1>16. QED
  BY <1>6, <1>7, <1>8, <1>9, <1>10, <1>11, <1>12, <1>13, <1>14, <1>15 DEF IInv

LEMMA HitStep == ASSUME IInv, NEW r \in Readers, Hit(r) PROVE IInv'
<1> DEFINE a == items[call[r].id]
           c == Done(r, a)
<1>1. TypeOK /\ call[r] \in Call /\ call[r].pc = "enter" /\ a \in Stamp
  BY DEF IInv, TypeOK, Hit, Call
<1>2. c \in Call /\ c.pc = "done" /\ c.id = call[r].id /\ c.ans = a
  BY <1>1, Constants DEF Done, Call, PCs
<1>3. Become(r, c)
  BY DEF Hit, Return
<1>4. Leq(need[r], a)
  <2>1. Leq(need[r], floor[call[r].id]) /\ Leq(floor[call[r].id], a)
    BY <1>1 DEF IInv, NeedOK, CacheFresh, Hit, Call
  <2>2. QED
    BY <2>1, <1>1, LeqTrans DEF TypeOK, Call
<1> HIDE DEF c
<1>5. Admissible(r, c)
  BY <1>1, <1>2, <1>4 DEF Admissible, Registered, Leads
<1>6. QED
  BY <1>1, <1>2, <1>3, <1>5, LocalStep DEF Hit, cache, history, TypeOK

LEMMA FollowStep == ASSUME IInv, NEW r \in Readers, Follow(r) PROVE IInv'
<1> DEFINE l == inflight[call[r].id]
           c == [call[r] EXCEPT !.pc = "wait", !.ticket = l]
<1>1. TypeOK /\ call[r] \in Call /\ call[r].pc = "enter" /\ l \in Readers
  BY DEF IInv, TypeOK, Follow, Call
<1>2. /\ c \in Call /\ c.pc = "wait" /\ c.id = call[r].id /\ c.ticket = l
      /\ c.attempt = call[r].attempt
  BY <1>1 DEF Call, PCs
<1>3. Become(r, c)
  BY DEF Follow
<1>4. call[r].attempt # 0 => Leq(need[r], base[l])
  BY <1>1 DEF IInv, SeenOK, Seen, Follow
<1> HIDE DEF c
<1>5. Admissible(r, c)
  BY <1>1, <1>2, <1>4 DEF Admissible, Registered, Leads, Follow
<1>6. QED
  BY <1>1, <1>2, <1>3, <1>5, LocalStep DEF Follow, cache, history, TypeOK

LEMMA SendStep == ASSUME IInv, NEW r \in Readers, Send(r) PROVE IInv'
<1> DEFINE c == [call[r] EXCEPT !.pc = "sent", !.sess = session]
           i == call[r].id
<1>1. /\ TypeOK /\ call[r] \in Call /\ call[r].pc = "lead" /\ session \in Sessions
      /\ i \in Ids /\ Now(i) \in Stamp
  BY StampTypes DEF IInv, TypeOK, Send, Call
<1>2. /\ c \in Call /\ c.pc = "sent" /\ c.id = i /\ c.sess = session
      /\ c.epoch = call[r].epoch /\ c.ans = call[r].ans
  BY <1>1 DEF Call, PCs
<1>3. Become(r, c)
  BY DEF Send
<1>4. Leq(floor[i], Now(i)) /\ Leq(base[r], Now(i)) /\ call[r].ans = Unknown
  <2>1. Leq(floor[i], Now(i)) /\ Leq(base[r], floor[i]) /\ call[r].ans = Unknown
    BY <1>1 DEF IInv, AnnouncedOK, TicketOK, Leads
  <2>2. QED
    BY <2>1, <1>1, LeqTrans DEF TypeOK
<1> HIDE DEF c
<1>5. Admissible(r, c)
  BY <1>1, <1>2, <1>4 DEF Admissible, Registered, Leads, Now
<1>6. QED
  BY <1>1, <1>2, <1>3, <1>5, LocalStep DEF Send, cache, history, TypeOK

LEMMA ServeStep == ASSUME IInv, NEW r \in Readers, Serve(r) PROVE IInv'
<1> DEFINE c == [call[r] EXCEPT !.pc = "received", !.ans = Asked(r), !.sess = 0]
<1>1. TypeOK /\ call[r] \in Call /\ call[r].pc = "sent" /\ Asked(r) \in Stamp /\ 0 \in Sessions
  <2>1. TypeOK /\ call[r] \in Call /\ call[r].pc = "sent"
    BY DEF IInv, TypeOK, Serve
  <2>2. QED
    BY <2>1, StampTypes, FollowStateAssumption DEF Sessions
<1>2. /\ c \in Call /\ c.pc = "received" /\ c.id = call[r].id /\ c.epoch = call[r].epoch
      /\ c.ans = Asked(r)
  BY <1>1 DEF Call, PCs
<1>3. Become(r, c)
  BY DEF Serve, Arrive, Asked
<1>4. Leq(base[r], Asked(r))
      /\ (call[r].epoch = epochs[call[r].id] => Leq(floor[call[r].id], Asked(r)))
  BY <1>1 DEF IInv, TicketOK, Leads
<1> HIDE DEF c
<1>5. Admissible(r, c)
  BY <1>1, <1>2, <1>4 DEF Admissible, Registered, Leads
<1>6. QED
  BY <1>1, <1>2, <1>3, <1>5, LocalStep DEF Serve, cache, history, TypeOK

\* A round trip that ends without an answer, whatever the reason.
LEMMA NoAnswer ==
  ASSUME IInv, NEW r \in Readers, Arrive(r, Unknown), call[r].pc \in {"lead", "sent"},
         UNCHANGED <<items, inflight, epochs, commits, swap, upstream, toggle, floor, need, base>>,
         cooldown' \in BOOLEAN
  PROVE  IInv'
<1> DEFINE c == [call[r] EXCEPT !.pc = "received", !.ans = Unknown, !.sess = 0]
<1>1. call[r] \in Call /\ 0 \in Sessions
  BY FollowStateAssumption DEF IInv, TypeOK, Sessions
<1>2. /\ c \in Call /\ c.pc = "received" /\ c.id = call[r].id /\ c.epoch = call[r].epoch
      /\ c.ans = Unknown
  BY <1>1 DEF Call, PCs
<1>3. Become(r, c)
  BY DEF Arrive
<1> HIDE DEF c
<1>4. Admissible(r, c)
  BY <1>2 DEF Admissible, Registered, Leads
<1>5. QED
  BY <1>2, <1>3, <1>4, LocalStep

LEMMA LostStep == ASSUME IInv, NEW r \in Readers, Cooling(r) \/ Lose(r) \/ Throttle(r) PROVE IInv'
  BY NoAnswer DEF Cooling, Lose, Throttle, cache, history, IInv, TypeOK

LEMMA RetryStep == ASSUME IInv, NEW r \in Readers, Retry(r) PROVE IInv'
<1> DEFINE c == [Idle EXCEPT !.pc = "enter", !.id = call[r].id, !.attempt = call[r].attempt + 1]
<1>1. /\ TypeOK /\ call[r] \in Call /\ call[r].pc = "woken" /\ call[r].attempt + 1 \in 0 .. Retries
  BY FollowStateAssumption DEF IInv, TypeOK, Retry, Call
<1>2. c \in Call /\ c.pc = "enter" /\ c.id = call[r].id /\ c.ans = Unknown
  BY <1>1, Constants DEF Call, PCs
<1>3. Become(r, c)
  BY DEF Retry
<1>4. inflight[call[r].id] # NoReader => Leq(need[r], base[inflight[call[r].id]])
  BY <1>1 DEF IInv, SeenOK, Seen
<1> HIDE DEF c
<1>5. Admissible(r, c)
  BY <1>1, <1>2, <1>4 DEF Admissible, Registered, Leads
<1>6. QED
  BY <1>1, <1>2, <1>3, <1>5, LocalStep DEF Retry, cache, history, TypeOK

LEMMA ShareStep == ASSUME IInv, NEW r \in Readers, Share(r) PROVE IInv'
<1> DEFINE c == Done(r, call[r].ans)
<1>1. TypeOK /\ call[r] \in Call /\ call[r].pc = "woken"
  BY DEF IInv, TypeOK, Share
<1>2. c \in Call /\ c.pc = "done" /\ c.id = call[r].id /\ c.ans = call[r].ans
  BY <1>1, Constants DEF Done, Call, PCs
<1>3. Become(r, c)
  BY DEF Share, Return
<1>4. call[r].attempt # 0 \/ ~call[r].superseded
  BY <1>1, FollowStateAssumption DEF Share, Call
<1>5. call[r].ans # Unknown => Leq(need[r], call[r].ans)
  BY <1>1, <1>4 DEF IInv, WokenOK
<1> HIDE DEF c
<1>6. Admissible(r, c)
  BY <1>1, <1>2, <1>5 DEF Admissible, Registered, Leads
<1>7. QED
  BY <1>1, <1>2, <1>3, <1>6, LocalStep DEF Share, cache, history, TypeOK

-----------------------------------------------------------------------------
(* The other steps of a reader                                             *)

LEMMA BeginStep == ASSUME IInv, NEW r \in Readers, NEW i \in Ids, Begin(r, i) PROVE IInv'
<1> DEFINE c == [Idle EXCEPT !.pc = "enter", !.id = i]
<1>1. TypeOK /\ call \in [Readers -> Call] /\ call[r].pc = "idle" /\ need \in [Readers -> Stamp]
  BY DEF IInv, TypeOK, Begin
<1>2. c \in Call /\ c.pc = "enter" /\ c.id = i /\ c.attempt = 0 /\ c.ans = Unknown
  BY Constants DEF Call, PCs
<1>3. Become(r, c)
  BY DEF Begin
<1> HIDE DEF c
<1>4. /\ call' \in [Readers -> Call] /\ call'[r] = c
      /\ \A q \in Readers : q # r => call'[q] = call[q]
  BY <1>1, <1>2, <1>3, Becomes
<1>5. /\ UNCHANGED <<items, inflight, epochs, cooldown, commits, swap, upstream, toggle, floor, base>>
      /\ need' = [need EXCEPT ![r] = floor[i]]
  BY DEF Begin, cache, history
<1>6. \A q \in Readers : /\ Leads(q)' <=> Leads(q)
                         /\ Holds(q)' <=> Holds(q)
                         /\ Holds(q) => call'[q] = call[q]
  BY <1>1, <1>2, <1>4 DEF Leads, Holds
<1>7. need' \in [Readers -> Stamp] /\ need'[r] = floor[i] /\ \A q \in Readers : q # r => need'[q] = need[q]
  BY <1>1, <1>5 DEF TypeOK
<1>8. TypeOK'
  BY <1>1, <1>4, <1>5, <1>7 DEF TypeOK
<1>9. SingleFlight'
  <2>1. \A q \in Readers : Leads(q)' => inflight'[call'[q].id] = q
    BY <1>5, <1>6 DEF IInv, SingleFlight, Holds
  <2>2. ASSUME NEW j \in Ids, inflight[j] # NoReader
        PROVE  (Leads(inflight[j]) /\ call[inflight[j]].id = j)'
    BY <1>1, <1>5, <1>6, <2>2 DEF IInv, SingleFlight, TypeOK, Holds
  <2>3. QED
    BY <2>1, <2>2, <1>5 DEF SingleFlight
<1>10. NoDeadEpochs' /\ CacheFresh' /\ AnnouncedOK'
  BY <1>5 DEF IInv, NoDeadEpochs, CacheFresh, AnnouncedOK, Now, session
<1>11. EpochOK' /\ TicketOK'
  <2>1. EpochOK'
    BY <1>5, <1>6 DEF IInv, EpochOK, Holds
  <2>2. TicketOK'
    BY <1>2, <1>4, <1>5 DEF IInv, TicketOK, Leads, Asked
  <2>3. QED
    BY <2>1, <2>2
<1>12. NeedOK'
  <2>1. Leq(floor[i], floor[i])
    BY <1>1, LeqRefl DEF TypeOK
  <2>2. QED
    BY <2>1, <1>2, <1>4, <1>5, <1>6, <1>7 DEF IInv, NeedOK, Leads, Holds
<1>13. WaitOK'
  <2>1. ASSUME NEW q \in Readers, call'[q].pc = "wait" PROVE WaitOK!(q)'
    <3>1. q # r /\ call'[q] = call[q] /\ need'[q] = need[q]
      BY <2>1, <1>2, <1>4, <1>7
    <3>2. QED
      BY <2>1, <3>1, <1>5, <1>6 DEF IInv, WaitOK
  <2>2. QED
    BY <2>1 DEF WaitOK
<1>14. WokenOK'
  BY <1>2, <1>4, <1>7 DEF IInv, WokenOK
<1>15. SeenOK'
  <2>1. ASSUME NEW q \in Readers, Seen(q)', inflight[call'[q].id] # NoReader
        PROVE  Leq(need'[q], base[inflight[call'[q].id]])
    <3>1. q # r /\ call'[q] = call[q] /\ need'[q] = need[q]
      BY <2>1, <1>2, <1>4, <1>7 DEF Seen
    <3>2. Seen(q)
      BY <2>1, <3>1, <1>4, <1>2 DEF Seen, IInv, WaitOK
    <3>3. QED
      BY <2>1, <3>1, <3>2 DEF IInv, SeenOK
  <2>2. QED
    BY <2>1, <1>5 DEF SeenOK
<1>16. QED
  BY <1>8, <1>9, <1>10, <1>11, <1>12, <1>13, <1>14, <1>15 DEF IInv

LEMMA LeadStep == ASSUME IInv, NEW r \in Readers, Lead(r) PROVE IInv'
<1> DEFINE i == call[r].id
           c == [call[r] EXCEPT !.pc = "lead", !.epoch = epochs[i]]
<1>1. /\ TypeOK /\ call \in [Readers -> Call] /\ call[r] \in Call /\ call[r].pc = "enter"
      /\ i \in Ids /\ epochs[i] \in Nat /\ inflight[i] = NoReader
  BY DEF IInv, TypeOK, Lead, Call
<1>2. /\ c \in Call /\ c.pc = "lead" /\ c.id = i /\ c.epoch = epochs[i] /\ c.ans = call[r].ans
      /\ c.attempt = call[r].attempt
  BY <1>1 DEF Call, PCs
<1>3. Become(r, c)
  BY DEF Lead
<1> HIDE DEF c
<1>4. /\ call' \in [Readers -> Call] /\ call'[r] = c
      /\ \A q \in Readers : q # r => call'[q] = call[q]
  BY <1>1, <1>2, <1>3, Becomes
<1>5. /\ UNCHANGED <<items, epochs, cooldown, commits, swap, upstream, toggle, floor, need>>
      /\ inflight' = [inflight EXCEPT ![i] = r]
      /\ base' = [base EXCEPT ![r] = floor[i]]
  BY DEF Lead
<1>6. /\ base' \in [Readers -> Stamp] /\ base'[r] = floor[i]
      /\ \A q \in Readers : q # r => base'[q] = base[q]
  BY <1>1, <1>5 DEF TypeOK
<1>7. /\ inflight' \in [Ids -> Readers \cup {NoReader}] /\ inflight'[i] = r
      /\ \A j \in Ids : j # i => inflight'[j] = inflight[j]
  BY <1>1, <1>5 DEF TypeOK
<1>8. TypeOK'
  BY <1>1, <1>4, <1>5, <1>6, <1>7 DEF TypeOK
<1>9. \A q \in Readers : Leads(q) => call[q].id # i
  BY <1>1, FollowStateAssumption DEF IInv, SingleFlight
<1>10. SingleFlight'
  <2>1. ASSUME NEW q \in Readers, Leads(q)' PROVE inflight'[call'[q].id] = q
    BY <2>1, <1>1, <1>2, <1>4, <1>7, <1>9 DEF IInv, SingleFlight, Leads, Call
  <2>2. ASSUME NEW j \in Ids, inflight'[j] # NoReader
        PROVE  (Leads(inflight[j]) /\ call[inflight[j]].id = j)'
    <3>1. CASE j = i
      BY <3>1, <1>2, <1>4, <1>7 DEF Leads
    <3>2. CASE j # i
      <4>1. inflight[j] \in Readers /\ Leads(inflight[j]) /\ call[inflight[j]].id = j
        BY <3>2, <2>2, <1>1, <1>7 DEF IInv, SingleFlight, TypeOK
      <4>2. inflight[j] # r
        BY <4>1, <1>1 DEF Leads
      <4>3. QED
        BY <4>1, <4>2, <3>2, <1>4, <1>7 DEF Leads
    <3>3. QED
      BY <3>1, <3>2
  <2>3. QED
    BY <2>1, <2>2 DEF SingleFlight
<1>11. NoDeadEpochs' /\ CacheFresh' /\ AnnouncedOK'
  BY <1>1, <1>5, <1>7, FollowStateAssumption DEF IInv, NoDeadEpochs, CacheFresh, AnnouncedOK, Now, session
<1>12. EpochOK'
  BY <1>1, <1>2, <1>4, <1>5 DEF IInv, EpochOK, Leads
<1>13. Leq(floor[i], floor[i]) /\ Leq(need[r], floor[i])
  BY <1>1, LeqRefl DEF TypeOK, IInv, NeedOK
<1>14. call[r].ans = Unknown
  BY <1>1 DEF IInv, TicketOK
<1>15. TicketOK'
  <2>1. ASSUME NEW q \in Readers, q # r PROVE TicketOK!(q)'
    BY <2>1, <1>4, <1>5, <1>6 DEF IInv, TicketOK, Leads, Asked
  <2>2. TicketOK!(r)'
    BY <1>2, <1>4, <1>5, <1>6, <1>13, <1>14 DEF Leads
  <2>3. QED
    BY <2>1, <2>2 DEF TicketOK
<1>16. NeedOK'
  BY <1>1, <1>2, <1>4, <1>5, <1>6, <1>13 DEF IInv, NeedOK, Leads, Holds
<1>17. WaitOK'
  <2>1. ASSUME NEW q \in Readers, call'[q].pc = "wait" PROVE WaitOK!(q)'
    <3>1. q # r /\ call'[q] = call[q] /\ call[q].ticket # r /\ call[q].ticket \in Readers
      BY <2>1, <1>1, <1>2, <1>4 DEF IInv, WaitOK, Holds, Leads
    <3>2. /\ call'[call[q].ticket] = call[call[q].ticket]
          /\ base'[call[q].ticket] = base[call[q].ticket]
      BY <3>1, <1>4, <1>6
    <3>3. QED
      BY <2>1, <3>1, <3>2, <1>5 DEF IInv, WaitOK, Holds, Leads
  <2>2. QED
    BY <2>1 DEF WaitOK
<1>18. WokenOK'
  BY <1>2, <1>4, <1>5 DEF IInv, WokenOK
<1>19. SeenOK'
  <2>1. ASSUME NEW q \in Readers, Seen(q)', inflight'[call'[q].id] # NoReader
        PROVE  Leq(need'[q], base'[inflight'[call'[q].id]])
    <3>1. q # r /\ call'[q] = call[q] /\ call[q] \in Call /\ call[q].pc # "idle"
      BY <2>1, <1>1, <1>2, <1>4 DEF Seen
    <3>2. Seen(q)
      BY <2>1, <3>1, <1>1, <1>2, <1>4 DEF Seen, IInv, WaitOK
    <3>3. CASE call[q].id = i
      BY <3>1, <3>3, <1>5, <1>6, <1>7 DEF IInv, NeedOK
    <3>4. CASE call[q].id # i
      <4>1. inflight'[call[q].id] = inflight[call[q].id] /\ inflight[call[q].id] \in Readers
        BY <3>1, <3>4, <2>1, <1>1, <1>7 DEF Call, TypeOK
      <4>2. inflight[call[q].id] # r
        BY <4>1, <3>1, <1>1, FollowStateAssumption DEF IInv, SingleFlight, Leads, Call
      <4>3. QED
        BY <4>1, <4>2, <3>1, <3>2, <1>5, <1>6, FollowStateAssumption DEF IInv, SeenOK
    <3>5. QED
      BY <3>3, <3>4
  <2>2. QED
    BY <2>1 DEF SeenOK
<1>20. QED
  BY <1>8, <1>10, <1>11, <1>12, <1>15, <1>16, <1>17, <1>18, <1>19 DEF IInv

LEMMA FinishStep == ASSUME IInv, NEW r \in Readers, Finish(r) PROVE IInv'
<1> DEFINE i == call[r].id
           ok == call[r].ans # Unknown
           current == epochs[i] = call[r].epoch
           c == [call[r] EXCEPT !.pc = "closing", !.epoch = 0, !.superseded = ok /\ ~current]
<1>1. /\ TypeOK /\ call \in [Readers -> Call] /\ call[r] \in Call /\ call[r].pc = "received"
      /\ i \in Ids /\ inflight[i] = r
  BY DEF IInv, TypeOK, Finish, Call, SingleFlight, Leads
<1>2. /\ c \in Call /\ c.pc = "closing" /\ c.id = i /\ c.ans = call[r].ans
      /\ c.superseded = (ok /\ ~current)
  BY <1>1 DEF Call, PCs
<1>3. Become(r, c)
  BY DEF Finish
<1> HIDE DEF c
<1>4. /\ call' \in [Readers -> Call] /\ call'[r] = c
      /\ \A q \in Readers : q # r => call'[q] = call[q]
  BY <1>1, <1>2, <1>3, Becomes
<1>5. UNCHANGED <<cooldown, commits, swap, upstream, toggle, floor, need, base>>
  BY DEF Finish, history
<1>6. /\ inflight' \in [Ids -> Readers \cup {NoReader}] /\ inflight'[i] = NoReader
      /\ \A j \in Ids : j # i => inflight'[j] = inflight[j]
  BY <1>1 DEF TypeOK, Finish
<1>7. /\ epochs' \in [Ids -> Nat] /\ epochs'[i] = 0
      /\ \A j \in Ids : j # i => epochs'[j] = epochs[j]
  BY <1>1 DEF TypeOK, Finish
<1>8. /\ items' \in [Ids -> Stamp \cup {Unknown}]
      /\ items'[i] = IF ok /\ current THEN call[r].ans ELSE items[i]
      /\ \A j \in Ids : j # i => items'[j] = items[j]
  BY <1>1 DEF TypeOK, Finish, Call
<1>9. TypeOK'
  BY <1>1, <1>4, <1>5, <1>6, <1>7, <1>8 DEF TypeOK
<1>10. \A q \in Readers : Leads(q) /\ q # r => call[q].id # i /\ call[q].id \in Ids
  BY <1>1 DEF IInv, SingleFlight, Call
<1>11. SingleFlight'
  <2>1. ASSUME NEW q \in Readers, Leads(q)' PROVE inflight'[call'[q].id] = q
    BY <2>1, <1>2, <1>4, <1>6, <1>10 DEF IInv, SingleFlight, Leads
  <2>2. ASSUME NEW j \in Ids, inflight'[j] # NoReader
        PROVE  (Leads(inflight[j]) /\ call[inflight[j]].id = j)'
    <3>1. /\ j # i /\ inflight'[j] = inflight[j] /\ inflight[j] \in Readers
          /\ Leads(inflight[j]) /\ call[inflight[j]].id = j
      BY <2>2, <1>1, <1>6 DEF IInv, SingleFlight, TypeOK
    <3>2. QED
      BY <3>1, <1>4 DEF Leads
  <2>3. QED
    BY <2>1, <2>2 DEF SingleFlight
<1>12. NoDeadEpochs' /\ AnnouncedOK'
  BY <1>5, <1>6, <1>7 DEF IInv, NoDeadEpochs, AnnouncedOK, Now, session
<1>13. ok /\ current => Leq(floor[i], call[r].ans)
  BY <1>1 DEF IInv, TicketOK, Leads
<1>14. CacheFresh'
  BY <1>5, <1>8, <1>13 DEF IInv, CacheFresh
<1>15. EpochOK'
  BY <1>2, <1>4, <1>7, <1>10 DEF IInv, EpochOK, Leads
<1>16. TicketOK'
  <2>1. ASSUME NEW q \in Readers, q # r PROVE TicketOK!(q)'
    BY <2>1, <1>4, <1>5, <1>7, <1>10 DEF IInv, TicketOK, Leads, Asked
  <2>2. TicketOK!(r)'
    BY <1>1, <1>2, <1>4, <1>5 DEF IInv, TicketOK, Leads
  <2>3. QED
    BY <2>1, <2>2 DEF TicketOK
<1>17. NeedOK'
  BY <1>1, <1>2, <1>4, <1>5 DEF IInv, NeedOK, Leads, Holds
<1>18. WaitOK'
  <2>1. ASSUME NEW q \in Readers, call'[q].pc = "wait" PROVE WaitOK!(q)'
    <3>1. /\ q # r /\ call'[q] = call[q] /\ call[q] \in Call
          /\ call[q].ticket \in Readers /\ Holds(call[q].ticket)
          /\ call[call[q].ticket].id = call[q].id
      BY <2>1, <1>1, <1>2, <1>4 DEF IInv, WaitOK
    <3>2. CASE call[q].ticket = r
      <4>1. Leq(need[q], floor[i]) /\ floor[i] \in Stamp /\ need[q] \in Stamp
        BY <3>1, <3>2, <2>1, <1>1 DEF IInv, NeedOK, TypeOK
      <4>2. ok /\ current => Leq(need[q], call[r].ans)
        BY <4>1, <1>1, <1>13, LeqTrans DEF Call
      <4>3. c.ans # Unknown /\ ~c.superseded => Leq(need[q], c.ans)
        BY <4>2, <1>2, ZenonT(20)
      <4>4. call[q].attempt # 0 => Leq(need[q], base[r])
        BY <2>1, <3>1, <3>2 DEF IInv, WaitOK
      <4>5. QED
        BY <3>1, <3>2, <4>3, <4>4, <1>2, <1>4, <1>5 DEF Holds
    <3>3. CASE call[q].ticket # r
      BY <2>1, <3>1, <3>3, <1>4, <1>5 DEF IInv, WaitOK, Holds, Leads
    <3>4. QED
      BY <3>2, <3>3
  <2>2. QED
    BY <2>1 DEF WaitOK
<1>19. WokenOK'
  BY <1>2, <1>4, <1>5 DEF IInv, WokenOK
<1>20. SeenOK'
  <2>1. ASSUME NEW q \in Readers, Seen(q)', inflight'[call'[q].id] # NoReader
        PROVE  Leq(need'[q], base'[inflight'[call'[q].id]])
    <3>1. q # r /\ call'[q] = call[q] /\ call[q] \in Call
      BY <2>1, <1>1, <1>2, <1>4 DEF Seen
    <3>2. call[q].id # i
      BY <2>1, <3>1, <1>6
    <3>3. Seen(q)
      BY <2>1, <3>1, <3>2, <1>4 DEF Seen, IInv, WaitOK
    <3>4. inflight'[call[q].id] = inflight[call[q].id]
      BY <3>1, <3>2, <1>6 DEF Call
    <3>5. QED
      BY <2>1, <3>1, <3>3, <3>4, <1>5 DEF IInv, SeenOK
  <2>2. QED
    BY <2>1 DEF SeenOK
<1>21. QED
  BY <1>9, <1>11, <1>12, <1>14, <1>15, <1>16, <1>17, <1>18, <1>19, <1>20 DEF IInv

LEMMA CloseStep == ASSUME IInv, NEW r \in Readers, Close(r) PROVE IInv'
<1> DEFINE Woken(q) == [call[q] EXCEPT !.pc = "woken", !.ans = call[r].ans,
                                       !.superseded = call[r].superseded]
           Joined(q) == call[q].pc = "wait" /\ call[q].ticket = r
<1>1. TypeOK /\ call \in [Readers -> Call] /\ call[r] \in Call /\ call[r].pc = "closing"
  BY DEF IInv, TypeOK, Close
<1>2. Done(r, call[r].ans) \in Call /\ \A q \in Readers : Woken(q) \in Call
  <2>1. Done(r, call[r].ans) \in Call
    BY <1>1, Constants DEF Done, Call, PCs
  <2>2. ASSUME NEW q \in Readers PROVE Woken(q) \in Call
    <3>1. call[q] \in Call
      BY <1>1
    <3>2. QED
      BY <3>1, <1>1 DEF Call, PCs
  <2>3. QED
    BY <2>1, <2>2
<1>3. /\ Done(r, call[r].ans).pc = "done" /\ Done(r, call[r].ans).id = call[r].id
      /\ Done(r, call[r].ans).ans = call[r].ans
  BY <1>1, Constants DEF Done, Call
<1>4. \A q \in Readers :
        /\ Woken(q).pc = "woken" /\ Woken(q).id = call[q].id /\ Woken(q).ans = call[r].ans
        /\ Woken(q).superseded = call[r].superseded /\ Woken(q).attempt = call[q].attempt
  <2>1. ASSUME NEW q \in Readers
        PROVE  /\ Woken(q).pc = "woken" /\ Woken(q).id = call[q].id /\ Woken(q).ans = call[r].ans
               /\ Woken(q).superseded = call[r].superseded /\ Woken(q).attempt = call[q].attempt
    <3>1. call[q] \in Call
      BY <1>1
    <3>2. QED
      BY <3>1 DEF Call
  <2>2. QED
    BY <2>1
<1>5. call' = [q \in Readers |-> IF q = r THEN Done(r, call[r].ans)
                                 ELSE IF Joined(q) THEN Woken(q) ELSE call[q]]
  BY DEF Close
<1> HIDE DEF Woken
<1>6. /\ call' \in [Readers -> Call]
      /\ call'[r] = Done(r, call[r].ans)
      /\ \A q \in Readers : q # r /\ Joined(q) => call'[q] = Woken(q)
      /\ \A q \in Readers : q # r /\ ~Joined(q) => call'[q] = call[q]
  BY <1>1, <1>2, <1>5
<1>7. /\ UNCHANGED <<items, inflight, epochs, cooldown, commits, swap, upstream, toggle, floor, need>>
      /\ base' = [base EXCEPT ![r] = Origin]
  BY DEF Close, cache
<1>8. base' \in [Readers -> Stamp] /\ \A q \in Readers : q # r => base'[q] = base[q]
  BY <1>1, <1>7, Constants DEF TypeOK
<1>9. TypeOK'
  BY <1>1, <1>6, <1>7, <1>8 DEF TypeOK
<1>10. /\ \A q \in Readers : Leads(q) => q # r /\ call'[q] = call[q]
       /\ \A q \in Readers : Leads(q)' => Leads(q)
       /\ \A q \in Readers : q # r => (Holds(q)' <=> Holds(q))
       /\ \A q \in Readers : q # r /\ Holds(q) => call'[q] = call[q]
  BY <1>1, <1>3, <1>4, <1>6 DEF Leads, Holds
<1>11. \A j \in Ids : inflight[j] # NoReader =>
         /\ inflight[j] \in Readers \ {r} /\ Leads(inflight[j]) /\ call[inflight[j]].id = j
         /\ base'[inflight[j]] = base[inflight[j]]
  BY <1>1, <1>8 DEF IInv, SingleFlight, TypeOK, Leads
<1>12. SingleFlight'
  <2>1. \A q \in Readers : Leads(q)' => inflight'[call'[q].id] = q
    BY <1>7, <1>10 DEF IInv, SingleFlight
  <2>2. ASSUME NEW j \in Ids, inflight[j] # NoReader
        PROVE  (Leads(inflight[j]) /\ call[inflight[j]].id = j)'
    BY <2>2, <1>7, <1>10, <1>11 DEF Leads
  <2>3. QED
    BY <2>1, <2>2, <1>7 DEF SingleFlight
<1>13. NoDeadEpochs' /\ CacheFresh' /\ AnnouncedOK'
  BY <1>7 DEF IInv, NoDeadEpochs, CacheFresh, AnnouncedOK, Now, session
<1>14. EpochOK'
  BY <1>7, <1>10 DEF IInv, EpochOK
<1>15. TicketOK'
  <2>1. ASSUME NEW q \in Readers PROVE TicketOK!(q)'
    <3>1. CASE q # r /\ Joined(q)
      BY <3>1, <1>4, <1>6 DEF Leads
    <3>2. CASE q # r /\ ~Joined(q)
      BY <3>2, <1>6, <1>7, <1>8 DEF IInv, TicketOK, Leads, Asked
    <3>3. CASE q = r
      BY <3>3, <1>3, <1>6 DEF Leads
    <3>4. QED
      BY <3>1, <3>2, <3>3
  <2>2. QED
    BY <2>1 DEF TicketOK
<1>16. call[r].ans # Unknown => Leq(base[r], call[r].ans)
  BY <1>1 DEF IInv, TicketOK
<1>17. \A q \in Readers : Leq(need[q], base[r]) /\ call[r].ans # Unknown => Leq(need[q], call[r].ans)
  BY <1>1, <1>16, LeqTrans DEF TypeOK, Call
<1>18. NeedOK'
  <2>1. ASSUME NEW q \in Readers PROVE NeedOK!(q)'
    <3>1. CASE q # r /\ Joined(q)
      BY <3>1, <1>4, <1>6, <1>7, <1>10 DEF IInv, NeedOK, Holds, Leads
    <3>2. CASE q # r /\ ~Joined(q)
      BY <3>2, <1>6, <1>7, <1>8, <1>10 DEF IInv, NeedOK
    <3>3. CASE q = r
      <4>1. Leq(need[r], floor[call[r].id]) /\ Leq(need[r], base[r])
        BY <1>1 DEF IInv, NeedOK, Holds
      <4>2. QED
        BY <3>3, <4>1, <1>3, <1>6, <1>7, <1>17 DEF Holds, Leads
    <3>4. QED
      BY <3>1, <3>2, <3>3
  <2>2. QED
    BY <2>1 DEF NeedOK
<1>19. WaitOK'
  <2>1. ASSUME NEW q \in Readers, call'[q].pc = "wait" PROVE WaitOK!(q)'
    <3>1. q # r /\ ~Joined(q) /\ call'[q] = call[q]
      BY <2>1, <1>3, <1>4, <1>6
    <3>2. /\ call[q].ticket \in Readers /\ call[q].ticket # r
          /\ Holds(call[q].ticket) /\ Holds(call[q].ticket)'
          /\ call'[call[q].ticket] = call[call[q].ticket]
          /\ base'[call[q].ticket] = base[call[q].ticket]
      BY <2>1, <3>1, <1>8, <1>10 DEF IInv, WaitOK
    <3>3. QED
      BY <2>1, <3>1, <3>2, <1>7 DEF IInv, WaitOK
  <2>2. QED
    BY <2>1 DEF WaitOK
<1>20. WokenOK'
  <2>1. ASSUME NEW q \in Readers PROVE WokenOK!(q)'
    <3>1. CASE q # r /\ Joined(q)
      <4>1. /\ call[q].attempt # 0 => Leq(need[q], base[r])
            /\ call[r].ans # Unknown /\ ~call[r].superseded => Leq(need[q], call[r].ans)
        BY <3>1, <1>1 DEF IInv, WaitOK
      <4>2. QED
        BY <3>1, <4>1, <1>4, <1>6, <1>7, <1>17
    <3>2. CASE q # r /\ ~Joined(q)
      BY <3>2, <1>6, <1>7 DEF IInv, WokenOK
    <3>3. CASE q = r
      BY <3>3, <1>3, <1>6
    <3>4. QED
      BY <3>1, <3>2, <3>3
  <2>2. QED
    BY <2>1 DEF WokenOK
<1>21. SeenOK'
  <2>1. ASSUME NEW q \in Readers, Seen(q)', inflight[call'[q].id] # NoReader
        PROVE  Leq(need[q], base'[inflight[call'[q].id]])
    <3>1. q # r
      BY <2>1, <1>3, <1>6 DEF Seen
    <3>2. call'[q].id = call[q].id /\ call[q].id \in Ids
      BY <3>1, <1>1, <1>4, <1>6 DEF Call
    <3>3. Seen(q)
      <4>1. CASE Joined(q)
        BY <4>1, <1>1 DEF Seen
      <4>2. CASE ~Joined(q)
        <5>1. call'[q] = call[q]
          BY <3>1, <4>2, <1>6
        <5>2. CASE call[q].pc = "wait"
          <6>1. call[q].ticket \in Readers /\ call[q].ticket # r /\ Holds(call[q].ticket)
            BY <5>2, <4>2 DEF IInv, WaitOK
          <6>2. QED
            BY <6>1, <5>1, <5>2, <2>1, <1>10 DEF Seen
        <5>3. QED
          BY <5>1, <5>2, <2>1 DEF Seen
      <4>3. QED
        BY <4>1, <4>2
    <3>4. QED
      BY <2>1, <3>2, <3>3, <1>11 DEF IInv, SeenOK
  <2>2. QED
    BY <2>1, <1>7 DEF SeenOK
<1>22. QED
  BY <1>9, <1>12, <1>13, <1>14, <1>15, <1>18, <1>19, <1>20, <1>21 DEF IInv

LEMMA LeaveStep == ASSUME IInv, NEW r \in Readers, Leave(r) PROVE IInv'
<1>1. TypeOK /\ call \in [Readers -> Call] /\ call[r].pc = "done"
  BY DEF IInv, TypeOK, Leave
<1>2. /\ call' \in [Readers -> Call] /\ call'[r] = Idle
      /\ \A q \in Readers : q # r => call'[q] = call[q]
  BY <1>1, Constants, Becomes DEF Leave
<1>3. /\ UNCHANGED <<items, inflight, epochs, cooldown, commits, swap, upstream, toggle, floor, base>>
      /\ need' = [need EXCEPT ![r] = Origin]
  BY DEF Leave, cache
<1>4. need' \in [Readers -> Stamp] /\ \A q \in Readers : q # r => need'[q] = need[q]
  BY <1>1, <1>3, Constants DEF TypeOK
<1>5. TypeOK'
  BY <1>1, <1>2, <1>3, <1>4 DEF TypeOK
<1>6. \A q \in Readers : /\ Leads(q)' <=> Leads(q)
                         /\ Holds(q)' <=> Holds(q)
                         /\ Holds(q) => q # r /\ call'[q] = call[q]
  BY <1>1, <1>2, Constants DEF Leads, Holds
<1>7. SingleFlight'
  <2>1. \A q \in Readers : Leads(q)' => inflight'[call'[q].id] = q
    BY <1>3, <1>6 DEF IInv, SingleFlight, Holds
  <2>2. ASSUME NEW j \in Ids, inflight[j] # NoReader
        PROVE  (Leads(inflight[j]) /\ call[inflight[j]].id = j)'
    BY <1>1, <1>3, <1>6, <2>2 DEF IInv, SingleFlight, TypeOK, Holds
  <2>3. QED
    BY <2>1, <2>2, <1>3 DEF SingleFlight
<1>8. NoDeadEpochs' /\ CacheFresh' /\ AnnouncedOK'
  BY <1>3 DEF IInv, NoDeadEpochs, CacheFresh, AnnouncedOK, Now, session
<1>9. EpochOK'
  BY <1>3, <1>6 DEF IInv, EpochOK, Holds
<1>10. TicketOK'
  BY <1>2, <1>3, Constants DEF IInv, TicketOK, Leads, Asked
<1>11. NeedOK'
  BY <1>2, <1>3, <1>4, <1>6, Constants DEF IInv, NeedOK
<1>12. WaitOK'
  <2>1. ASSUME NEW q \in Readers, call'[q].pc = "wait" PROVE WaitOK!(q)'
    <3>1. q # r /\ call'[q] = call[q] /\ need'[q] = need[q]
      BY <2>1, <1>2, <1>4, Constants
    <3>2. QED
      BY <2>1, <3>1, <1>3, <1>6 DEF IInv, WaitOK
  <2>2. QED
    BY <2>1 DEF WaitOK
<1>13. WokenOK'
  BY <1>2, <1>4, Constants DEF IInv, WokenOK
<1>14. SeenOK'
  <2>1. ASSUME NEW q \in Readers, Seen(q)', inflight[call'[q].id] # NoReader
        PROVE  Leq(need'[q], base[inflight[call'[q].id]])
    <3>1. q # r /\ call'[q] = call[q] /\ need'[q] = need[q]
      BY <2>1, <1>2, <1>4, Constants DEF Seen
    <3>2. Seen(q)
      BY <2>1, <3>1, <1>2, <1>6 DEF Seen, IInv, WaitOK
    <3>3. QED
      BY <2>1, <3>1, <3>2 DEF IInv, SeenOK
  <2>2. QED
    BY <2>1, <1>3 DEF SeenOK
<1>15. QED
  BY <1>5, <1>7, <1>8, <1>9, <1>10, <1>11, <1>12, <1>13, <1>14 DEF IInv

-----------------------------------------------------------------------------
(* Toggles, logins and the passing of time                                 *)

\* The parts of IInv that say nothing of toggles, logins or values at rest.
LEMMA Untouched ==
  ASSUME IInv, TypeOK',
         UNCHANGED <<items, inflight, epochs, upstream, call, floor, need, base>>
  PROVE  /\ SingleFlight' /\ NoDeadEpochs' /\ EpochOK' /\ TicketOK' /\ NeedOK'
         /\ WaitOK' /\ WokenOK' /\ SeenOK' /\ CacheFresh'
<1>1. SingleFlight' /\ NoDeadEpochs' /\ EpochOK' /\ NeedOK' /\ WokenOK' /\ CacheFresh'
  BY DEF IInv, SingleFlight, NoDeadEpochs, EpochOK, NeedOK, WokenOK, CacheFresh, Leads, Holds
<1>2. TicketOK' /\ WaitOK' /\ SeenOK'
  BY DEF IInv, TicketOK, WaitOK, SeenOK, Seen, Leads, Holds, Asked
<1>3. QED
  BY <1>1, <1>2

LEMMA PostStep == ASSUME IInv, NEW t \in Togglers, NEW i \in Ids, Post(t, i) PROVE IInv'
<1> DEFINE d == [NoToggle EXCEPT !.pc = "posted", !.id = i, !.sess = session]
<1>1. TypeOK /\ session \in Sessions
  BY StampTypes DEF IInv
<1>2. d \in Toggle /\ d.pc = "posted" /\ d.sess = session
  BY <1>1, Constants DEF NoToggle, Toggle
<1> HIDE DEF d
<1>3. toggle' \in [Togglers -> Toggle] /\ toggle'[t] = d
      /\ \A u \in Togglers : u # t => toggle'[u] = toggle[u]
  BY <1>1, <1>2 DEF TypeOK, Post, d
<1>4. UNCHANGED <<items, inflight, epochs, cooldown, commits, swap, upstream, call, floor, need, base>>
  BY DEF Post, cache, history
<1>5. TypeOK'
  BY <1>1, <1>3, <1>4 DEF TypeOK
<1>6. session <= session
  BY <1>1, FollowStateAssumption DEF Sessions
<1>7. AnnouncedOK'
  BY <1>2, <1>3, <1>4, <1>6 DEF IInv, AnnouncedOK, Now, session
<1>8. QED
  BY <1>4, <1>5, <1>7, Untouched DEF IInv

LEMMA RefuseStep == ASSUME IInv, NEW t \in Togglers, Refuse(t) PROVE IInv'
<1>1. TypeOK /\ session \in Sessions
  BY StampTypes DEF IInv
<1>2. toggle' \in [Togglers -> Toggle] /\ toggle'[t] = NoToggle
      /\ \A u \in Togglers : u # t => toggle'[u] = toggle[u]
  BY <1>1, Constants DEF TypeOK, Refuse
<1>3. UNCHANGED <<items, inflight, epochs, cooldown, commits, swap, upstream, call, floor, need, base>>
  BY DEF Refuse, cache, history
<1>4. TypeOK'
  BY <1>1, <1>2, <1>3 DEF TypeOK
<1>5. NoToggle.pc = "idle" /\ NoToggle.sess <= session
  BY <1>1, FollowStateAssumption DEF NoToggle, Sessions
<1>6. AnnouncedOK'
  BY <1>2, <1>3, <1>5 DEF IInv, AnnouncedOK, Now, session
<1>7. QED
  BY <1>3, <1>4, <1>6, Untouched DEF IInv

LEMMA SwapStep == ASSUME IInv, NEW w \in Swappers, Swap(w) PROVE IInv'
<1>1. TypeOK /\ session \in Sessions
  BY StampTypes DEF IInv
<1>2. UNCHANGED <<items, inflight, epochs, cooldown, upstream, call, toggle, floor, need, base>>
  BY DEF Swap, cache, history
<1>3. /\ commits' \in [Swappers -> Sessions]
      /\ \A x \in Swappers : commits'[x] >= commits[x]
  <2>1. /\ commits \in [Swappers -> Sessions] /\ commits' = [commits EXCEPT ![w] = @ + 1]
        /\ commits[w] < MaxSession
    BY <1>1 DEF TypeOK, Swap
  <2>2. \A n \in Sessions : n \in Nat /\ n >= n
    BY FollowStateAssumption DEF Sessions
  <2>3. commits[w] + 1 \in Sessions /\ commits[w] + 1 >= commits[w]
    BY <2>1, FollowStateAssumption DEF Sessions
  <2>4. QED
    BY <2>1, <2>2, <2>3
<1>4. swap' \in [Swappers -> {"idle", "reset", "rearm"}]
  BY <1>1 DEF TypeOK, Swap
<1>5. TypeOK'
  BY <1>1, <1>2, <1>3, <1>4 DEF TypeOK
<1>6. session' >= session /\ session' \in Sessions
  BY <1>3, FollowStateAssumption DEF session
<1>7. \A i \in Ids : Leq(Now(i), Now(i)')
  <2>1. ASSUME NEW i \in Ids PROVE Leq(Now(i), Now(i)')
    <3>1. CASE session' = session
      <4>1. Now(i)' = Now(i)
        BY <3>1, <1>2 DEF Now
      <4>2. QED
        BY <4>1, <1>1, StampTypes, LeqRefl
    <3>2. CASE session' # session
      BY <3>2, <1>1, <1>6, FollowStateAssumption DEF Leq, Now, Sessions
    <3>3. QED
      BY <3>1, <3>2
  <2>2. QED
    BY <2>1
<1>8. \A i \in Ids : Now(i) \in Stamp /\ Now(i)' \in Stamp
  BY <1>1, <1>2, <1>5, <1>6, FollowStateAssumption DEF Now, Stamp, TypeOK, Sessions
<1>9. AnnouncedOK'
  <2>1. ASSUME NEW i \in Ids PROVE Leq(floor'[i], Now(i)')
    BY <1>1, <1>2, <1>7, <1>8, LeqTrans DEF IInv, AnnouncedOK, TypeOK
  <2>2. ASSUME NEW t \in Togglers PROVE toggle'[t].sess <= session'
    BY <1>1, <1>2, <1>6, FollowStateAssumption DEF IInv, AnnouncedOK, TypeOK, Toggle, Sessions
  <2>3. ASSUME NEW t \in Togglers, toggle[t].pc = "applied"
        PROVE  Leq(toggle[t].stamp, Now(toggle[t].id)')
    <3>1. toggle[t].id \in Ids /\ toggle[t].stamp \in Stamp
      BY <1>1 DEF TypeOK, Toggle
    <3>2. Leq(toggle[t].stamp, Now(toggle[t].id))
      BY <2>3 DEF IInv, AnnouncedOK
    <3>3. QED
      BY <3>1, <3>2, <1>2, <1>7, <1>8, LeqTrans
  <2>4. QED
    BY <2>1, <2>2, <2>3, <1>2 DEF AnnouncedOK
<1>10. QED
  BY <1>2, <1>5, <1>9, Untouched DEF IInv

LEMMA TimeStep == ASSUME IInv, CoolDown \/ UNCHANGED vars \/ \E w \in Swappers : Rearm(w) PROVE IInv'
<1>1. UNCHANGED <<items, inflight, epochs, commits, upstream, call, toggle, floor, need, base>>
  BY DEF CoolDown, Rearm, vars, cache, history
<1>2. TypeOK'
  BY <1>1 DEF IInv, TypeOK, CoolDown, Rearm, vars
<1>3. AnnouncedOK'
  BY <1>1 DEF IInv, AnnouncedOK, Now, session
<1>4. QED
  BY <1>1, <1>2, <1>3, Untouched DEF IInv

LEMMA ExpireStep == ASSUME IInv, NEW i \in Ids, Expire(i) PROVE IInv'
<1>1. UNCHANGED <<inflight, epochs, cooldown, commits, swap, upstream, call, toggle, floor, need, base>>
  BY DEF Expire, history
<1>2. TypeOK' /\ CacheFresh'
  BY <1>1 DEF IInv, TypeOK, CacheFresh, Expire
<1>3. SingleFlight' /\ NoDeadEpochs' /\ EpochOK' /\ NeedOK' /\ WokenOK'
  BY <1>1 DEF IInv, SingleFlight, NoDeadEpochs, EpochOK, NeedOK, WokenOK, Leads, Holds
<1>4. TicketOK' /\ WaitOK' /\ SeenOK' /\ AnnouncedOK'
  BY <1>1 DEF IInv, TicketOK, WaitOK, SeenOK, Seen, Leads, Holds, Asked, AnnouncedOK, Now, session
<1>5. QED
  BY <1>2, <1>3, <1>4 DEF IInv
LEMMA ApplyStep == ASSUME IInv, NEW t \in Togglers, Apply(t) PROVE IInv'
<1> DEFINE i == toggle[t].id
           s == toggle[t].sess
           v == upstream[s][i] + 1
           d == [toggle[t] EXCEPT !.pc = "applied", !.stamp = [s |-> s, v |-> v]]
<1>1. /\ TypeOK /\ session \in Sessions /\ toggle[t] \in Toggle /\ i \in Ids /\ s \in Sessions
      /\ s <= session /\ upstream[s][i] \in Nat
  BY StampTypes DEF IInv, TypeOK, Toggle, AnnouncedOK
<1>2. s \in Nat /\ session \in Nat /\ v \in Nat
  BY <1>1, FollowStateAssumption DEF Sessions
<1>3. d \in Toggle /\ d.pc = "applied" /\ d.id = i /\ d.sess = s /\ d.stamp = [s |-> s, v |-> v]
  BY <1>1, <1>2 DEF Toggle, Stamp
<1>4. toggle' \in [Togglers -> Toggle] /\ toggle'[t] = d
      /\ \A u \in Togglers : u # t => toggle'[u] = toggle[u]
  BY <1>1, <1>3 DEF TypeOK, Apply
<1>5. upstream' = [upstream EXCEPT ![s][i] = v]
  BY DEF Apply
<1>6. /\ upstream' \in [Sessions -> [Ids -> Nat]]
      /\ upstream'[s][i] = v
      /\ \A x \in Sessions, j \in Ids :
           upstream[x][j] \in Nat /\ upstream'[x][j] \in Nat /\ upstream[x][j] <= upstream'[x][j]
  BY <1>1, <1>2, <1>5 DEF TypeOK
<1>7. UNCHANGED <<items, inflight, epochs, cooldown, commits, swap, call, floor, need, base>>
  BY DEF Apply, cache, history
<1> HIDE DEF d
<1>8. TypeOK'
  BY <1>1, <1>4, <1>6, <1>7 DEF TypeOK
<1>9. session' = session /\ \A j \in Ids : Now(j) \in Stamp /\ Now(j)' \in Stamp /\ Leq(Now(j), Now(j)')
  BY <1>1, <1>2, <1>6, <1>7 DEF session, Now, Stamp, Leq
<1>10. \A r \in Readers : Asked(r) \in Stamp /\ Asked(r)' \in Stamp /\ Leq(Asked(r), Asked(r)')
  <2>1. ASSUME NEW r \in Readers PROVE Asked(r) \in Stamp /\ Asked(r)' \in Stamp /\ Leq(Asked(r), Asked(r)')
    <3>1. call[r].sess \in Sessions /\ call[r].sess \in Nat /\ call[r].id \in Ids
      BY <1>1, FollowStateAssumption DEF TypeOK, Call, Sessions
    <3>2. QED
      BY <3>1, <1>6, <1>7 DEF Asked, Stamp, Leq
  <2>2. QED
    BY <2>1
<1>11. AnnouncedOK'
  <2>1. ASSUME NEW j \in Ids PROVE Leq(floor'[j], Now(j)')
    BY <1>1, <1>7, <1>9, LeqTrans DEF IInv, AnnouncedOK, TypeOK
  <2>2. ASSUME NEW u \in Togglers PROVE AnnouncedOK!2!(u)'
    <3>1. CASE u = t
      <4>1. Leq([s |-> s, v |-> v], [s |-> session, v |-> upstream'[session][i]])
        <5>1. CASE s = session
          <6>1. upstream'[session][i] = v /\ v <= v
            BY <5>1, <1>2, <1>6
          <6>2. QED
            BY <5>1, <6>1 DEF Leq
        <5>2. CASE s # session
          BY <5>2, <1>1, <1>2 DEF Leq
        <5>3. QED
          BY <5>1, <5>2
      <4>2. toggle'[u].id = i /\ toggle'[u].sess = s /\ toggle'[u].stamp = [s |-> s, v |-> v]
        BY <3>1, <1>3, <1>4
      <4>3. QED
        BY <4>1, <4>2, <1>1, <1>9 DEF Now
    <3>2. CASE u # t
      <4>1. toggle[u].id \in Ids /\ toggle[u].stamp \in Stamp
        BY <1>1 DEF TypeOK, Toggle
      <4>2. /\ toggle[u].sess <= session
            /\ toggle[u].pc = "applied" => Leq(toggle[u].stamp, Now(toggle[u].id))
        BY DEF IInv, AnnouncedOK
      <4>3. QED
        BY <3>2, <4>1, <4>2, <1>4, <1>9, LeqTrans
    <3>3. QED
      BY <3>1, <3>2
  <2>3. QED
    BY <2>1, <2>2 DEF AnnouncedOK
<1>12. TicketOK'
  <2>1. ASSUME NEW r \in Readers PROVE TicketOK!(r)'
    <3>1. floor[call[r].id] \in Stamp /\ base[r] \in Stamp
      BY <1>1 DEF TypeOK, Call
    <3>2. QED
      BY <3>1, <1>7, <1>10, LeqTrans DEF IInv, TicketOK, Leads
  <2>2. QED
    BY <2>1 DEF TicketOK
<1>13. SingleFlight' /\ NoDeadEpochs' /\ EpochOK' /\ NeedOK' /\ WokenOK' /\ CacheFresh'
  BY <1>7 DEF IInv, SingleFlight, NoDeadEpochs, EpochOK, NeedOK, WokenOK, CacheFresh, Leads, Holds
<1>14. WaitOK' /\ SeenOK'
  BY <1>7 DEF IInv, WaitOK, SeenOK, Seen, Leads, Holds
<1>15. QED
  BY <1>8, <1>11, <1>12, <1>13, <1>14 DEF IInv

\* The value of i goes and its ticket is passed by, as its floor rises.
Invalidated(i) ==
  /\ items'[i] = Unknown
  /\ Leq(floor[i], floor'[i])
  /\ Leq(floor'[i], Now(i))
  /\ IF inflight[i] # NoReader THEN epochs'[i] = epochs[i] + 1 ELSE epochs'[i] = 0

\* Announcing newer states of some ids, by a toggle or by a login.
LEMMA AnnounceStep ==
  ASSUME IInv, TypeOK', UNCHANGED <<inflight, commits, upstream, call, need, base>>,
         \A i \in Ids : \/ Invalidated(i)
                        \/ items'[i] = items[i] /\ epochs'[i] = epochs[i] /\ floor'[i] = floor[i],
         \A t \in Togglers : toggle'[t] \in {toggle[t], NoToggle}
  PROVE  IInv'
<1>1. TypeOK /\ session \in Sessions /\ session' = session
  BY StampTypes DEF IInv, session
<1>2. \A i \in Ids : /\ floor[i] \in Stamp /\ floor'[i] \in Stamp /\ Leq(floor[i], floor'[i])
                     /\ epochs[i] \in Nat /\ epochs'[i] \in Nat
  BY <1>1, LeqRefl DEF TypeOK, Invalidated
<1>3. \A i \in Ids : Now(i)' = Now(i)
  BY DEF Now, session
<1>4. AnnouncedOK'
  <2>1. ASSUME NEW i \in Ids PROVE Leq(floor'[i], Now(i)')
    BY <1>3 DEF IInv, AnnouncedOK, Invalidated
  <2>2. ASSUME NEW t \in Togglers PROVE AnnouncedOK!2!(t)'
    <3>1. NoToggle.pc = "idle" /\ NoToggle.sess <= session
      BY <1>1, FollowStateAssumption DEF NoToggle, Sessions
    <3>2. toggle[t].id \in Ids
      BY <1>1 DEF TypeOK, Toggle
    <3>3. QED
      BY <3>1, <3>2, <1>1, <1>3 DEF IInv, AnnouncedOK
  <2>3. QED
    BY <2>1, <2>2 DEF AnnouncedOK
<1>5. \A r \in Readers : Leads(r) => inflight[call[r].id] # NoReader /\ call[r].id \in Ids
  BY <1>1, FollowStateAssumption DEF IInv, SingleFlight, TypeOK, Call
<1>6. SingleFlight' /\ WokenOK'
  BY DEF IInv, SingleFlight, WokenOK, Leads
<1>7. NoDeadEpochs' /\ CacheFresh'
  BY DEF IInv, NoDeadEpochs, CacheFresh, Invalidated
<1>8. \A r \in Readers : Leads(r) =>
        \/ call[r].epoch < epochs'[call[r].id]
        \/ /\ call[r].epoch <= epochs'[call[r].id]
           /\ epochs'[call[r].id] = epochs[call[r].id] /\ floor'[call[r].id] = floor[call[r].id]
  <2>1. ASSUME NEW r \in Readers, Leads(r)
        PROVE  \/ call[r].epoch < epochs'[call[r].id]
               \/ /\ call[r].epoch <= epochs'[call[r].id]
                  /\ epochs'[call[r].id] = epochs[call[r].id] /\ floor'[call[r].id] = floor[call[r].id]
    <3>1. /\ call[r].epoch \in Nat /\ call[r].id \in Ids /\ inflight[call[r].id] # NoReader
          /\ call[r].epoch <= epochs[call[r].id]
      BY <2>1, <1>1, <1>5 DEF IInv, EpochOK, TypeOK, Call
    <3>2. QED
      BY <3>1, <1>2 DEF Invalidated
  <2>2. QED
    BY <2>1
<1>9. EpochOK'
  <2>1. ASSUME NEW r \in Readers, Leads(r) PROVE call[r].epoch <= epochs'[call[r].id]
    BY <2>1, <1>1, <1>2, <1>5, <1>8 DEF TypeOK, Call
  <2>2. QED
    BY <2>1 DEF EpochOK, Leads
<1>10. TicketOK'
  <2>1. ASSUME NEW r \in Readers PROVE TicketOK!(r)'
    <3>1. /\ call[r].id \in Ids /\ base[r] \in Stamp /\ call[r].epoch \in Nat
          /\ epochs'[call[r].id] \in Nat
      BY <1>1, <1>2 DEF TypeOK, Call
    <3>2. Leads(r) => Leq(base[r], floor'[call[r].id])
      BY <3>1, <1>2, LeqTrans DEF IInv, TicketOK
    <3>3. Leads(r) /\ call[r].epoch = epochs'[call[r].id] =>
            epochs'[call[r].id] = epochs[call[r].id] /\ floor'[call[r].id] = floor[call[r].id]
      BY <3>1, <1>8
    <3>4. Asked(r)' = Asked(r) /\ (Leads(r)' <=> Leads(r))
      BY DEF Asked, Leads
    <3>5. QED
      BY <3>2, <3>3, <3>4 DEF IInv, TicketOK
  <2>2. QED
    BY <2>1 DEF TicketOK
<1>11. NeedOK'
  <2>1. ASSUME NEW r \in Readers PROVE NeedOK!(r)'
    <3>1. call[r].id \in Ids /\ need[r] \in Stamp
      BY <1>1 DEF TypeOK, Call
    <3>2. QED
      BY <3>1, <1>2, LeqTrans DEF IInv, NeedOK, Holds, Leads
  <2>2. QED
    BY <2>1 DEF NeedOK
<1>12. WaitOK' /\ SeenOK'
  BY DEF IInv, WaitOK, SeenOK, Seen, Leads, Holds
<1>13. QED
  BY <1>4, <1>6, <1>7, <1>9, <1>10, <1>11, <1>12 DEF IInv
LEMMA AcknowledgeStep == ASSUME IInv, NEW t \in Togglers, Acknowledge(t) PROVE IInv'
<1> DEFINE i == toggle[t].id
           a == toggle[t].stamp
<1>1. /\ TypeOK /\ toggle[t].pc = "applied" /\ i \in Ids /\ a \in Stamp
      /\ Leq(a, Now(i)) /\ Leq(floor[i], Now(i)) /\ floor[i] \in Stamp
  BY DEF IInv, TypeOK, Toggle, Acknowledge, AnnouncedOK
<1>2. /\ items' = [items EXCEPT ![i] = Unknown]
      /\ epochs' = [epochs EXCEPT ![i] = IF inflight[i] # NoReader THEN @ + 1 ELSE 0]
      /\ floor' = [floor EXCEPT ![i] = Later(@, a)]
      /\ toggle' = [toggle EXCEPT ![t] = NoToggle]
      /\ UNCHANGED <<inflight, cooldown, commits, swap, upstream, call, need, base>>
  BY DEF Acknowledge, Invalidate
<1>3. Later(floor[i], a) \in Stamp /\ Leq(floor[i], Later(floor[i], a))
      /\ Leq(Later(floor[i], a), Now(i))
  BY <1>1, LaterBounds
<1> HIDE DEF i, a
<1>4. TypeOK'
  BY <1>1, <1>2, <1>3, Constants DEF TypeOK
<1>5. Invalidated(i)
  BY <1>1, <1>2, <1>3 DEF TypeOK, Invalidated
<1>6. \A j \in Ids : j # i => items'[j] = items[j] /\ epochs'[j] = epochs[j] /\ floor'[j] = floor[j]
  BY <1>1, <1>2 DEF TypeOK
<1>7. \A u \in Togglers : toggle'[u] \in {toggle[u], NoToggle}
  BY <1>1, <1>2 DEF TypeOK
<1>8. QED
  BY <1>2, <1>4, <1>5, <1>6, <1>7, AnnounceStep

LEMMA ResetStep == ASSUME IInv, NEW w \in Swappers, Reset(w) PROVE IInv'
<1> DEFINE a == [s |-> session, v |-> 0]
<1>1. TypeOK /\ session \in Sessions /\ a \in Stamp
  BY StampTypes, FollowStateAssumption DEF IInv, Sessions, Stamp
<1>2. /\ items' = [i \in Ids |-> Unknown]
      /\ epochs' = [i \in Ids |-> IF inflight[i] # NoReader THEN epochs[i] + 1 ELSE epochs[i]]
      /\ floor' = [i \in Ids |-> Later(floor[i], a)]
      /\ swap' = [swap EXCEPT ![w] = "rearm"]
      /\ UNCHANGED <<inflight, cooldown, commits, upstream, call, toggle, need, base>>
  BY DEF Reset, ResetCache
<1>3. \A i \in Ids : Later(floor[i], a) \in Stamp /\ Leq(floor[i], Later(floor[i], a))
                     /\ Leq(Later(floor[i], a), Now(i))
  <2>1. ASSUME NEW i \in Ids PROVE Leq(a, Now(i))
    BY <1>1, FollowStateAssumption DEF TypeOK, Leq, Now, Sessions
  <2>2. ASSUME NEW i \in Ids PROVE Leq(floor[i], Now(i)) /\ floor[i] \in Stamp
    BY <1>1 DEF IInv, AnnouncedOK, TypeOK
  <2>3. QED
    BY <1>1, <2>1, <2>2, LaterBounds
<1> HIDE DEF a
<1>4. TypeOK'
  BY <1>1, <1>2, <1>3 DEF TypeOK
<1>5. \A i \in Ids : Invalidated(i)
  BY <1>2, <1>3 DEF IInv, NoDeadEpochs, Invalidated
<1>6. QED
  BY <1>2, <1>4, <1>5, AnnounceStep

-----------------------------------------------------------------------------
(* The invariant                                                           *)

LEMMA Initially == Init => IInv
<1> SUFFICES ASSUME Init PROVE IInv
  OBVIOUS
<1>1. 0 \in Sessions /\ Sessions \subseteq Nat
  BY FollowStateAssumption DEF Sessions
<1>2. session = 0
  BY FollowStateAssumption DEF Init, session
<1>3. TypeOK
  BY <1>1, Constants DEF Init, TypeOK
<1>4. \A r \in Readers : call[r] = Idle /\ ~Leads(r) /\ ~Holds(r)
  BY Constants DEF Init, Leads, Holds
<1>5. AnnouncedOK
  BY <1>1, <1>2 DEF Init, AnnouncedOK, Now, Origin, Leq, NoToggle
<1>6. SingleFlight /\ NoDeadEpochs /\ CacheFresh /\ EpochOK
  BY <1>4 DEF Init, SingleFlight, NoDeadEpochs, CacheFresh, EpochOK
<1>7. TicketOK /\ NeedOK /\ WaitOK /\ WokenOK
  BY <1>4, Constants DEF Init, TicketOK, NeedOK, WaitOK, WokenOK
<1>8. SeenOK
  BY <1>4, Constants DEF Init, SeenOK, Seen
<1>9. QED
  BY <1>3, <1>5, <1>6, <1>7, <1>8 DEF IInv

LEMMA ReaderStep == ASSUME IInv, NEW r \in Readers, Step(r) \/ \E i \in Ids : Begin(r, i)
                    PROVE  IInv'
<1>1. CASE \E i \in Ids : Begin(r, i)
  BY <1>1, BeginStep
<1>2. CASE Step(r)
  BY <1>2, HitStep, FollowStep, LeadStep, LostStep, SendStep, ServeStep, FinishStep, CloseStep,
     RetryStep, ShareStep, LeaveStep DEF Step
<1>3. QED
  BY <1>1, <1>2

LEMMA Inductive == IInv /\ [Next]_vars => IInv'
<1> SUFFICES ASSUME IInv, [Next]_vars PROVE IInv'
  OBVIOUS
<1>1. ASSUME NEW r \in Readers, Step(r) \/ \E i \in Ids : Begin(r, i) PROVE IInv'
  BY <1>1, ReaderStep
<1>2. ASSUME NEW t \in Togglers, Apply(t) \/ Acknowledge(t) \/ Refuse(t) \/ \E i \in Ids : Post(t, i)
      PROVE  IInv'
  BY <1>2, ApplyStep, AcknowledgeStep, RefuseStep, PostStep
<1>3. ASSUME NEW w \in Swappers, Swap(w) \/ Reset(w) \/ Rearm(w) PROVE IInv'
  BY <1>3, SwapStep, ResetStep, TimeStep
<1>4. ASSUME NEW i \in Ids, Expire(i) PROVE IInv'
  BY <1>4, ExpireStep
<1>5. CASE CoolDown \/ UNCHANGED vars
  BY <1>5, TimeStep
<1>6. QED
  BY <1>1, <1>2, <1>3, <1>4, <1>5 DEF Next

\* The conjunction behind every theorem below is an invariant of the specification.
THEOREM Invariance == Spec => []IInv
<1>1. QED
  BY Initially, Inductive, PTL DEF Spec

\* The state of the cache, of its tickets and of its callers is well formed: no
\* call makes more than Retries re-fetches, and an answer in the cache or in a
\* caller's hands is one that pixiv gave.
THEOREM TypeCorrect == Spec => []TypeOK
<1>1. IInv => TypeOK
  BY DEF IInv
<1>2. QED
  BY <1>1, Invariance, PTL

\* However many calls, toggles and logins interleave, an artist has at most one
\* fetch in flight and it is the one getOrStart hands out.
THEOREM OneFlight == Spec => []SingleFlight
<1>1. IInv => SingleFlight
  BY DEF IInv
<1>2. QED
  BY <1>1, Invariance, PTL

\* A fetch that was in flight during a toggle or a login never leaves its answer
\* in the cache.
THEOREM CacheStaysFresh == Spec => []CacheFresh
<1>1. IInv => CacheFresh
  BY DEF IInv
<1>2. QED
  BY <1>1, Invariance, PTL

\* The map of epochs does not grow: a marker is gone when its ticket is.
THEOREM EpochsBounded == Spec => []NoDeadEpochs
<1>1. IInv => NoDeadEpochs
  BY DEF IInv
<1>2. QED
  BY <1>1, Invariance, PTL
-----------------------------------------------------------------------------
(* The cache implements FreshReads                                         *)

Phase(r) == IF call[r].pc \in {"idle", "done"} THEN call[r].pc ELSE "busy"
Reply(r) == IF call[r].pc = "done" THEN call[r].ans ELSE Unknown

\* A step none of whose effects FreshReads can see.
Silent == /\ UNCHANGED <<floor, need>>
          /\ \A r \in Readers : Phase(r)' = Phase(r) /\ Reply(r)' = Reply(r)

LEMMA SilentStutters == Silent => UNCHANGED Fresh!vars
  BY DEF Silent, Phase, Reply, Fresh!vars

\* The call of r moves on without being answered.
LEMMA BusyIsSilent ==
  ASSUME call \in [Readers -> Call], NEW r \in Readers, NEW c \in Call, Become(r, c),
         call[r].pc \notin {"idle", "done"}, c.pc \notin {"idle", "done"},
         UNCHANGED <<floor, need>>
  PROVE  Silent
<1>1. /\ call' \in [Readers -> Call] /\ call'[r] = c
      /\ \A q \in Readers : q # r => call'[q] = call[q]
  BY Becomes
<1>2. QED
  BY <1>1 DEF Silent, Phase, Reply

\* The call of r is answered.
LEMMA AnswerRefines ==
  ASSUME IInv', NEW r \in Readers, call[r].pc \notin {"idle", "done"}, call'[r].pc = "done",
         \A q \in Readers : q # r => Phase(q)' = Phase(q) /\ Reply(q)' = Reply(q),
         UNCHANGED <<floor, need>>
  PROVE  Fresh!Next
<1> DEFINE phase == [q \in Readers |-> Phase(q)]
           reply == [q \in Readers |-> Reply(q)]
           a == call'[r].ans
<1>1. a \in Stamp \cup {Unknown} /\ (a # Unknown => Leq(need[r], a))
  BY DEF IInv, TypeOK, Call, NeedOK
<1>2. Phase(r) = "busy" /\ Phase(r)' = "done" /\ Reply(r)' = a
  BY DEF Phase, Reply
<1>3. phase' = [phase EXCEPT ![r] = "done"] /\ reply' = [reply EXCEPT ![r] = a]
  BY <1>2
<1>4. phase[r] = "busy" /\ reply'[r] = a
  BY <1>2
<1>5. reply'[r] \in Stamp \cup {Unknown} /\ (reply'[r] # Unknown => Leq(need[r], reply'[r]))
  BY <1>1, <1>4
<1>6. QED
  BY <1>3, <1>4, <1>5 DEF Fresh!Next, Fresh!Answer, Fresh!Stamp, Stamp, Fresh!Leq, Leq, Phase, Reply

LEMMA AnnounceRefines ==
  ASSUME IInv, IInv', \A i \in Ids : Leq(floor[i], floor'[i]), UNCHANGED <<call, need>>
  PROVE  Fresh!Next
<1>1. floor' \in [Ids -> Stamp]
  BY DEF IInv, TypeOK
<1>2. QED
  BY <1>1 DEF Fresh!Next, Fresh!Announce, Fresh!Stamp, Stamp, Fresh!Leq, Leq
LEMMA BeginRefines == ASSUME IInv, NEW r \in Readers, NEW i \in Ids, Begin(r, i) PROVE Fresh!Next
<1> DEFINE c == [Idle EXCEPT !.pc = "enter", !.id = i]
<1>1. c \in Call /\ c.pc = "enter"
  BY Constants DEF Call, PCs
<1> HIDE DEF c
<1>2. /\ call[r].pc = "idle" /\ call'[r] = c
      /\ \A q \in Readers : q # r => call'[q] = call[q]
  BY <1>1, Becomes DEF IInv, TypeOK, Begin, c
<1>3. [q \in Readers |-> Phase(q)'] = [[q \in Readers |-> Phase(q)] EXCEPT ![r] = "busy"]
  BY <1>1, <1>2 DEF Phase
<1>4. [q \in Readers |-> Reply(q)'] = [q \in Readers |-> Reply(q)]
  BY <1>1, <1>2 DEF Reply
<1>5. Phase(r) = "idle"
  BY <1>2 DEF Phase
<1>6. need' = [need EXCEPT ![r] = floor[i]] /\ UNCHANGED floor
  BY DEF Begin
<1>7. QED
  BY <1>3, <1>4, <1>5, <1>6 DEF Fresh!Next, Fresh!Begin, Phase, Reply

LEMMA LeaveRefines == ASSUME IInv, NEW r \in Readers, Leave(r) PROVE Fresh!Next
<1>1. /\ call[r].pc = "done" /\ call'[r] = Idle
      /\ \A q \in Readers : q # r => call'[q] = call[q]
  BY Constants, Becomes DEF IInv, TypeOK, Leave
<1>2. [q \in Readers |-> Phase(q)'] = [[q \in Readers |-> Phase(q)] EXCEPT ![r] = "idle"]
  BY <1>1, Constants DEF Phase
<1>3. [q \in Readers |-> Reply(q)'] = [[q \in Readers |-> Reply(q)] EXCEPT ![r] = Unknown]
  BY <1>1, Constants DEF Reply
<1>4. Phase(r) = "done"
  BY <1>1 DEF Phase
<1>5. need' = [need EXCEPT ![r] = Origin] /\ UNCHANGED floor
  BY DEF Leave
<1>6. QED
  BY <1>2, <1>3, <1>4, <1>5
     DEF Fresh!Next, Fresh!Leave, Phase, Reply, Fresh!Origin, Origin

\* Hit and Share answer one call; Close answers the leader's and wakes the others.
LEMMA ReturnRefines ==
  ASSUME IInv, IInv', NEW r \in Readers, Hit(r) \/ Share(r) \/ Close(r)
  PROVE  Fresh!Next
<1>1. call \in [Readers -> Call] /\ call[r] \in Call /\ UNCHANGED <<floor, need>>
  BY DEF IInv, TypeOK, Hit, Share, Close, history
<1>2. call[r].pc \notin {"idle", "done"}
  BY DEF Hit, Share, Close
<1>3. \A a : Done(r, a).pc = "done"
  BY Constants DEF Done, Call
<1>4. CASE Hit(r) \/ Share(r)
  <2>1. call'[r].pc = "done" /\ \A q \in Readers : q # r => call'[q] = call[q]
    BY <1>1, <1>3, <1>4 DEF Hit, Share, Return, Become
  <2>2. QED
    BY <1>1, <1>2, <2>1, AnswerRefines DEF Phase, Reply
<1>5. CASE Close(r)
  <2>1. call'[r].pc = "done"
    BY <1>3, <1>5 DEF Close
  <2>2. ASSUME NEW q \in Readers, q # r PROVE Phase(q)' = Phase(q) /\ Reply(q)' = Reply(q)
    <3>1. CASE call[q].pc = "wait" /\ call[q].ticket = r
      <4>1. call[q] \in Call
        BY <1>1
      <4>2. call'[q].pc = "woken"
        BY <2>2, <3>1, <4>1, <1>5 DEF Close, Call
      <4>3. QED
        BY <3>1, <4>2 DEF Phase, Reply
    <3>2. CASE ~(call[q].pc = "wait" /\ call[q].ticket = r)
      BY <2>2, <3>2, <1>5 DEF Close, Phase, Reply
    <3>3. QED
      BY <3>1, <3>2
  <2>3. QED
    BY <1>1, <1>2, <2>1, <2>2, AnswerRefines
<1>6. QED
  BY <1>4, <1>5

LEMMA BusyRefines ==
  ASSUME IInv, NEW r \in Readers,
         Follow(r) \/ Lead(r) \/ Cooling(r) \/ Send(r) \/ Serve(r) \/ Lose(r) \/ Throttle(r)
           \/ Finish(r) \/ Retry(r)
  PROVE  Silent
<1>1. call \in [Readers -> Call] /\ call[r] \in Call /\ UNCHANGED <<floor, need>>
  BY DEF IInv, TypeOK, Follow, Lead, Cooling, Send, Serve, Lose, Throttle, Finish, Retry, history
<1>2. \A q \in Readers : q # r => call'[q] = call[q]
  BY <1>1 DEF Follow, Lead, Cooling, Send, Serve, Lose, Throttle, Finish, Retry, Become, Arrive
<1>3. call[r].pc \notin {"idle", "done"}
  BY DEF Follow, Lead, Cooling, Send, Serve, Lose, Throttle, Finish, Retry
<1>4. call'[r].pc \notin {"idle", "done"}
  <2>1. CASE Follow(r) \/ Lead(r) \/ Send(r)
    <3>1. CASE Follow(r)
      BY <3>1, <1>1 DEF Follow, Become, Call
    <3>2. CASE Lead(r)
      BY <3>2, <1>1 DEF Lead, Become, Call
    <3>3. CASE Send(r)
      BY <3>3, <1>1 DEF Send, Become, Call
    <3>4. QED
      BY <2>1, <3>1, <3>2, <3>3
  <2>2. CASE Cooling(r) \/ Serve(r) \/ Lose(r) \/ Throttle(r)
    <3>1. PICK a : Arrive(r, a)
      BY <2>2 DEF Cooling, Serve, Lose, Throttle
    <3>2. QED
      BY <3>1, <1>1 DEF Arrive, Become, Call
  <2>3. CASE Finish(r)
    BY <2>3, <1>1 DEF Finish, Become, Call
  <2>4. CASE Retry(r)
    BY <2>4, <1>1, Constants DEF Retry, Become, Call
  <2>5. QED
    BY <2>1, <2>2, <2>3, <2>4
<1>5. QED
  BY <1>1, <1>2, <1>3, <1>4 DEF Silent, Phase, Reply

LEMMA OtherRefines ==
  ASSUME IInv, IInv',
         \/ \E t \in Togglers : Apply(t) \/ Acknowledge(t) \/ Refuse(t) \/ \E i \in Ids : Post(t, i)
         \/ \E w \in Swappers : Swap(w) \/ Reset(w) \/ Rearm(w)
         \/ \E i \in Ids : Expire(i)
         \/ CoolDown
         \/ UNCHANGED vars
  PROVE  Fresh!Next \/ UNCHANGED Fresh!vars
<1>1. UNCHANGED <<call, need>>
  BY DEF Apply, Acknowledge, Refuse, Post, Swap, Reset, Rearm, Expire, CoolDown, vars, history
<1>2. TypeOK /\ session \in Sessions
  BY StampTypes DEF IInv
<1>3. \A i \in Ids : floor[i] \in Stamp /\ Leq(floor[i], floor[i])
  BY <1>2, LeqRefl DEF TypeOK
<1>4. CASE \E t \in Togglers : Acknowledge(t)
  <2>1. PICK t \in Togglers : Acknowledge(t)
    BY <1>4
  <2>2. toggle[t].id \in Ids /\ toggle[t].stamp \in Stamp
    BY <1>2 DEF TypeOK, Toggle
  <2>3. floor' = [floor EXCEPT ![toggle[t].id] = Later(@, toggle[t].stamp)]
    BY <2>1 DEF Acknowledge
  <2>4. \A i \in Ids : Leq(floor[i], floor'[i])
    BY <2>2, <2>3, <1>2, <1>3, LaterBounds DEF TypeOK
  <2>5. QED
    BY <1>1, <2>4, AnnounceRefines
<1>5. CASE \E w \in Swappers : Reset(w)
  <2>1. [s |-> session, v |-> 0] \in Stamp
    BY <1>2, FollowStateAssumption DEF Stamp, Sessions
  <2>2. floor' = [i \in Ids |-> Later(floor[i], [s |-> session, v |-> 0])]
    BY <1>5 DEF Reset
  <2>3. \A i \in Ids : Leq(floor[i], floor'[i])
    BY <2>1, <2>2, <1>3, LaterBounds
  <2>4. QED
    BY <1>1, <2>3, AnnounceRefines
<1>6. CASE UNCHANGED floor
  BY <1>1, <1>6, SilentStutters DEF Silent, Phase, Reply
<1>7. QED
  BY <1>4, <1>5, <1>6
     DEF Apply, Refuse, Post, Swap, Rearm, Expire, CoolDown, vars, history

LEMMA StepRefines == IInv /\ IInv' /\ [Next]_vars => [Fresh!Next]_Fresh!vars
<1> SUFFICES ASSUME IInv, IInv', [Next]_vars PROVE Fresh!Next \/ UNCHANGED Fresh!vars
  OBVIOUS
<1>1. CASE \E r \in Readers : \E i \in Ids : Begin(r, i)
  BY <1>1, BeginRefines
<1>2. CASE \E r \in Readers : Step(r)
  BY <1>2, ReturnRefines, BusyRefines, LeaveRefines, SilentStutters DEF Step
<1>3. QED
  BY <1>1, <1>2, OtherRefines DEF Next

LEMMA InitRefines == Init => Fresh!Init
<1> SUFFICES ASSUME Init PROVE Fresh!Init
  OBVIOUS
<1>1. \A r \in Readers : call[r].pc = "idle"
  BY Constants DEF Init
<1>2. QED
  BY <1>1 DEF Init, Fresh!Init, Fresh!Origin, Origin

\* The cache with its tickets, epochs and retries implements the one-step promise
\* of FreshReads: no caller of IsFollowed is answered with a state older than the
\* last toggle or login announced before its call.
THEOREM Implements == Spec => KeepsPromise
<1>1. QED
  BY InitRefines, Invariance, StepRefines, PTL DEF Spec, KeepsPromise, Fresh!Spec
=============================================================================
