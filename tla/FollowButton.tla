------------------------------ MODULE FollowButton ------------------------------
(***************************************************************************)
(* The follow button (FollowButton.tsx, api/follow.ts): asked once for the *)
(* artist on view, flipped before its request is answered, and reset when  *)
(* the artist page swaps its artist.                                       *)
(***************************************************************************)
EXTENDS Naturals, Sequences, SequencesExt

CONSTANTS Artists,  \* numbers, in the order they are opened
          Returns,  \* an artist may be opened again
          MaxCalls, \* bound: requests in flight
          MaxTaps,
          None

VARIABLES
  artist,    \* props.userId
  followed,  \* None hides the button
  busy,
  calls,     \* requests in flight, and what the server answered
  server,    \* the artists followed at Pixiv
  taps

vars == <<artist, followed, busy, calls, server, taps>>

Call(a, what) == [artist |-> a, what |-> what, answer |-> None]
Without(i) == RemoveAt(calls, i)

\* onMount, near the screen at once or later: load
Init ==
  /\ artist \in Artists /\ (Returns \/ artist = 1)
  /\ followed = None /\ busy = FALSE
  /\ calls = <<Call(artist, "get")>>
  /\ server \in SUBSET Artists /\ taps = MaxTaps

\* the effect on props.userId
Swap(a) ==
  /\ IF Returns THEN a # artist ELSE a > artist
  /\ Len(calls) < MaxCalls
  /\ artist' = a /\ followed' = None /\ busy' = FALSE
  /\ calls' = Append(calls, Call(a, "get"))
  /\ server' = server

Toggle ==
  /\ ~busy /\ followed # None /\ Len(calls) < MaxCalls
  /\ followed' = ~followed /\ busy' = TRUE
  /\ calls' = Append(calls, Call(artist, IF followed' THEN "follow" ELSE "unfollow"))
  /\ UNCHANGED <<artist, server>>

\* The server handles a request, in any order.
Serve(i) ==
  /\ calls[i].answer = None
  /\ server' = CASE calls[i].what = "follow" -> server \cup {calls[i].artist}
                 [] calls[i].what = "unfollow" -> server \ {calls[i].artist}
                 [] OTHER -> server
  /\ calls' = [calls EXCEPT ![i].answer = calls[i].artist \in server']
  /\ UNCHANGED <<artist, followed, busy, taps>>

\* Mutant: an answer is taken for the artist on view.
ForAnyone(call) == TRUE
ForThis(call) == call.artist = artist

Answered(i) ==
  LET call == calls[i] IN
  /\ call.answer # None
  /\ calls' = Without(i)
  /\ IF ForThis(call)
     THEN /\ followed' = (IF call.what = "get" THEN call.answer ELSE followed)
          /\ busy' = (call.what = "get" /\ busy)
     ELSE UNCHANGED <<followed, busy>>
  /\ UNCHANGED <<artist, server, taps>>

\* The request never reaches Pixiv; a read may also answer null, cooling.
Fails(i) ==
  LET call == calls[i] IN
  /\ call.answer = None
  /\ calls' = Without(i)
  /\ IF ForThis(call)
     THEN /\ followed' = (IF call.what = "get" THEN None ELSE call.what = "unfollow")
          /\ busy' = (call.what = "get" /\ busy)
     ELSE UNCHANGED <<followed, busy>>
  /\ UNCHANGED <<artist, server, taps>>

User == taps > 0 /\ taps' = taps - 1 /\ ((\E a \in Artists : Swap(a)) \/ Toggle)
CallStep == \E i \in DOMAIN calls : Serve(i) \/ Answered(i) \/ Fails(i)
Next == User \/ CallStep

Fairness == WF_vars(CallStep)
Spec == Init /\ [][Next]_vars /\ Fairness

-----------------------------------------------------------------------------
TypeOK ==
  /\ artist \in Artists /\ followed \in BOOLEAN \cup {None} /\ busy \in BOOLEAN
  /\ server \subseteq Artists /\ taps \in 0 .. MaxTaps

\* With nothing in flight for the artist on view the button, if there is one,
\* tells what Pixiv holds, and it can be tapped.
ButtonHonest ==
  (\A i \in DOMAIN calls : calls[i].artist # artist) =>
    /\ followed # None => followed = (artist \in server)
    /\ ~busy
=============================================================================
