----------------------------- MODULE ScreensProofs -----------------------------
(***************************************************************************)
(* The parts of the page keep their promises for any lists, pages, users   *)
(* and bounds.                                                             *)
(*                                                                         *)
(* Follow button.  The answers in flight for the artist on view are one at *)
(* most, and it says what the button shows until then (Waiting): artists   *)
(* are opened in order, so none is waited for twice.                       *)
(*                                                                         *)
(* Preferences.  The last write of a key in the queue, or else the table,  *)
(* is what is shown (Settled); until the boot's tags are in, the two sets  *)
(* of edits applied to them give the list there should be (TagsPending).   *)
(*                                                                         *)
(* Spinners.  One request at most is the current one (SpinnerInv), and a   *)
(* related view has no other.                                              *)
(*                                                                         *)
(* Mover.  Between its two calls the work at hand is in neither pile, the  *)
(* works before it are where they went and those after it untouched        *)
(* (RunOK), so that whatever call fails the report names what is missing.  *)
(*                                                                         *)
(* Lists.  The list of a view is the first n pages of its owner, the next  *)
(* one is behind the cursor, and the current request is for it (PagesAt);  *)
(* a search, shown or saved, has all up to the counter that no snapshot    *)
(* takes (Whole, Stays), unless a first page is on its way.  The feed      *)
(* holds what it has seen and not dropped, once each (FeedList): a filter  *)
(* leaves each position kept once (PlacesCount).                           *)
(*                                                                         *)
(* Snapshot.  What was not damaged is as it was saved, and what is         *)
(* validated and cut off is sound (Restored).                              *)
(***************************************************************************)
EXTENDS MCScreens, ListsProofs

-----------------------------------------------------------------------------
(* A request leaves those in flight.                                       *)

LeftOf(s, i) == SubSeq(s, 1, i - 1) \o SubSeq(s, i + 1, Len(s))
From(i, j) == IF j < i THEN j ELSE j + 1

LEMMA OneLeaves ==
  ASSUME NEW S, NEW s \in Seq(S), NEW i \in DOMAIN s
  PROVE  /\ LeftOf(s, i) \in Seq(S)
         /\ Len(s) \in Nat /\ Len(s) > 0 /\ Len(LeftOf(s, i)) = Len(s) - 1
         /\ \A j \in DOMAIN LeftOf(s, i) :
              From(i, j) \in DOMAIN s \ {i} /\ LeftOf(s, i)[j] = s[From(i, j)]
         /\ \A j, k \in DOMAIN LeftOf(s, i) : From(i, j) = From(i, k) => j = k
         /\ \A k \in DOMAIN s \ {i} : \E j \in DOMAIN LeftOf(s, i) : From(i, j) = k
<1> DEFINE n == Len(s)
           a == SubSeq(s, 1, i - 1)
           b == SubSeq(s, i + 1, n)
<1>1. n \in Nat /\ DOMAIN s = 1 .. n /\ i \in 1 .. n
  OBVIOUS
<1>2. /\ a \in Seq(S) /\ Len(a) = i - 1 /\ \A j \in 1 .. (i - 1) : a[j] = s[j]
  BY <1>1
<1>3. b \in Seq(S) /\ Len(b) = n - i /\ \A j \in 1 .. (n - i) : b[j] = s[i + j]
  BY <1>1
<1>4. LeftOf(s, i) = a \o b
  BY DEF LeftOf
<1> HIDE DEF a, b, n
<1>5. /\ a \o b \in Seq(S) /\ Len(a \o b) = n - 1 /\ DOMAIN (a \o b) = 1 .. (n - 1)
      /\ \A j \in 1 .. (n - 1) : (a \o b)[j] = (IF j <= i - 1 THEN a[j] ELSE b[j - (i - 1)])
  <2>1. /\ a \o b \in Seq(S) /\ Len(a \o b) = Len(a) + Len(b)
        /\ \A j \in 1 .. Len(a) + Len(b) :
             (a \o b)[j] = IF j <= Len(a) THEN a[j] ELSE b[j - Len(a)]
    BY <1>2, <1>3, ConcatProperties
  <2>2. Len(a) + Len(b) = n - 1
    BY <1>1, <1>2, <1>3
  <2>3. DOMAIN (a \o b) = 1 .. Len(a \o b)
    BY <2>1
  <2> QED
    BY <1>2, <2>1, <2>2, <2>3
<1>6. ASSUME NEW j \in 1 .. (n - 1)
      PROVE  From(i, j) \in (1 .. n) \ {i} /\ (a \o b)[j] = s[From(i, j)]
  <2>1. CASE j < i
    BY <1>1, <1>2, <1>5, <2>1 DEF From
  <2>2. CASE ~(j < i)
    <3>1. j - (i - 1) \in 1 .. (n - i) /\ i + (j - (i - 1)) = j + 1 /\ ~(j <= i - 1)
      BY <1>1, <2>2
    <3>2. (a \o b)[j] = s[j + 1]
      BY <1>3, <1>5, <3>1
    <3> QED
      BY <1>1, <2>2, <3>2 DEF From
  <2> QED
    BY <2>1, <2>2
<1>7. \A j, k \in 1 .. (n - 1) : From(i, j) = From(i, k) => j = k
  BY <1>1 DEF From
<1>8. \A k \in (1 .. n) \ {i} : \E j \in 1 .. (n - 1) : From(i, j) = k
  <2>1. SUFFICES ASSUME NEW k \in (1 .. n) \ {i} PROVE \E j \in 1 .. (n - 1) : From(i, j) = k
    OBVIOUS
  <2>2. CASE k < i
    BY <1>1, <2>2 DEF From
  <2>3. CASE k > i
    <3>1. k - 1 \in 1 .. (n - 1) /\ From(i, k - 1) = k
      BY <1>1, <2>3 DEF From
    <3> QED
      BY <3>1
  <2> QED
    BY <1>1, <2>2, <2>3
<1>9. n > 0
  BY <1>1
<1> DEFINE t == LeftOf(s, i)
<1>10. /\ t \in Seq(S) /\ Len(t) = n - 1 /\ DOMAIN t = 1 .. (n - 1)
       /\ \A j \in 1 .. (n - 1) : t[j] = s[From(i, j)]
  BY <1>4, <1>5, <1>6
<1> HIDE DEF t
<1>11. /\ t \in Seq(S) /\ n \in Nat /\ n > 0 /\ Len(t) = n - 1
       /\ \A j \in DOMAIN t : From(i, j) \in DOMAIN s \ {i} /\ t[j] = s[From(i, j)]
       /\ \A j, k \in DOMAIN t : From(i, j) = From(i, k) => j = k
       /\ \A k \in DOMAIN s \ {i} : \E j \in DOMAIN t : From(i, j) = k
  BY <1>1, <1>6, <1>7, <1>8, <1>9, <1>10
<1> QED
  BY <1>11 DEF n, t

-----------------------------------------------------------------------------
(* The follow button.                                                      *)

Requests == [artist : Artists, what : {"get", "follow", "unfollow"}, answer : BOOLEAN \cup {None}]
Mine(i) == calls[i].artist = artist
\* A request for the artist on view, and what the button shows meanwhile.
Waiting(i) ==
  /\ calls[i].what = "get" => followed = None /\ ~busy
  /\ calls[i].what # "get" => followed = (calls[i].what = "follow") /\ busy
  /\ calls[i].answer = None /\ calls[i].what # "get" => followed # (artist \in server)
  /\ calls[i].answer # None => /\ calls[i].answer = (artist \in server)
                               /\ calls[i].what # "get" => followed = (artist \in server)
ButtonInv ==
  /\ artist \in Artists /\ calls \in Seq(Requests)
  /\ followed \in BOOLEAN \cup {None} /\ busy \in BOOLEAN
  /\ \A i \in DOMAIN calls : calls[i].artist <= artist
  /\ \A i, j \in DOMAIN calls : Mine(i) /\ Mine(j) => i = j
  /\ \A i \in DOMAIN calls : Mine(i) => Waiting(i)
  /\ Button!ButtonHonest

LEMMA ButtonInit == Button!Init => ButtonInv
<1> SUFFICES ASSUME Button!Init PROVE ButtonInv
  OBVIOUS
<1> DEFINE call == [artist |-> artist, what |-> "get", answer |-> None]
<1>1. artist \in Artists /\ followed = None /\ busy = FALSE /\ calls = <<call>>
  BY DEF Button!Init, Button!Call
<1>2. call \in Requests /\ call.artist = artist /\ call.what = "get" /\ call.answer = None
  BY <1>1 DEF Requests
<1> HIDE DEF call
<1>3. calls \in Seq(Requests) /\ DOMAIN calls = {1} /\ calls[1] = call
  BY <1>1, <1>2
<1>4. artist \in Nat
  BY <1>1, ScreensAssumption
<1>5. \A i \in DOMAIN calls : calls[i].artist <= artist
  BY <1>2, <1>3, <1>4
<1>6. \A i \in DOMAIN calls : Mine(i) => Waiting(i)
  BY <1>1, <1>2, <1>3 DEF Waiting
<1> QED
  BY <1>1, <1>2, <1>3, <1>5, <1>6 DEF ButtonInv, Button!ButtonHonest

\* An artist is opened: the requests in flight are for others.
LEMMA ButtonSwap ==
  ASSUME Returns = FALSE, ButtonInv, NEW a \in Artists, Button!Swap(a) PROVE ButtonInv'
<1> DEFINE call == [artist |-> a, what |-> "get", answer |-> None]
           n == Len(calls)
<1>1. /\ a > artist /\ artist' = a /\ followed' = None /\ busy' = FALSE /\ server' = server
      /\ calls' = Append(calls, call)
  BY DEF Button!Swap, Button!Call
<1>2. call \in Requests /\ call.artist = a /\ call.what = "get" /\ call.answer = None
  BY DEF Requests
<1> HIDE DEF call
<1>3. /\ n \in Nat /\ DOMAIN calls = 1 .. n /\ DOMAIN calls' = 1 .. (n + 1)
      /\ calls' \in Seq(Requests) /\ calls'[n + 1] = call
      /\ \A i \in 1 .. n : calls'[i] = calls[i]
  BY <1>1, <1>2 DEF ButtonInv
<1> HIDE DEF n
<1>4. artist \in Nat /\ a \in Nat /\ \A i \in DOMAIN calls : calls[i].artist \in Nat
  <2>1. artist \in Artists /\ \A i \in DOMAIN calls : calls[i] \in Requests
    BY DEF ButtonInv
  <2> QED
    BY <2>1, ScreensAssumption DEF Requests
<1>5. \A i \in DOMAIN calls' : calls'[i].artist <= a /\ (calls'[i].artist = a => i = n + 1)
  <2>1. SUFFICES ASSUME NEW i \in 1 .. (n + 1)
                 PROVE  calls'[i].artist <= a /\ (calls'[i].artist = a => i = n + 1)
    BY <1>3
  <2>2. CASE i = n + 1
    BY <1>2, <1>3, <1>4, <2>2
  <2>3. CASE i # n + 1
    <3>1. i \in DOMAIN calls /\ calls'[i] = calls[i] /\ calls[i].artist <= artist /\ calls[i].artist \in Nat
      BY <1>3, <1>4, <2>3 DEF ButtonInv
    <3> QED
      BY <1>1, <1>4, <3>1
  <2> QED
    BY <2>2, <2>3
<1>6. ASSUME NEW i \in DOMAIN calls', Mine(i)' PROVE Waiting(i)'
  <2>1. i = n + 1 /\ calls'[i] = call
    BY <1>1, <1>3, <1>5, <1>6 DEF Mine
  <2> QED
    BY <1>1, <1>2, <2>1 DEF Waiting
<1>7. Button!ButtonHonest'
  BY <1>1 DEF Button!ButtonHonest
<1>8. \A i, j \in DOMAIN calls' : Mine(i)' /\ Mine(j)' => i = j
  BY <1>1, <1>5 DEF Mine
<1>9. followed' \in BOOLEAN \cup {None} /\ busy' \in BOOLEAN /\ artist' \in Artists
  BY <1>1
<1> QED
  BY <1>1, <1>3, <1>5, <1>6, <1>7, <1>8, <1>9 DEF ButtonInv
\* The button is tapped: nothing was in flight for the artist on view.
LEMMA ButtonToggle ==
  ASSUME ButtonInv, Button!Toggle PROVE ButtonInv'
<1> DEFINE call == [artist |-> artist, what |-> IF followed' THEN "follow" ELSE "unfollow",
                    answer |-> None]
           n == Len(calls)
<1>1. /\ ~busy /\ followed # None /\ followed' = ~followed /\ busy' = TRUE
      /\ artist' = artist /\ server' = server /\ calls' = Append(calls, call)
  BY DEF Button!Toggle, Button!Call
<1>2. followed \in BOOLEAN /\ followed' \in BOOLEAN
  BY <1>1 DEF ButtonInv
<1>3. /\ call \in Requests /\ call.artist = artist /\ call.answer = None
      /\ call.what # "get" /\ followed' = (call.what = "follow")
  BY <1>2 DEF Requests, ButtonInv
<1> HIDE DEF call
<1>4. /\ n \in Nat /\ DOMAIN calls = 1 .. n /\ DOMAIN calls' = 1 .. (n + 1)
      /\ calls' \in Seq(Requests) /\ calls'[n + 1] = call
      /\ \A i \in 1 .. n : calls'[i] = calls[i]
  BY <1>1, <1>3 DEF ButtonInv
<1> HIDE DEF n
<1>5. \A i \in DOMAIN calls : calls[i].artist # artist
  BY <1>1 DEF ButtonInv, Mine, Waiting
<1>6. followed = (artist \in server)
  BY <1>1, <1>5 DEF ButtonInv, Button!ButtonHonest
<1>m. PICK m : m = n + 1
  OBVIOUS
<1>7. ASSUME NEW i \in DOMAIN calls', Mine(i)' PROVE i = m
  BY <1>1, <1>4, <1>5, <1>7, <1>m DEF Mine
<1>8. Waiting(m)'
  <2>1. followed' # (artist' \in server')
    <3>1. CASE artist \in server
      BY <1>1, <1>6, <3>1
    <3>2. CASE artist \notin server
      BY <1>1, <1>6, <3>2
    <3> QED
      BY <3>1, <3>2
  <2> QED
    BY <1>1, <1>3, <1>4, <1>m, <2>1 DEF Waiting
<1>9. ASSUME NEW i \in DOMAIN calls' PROVE calls'[i].artist <= artist
  <2>1. artist \in Nat
    BY ScreensAssumption DEF ButtonInv
  <2> QED
    BY <1>3, <1>4, <1>9, <2>1 DEF ButtonInv
<1>10. ~Button!ButtonHonest' => \A i \in DOMAIN calls' : ~Mine(i)'
  BY <1>1 DEF Button!ButtonHonest, Mine
<1>11. m \in DOMAIN calls' /\ Mine(m)'
  BY <1>1, <1>3, <1>4, <1>m DEF Mine
<1>12. artist' \in Artists /\ followed' \in BOOLEAN \cup {None} /\ busy' \in BOOLEAN
  BY <1>1, <1>2 DEF ButtonInv
<1> QED
  BY <1>1, <1>4, <1>7, <1>8, <1>9, <1>10, <1>11, <1>12 DEF ButtonInv

\* Pixiv serves a request.
LEMMA ButtonServe ==
  ASSUME ButtonInv, NEW i \in DOMAIN calls, Button!Serve(i) PROVE ButtonInv'
<1> DEFINE call == calls[i]
<1>1. /\ call.answer = None
      /\ server' = CASE call.what = "follow" -> server \cup {call.artist}
                     [] call.what = "unfollow" -> server \ {call.artist}
                     [] OTHER -> server
      /\ calls' = [calls EXCEPT ![i].answer = call.artist \in server']
      /\ UNCHANGED <<artist, followed, busy>>
  BY DEF Button!Serve
<1>2. call \in Requests /\ calls \in Seq(Requests)
  BY DEF ButtonInv
<1>3. PICK b \in BOOLEAN : b = (call.artist \in server')
  <2>1. CASE call.artist \in server'
    BY <2>1
  <2>2. CASE call.artist \notin server'
    <3>1. (call.artist \in server') = FALSE
      BY <2>2
    <3> QED
      BY <3>1
  <2> QED
    BY <2>1, <2>2
<1>4. calls'[i] = [artist |-> call.artist, what |-> call.what, answer |-> b]
  BY <1>1, <1>2, <1>3 DEF Requests
<1>5. calls' \in Seq(Requests) /\ DOMAIN calls' = DOMAIN calls
  <2>1. [artist |-> call.artist, what |-> call.what, answer |-> b] \in Requests
    BY <1>2 DEF Requests
  <2>2. [call EXCEPT !.answer = b] = [artist |-> call.artist, what |-> call.what, answer |-> b]
    BY <1>2 DEF Requests
  <2>3. calls' = [calls EXCEPT ![i] = [call EXCEPT !.answer = b]]
    BY <1>1, <1>3
  <2> QED
    BY <1>2, <2>1, <2>2, <2>3, ExceptSeq
<1>6. \A j \in DOMAIN calls \ {i} : calls'[j] = calls[j]
  BY <1>1, <1>2
<1>7. \A j \in DOMAIN calls : calls'[j].artist = calls[j].artist /\ calls'[j].what = calls[j].what
  BY <1>4, <1>6
<1>8. calls'[i].answer = b /\ b # None
  BY <1>4, ScreensAssumption
<1>9. \A j \in DOMAIN calls : Mine(j)' = Mine(j)
  BY <1>1, <1>7 DEF Mine
<1>10. ASSUME NEW j \in DOMAIN calls, Mine(j) PROVE Waiting(j)'
  <2>1. Waiting(j)
    BY <1>10 DEF ButtonInv
  <2>2. CASE j = i
    <3>1. call.artist = artist /\ call.what \in {"get", "follow", "unfollow"}
      BY <1>2, <1>10, <2>2 DEF Mine, Requests
    <3>2. b = (artist \in server')
      BY <1>3, <3>1
    <3>3. call.what # "get" => followed = (artist \in server')
      BY <1>1, <2>1, <2>2, <3>1 DEF Waiting
    <3> QED
      BY <1>1, <1>7, <1>8, <2>1, <2>2, <3>2, <3>3 DEF Waiting
  <2>3. CASE j # i
    <3>1. call.artist # artist
      BY <1>10, <2>3 DEF ButtonInv, Mine
    <3>2. (artist \in server') = (artist \in server)
      BY <1>1, <3>1
    <3> QED
      BY <1>1, <1>6, <2>1, <2>3, <3>2 DEF Waiting
  <2> QED
    BY <2>2, <2>3
<1>11. Button!ButtonHonest'
  <2>1. SUFFICES ASSUME \A j \in DOMAIN calls' : calls'[j].artist # artist' PROVE Button!ButtonHonest'
    BY DEF Button!ButtonHonest
  <2>2. \A j \in DOMAIN calls : calls[j].artist # artist
    BY <1>1, <1>5, <1>7, <2>1
  <2>3. (artist \in server') = (artist \in server)
    BY <1>1, <2>2
  <2> QED
    BY <1>1, <2>2, <2>3 DEF ButtonInv, Button!ButtonHonest
<1>12. \A j \in DOMAIN calls : calls'[j].artist <= artist
  BY <1>7 DEF ButtonInv
<1> QED
  BY <1>1, <1>5, <1>9, <1>10, <1>11, <1>12 DEF ButtonInv

\* A request has ended: what is left of those in flight.
LEMMA ButtonCallEnds ==
  ASSUME ButtonInv, NEW i \in DOMAIN calls, calls' = LeftOf(calls, i),
         UNCHANGED <<artist, server>>,
         followed' \in BOOLEAN \cup {None}, busy' \in BOOLEAN,
         ~Mine(i) => UNCHANGED <<followed, busy>>,
         Mine(i) => ~busy' /\ (followed' # None => followed' = (artist \in server))
  PROVE  ButtonInv'
<1>1. /\ calls' \in Seq(Requests)
      /\ \A j \in DOMAIN calls' : From(i, j) \in DOMAIN calls \ {i} /\ calls'[j] = calls[From(i, j)]
      /\ \A j, k \in DOMAIN calls' : From(i, j) = From(i, k) => j = k
      /\ \A k \in DOMAIN calls \ {i} : \E j \in DOMAIN calls' : From(i, j) = k
  BY OneLeaves DEF ButtonInv
<1>2. \A j \in DOMAIN calls' : Mine(j)' = Mine(From(i, j))
  BY <1>1 DEF Mine
<1>3. \A j \in DOMAIN calls' : calls'[j].artist <= artist
  BY <1>1 DEF ButtonInv
<1>4. \A j, k \in DOMAIN calls' : Mine(j)' /\ Mine(k)' => j = k
  BY <1>1, <1>2 DEF ButtonInv
<1>5. ASSUME NEW j \in DOMAIN calls', Mine(j)' PROVE Waiting(j)'
  <2>1. Mine(From(i, j)) /\ From(i, j) # i /\ From(i, j) \in DOMAIN calls
    BY <1>1, <1>2, <1>5
  <2>2. ~Mine(i) /\ Waiting(From(i, j))
    BY <2>1 DEF ButtonInv
  <2> QED
    BY <1>1, <2>2 DEF Waiting
<1>6. Button!ButtonHonest'
  <2>1. SUFFICES ASSUME \A j \in DOMAIN calls' : ~Mine(j)' PROVE Button!ButtonHonest'
    BY DEF Button!ButtonHonest, Mine
  <2>2. \A k \in DOMAIN calls \ {i} : ~Mine(k)
    BY <1>1, <1>2, <2>1
  <2>3. CASE Mine(i)
    BY <2>3 DEF Button!ButtonHonest
  <2>4. CASE ~Mine(i)
    BY <2>2, <2>4 DEF ButtonInv, Button!ButtonHonest, Mine
  <2> QED
    BY <2>3, <2>4
<1> QED
  BY <1>1, <1>3, <1>4, <1>5, <1>6 DEF ButtonInv

LEMMA ButtonNext ==
  ASSUME Returns = FALSE
  PROVE  ButtonInv /\ [Button!Next]_<<button, taps>> => ButtonInv'
<1> SUFFICES ASSUME ButtonInv, [Button!Next]_<<button, taps>> PROVE ButtonInv'
  OBVIOUS
<1>1. ASSUME NEW i \in DOMAIN calls PROVE calls[i] \in Requests
  BY DEF ButtonInv
<1>2. ASSUME NEW i \in DOMAIN calls, Button!Answered(i) PROVE ButtonInv'
  <2>1. /\ calls[i].answer # None /\ calls' = LeftOf(calls, i) /\ UNCHANGED <<artist, server>>
        /\ ~Mine(i) => UNCHANGED <<followed, busy>>
        /\ Mine(i) => /\ followed' = (IF calls[i].what = "get" THEN calls[i].answer ELSE followed)
                      /\ busy' = (calls[i].what = "get" /\ busy)
    BY <1>2 DEF Button!Answered, Button!Without, Button!RemoveAt, LeftOf, Button!ForThis, Mine
  <2>2. Mine(i) => Waiting(i)
    BY DEF ButtonInv
  <2>3. calls[i].answer \in BOOLEAN /\ followed \in BOOLEAN \cup {None} /\ busy \in BOOLEAN
    BY <1>1, <2>1 DEF ButtonInv, Requests
  <2>4. followed' \in BOOLEAN \cup {None} /\ busy' \in BOOLEAN
    BY <2>1, <2>3
  <2>5. Mine(i) => ~busy' /\ followed' = (artist \in server)
    BY <2>1, <2>2 DEF Waiting
  <2> QED
    BY <2>1, <2>4, <2>5, ButtonCallEnds
<1>3. ASSUME NEW i \in DOMAIN calls, Button!Fails(i) PROVE ButtonInv'
  <2>1. /\ calls[i].answer = None /\ calls' = LeftOf(calls, i) /\ UNCHANGED <<artist, server>>
        /\ ~Mine(i) => UNCHANGED <<followed, busy>>
        /\ Mine(i) => /\ followed' = (IF calls[i].what = "get" THEN None ELSE calls[i].what = "unfollow")
                      /\ busy' = (calls[i].what = "get" /\ busy)
    BY <1>3 DEF Button!Fails, Button!Without, Button!RemoveAt, LeftOf, Button!ForThis, Mine
  <2>2. Mine(i) => Waiting(i)
    BY DEF ButtonInv
  <2>3. /\ calls[i].what \in {"get", "follow", "unfollow"}
        /\ followed \in BOOLEAN \cup {None} /\ busy \in BOOLEAN
    BY <1>1 DEF ButtonInv, Requests
  <2>4. followed' \in BOOLEAN \cup {None} /\ busy' \in BOOLEAN
    BY <2>1, <2>3
  <2>5. Mine(i) => ~busy' /\ (followed' # None => followed' = (artist \in server))
    <3>1. CASE calls[i].what = "get"
      BY <2>1, <2>2, <3>1 DEF Waiting
    <3>2. CASE calls[i].what = "follow"
      <4>1. SUFFICES ASSUME Mine(i) PROVE ~busy' /\ followed' = (artist \in server)
        OBVIOUS
      <4>2. followed' = FALSE /\ busy' = FALSE /\ followed = TRUE /\ followed # (artist \in server)
        BY <2>1, <2>2, <3>2, <4>1 DEF Waiting
      <4>3. artist \notin server
        BY <4>2
      <4>4. (artist \in server) = FALSE
        BY <4>3
      <4> QED
        BY <4>2, <4>4
    <3>3. CASE calls[i].what = "unfollow"
      <4>1. SUFFICES ASSUME Mine(i) PROVE ~busy' /\ followed' = (artist \in server)
        OBVIOUS
      <4>2. followed' = TRUE /\ busy' = FALSE /\ followed = FALSE /\ followed # (artist \in server)
        BY <2>1, <2>2, <3>3, <4>1 DEF Waiting
      <4>3. ~(artist \notin server)
        <5>1. SUFFICES ASSUME artist \notin server PROVE FALSE
          OBVIOUS
        <5>2. (artist \in server) = FALSE
          BY <5>1
        <5> QED
          BY <4>2, <5>2
      <4> QED
        BY <4>2, <4>3
    <3> QED
      BY <2>3, <3>1, <3>2, <3>3
  <2> QED
    BY <2>1, <2>4, <2>5, ButtonCallEnds
<1>4. CASE UNCHANGED <<button, taps>>
  BY <1>4 DEF button, ButtonInv, Mine, Waiting, Button!ButtonHonest
<1> QED
  BY <1>2, <1>3, <1>4, ButtonSwap, ButtonToggle, ButtonServe
  DEF Button!Next, Button!User, Button!CallStep

-----------------------------------------------------------------------------
(* The preferences.                                                        *)

\* The last write of a key that is queued, or else the table, holds what is shown.
Settled(key, shown) ==
  /\ \A i \in DOMAIN queue :
       /\ queue[i].key = key
       /\ \A j \in DOMAIN queue : i < j => queue[j].key # key
       => queue[i].to = shown
  /\ (\A i \in DOMAIN queue : queue[i].key # key) => db[key] = shown
Unwritten(key) == \A i \in DOMAIN queue : queue[i].key # key

Writes == [key : {"tags", "value"}, to : Values \cup SUBSET Tags]
TableOK == DOMAIN db = {"tags", "value"} /\ db = [tags |-> db.tags, value |-> db.value]
PrefsTypes ==
  /\ TableOK
  /\ queue \in Seq(Writes)
  /\ DOMAIN seeds \subseteq {"tags", "value"} /\ seeds = [k \in DOMAIN seeds |-> seeds[k]]
  /\ blockedSeedApplied \in BOOLEAN /\ lost \in BOOLEAN
  /\ tags \subseteq Tags /\ want \subseteq Tags
\* Until the boot's tags are in, the edits are what the two sets say.
TagsPending ==
  "tags" \in DOMAIN seeds =>
    /\ ~blockedSeedApplied /\ tags = pendingAdds /\ pendingAdds \cap pendingRemovals = {}
    /\ seeds.tags = None => pendingAdds \cup pendingRemovals = {}
    /\ seeds.tags # None => want = (seeds.tags \cup pendingAdds) \ pendingRemovals
    /\ pendingAdds \cup pendingRemovals = {} => want = db.tags /\ Unwritten("tags")
ValuePending == "value" \in DOMAIN seeds => seeds.value = db.value /\ Unwritten("value")
PrefsInv ==
  /\ PrefsTypes /\ TagsPending /\ ValuePending
  /\ blockedSeedApplied => tags = want
  /\ blockedSeedApplied /\ ~lost => Settled("tags", tags)
  /\ "value" \notin DOMAIN seeds /\ ~lost => Settled("value", value)

LEMMA PrefsHold == PrefsInv => Prefs!PrefsAgree
<1> SUFFICES ASSUME PrefsInv PROVE Prefs!PrefsAgree
  OBVIOUS
<1>1. blockedSeedApplied => tags = want
  BY DEF PrefsInv
<1>2. ASSUME DOMAIN seeds = {}, queue = <<>>, ~lost, blockedSeedApplied
      PROVE  db = [tags |-> tags, value |-> value]
  <2>1. Settled("tags", tags) /\ Settled("value", value)
    BY <1>2 DEF PrefsInv
  <2>2. DOMAIN queue = {}
    BY <1>2
  <2>3. db["tags"] = tags /\ db["value"] = value
    BY <2>1, <2>2 DEF Settled
  <2>4. db = [tags |-> db.tags, value |-> db.value]
    BY DEF PrefsInv, PrefsTypes, TableOK
  <2> QED
    BY <2>3, <2>4
<1> QED
  BY <1>1, <1>2 DEF Prefs!PrefsAgree

LEMMA PrefsInit == Prefs!Init => PrefsInv
<1> SUFFICES ASSUME Prefs!Init PROVE PrefsInv
  OBVIOUS
<1>1. /\ db \in [tags : SUBSET Tags, value : Values] /\ tags = {}
      /\ seeds = [tags |-> None, value |-> db.value]
      /\ blockedSeedApplied = FALSE /\ pendingAdds = {} /\ pendingRemovals = {}
      /\ queue = <<>> /\ want = db.tags /\ lost = FALSE
  BY DEF Prefs!Init
<1>2. PrefsTypes
  <2>1. DOMAIN db = {"tags", "value"} /\ db = [tags |-> db.tags, value |-> db.value]
    BY <1>1
  <2>2. DOMAIN seeds = {"tags", "value"} /\ seeds = [k \in DOMAIN seeds |-> seeds[k]]
    BY <1>1
  <2>3. tags \subseteq Tags /\ want \subseteq Tags /\ queue \in Seq(Writes)
    BY <1>1
  <2>4. blockedSeedApplied \in BOOLEAN /\ lost \in BOOLEAN
    BY <1>1
  <2> QED
    BY <2>1, <2>2, <2>3, <2>4 DEF PrefsTypes, TableOK
<1>3. TagsPending /\ ValuePending
  BY <1>1 DEF TagsPending, ValuePending, Unwritten
<1> QED
  BY <1>1, <1>2, <1>3 DEF PrefsInv

\* A write joins the queue.
LEMMA WriteJoins ==
  ASSUME queue \in Seq(Writes), NEW key, NEW to, [key |-> key, to |-> to] \in Writes,
         queue' = Append(queue, [key |-> key, to |-> to]), db' = db
  PROVE  /\ queue' \in Seq(Writes)
         /\ Settled(key, to)'
         /\ \A k : k # key => /\ Unwritten(k) => Unwritten(k)'
                              /\ \A v : Settled(k, v) => Settled(k, v)'
<1> DEFINE n == Len(queue)
           w == [key |-> key, to |-> to]
<1>1. w.key = key /\ w.to = to /\ w \in Writes
  OBVIOUS
<1> HIDE DEF w
<1>2. /\ n \in Nat /\ DOMAIN queue = 1 .. n /\ DOMAIN queue' = 1 .. (n + 1)
      /\ queue' \in Seq(Writes) /\ queue'[n + 1] = w
      /\ \A i \in 1 .. n : queue'[i] = queue[i]
  BY <1>1 DEF w
<1> HIDE DEF n
<1>3. Settled(key, to)'
  <2>1. n + 1 \in DOMAIN queue' /\ queue'[n + 1].key = key /\ queue'[n + 1].to = to
    BY <1>1, <1>2
  <2>2. \A i \in DOMAIN queue' : i = n + 1 \/ i < n + 1
    BY <1>2
  <2>3. \A i \in DOMAIN queue' :
          (\A j \in DOMAIN queue' : i < j => queue'[j].key # key) => i = n + 1
    BY <2>1, <2>2
  <2> QED
    BY <2>1, <2>3 DEF Settled
<1>4. ASSUME NEW k, k # key
      PROVE  /\ Unwritten(k) => Unwritten(k)'
             /\ \A v : Settled(k, v) => Settled(k, v)'
  <2>1. \A i \in DOMAIN queue' : queue'[i].key = k => i \in DOMAIN queue /\ queue[i] = queue'[i]
    <3>1. SUFFICES ASSUME NEW i \in 1 .. (n + 1), queue'[i].key = k
                   PROVE  i \in 1 .. n /\ queue[i] = queue'[i]
      BY <1>2
    <3>2. i # n + 1
      BY <1>1, <1>2, <1>4, <3>1
    <3> QED
      BY <1>2, <3>1, <3>2
  <2>2. \A i \in DOMAIN queue : i \in DOMAIN queue' /\ queue'[i] = queue[i]
    BY <1>2
  <2>3. Unwritten(k) => Unwritten(k)'
    BY <2>1 DEF Unwritten
  <2>4. ASSUME NEW v, Settled(k, v) PROVE Settled(k, v)'
    <3>1. ASSUME NEW i \in DOMAIN queue', queue'[i].key = k,
                 \A j \in DOMAIN queue' : i < j => queue'[j].key # k
          PROVE  queue'[i].to = v
      <4>1. i \in DOMAIN queue /\ queue[i] = queue'[i]
        BY <2>1, <3>1
      <4>2. \A j \in DOMAIN queue : i < j => queue[j].key # k
        BY <2>2, <3>1
      <4> QED
        BY <2>4, <3>1, <4>1, <4>2 DEF Settled
    <3>2. (\A i \in DOMAIN queue' : queue'[i].key # k) => db[k] = v
      BY <2>2, <2>4 DEF Settled
    <3> QED
      BY <3>1, <3>2 DEF Settled
  <2> QED
    BY <2>3, <2>4
<1> QED
  BY <1>2, <1>3, <1>4

LEMMA TagsJoin ==
  ASSUME NEW to \in SUBSET Tags
  PROVE  queue \in Seq(Writes) /\ queue' = Append(queue, [key |-> "tags", to |-> to]) /\ db' = db
         => /\ queue' \in Seq(Writes) /\ Settled("tags", to)'
            /\ Unwritten("value") => Unwritten("value")'
            /\ \A v : Settled("value", v) => Settled("value", v)'
<1>1. [key |-> "tags", to |-> to] \in Writes /\ "value" # "tags"
  BY DEF Writes
<1> QED
  BY <1>1, WriteJoins

\* The first write leaves the queue, and it is in the table.
LEMMA WriteLeaves ==
  ASSUME PrefsTypes, queue # <<>>, queue' = Tail(queue)
  PROVE  /\ queue' \in Seq(Writes)
         /\ \A k : Unwritten(k) => Unwritten(k)' /\ Head(queue).key # k
         /\ Prefs!WriteApplies =>
              /\ TableOK' /\ Head(queue).key \in {"tags", "value"}
              /\ \A k \in {"tags", "value"} :
                   /\ k # Head(queue).key => db'[k] = db[k]
                   /\ \A v : Settled(k, v) => Settled(k, v)'
<1> DEFINE n == Len(queue)
           w == Head(queue)
<1>1. /\ n \in Nat /\ n > 0 /\ DOMAIN queue = 1 .. n /\ DOMAIN queue' = 1 .. (n - 1)
      /\ queue' \in Seq(Writes) /\ queue[1] = w /\ w \in Writes
      /\ \A i \in 1 .. (n - 1) : queue'[i] = queue[i + 1]
  BY DEF PrefsTypes
<1> HIDE DEF w, n
<1>2. ASSUME NEW k, Unwritten(k) PROVE Unwritten(k)' /\ w.key # k
  <2>1. \A i \in 1 .. (n - 1) : i + 1 \in 1 .. n
    BY <1>1
  <2>2. 1 \in 1 .. n
    BY <1>1
  <2> QED
    BY <1>1, <1>2, <2>1, <2>2 DEF Unwritten
<1>3. ASSUME Prefs!WriteApplies
      PROVE  /\ TableOK'
             /\ w.key \in {"tags", "value"}
             /\ \A k \in {"tags", "value"} :
                  /\ k # w.key => db'[k] = db[k]
                  /\ k = w.key => db'[k] = w.to
  <2>1. w.key \in {"tags", "value"} /\ db' = [db EXCEPT ![w.key] = w.to]
    BY <1>1, <1>3 DEF Prefs!WriteApplies, Writes, w
  <2>2. db = [tags |-> db.tags, value |-> db.value]
    BY DEF PrefsTypes, TableOK
  <2>3. CASE w.key = "tags"
    <3>1. db' = [tags |-> w.to, value |-> db.value]
      BY <2>1, <2>2, <2>3
    <3> QED
      BY <2>2, <2>3, <3>1 DEF TableOK
  <2>4. CASE w.key = "value"
    <3>1. db' = [tags |-> db.tags, value |-> w.to]
      BY <2>1, <2>2, <2>4
    <3> QED
      BY <2>2, <2>4, <3>1 DEF TableOK
  <2> QED
    BY <2>1, <2>3, <2>4
<1>4. ASSUME Prefs!WriteApplies, NEW k \in {"tags", "value"}, NEW v, Settled(k, v)
      PROVE  Settled(k, v)'
  <2>1. ASSUME NEW i \in DOMAIN queue', queue'[i].key = k,
               \A j \in DOMAIN queue' : i < j => queue'[j].key # k
        PROVE  queue'[i].to = v
    <3>1. i + 1 \in DOMAIN queue /\ queue[i + 1] = queue'[i]
      BY <1>1, <2>1
    <3>2. ASSUME NEW j \in DOMAIN queue, i + 1 < j PROVE queue[j].key # k
      <4>1. j - 1 \in DOMAIN queue' /\ i < j - 1 /\ queue[(j - 1) + 1] = queue'[j - 1] /\ (j - 1) + 1 = j
        BY <1>1, <2>1, <3>2
      <4> QED
        BY <2>1, <4>1
    <3> QED
      BY <1>4, <2>1, <3>1, <3>2 DEF Settled
  <2>2. ASSUME \A i \in DOMAIN queue' : queue'[i].key # k PROVE db'[k] = v
    <3>1. \A j \in DOMAIN queue : 1 < j => queue[j].key # k
      <4>1. SUFFICES ASSUME NEW j \in DOMAIN queue, 1 < j PROVE queue[j].key # k
        OBVIOUS
      <4>2. j - 1 \in DOMAIN queue' /\ queue[(j - 1) + 1] = queue'[j - 1] /\ (j - 1) + 1 = j
        BY <1>1, <4>1
      <4> QED
        BY <2>2, <4>2
    <3>2. 1 \in DOMAIN queue /\ \A j \in DOMAIN queue : j = 1 \/ 1 < j
      BY <1>1
    <3>3. CASE w.key = k
      BY <1>1, <1>3, <1>4, <3>1, <3>2, <3>3 DEF Settled
    <3>4. CASE w.key # k
      BY <1>1, <1>3, <1>4, <3>1, <3>2, <3>4 DEF Settled
    <3> QED
      BY <3>3, <3>4
  <2> QED
    BY <2>1, <2>2 DEF Settled
<1>5. \A k : Unwritten(k) => Unwritten(k)' /\ w.key # k
  BY <1>2
<1>6. Prefs!WriteApplies =>
              /\ TableOK' /\ w.key \in {"tags", "value"}
              /\ \A k \in {"tags", "value"} :
                   /\ k # w.key => db'[k] = db[k]
                   /\ \A v : Settled(k, v) => Settled(k, v)'
  BY <1>3, <1>4
<1> QED
  BY <1>1, <1>5, <1>6 DEF w

\* What an edit of the tags does, before the boot's answer and after it.
LEMMA TagsEdited ==
  ASSUME PrefsInv, NEW t \in Tags, UNCHANGED <<db, value, seeds, lost, blockedSeedApplied>>,
         Prefs!Asked, "seed late" \notin Faults,
         queue' = Append(queue, [key |-> "tags", to |-> tags']),
         \/ /\ tags' = tags \cup {t} /\ want' = want \cup {t}
            /\ ~blockedSeedApplied => /\ pendingAdds' = pendingAdds \cup {t}
                                      /\ pendingRemovals' = pendingRemovals \ {t}
         \/ /\ tags' = tags \ {t} /\ want' = want \ {t}
            /\ ~blockedSeedApplied => /\ pendingRemovals' = pendingRemovals \cup {t}
                                      /\ pendingAdds' = pendingAdds \ {t}
  PROVE  PrefsInv'
<1>1. PICK to \in SUBSET Tags : to = tags'
  BY DEF PrefsInv, PrefsTypes
<1>2. /\ queue' \in Seq(Writes) /\ Settled("tags", to)'
      /\ Unwritten("value") => Unwritten("value")'
      /\ \A v : Settled("value", v) => Settled("value", v)'
  <2>1. queue' = Append(queue, [key |-> "tags", to |-> to]) /\ db' = db
    BY <1>1
  <2>2. queue \in Seq(Writes)
    BY DEF PrefsInv, PrefsTypes
  <2> QED
    BY <2>1, <2>2, TagsJoin
<1>3. PrefsTypes'
  <2>1. tags' \subseteq Tags /\ want' \subseteq Tags
    BY DEF PrefsInv, PrefsTypes
  <2> QED
    BY <1>2, <2>1 DEF PrefsInv, PrefsTypes, TableOK
<1>4. TagsPending'
  <2>1. SUFFICES ASSUME "tags" \in DOMAIN seeds PROVE TagsPending'
    BY DEF TagsPending
  <2>2. seeds.tags # None
    BY <2>1 DEF Prefs!Asked, Prefs!Awaited
  <2>3. /\ ~blockedSeedApplied /\ tags = pendingAdds /\ pendingAdds \cap pendingRemovals = {}
        /\ want = (seeds.tags \cup pendingAdds) \ pendingRemovals
    BY <2>1, <2>2 DEF PrefsInv, TagsPending
  <2>4. /\ tags' = pendingAdds' /\ pendingAdds' \cap pendingRemovals' = {}
        /\ want' = (seeds.tags \cup pendingAdds') \ pendingRemovals'
        /\ pendingAdds' \cup pendingRemovals' # {}
    BY <2>3
  <2> QED
    BY <2>2, <2>3, <2>4 DEF TagsPending
<1>5. ValuePending'
  BY <1>2 DEF PrefsInv, ValuePending
<1>6. blockedSeedApplied => tags' = want'
  BY DEF PrefsInv
<1>7. "value" \notin DOMAIN seeds /\ ~lost => Settled("value", value)'
  BY <1>2 DEF PrefsInv
<1>8. blockedSeedApplied /\ ~lost => Settled("tags", tags)'
  BY <1>1, <1>2 DEF Settled
<1> QED
  BY <1>3, <1>4, <1>5, <1>6, <1>7, <1>8 DEF PrefsInv

\* The boot's tags arrive, merged with the edits of the meantime.
LEMMA TagsMerged ==
  ASSUME PrefsInv, Prefs!TagsArrive
  PROVE  PrefsInv'
<1> DEFINE edited == pendingAdds \cup pendingRemovals # {}
<1>1. /\ "tags" \in DOMAIN seeds /\ seeds.tags # None
      /\ seeds' = [k \in DOMAIN seeds \ {"tags"} |-> seeds[k]]
      /\ tags' = (IF edited THEN Prefs!Merged(seeds.tags) ELSE seeds.tags)
      /\ queue' = (IF edited THEN Append(queue, [key |-> "tags", to |-> tags']) ELSE queue)
      /\ blockedSeedApplied' = TRUE /\ UNCHANGED <<db, value, want, lost>>
  BY DEF Prefs!TagsArrive, Prefs!Awaited, Prefs!Received
<1>2. /\ ~blockedSeedApplied /\ tags = pendingAdds /\ pendingAdds \cap pendingRemovals = {}
      /\ want = (seeds.tags \cup pendingAdds) \ pendingRemovals
      /\ pendingAdds \cup pendingRemovals = {} => want = db.tags /\ Unwritten("tags")
  BY <1>1 DEF PrefsInv, TagsPending
<1>3. tags' = want'
  BY <1>1, <1>2 DEF Prefs!Merged
<1>4. /\ "tags" \notin DOMAIN seeds' /\ DOMAIN seeds' = DOMAIN seeds \ {"tags"}
      /\ "value" \in DOMAIN seeds => seeds'.value = seeds.value
      /\ seeds' = [k \in DOMAIN seeds' |-> seeds'[k]]
  BY <1>1
<1>5. CASE edited
  <2>1. PICK to : to = want
    OBVIOUS
  <2>2. to \in SUBSET Tags
    BY <2>1 DEF PrefsInv, PrefsTypes
  <2>3. /\ queue' \in Seq(Writes) /\ Settled("tags", to)'
        /\ Unwritten("value") => Unwritten("value")'
        /\ \A v : Settled("value", v) => Settled("value", v)'
    BY <1>1, <1>3, <1>5, <2>1, <2>2, TagsJoin DEF PrefsInv, PrefsTypes
  <2>4. Settled("tags", tags)'
    BY <1>1, <1>3, <2>1, <2>3 DEF Settled
  <2>5. PrefsTypes'
    BY <1>1, <1>3, <1>4, <2>3 DEF PrefsInv, PrefsTypes, TableOK
  <2>6. TagsPending' /\ ValuePending'
    BY <1>1, <1>4, <2>3 DEF PrefsInv, TagsPending, ValuePending
  <2>7. "value" \notin DOMAIN seeds' /\ ~lost' => Settled("value", value)'
    BY <1>1, <1>4, <2>3 DEF PrefsInv
  <2> QED
    BY <1>1, <1>3, <2>4, <2>5, <2>6, <2>7 DEF PrefsInv
<1>6. CASE ~edited
  <2>1. Settled("tags", tags)' /\ queue' = queue
    BY <1>1, <1>2, <1>3, <1>6 DEF Settled, Unwritten
  <2> QED
    BY <1>1, <1>3, <1>4, <2>1
    DEF PrefsInv, PrefsTypes, TableOK, TagsPending, ValuePending, Settled, Unwritten
<1> QED
  BY <1>5, <1>6

LEMMA PrefsNext ==
  ASSUME {"seed late", "hasty user"} \cap Faults = {}
  PROVE  PrefsInv /\ [Prefs!Next]_<<prefs, taps>> => PrefsInv'
<1> SUFFICES ASSUME PrefsInv, [Prefs!Next]_<<prefs, taps>> PROVE PrefsInv'
  OBVIOUS
<1> USE DEF Prefs!pending
<1>1. CASE Prefs!SeedRead
  <2>1. /\ "tags" \in DOMAIN seeds /\ seeds.tags = None /\ seeds' = [seeds EXCEPT !.tags = db.tags]
        /\ UNCHANGED <<db, tags, value, blockedSeedApplied, pendingAdds, pendingRemovals, queue, want, lost>>
    BY <1>1 DEF Prefs!SeedRead, Prefs!Awaited
  <2>2. /\ DOMAIN seeds' = DOMAIN seeds /\ seeds'.tags = db.tags
        /\ "value" \in DOMAIN seeds => seeds'.value = seeds.value
        /\ seeds' = [k \in DOMAIN seeds' |-> seeds'[k]]
    BY <2>1
  <2>3. pendingAdds \cup pendingRemovals = {} /\ want = db.tags
    BY <2>1 DEF PrefsInv, TagsPending
  <2> QED
    BY <2>1, <2>2, <2>3
    DEF PrefsInv, PrefsTypes, TableOK, TagsPending, ValuePending, Settled, Unwritten
<1>2. CASE Prefs!TagsArrive
  BY <1>2, TagsMerged
<1>3. CASE Prefs!ValueArrives
  <2>1. /\ "value" \in DOMAIN seeds /\ seeds' = [k \in DOMAIN seeds \ {"value"} |-> seeds[k]]
        /\ value' = seeds.value
        /\ UNCHANGED <<db, tags, blockedSeedApplied, pendingAdds, pendingRemovals, queue, want, lost>>
    BY <1>3 DEF Prefs!ValueArrives, Prefs!Awaited, Prefs!Received
  <2>2. /\ DOMAIN seeds' = DOMAIN seeds \ {"value"}
        /\ "tags" \in DOMAIN seeds => seeds'.tags = seeds.tags
        /\ seeds' = [k \in DOMAIN seeds' |-> seeds'[k]]
    BY <2>1
  <2>3. Settled("value", value)'
    BY <2>1 DEF PrefsInv, ValuePending, Settled, Unwritten
  <2> QED
    BY <2>1, <2>2, <2>3
    DEF PrefsInv, PrefsTypes, TableOK, TagsPending, ValuePending, Settled, Unwritten
<1>4. CASE Prefs!SeedFails
  <2>1. PICK key \in DOMAIN seeds : seeds' = [k \in DOMAIN seeds \ {key} |-> seeds[k]]
    BY <1>4 DEF Prefs!SeedFails, Prefs!Received
  <2>2. /\ lost' = TRUE
        /\ UNCHANGED <<db, tags, value, blockedSeedApplied, pendingAdds, pendingRemovals, queue, want>>
    BY <1>4 DEF Prefs!SeedFails
  <2>3. /\ DOMAIN seeds' \subseteq DOMAIN seeds
        /\ \A k \in DOMAIN seeds' : seeds'[k] = seeds[k]
        /\ seeds' = [k \in DOMAIN seeds' |-> seeds'[k]]
    BY <2>1
  <2> QED
    BY <2>2, <2>3
    DEF PrefsInv, PrefsTypes, TableOK, TagsPending, ValuePending, Unwritten
<1>5. CASE Prefs!User
  <2>1. ASSUME NEW t \in Tags, Prefs!Asked, Prefs!AddTag(t) PROVE PrefsInv'
    <3>1. "seed late" \notin Faults
      OBVIOUS
    <3> QED
      BY <2>1, <3>1, TagsEdited DEF Prefs!AddTag, Prefs!Persist
  <2>2. ASSUME NEW t \in Tags, Prefs!Asked, Prefs!RemoveTag(t) PROVE PrefsInv'
    <3>1. "seed late" \notin Faults
      OBVIOUS
    <3> QED
      BY <2>2, <3>1, TagsEdited DEF Prefs!RemoveTag, Prefs!Persist
  <2>3. ASSUME NEW v \in Values, Prefs!SetValue(v) PROVE PrefsInv'
    <3>1. /\ "value" \notin DOMAIN seeds /\ value' = v
          /\ queue' = Append(queue, [key |-> "value", to |-> v])
          /\ UNCHANGED <<db, tags, seeds, blockedSeedApplied, pendingAdds, pendingRemovals, want, lost>>
      BY <2>3 DEF Prefs!SetValue, Prefs!Awaited, Prefs!Persist
    <3>2. [key |-> "value", to |-> v] \in Writes
      BY DEF Writes
    <3>3. /\ queue' \in Seq(Writes) /\ Settled("value", v)'
          /\ Unwritten("tags") => Unwritten("tags")'
          /\ \A u : Settled("tags", u) => Settled("tags", u)'
      BY <3>1, <3>2, WriteJoins DEF PrefsInv, PrefsTypes
    <3> QED
      BY <3>1, <3>3 DEF PrefsInv, PrefsTypes, TableOK, TagsPending, ValuePending
  <2> QED
    BY <1>5, <2>1, <2>2, <2>3 DEF Prefs!User
<1>6. CASE Prefs!WriteEnds
  <2>1. /\ queue # <<>> /\ queue' = Tail(queue)
        /\ UNCHANGED <<tags, value, seeds, blockedSeedApplied, pendingAdds, pendingRemovals, want>>
        /\ \/ Prefs!WriteApplies /\ lost' = lost
           \/ (db' = db \/ Prefs!WriteApplies) /\ lost' = TRUE
    BY <1>6 DEF Prefs!WriteEnds
  <2>2. queue' \in Seq(Writes) /\ \A k : Unwritten(k) => Unwritten(k)' /\ Head(queue).key # k
    BY <2>1, WriteLeaves DEF PrefsInv
  <2>3. CASE Prefs!WriteApplies
    <3>1. /\ TableOK' /\ Head(queue).key \in {"tags", "value"}
          /\ \A k \in {"tags", "value"} :
               /\ k # Head(queue).key => db'[k] = db[k]
               /\ \A v : Settled(k, v) => Settled(k, v)'
      BY <2>1, <2>3, WriteLeaves DEF PrefsInv
    <3>2. lost' \in BOOLEAN /\ (~lost' => ~lost)
      <4>1. lost' = lost \/ lost' = TRUE
        BY <2>1
      <4> QED
        BY <4>1 DEF PrefsInv, PrefsTypes
    <3>3. TagsPending' /\ ValuePending'
      BY <2>1, <2>2, <3>1 DEF PrefsInv, TagsPending, ValuePending
    <3> QED
      BY <2>1, <2>2, <3>1, <3>2, <3>3 DEF PrefsInv, PrefsTypes
  <2>4. CASE db' = db /\ lost' = TRUE
    BY <2>1, <2>2, <2>4 DEF PrefsInv, PrefsTypes, TableOK, TagsPending, ValuePending
  <2> QED
    BY <2>1, <2>3, <2>4
<1>7. CASE UNCHANGED <<prefs, taps>>
  BY <1>7 DEF prefs, PrefsInv, PrefsTypes, TableOK, TagsPending, ValuePending, Settled, Unwritten
<1> QED
  BY <1>1, <1>2, <1>3, <1>4, <1>5, <1>6, <1>7 DEF Prefs!Next

-----------------------------------------------------------------------------
(* The spinners of the feed, the search page, the artist page and the      *)
(* related view: the parts share the variables loading and loads.          *)

Numbered(s) ==
  /\ \E S : s \in Seq(S)
  /\ \A i \in DOMAIN s : "live" \in DOMAIN s[i] /\ s[i].live \in BOOLEAN
AllStale(s) == \A i \in DOMAIN s : s[i].live = FALSE
\* One request at most is the current one, and while it is in flight the spinner turns.
SpinnerInv ==
  /\ Numbered(loads) /\ loading \in BOOLEAN
  /\ \A i, j \in DOMAIN loads : loads[i].live /\ loads[j].live => i = j
  /\ loading <=> \E i \in DOMAIN loads : loads[i].live

LEMMA SpinnerShown ==
  SpinnerInv => loading = (\E i \in DOMAIN loads : loads[i].live)
<1> SUFFICES ASSUME SpinnerInv PROVE loading = (\E i \in DOMAIN loads : loads[i].live)
  OBVIOUS
<1> DEFINE turns == \E i \in DOMAIN loads : loads[i].live
<1>1. loading \in BOOLEAN /\ (loading <=> turns)
  BY DEF SpinnerInv
<1>2. turns \in BOOLEAN
  OBVIOUS
<1> HIDE DEF turns
<1>3. loading = turns
  BY <1>1, <1>2
<1> QED
  BY <1>3 DEF turns

LEMMA NoRequests ==
  loads = <<>> /\ loading = FALSE => SpinnerInv
<1> SUFFICES ASSUME loads = <<>>, loading = FALSE PROVE SpinnerInv
  OBVIOUS
<1>1. loads \in Seq({}) /\ DOMAIN loads = {}
  OBVIOUS
<1> QED
  BY <1>1 DEF SpinnerInv, Numbered

LEMMA OneRequest ==
  ASSUME NEW e, "live" \in DOMAIN e, e.live = TRUE
  PROVE  loads = <<e>> /\ loading = TRUE => SpinnerInv
<1> SUFFICES ASSUME loads = <<e>>, loading = TRUE PROVE SpinnerInv
  OBVIOUS
<1>1. loads \in Seq({e}) /\ DOMAIN loads = {1} /\ loads[1] = e
  OBVIOUS
<1> QED
  BY <1>1 DEF SpinnerInv, Numbered

\* A request joins others that are all superseded.
LEMMA RequestJoins ==
  ASSUME NEW s, Numbered(s), AllStale(s), NEW e, "live" \in DOMAIN e, e.live = TRUE
  PROVE  loads' = Append(s, e) /\ loading' = TRUE => SpinnerInv'
<1> SUFFICES ASSUME loads' = Append(s, e), loading' = TRUE PROVE SpinnerInv'
  OBVIOUS
<1>1. PICK S : s \in Seq(S)
  BY DEF Numbered
<1>2. s \in Seq(S \cup {e})
  BY <1>1, SeqMonotonic
<1>3. PICK n \in Nat : n = Len(s)
  BY <1>1
<1>4. /\ loads' \in Seq(S \cup {e}) /\ DOMAIN loads' = 1 .. (n + 1) /\ loads'[n + 1] = e
      /\ DOMAIN s = 1 .. n /\ \A i \in 1 .. n : loads'[i] = s[i]
  BY <1>2, <1>3, AppendProperties
<1>5. \A i \in DOMAIN loads' : i \in DOMAIN s \/ i = n + 1
  BY <1>4
<1>6. Numbered(loads)'
  BY <1>4, <1>5 DEF Numbered
<1>7. \A i \in DOMAIN loads' : loads'[i].live => i = n + 1
  BY <1>4, <1>5 DEF AllStale
<1>8. n + 1 \in DOMAIN loads' /\ loads'[n + 1].live
  BY <1>4
<1> QED
  BY <1>6, <1>7, <1>8 DEF SpinnerInv

\* Numbering the next request supersedes all that are in flight.
LEMMA RequestSupersedes ==
  ASSUME SpinnerInv, NEW e, "live" \in DOMAIN e, e.live = TRUE
  PROVE  /\ loads' = Append([i \in DOMAIN loads |-> [loads[i] EXCEPT !.live = FALSE]], e)
         /\ loading' = TRUE
         => SpinnerInv'
<1> DEFINE s == [i \in DOMAIN loads |-> [loads[i] EXCEPT !.live = FALSE]]
<1>1. PICK S : loads \in Seq(S)
  BY DEF SpinnerInv, Numbered
<1>2. PICK n \in Nat : DOMAIN loads = 1 .. n
  BY <1>1
<1>3. s \in Seq({s[i] : i \in DOMAIN loads})
  <2>1. s = [i \in 1 .. n |-> s[i]]
    BY <1>2
  <2>2. \A i \in 1 .. n : s[i] \in {s[j] : j \in DOMAIN loads}
    BY <1>2
  <2> HIDE DEF s
  <2> QED
    BY <1>2, <2>1, <2>2, IsASeq
<1>4. ASSUME NEW i \in DOMAIN loads PROVE "live" \in DOMAIN s[i] /\ s[i].live = FALSE
  <2>1. "live" \in DOMAIN loads[i]
    BY DEF SpinnerInv, Numbered
  <2> QED
    BY <2>1
<1>5. DOMAIN s = DOMAIN loads
  OBVIOUS
<1> HIDE DEF s
<1>6. Numbered(s) /\ AllStale(s)
  BY <1>3, <1>4, <1>5 DEF Numbered, AllStale
<1>7. loads' = Append(s, e) /\ loading' = TRUE => SpinnerInv'
  BY <1>6, RequestJoins
<1> QED
  BY <1>7 DEF s

\* A request ends: the spinner stops with the current one.
LEMMA RequestEnds ==
  ASSUME SpinnerInv, NEW i \in DOMAIN loads
  PROVE  /\ loads' = LeftOf(loads, i)
         /\ loading' = (IF loads[i].live THEN FALSE ELSE loading)
         => /\ SpinnerInv'
            /\ \A j \in DOMAIN loads' : \E k \in DOMAIN loads : loads'[j] = loads[k]
<1> SUFFICES ASSUME loads' = LeftOf(loads, i), loading' = (IF loads[i].live THEN FALSE ELSE loading)
             PROVE  /\ SpinnerInv'
                    /\ \A j \in DOMAIN loads' : \E k \in DOMAIN loads : loads'[j] = loads[k]
  OBVIOUS
<1>1. PICK S : loads \in Seq(S)
  BY DEF SpinnerInv, Numbered
<1>2. /\ loads' \in Seq(S)
      /\ \A j \in DOMAIN loads' : From(i, j) \in DOMAIN loads \ {i} /\ loads'[j] = loads[From(i, j)]
      /\ \A j, k \in DOMAIN loads' : From(i, j) = From(i, k) => j = k
      /\ \A k \in DOMAIN loads \ {i} : \E j \in DOMAIN loads' : From(i, j) = k
  BY <1>1, OneLeaves
<1>3. Numbered(loads)'
  BY <1>2 DEF SpinnerInv, Numbered
<1>4. \A j, k \in DOMAIN loads' : loads'[j].live /\ loads'[k].live => j = k
  BY <1>2 DEF SpinnerInv
<1>5. loading' \in BOOLEAN
  BY DEF SpinnerInv
<1>6. loading' <=> \E j \in DOMAIN loads' : loads'[j].live
  <2>1. CASE loads[i].live
    <3>1. \A k \in DOMAIN loads \ {i} : ~loads[k].live
      BY <2>1 DEF SpinnerInv
    <3> QED
      BY <1>2, <2>1, <3>1
  <2>2. CASE ~loads[i].live
    <3>1. loading <=> \E k \in DOMAIN loads \ {i} : loads[k].live
      BY <2>2 DEF SpinnerInv
    <3> QED
      BY <1>2, <2>2, <3>1
  <2> QED
    BY <2>1, <2>2
<1> QED
  BY <1>2, <1>3, <1>4, <1>5, <1>6 DEF SpinnerInv

LEMMA SpinnerSame == SpinnerInv /\ UNCHANGED <<loading, loads>> => SpinnerInv'
  BY DEF SpinnerInv, Numbered

-----------------------------------------------------------------------------
(* The feed.                                                               *)

LEMMA FeedRequests ==
  ASSUME SpinnerInv, NEW cursor, Feed!Request(cursor) PROVE SpinnerInv'
<1> DEFINE e == [live |-> TRUE, feed |-> Feed!Feed', page |-> Feed!PageAt(cursor)]
<1>1. "live" \in DOMAIN e /\ e.live = TRUE
  OBVIOUS
<1>2. /\ loads' = Append([i \in DOMAIN loads |-> [loads[i] EXCEPT !.live = FALSE]], e)
      /\ loading' = TRUE
  BY DEF Feed!Request, Feed!Superseded
<1> HIDE DEF e
<1> QED
  BY <1>1, <1>2, RequestSupersedes

LEMMA FeedNext == SpinnerInv /\ [Feed!Next]_<<feed, loader, listed, taps>> => SpinnerInv'
<1> SUFFICES ASSUME SpinnerInv, [Feed!Next]_<<feed, loader, listed, taps>> PROVE SpinnerInv'
  OBVIOUS
<1>1. CASE Feed!Unlock
  <2>1. Feed!Request(None) \/ UNCHANGED <<loading, loads>>
    BY <1>1 DEF Feed!Unlock, Feed!page
  <2> QED
    BY <2>1, FeedRequests, SpinnerSame
<1>2. ASSUME Feed!Reload PROVE SpinnerInv'
  BY <1>2, FeedRequests DEF Feed!Reload, Feed!LoadingAfterReset
<1>3. ASSUME Feed!LoadMore PROVE SpinnerInv'
  BY <1>3, FeedRequests DEF Feed!LoadMore
<1>4. CASE Feed!User
  <2>1. \/ Feed!Reload \/ Feed!LoadMore \/ UNCHANGED <<loading, loads>>
    BY <1>4 DEF Feed!User, Feed!ChangeFeedType, Feed!ChangePill, Feed!Retry, Feed!Relock,
                Feed!BlockedTags, Feed!Unlike, Feed!page
  <2> QED
    BY <1>2, <1>3, <2>1, SpinnerSame
<1>5. CASE Feed!SentinelFires
  BY <1>3, <1>5 DEF Feed!SentinelFires
<1>6. CASE Feed!LoadEnds
  <2>1. PICK i \in DOMAIN loads : /\ loads' = LeftOf(loads, i)
                                  /\ loads[i].live => loading' = FALSE
                                  /\ ~loads[i].live => loading' = loading
    BY <1>6 DEF Feed!LoadEnds, Feed!PageArrives, Feed!LoadFails, Feed!Without, Feed!RemoveAt, LeftOf
  <2> QED
    BY <2>1, RequestEnds
<1>7. CASE UNCHANGED <<feed, loader, listed, taps>>
  BY <1>7, SpinnerSame DEF loader
<1> QED
  BY <1>1, <1>4, <1>5, <1>6, <1>7 DEF Feed!Next

-----------------------------------------------------------------------------
(* The search page.                                                        *)

LEMMA SearchNext ==
  SpinnerInv /\ [Search!Next]_<<search, loader, errors, taps>> => SpinnerInv'
<1> SUFFICES ASSUME SpinnerInv, [Search!Next]_<<search, loader, errors, taps>> PROVE SpinnerInv'
  OBVIOUS
<1>1. ASSUME NEW fresh, Search!RunSearch(fresh) PROVE SpinnerInv'
  <2> DEFINE e == [live |-> TRUE, fresh |-> fresh, mode |-> mode', search |-> Search!Search',
                   page |-> IF fresh THEN 1 ELSE counter' + 1]
  <2>1. "live" \in DOMAIN e /\ e.live = TRUE
    OBVIOUS
  <2>2. /\ loads' = Append([i \in DOMAIN loads |-> [loads[i] EXCEPT !.live = FALSE]], e)
        /\ loading' = TRUE
    BY <1>1 DEF Search!RunSearch, Search!Superseded
  <2> HIDE DEF e
  <2> QED
    BY <2>1, <2>2, RequestSupersedes
<1>2. CASE Search!Reopen
  <2> DEFINE e == [live |-> TRUE, fresh |-> TRUE, mode |-> mode', search |-> Search!Search', page |-> 1]
  <2>1. "live" \in DOMAIN e /\ e.live = TRUE
    OBVIOUS
  <2>2. \/ loads' = <<e>> /\ loading' = TRUE
        \/ loads' = <<>> /\ loading' = FALSE
    BY <1>2 DEF Search!Reopen
  <2> HIDE DEF e
  <2>3. CASE loads' = <<e>> /\ loading' = TRUE
    <3>1. Numbered(<<>>) /\ AllStale(<<>>)
      <4>1. <<>> \in Seq({}) /\ DOMAIN <<>> = {}
        OBVIOUS
      <4> QED
        BY <4>1 DEF Numbered, AllStale
    <3>2. loads' = Append(<<>>, e)
      BY <2>3
    <3> QED
      BY <2>1, <2>3, <3>1, <3>2, RequestJoins
  <2>4. CASE loads' = <<>> /\ loading' = FALSE
    <3>1. loads' \in Seq({}) /\ DOMAIN loads' = {}
      BY <2>4
    <3> QED
      BY <2>4, <3>1 DEF SpinnerInv, Numbered
  <2> QED
    BY <2>2, <2>3, <2>4
<1>3. CASE Search!User
  <2>1. \/ \E fresh : Search!RunSearch(fresh)
        \/ Search!Reopen
        \/ UNCHANGED <<loading, loads>>
    BY <1>3 DEF Search!User, Search!Submit, Search!SwitchMode, Search!ChangeFilter, Search!Again,
                Search!Idle, Search!flags, Search!Retry, Search!LoadMore
  <2> QED
    BY <1>1, <1>2, <2>1, SpinnerSame
<1>4. CASE Search!SentinelFires
  BY <1>1, <1>4 DEF Search!SentinelFires, Search!LoadMore
<1>5. CASE Search!Save
  BY <1>5, SpinnerSame DEF Search!Save, Search!flags
<1>6. CASE Search!LoadEnds
  <2>1. PICK i \in DOMAIN loads : /\ loads' = LeftOf(loads, i)
                                  /\ loads[i].live => loading' = FALSE
                                  /\ ~loads[i].live => loading' = loading
    BY <1>6 DEF Search!LoadEnds, Search!PageArrives, Search!LoadFails, Search!Without,
                Search!RemoveAt, Search!Finishes, Search!flags, LeftOf
  <2> QED
    BY <2>1, RequestEnds
<1>7. CASE UNCHANGED <<search, loader, errors, taps>>
  BY <1>7, SpinnerSame DEF loader
<1> QED
  BY <1>3, <1>4, <1>5, <1>6, <1>7 DEF Search!Next

-----------------------------------------------------------------------------
(* The artist page and the related view.                                   *)

\* A related view has no request but the current one.
AllLive == kind = "related" => \A i \in DOMAIN loads : loads[i].live
PagesInv == kind \in {"artist", "related"} /\ SpinnerInv /\ AllLive

LEMMA PagesShown == PagesInv => Pages!SpinnerHonest
<1> SUFFICES ASSUME PagesInv, kind = "related" PROVE Len(loads) <= 1
  BY SpinnerShown DEF PagesInv, Pages!SpinnerHonest
<1>1. PICK S : loads \in Seq(S)
  BY DEF PagesInv, SpinnerInv, Numbered
<1>2. \A i, j \in DOMAIN loads : i = j
  BY DEF PagesInv, SpinnerInv, AllLive
<1>3. Len(loads) \in Nat /\ DOMAIN loads = 1 .. Len(loads)
  BY <1>1
<1>4. Len(loads) > 1 => 1 \in DOMAIN loads /\ 2 \in DOMAIN loads
  BY <1>3
<1> QED
  BY <1>2, <1>3, <1>4

LEMMA PagesInit == Pages!Init => PagesInv
<1> SUFFICES ASSUME Pages!Init PROVE PagesInv
  OBVIOUS
<1> DEFINE e == [live |-> TRUE, at |-> Pages!First(owner)]
<1>1. "live" \in DOMAIN e /\ e.live = TRUE
  OBVIOUS
<1>2. loads = <<e>> /\ loading = TRUE
  BY DEF Pages!Init
<1> HIDE DEF e
<1>3. SpinnerInv
  BY <1>1, <1>2, OneRequest
<1>4. AllLive
  BY <1>1, <1>2 DEF AllLive
<1> QED
  BY <1>3, <1>4 DEF PagesInv, Pages!Init

LEMMA PagesNext ==
  PagesInv /\ [Pages!Next]_<<pages, loader, listed, errors, taps>> => PagesInv'
<1> SUFFICES ASSUME PagesInv, [Pages!Next]_<<pages, loader, listed, errors, taps>>
             PROVE  PagesInv'
  OBVIOUS
<1>0. SpinnerInv
  BY DEF PagesInv
<1>1. ASSUME NEW what, Pages!Request(what), kind' = kind, kind = "related" => ~loading
      PROVE  PagesInv'
  <2> DEFINE e == [live |-> TRUE, at |-> what]
  <2>1. "live" \in DOMAIN e /\ e.live = TRUE
    OBVIOUS
  <2>2. /\ kind = "artist" =>
             loads' = Append([i \in DOMAIN loads |-> [loads[i] EXCEPT !.live = FALSE]], e)
        /\ kind # "artist" => loads' = Append(loads, e)
        /\ loading' = TRUE
    BY <1>1 DEF Pages!Request, Pages!Superseded
  <2> HIDE DEF e
  <2>3. CASE kind = "artist"
    <3>1. SpinnerInv'
      BY <1>0, <2>1, <2>2, <2>3, RequestSupersedes
    <3> QED
      BY <1>1, <2>3, <3>1 DEF PagesInv, AllLive
  <2>4. CASE kind = "related"
    <3>1. DOMAIN loads = {}
      BY <1>1, <2>4 DEF PagesInv, SpinnerInv, AllLive
    <3>2. loads = <<>>
      BY <1>0, <3>1 DEF SpinnerInv, Numbered
    <3>3. Numbered(loads) /\ AllStale(loads)
      BY <1>0, <3>1 DEF SpinnerInv, AllStale
    <3>4. loads' = Append(loads, e) /\ loading' = TRUE
      BY <2>2, <2>4
    <3>5. SpinnerInv'
      BY <2>1, <3>3, <3>4, RequestJoins
    <3>6. loads' = <<e>>
      BY <3>2, <3>4
    <3>7. AllLive'
      BY <2>1, <3>6 DEF AllLive
    <3> QED
      BY <1>1, <2>4, <3>5, <3>7 DEF PagesInv
  <2> QED
    BY <2>3, <2>4 DEF PagesInv
<1>2. ASSUME Pages!LoadMore PROVE PagesInv'
  BY <1>1, <1>2 DEF Pages!LoadMore
<1>3. CASE Pages!User
  <2>1. ASSUME NEW o, Pages!Swap(o) PROVE PagesInv'
    BY <1>1, <2>1 DEF Pages!Swap
  <2>2. ASSUME Pages!LoadRelated PROVE PagesInv'
    BY <1>1, <2>2 DEF Pages!LoadRelated
  <2> QED
    BY <1>2, <1>3, <2>1, <2>2 DEF Pages!User
<1>4. CASE Pages!SentinelFires
  BY <1>2, <1>4 DEF Pages!SentinelFires
<1>5. CASE Pages!LoadEnds
  <2>1. PICK i \in DOMAIN loads : /\ loads' = LeftOf(loads, i) /\ kind' = kind
                                  /\ loads[i].live => loading' = FALSE
                                  /\ ~loads[i].live => loading' = loading
    BY <1>5 DEF Pages!LoadEnds, Pages!PageArrives, Pages!LoadFails, Pages!RemoveAt, Pages!flags, LeftOf
  <2>2. SpinnerInv' /\ \A j \in DOMAIN loads' : \E k \in DOMAIN loads : loads'[j] = loads[k]
    BY <1>0, <2>1, RequestEnds
  <2> QED
    BY <2>1, <2>2 DEF PagesInv, AllLive
<1>6. CASE UNCHANGED <<pages, loader, listed, errors, taps>>
  BY <1>6, SpinnerSame DEF loader, pages, PagesInv, AllLive
<1> QED
  BY <1>3, <1>4, <1>5, <1>6 DEF Pages!Next

-----------------------------------------------------------------------------
(* The mover of bookmarks.                                                 *)

\* The work at hand is in neither pile between the two calls; the others wait.
AtHand == IF step = "like" THEN {1} ELSE {}
InHand == {targets[i] : i \in AtHand}
Untouched == {targets[i] : i \in DOMAIN targets \ AtHand}
RunOK ==
  /\ step \in {"boundary", "unlike", "like", "pace"}
  /\ report = None /\ failures = {}
  /\ targets \in Seq(Works) /\ targets # <<>>
  /\ \A i, j \in DOMAIN targets : targets[i] = targets[j] => i = j
  /\ before.public \cup before.private \subseteq public \cup private \cup gone \cup InHand
  /\ before.public \cap Untouched \subseteq public \cup gone
  /\ InHand \cap (public \cup private) = {}
MoverInv ==
  /\ selectedIds \subseteq Works
  /\ step # "off" => RunOK
  /\ Mover!LossIsTold

LEMMA MoverInit == Mover!Init => MoverInv
  BY DEF Mover!Init, MoverInv, Mover!LossIsTold

\* What a report tells.
Told(adds, deletes, cancels) ==
  {[id |-> w, kind |-> "add"] : w \in adds} \cup {[id |-> w, kind |-> "delete"] : w \in deletes}
    \cup {[id |-> w, kind |-> "cancelled"] : w \in cancels}

LEMMA ReportTells ==
  ASSUME NEW adds, NEW deletes, NEW cancels, report'.failures = Told(adds, deletes, cancels),
         (before.public \cup before.private) \ (public' \cup private' \cup gone') \subseteq adds,
         (deletes \cup cancels) \cap before.public \subseteq public' \cup gone',
         adds \cap (public' \cup private') = {}, before' = before
  PROVE  Mover!LossIsTold'
<1> DEFINE Named(kind_) == {f.id : f \in {g \in report'.failures : g.kind = kind_}}
<1>1. Named("add") = adds
  <2>1. \A w \in adds : [id |-> w, kind |-> "add"] \in report'.failures
    BY DEF Told
  <2>2. \A f \in report'.failures : f.kind = "add" => f.id \in adds
    BY DEF Told
  <2>3. \A w \in adds : \E f \in {g \in report'.failures : g.kind = "add"} : f.id = w
    <3>1. SUFFICES ASSUME NEW w \in adds
                   PROVE  \E f \in {g \in report'.failures : g.kind = "add"} : f.id = w
      OBVIOUS
    <3>2. [id |-> w, kind |-> "add"] \in {g \in report'.failures : g.kind = "add"}
      BY <2>1
    <3> QED
      BY <3>2
  <2>4. \A f \in {g \in report'.failures : g.kind = "add"} : f.id \in adds
    BY <2>2
  <2> QED
    BY <2>3, <2>4
<1>2. Named("delete") = deletes
  <2>1. \A w \in deletes : [id |-> w, kind |-> "delete"] \in report'.failures
    BY DEF Told
  <2>2. \A f \in report'.failures : f.kind = "delete" => f.id \in deletes
    BY DEF Told
  <2>3. \A w \in deletes : \E f \in {g \in report'.failures : g.kind = "delete"} : f.id = w
    <3>1. SUFFICES ASSUME NEW w \in deletes
                   PROVE  \E f \in {g \in report'.failures : g.kind = "delete"} : f.id = w
      OBVIOUS
    <3>2. [id |-> w, kind |-> "delete"] \in {g \in report'.failures : g.kind = "delete"}
      BY <2>1
    <3> QED
      BY <3>2
  <2>4. \A f \in {g \in report'.failures : g.kind = "delete"} : f.id \in deletes
    BY <2>2
  <2> QED
    BY <2>3, <2>4
<1>3. Named("cancelled") = cancels
  <2>1. \A w \in cancels : [id |-> w, kind |-> "cancelled"] \in report'.failures
    BY DEF Told
  <2>2. \A f \in report'.failures : f.kind = "cancelled" => f.id \in cancels
    BY DEF Told
  <2>3. \A w \in cancels : \E f \in {g \in report'.failures : g.kind = "cancelled"} : f.id = w
    <3>1. SUFFICES ASSUME NEW w \in cancels
                   PROVE  \E f \in {g \in report'.failures : g.kind = "cancelled"} : f.id = w
      OBVIOUS
    <3>2. [id |-> w, kind |-> "cancelled"] \in {g \in report'.failures : g.kind = "cancelled"}
      BY <2>1
    <3> QED
      BY <3>2
  <2>4. \A f \in {g \in report'.failures : g.kind = "cancelled"} : f.id \in cancels
    BY <2>2
  <2> QED
    BY <2>3, <2>4
<1>4. /\ (before'.public \cup before'.private) \ (public' \cup private' \cup gone') \subseteq Named("add")
      /\ (Named("delete") \cup Named("cancelled")) \cap before'.public \subseteq public' \cup gone'
      /\ Named("add") \cap (public' \cup private') = {}
  BY <1>1, <1>2, <1>3
<1> QED
  BY <1>4 DEF Mover!LossIsTold

\* The sequences of the works picked.
LEMMA PickedInOrder ==
  ASSUME IsFiniteSet(Works), NEW S \in SUBSET Works, S # {}, NEW t \in Mover!SetToSeqs(S)
  PROVE  t \in Seq(Works) /\ t # <<>> /\ \A i, j \in DOMAIN t : t[i] = t[j] => i = j
<1>1. Mover!Cardinality(S) = Cardinality(S)
  BY Zenon DEF Mover!Cardinality, Cardinality
<1>2. PICK n \in Nat : n = Cardinality(S) /\ n # 0
  <2>1. IsFiniteSet(S)
    BY FS_Subset
  <2>2. Cardinality(S) \in Nat /\ Cardinality(S) # 0
    BY <2>1, FS_CardinalityType, FS_EmptySet
  <2> QED
    BY <2>2
<1>3. t \in [1 .. n -> S] /\ \A i, j \in 1 .. n : i # j => t[i] # t[j]
  BY <1>1, <1>2 DEF Mover!SetToSeqs
<1>4. t \in Seq(Works) /\ DOMAIN t = 1 .. n /\ 1 \in 1 .. n
  BY <1>2, <1>3
<1>5. t # <<>>
  BY <1>2, <1>4
<1> QED
  BY <1>3, <1>4, <1>5

\* The work at hand and the others.
LEMMA TargetsSplit ==
  ASSUME RunOK
  PROVE  /\ Head(targets) = targets[1] /\ Len(targets) \in Nat /\ Len(targets) > 0
         /\ DOMAIN targets = 1 .. Len(targets)
         /\ Mover!Range(targets) = {targets[i] : i \in DOMAIN targets}
         /\ Mover!Range(Tail(targets)) = {targets[i] : i \in DOMAIN targets \ {1}}
         /\ Head(targets) \notin Mover!Range(Tail(targets))
<1>1. /\ Head(targets) = targets[1] /\ Len(targets) \in Nat /\ Len(targets) > 0
      /\ DOMAIN targets = 1 .. Len(targets)
  BY DEF RunOK
<1>2. PICK n \in Nat : n = Len(targets) /\ n > 0
  BY <1>1
<1>3. /\ DOMAIN Tail(targets) = 1 .. (n - 1)
      /\ \A i \in 1 .. (n - 1) : Tail(targets)[i] = targets[i + 1]
  BY <1>2, HeadTailProperties DEF RunOK
<1>4. \A i \in 1 .. (n - 1) : i + 1 \in (1 .. n) \ {1}
  BY <1>2
<1>5. \A i \in (1 .. n) \ {1} : i - 1 \in 1 .. (n - 1) /\ (i - 1) + 1 = i
  BY <1>2
<1>6. {Tail(targets)[i] : i \in DOMAIN Tail(targets)} = {targets[i] : i \in DOMAIN targets \ {1}}
  <2>1. ASSUME NEW i \in DOMAIN Tail(targets)
        PROVE  Tail(targets)[i] \in {targets[j] : j \in DOMAIN targets \ {1}}
    BY <1>1, <1>2, <1>3, <1>4
  <2>2. ASSUME NEW i \in DOMAIN targets \ {1}
        PROVE  targets[i] \in {Tail(targets)[j] : j \in DOMAIN Tail(targets)}
    <3>1. i - 1 \in DOMAIN Tail(targets) /\ Tail(targets)[i - 1] = targets[i]
      BY <1>1, <1>2, <1>3, <1>5
    <3> QED
      BY <3>1
  <2> QED
    BY <2>1, <2>2
<1>7. Head(targets) \notin {targets[i] : i \in DOMAIN targets \ {1}}
  <2>1. 1 \in DOMAIN targets
    BY <1>1
  <2> QED
    BY <1>1, <2>1 DEF RunOK
<1> QED
  BY <1>1, <1>6, <1>7 DEF Mover!Range

\* What a run still holds, by its step.
LEMMA HandSplit ==
  ASSUME RunOK
  PROVE  /\ step = "like" => /\ InHand = {Head(targets)}
                             /\ Untouched = Mover!Range(Tail(targets))
         /\ step # "like" => InHand = {} /\ Untouched = Mover!Range(targets)
  BY TargetsSplit DEF InHand, Untouched, AtHand

\* A run goes on with the same works.
LEMMA RunGoesOn ==
  ASSUME RunOK, UNCHANGED <<targets, report, failures, before>>, selectedIds' \in SUBSET Works,
         step' \in {"boundary", "unlike", "like", "pace"},
         before.public \cup before.private \subseteq public' \cup private' \cup gone' \cup InHand',
         before.public \cap Untouched' \subseteq public' \cup gone',
         InHand' \cap (public' \cup private') = {}
  PROVE  MoverInv'
<1>1. RunOK'
  BY DEF RunOK
<1> QED
  BY <1>1 DEF RunOK, MoverInv, Mover!LossIsTold

\* A run is over.
LEMMA RunIsOver ==
  ASSUME RunOK, NEW m, NEW s, NEW fails, Mover!Finish(m, s, fails), before' = before,
         NEW adds, NEW deletes, NEW cancels, fails = Told(adds, deletes, cancels),
         (before.public \cup before.private) \ (public' \cup private' \cup gone') \subseteq adds,
         (deletes \cup cancels) \cap before.public \subseteq public' \cup gone',
         adds \cap (public' \cup private') = {}
  PROVE  MoverInv'
<1>1. step' = "off" /\ selectedIds' = {} /\ report' = [moved |-> m, skipped |-> s, failures |-> fails]
  BY DEF Mover!Finish
<1>2. report'.failures = Told(adds, deletes, cancels)
  BY <1>1
<1> QED
  BY <1>1, <1>2, ReportTells DEF MoverInv

\* One work is done with.
LEMMA WorkIsDone ==
  ASSUME RunOK, selectedIds \subseteq Works, NEW m, NEW s, NEW pause \in {"pace", "boundary"},
         Mover!NextWork(m, s, pause), before' = before,
         before.public \cup before.private \subseteq public' \cup private' \cup gone',
         before.public \cap Mover!Range(Tail(targets)) \subseteq public' \cup gone'
  PROVE  MoverInv'
<1>1. CASE Len(targets) = 1
  <2>1. Mover!Finish(m, s, failures) /\ failures = Told({}, {}, {})
    BY <1>1 DEF Mover!NextWork, RunOK, Told
  <2> QED
    BY <2>1, RunIsOver
<1>2. CASE Len(targets) # 1
  <2>1. /\ step' = pause /\ targets' = Tail(targets) /\ selectedIds' = selectedIds
        /\ failures' = failures /\ report' = report
    BY <1>2 DEF Mover!NextWork, Mover!selection
  <2>2. PICK n \in Nat : n = Len(targets) /\ n > 0 /\ n # 1
    BY <1>2, TargetsSplit
  <2>3. /\ targets' \in Seq(Works) /\ DOMAIN targets' = 1 .. (n - 1) /\ Len(targets') = n - 1
        /\ \A i \in 1 .. (n - 1) : targets'[i] = targets[i + 1]
    BY <2>1, <2>2, HeadTailProperties DEF RunOK
  <2>4. targets' # <<>>
    BY <2>2, <2>3
  <2>5. \A i, j \in DOMAIN targets' : targets'[i] = targets'[j] => i = j
    <3>1. SUFFICES ASSUME NEW i \in 1 .. (n - 1), NEW j \in 1 .. (n - 1), targets'[i] = targets'[j]
                   PROVE  i = j
      BY <2>3
    <3>2. i + 1 \in DOMAIN targets /\ j + 1 \in DOMAIN targets /\ targets[i + 1] = targets[j + 1]
      BY <2>2, <2>3, <3>1, TargetsSplit
    <3>3. i + 1 = j + 1
      BY <3>2 DEF RunOK
    <3> QED
      BY <3>3
  <2>6. AtHand' = {} /\ InHand' = {}
    BY <2>1 DEF AtHand, InHand
  <2>7. Untouched' = Mover!Range(Tail(targets))
    BY <2>1, <2>6 DEF Untouched, Mover!Range
  <2>8. RunOK'
    BY <2>1, <2>3, <2>4, <2>5, <2>6, <2>7 DEF RunOK
  <2> QED
    BY <2>1, <2>8 DEF MoverInv, RunOK, Mover!LossIsTold
<1> QED
  BY <1>1, <1>2

LEMMA MoverStops ==
  ASSUME RunOK, MoverInv, Mover!Stops PROVE MoverInv'
<1> DEFINE left == Mover!Range(targets)
<1>1. /\ step = "boundary" /\ UNCHANGED <<public, private, gone, before>>
      /\ Mover!Finish(moved, skipped, failures \cup Mover!Cancelled(left))
  BY DEF Mover!Stops, Mover!HonoursCancel, Mover!pixiv
<1>2. failures \cup Mover!Cancelled(left) = Told({}, {}, left)
  BY DEF RunOK, Told, Mover!Cancelled
<1>3. InHand = {} /\ Untouched = left
  BY <1>1, HandSplit
<1> QED
  BY <1>1, <1>2, <1>3, RunIsOver DEF RunOK

LEMMA MoverUnlike ==
  ASSUME Lossy = FALSE, RunOK, MoverInv, Mover!Unlike PROVE MoverInv'
<1> DEFINE w == Head(targets)
           rest == Mover!Range(Tail(targets))
<1>1. step = "unlike" /\ gone' = gone /\ before' = before
  BY DEF Mover!Unlike
<1>2. /\ Untouched = Mover!Range(targets) /\ rest \subseteq Untouched /\ w \in Untouched
      /\ w \notin rest
      /\ before.public \cup before.private \subseteq public \cup private \cup gone
      /\ before.public \cap Untouched \subseteq public \cup gone
  <2>1. InHand = {} /\ Untouched = Mover!Range(targets)
    BY <1>1, HandSplit
  <2>2. rest \subseteq Mover!Range(targets) /\ w \in Mover!Range(targets) /\ w \notin rest
    BY TargetsSplit
  <2> QED
    BY <2>1, <2>2 DEF RunOK
<1>3. ASSUME Mover!BookmarkDelete(w), step' = "like",
             UNCHANGED <<selectedIds, targets, failures, report>>
      PROVE  MoverInv'
  <2>1. public' = public \ {w} /\ private' = private \ {w}
    BY <1>3 DEF Mover!BookmarkDelete
  <2>2. AtHand' = {1} /\ InHand' = {w}
    BY <1>3, TargetsSplit DEF AtHand, InHand
  <2>3. Untouched' = rest
    BY <1>3, <2>2, TargetsSplit DEF Untouched
  <2>4. selectedIds' \in SUBSET Works
    BY <1>3 DEF MoverInv
  <2>5. /\ before.public \cup before.private \subseteq public' \cup private' \cup gone' \cup InHand'
        /\ before.public \cap Untouched' \subseteq public' \cup gone'
        /\ InHand' \cap (public' \cup private') = {}
    BY <1>1, <1>2, <2>1, <2>2, <2>3
  <2> QED
    BY <1>1, <1>3, <2>4, <2>5, RunGoesOn
<1>4. ASSUME Mover!NextWork(moved, skipped + 1, "boundary"), UNCHANGED <<public, private>>
      PROVE  MoverInv'
  <2>1. /\ before.public \cup before.private \subseteq public' \cup private' \cup gone'
        /\ before.public \cap rest \subseteq public' \cup gone'
    BY <1>1, <1>2, <1>4
  <2> QED
    BY <1>1, <1>4, <2>1, WorkIsDone DEF MoverInv
<1>5. ASSUME Mover!Stop("delete"), UNCHANGED <<public, private>> PROVE MoverInv'
  <2>1. Mover!Finish(moved, skipped, failures \cup {[id |-> w, kind |-> "delete"]}
                                              \cup Mover!Cancelled(rest))
    BY <1>5 DEF Mover!Stop
  <2>2. failures \cup {[id |-> w, kind |-> "delete"]} \cup Mover!Cancelled(rest)
          = Told({}, {w}, rest)
    BY DEF RunOK, Told, Mover!Cancelled
  <2>3. ({w} \cup rest) \cap before.public \subseteq public' \cup gone'
    BY <1>1, <1>2, <1>5
  <2>4. (before.public \cup before.private) \ (public' \cup private' \cup gone') \subseteq {}
    BY <1>1, <1>2, <1>5
  <2> QED
    BY <1>1, <2>1, <2>2, <2>3, <2>4, RunIsOver
<1>6. Lossy = FALSE =>
        \/ /\ Mover!BookmarkDelete(w) /\ step' = "like"
           /\ UNCHANGED <<selectedIds, targets, failures, report>>
        \/ Mover!NextWork(moved, skipped + 1, "boundary") /\ UNCHANGED <<public, private>>
        \/ Mover!Stop("delete") /\ UNCHANGED <<public, private>>
  BY DEF Mover!Unlike, Mover!selection, Mover!tally
<1> QED
  BY <1>3, <1>4, <1>5, <1>6

LEMMA MoverLike ==
  ASSUME Lossy = FALSE, RunOK, MoverInv, Mover!Like PROVE MoverInv'
<1> DEFINE w == Head(targets)
           rest == Mover!Range(Tail(targets))
<1>1. step = "like" /\ UNCHANGED <<public, gone, before>>
  BY DEF Mover!Like
<1>2. /\ before.public \cup before.private \subseteq public \cup private \cup gone \cup {w}
      /\ before.public \cap rest \subseteq public \cup gone
      /\ w \notin public \cup private
  <2>1. InHand = {w} /\ Untouched = rest
    BY <1>1, HandSplit
  <2> QED
    BY <2>1 DEF RunOK
<1>3. ASSUME w \in private' \cup gone, private \subseteq private',
             NEW m, NEW s, NEW pause \in {"pace", "boundary"}, Mover!NextWork(m, s, pause)
      PROVE  MoverInv'
  <2>1. /\ before.public \cup before.private \subseteq public' \cup private' \cup gone'
        /\ before.public \cap rest \subseteq public' \cup gone'
    BY <1>1, <1>2, <1>3
  <2> QED
    BY <1>1, <1>3, <2>1, WorkIsDone DEF MoverInv
<1>4. ASSUME Mover!Stop("add"), private' = private PROVE MoverInv'
  <2>1. Mover!Finish(moved, skipped, failures \cup {[id |-> w, kind |-> "add"]}
                                              \cup Mover!Cancelled(rest))
    BY <1>4 DEF Mover!Stop
  <2>2. failures \cup {[id |-> w, kind |-> "add"]} \cup Mover!Cancelled(rest)
          = Told({w}, {}, rest)
    BY DEF RunOK, Told, Mover!Cancelled
  <2>3. /\ (before.public \cup before.private) \ (public' \cup private' \cup gone') \subseteq {w}
        /\ ({} \cup rest) \cap before.public \subseteq public' \cup gone'
        /\ {w} \cap (public' \cup private') = {}
    BY <1>1, <1>2, <1>4
  <2> QED
    BY <1>1, <2>1, <2>2, <2>3, RunIsOver
<1>5. \/ private' = private \cup {w} /\ Mover!NextWork(moved + 1, skipped, "pace")
      \/ w \in gone /\ private' = private /\ Mover!NextWork(moved, skipped + 1, "boundary")
      \/ Mover!Stop("add") /\ private' = private
  BY DEF Mover!Like
<1>6. CASE private' = private \cup {w} /\ Mover!NextWork(moved + 1, skipped, "pace")
  <2>1. w \in private' \cup gone /\ private \subseteq private'
    BY <1>6
  <2> QED
    BY <1>3, <1>6, <2>1
<1>7. CASE w \in gone /\ private' = private /\ Mover!NextWork(moved, skipped + 1, "boundary")
  <2>1. w \in private' \cup gone /\ private \subseteq private'
    BY <1>7
  <2> QED
    BY <1>3, <1>7, <2>1
<1> QED
  BY <1>4, <1>5, <1>6, <1>7

\* What changes neither the run nor its report.
LEMMA MoverSame ==
  ASSUME MoverInv, UNCHANGED <<step, targets, report, failures, public, private, gone, before>>,
         selectedIds' \in SUBSET Works
  PROVE  MoverInv'
<1>1. CASE step = "off"
  BY <1>1 DEF MoverInv, Mover!LossIsTold
<1>2. CASE step # "off"
  <2>1. RunOK /\ InHand' = InHand /\ Untouched' = Untouched
    BY <1>2 DEF MoverInv, InHand, Untouched, AtHand
  <2> QED
    BY <2>1, RunGoesOn DEF RunOK
<1> QED
  BY <1>1, <1>2

LEMMA MoverRun ==
  ASSUME IsFiniteSet(Works), MoverInv, Mover!Run PROVE MoverInv'
<1>1. /\ selectedIds # {} /\ step' = "boundary" /\ failures' = {} /\ report' = None
      /\ targets' \in Mover!SetToSeqs(selectedIds) /\ selectedIds' = selectedIds
      /\ before' = [public |-> public, private |-> private]
      /\ UNCHANGED <<public, private, gone>>
  BY DEF Mover!Run, Mover!selection, Mover!pixiv
<1>2. selectedIds \in SUBSET Works
  BY DEF MoverInv
<1>3. /\ targets' \in Seq(Works) /\ targets' # <<>>
      /\ \A i, j \in DOMAIN targets' : targets'[i] = targets'[j] => i = j
  BY <1>1, <1>2, PickedInOrder
<1>4. InHand' = {}
  BY <1>1 DEF InHand, AtHand
<1>5. before'.public = public /\ before'.private = private
  BY <1>1
<1>6. RunOK'
  BY <1>1, <1>3, <1>4, <1>5 DEF RunOK
<1> QED
  BY <1>1, <1>2, <1>6 DEF MoverInv, Mover!LossIsTold

\* An artist deletes a work.
LEMMA MoverDeleted ==
  ASSUME MoverInv, NEW w \in Works, Mover!Deleted(w) PROVE MoverInv'
<1>1. /\ gone' = gone \cup {w} /\ public' = public \ {w} /\ private' = private \ {w}
      /\ UNCHANGED <<step, targets, report, failures, before, selectedIds>>
  BY DEF Mover!Deleted, Mover!selection, Mover!tally
<1>2. CASE step = "off"
  <2>1. CASE report = None
    BY <1>1, <1>2, <2>1 DEF MoverInv, Mover!LossIsTold
  <2>2. CASE report # None
    <3> DEFINE Named(kind_) == {f.id : f \in {g \in report.failures : g.kind = kind_}}
               adds == Named("add")
               kept_ == Named("delete") \cup Named("cancelled")
    <3>1. /\ (before.public \cup before.private) \ (public \cup private \cup gone) \subseteq adds
          /\ kept_ \cap before.public \subseteq public \cup gone
          /\ adds \cap (public \cup private) = {}
      BY <2>2 DEF MoverInv, Mover!LossIsTold
    <3> HIDE DEF adds, kept_
    <3>2. /\ (before.public \cup before.private) \ (public' \cup private' \cup gone') \subseteq adds
          /\ kept_ \cap before.public \subseteq public' \cup gone'
          /\ adds \cap (public' \cup private') = {}
      BY <1>1, <3>1
    <3>3. Mover!LossIsTold'
      BY <1>1, <3>2 DEF adds, kept_, Mover!LossIsTold
    <3> QED
      BY <1>1, <1>2, <3>3 DEF MoverInv
  <2> QED
    BY <2>1, <2>2
<1>3. CASE step # "off"
  <2>1. RunOK /\ InHand' = InHand /\ Untouched' = Untouched
    BY <1>1, <1>3 DEF MoverInv, InHand, Untouched, AtHand
  <2>2. /\ before.public \cup before.private \subseteq public' \cup private' \cup gone' \cup InHand'
        /\ before.public \cap Untouched' \subseteq public' \cup gone'
        /\ InHand' \cap (public' \cup private') = {}
    BY <1>1, <2>1 DEF RunOK
  <2>3. selectedIds' \in SUBSET Works
    BY <1>1 DEF MoverInv
  <2> QED
    BY <1>1, <2>1, <2>2, <2>3, RunGoesOn DEF RunOK
<1> QED
  BY <1>2, <1>3

LEMMA MoverNext ==
  ASSUME IsFiniteSet(Works), Lossy = FALSE
  PROVE  MoverInv /\ [Mover!Next]_<<mover, step, taps>> => MoverInv'
<1> SUFFICES ASSUME MoverInv, [Mover!Next]_<<mover, step, taps>> PROVE MoverInv'
  OBVIOUS
<1>1. step # "off" => RunOK
  BY DEF MoverInv
<1>2. CASE Mover!User
  <2>1. CASE Mover!Run
    BY <2>1, MoverRun
  <2>2. CASE ~Mover!Run
    <3>1. \/ Mover!EnterSelection \/ Mover!ExitSelection \/ Mover!Select \/ Mover!Cancel
          \/ Mover!LeavePile \/ Mover!ReturnToPile
      BY <1>2, <2>2 DEF Mover!User
    <3>2. UNCHANGED <<step, targets, report, failures, public, private, gone, before>>
      BY <3>1 DEF Mover!EnterSelection, Mover!ExitSelection, Mover!Select, Mover!Cancel,
                  Mover!LeavePile, Mover!ReturnToPile, Mover!tally, Mover!pixiv
    <3>3. selectedIds \in SUBSET Works
      BY DEF MoverInv
    <3>4. selectedIds' \in SUBSET Works
      BY <3>1, <3>3 DEF Mover!EnterSelection, Mover!ExitSelection, Mover!Select, Mover!Cancel,
                  Mover!LeavePile, Mover!ReturnToPile, Mover!selection
    <3> QED
      BY <3>2, <3>4, MoverSame
  <2> QED
    BY <2>1, <2>2
<1>3. CASE Mover!Stops
  BY <1>1, <1>3, MoverStops DEF Mover!Stops, Mover!HonoursCancel
<1>4. CASE Mover!Boundary \/ Mover!PaceOver
  <2>1. /\ step \in {"boundary", "pace"} /\ step' \in {"boundary", "unlike"}
        /\ UNCHANGED <<targets, report, failures, public, private, gone, before, selectedIds>>
    BY <1>4 DEF Mover!Boundary, Mover!PaceOver, Mover!selection, Mover!tally, Mover!pixiv
  <2>2. RunOK /\ InHand' = InHand /\ Untouched' = Untouched
    BY <1>1, <2>1 DEF InHand, Untouched, AtHand
  <2> QED
    BY <2>1, <2>2, RunGoesOn DEF RunOK, MoverInv
<1>5. CASE Mover!Unlike
  BY <1>1, <1>5, MoverUnlike DEF Mover!Unlike
<1>6. CASE Mover!Like
  BY <1>1, <1>6, MoverLike DEF Mover!Like
<1>7. CASE \E w \in Works : Mover!Deleted(w)
  BY <1>7, MoverDeleted
<1>8. CASE UNCHANGED <<mover, step, taps>>
  BY <1>8, MoverSame DEF mover, MoverInv
<1> QED
  BY <1>2, <1>3, <1>4, <1>5, <1>6, <1>7, <1>8 DEF Mover!Next, Mover!RunStep

-----------------------------------------------------------------------------
(* The pages of a work or an artist follow one another.                    *)

\* Of n pages of o: the list, and the cursor behind it.
Paged(o, n) == {[owner |-> o, page |-> p] : p \in 1 .. n}
Cursor(o, n) == IF n \in 1 .. LastPage - 1 THEN [owner |-> o, page |-> n + 1] ELSE None
PagesAt(n) ==
  /\ illusts = Paged(owner, n) /\ nextUrl = Cursor(owner, n)
  /\ \A i \in DOMAIN loads :
       loads[i].live => /\ loads[i].at = [owner |-> owner, page |-> n + 1]
                        /\ n < LastPage /\ loadMoreError = FALSE
                        /\ kind = "related" => error = FALSE
  /\ {error, loadMoreError} \subseteq BOOLEAN /\ owner \in Owners
  /\ loadMoreError => n < LastPage
  /\ kind = "related" => (loadMoreError => n > 0) /\ (error => n = 0)
\* The current request, if there is one, is for the page that comes next.
PagesList == PagesInv /\ \E n \in 0 .. LastPage : PagesAt(n)

LEMMA PagedMany ==
  ASSUME NEW o, NEW n \in Nat
  PROVE  IsFiniteSet(Paged(o, n)) /\ Cardinality(Paged(o, n)) = n
<1> DEFINE f == [p \in 1 .. n |-> [owner |-> o, page |-> p]]
           S == Paged(o, n)
<1>1. IsFiniteSet(1 .. n) /\ Cardinality(1 .. n) = n
  BY UpTo
<1>2. f \in [1 .. n -> S] /\ (\A a, b \in 1 .. n : f[a] = f[b] => a = b)
      /\ \A t \in S : \E a \in 1 .. n : f[a] = t
  BY DEF Paged
<1> HIDE DEF f, S
<1>3. f \in Injection(1 .. n, S) /\ f \in Surjection(1 .. n, S)
  BY <1>2, Zenon DEF Injection, IsInjective, Surjection
<1>4. IsFiniteSet(S) /\ Cardinality(S) = n
  BY <1>1, <1>3, FS_Surjection
<1> QED
  BY <1>4 DEF S

LEMMA PagesShowOwner == PagesList => Pages!ShowsOwner
<1> SUFFICES ASSUME PagesList PROVE Pages!ShowsOwner
  OBVIOUS
<1>1. PICK n \in 0 .. LastPage : PagesAt(n)
  BY DEF PagesList
<1>2. Pages!Cardinality(illusts) = n
  <2>1. n \in Nat /\ illusts = Paged(owner, n)
    BY <1>1, ScreensAssumption DEF PagesAt
  <2>2. Cardinality(illusts) = n
    BY <2>1, PagedMany
  <2>3. Pages!Cardinality(illusts) = Cardinality(illusts)
    BY Zenon DEF Pages!Cardinality, Cardinality
  <2> QED
    BY <2>2, <2>3
<1> QED
  BY <1>1, <1>2 DEF Pages!ShowsOwner, PagesAt, Paged, Cursor

LEMMA PagesListInit == Pages!Init => PagesList
<1> SUFFICES ASSUME Pages!Init PROVE PagesList
  OBVIOUS
<1>1. 0 \in 0 .. LastPage /\ 0 < LastPage /\ 0 + 1 = 1
  BY ScreensAssumption
<1>2. PagesAt(0)
  <2>1. illusts = {} /\ nextUrl = None /\ error = FALSE /\ loadMoreError = FALSE
    BY DEF Pages!Init
  <2>2. loads = <<[live |-> TRUE, at |-> Pages!First(owner)]>>
    BY DEF Pages!Init
  <2>3. \A i \in DOMAIN loads : loads[i].at = [owner |-> owner, page |-> 1]
    BY <2>2 DEF Pages!First
  <2>4. 1 .. 0 = {} /\ 0 \notin 1 .. LastPage - 1
    BY <1>1
  <2>5. Paged(owner, 0) = {} /\ Cursor(owner, 0) = None
    BY <2>4 DEF Paged, Cursor
  <2>6. owner \in Owners /\ {error, loadMoreError} \subseteq BOOLEAN
    BY <2>1 DEF Pages!Init
  <2> QED
    BY <1>1, <2>1, <2>3, <2>5, <2>6 DEF PagesAt
<1> QED
  BY <1>1, <1>2, PagesInit DEF PagesList

\* A request for the next page supersedes the others, or there are none.
LEMMA PagesRequest ==
  ASSUME PagesInv, NEW what, Pages!Request(what), kind = "related" => ~loading
  PROVE  \A i \in DOMAIN loads' : loads'[i].live => loads'[i].at = what
<1> DEFINE e == [live |-> TRUE, at |-> what]
           s == [i \in DOMAIN loads |-> [loads[i] EXCEPT !.live = FALSE]]
<1>1. PICK S : loads \in Seq(S)
  BY DEF PagesInv, SpinnerInv, Numbered
<1>2. PICK n \in Nat : DOMAIN loads = 1 .. n /\ n = Len(loads)
  BY <1>1
<1>3. ASSUME NEW t, NEW T, t \in Seq(T), loads' = Append(t, e), \A i \in DOMAIN t : ~t[i].live
      PROVE  \A i \in DOMAIN loads' : loads'[i].live => loads'[i].at = what
  <2>1. t \in Seq(T \cup {e})
    BY <1>3, SeqMonotonic
  <2>2. /\ DOMAIN loads' = 1 .. (Len(t) + 1) /\ loads'[Len(t) + 1] = e /\ Len(t) \in Nat
        /\ DOMAIN t = 1 .. Len(t) /\ \A i \in 1 .. Len(t) : loads'[i] = t[i]
    BY <1>3, <2>1, AppendProperties
  <2>3. \A i \in DOMAIN loads' : i \in DOMAIN t \/ i = Len(t) + 1
    BY <2>2
  <2> QED
    BY <1>3, <2>2, <2>3
<1>4. CASE kind = "artist"
  <2>1. loads' = Append(s, e)
    BY <1>4 DEF Pages!Request, Pages!Superseded
  <2>2. s \in Seq({s[i] : i \in DOMAIN loads})
    <3>1. s = [i \in 1 .. n |-> s[i]] /\ \A i \in 1 .. n : s[i] \in {s[j] : j \in DOMAIN loads}
      BY <1>2
    <3> HIDE DEF s
    <3> QED
      BY <1>2, <3>1, IsASeq
  <2>3. \A i \in DOMAIN s : ~s[i].live
    <3> TAKE i \in DOMAIN s
    <3>1. "live" \in DOMAIN loads[i]
      BY DEF PagesInv, SpinnerInv, Numbered
    <3> QED
      BY <3>1
  <2> HIDE DEF s, e
  <2> QED
    BY <1>3, <2>1, <2>2, <2>3
<1>5. CASE kind = "related"
  <2>1. loads' = Append(loads, e)
    BY <1>5 DEF Pages!Request
  <2>2. \A i \in DOMAIN loads : ~loads[i].live
    BY <1>5 DEF PagesInv, SpinnerInv
  <2> HIDE DEF e
  <2> QED
    BY <1>1, <1>3, <2>1, <2>2
<1> QED
  BY <1>4, <1>5 DEF PagesInv

LEMMA PagesListNext ==
  PagesList /\ [Pages!Next]_<<pages, loader, listed, errors, taps>> => PagesList'
<1> SUFFICES ASSUME PagesList, [Pages!Next]_<<pages, loader, listed, errors, taps>>
             PROVE  PagesList'
  OBVIOUS
<1>0. PagesInv' /\ PagesInv
  BY PagesNext DEF PagesList
<1>1. PICK n \in 0 .. LastPage : PagesAt(n)
  BY DEF PagesList
<1>2. n \in Nat /\ LastPage \in Nat \ {0} /\ 0 \in 0 .. LastPage
  BY ScreensAssumption
<1>3. ASSUME Pages!LoadMore, nextUrl # None \/ n < LastPage PROVE PagesList'
  <2>1. /\ n < LastPage
        /\ (IF nextUrl = None THEN Pages!First(owner) ELSE nextUrl) = [owner |-> owner, page |-> n + 1]
    <3>1. CASE n \in 1 .. LastPage - 1
      <4>1. nextUrl = [owner |-> owner, page |-> n + 1]
        BY <1>1, <3>1 DEF PagesAt, Cursor
      <4>2. nextUrl \in [owner : Owners, page : Nat]
        BY <1>1, <1>2, <4>1 DEF PagesAt
      <4> QED
        BY <1>2, <3>1, <4>1, <4>2, ScreensAssumption
    <3>2. CASE n \notin 1 .. LastPage - 1
      <4>1. nextUrl = None
        BY <1>1, <3>2 DEF PagesAt, Cursor
      <4>2. n = 0
        BY <1>2, <1>3, <3>2, <4>1
      <4> QED
        BY <1>2, <4>1, <4>2 DEF Pages!First
    <3> QED
      BY <3>1, <3>2
  <2> DEFINE what == IF nextUrl = None THEN Pages!First(owner) ELSE nextUrl
  <2>2. \A i \in DOMAIN loads' : loads'[i].live => loads'[i].at = what
    BY <1>0, <1>3, PagesRequest DEF Pages!LoadMore
  <2>3. /\ kind' = kind /\ owner' = owner /\ illusts' = illusts /\ nextUrl' = nextUrl
        /\ error' = error /\ loadMoreError' = FALSE
    BY <1>3 DEF Pages!LoadMore
  <2>5. kind = "related" => error = FALSE
    BY <1>1, <1>2, <1>3 DEF Pages!LoadMore, PagesAt, Cursor
  <2> HIDE DEF what
  <2>4. PagesAt(n)'
    BY <1>1, <2>1, <2>2, <2>3, <2>5 DEF PagesAt, Paged, Cursor, what
  <2> QED
    BY <1>0, <2>4 DEF PagesList
<1>4. CASE Pages!User
  <2>1. ASSUME NEW o \in Owners, Pages!Swap(o) PROVE PagesList'
    <3>1. \A i \in DOMAIN loads' : loads'[i].live => loads'[i].at = Pages!First(o)
      BY <1>0, <2>1, PagesRequest DEF Pages!Swap
    <3>2. /\ kind' = "artist" /\ owner' = o /\ illusts' = {} /\ nextUrl' = None
          /\ error' = FALSE /\ loadMoreError' = FALSE
      BY <2>1 DEF Pages!Swap
    <3>3. 0 < LastPage /\ 0 + 1 = 1 /\ 1 .. 0 = {} /\ 0 \notin 1 .. LastPage - 1
      BY <1>2
    <3>4. PagesAt(0)'
      BY <3>1, <3>2, <3>3 DEF PagesAt, Paged, Cursor, Pages!First
    <3> QED
      BY <1>0, <1>2, <3>4 DEF PagesList
  <2>2. ASSUME loadMoreError /\ Pages!LoadMore PROVE PagesList'
    BY <1>1, <1>3, <2>2 DEF PagesAt
  <2>3. ASSUME Pages!LoadRelated PROVE PagesList'
    <3>1. n = 0 /\ kind = "related"
      BY <1>1, <2>3 DEF Pages!LoadRelated, PagesAt
    <3>2. \A i \in DOMAIN loads' : loads'[i].live => loads'[i].at = Pages!First(owner)
      BY <1>0, <2>3, PagesRequest DEF Pages!LoadRelated
    <3>3. /\ kind' = kind /\ owner' = owner /\ illusts' = illusts /\ nextUrl' = nextUrl
          /\ error' = FALSE /\ loadMoreError' = loadMoreError
      BY <2>3 DEF Pages!LoadRelated
    <3>4. 0 < LastPage /\ 0 + 1 = 1
      BY <1>2
    <3>6. loadMoreError = FALSE
      BY <1>1, <3>1 DEF PagesAt
    <3>5. PagesAt(n)'
      BY <1>1, <3>1, <3>2, <3>3, <3>4, <3>6 DEF PagesAt, Paged, Cursor, Pages!First
    <3> QED
      BY <1>0, <3>5 DEF PagesList
  <2> QED
    BY <1>4, <2>1, <2>2, <2>3 DEF Pages!User
<1>5. CASE Pages!SentinelFires
  BY <1>3, <1>5 DEF Pages!SentinelFires, Pages!CanLoad
<1>6. CASE Pages!LoadEnds
  <2>1. PICK i \in DOMAIN loads : Pages!PageArrives(i) \/ Pages!LoadFails(i)
    BY <1>6 DEF Pages!LoadEnds
  <2>2. loads' = LeftOf(loads, i) /\ owner' = owner /\ kind' = kind
    BY <2>1 DEF Pages!PageArrives, Pages!LoadFails, Pages!RemoveAt, LeftOf
  <2>3. \A j \in DOMAIN loads' : \E k \in DOMAIN loads \ {i} : loads'[j] = loads[k]
    <3>1. PICK S : loads \in Seq(S)
      BY <1>0 DEF PagesInv, SpinnerInv, Numbered
    <3> QED
      BY <2>2, <3>1, OneLeaves
  <2>4. CASE loads[i].live /\ Pages!PageArrives(i)
    <3>1. \A j \in DOMAIN loads' : ~loads'[j].live
      BY <1>0, <2>3, <2>4 DEF PagesInv, SpinnerInv
    <3>2. loads[i].at = [owner |-> owner, page |-> n + 1] /\ n < LastPage
      BY <1>1, <2>4 DEF PagesAt
    <3>3. /\ illusts' = illusts \cup {[owner |-> owner, page |-> n + 1]}
          /\ nextUrl' = IF n + 1 < LastPage THEN [owner |-> owner, page |-> n + 2] ELSE None
          /\ error' = (IF kind = "artist" THEN FALSE ELSE error) /\ loadMoreError' = loadMoreError
      <4>1. /\ illusts' = illusts \cup {loads[i].at}
            /\ nextUrl' = IF loads[i].at.page < LastPage
                          THEN [loads[i].at EXCEPT !.page = @ + 1] ELSE None
            /\ error' = (IF kind = "artist" THEN FALSE ELSE error) /\ loadMoreError' = loadMoreError
        BY <2>4 DEF Pages!PageArrives
      <4>2. loads[i].at.page = n + 1 /\ (n + 1) + 1 = n + 2
        BY <1>2, <3>2
      <4>3. [loads[i].at EXCEPT !.page = @ + 1] = [owner |-> owner, page |-> n + 2]
        BY <3>2, <4>2
      <4> QED
        BY <3>2, <4>1, <4>2, <4>3
    <3>4. illusts' = Paged(owner, n + 1)
      <4>1. 1 .. (n + 1) = (1 .. n) \cup {n + 1}
        BY <1>2
      <4> QED
        BY <1>1, <3>3, <4>1 DEF PagesAt, Paged
    <3>5. nextUrl' = Cursor(owner, n + 1)
      <4>1. n + 1 \in 1 .. LastPage - 1 <=> n + 1 < LastPage
        BY <1>2
      <4>2. (n + 1) + 1 = n + 2
        BY <1>2
      <4> QED
        BY <3>3, <4>1, <4>2 DEF Cursor
    <3>6. PICK m \in 0 .. LastPage : m = n + 1
      BY <1>2, <3>2
    <3>7. loadMoreError' = FALSE /\ error' \in BOOLEAN
      BY <1>1, <2>4, <3>3 DEF PagesAt
    <3>8. kind = "related" => error' = FALSE
      BY <1>1, <2>4, <3>3 DEF PagesAt
    <3>9. PagesAt(m)'
      BY <1>1, <2>2, <3>1, <3>4, <3>5, <3>6, <3>7, <3>8 DEF PagesAt
    <3> QED
      BY <1>0, <3>9 DEF PagesList
  <2>5. CASE loads[i].live /\ Pages!LoadFails(i)
    <3>1. \A j \in DOMAIN loads' : ~loads'[j].live
      BY <1>0, <2>3, <2>5 DEF PagesInv, SpinnerInv
    <3>2. loads[i].at = [owner |-> owner, page |-> n + 1] /\ n < LastPage
      BY <1>1, <2>5 DEF PagesAt
    <3>3. illusts' = illusts /\ nextUrl' = nextUrl
      BY <2>5 DEF Pages!LoadFails
    <3>4. /\ error' \in BOOLEAN /\ loadMoreError' \in BOOLEAN
          /\ kind = "related" => (loadMoreError' => n > 0) /\ (error' => n = 0)
      <4>1. CASE kind = "artist"
        BY <1>1, <2>5, <4>1 DEF Pages!LoadFails, PagesAt
      <4>2. CASE kind = "related"
        <5>1. loads[i].at.page = n + 1
          BY <3>2
        <5>2. /\ loadMoreError' = (loadMoreError \/ n + 1 > 1)
              /\ error' = (error \/ n + 1 = 1)
          BY <2>5, <4>2, <5>1 DEF Pages!LoadFails
        <5> QED
          BY <1>1, <1>2, <4>2, <5>2 DEF PagesAt
      <4> QED
        BY <1>0, <4>1, <4>2 DEF PagesInv
    <3>5. PagesAt(n)'
      BY <1>1, <2>2, <3>1, <3>2, <3>3, <3>4 DEF PagesAt, Paged, Cursor
    <3> QED
      BY <1>0, <3>5 DEF PagesList
  <2>6. CASE ~loads[i].live
    <3>1. illusts' = illusts /\ nextUrl' = nextUrl /\ error' = error
          /\ loadMoreError' = loadMoreError
      BY <2>1, <2>6 DEF Pages!PageArrives, Pages!LoadFails, Pages!flags
    <3>2. PagesAt(n)'
      BY <1>1, <2>2, <2>3, <3>1 DEF PagesAt, Paged, Cursor
    <3> QED
      BY <1>0, <3>2 DEF PagesList
  <2> QED
    BY <2>1, <2>4, <2>5, <2>6
<1>7. CASE UNCHANGED <<pages, loader, listed, errors, taps>>
  <2>1. PagesAt(n)'
    BY <1>1, <1>7 DEF PagesAt, Paged, Cursor, pages, loader, listed, errors
  <2> QED
    BY <1>0, <2>1 DEF PagesList
<1> QED
  BY <1>4, <1>5, <1>6, <1>7 DEF Pages!Next

-----------------------------------------------------------------------------
(* The cards of a search answer its bar.                                   *)

\* The first n pages of the search s.
PagesOf(s, n) == {[search |-> s, page |-> p] : p \in 1 .. n}
SearchOf(r) == [query |-> r.query, filter |-> IF r.mode = "works" THEN r.filter ELSE None]
ShownOf(r) == IF r.mode = "works" THEN r.works ELSE r.users
\* What no snapshot takes of the pages a report shows.
Stays(r, n) ==
  \/ ~r.cut
  \/ r.mode = "works" /\ (n + WorksKept > r.counter \/ \E p \in ShownOf(r) : p.page < n)
  \/ r.mode = "artists" /\ n <= UsersKept
\* A report's cards answer its bar, none missing but those a snapshot cut off.
Whole(r) ==
  /\ ShownOf(r) \subseteq PagesOf(SearchOf(r), r.counter)
  /\ ShownOf(r) # {} \/ r.hasMore =>
       \A n \in 1 .. r.counter :
         Stays(r, n) => [search |-> SearchOf(r), page |-> n] \in ShownOf(r)
  /\ r.query = None => r.works = {} /\ r.users = {} /\ r.hasMore = FALSE
ShownWhole == Whole(Search!Report)
SavedWhole == Whole(saved)
SearchTypes ==
  /\ mode \in {"works", "artists"} /\ counter \in Nat /\ hasMore \in BOOLEAN
  /\ saved.mode \in {"works", "artists"} /\ saved.counter \in Nat /\ saved.hasMore \in BOOLEAN
\* The current request is for the bar's first page or the next one.
ForNow ==
  \A i \in DOMAIN loads : loads[i].live =>
    /\ loads[i].search = Search!Search /\ loads[i].mode = mode /\ query # None
    /\ loads[i].fresh \in BOOLEAN
    /\ loads[i].fresh => loads[i].page = 1
    /\ ~loads[i].fresh => loads[i].page = counter + 1 /\ hasMore
Asked == \E i \in DOMAIN loads : loads[i].live /\ loads[i].fresh
\* What is shown answers the bar unless a first page is on its way.
SearchInv ==
  /\ SpinnerInv /\ SearchTypes
  /\ ForNow
  /\ ~Asked => ShownWhole
  /\ SavedWhole

LEMMA SearchShown == SearchInv => Search!AnswersTheBar
<1> SUFFICES ASSUME SearchInv, ~loading, Search!Shown # {}
             PROVE  /\ \A p \in Search!Shown : p.search = Search!Search /\ p.page \in 1 .. counter
                    /\ \A n \in 1 .. counter : Search!Uncut(Search!Shown, n) =>
                         \E p \in Search!Shown : p.page = n
  BY DEF Search!AnswersTheBar
<1>1. ~Asked
  BY DEF SearchInv, SpinnerInv, Asked
<1>2. /\ Search!Shown \subseteq PagesOf(Search!Search, counter)
      /\ \A n \in 1 .. counter :
           Search!Uncut(Search!Shown, n) => [search |-> Search!Search, page |-> n] \in Search!Shown
  BY <1>1 DEF SearchInv, ShownWhole, Whole, Stays, ShownOf, SearchOf, Search!Uncut, Search!Shown,
              Search!Search, Search!Report
<1>3. \A p \in PagesOf(Search!Search, counter) : p.search = Search!Search /\ p.page \in 1 .. counter
  BY DEF PagesOf
<1> QED
  BY <1>2, <1>3

LEMMA SearchListInit == Search!Init => SearchInv
<1> SUFFICES ASSUME Search!Init PROVE SearchInv
  OBVIOUS
<1>1. SpinnerInv /\ loads = <<>>
  BY NoRequests DEF Search!Init
<1>2. /\ query = None /\ mode = "works" /\ works = {} /\ users = {} /\ counter = 0
      /\ hasMore = FALSE /\ saved = Search!Report
  BY DEF Search!Init
<1>3. SearchTypes /\ ShownWhole /\ SavedWhole
  BY <1>2 DEF SearchTypes, ShownWhole, SavedWhole, Whole, Stays, ShownOf, SearchOf, PagesOf, Search!Report
<1>4. DOMAIN loads = {}
  BY <1>1
<1> QED
  BY <1>1, <1>2, <1>3, <1>4 DEF SearchInv, ForNow

\* A request supersedes those before it: what is live is the last one.
LEMMA LastIsLive ==
  ASSUME Numbered(loads), NEW e,
         loads' = Append([i \in DOMAIN loads |-> [loads[i] EXCEPT !.live = FALSE]], e)
  PROVE  \A i \in DOMAIN loads' : loads'[i].live => loads'[i] = e
<1> DEFINE s == [i \in DOMAIN loads |-> [loads[i] EXCEPT !.live = FALSE]]
<1>1. PICK n \in Nat : DOMAIN loads = 1 .. n /\ n = Len(loads)
  BY DEF Numbered
<1>2. \A i \in DOMAIN s : ~s[i].live
  <2> TAKE i \in DOMAIN s
  <2>1. "live" \in DOMAIN loads[i]
    BY DEF Numbered
  <2> QED
    BY <2>1
<1>3. DOMAIN s = 1 .. n /\ s = [i \in 1 .. n |-> s[i]]
  BY <1>1
<1> HIDE DEF s
<1>4. s \in Seq({s[i] : i \in DOMAIN s} \cup {e})
  <2>1. \A i \in 1 .. n : s[i] \in {s[j] : j \in DOMAIN s} \cup {e}
    BY <1>3
  <2> QED
    BY <1>1, <1>3, <2>1, IsASeq
<1>5. /\ DOMAIN loads' = 1 .. (Len(s) + 1) /\ loads'[Len(s) + 1] = e /\ Len(s) \in Nat
      /\ DOMAIN s = 1 .. Len(s) /\ \A i \in 1 .. Len(s) : loads'[i] = s[i]
  BY <1>4, AppendProperties DEF s
<1>6. \A i \in DOMAIN loads' : i \in DOMAIN s \/ i = Len(s) + 1
  BY <1>5
<1> QED
  BY <1>2, <1>5, <1>6

\* What saveSnapshot keeps of a report is a report whose cards answer its bar.
LEMMA KeptStays ==
  ASSUME NEW r, NEW k, NEW n \in Nat, n >= WorksKept, WorksKept \in Nat \ {0},
         Whole(r), r.mode \in {"works", "artists"}, r.counter \in Nat,
         k.query = r.query, k.mode = r.mode, k.filter = r.filter, k.counter = r.counter,
         k.hasMore = r.hasMore,
         k.works = Search!LastPages(r.works, n),
         k.users = Search!FirstPages(r.users, UsersKept),
         ~k.cut => ~r.cut /\ ShownOf(r) = ShownOf(k)
  PROVE  Whole(k)
<1>1. SearchOf(k) = SearchOf(r)
  BY DEF SearchOf
<1>2. \A p \in ShownOf(r) : p.page \in 1 .. r.counter
  BY DEF Whole, PagesOf
<1>3. ShownOf(k) \subseteq ShownOf(r)
  BY DEF ShownOf, Search!LastPages, Search!FirstPages
<1>4. ShownOf(k) \subseteq PagesOf(SearchOf(k), k.counter)
  BY <1>1, <1>3 DEF Whole
<1>5. ASSUME ShownOf(k) # {} \/ k.hasMore, NEW m \in 1 .. k.counter, Stays(k, m)
      PROVE  [search |-> SearchOf(k), page |-> m] \in ShownOf(k)
  <2>1. ShownOf(r) # {} \/ r.hasMore
    BY <1>3, <1>5
  <2> DEFINE p == [search |-> SearchOf(k), page |-> m]
  <2>2. p.page = m
    OBVIOUS
  <2>3. Stays(r, m) => p \in ShownOf(r)
    BY <1>1, <2>1 DEF Whole
  <2> SUFFICES p \in ShownOf(k)
    OBVIOUS
  <2> HIDE DEF p
  <2>4. CASE ~k.cut
    BY <2>3, <2>4 DEF Stays
  <2>5. CASE k.cut /\ k.mode = "works"
    <3>1. m + WorksKept > k.counter \/ \E q \in ShownOf(k) : q.page < m
      BY <1>5, <2>5 DEF Stays
    <3>2. p \in ShownOf(r)
      BY <1>3, <2>3, <2>5, <3>1 DEF Stays
    <3>3. ASSUME NEW q \in ShownOf(r) PROVE q.page < m + n
      <4>1. q.page \in 1 .. r.counter
        BY <1>2
      <4>2. CASE m + WorksKept > k.counter
        BY <4>1, <4>2
      <4>3. CASE \E o \in ShownOf(k) : o.page < m
        <5>1. PICK o \in ShownOf(k) : o.page < m
          BY <4>3
        <5>2. q.page < o.page + n
          BY <2>5, <5>1 DEF ShownOf, Search!LastPages
        <5>3. o.page \in 1 .. r.counter
          BY <1>2, <1>3
        <5> QED
          BY <4>1, <5>1, <5>2, <5>3
      <4> QED
        BY <3>1, <4>2, <4>3
    <3> QED
      BY <2>2, <2>5, <3>2, <3>3 DEF ShownOf, Search!LastPages
  <2>6. CASE k.cut /\ k.mode = "artists"
    <3>1. m <= UsersKept
      BY <1>5, <2>6 DEF Stays
    <3>2. p \in ShownOf(r)
      BY <2>3, <2>6, <3>1 DEF Stays
    <3> QED
      BY <2>2, <2>6, <3>1, <3>2 DEF ShownOf, Search!FirstPages
  <2> QED
    BY <2>4, <2>5, <2>6
<1>6. k.query = None => k.works = {} /\ k.users = {} /\ k.hasMore = FALSE
  BY DEF Whole, Search!LastPages, Search!FirstPages
<1> QED
  BY <1>4, <1>5, <1>6 DEF Whole

LEMMA SearchListNext ==
  ASSUME Slow = FALSE
  PROVE  SearchInv /\ [Search!Next]_<<search, loader, errors, taps>> => SearchInv'
<1> SUFFICES ASSUME SearchInv, [Search!Next]_<<search, loader, errors, taps>> PROVE SearchInv'
  OBVIOUS
<1>0. SpinnerInv' /\ SpinnerInv /\ Numbered(loads)
  BY SearchNext DEF SearchInv, SpinnerInv
<1>1. SearchTypes /\ SavedWhole
  BY DEF SearchInv
<1>2. ASSUME NEW fresh \in BOOLEAN, Search!RunSearch(fresh), NEW i \in DOMAIN loads', loads'[i].live
      PROVE  /\ loads'[i].fresh = fresh /\ loads'[i].mode = mode' /\ loads'[i].search = Search!Search'
             /\ loads'[i].page = IF fresh THEN 1 ELSE counter' + 1
  <2> DEFINE e == [live |-> TRUE, fresh |-> fresh, mode |-> mode',
                   search |-> Search!Search', page |-> IF fresh THEN 1 ELSE counter' + 1]
  <2>1. /\ e.fresh = fresh /\ e.mode = mode' /\ e.search = Search!Search'
        /\ e.page = IF fresh THEN 1 ELSE counter' + 1
    OBVIOUS
  <2>2. loads' = Append([j \in DOMAIN loads |-> [loads[j] EXCEPT !.live = FALSE]], e)
    BY <1>2 DEF Search!RunSearch, Search!Superseded
  <2> HIDE DEF e
  <2>3. loads'[i] = e
    BY <1>0, <1>2, <2>2, LastIsLive
  <2> QED
    BY <2>1, <2>3
<1>3. ASSUME Search!RunSearch(TRUE), query' # None, mode' \in {"works", "artists"},
             UNCHANGED <<counter, hasMore, saved>>
      PROVE  SearchInv'
  <2>1. \A i \in DOMAIN loads' : loads'[i].live =>
          /\ loads'[i].fresh = TRUE /\ loads'[i].mode = mode' /\ loads'[i].page = 1
          /\ loads'[i].search = Search!Search'
    BY <1>2, <1>3
  <2>2. ForNow'
    BY <1>3, <2>1 DEF ForNow
  <2>3. loading'
    BY <1>3 DEF Search!RunSearch
  <2>4. Asked'
    BY <1>0, <2>1, <2>3 DEF SpinnerInv, Asked
  <2>5. SearchTypes' /\ SavedWhole'
    BY <1>1, <1>3 DEF SearchTypes, SavedWhole, Whole, Stays, ShownOf, SearchOf
  <2> QED
    BY <1>0, <2>2, <2>4, <2>5 DEF SearchInv
\* The next page is asked for by a page that shows what it should.
<1>4. ASSUME Search!LoadMore PROVE SearchInv'
  <2>1. /\ hasMore /\ ~loading /\ Search!RunSearch(FALSE)
        /\ UNCHANGED <<query, mode, filter, works, users, counter, hasMore, saved, cut>>
    BY <1>4 DEF Search!LoadMore, Search!bar, Search!results
  <2>2. ~Asked
    BY <1>0, <2>1 DEF SpinnerInv, Asked
  <2>3. ShownWhole /\ query # None
    BY <2>1, <2>2 DEF SearchInv, ShownWhole, Whole, Search!Report
  <2>4. \A i \in DOMAIN loads' : loads'[i].live =>
          /\ loads'[i].fresh = FALSE /\ loads'[i].mode = mode'
          /\ loads'[i].page = counter' + 1 /\ loads'[i].search = Search!Search'
    BY <1>2, <2>1
  <2>5. ForNow'
    BY <2>1, <2>3, <2>4 DEF ForNow
  <2>6. SearchTypes' /\ SavedWhole' /\ ShownWhole'
    BY <1>1, <2>1, <2>3 DEF SearchTypes, SavedWhole, ShownWhole, Whole, Stays, ShownOf, SearchOf, Search!Report
  <2> QED
    BY <1>0, <2>5, <2>6 DEF SearchInv
\* A mode or a filter is chosen before anything was searched for.
<1>5. ASSUME UNCHANGED <<loading, loads, works, users, counter, hasMore, saved, cut, query>>,
             query = None, mode' \in {"works", "artists"}
      PROVE  SearchInv'
  <2>1. \A i \in DOMAIN loads : ~loads[i].live
    BY <1>5 DEF SearchInv, ForNow
  <2>2. ShownWhole
    BY <2>1 DEF SearchInv, Asked
  <2>3. ShownWhole'
    BY <1>5, <2>2 DEF ShownWhole, Whole, Stays, ShownOf, Search!Report
  <2>4. SearchTypes' /\ SavedWhole' /\ ForNow'
    BY <1>1, <1>5, <2>1 DEF SearchTypes, SavedWhole, Whole, Stays, ShownOf, SearchOf, ForNow
  <2> QED
    BY <1>0, <2>3, <2>4 DEF SearchInv
<1>6. ASSUME Search!Reopen PROVE SearchInv'
  <2>1. /\ query' = saved.query /\ mode' = saved.mode /\ filter' = saved.filter
        /\ works' = saved.works /\ users' = saved.users /\ counter' = saved.counter
        /\ hasMore' = saved.hasMore /\ saved' = saved
        /\ cut' = saved.cut
    BY <1>6 DEF Search!Reopen
  <2>2. SearchTypes' /\ SavedWhole'
    BY <1>1, <2>1 DEF SearchTypes, SavedWhole, Whole, Stays, ShownOf, SearchOf
  <2>3. CASE saved.query # None /\ saved.works = {} /\ saved.users = {}
    <3> DEFINE e == [live |-> TRUE, fresh |-> TRUE, mode |-> mode',
                     search |-> Search!Search', page |-> 1]
    <3>1. loads' = <<e>>
      BY <1>6, <2>3 DEF Search!Reopen
    <3>2. /\ e.fresh = TRUE /\ e.live = TRUE /\ e.mode = mode' /\ e.page = 1
          /\ e.search = Search!Search'
      OBVIOUS
    <3> HIDE DEF e
    <3>4. DOMAIN loads' = {1} /\ loads'[1] = e
      BY <3>1
    <3>3. ForNow' /\ Asked'
      BY <2>1, <2>3, <3>2, <3>4 DEF ForNow, Asked
    <3> QED
      BY <1>0, <2>2, <3>3 DEF SearchInv
  <2>4. CASE ~(saved.query # None /\ saved.works = {} /\ saved.users = {})
    <3>1. loads' = <<>>
      BY <1>6, <2>4 DEF Search!Reopen
    <3>2. ForNow'
      BY <3>1 DEF ForNow
    <3>4. ShownWhole'
      BY <1>1, <2>1 DEF SearchTypes, SavedWhole, ShownWhole, Whole, Stays, ShownOf, SearchOf, Search!Report
    <3> QED
      BY <1>0, <2>2, <3>2, <3>4 DEF SearchInv
  <2> QED
    BY <2>3, <2>4
<1>7. ASSUME Search!Save PROVE SearchInv'
  <2>1. /\ ~loading
        /\ UNCHANGED <<query, mode, filter, works, users, counter, hasMore, loading, loads, cut>>
    BY <1>7 DEF Search!Save, Search!bar, Search!results, Search!flags
  <2>2. PICK n \in WorksKept .. SearchPages :
          LET some == [works |-> Search!LastPages(works, n),
                       artists |-> Search!FirstPages(users, UsersKept)]
          IN saved' = [Search!Report EXCEPT !.works = some.works, !.users = some.artists,
                                            !.cut = cut \/ some[mode] # Search!Shown]
    BY <1>7 DEF Search!Save
  <2>3. PICK someWorks, someUsers :
          /\ someWorks = Search!LastPages(works, n)
          /\ someUsers = Search!FirstPages(users, UsersKept)
    OBVIOUS
  <2>4. /\ saved'.query = query /\ saved'.mode = mode /\ saved'.filter = filter
        /\ saved'.works = someWorks /\ saved'.users = someUsers /\ saved'.counter = counter
        /\ saved'.hasMore = hasMore
        /\ ~saved'.cut => ~cut /\ Search!Shown = IF mode = "works" THEN someWorks ELSE someUsers
    <3> DEFINE some == [works |-> someWorks, artists |-> someUsers]
    <3>1. some[mode] = IF mode = "works" THEN someWorks ELSE someUsers
      BY <1>1 DEF SearchTypes
    <3>2. PICK cutOff : cutOff = (cut \/ some[mode] # Search!Shown)
      OBVIOUS
    <3>3. saved' = [Search!Report EXCEPT !.works = someWorks, !.users = someUsers, !.cut = cutOff]
      BY <2>2, <2>3, <3>2
    <3> HIDE DEF some
    <3>4. /\ saved'.query = query /\ saved'.mode = mode /\ saved'.filter = filter
          /\ saved'.works = someWorks /\ saved'.users = someUsers /\ saved'.counter = counter
          /\ saved'.hasMore = hasMore /\ saved'.cut = cutOff
      BY <3>3 DEF Search!Report
    <3>5. ~cutOff => ~cut /\ Search!Shown = IF mode = "works" THEN someWorks ELSE someUsers
      BY <3>1, <3>2
    <3> QED
      BY <3>4, <3>5
  <2>5. ~Asked /\ ShownWhole
    BY <1>0, <2>1 DEF SpinnerInv, Asked, SearchInv
  <2>6. SearchTypes' /\ ShownWhole' /\ ForNow' /\ ~Asked'
    BY <1>1, <2>1, <2>4, <2>5
    DEF SearchTypes, ShownWhole, Whole, Stays, ShownOf, SearchOf, Search!Report, SearchInv, ForNow,
        Asked, Search!Search
  <2>7. SavedWhole'
    <3>1. PICK r : r = Search!Report
      OBVIOUS
    <3>2. PICK k : k = saved'
      OBVIOUS
    <3>3. /\ r.query = query /\ r.mode = mode /\ r.filter = filter /\ r.works = works
          /\ r.users = users /\ r.counter = counter /\ r.hasMore = hasMore /\ r.cut = cut
      BY <3>1 DEF Search!Report
    <3>4. /\ n \in Nat /\ n >= WorksKept /\ WorksKept \in Nat \ {0}
          /\ r.mode \in {"works", "artists"} /\ r.counter \in Nat
      BY <1>1, <3>3, ScreensAssumption DEF SearchTypes
    <3>5. /\ k.query = r.query /\ k.mode = r.mode /\ k.filter = r.filter /\ k.counter = r.counter
          /\ k.hasMore = r.hasMore
          /\ k.works = Search!LastPages(r.works, n)
          /\ k.users = Search!FirstPages(r.users, UsersKept)
      BY <2>3, <2>4, <3>2, <3>3
    <3>6. ~k.cut => ~r.cut /\ ShownOf(r) = ShownOf(k)
      BY <2>4, <3>2, <3>3 DEF ShownOf, Search!Shown
    <3>7. Whole(r)
      BY <2>5, <3>1 DEF ShownWhole
    <3>8. Whole(k)
      BY <3>4, <3>5, <3>6, <3>7, KeptStays
    <3> QED
      BY <3>2, <3>8 DEF SavedWhole
  <2> QED
    BY <1>0, <2>6, <2>7 DEF SearchInv
<1>8. CASE Search!LoadEnds
  <2>1. PICK i \in DOMAIN loads :
          Search!LoadFails(i) \/ \E found \in BOOLEAN : Search!PageArrives(i, found)
    BY <1>8 DEF Search!LoadEnds
  <2>2. /\ loads' = LeftOf(loads, i)
        /\ UNCHANGED <<query, mode, filter, saved>>
    BY <2>1 DEF Search!LoadFails, Search!PageArrives, Search!Without, Search!RemoveAt, LeftOf, Search!bar
  <2>3. \A j \in DOMAIN loads' : \E k \in DOMAIN loads \ {i} : loads'[j] = loads[k]
    <3>1. PICK S : loads \in Seq(S)
      BY <1>0 DEF Numbered
    <3> QED
      BY <2>2, <3>1, OneLeaves
  <2>4. SavedWhole' /\ saved' = saved
    BY <1>1, <2>2 DEF SavedWhole, Whole, Stays, ShownOf, SearchOf
  <2>5. CASE ~loads[i].live
    <3>1. UNCHANGED <<works, users, counter, hasMore, cut>>
      BY <2>1, <2>5 DEF Search!LoadFails, Search!PageArrives, Search!results
    <3>2. ForNow'
      BY <2>2, <2>3, <3>1 DEF SearchInv, ForNow, Search!Search
    <3>3. Asked => Asked'
      <4> SUFFICES ASSUME NEW k \in DOMAIN loads, loads[k].live, loads[k].fresh PROVE Asked'
        BY DEF Asked
      <4>1. PICK S : loads \in Seq(S)
        BY <1>0 DEF Numbered
      <4>2. k \in DOMAIN loads \ {i}
        BY <2>5
      <4>3. PICK j \in DOMAIN LeftOf(loads, i) : From(i, j) = k
        BY <4>1, <4>2, OneLeaves
      <4>4. LeftOf(loads, i)[j] = loads[k]
        BY <4>1, <4>3, OneLeaves
      <4> QED
        BY <2>2, <4>4 DEF Asked
    <3>4. SearchTypes' /\ (ShownWhole => ShownWhole')
      BY <1>1, <2>2, <3>1 DEF SearchTypes, ShownWhole, Whole, Stays, ShownOf, SearchOf, Search!Report
    <3> QED
      BY <1>0, <2>4, <3>2, <3>3, <3>4 DEF SearchInv
  <2>6. CASE loads[i].live
    <3>1. \A j \in DOMAIN loads' : ~loads'[j].live
      BY <1>0, <2>3, <2>6 DEF SpinnerInv
    <3>2. ForNow' /\ ~Asked'
      BY <3>1 DEF ForNow, Asked
    <3>3. /\ loads[i].search = Search!Search /\ loads[i].mode = mode /\ query # None
          /\ loads[i].fresh \in BOOLEAN
          /\ loads[i].fresh => loads[i].page = 1
          /\ ~loads[i].fresh => loads[i].page = counter + 1 /\ hasMore /\ ShownWhole
      <4>1. ~loads[i].fresh => ~Asked
        BY <1>0, <2>6 DEF SpinnerInv, Asked
      <4> QED
        BY <2>6, <4>1 DEF SearchInv, ForNow
    <3> SUFFICES SearchTypes' /\ ShownWhole'
      BY <1>0, <2>4, <3>2 DEF SearchInv
    <3>4. CASE Search!LoadFails(i)
      <4>1. CASE loads[i].fresh
        <5>1. /\ works' = {} /\ users' = {} /\ counter' = 0 /\ hasMore' = FALSE
              /\ query' # None /\ mode' = mode /\ saved' = saved
          BY <2>2, <2>6, <3>3, <3>4, <4>1 DEF Search!LoadFails, Search!ResultsCleared
        <5>2. SearchTypes'
          BY <1>1, <5>1 DEF SearchTypes
        <5>3. ShownWhole'
          BY <5>1 DEF ShownWhole, Whole, Stays, ShownOf, Search!Report
        <5> QED
          BY <5>2, <5>3
      <4>2. CASE ~loads[i].fresh
        <5>1. UNCHANGED <<works, users, counter, hasMore, cut>>
          BY <2>6, <3>4, <4>2 DEF Search!LoadFails, Search!results
        <5> QED
          BY <1>1, <2>2, <3>3, <4>2, <5>1 DEF SearchTypes, ShownWhole, Whole, Stays, ShownOf, SearchOf, Search!Report
      <4> QED
        BY <3>3, <4>1, <4>2
    <3>5. ASSUME NEW found \in BOOLEAN, Search!PageArrives(i, found) PROVE SearchTypes' /\ ShownWhole'
      <4> DEFINE new == IF found THEN {[search |-> Search!Search, page |-> loads[i].page]} ELSE {}
                 added == IF loads[i].fresh THEN new ELSE Search!Shown \cup new
                 n == loads[i].page
      <4>1. /\ ~found => n = 1
            /\ counter' = n /\ hasMore' = (found /\ n < SearchPages)
            /\ cut' = (cut /\ ~loads[i].fresh)
            /\ mode = "works" => works' = added
            /\ mode = "artists" => users' = added
        BY <2>6, <3>3, <3>5 DEF Search!PageArrives, Search!Shown
      <4>2. n \in Nat \ {0} /\ n \in 1 .. n
        BY <1>1, <3>3 DEF SearchTypes
      <4>3. new \subseteq PagesOf(Search!Search, n)
        BY <4>2 DEF PagesOf
      <4>4. added \subseteq PagesOf(Search!Search, n)
        <5>1. CASE loads[i].fresh
          BY <4>3, <5>1
        <5>2. CASE ~loads[i].fresh
          <6>1. Search!Shown \subseteq PagesOf(Search!Search, counter)
            BY <3>3, <5>2 DEF ShownWhole, Whole, Stays, ShownOf, SearchOf, Search!Shown, Search!Search, Search!Report
          <6>2. n = counter + 1 /\ counter \in Nat /\ 1 .. counter \subseteq 1 .. n
            BY <1>1, <3>3, <5>2 DEF SearchTypes
          <6>3. PagesOf(Search!Search, counter) \subseteq PagesOf(Search!Search, n)
            BY <6>2 DEF PagesOf
          <6> QED
            BY <4>3, <5>2, <6>1, <6>3
        <5> QED
          BY <5>1, <5>2
      <4>a. PICK old, rep : old = Search!Report /\ rep = Search!Report'
        OBVIOUS
      <4>b. /\ query' = query /\ mode' = mode /\ filter' = filter /\ query # None
            /\ mode \in {"works", "artists"}
        BY <1>1, <2>2, <3>3 DEF SearchTypes
      <4>c. /\ rep.query = query /\ rep.mode = mode /\ rep.counter = n /\ rep.hasMore = hasMore'
            /\ rep.cut = (cut /\ ~loads[i].fresh)
            /\ ShownOf(rep) = added /\ SearchOf(rep) = Search!Search
        BY <4>1, <4>a, <4>b DEF ShownOf, SearchOf, Search!Search, Search!Report
      <4>d. /\ old.mode = mode /\ old.counter = counter /\ old.hasMore = hasMore /\ old.cut = cut
            /\ ShownOf(old) = Search!Shown /\ SearchOf(old) = Search!Search
        BY <4>a DEF ShownOf, SearchOf, Search!Shown, Search!Search, Search!Report
      <4>5. ASSUME found, NEW k \in 1 .. n, Stays(rep, k)
            PROVE  [search |-> Search!Search, page |-> k] \in added
        <5>1. CASE k = n
          BY <4>5, <5>1
        <5>2. CASE k # n
          <6>1. ~loads[i].fresh /\ n = counter + 1 /\ counter \in Nat /\ k \in 1 .. counter /\ hasMore
            BY <1>1, <3>3, <5>2 DEF SearchTypes
          <6>2. \A m \in 1 .. counter : Stays(old, m) =>
                  [search |-> Search!Search, page |-> m] \in Search!Shown
            BY <3>3, <4>a, <4>d, <6>1 DEF ShownWhole, Whole
          <6>3. Stays(old, k)
            <7>1. (\E p \in added : p.page < k) => \E p \in Search!Shown : p.page < k
              BY <4>5, <6>1
            <7>2. k + WorksKept > n => k + WorksKept > counter
              BY <6>1, ScreensAssumption
            <7> QED
              BY <4>5, <4>c, <4>d, <6>1, <7>1, <7>2 DEF Stays
          <6> QED
            BY <6>1, <6>2, <6>3
        <5> QED
          BY <5>1, <5>2
      <4>6. ~found => added = {}
        <5> SUFFICES ASSUME ~found, ~loads[i].fresh PROVE added = {}
          OBVIOUS
        <5>1. counter = 0
          BY <1>1, <3>3, <4>1 DEF SearchTypes
        <5>2. Search!Shown \subseteq PagesOf(Search!Search, 0)
          BY <3>3, <5>1 DEF ShownWhole, Whole, Stays, ShownOf, SearchOf, Search!Shown, Search!Search, Search!Report
        <5>3. PagesOf(Search!Search, 0) = {}
          BY DEF PagesOf
        <5> QED
          BY <5>2, <5>3
      <4>7. found \/ (added = {} /\ ~hasMore')
        BY <4>1, <4>6
      <4>8. SearchTypes'
        BY <1>1, <2>2, <2>4, <4>1, <4>2 DEF SearchTypes
      <4> HIDE DEF added, new
      <4>9. ShownWhole'
        <5>1. Whole(rep)
          BY <4>4, <4>5, <4>7, <4>b, <4>c DEF Whole
        <5> QED
          BY <4>a, <5>1 DEF ShownWhole
      <4> QED
        BY <4>8, <4>9
    <3> QED
      BY <2>1, <3>4, <3>5
  <2> QED
    BY <2>5, <2>6
<1>9. CASE UNCHANGED <<search, loader, errors, taps>>
  <2>1. UNCHANGED <<loads, query, mode, filter, works, users, counter, hasMore, saved, cut>>
    BY <1>9 DEF search, loader
  <2>2. SearchTypes' /\ SavedWhole' /\ ForNow' /\ (ShownWhole => ShownWhole') /\ (Asked => Asked')
    BY <1>1, <2>1 DEF SearchInv, SearchTypes, SavedWhole, ShownWhole, Whole, Stays, ShownOf, SearchOf,
                      Search!Report, ForNow, Asked, Search!Search
  <2> QED
    BY <1>0, <2>2 DEF SearchInv
<1>10. CASE Search!User
  <2>1. ASSUME NEW q \in Queries, Search!Submit(q) PROVE SearchInv'
    <3>1. query' # None
      BY <2>1, ScreensAssumption DEF Search!Submit
    <3>2. mode' \in {"works", "artists"}
      BY <1>1, <2>1 DEF Search!Submit, SearchTypes
    <3> QED
      BY <1>3, <2>1, <3>1, <3>2 DEF Search!Submit, Search!results
  <2>2. ASSUME Search!Again, query' = query, mode' \in {"works", "artists"},
               UNCHANGED <<works, users, counter, hasMore, saved, cut>>
        PROVE  SearchInv'
    <3>1. CASE query # None
      BY <1>3, <2>2, <3>1 DEF Search!Again
    <3>2. CASE query = None
      BY <1>5, <2>2, <3>2 DEF Search!Again, Search!Idle, Search!flags
    <3> QED
      BY <3>1, <3>2
  <2>3. ASSUME NEW m \in {"works", "artists"}, Search!SwitchMode(m) PROVE SearchInv'
    BY <2>2, <2>3 DEF Search!SwitchMode, Search!results
  <2>4. ASSUME NEW f \in Filters, Search!ChangeFilter(f) PROVE SearchInv'
    <3>1. mode' \in {"works", "artists"}
      BY <1>1, <2>4 DEF Search!ChangeFilter, SearchTypes
    <3> QED
      BY <2>2, <2>4, <3>1 DEF Search!ChangeFilter, Search!results
  <2>5. ASSUME Search!Retry PROVE SearchInv'
    BY <1>4, <2>5 DEF Search!Retry
  <2> QED
    BY <1>6, <1>10, <2>1, <2>3, <2>4, <2>5 DEF Search!User
<1> QED
  BY <1>4, <1>7, <1>8, <1>9, <1>10 DEF Search!Next, Search!SentinelFires

-----------------------------------------------------------------------------
(* The feed holds what is selected, each work once.                        *)

\* What a filter of the feed leaves.
LEMMA FeedFiltered ==
  ASSUME NEW s, NEW keep
  PROVE  Feed!Filtered(s, keep) = [k \in 1 .. Cardinality(keep) |-> s[At(keep, k)]]
<1>1. Feed!Cardinality(keep) = Cardinality(keep)
  BY Zenon DEF Feed!Cardinality, Cardinality
<1>2. ASSUME NEW k PROVE Feed!At(keep, k) = At(keep, k)
  BY Zenon DEF Feed!At, At, Feed!Place, Place, Feed!Cardinality, Cardinality
<1> QED
  BY <1>1, <1>2 DEF Feed!Filtered

\* The new works of a page are added once each.
LEMMA InSomeOrder ==
  ASSUME IsFiniteSet(Works), NEW S \in SUBSET Works
  PROVE  \E n \in Nat :
           /\ Feed!SetToSeq(S) \in [1 .. n -> S]
           /\ \A k, l \in 1 .. n : Feed!SetToSeq(S)[k] = Feed!SetToSeq(S)[l] => k = l
           /\ \A x \in S : \E k \in 1 .. n : Feed!SetToSeq(S)[k] = x
<1>1. IsFiniteSet(S)
  BY FS_Subset
<1>2. PICK n \in Nat : n = Cardinality(S) /\ ExistsBijection(1 .. n, S)
  BY <1>1, FS_CardinalityType
<1>3. PICK g \in Bijection(1 .. n, S) : TRUE
  BY <1>2 DEF ExistsBijection
<1>4. g \in [1 .. n -> S] /\ \A a, b \in DOMAIN g : g[a] = g[b] => a = b
  BY <1>3 DEF Bijection, Injection, IsInjective
<1>5. Feed!Cardinality(S) = n
  <2>1. Feed!Cardinality(S) = Cardinality(S)
    BY Zenon DEF Feed!Cardinality, Cardinality
  <2> QED
    BY <1>2, <2>1
<1>6. Feed!SetToSeq(S) = CHOOSE f \in [1 .. n -> S] : \A a, b \in DOMAIN f : f[a] = f[b] => a = b
  BY <1>5, Zenon DEF Feed!SetToSeq, Feed!IsInjective
<1> PICK t : t = Feed!SetToSeq(S)
  OBVIOUS
<1>7. t \in [1 .. n -> S] /\ \A a, b \in DOMAIN t : t[a] = t[b] => a = b
  BY <1>4, <1>6
<1>8. t \in Injection(1 .. n, S)
  BY <1>7, Zenon DEF Injection, IsInjective
<1>9. t \in Surjection(1 .. n, S)
  BY <1>1, <1>2, <1>8, UpTo, FS_Injection
<1>10. \A x \in S : \E k \in 1 .. n : t[k] = x
  BY <1>9 DEF Surjection
<1> QED
  BY <1>7, <1>10

OnFeed == {illusts[i].work : i \in DOMAIN illusts}
\* No work is on the list twice, all are of the feed, and none seen is missing but
\* what was dropped.
FeedList ==
  /\ \E S : illusts \in Seq(S)
  /\ \A i \in DOMAIN illusts : illusts[i].feed = Feed!Feed
  /\ \A i, j \in DOMAIN illusts : illusts[i].work = illusts[j].work => i = j
  /\ carried = seenIds /\ OnFeed \subseteq seenIds /\ carried \ dropped \subseteq OnFeed
\* The current request is for the feed, and so is the cursor.
FeedCursor ==
  /\ nextUrl # None => nextUrl.feed = Feed!Feed
  /\ \A i \in DOMAIN loads : loads[i].live => loads[i].feed = Feed!Feed
FeedInv ==
  /\ SpinnerInv /\ FeedList /\ FeedCursor
  /\ booted \/ (illusts = <<>> /\ nextUrl = None /\ loads = <<>>)

LEMMA FeedOnList == Feed!OnList = OnFeed
<1> DEFINE items == {illusts[i] : i \in DOMAIN illusts}
<1>2. \A w : w \in OnFeed <=> \E item \in items : item.work = w
  BY DEF OnFeed
<1> HIDE DEF items
<1>1. OnFeed = {item.work : item \in items}
  BY <1>2
<1> USE DEF items
<1> QED
  BY <1>1, Zenon DEF Feed!OnList, Feed!Range

LEMMA FeedShown == FeedInv => Feed!ShowsSelected
  BY FeedOnList DEF FeedInv, FeedList, FeedCursor, Feed!ShowsSelected

LEMMA NothingListed ==
  ASSUME illusts' = <<>>, seenIds' = {}, carried' = {} PROVE FeedList'
<1>1. <<>> \in Seq({}) /\ DOMAIN <<>> = {}
  OBVIOUS
<1>2. illusts' \in Seq({}) /\ DOMAIN illusts' = {}
  BY <1>1
<1> QED
  BY <1>2 DEF FeedList, OnFeed

LEMMA FeedDrops ==
  ASSUME FeedList, NEW gone_, Feed!Drop(gone_), Feed!Feed' = Feed!Feed PROVE FeedList'
<1>1. PICK n \in Nat : DOMAIN illusts = 1 .. n
  BY DEF FeedList
<1> DEFINE left == {i \in DOMAIN illusts : illusts[i].work \notin gone_}
<1>2. PICK keep \in SUBSET (1 .. n) : keep = left
  BY <1>1
<1>3. illusts' = Feed!Filtered(illusts, keep)
  BY <1>2 DEF Feed!Drop
<1>4. PICK m \in Nat : m = Cardinality(keep)
  BY PlacesCount
<1> PICK at : at = [k \in 1 .. m |-> At(keep, k)]
  OBVIOUS
<1>6. /\ at \in [1 .. m -> keep]
      /\ \A k, l \in 1 .. m : at[k] = at[l] => k = l
      /\ \A i \in keep : \E k \in 1 .. m : at[k] = i
  <2>1. /\ \A k \in 1 .. m : At(keep, k) \in keep
        /\ \A k, l \in 1 .. m : At(keep, k) = At(keep, l) => k = l
        /\ \A i \in keep : \E k \in 1 .. m : At(keep, k) = i
    <3>1. /\ \A k \in 1 .. Cardinality(keep) : At(keep, k) \in keep
          /\ \A k, l \in 1 .. Cardinality(keep) : At(keep, k) = At(keep, l) => k = l
          /\ \A i \in keep : \E k \in 1 .. Cardinality(keep) : At(keep, k) = i
      BY PlacesCount, Zenon
    <3> QED
      BY <1>4, <3>1
  <2> QED
    BY <2>1
<1>5. illusts' = [k \in 1 .. m |-> illusts[at[k]]]
  <2>1. illusts' = [k \in 1 .. m |-> illusts[At(keep, k)]]
    BY <1>3, <1>4, FeedFiltered
  <2> QED
    BY <2>1
<1>7. \A i \in keep : i \in DOMAIN illusts /\ illusts[i].work \notin gone_
  BY <1>2
<1>8. \A i \in DOMAIN illusts : illusts[i].work \notin gone_ => i \in keep
  BY <1>2
<1> HIDE DEF left
<1>9. /\ DOMAIN illusts' = 1 .. m
      /\ \A k \in 1 .. m : illusts'[k] = illusts[at[k]]
  BY <1>5
<1>10. illusts' \in Seq({illusts[i] : i \in DOMAIN illusts})
  <2>1. \A k \in 1 .. m : illusts[at[k]] \in {illusts[i] : i \in DOMAIN illusts}
    BY <1>6, <1>7
  <2> QED
    BY <1>4, <1>5, <2>1, IsASeq
<1>11. /\ seenIds' = seenIds /\ carried' = carried /\ dropped' = dropped \cup (gone_ \cap OnFeed)
  BY FeedOnList DEF Feed!Drop
<1>20. ASSUME NEW i \in DOMAIN illusts'
       PROVE  /\ i \in 1 .. m /\ at[i] \in keep /\ at[i] \in DOMAIN illusts
              /\ illusts'[i] = illusts[at[i]] /\ illusts[at[i]].work \notin gone_
  <2>1. i \in 1 .. m
    BY <1>9
  <2>2. at[i] \in keep
    BY <1>6, <2>1
  <2> QED
    BY <1>7, <1>9, <2>1, <2>2
<1>12. ASSUME NEW i \in DOMAIN illusts' PROVE illusts'[i].feed = Feed!Feed
  <2>1. illusts[at[i]].feed = Feed!Feed
    BY <1>20 DEF FeedList
  <2> QED
    BY <1>20, <2>1
<1>13. ASSUME NEW i \in DOMAIN illusts', NEW j \in DOMAIN illusts', illusts'[i].work = illusts'[j].work
       PROVE  i = j
  <2>1. illusts[at[i]].work = illusts[at[j]].work
    BY <1>13, <1>20
  <2>2. at[i] = at[j]
    BY <1>20, <2>1 DEF FeedList
  <2> QED
    BY <1>6, <1>20, <2>2
<1>14. OnFeed' = OnFeed \ gone_
  <2>1. ASSUME NEW i \in DOMAIN illusts' PROVE illusts'[i].work \in OnFeed \ gone_
    BY <1>20 DEF OnFeed
  <2>2. ASSUME NEW i \in DOMAIN illusts, illusts[i].work \notin gone_
        PROVE  \E k \in DOMAIN illusts' : illusts'[k].work = illusts[i].work
    <3>1. PICK k \in 1 .. m : at[k] = i
      BY <1>6, <1>8, <2>2
    <3> QED
      BY <1>9, <3>1
  <2> QED
    BY <2>1, <2>2 DEF OnFeed
<1> QED
  BY <1>10, <1>11, <1>12, <1>13, <1>14 DEF FeedList

\* The new works of a page join the list.
LEMMA FeedAdds ==
  ASSUME FeedList, FeedCursor, NEW i_ \in DOMAIN loads, loads[i_].live, NEW works_ \in SUBSET Works,
         NEW more_, Feed!PageArrives(i_, works_, more_)
  PROVE  FeedList'
<1>0. PICK shown \in SUBSET Works, new \in SUBSET Works :
        shown = Feed!FilterBlockedTags(works_) /\ new = shown \ seenIds
  BY DEF Feed!FilterBlockedTags
<1> PICK t : t = Feed!SetToSeq(new)
  OBVIOUS
<1> PICK f : f = loads[i_].feed
  OBVIOUS
<1>1. /\ f = Feed!Feed /\ Feed!Feed' = Feed!Feed
      /\ illusts' = illusts \o [k \in DOMAIN t |-> [work |-> t[k], feed |-> f]]
      /\ seenIds' = seenIds \cup shown /\ carried' = carried \cup shown /\ dropped' = dropped
  <2>1. Feed!DedupeSeen(shown) = new
    BY <1>0 DEF Feed!DedupeSeen
  <2>2. f = Feed!Feed
    BY DEF FeedCursor
  <2>3. Feed!Feed' = Feed!Feed
    BY DEF Feed!PageArrives, Feed!picked, Feed!Feed
  <2> QED
    BY <1>0, <2>1, <2>2, <2>3, Zenon DEF Feed!PageArrives
<1>2. PICK n \in Nat :
        /\ t \in [1 .. n -> new]
        /\ \A k, l \in 1 .. n : t[k] = t[l] => k = l
        /\ \A x \in new : \E k \in 1 .. n : t[k] = x
  <2>1. \E n \in Nat :
          /\ Feed!SetToSeq(new) \in [1 .. n -> new]
          /\ \A k, l \in 1 .. n : Feed!SetToSeq(new)[k] = Feed!SetToSeq(new)[l] => k = l
          /\ \A x \in new : \E k \in 1 .. n : Feed!SetToSeq(new)[k] = x
    BY ScreensAssumption, InSomeOrder
  <2> QED
    BY <2>1
<1>3. PICK more : more = [k \in 1 .. n |-> [work |-> t[k], feed |-> f]]
  OBVIOUS
<1>4. illusts' = illusts \o more
  <2>1. DOMAIN t = 1 .. n
    BY <1>2
  <2> QED
    BY <1>1, <1>3, <2>1
<1>5. DOMAIN more = 1 .. n /\ \A k \in 1 .. n : more[k].work = t[k] /\ more[k].feed = f
  BY <1>3
<1>6. PICK S : illusts \in Seq(S) /\ more \in Seq(S)
  <2>1. PICK T : illusts \in Seq(T)
    BY DEF FeedList
  <2>2. PICK U : U = {more[k] : k \in 1 .. n}
    OBVIOUS
  <2>3. more \in Seq(U)
    <3>1. \A k \in 1 .. n : more[k] \in U
      BY <2>2
    <3>2. more = [k \in 1 .. n |-> more[k]]
      BY <1>3
    <3> QED
      BY <3>1, <3>2, IsASeq
  <2>4. illusts \in Seq(T \cup U) /\ more \in Seq(T \cup U)
    BY <2>1, <2>3, SeqMonotonic
  <2> QED
    BY <2>4
<1>7. PICK m \in Nat : m = Len(illusts) /\ DOMAIN illusts = 1 .. m
  BY <1>6
<1>8. Len(more) = n
  BY <1>5, <1>6
<1>9. /\ illusts' \in Seq(S) /\ DOMAIN illusts' = 1 .. (m + n)
      /\ \A i \in 1 .. m : illusts'[i] = illusts[i]
      /\ \A k \in 1 .. n : illusts'[m + k] = more[k]
  <2>1. illusts \o more \in Seq(S) /\ Len(illusts \o more) = m + n
    BY <1>6, <1>7, <1>8, ConcatProperties
  <2>2. \A i \in 1 .. m : (illusts \o more)[i] = illusts[i]
    BY <1>6, <1>7, <1>8, ConcatProperties
  <2>3. \A k \in 1 .. n : m + k \in 1 .. (m + n) /\ m + k > m /\ (m + k) - m = k
    BY <1>7
  <2>4. \A k \in 1 .. n : (illusts \o more)[m + k] = more[k]
    BY <1>6, <1>7, <1>8, <2>3, ConcatProperties
  <2> QED
    BY <1>4, <2>1, <2>2, <2>4
\* An entry was there or is one of the new works.
<1>10. ASSUME NEW i \in DOMAIN illusts'
       PROVE  \/ /\ i \in DOMAIN illusts /\ illusts'[i] = illusts[i]
                 /\ illusts'[i].work \in OnFeed
              \/ /\ i - m \in 1 .. n /\ m + (i - m) = i /\ illusts'[i].feed = f
                 /\ illusts'[i].work = t[i - m] /\ t[i - m] \in new
  <2>1. CASE i \in 1 .. m
    <3>1. i \in DOMAIN illusts /\ illusts'[i] = illusts[i]
      BY <1>7, <1>9, <2>1
    <3> QED
      BY <3>1 DEF OnFeed
  <2>2. CASE i \notin 1 .. m
    <3>1. i - m \in 1 .. n /\ m + (i - m) = i
      BY <1>7, <1>9, <2>2
    <3>2. illusts'[i] = more[i - m]
      BY <1>9, <3>1
    <3>3. t[i - m] \in new
      BY <1>2, <3>1
    <3> QED
      BY <1>5, <3>1, <3>2, <3>3
  <2> QED
    BY <2>1, <2>2
<1>13. ASSUME NEW i \in DOMAIN illusts' PROVE illusts'[i].feed = Feed!Feed
  BY <1>1, <1>10 DEF FeedList
<1>14. new \cap OnFeed = {} /\ OnFeed \subseteq seenIds /\ carried = seenIds
       /\ carried \ dropped \subseteq OnFeed
  BY <1>0 DEF FeedList
<1>15. ASSUME NEW i \in DOMAIN illusts', NEW j \in DOMAIN illusts', illusts'[i].work = illusts'[j].work
       PROVE  i = j
  <2>1. CASE i \in DOMAIN illusts /\ j \in DOMAIN illusts
    BY <1>7, <1>9, <1>15, <2>1 DEF FeedList
  <2>2. CASE i \notin DOMAIN illusts /\ j \notin DOMAIN illusts
    <3>1. i - m \in 1 .. n /\ m + (i - m) = i /\ j - m \in 1 .. n /\ m + (j - m) = j
      BY <1>10, <2>2
    <3>2. t[i - m] = t[j - m]
      BY <1>10, <1>15, <2>2
    <3>3. i - m = j - m
      BY <1>2, <3>1, <3>2
    <3> QED
      BY <3>1, <3>3
  <2>3. CASE i \in DOMAIN illusts /\ j \notin DOMAIN illusts
    <3>1. illusts'[j].work \in new
      BY <1>10, <2>3
    <3>2. illusts'[i].work \in OnFeed
      BY <1>7, <1>9, <2>3 DEF OnFeed
    <3> QED
      BY <1>14, <1>15, <3>1, <3>2
  <2>4. CASE i \notin DOMAIN illusts /\ j \in DOMAIN illusts
    <3>1. illusts'[i].work \in new
      BY <1>10, <2>4
    <3>2. illusts'[j].work \in OnFeed
      BY <1>7, <1>9, <2>4 DEF OnFeed
    <3> QED
      BY <1>14, <1>15, <3>1, <3>2
  <2> QED
    BY <2>1, <2>2, <2>3, <2>4
<1>16. OnFeed' = OnFeed \cup new
  <2>1. ASSUME NEW i \in DOMAIN illusts' PROVE illusts'[i].work \in OnFeed \cup new
    BY <1>10
  <2>2. ASSUME NEW i \in DOMAIN illusts PROVE i \in DOMAIN illusts' /\ illusts'[i].work = illusts[i].work
    BY <1>7, <1>9
  <2>3. ASSUME NEW x \in new PROVE \E i \in DOMAIN illusts' : illusts'[i].work = x
    <3>1. PICK k \in 1 .. n : t[k] = x
      BY <1>2
    <3>2. m + k \in DOMAIN illusts' /\ illusts'[m + k] = more[k]
      BY <1>7, <1>9
    <3> QED
      BY <1>5, <3>1, <3>2
  <2> QED
    BY <2>1, <2>2, <2>3 DEF OnFeed
<1>17. OnFeed' \subseteq seenIds' /\ carried' = seenIds' /\ carried' \ dropped' \subseteq OnFeed'
  BY <1>0, <1>1, <1>14, <1>16
<1> QED
  BY <1>1, <1>9, <1>13, <1>15, <1>17 DEF FeedList

LEMMA FeedListInit == Feed!Init => FeedInv
<1> SUFFICES ASSUME Feed!Init PROVE FeedInv
  OBVIOUS
<1>1. illusts = <<>> /\ seenIds = {} /\ carried = {} /\ dropped = {} /\ nextUrl = None /\ loads = <<>>
  BY DEF Feed!Init
<1>2. <<>> \in Seq({}) /\ DOMAIN <<>> = {}
  OBVIOUS
<1>3. illusts \in Seq({}) /\ DOMAIN illusts = {} /\ DOMAIN loads = {}
  BY <1>1, <1>2
<1>4. SpinnerInv
  BY <1>1, NoRequests DEF Feed!Init
<1> QED
  BY <1>1, <1>3, <1>4 DEF FeedInv, FeedList, FeedCursor, OnFeed

LEMMA FeedListNext ==
  FeedInv /\ [Feed!Next]_<<feed, loader, listed, taps>> => FeedInv'
<1> SUFFICES ASSUME FeedInv, [Feed!Next]_<<feed, loader, listed, taps>> PROVE FeedInv'
  OBVIOUS
<1>0. SpinnerInv /\ SpinnerInv' /\ Numbered(loads) /\ FeedList /\ FeedCursor
  BY FeedNext DEF FeedInv, SpinnerInv
<1>1. ASSUME NEW cursor, Feed!Request(cursor), NEW i \in DOMAIN loads', loads'[i].live
      PROVE  loads'[i].feed = Feed!Feed'
  <2> DEFINE e == [live |-> TRUE, feed |-> Feed!Feed', page |-> Feed!PageAt(cursor)]
  <2>1. e.feed = Feed!Feed'
    OBVIOUS
  <2>2. loads' = Append([j \in DOMAIN loads |-> [loads[j] EXCEPT !.live = FALSE]], e)
    BY <1>1 DEF Feed!Request, Feed!Superseded
  <2> HIDE DEF e
  <2>3. loads'[i] = e
    BY <1>0, <1>1, <2>2, LastIsLive
  <2> QED
    BY <2>1, <2>3
<1>2. ASSUME Feed!Reload, booted' PROVE FeedInv'
  <2>1. Feed!Request(None) /\ nextUrl' = None /\ illusts' = <<>> /\ seenIds' = {} /\ carried' = {}
    BY <1>2 DEF Feed!Reload, Feed!LoadingAfterReset, Feed!SeenAfterReset
  <2>2. FeedCursor'
    BY <1>1, <2>1 DEF FeedCursor
  <2>3. FeedList'
    BY <2>1, NothingListed
  <2> QED
    BY <1>0, <1>2, <2>2, <2>3 DEF FeedInv
\* What a step that leaves tab, pill and list alone must keep.
<1>3. ASSUME UNCHANGED <<tab, pill, illusts, seenIds, carried, dropped>>
      PROVE  FeedList' /\ Feed!Feed' = Feed!Feed
  <2>1. Feed!Feed' = Feed!Feed
    BY <1>3 DEF Feed!Feed
  <2>2. OnFeed' = OnFeed
    BY <1>3 DEF OnFeed
  <2> QED
    BY <1>0, <1>3, <2>1, <2>2 DEF FeedList
<1>4. ASSUME Feed!LoadMore, booted PROVE FeedInv'
  <2>1. /\ UNCHANGED <<tab, pill, illusts, seenIds, carried, dropped, nextUrl, booted>>
        /\ Feed!Request(nextUrl)
    BY <1>4 DEF Feed!LoadMore, Feed!picked, Feed!list, Feed!gate
  <2>2. FeedList' /\ Feed!Feed' = Feed!Feed
    BY <1>3, <2>1
  <2>3. FeedCursor'
    BY <1>0, <1>1, <2>1, <2>2 DEF FeedCursor
  <2> QED
    BY <1>0, <1>4, <2>1, <2>2, <2>3 DEF FeedInv
<1>5. ASSUME NEW gone_, Feed!Drop(gone_), booted,
             UNCHANGED <<tab, pill, nextUrl, loading, loads, booted>>
      PROVE  FeedInv'
  <2>1. Feed!Feed' = Feed!Feed
    BY <1>5 DEF Feed!Feed
  <2>2. FeedList'
    BY <1>0, <1>5, <2>1, FeedDrops
  <2>3. FeedCursor'
    BY <1>0, <1>5, <2>1 DEF FeedCursor
  <2> QED
    BY <1>0, <1>5, <2>2, <2>3 DEF FeedInv
\* What a step that only locks or opens the gate, or nothing, keeps.
<1>6. ASSUME UNCHANGED <<tab, pill, illusts, seenIds, carried, dropped, nextUrl, loads>>,
             booted => booted'
      PROVE  FeedInv'
  <2>1. FeedList' /\ Feed!Feed' = Feed!Feed
    BY <1>3, <1>6
  <2>2. FeedCursor'
    BY <1>0, <1>6, <2>1 DEF FeedCursor
  <2> QED
    BY <1>0, <1>6, <2>1, <2>2 DEF FeedInv
<1>7. CASE Feed!Unlock
  <2>1. CASE booted
    BY <1>6, <1>7, <2>1 DEF Feed!Unlock, Feed!picked, Feed!list, Feed!page
  <2>2. CASE ~booted
    <3>1. /\ UNCHANGED <<illusts, seenIds, carried, dropped, nextUrl>> /\ booted'
          /\ Feed!Request(None)
      BY <1>7, <2>2 DEF Feed!Unlock, Feed!list
    <3>2. illusts = <<>> /\ nextUrl = None
      BY <2>2 DEF FeedInv
    <3>3. FeedCursor'
      BY <1>1, <3>1, <3>2 DEF FeedCursor
    <3>4. DOMAIN illusts = {} /\ OnFeed' = OnFeed
      BY <3>1, <3>2 DEF OnFeed
    <3>5. FeedList'
      BY <1>0, <3>1, <3>4 DEF FeedList
    <3> QED
      BY <1>0, <3>1, <3>3, <3>5 DEF FeedInv
  <2> QED
    BY <2>1, <2>2
<1>8. CASE Feed!User
  <2>1. booted
    BY <1>8 DEF Feed!User
  <2>2. ASSUME NEW t \in Tabs, Feed!ChangeFeedType(t) PROVE FeedInv'
    BY <1>2, <2>1, <2>2 DEF Feed!ChangeFeedType, Feed!gate
  <2>3. ASSUME NEW p, Feed!ChangePill(p) PROVE FeedInv'
    BY <1>2, <2>1, <2>3 DEF Feed!ChangePill, Feed!gate
  <2>4. ASSUME Feed!Retry PROVE FeedInv'
    BY <1>4, <2>1, <2>4 DEF Feed!Retry
  <2>5. ASSUME Feed!Relock PROVE FeedInv'
    BY <1>6, <2>5 DEF Feed!Relock, Feed!picked, Feed!list, Feed!page
  <2>6. ASSUME NEW w \in SUBSET Works, Feed!BlockedTags(w) PROVE FeedInv'
    BY <1>5, <2>1, <2>6 DEF Feed!BlockedTags, Feed!picked, Feed!page, Feed!gate
  <2>7. ASSUME NEW w \in Works, Feed!Unlike(w) PROVE FeedInv'
    BY <1>5, <2>1, <2>7 DEF Feed!Unlike, Feed!picked, Feed!page, Feed!gate
  <2> QED
    BY <1>8, <2>2, <2>3, <2>4, <2>5, <2>6, <2>7 DEF Feed!User
<1>9. CASE Feed!SentinelFires
  <2>1. booted
    BY <1>9 DEF Feed!SentinelFires, Feed!CanLoad, FeedInv
  <2> QED
    BY <1>4, <1>9, <2>1 DEF Feed!SentinelFires
<1>10. CASE Feed!LoadEnds
  <2>1. PICK i \in DOMAIN loads :
          \/ \E w \in SUBSET Works, more \in BOOLEAN : Feed!PageArrives(i, w, more)
          \/ \E how \in {"http", "gate-locked"} : Feed!LoadFails(i, how)
    BY <1>10 DEF Feed!LoadEnds
  <2>2. /\ loads' = LeftOf(loads, i) /\ UNCHANGED <<tab, pill, booted>>
    BY <2>1 DEF Feed!PageArrives, Feed!LoadFails, Feed!Without, Feed!RemoveAt, LeftOf,
                Feed!picked, Feed!gate
  <2>3. \A j \in DOMAIN loads' : \E k \in DOMAIN loads : loads'[j] = loads[k]
    <3>1. PICK S : loads \in Seq(S)
      BY <1>0 DEF Numbered
    <3> QED
      BY <2>2, <3>1, OneLeaves
  <2>4. booted
    <3>1. loads # <<>>
      <4>1. DOMAIN <<>> = {}
        OBVIOUS
      <4> QED
        BY <4>1
    <3> QED
      BY <3>1 DEF FeedInv
  <2>5. Feed!Feed' = Feed!Feed
    BY <2>2 DEF Feed!Feed
  <2>6. \A j \in DOMAIN loads' : loads'[j].live => loads'[j].feed = Feed!Feed
    BY <1>0, <2>3 DEF FeedCursor
  <2>7. ASSUME NEW w \in SUBSET Works, NEW more, Feed!PageArrives(i, w, more), loads[i].live
        PROVE  FeedInv'
    <3>1. FeedList'
      BY <1>0, <2>7, FeedAdds
    <3>2. nextUrl' # None => nextUrl' = [feed |-> loads[i].feed, page |-> loads[i].page + 1]
      BY <2>7 DEF Feed!PageArrives
    <3>3. nextUrl' # None => nextUrl'.feed = Feed!Feed
      BY <1>0, <2>7, <3>2 DEF FeedCursor
    <3>4. FeedCursor'
      BY <2>5, <2>6, <3>3 DEF FeedCursor
    <3> QED
      BY <1>0, <2>2, <2>4, <3>1, <3>4 DEF FeedInv
  <2>8. ASSUME UNCHANGED <<illusts, seenIds, carried, dropped, nextUrl>> PROVE FeedInv'
    <3>1. FeedList'
      BY <1>3, <2>2, <2>8
    <3>2. FeedCursor'
      BY <1>0, <2>5, <2>6, <2>8 DEF FeedCursor
    <3> QED
      BY <1>0, <2>2, <2>4, <3>1, <3>2 DEF FeedInv
  <2>9. ASSUME NEW w \in SUBSET Works, NEW more, Feed!PageArrives(i, w, more), ~loads[i].live
        PROVE  FeedInv'
    BY <2>8, <2>9 DEF Feed!PageArrives, Feed!list
  <2>10. ASSUME NEW how, Feed!LoadFails(i, how) PROVE FeedInv'
    BY <2>8, <2>10 DEF Feed!LoadFails, Feed!list
  <2> QED
    BY <2>1, <2>7, <2>9, <2>10
<1>11. CASE UNCHANGED <<feed, loader, listed, taps>>
  BY <1>6, <1>11 DEF feed, loader, listed
<1> QED
  BY <1>7, <1>8, <1>9, <1>10, <1>11 DEF Feed!Next

-----------------------------------------------------------------------------
(* The snapshot.                                                           *)

\* The sequence s is the first n values of f.
IsList(s, n, f) == s = [k \in 1 .. n |-> f[k]]
Listed(s) == \E n \in Nat : DOMAIN s = 1 .. n /\ IsList(s, n, s)
Least(n, d) == IF n < d THEN n ELSE d

\* Nothing is restored of nothing, and what was not damaged is as it was saved.
KeptInv ==
  /\ Kept!RestoresSound
  /\ session = None => stored = None /\ loaded = None
  /\ session # None => session \in Kept!Sessions
  /\ stored # None => /\ {"stack", "searchStack"} \subseteq DOMAIN stored
                      /\ Listed(stored.stack) /\ Listed(stored.searchStack)
  /\ stored # None /\ ~damaged => stored = Kept!Saved(session)

LEMMA ListIsSeq ==
  ASSUME NEW n \in Nat, NEW f, NEW s, IsList(s, n, f)
  PROVE  (\E S : s \in Seq(S)) /\ Len(s) = n /\ \A i \in 1 .. n : s[i] = f[i]
<1>1. \A i \in 1 .. n : f[i] \in {f[j] : j \in 1 .. n}
  OBVIOUS
<1>2. s \in Seq({f[i] : i \in 1 .. n})
  BY <1>1, IsASeq DEF IsList
<1>3. DOMAIN s = 1 .. n /\ \A i \in 1 .. n : s[i] = f[i]
  BY DEF IsList
<1> QED
  BY <1>2, <1>3

LEMMA CutOff ==
  ASSUME NEW n \in Nat, NEW f, NEW s, IsList(s, n, f), NEW d \in Nat
  PROVE  IsList(Kept!Cut(s, d), Least(n, d), f) /\ Least(n, d) \in Nat
<1> DEFINE m == Least(n, d)
<1>1. m \in Nat /\ m <= n /\ m = IF n < d THEN n ELSE d
  BY DEF Least
<1>2. PICK S : s \in Seq(S) /\ Len(s) = n /\ \A i \in 1 .. n : s[i] = f[i]
  BY ListIsSeq
<1>3. Kept!Cut(s, d) = SubSeq(s, 1, m)
  BY <1>1, <1>2 DEF Kept!Cut
<1> HIDE DEF m
<1>4. SubSeq(s, 1, m) = [i \in 1 .. m |-> s[i]]
  BY <1>1, <1>2
<1>5. [i \in 1 .. m |-> s[i]] = [i \in 1 .. m |-> f[i]]
  BY <1>1, <1>2
<1>6. IsList(Kept!Cut(s, d), m, f)
  BY <1>3, <1>4, <1>5 DEF IsList
<1> QED
  BY <1>1, <1>6 DEF m

LEMMA FirstOnes ==
  ASSUME NEW m \in Nat, NEW n \in Nat, m <= n, NEW f, NEW s, IsList(s, m, f),
         NEW t, IsList(t, n, f)
  PROVE  Kept!IsPrefix(s, t)
<1>1. PICK S : s \in Seq(S) /\ Len(s) = m /\ \A i \in 1 .. m : s[i] = f[i]
  BY ListIsSeq
<1>2. PICK T : t \in Seq(T) /\ Len(t) = n /\ \A i \in 1 .. n : t[i] = f[i]
  BY ListIsSeq
<1>3. SubSeq(s, 1, m) = [i \in 1 .. m |-> s[i]]
  BY <1>1
<1>4. SubSeq(t, 1, m) = [i \in 1 .. m |-> t[i]]
  BY <1>2
<1>5. \A i \in 1 .. m : s[i] = t[i]
  BY <1>1, <1>2
<1> QED
  BY <1>1, <1>2, <1>3, <1>4, <1>5 DEF Kept!IsPrefix

LEMMA KeptFiltered ==
  ASSUME NEW s, NEW keep
  PROVE  Kept!Filtered(s, keep) = [k \in 1 .. Cardinality(keep) |-> s[At(keep, k)]]
<1>1. Kept!Cardinality(keep) = Cardinality(keep)
  BY Zenon DEF Kept!Cardinality, Cardinality
<1>2. ASSUME NEW k PROVE Kept!At(keep, k) = At(keep, k)
  BY Zenon DEF Kept!At, At, Kept!Place, Place, Kept!Cardinality, Cardinality
<1> QED
  BY <1>1, <1>2 DEF Kept!Filtered

\* t holds sound entries only, and is the beginning of s if all of s is sound.
Restored(t, s, n, d) ==
  \E l \in Nat : \E f :
    /\ IsList(t, l, f)
    /\ \A k \in 1 .. l : f[k].sound
    /\ (\A i \in 1 .. n : s[i].sound) => l = Least(n, d) /\ \A k \in 1 .. l : f[k] = s[k]

\* What is validated and cut off is restored.
LEMMA ListRestored ==
  ASSUME NEW n \in Nat, NEW s, DOMAIN s = 1 .. n, NEW d \in Nat,
         NEW t, t = Kept!Cut(Kept!Validated(s), d)
  PROVE  Restored(t, s, n, d)
<1> PICK keep \in SUBSET (1 .. n) : keep = {i \in DOMAIN s : Kept!IsSound(s[i])}
  OBVIOUS
<1>1. \A i \in 1 .. n : i \in keep <=> s[i].sound
  BY DEF Kept!IsSound
<1>2. PICK m \in Nat : m = Cardinality(keep)
  BY PlacesCount
<1>3. PICK f : f = [k \in 1 .. m |-> s[At(keep, k)]]
  OBVIOUS
<1>4. /\ \A k \in 1 .. m : At(keep, k) \in keep
      /\ keep = 1 .. n => m = n /\ \A k \in 1 .. n : At(keep, k) = k
  <2>1. /\ \A k \in 1 .. Cardinality(keep) : At(keep, k) \in keep
        /\ keep = 1 .. n => Cardinality(keep) = n /\ \A k \in 1 .. n : At(keep, k) = k
    BY PlacesCount
  <2> QED
    BY <1>2, <2>1
<1>5. IsList(Kept!Validated(s), m, f)
  <2>1. Kept!Validated(s) = Kept!Filtered(s, keep)
    BY DEF Kept!Validated
  <2>2. Kept!Filtered(s, keep) = f
    BY <1>2, <1>3, KeptFiltered
  <2>3. f = [k \in 1 .. m |-> f[k]]
    BY <1>3
  <2> QED
    BY <2>1, <2>2, <2>3 DEF IsList
<1>6. \A k \in 1 .. m : f[k].sound
  BY <1>1, <1>3, <1>4
<1>7. (\A i \in 1 .. n : s[i].sound) => m = n /\ \A k \in 1 .. n : f[k] = s[k]
  <2> SUFFICES ASSUME \A i \in 1 .. n : s[i].sound PROVE m = n /\ \A k \in 1 .. n : f[k] = s[k]
    OBVIOUS
  <2>1. keep = 1 .. n
    BY <1>1
  <2> QED
    BY <1>3, <1>4, <2>1
<1>8. IsList(t, Least(m, d), f) /\ Least(m, d) \in Nat
  BY <1>5, CutOff
<1>9. \A k \in 1 .. Least(m, d) : k \in 1 .. m
  BY DEF Least
<1>10. (\A i \in 1 .. n : s[i].sound) =>
         Least(m, d) = Least(n, d) /\ \A k \in 1 .. Least(m, d) : f[k] = s[k]
  BY <1>7, <1>9
<1>11. \A k \in 1 .. Least(m, d) : f[k].sound
  BY <1>6, <1>9
<1> QED
  BY <1>8, <1>10, <1>11 DEF Restored

\* A list saved undamaged and restored is the beginning of what the session held.
LEMMA SlicesSaved ==
  ASSUME NEW n \in Nat, NEW t, DOMAIN t = 1 .. n, t = [k \in 1 .. n |-> t[k]], Hard \in Nat
  PROVE  /\ IsList(Kept!Each(Kept!Sound, Kept!Cut(t, Hard)), Least(n, Hard), Kept!Each(Kept!Sound, t))
         /\ IsList(Kept!Each(Kept!TagOf, Kept!Cut(t, Hard)), Least(n, Hard), Kept!Each(Kept!TagOf, t))
         /\ IsList(Kept!Each(Kept!Sound, t), n, Kept!Each(Kept!Sound, t))
         /\ IsList(Kept!Each(Kept!TagOf, t), n, Kept!Each(Kept!TagOf, t))
         /\ \A k \in 1 .. n : Kept!Each(Kept!Sound, t)[k].sound
<1> PICK m : m = Least(n, Hard)
  OBVIOUS
<1> PICK c : c = Kept!Cut(t, Hard)
  OBVIOUS
<1>1. IsList(t, n, t)
  BY DEF IsList
<1>2. m \in Nat /\ m <= n
  BY DEF Least
<1>3. IsList(c, m, t)
  BY <1>1, CutOff
<1>4. c = [k \in 1 .. m |-> t[k]]
  BY <1>3 DEF IsList
<1>5. DOMAIN c = 1 .. m /\ \A k \in 1 .. m : c[k] = t[k]
  BY <1>4
<1>11. \A k \in 1 .. m : k \in 1 .. n
  BY <1>2
<1>6. IsList(Kept!Each(Kept!Sound, c), m, Kept!Each(Kept!Sound, t))
  BY <1>5, <1>11 DEF Kept!Each, IsList
<1>7. IsList(Kept!Each(Kept!TagOf, c), m, Kept!Each(Kept!TagOf, t))
  BY <1>5, <1>11 DEF Kept!Each, IsList
<1>8. IsList(Kept!Each(Kept!Sound, t), n, Kept!Each(Kept!Sound, t))
  BY DEF Kept!Each, IsList
<1>9. IsList(Kept!Each(Kept!TagOf, t), n, Kept!Each(Kept!TagOf, t))
  BY DEF Kept!Each, IsList
<1>10. \A k \in 1 .. n : Kept!Each(Kept!Sound, t)[k].sound
  BY DEF Kept!Each, Kept!Sound
<1> QED
  BY <1>6, <1>7, <1>8, <1>9, <1>10

LEMMA SessionsListed ==
  ASSUME NEW s \in Kept!Sessions
  PROVE  Listed(s.stack) /\ Listed(s.searches)
<1>1. PICK n \in 0 .. Hard + 1 : s.stack \in [1 .. n -> {1}]
  BY DEF Kept!Sessions, Kept!Piles
<1>2. PICK p \in 0 .. Hard + 1 : s.searches \in [1 .. p -> Ids]
  BY DEF Kept!Sessions, Kept!Piles
<1>3. n \in Nat /\ p \in Nat
  OBVIOUS
<1>4. DOMAIN s.stack = 1 .. n /\ s.stack = [k \in 1 .. n |-> s.stack[k]]
  BY <1>1
<1>5. DOMAIN s.searches = 1 .. p /\ s.searches = [k \in 1 .. p |-> s.searches[k]]
  BY <1>2
<1> QED
  BY <1>3, <1>4, <1>5 DEF Listed, IsList

\* The same twice: whatever was listed, sound after a boot; what was saved, as it was.
LEMMA RestoredSound ==
  ASSUME KeptInv, stored # None, NEW d \in 1 .. Hard, loaded' = Kept!Loaded(stored, d),
         UNCHANGED <<stored, damaged, session>>
  PROVE  Kept!RestoresSound'
<1>1. d \in Nat /\ Hard \in Nat
  BY ScreensAssumption
<1> PICK kept1, kept2 : kept1 = stored.stack /\ kept2 = stored.searchStack
  OBVIOUS
<1>2. PICK n \in Nat : DOMAIN kept1 = 1 .. n
  BY DEF KeptInv, Listed
<1>3. PICK p \in Nat : DOMAIN kept2 = 1 .. p
  BY DEF KeptInv, Listed
<1> PICK stack, searches : /\ stack = Kept!Cut(Kept!Validated(kept1), d)
                           /\ searches = Kept!Cut(Kept!Validated(kept2), d)
  OBVIOUS
<1>4. PICK l \in Nat : \E f :
        /\ IsList(stack, l, f)
        /\ \A k \in 1 .. l : f[k].sound
        /\ (\A i \in 1 .. n : kept1[i].sound) =>
             l = Least(n, d) /\ \A k \in 1 .. l : f[k] = kept1[k]
  <2>1. Restored(stack, kept1, n, d)
    BY <1>1, <1>2, ListRestored
  <2> QED
    BY <2>1 DEF Restored
<1>5. PICK q \in Nat : \E f :
        /\ IsList(searches, q, f)
        /\ \A k \in 1 .. q : f[k].sound
        /\ (\A i \in 1 .. p : kept2[i].sound) =>
             q = Least(p, d) /\ \A k \in 1 .. q : f[k] = kept2[k]
  <2>1. Restored(searches, kept2, p, d)
    BY <1>1, <1>3, ListRestored
  <2> QED
    BY <2>1 DEF Restored
<1> PICK theirs : theirs = Kept!TagsFor(searches, Kept!Cut(stored.searchTags, d))
  OBVIOUS
<1>6. /\ loaded'.stack = stack /\ loaded'.searchStack = searches /\ loaded'.searchTags = theirs
      /\ loaded'.recs = {entry \in stored.recs : entry.sound}
      /\ loaded'.pile = stored.pile /\ loaded'.folder = Kept!Folder(stored.pile, stored.folder)
      /\ loaded'.feedType \in {"known", "home"}
  BY DEF Kept!Loaded, Kept!IsSound
<1>7. /\ DOMAIN stack = 1 .. l /\ \A k \in 1 .. l : stack[k].sound
      /\ DOMAIN searches = 1 .. q /\ \A k \in 1 .. q : searches[k].sound
  BY <1>4, <1>5 DEF IsList
<1>8. \A e \in Kept!Range(stack) \cup Kept!Range(searches) \cup loaded'.recs : e.sound
  BY <1>6, <1>7 DEF Kept!Range
<1>9. DOMAIN theirs = DOMAIN searches
  BY DEF Kept!TagsFor
<1>10. loaded'.pile = "private" => loaded'.folder = ""
  BY <1>6 DEF Kept!Folder
<1>11. ASSUME ~damaged
       PROVE  /\ Kept!IsPrefix(stack, Kept!Each(Kept!Sound, session.stack))
              /\ Kept!IsPrefix(searches, Kept!Each(Kept!Sound, session.searches))
              /\ Kept!IsPrefix(theirs, Kept!Each(Kept!TagOf, session.searches))
              /\ loaded'.recs = {Kept!Sound(id) : id \in session.recs}
              /\ loaded'.pile = session.pile
  <2>1. session \in Kept!Sessions /\ stored = Kept!Saved(session)
    BY <1>11 DEF KeptInv
  <2> PICK mine, bars : mine = session.stack /\ bars = session.searches
    OBVIOUS
  <2>2. PICK a \in Nat : DOMAIN mine = 1 .. a /\ mine = [k \in 1 .. a |-> mine[k]]
    BY <2>1, SessionsListed DEF Listed, IsList
  <2>3. PICK b \in Nat : DOMAIN bars = 1 .. b /\ bars = [k \in 1 .. b |-> bars[k]]
    BY <2>1, SessionsListed DEF Listed, IsList
  <2>4. /\ kept1 = Kept!Each(Kept!Sound, Kept!Cut(mine, Hard))
        /\ kept2 = Kept!Each(Kept!Sound, Kept!Cut(bars, Hard))
        /\ stored.searchTags = Kept!Each(Kept!TagOf, Kept!Cut(bars, Hard))
        /\ stored.recs = {Kept!Sound(id) : id \in session.recs}
        /\ stored.pile = session.pile
    BY <2>1 DEF Kept!Saved
  <2> PICK all, each, tag : /\ all = Kept!Each(Kept!Sound, mine)
                            /\ each = Kept!Each(Kept!Sound, bars)
                            /\ tag = Kept!Each(Kept!TagOf, bars)
    OBVIOUS
  <2>5. /\ IsList(kept1, Least(a, Hard), all) /\ IsList(all, a, all)
        /\ \A k \in 1 .. a : all[k].sound
    BY <1>1, <2>2, <2>4, SlicesSaved
  <2>6. /\ IsList(kept2, Least(b, Hard), each) /\ IsList(each, b, each)
        /\ \A k \in 1 .. b : each[k].sound
        /\ IsList(stored.searchTags, Least(b, Hard), tag) /\ IsList(tag, b, tag)
    BY <1>1, <2>3, <2>4, SlicesSaved
  <2>7. ASSUME NEW m \in Nat, NEW g, NEW s, NEW h, NEW r \in Nat, DOMAIN s = 1 .. r,
               IsList(s, Least(m, Hard), g), \A k \in 1 .. m : g[k].sound
        PROVE  /\ \A i \in 1 .. r : s[i].sound /\ s[i] = g[i]
               /\ r = Least(m, Hard) /\ Least(r, d) \in Nat /\ Least(r, d) <= m
    <3>1. Least(m, Hard) \in Nat /\ Least(m, Hard) <= m
      BY <1>1 DEF Least
    <3>2. DOMAIN s = 1 .. Least(m, Hard) /\ \A i \in 1 .. Least(m, Hard) : s[i] = g[i]
      BY <2>7 DEF IsList
    <3>3. r = Least(m, Hard)
      BY <2>7, <3>1, <3>2
    <3>4. Least(r, d) \in Nat /\ Least(r, d) <= r
      BY <1>1 DEF Least
    <3> QED
      BY <2>7, <3>1, <3>2, <3>3, <3>4
  <2>8. IsList(stack, l, all) /\ l <= a
    <3>1. /\ \A i \in 1 .. n : kept1[i].sound /\ kept1[i] = all[i]
          /\ Least(n, d) \in Nat /\ Least(n, d) <= a
      BY <1>2, <2>5, <2>7
    <3>2. l = Least(n, d) /\ \A k \in 1 .. l : stack[k] = kept1[k] /\ k \in 1 .. n
      BY <1>1, <1>4, <3>1 DEF IsList, Least
    <3>3. stack = [k \in 1 .. l |-> stack[k]]
      BY <1>4 DEF IsList
    <3> QED
      BY <3>1, <3>2, <3>3 DEF IsList
  <2>9. IsList(searches, q, each) /\ q <= b /\ q = Least(p, d) /\ p = Least(b, Hard)
    <3>1. /\ \A i \in 1 .. p : kept2[i].sound /\ kept2[i] = each[i]
          /\ Least(p, d) \in Nat /\ Least(p, d) <= b /\ p = Least(b, Hard)
      BY <1>3, <2>6, <2>7
    <3>2. q = Least(p, d) /\ \A k \in 1 .. q : searches[k] = kept2[k] /\ k \in 1 .. p
      BY <1>1, <1>5, <3>1 DEF IsList, Least
    <3>3. searches = [k \in 1 .. q |-> searches[k]]
      BY <1>5 DEF IsList
    <3> QED
      BY <3>1, <3>2, <3>3 DEF IsList
  <2>10. IsList(theirs, q, tag)
    <3> PICK raw : raw = Kept!Cut(stored.searchTags, d)
      OBVIOUS
    <3>1. IsList(raw, q, tag)
      BY <1>1, <2>6, <2>9, CutOff
    <3>2. DOMAIN raw = 1 .. q /\ \A k \in 1 .. q : raw[k] = tag[k]
      BY <3>1 DEF IsList
    <3> QED
      BY <1>7, <3>2 DEF Kept!TagsFor, IsList
  <2>11. Kept!IsPrefix(stack, all) /\ Kept!IsPrefix(searches, each) /\ Kept!IsPrefix(theirs, tag)
    BY <2>5, <2>6, <2>8, <2>9, <2>10, FirstOnes
  <2>12. loaded'.recs = {Kept!Sound(id) : id \in session.recs}
    BY <1>6, <2>4 DEF Kept!Sound
  <2> QED
    BY <1>6, <2>4, <2>11, <2>12
<1> QED
  BY <1>6, <1>8, <1>9, <1>10, <1>11 DEF Kept!RestoresSound

LEMMA KeptInit ==
  ASSUME Kept!Init PROVE KeptInv
BY DEF Kept!Init, KeptInv, Kept!RestoresSound

LEMMA KeptNext ==
  ASSUME KeptInv, [Kept!Next]_kept PROVE KeptInv'
<1>1. CASE Kept!Save
  <2>1. PICK s \in Kept!Sessions : session' = s /\ stored' = Kept!Saved(s)
    BY <1>1 DEF Kept!Save
  <2>2. s # None /\ loaded = None /\ UNCHANGED <<damaged, loaded>>
    BY <1>1, ScreensAssumption DEF Kept!Save, KeptInv
  <2>3. Listed(stored'.stack) /\ Listed(stored'.searchStack)
    <3> PICK mine, bars : mine = s.stack /\ bars = s.searches
      OBVIOUS
    <3>1. PICK a \in Nat : DOMAIN mine = 1 .. a /\ mine = [k \in 1 .. a |-> mine[k]]
      BY SessionsListed DEF Listed, IsList
    <3>2. PICK b \in Nat : DOMAIN bars = 1 .. b /\ bars = [k \in 1 .. b |-> bars[k]]
      BY SessionsListed DEF Listed, IsList
    <3> PICK one, two : /\ one = Kept!Each(Kept!Sound, Kept!Cut(mine, Hard))
                        /\ two = Kept!Each(Kept!Sound, Kept!Cut(bars, Hard))
      OBVIOUS
    <3>3. IsList(one, Least(a, Hard), Kept!Each(Kept!Sound, mine))
      BY <3>1, ScreensAssumption, SlicesSaved
    <3>4. IsList(two, Least(b, Hard), Kept!Each(Kept!Sound, bars))
      BY <3>2, ScreensAssumption, SlicesSaved
    <3>5. stored'.stack = one /\ stored'.searchStack = two
      BY <2>1 DEF Kept!Saved
    <3>6. Least(a, Hard) \in Nat /\ Least(b, Hard) \in Nat
      BY ScreensAssumption DEF Least
    <3>7. Listed(one)
      BY <3>3, <3>6 DEF Listed, IsList
    <3>8. Listed(two)
      BY <3>4, <3>6 DEF Listed, IsList
    <3> QED
      BY <3>5, <3>7, <3>8
  <2>4. {"stack", "searchStack"} \subseteq DOMAIN stored'
    BY <2>1 DEF Kept!Saved
  <2> QED
    BY <2>1, <2>2, <2>3, <2>4 DEF KeptInv, Kept!RestoresSound, Listed, IsList
<1>2. CASE Kept!Damage
  <2>1. stored # None /\ loaded = None /\ damaged' = TRUE /\ UNCHANGED <<session, loaded>>
    BY <1>2 DEF Kept!Damage
  <2>2. Listed(stored.stack) /\ Listed(stored.searchStack)
    BY <2>1 DEF KeptInv
  <2>3. ASSUME NEW s, Listed(s), NEW t \in Kept!Spoilt(s) PROVE Listed(t)
    <3>1. PICK n \in Nat : DOMAIN s = 1 .. n
      BY <2>3 DEF Listed
    <3>2. PICK i \in 1 .. n : t = [s EXCEPT ![i] = Kept!Broken(s[i])]
      BY <3>1 DEF Kept!Spoilt
    <3> QED
      BY <3>1, <3>2 DEF Listed, IsList
  <2>4. \/ \E t \in Kept!Spoilt(stored.stack) : stored' = [stored EXCEPT !.stack = t]
        \/ \E t \in Kept!Spoilt(stored.searchStack) : stored' = [stored EXCEPT !.searchStack = t]
        \/ stored'.stack = stored.stack /\ stored'.searchStack = stored.searchStack
    <3> DEFINE Others == {[stored EXCEPT !.searchTags = <<>>],
                          [stored EXCEPT !.feedType = "unknown"],
                          [stored EXCEPT !.pile = "private", !.folder = "tag"],
                          [stored EXCEPT !.v = 2]}
               Recs == {[stored EXCEPT !.recs = {Kept!Broken(e) : e \in @}]}
    <3>0. {"stack", "searchStack"} \subseteq DOMAIN stored
      BY <2>1 DEF KeptInv
    <3>1. stored' \in {[stored EXCEPT !.stack = t] : t \in Kept!Spoilt(stored.stack)}
                       \cup {[stored EXCEPT !.searchStack = t] : t \in Kept!Spoilt(stored.searchStack)}
                       \cup Recs \cup Others
      BY <1>2 DEF Kept!Damage
    <3>2. ASSUME NEW t \in Others \cup Recs
          PROVE  t.stack = stored.stack /\ t.searchStack = stored.searchStack
      <4>1. CASE t \in Others
        BY <3>0, <4>1
      <4>2. CASE t \in Recs
        BY <3>0, <4>2
      <4> QED
        BY <3>2, <4>1, <4>2
    <3> HIDE DEF Others, Recs
    <3> QED
      BY <3>1, <3>2
  <2>5. ASSUME NEW t \in Kept!Spoilt(stored.stack), stored' = [stored EXCEPT !.stack = t]
        PROVE  Listed(stored'.stack) /\ Listed(stored'.searchStack)
    BY <2>2, <2>3, <2>5
  <2>6. ASSUME NEW t \in Kept!Spoilt(stored.searchStack), stored' = [stored EXCEPT !.searchStack = t]
        PROVE  Listed(stored'.stack) /\ Listed(stored'.searchStack)
    BY <2>2, <2>3, <2>6
  <2>7. Listed(stored'.stack) /\ Listed(stored'.searchStack)
    BY <2>2, <2>4, <2>5, <2>6
  <2>8. {"stack", "searchStack"} \subseteq DOMAIN stored'
    <3>1. DOMAIN stored' = DOMAIN stored
      BY <1>2 DEF Kept!Damage
    <3> QED
      BY <2>1, <3>1 DEF KeptInv
  <2> QED
    BY <2>1, <2>7, <2>8 DEF KeptInv, Kept!RestoresSound, Listed, IsList
<1>3. CASE Kept!Load
  <2>1. PICK d \in 1 .. Hard : loaded' = IF stored.v = 1 THEN Kept!Loaded(stored, d) ELSE None
    BY <1>3 DEF Kept!Load
  <2>2. stored # None /\ UNCHANGED <<stored, damaged, session>>
    BY <1>3 DEF Kept!Load
  <2>3. Kept!RestoresSound'
    <3>1. CASE loaded' = None
      BY <3>1 DEF Kept!RestoresSound
    <3>2. CASE loaded' = Kept!Loaded(stored, d)
      BY <2>2, <3>2, RestoredSound
    <3> QED
      BY <2>1, <3>1, <3>2
  <2> QED
    BY <2>2, <2>3 DEF KeptInv, Listed, IsList
<1>4. CASE UNCHANGED kept
  BY <1>4 DEF kept, KeptInv, Kept!RestoresSound, Listed, IsList
<1> QED
  BY <1>1, <1>2, <1>3, <1>4 DEF Kept!Next

-----------------------------------------------------------------------------
(* The page: one of its parts runs.                                        *)

LEMMA PartSteps ==
  [Next]_vars =>
    /\ part' = part
    /\ part = "feed" => [Feed!Next]_<<feed, loader, listed, taps>>
    /\ part = "search" => [Search!Next]_<<search, loader, errors, taps>>
    /\ part = "pages" => [Pages!Next]_<<pages, loader, listed, errors, taps>>
    /\ part = "prefs" => [Prefs!Next]_<<prefs, taps>>
    /\ part = "button" => [Button!Next]_<<button, taps>>
    /\ part = "mover" => [Mover!Next]_<<mover, step, taps>>
    /\ part = "kept" => [Kept!Next]_kept
<1> SUFFICES ASSUME [Next]_vars
             PROVE  /\ part' = part
                    /\ part = "feed" => [Feed!Next]_<<feed, loader, listed, taps>>
                    /\ part = "search" => [Search!Next]_<<search, loader, errors, taps>>
                    /\ part = "pages" => [Pages!Next]_<<pages, loader, listed, errors, taps>>
                    /\ part = "prefs" => [Prefs!Next]_<<prefs, taps>>
                    /\ part = "button" => [Button!Next]_<<button, taps>>
                    /\ part = "mover" => [Mover!Next]_<<mover, step, taps>>
                    /\ part = "kept" => [Kept!Next]_kept
  OBVIOUS
<1>1. CASE Next
  BY <1>1 DEF Next, notFeed, notSearch, notPages, notPrefs, notButton, notMover, notKept
<1>2. CASE UNCHANGED vars
  BY <1>2 DEF vars, notFeed
<1> QED
  BY <1>1, <1>2

LEMMA PartStarts ==
  Init => /\ part = "feed" => Feed!Init
          /\ part = "search" => Search!Init
          /\ part = "pages" => Pages!Init
          /\ part = "prefs" => Prefs!Init
          /\ part = "button" => Button!Init
          /\ part = "mover" => Mover!Init
          /\ part = "kept" => Kept!Init
  BY DEF Init

\* Once the boot's answers are in and the queue is empty the table holds the
\* preferences shown, early edits included, for any tags and values: unless the
\* table is read after an edit was written, or a value set before the boot's
\* answer is in (store.ts).
THEOREM PreferencesAgree ==
  ASSUME {"seed late", "hasty user"} \cap Faults = {} PROVE Spec => []PrefsAgree
<1> DEFINE I == part = "prefs" => PrefsInv
<1>1. Init => I
  BY PartStarts, PrefsInit
<1>2. I /\ [Next]_vars => I'
  <2>1. [Next]_vars => part' = part /\ (part = "prefs" => [Prefs!Next]_<<prefs, taps>>)
    BY Zenon, PartSteps
  <2>2. PrefsInv /\ [Prefs!Next]_<<prefs, taps>> => PrefsInv'
    BY PrefsNext
  <2> QED
    BY <2>1, <2>2
<1>3. I => PrefsAgree
  BY PrefsHold DEF PrefsAgree
<1> QED
  BY <1>1, <1>2, <1>3, PTL DEF Spec

\* The follow button tells what Pixiv holds once nothing is in flight for the
\* artist on view, for any artists and any number of requests, while no artist is
\* opened again whose request may be in flight still (FollowButton.tsx).
THEOREM ButtonTellsTruth == ASSUME Returns = FALSE PROVE Spec => []ButtonHonest
<1> DEFINE I == part = "button" => ButtonInv
<1>1. Init => I
  BY PartStarts, ButtonInit
<1>2. I /\ [Next]_vars => I'
  <2>1. [Next]_vars => part' = part /\ (part = "button" => [Button!Next]_<<button, taps>>)
    BY Zenon, PartSteps
  <2>2. ButtonInv /\ [Button!Next]_<<button, taps>> => ButtonInv'
    BY ButtonNext
  <2> QED
    BY <2>1, <2>2
<1>3. I => ButtonHonest
  BY DEF ButtonInv, ButtonHonest
<1> QED
  BY <1>1, <1>2, <1>3, PTL DEF Spec

\* A spinner turns exactly while the current request is in flight, in each of the
\* four lists, however many requests were superseded and in whatever order they
\* answer (loadMore, runSearch, ArtistView.tsx, RelatedView.tsx).
THEOREM SpinnersTellTruth == Spec => []SpinnersHonest
<1> DEFINE I == /\ part = "feed" => SpinnerInv
                /\ part = "search" => SpinnerInv
                /\ part = "pages" => PagesInv
<1>1. Init => I
  <2>1. Feed!Init => loads = <<>> /\ loading = FALSE
    BY DEF Feed!Init
  <2>2. Search!Init => loads = <<>> /\ loading = FALSE
    BY DEF Search!Init
  <2> QED
    BY <2>1, <2>2, PartStarts, PagesInit, NoRequests
<1>2. I /\ [Next]_vars => I'
  <2>1. [Next]_vars =>
          /\ part' = part
          /\ part = "feed" => [Feed!Next]_<<feed, loader, listed, taps>>
          /\ part = "search" => [Search!Next]_<<search, loader, errors, taps>>
          /\ part = "pages" => [Pages!Next]_<<pages, loader, listed, errors, taps>>
    BY Zenon, PartSteps
  <2> QED
    BY <2>1, FeedNext, SearchNext, PagesNext
<1>3. I => SpinnersHonest
  BY SpinnerShown, PagesShown
  DEF SpinnersHonest, Feed!SpinnerHonest, Search!SpinnerHonest
<1> QED
  BY <1>1, <1>2, <1>3, PTL DEF Spec

\* No bookmark is lost in silence, for any works, whatever call of the run fails
\* and whenever it is cancelled, as long as a call that fails did nothing
\* (useBookmarkMover.ts).
THEOREM LossesAreTold == ASSUME Lossy = FALSE PROVE Spec => []LossIsTold
<1> DEFINE I == part = "mover" => MoverInv
<1>1. Init => I
  BY PartStarts, MoverInit
<1>2. I /\ [Next]_vars => I'
  <2>1. [Next]_vars => part' = part /\ (part = "mover" => [Mover!Next]_<<mover, step, taps>>)
    BY Zenon, PartSteps
  <2>2. MoverInv /\ [Mover!Next]_<<mover, step, taps>> => MoverInv'
    BY MoverNext, ScreensAssumption
  <2> QED
    BY <2>1, <2>2
<1>3. I => LossIsTold
  BY DEF MoverInv, LossIsTold
<1> QED
  BY <1>1, <1>2, <1>3, PTL DEF Spec

\* Every list holds what is selected and nothing else, however the switches, the
\* typing and the answers interleave and whatever fails: the feed each work once,
\* none that was seen missing but what the user took off it; the pages of an
\* artist or a related work one after the other, the next one behind the cursor
\* (loadMore, ArtistView.tsx, RelatedView.tsx); of a search none missing up to the
\* counter but those a snapshot cut off (runSearch, saveSnapshot).  The database
\* answers a search before the saver fires.
THEOREM ShowsWhatIsSelected == ASSUME Slow = FALSE PROVE Spec => []ShowsSelected
<1> DEFINE I == /\ part = "feed" => FeedInv
                /\ part = "search" => SearchInv
                /\ part = "pages" => PagesList
<1>1. Init => I
  BY PartStarts, FeedListInit, SearchListInit, PagesListInit
<1>2. I /\ [Next]_vars => I'
  <2>1. [Next]_vars =>
          /\ part' = part
          /\ part = "feed" => [Feed!Next]_<<feed, loader, listed, taps>>
          /\ part = "search" => [Search!Next]_<<search, loader, errors, taps>>
          /\ part = "pages" => [Pages!Next]_<<pages, loader, listed, errors, taps>>
    BY Zenon, PartSteps
  <2> QED
    BY <2>1, FeedListNext, SearchListNext, PagesListNext
<1>3. I => ShowsSelected
  BY FeedShown, SearchShown, PagesShowOwner DEF ShowsSelected, AnswersTheBar
<1> QED
  BY <1>1, <1>2, <1>3, PTL DEF Spec

\* What a boot restores can be rendered, whatever one thing damaged the snapshot,
\* and is the session that was saved, up to the depth allowed, if nothing did
\* (state-persistence.ts): for any depth, bound and pages.
THEOREM RestoredWhole == Spec => []RestoresSound
<1> DEFINE I == part = "kept" => KeptInv
<1>1. Init => I
  BY PartStarts, KeptInit
<1>2. I /\ [Next]_vars => I'
  <2>1. [Next]_vars => part' = part /\ (part = "kept" => [Kept!Next]_kept)
    BY Zenon, PartSteps
  <2>2. KeptInv /\ [Kept!Next]_kept => KeptInv'
    BY KeptNext
  <2> QED
    BY <2>1, <2>2
<1>3. I => RestoresSound
  BY DEF KeptInv, RestoresSound
<1> QED
  BY <1>1, <1>2, <1>3, PTL DEF Spec
=============================================================================
