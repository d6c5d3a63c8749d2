----------------------------- MODULE FreshReads -----------------------------
(***************************************************************************)
(* What a cache in front of pixiv promises, whatever its implementation:   *)
(* once a change has been announced (a toggle was acknowledged, a login    *)
(* has finished) a call that begins afterwards is never answered with an   *)
(* older state.  It may be answered "unknown", and a call that began       *)
(* before the announcement may still get the older state.                  *)
(***************************************************************************)
EXTENDS Stamps

CONSTANTS Keys,      \* what is read: an artist id, or a bookmark visibility
          Callers,   \* the goroutines that read
          Unknown    \* an answer that says nothing about pixiv's state

VARIABLES floor,     \* floor[k]: the newest announced state of k
          phase,     \* phase[c]: c is idle, has a call under way, or has its answer
          need,      \* need[c]: the floor of c's key when its call began
          reply      \* reply[c]: the answer c has

vars == <<floor, phase, need, reply>>

Init ==
  /\ floor = [k \in Keys |-> Origin]
  /\ phase = [c \in Callers |-> "idle"]
  /\ need = [c \in Callers |-> Origin]
  /\ reply = [c \in Callers |-> Unknown]

\* Announcements only move a floor forward; one may cover many keys (a login).
Announce ==
  /\ floor' \in [Keys -> Stamp]
  /\ \A k \in Keys : Leq(floor[k], floor'[k])
  /\ UNCHANGED <<phase, need, reply>>

Begin(c, k) ==
  /\ phase[c] = "idle"
  /\ phase' = [phase EXCEPT ![c] = "busy"]
  /\ need' = [need EXCEPT ![c] = floor[k]]
  /\ UNCHANGED <<floor, reply>>

Answer(c, a) ==
  /\ phase[c] = "busy"
  /\ a # Unknown => Leq(need[c], a)
  /\ phase' = [phase EXCEPT ![c] = "done"]
  /\ reply' = [reply EXCEPT ![c] = a]
  /\ UNCHANGED <<floor, need>>

Leave(c) ==
  /\ phase[c] = "done"
  /\ phase' = [phase EXCEPT ![c] = "idle"]
  /\ need' = [need EXCEPT ![c] = Origin]
  /\ reply' = [reply EXCEPT ![c] = Unknown]
  /\ UNCHANGED floor

Next ==
  \/ Announce
  \/ \E c \in Callers :
       \/ \E k \in Keys : Begin(c, k)
       \/ reply'[c] \in Stamp \cup {Unknown} /\ Answer(c, reply'[c])
       \/ Leave(c)

Spec == Init /\ [][Next]_vars
=============================================================================
