-------------------------------- MODULE PkceFlows --------------------------------
(***************************************************************************)
(* The login flows under way (pkceStore of handlers.go, used by            *)
(* authproxy.go): each is started with a verifier under a random id,       *)
(* looked at by every leg of the proxied login, and taken once by its      *)
(* callback, within pkceTTL and with pkceMaxEntries at a time.             *)
(***************************************************************************)
EXTENDS Integers, FiniteSets

CONSTANTS Flows,      \* ids: random, never used twice
          MaxEntries, \* pkceMaxEntries
          TTL         \* pkceTTL, in ticks

ASSUME FlowAssumption == MaxEntries \in Nat \ {0} /\ TTL \in Nat

VARIABLES
  entries,  \* the flows in the store
  left,     \* ticks until a flow expires, -1 once it has, or has not begun
  started,
  taken,    \* history: the flows whose verifier was handed out, and
  wrongly,  \* ... whether one was twice, or late, or was dropped needlessly
  relayed   \* history: a leg went to Pixiv for a flow that was no longer live

flowVars == <<entries, left, started, taken, wrongly, relayed>>

Live == {f \in entries : left[f] >= 0}

FlowInit ==
  /\ entries = {} /\ left = [f \in Flows |-> -1] /\ started = {}
  /\ taken = {} /\ wrongly = FALSE /\ relayed = FALSE

\* Mutant: the expired are left where they are.
Unshed == entries
\* what put leaves of the entries before it looks for room
Shed == Live

\* /api/auth/pkce/start: put
Put(f) ==
  /\ f \notin started
  /\ \E kept \in (IF Cardinality(Shed) < MaxEntries THEN {Shed}
                  ELSE {Shed \ {victim} : victim \in Shed}) :
       /\ entries' = kept \cup {f}
       /\ wrongly' = (wrongly \/ (~(Live \subseteq kept) /\ Cardinality(Live) < MaxEntries))
  /\ left' = [left EXCEPT ![f] = TTL] /\ started' = started \cup {f}
  /\ UNCHANGED <<taken, relayed>>

\* A leg of the proxied login: peek, for any id a cookie may name.
Relay(f) ==
  /\ f \in entries
  /\ entries' = entries \ ({f} \ Live)
  /\ relayed' = (relayed \/ (f \in entries' /\ (left[f] < 0 \/ f \in taken)))
  /\ UNCHANGED <<left, started, taken, wrongly>>

\* The callback: take. A failed exchange does not put the flow back.
Take(f) ==
  /\ f \in entries
  /\ entries' = entries \ {f}
  /\ IF left[f] < 0
     THEN UNCHANGED <<taken, wrongly>>
     ELSE /\ taken' = taken \cup {f}
          /\ wrongly' = (wrongly \/ f \in taken)
  /\ UNCHANGED <<left, started, relayed>>

FlowTick ==
  /\ \E f \in Flows : left[f] >= 0
  /\ left' = [f \in Flows |-> IF left[f] < 0 THEN -1 ELSE left[f] - 1]
  /\ UNCHANGED <<entries, started, taken, wrongly, relayed>>

FlowNext == FlowTick \/ \E f \in Flows : Put(f) \/ Relay(f) \/ Take(f)
FlowSpec == FlowInit /\ [][FlowNext]_flowVars

-----------------------------------------------------------------------------
\* A verifier is handed out once and in time, no leg is relayed for a flow that
\* is over, the store keeps its bound, and a flow somebody is about to complete
\* makes room only when all the others are as live as it is.
FlowsSingleUse ==
  /\ ~wrongly /\ ~relayed
  /\ taken \cap entries = {}
  /\ Cardinality(entries) <= MaxEntries
=============================================================================
