------------------------------- MODULE RateLimiter -------------------------------
(***************************************************************************)
(* One tier of the rate limiter (ratelimit.go): a token bucket for every   *)
(* client in a bounded table, and a ceiling for all of them together.      *)
(*                                                                         *)
(* A bucket counts in parts of a token, Parts of them to one; it gains one *)
(* part a tick, the ceiling globalMultiplier parts.  take() adds what has  *)
(* gathered since it last looked, which comes to the same as adding it as  *)
(* time passes.                                                            *)
(***************************************************************************)
EXTENDS Integers, FiniteSets

CONSTANTS Sources,
          Limit,      \* the tier's tokens, and the burst
          Parts,
          Multiplier, \* globalMultiplier
          MaxSources, \* maxSources
          Nobody

\* A tier's limit and globalMultiplier (4) are above zero, and the table
\* (maxSources, 256) has room for globalMultiplier clients.
ASSUME LimiterAssumption ==
  /\ Limit \in Nat \ {0} /\ Parts \in Nat \ {0} /\ Multiplier \in Nat \ {0}
  /\ MaxSources \in Nat /\ Multiplier <= MaxSources

VARIABLES
  table,    \* the clients with a bucket
  tokens,   \* of every client; full if it is not in the table
  ceiling,
  known,    \* history: the clients there have been
  refusal   \* history: who was refused last, by what, and its Retry-After

limiterVars == <<table, tokens, ceiling, known, refusal>>

Full == Limit * Parts
Least(m, n) == IF m < n THEN m ELSE n

LimiterInit ==
  /\ table = {} /\ tokens = [s \in Sources |-> Full] /\ ceiling = Multiplier * Full
  /\ known = {} /\ refusal = Nobody

\* forSource: past the bound any client's bucket is dropped
Tabled(s) ==
  IF s \in table \/ Cardinality(table) < MaxSources THEN {table \cup {s}}
  ELSE {(table \ {victim}) \cup {s} : victim \in table}
\* a bucket dropped is a full one when its client comes back
Buckets(tabled) == [s \in Sources |-> IF s \in tabled THEN tokens[s] ELSE Full]

\* the seconds until there is a token, at a rate of so many parts each
Wait(parts, rate) == (Parts - parts + rate - 1) \div rate

Deny(s, by, wait) == refusal' = [source |-> s, by |-> by, wait |-> wait]

\* Mutant: the ceiling is asked first.
CeilingFirst(s) ==
  \E tabled \in Tabled(s) :
    LET have == Buckets(tabled) IN
    /\ table' = tabled /\ known' = known \cup {s}
    /\ \/ /\ ceiling < Parts
          /\ tokens' = have /\ ceiling' = ceiling
          /\ Deny(s, "ceiling", Wait(ceiling, Multiplier))
       \/ /\ ceiling >= Parts /\ have[s] < Parts
          /\ tokens' = have /\ ceiling' = ceiling - Parts
          /\ Deny(s, "source", Wait(have[s], 1))
       \/ /\ ceiling >= Parts /\ have[s] >= Parts
          /\ tokens' = [have EXCEPT ![s] = @ - Parts] /\ ceiling' = ceiling - Parts
          /\ refusal' = Nobody
\* The client's own bucket first; what it spent stays spent if the ceiling refuses.
Request(s) ==
  \E tabled \in Tabled(s) :
    LET have == Buckets(tabled)
        spent == [have EXCEPT ![s] = @ - Parts] IN
    /\ table' = tabled /\ known' = known \cup {s}
    /\ \/ /\ have[s] < Parts
          /\ tokens' = have /\ ceiling' = ceiling
          /\ Deny(s, "source", Wait(have[s], 1))
       \/ /\ have[s] >= Parts /\ ceiling < Parts
          /\ tokens' = spent /\ ceiling' = ceiling
          /\ Deny(s, "ceiling", Wait(ceiling, Multiplier))
       \/ /\ have[s] >= Parts /\ ceiling >= Parts
          /\ tokens' = spent /\ ceiling' = ceiling - Parts
          /\ refusal' = Nobody

LimiterTick ==
  /\ tokens' = [s \in Sources |-> Least(tokens[s] + 1, Full)]
  /\ ceiling' = Least(ceiling + Multiplier, Multiplier * Full)
  /\ refusal' = Nobody
  /\ UNCHANGED <<table, known>>

LimiterNext == LimiterTick \/ \E s \in Sources : Request(s)
LimiterSpec == LimiterInit /\ [][LimiterNext]_limiterVars

-----------------------------------------------------------------------------
\* The ceiling refuses nobody before more clients than globalMultiplier have
\* come ("one hostile client must not exhaust a shared budget and deny the
\* owner"), and Retry-After is neither too short for a token nor a second long.
FewNeverStarve ==
  refusal # Nobody =>
    /\ refusal.by = "ceiling" => Cardinality(known) > Multiplier
    /\ refusal.by = "source" =>
         /\ tokens[refusal.source] + refusal.wait >= Parts
         /\ tokens[refusal.source] + refusal.wait - 1 < Parts
    /\ refusal.by = "ceiling" => ceiling + refusal.wait * Multiplier >= Parts
=============================================================================
