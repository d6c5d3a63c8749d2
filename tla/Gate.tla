---------------------------------- MODULE Gate ----------------------------------
(***************************************************************************)
(* The password gate (gate.go, POST /api/gate): a pool of slots for the    *)
(* comparison of a password, refused at once when it is full, and a second *)
(* pool for the failed attempts that are put to sleep.  The streak of      *)
(* failures, the slot and the delay are read in critical sections of their *)
(* own, so attempts interleave between them.                               *)
(***************************************************************************)
EXTENDS Integers, FiniteSets

CONSTANTS Attempts,   \* connections; each tries again and again
          HashSlots,  \* capacity of hashSlots
          SleepSlots, \* capacity of slots
          Tier,       \* failures before the first delay
          Gap,        \* the spacing guard, in ticks
          Decay       \* gateFailureDecay, in ticks

VARIABLES
  phase,      \* of each attempt
  right,      \* its password is the right one
  gap,        \* sinceLast of its failure
  comparing,  \* slots of hashSlots taken
  sleepers,   \* slots of slots taken
  failures,
  lastFail,   \* ticks since lastFailTime, -1 if it is zero
  shutOut     \* history: an attempt was refused although a comparison could run

pools == <<comparing, sleepers>>
streak == <<failures, lastFail>>
gateVars == <<phase, right, gap, pools, streak, shutOut>>

Phases == {"away", "compare", "verdict", "slot", "delay", "asleep"}
In(p) == {a \in Attempts : phase[a] = p}
To(a, p) == phase' = [phase EXCEPT ![a] = p]

GateInit ==
  /\ phase = [a \in Attempts |-> "away"]
  /\ right = [a \in Attempts |-> FALSE] /\ gap = [a \in Attempts |-> 0]
  /\ comparing = 0 /\ sleepers = 0
  /\ failures = 0 /\ lastFail = -1 /\ shutOut = FALSE

-----------------------------------------------------------------------------
\* The attempt takes a slot for its comparison, or is refused.
Post(a) ==
  /\ phase[a] = "away"
  /\ IF comparing < HashSlots
     THEN /\ To(a, "compare") /\ comparing' = comparing + 1
          /\ \E is \in BOOLEAN : right' = [right EXCEPT ![a] = is]
          /\ UNCHANGED shutOut
     ELSE /\ shutOut' = (shutOut \/ Cardinality(In("compare")) < HashSlots)
          /\ UNCHANGED <<phase, right, comparing>>
  /\ UNCHANGED <<gap, sleepers, streak>>

\* Mutant: a wrong password keeps its slot.
ComparedHolding(a) ==
  /\ phase[a] = "compare"
  /\ To(a, "verdict")
  /\ comparing' = IF right[a] THEN comparing - 1 ELSE comparing
  /\ UNCHANGED <<right, gap, sleepers, streak, shutOut>>
\* The slot is given back before anyone is put to sleep.
Compared(a) ==
  /\ phase[a] = "compare"
  /\ To(a, "verdict")
  /\ comparing' = comparing - 1
  /\ UNCHANGED <<right, gap, sleepers, streak, shutOut>>

RecordSuccess(a) ==
  /\ phase[a] = "verdict" /\ right[a]
  /\ To(a, "away")
  /\ failures' = 0
  /\ UNCHANGED <<right, gap, pools, lastFail, shutOut>>

\* The count is kept up to the last tier.
RecordFailure(a) ==
  /\ phase[a] = "verdict" /\ ~right[a]
  /\ To(a, "slot")
  /\ gap' = [gap EXCEPT ![a] = IF lastFail < 0 THEN 0 ELSE lastFail]
  /\ failures' = IF failures > 0 /\ lastFail > Decay THEN 1
                 ELSE IF failures < Tier THEN failures + 1 ELSE failures
  /\ lastFail' = 0
  /\ UNCHANGED <<right, pools, shutOut>>

TakeSlot(a) ==
  /\ phase[a] = "slot"
  /\ IF sleepers < SleepSlots THEN To(a, "delay") /\ sleepers' = sleepers + 1
                              ELSE To(a, "away") /\ UNCHANGED sleepers
  /\ UNCHANGED <<right, gap, comparing, streak, shutOut>>

\* tarpitSleep of the failures there are now
Sleeps(a) == failures >= Tier /\ gap[a] < Gap
Delay(a) ==
  /\ phase[a] = "delay"
  /\ IF Sleeps(a) THEN To(a, "asleep") /\ UNCHANGED sleepers
                  ELSE To(a, "away") /\ sleepers' = sleepers - 1
  /\ UNCHANGED <<right, gap, comparing, streak, shutOut>>

Wake(a) ==
  /\ phase[a] = "asleep"
  /\ To(a, "away")
  /\ sleepers' = sleepers - 1
  /\ UNCHANGED <<right, gap, comparing, streak, shutOut>>

GateTick ==
  /\ lastFail \in 0 .. Decay
  /\ lastFail' = lastFail + 1
  /\ UNCHANGED <<phase, right, gap, pools, failures, shutOut>>

GateNext ==
  \/ \E a \in Attempts :
       \/ Post(a) \/ Compared(a) \/ RecordSuccess(a) \/ RecordFailure(a)
       \/ TakeSlot(a) \/ Delay(a) \/ Wake(a)
  \/ GateTick

GateSpec == GateInit /\ [][GateNext]_gateVars

-----------------------------------------------------------------------------
GateTypeOK ==
  /\ phase \in [Attempts -> Phases] /\ right \in [Attempts -> BOOLEAN]
  /\ gap \in [Attempts -> Nat]
  /\ comparing \in 0 .. HashSlots /\ sleepers \in 0 .. SleepSlots
  /\ failures \in 0 .. Tier /\ lastFail \in -1 .. Decay + 1 /\ shutOut \in BOOLEAN

\* An attempt is refused only while the pool is full of comparisons: sleepers
\* hold none of its slots, and every path gives back what it took, so the owner
\* gets in as soon as one comparison ends ("the correct password never queues
\* behind a SLEEPER").
OwnerGetsIn ==
  /\ ~shutOut
  /\ comparing = Cardinality(In("compare"))
  /\ sleepers = Cardinality(In("delay") \cup In("asleep"))
=============================================================================
