---------------------------------- MODULE Server ----------------------------------
(***************************************************************************)
(* Boot and shutdown (run of main.go): the image cache with its reaper and *)
(* the preferences database are opened, the server listens, a signal       *)
(* drains it for serverShutdownDrain at most, and one deferred cleanup     *)
(* runs on every way out.                                                  *)
(***************************************************************************)
EXTENDS Integers, FiniteSets

CONSTANTS Handlers   \* requests that write a preference

VARIABLES
  at,       \* of run: "client", "prefs", "config", "serving", "draining", "returning", "exited"
  reaper,   \* "none", "running", "stopped"
  prefs,    \* "none", "open", "closed"
  drained,
  handler,  \* of each request: "none", "running", "done"
  failed    \* history: a write found the database closed

serverVars == <<at, reaper, prefs, drained, handler, failed>>

InFlight == {h \in Handlers : handler[h] = "running"}

ServerInit ==
  /\ at = "client" /\ reaper = "none" /\ prefs = "none" /\ drained = FALSE
  /\ handler = [h \in Handlers |-> "none"] /\ failed = FALSE

\* the permissions of .env, and NewClient, before there is anything to clean up
ClientStep ==
  /\ at = "client"
  /\ \/ at' = "exited" /\ reaper' = reaper
     \/ at' = "prefs" /\ reaper' = "running"
  /\ UNCHANGED <<prefs, drained, handler, failed>>

\* without the database the server runs on
OpenPrefs ==
  /\ at = "prefs" /\ at' = "config"
  /\ prefs' \in {"open", "none"}
  /\ UNCHANGED <<reaper, drained, handler, failed>>

\* the address, the gate, the serving mode; then the listener
ConfigStep ==
  /\ at = "config" /\ at' \in {"returning", "serving"}
  /\ UNCHANGED <<reaper, prefs, drained, handler, failed>>

Accept(h) ==
  /\ at = "serving" /\ handler[h] = "none" /\ prefs # "none"
  /\ handler' = [handler EXCEPT ![h] = "running"]
  /\ UNCHANGED <<at, reaper, prefs, drained, failed>>

\* A handler goes on until the process is gone.
WritePref(h) ==
  /\ handler[h] = "running" /\ at # "exited"
  /\ handler' = [handler EXCEPT ![h] = "done"]
  /\ failed' = (failed \/ prefs = "closed")
  /\ UNCHANGED <<at, reaper, prefs, drained>>

\* ListenAndServe returns an error while requests may be running.
ListenFails ==
  /\ at = "serving" /\ at' = "returning"
  /\ UNCHANGED <<reaper, prefs, drained, handler, failed>>

Signal ==
  /\ at = "serving" /\ at' = "draining"
  /\ UNCHANGED <<reaper, prefs, drained, handler, failed>>

\* Mutant: a drain that ran out of time counts as one.
DrainAnyway ==
  /\ at = "draining" /\ at' = "returning"
  /\ drained' = TRUE
  /\ UNCHANGED <<reaper, prefs, handler, failed>>
\* Shutdown returns when nothing is in flight, or when its time is over.
Drain ==
  /\ at = "draining" /\ at' = "returning"
  /\ drained' \in {FALSE, InFlight = {}}
  /\ UNCHANGED <<reaper, prefs, handler, failed>>

\* shutdownCleanup: the reaper, then the database
StopReaper ==
  /\ at = "returning" /\ reaper = "running" /\ reaper' = "stopped"
  /\ UNCHANGED <<at, prefs, drained, handler, failed>>
ClosePrefs ==
  /\ at = "returning" /\ reaper = "stopped" /\ prefs = "open" /\ drained
  /\ prefs' = "closed"
  /\ UNCHANGED <<at, reaper, drained, handler, failed>>
Exit ==
  /\ at = "returning" /\ reaper = "stopped" /\ ~(prefs = "open" /\ drained)
  /\ at' = "exited"
  /\ UNCHANGED <<reaper, prefs, drained, handler, failed>>

ServerNext ==
  \/ ClientStep \/ OpenPrefs \/ ConfigStep \/ ListenFails \/ Signal \/ Drain
  \/ StopReaper \/ ClosePrefs \/ Exit
  \/ \E h \in Handlers : Accept(h) \/ WritePref(h)
ServerSpec == ServerInit /\ [][ServerNext]_serverVars

-----------------------------------------------------------------------------
\* No handler finds the database closed under it, whichever way run ends, and
\* the reaper never outlives it; the database is closed only after a drain.
NoWriteAfterClose ==
  /\ ~failed
  /\ prefs = "closed" => InFlight = {} /\ reaper = "stopped"
  /\ at = "exited" => reaper # "running" /\ (drained /\ prefs # "none" => prefs = "closed")
=============================================================================
