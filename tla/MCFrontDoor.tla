------------------------------ MODULE MCFrontDoor ------------------------------
(* What a request meets before its handler, and what the process keeps on its *)
(* disk: six parts that share no state.  In each behaviour one of them runs   *)
(* and the others stay as they began.                                         *)
EXTENDS Credentials, Gate, RateLimiter, PkceFlows, EnvFiles, Server

CONSTANTS Doors

VARIABLES door

creds == <<disk, mem, expired, refreshMu, sessionMu, life, ref, scrape, login, issued, crashes,
           account, asks>>
doorVars == <<door, creds, gateVars, limiterVars, flowVars, envVars, serverVars>>

NoEnv == files = [i \in Paths |-> Absent] /\ expect = [k \in Keys |-> Absent]

DoorInit ==
  /\ door \in Doors
  /\ Init /\ GateInit /\ LimiterInit /\ FlowInit /\ ServerInit
  /\ IF door = "env" THEN EnvInit ELSE NoEnv

DoorNext ==
  \/ /\ door = "credentials" /\ Next
     /\ UNCHANGED <<door, gateVars, limiterVars, flowVars, envVars, serverVars>>
  \/ /\ door = "gate" /\ GateNext
     /\ UNCHANGED <<door, creds, limiterVars, flowVars, envVars, serverVars>>
  \/ /\ door = "limiter" /\ LimiterNext
     /\ UNCHANGED <<door, creds, gateVars, flowVars, envVars, serverVars>>
  \/ /\ door = "flows" /\ FlowNext
     /\ UNCHANGED <<door, creds, gateVars, limiterVars, envVars, serverVars>>
  \/ /\ door = "env" /\ EnvNext
     /\ UNCHANGED <<door, creds, gateVars, limiterVars, flowVars, serverVars>>
  \/ /\ door = "server" /\ ServerNext
     /\ UNCHANGED <<door, creds, gateVars, limiterVars, flowVars, envVars>>

DoorSpec == DoorInit /\ [][DoorNext]_doorVars
=============================================================================
