---------------------------- MODULE PriorityRunway ----------------------------
(***************************************************************************)
(* What the message-based control tower promises, with no messages and no  *)
(* modules: one runway, airplanes counted by where they are, and two rules *)
(* that hold whenever time passes.  The runway is never idle while an      *)
(* airplane waits for it, and a landing never starts while an airplane     *)
(* waits for take-off: one that did at the same instant is called off.     *)
(***************************************************************************)
EXTENDS Naturals

VARIABLES clock, landing, parked, departing, gone, op, since

priorityVars == <<clock, landing, parked, departing, gone, op, since>>

PriorityInit ==
  /\ clock = 0 /\ since = 0
  /\ landing = 0 /\ parked = 0 /\ departing = 0 /\ gone = 0
  /\ op = "none"

\* Everything the present instant calls for has been decided.
Settled ==
  /\ op = "none" => landing = 0 /\ departing = 0
  /\ op = "land" /\ since = clock => departing = 0

\* The runway goes to a landing now, or stays as it is in next.
Runway(next) ==
  \/ op' = next /\ UNCHANGED since
  \/ next = "none" /\ landing' > 0 /\ op' = "land" /\ since' = clock'

Arrive ==
  /\ landing' = landing + 1
  /\ Runway(op)
  /\ UNCHANGED <<parked, departing, gone>>

Land ==
  /\ op = "land"
  /\ landing' = landing - 1 /\ parked' = parked + 1
  /\ Runway("none")
  /\ UNCHANGED <<departing, gone>>

Unpark ==
  /\ parked > 0
  /\ parked' = parked - 1 /\ departing' = departing + 1
  /\ UNCHANGED <<landing, gone, op, since>>

TakeOff ==
  /\ op = "takeoff"
  /\ departing' = departing - 1 /\ gone' = gone + 1
  /\ \/ op' = "none"
     \/ op' = "takeoff" /\ departing' > 0
  /\ UNCHANGED <<landing, parked, since>>

StartLanding ==
  /\ op = "none" /\ landing > 0
  /\ op' = "land" /\ since' = clock'
  /\ UNCHANGED <<landing, parked, departing, gone>>

StartTakeOff ==
  /\ op = "none" /\ departing > 0
  /\ op' = "takeoff"
  /\ UNCHANGED <<landing, parked, departing, gone, since>>

CallOff ==
  /\ op = "land" /\ since = clock' /\ departing > 0
  /\ op' = "none"
  /\ UNCHANGED <<landing, parked, departing, gone, since>>

PriorityNext ==
  /\ clock' >= clock
  /\ clock' > clock => Settled
  /\ \/ Arrive \/ Land \/ Unpark \/ TakeOff
     \/ StartLanding \/ StartTakeOff \/ CallOff

PrioritySpec == PriorityInit /\ [][PriorityNext]_priorityVars
=============================================================================
