------------------------------- MODULE Parking -------------------------------
(***************************************************************************)
(* Parking and Runway.  Parking keeps a counter only: the airplane that    *)
(* leaves is a new message.  Runway forwards what comes from Sky; what     *)
(* comes from TakeOff ends there.                                          *)
(***************************************************************************)
EXTENDS EventSet, Integers

VARIABLES
  numAirplanes,   \* airplanes in the parking
  left            \* airplanes that took off

parkingVars == <<numAirplanes, left>>

InitParking == numAirplanes = 0 /\ left = 0

ParkingEntered(e) ==
  /\ Deliver(e, "parking.park", "Airplane")
  /\ numAirplanes' = numAirplanes + 1
  /\ UNCHANGED left
  /\ \E t \in Draw(par.tp) : Replace({e}, {Event("parking", "unnamed", t, 0)})

ParkingExpired(e) ==
  /\ Deliver(e, "parking", "unnamed")
  /\ numAirplanes' = numAirplanes - 1
  /\ UNCHANGED left
  /\ Replace({e}, {Event("takeOff.park", "Airplane", 0, 0)})

\* MUTANT: the airplane from Sky is not forwarded
Mut_Forwarded == {}

Forwarded == {Event("parking.park", "Airplane", 0, 0)}

RunwayFromSky(e) ==
  /\ Deliver(e, "runway.sky", "Airplane")
  /\ Replace({e}, Forwarded)
  /\ UNCHANGED parkingVars

RunwayFromTakeOff(e) ==
  /\ Deliver(e, "runway.takeOff", "Airplane")
  /\ left' = left + 1
  /\ Replace({e}, {})
  /\ UNCHANGED numAirplanes

ParkingStep(e) ==
  \/ ParkingEntered(e)
  \/ ParkingExpired(e)
  \/ RunwayFromSky(e)
  \/ RunwayFromTakeOff(e)
=============================================================================
