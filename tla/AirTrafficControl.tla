-------------------------- MODULE AirTrafficControl --------------------------
(***************************************************************************)
(* The network (AirTrafficControl.ned): airspace, parking area and control *)
(* tower, which call each other synchronously within one event.  Here are  *)
(* the operations that reach across modules: ControlTower::completed() and *)
(* the two handlers of messages sent over the gates, which call it.        *)
(***************************************************************************)
EXTENDS Airspace, ParkingArea, FiniteSets

vars == <<par, now, fes, seq, running, stats, landingStripOccupied,
          holdingQueue, departedPlanes, created, departQueue, numParked>>

Init ==
  /\ par \in Configs
  /\ now = 0
  /\ seq = 1
  /\ running = TRUE
  /\ InitStats
  /\ InitTower
  /\ InitAirspace
  /\ InitParkingArea

(***************************************************************************)
(* completed(), called at time t by a handler that has left the events     *)
(* kept in the fes and brought the recorders to st: the strip is freed or  *)
(* handed over to the airplane NextToMove selects.                         *)
(***************************************************************************)
Selected == NextToMove(AirspaceMaxQueueTime, ParkingAreaMaxQueueTime)

\* MUTANT: the strip is left marked as occupied
Mut_FreeStrip(kept, st) ==
  /\ Selected = "nobody"
  /\ fes' = kept
  /\ stats' = st
  /\ UNCHANGED <<landingStripOccupied, holdingQueue, departQueue>>

FreeStrip(kept, st) ==
  /\ Selected = "nobody"
  /\ landingStripOccupied' = FALSE
  /\ fes' = kept
  /\ stats' = st
  /\ UNCHANGED <<holdingQueue, departQueue>>

\* MUTANT: the strip is marked as free although an airplane is sent onto it
Mut_HandOverToLanding(t, kept, st) ==
  /\ Selected = "airspace"
  /\ AirspaceGo(t, kept, st)
  /\ landingStripOccupied' = FALSE
  /\ UNCHANGED departQueue

HandOverToLanding(t, kept, st) ==
  /\ Selected = "airspace"
  /\ AirspaceGo(t, kept, st)
  /\ UNCHANGED <<landingStripOccupied, departQueue>>

HandOverToTakeoff(t, kept, st) ==
  /\ Selected = "parkingarea"
  /\ ParkingAreaGo(t, kept, st)
  /\ UNCHANGED <<landingStripOccupied, holdingQueue>>

completed(t, kept, st) ==
  \/ FreeStrip(kept, st)
  \/ HandOverToLanding(t, kept, st)
  \/ HandOverToTakeoff(t, kept, st)

(***************************************************************************)
(* ParkingArea::handleMessage(), message from the airspace: an airplane    *)
(* has landed.  Its parking time is scheduled before completed() is called.*)
(***************************************************************************)
Landed(e) ==
  /\ Deliver(e, "parkingarea", FALSE)
  /\ numParked' = numParked + 1
  /\ \E nextParkingTime \in ParkingTimes :
       completed(e.time,
                 (fes \ {e}) \cup {SelfMessage("parkingarea",
                                    e.time + nextParkingTime, seq, e.plane)},
                 Emit(stats, "ParkedPlanes", numParked + 1))
  /\ UNCHANGED <<running, departedPlanes, created>>

(***************************************************************************)
(* Airspace::handleMessage(), message from the parking area: an airplane   *)
(* has taken off and leaves the system.  The one that brings the count to  *)
(* totalSamples ends the simulation, without calling completed().          *)
(***************************************************************************)
TakenOff(e) ==
  /\ Deliver(e, "airspace", FALSE)
  /\ departedPlanes' = departedPlanes + 1
  /\ UNCHANGED <<created, numParked>>

Responded(e) == Emit(stats, "AirportResponseTime", e.time - e.plane.timestamp)

Departed(e) ==
  /\ TakenOff(e)
  /\ departedPlanes + 1 < par.totalSamples
  /\ completed(e.time, fes \ {e}, Responded(e))
  /\ UNCHANGED running

\* MUTANT: off by one, the departure before the last one ends the simulation
Mut_LastDeparted(e) ==
  /\ TakenOff(e)
  /\ departedPlanes + 2 >= par.totalSamples
  /\ fes' = fes \ {e}
  /\ stats' = Emit(Responded(e), "TotalSimtime", e.time)
  /\ running' = FALSE
  /\ UNCHANGED <<landingStripOccupied, holdingQueue, departQueue>>

LastDeparted(e) ==
  /\ TakenOff(e)
  /\ departedPlanes + 1 >= par.totalSamples
  /\ fes' = fes \ {e}
  /\ stats' = Emit(Responded(e), "TotalSimtime", e.time)
  /\ running' = FALSE
  /\ UNCHANGED <<landingStripOccupied, holdingQueue, departQueue>>

Next ==
  \E e \in fes :
    \/ (ArrivalGranted(e) \/ ArrivalQueued(e)) /\ UNCHANGED parkingVars
    \/ (ParkingExpiredGranted(e) \/ ParkingExpiredQueued(e))
         /\ UNCHANGED airspaceVars
    \/ Landed(e)
    \/ Departed(e)
    \/ LastDeparted(e)

\* The kernel's event loop keeps delivering events until endSimulation().
Spec == Init /\ [][Next]_vars /\ WF_vars(Next)
=============================================================================
