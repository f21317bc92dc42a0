------------------------------ MODULE Airspace ------------------------------
(***************************************************************************)
(* The airspace (Airspace.cc): airplanes arrive, land at once or wait in   *)
(* the FIFO holding queue, and leave the system after their take-off.      *)
(* Its handler for a completed take-off calls ControlTower::completed()    *)
(* and is in AirTrafficControl.  The members nextArrival and               *)
(* nextLandingTime are only used within one call and are not state.        *)
(***************************************************************************)
EXTENDS SimKernel, Statistics, ControlTower, Sequences

CONSTANT MaxPlanes    \* bound: airplanes created in a run

ASSUME MaxPlanesAssumption == MaxPlanes \in Nat

VARIABLES
  holdingQueue,       \* airplanes waiting to land
  departedPlanes,     \* airplanes that left the system
  created             \* airplanes created so far; the last one is number created

airspaceVars == <<holdingQueue, departedPlanes, created>>

InterArrivalTimes == Draw(par.isInterArrivalTimeRandom, par.interArrivalTime)
LandingTimes      == Draw(par.isLandingTimeRandom, par.landingTime)

InitAirspace ==
  /\ holdingQueue = << >>
  /\ departedPlanes = 0
  /\ created = 1
  /\ \E nextArrival \in InterArrivalTimes :
       fes = {SelfMessage("airspace", nextArrival, 0, NewAirplane(1))}

\* getMaxQueueTime(): the arrival time of the front airplane, -1 if none
AirspaceMaxQueueTime ==
  IF holdingQueue = << >> THEN -1 ELSE Head(holdingQueue).queueArrivalTime

\* MUTANT: the landing time is drawn a second time for the sample
Mut_StartLanding(plane, t, n, kept, st) ==
  \E nextLandingTime, sampled \in LandingTimes :
    /\ fes' = kept \cup
                {Message("parkingarea", t + nextLandingTime, n, plane)}
    /\ stats' = Emit(st, "RunwayUse", sampled)

(***************************************************************************)
(* The runway is given to an airplane that lands: the last three           *)
(* statements of the granted branch of handleMessage() and of go().  kept  *)
(* are the events left in the fes, st the recorders' state before the      *)
(* RunwayUse sample, n the insertion number of the sent message.           *)
(***************************************************************************)
StartLanding(plane, t, n, kept, st) ==
  \E nextLandingTime \in LandingTimes :
    /\ fes' = kept \cup
                {Message("parkingarea", t + nextLandingTime, n, plane)}
    /\ stats' = Emit(st, "RunwayUse", nextLandingTime)

\* The airplane that the arrival handler creates and schedules at its end.
NextArrival(t, nextArrival) ==
  SelfMessage("airspace", t + nextArrival, seq + 1, NewAirplane(created + 1))

(***************************************************************************)
(* handleMessage(), self-message: an airplane arrives.  It is stamped,     *)
(* the tower notified, and the next airplane's arrival is scheduled.       *)
(***************************************************************************)
Arrival(e) ==
  /\ Deliver(e, "airspace", TRUE)
  /\ created < MaxPlanes
  /\ created' = created + 1
  /\ UNCHANGED <<running, departedPlanes>>

\* MUTANT: the arrival time in the system is not recorded
Mut_Stamped(e) == e.plane

Stamped(e) == [e.plane EXCEPT !.timestamp = e.time]

\* MUTANT: the next arrival is scheduled before the airplane is sent to land
Mut_ArrivalGranted(e) ==
  /\ Arrival(e)
  /\ notify(TRUE)
  /\ UNCHANGED holdingQueue
  /\ \E nextArrival \in InterArrivalTimes :
       StartLanding(Stamped(e), e.time, seq + 1,
                    (fes \ {e}) \cup {[NextArrival(e.time, nextArrival)
                                         EXCEPT !.seq = seq]},
                    Emit(Emit(stats, "HoldingQueueSize", 0),
                         "HoldingQueueWaitingTime", 0))

ArrivalGranted(e) ==
  /\ Arrival(e)
  /\ notify(TRUE)
  /\ UNCHANGED holdingQueue
  /\ \E nextArrival \in InterArrivalTimes :
       StartLanding(Stamped(e), e.time, seq,
                    (fes \ {e}) \cup {NextArrival(e.time, nextArrival)},
                    Emit(Emit(stats, "HoldingQueueSize", 0),
                         "HoldingQueueWaitingTime", 0))

\* MUTANT: the next arrival is scheduled only after an immediate landing
Mut_ArrivalQueued(e) ==
  /\ Arrival(e)
  /\ notify(FALSE)
  /\ holdingQueue' = Append(holdingQueue,
                            [Stamped(e) EXCEPT !.queueArrivalTime = e.time])
  /\ stats' = Emit(stats, "HoldingQueueSize", Len(holdingQueue) + 1)
  /\ fes' = fes \ {e}

ArrivalQueued(e) ==
  /\ Arrival(e)
  /\ notify(FALSE)
  /\ holdingQueue' = Append(holdingQueue,
                            [Stamped(e) EXCEPT !.queueArrivalTime = e.time])
  /\ stats' = Emit(stats, "HoldingQueueSize", Len(holdingQueue) + 1)
  /\ \E nextArrival \in InterArrivalTimes :
       fes' = (fes \ {e}) \cup {NextArrival(e.time, nextArrival)}

\* MUTANT: the queue length is sampled before the airplane is extracted
Mut_AirspaceGo(t, kept, st) ==
  LET plane == Head(holdingQueue) IN
  /\ holdingQueue' = Tail(holdingQueue)
  /\ StartLanding(plane, t, seq + 1, kept,
                  Emit(Emit(st, "HoldingQueueWaitingTime",
                            t - plane.queueArrivalTime),
                       "HoldingQueueSize", Len(holdingQueue)))

(***************************************************************************)
(* go(): at time t the front airplane of the holding queue starts landing. *)
(***************************************************************************)
AirspaceGo(t, kept, st) ==
  LET plane == Head(holdingQueue) IN
  /\ holdingQueue' = Tail(holdingQueue)
  /\ StartLanding(plane, t, seq + 1, kept,
                  Emit(Emit(st, "HoldingQueueWaitingTime",
                            t - plane.queueArrivalTime),
                       "HoldingQueueSize", Len(holdingQueue) - 1))
=============================================================================
