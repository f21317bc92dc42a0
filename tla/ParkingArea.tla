----------------------------- MODULE ParkingArea -----------------------------
(***************************************************************************)
(* The parking area (ParkingArea.cc): landed airplanes park for a time,    *)
(* then take off at once or wait in the FIFO departing queue.  Its handler *)
(* for a completed landing calls ControlTower::completed() and is in       *)
(* AirTrafficControl.                                                      *)
(***************************************************************************)
EXTENDS SimKernel, Statistics, ControlTower, Sequences

VARIABLES
  departQueue,      \* airplanes waiting to take off
  numParked         \* airplanes whose parking time is running

parkingVars == <<departQueue, numParked>>

ParkingTimes == Draw(par.isParkingTimeRandom, par.parkingTime)
TakeoffTimes == Draw(par.isTakeoffTimeRandom, par.takeoffTime)

InitParkingArea ==
  /\ departQueue = << >>
  /\ numParked = 0

\* getMaxQueueTime(): the arrival time of the front airplane, -1 if none
ParkingAreaMaxQueueTime ==
  IF departQueue = << >> THEN -1 ELSE Head(departQueue).queueArrivalTime

\* The runway is given to an airplane that takes off (as StartLanding).
StartTakeoff(plane, t, n, kept, st) ==
  \E nextTakeoffTime \in TakeoffTimes :
    /\ fes' = kept \cup {Message("airspace", t + nextTakeoffTime, n, plane)}
    /\ stats' = Emit(st, "RunwayUse", nextTakeoffTime)

(***************************************************************************)
(* handleMessage(), self-message: an airplane's parking time is over.  The *)
(* airplane leaves the count of parked ones and the tower is notified.     *)
(***************************************************************************)
ParkingExpired(e) ==
  /\ Deliver(e, "parkingarea", TRUE)
  /\ numParked' = numParked - 1
  /\ UNCHANGED running

\* MUTANT: post-decrement instead of pre-decrement in the emitted sample
Mut_Unparked == Emit(stats, "ParkedPlanes", numParked)

Unparked == Emit(stats, "ParkedPlanes", numParked - 1)

\* MUTANT: an immediate take-off leaves no waiting-time sample
Mut_ParkingExpiredGranted(e) ==
  /\ ParkingExpired(e)
  /\ notify(TRUE)
  /\ UNCHANGED departQueue
  /\ StartTakeoff(e.plane, e.time, seq, fes \ {e},
                  Emit(Unparked, "DepartQueueSize", 0))

ParkingExpiredGranted(e) ==
  /\ ParkingExpired(e)
  /\ notify(TRUE)
  /\ UNCHANGED departQueue
  /\ StartTakeoff(e.plane, e.time, seq, fes \ {e},
                  Emit(Emit(Unparked, "DepartQueueSize", 0),
                       "DepartQueueWaitingTime", 0))

\* MUTANT: the queue time is the one left over from the holding queue
Mut_ParkingExpiredQueued(e) ==
  /\ ParkingExpired(e)
  /\ notify(FALSE)
  /\ departQueue' = Append(departQueue, e.plane)
  /\ stats' = Emit(Unparked, "DepartQueueSize", Len(departQueue) + 1)
  /\ fes' = fes \ {e}

ParkingExpiredQueued(e) ==
  /\ ParkingExpired(e)
  /\ notify(FALSE)
  /\ departQueue' = Append(departQueue,
                           [e.plane EXCEPT !.queueArrivalTime = e.time])
  /\ stats' = Emit(Unparked, "DepartQueueSize", Len(departQueue) + 1)
  /\ fes' = fes \ {e}

(***************************************************************************)
(* go(): at time t the front airplane of the departing queue starts its    *)
(* take-off.                                                               *)
(***************************************************************************)
ParkingAreaGo(t, kept, st) ==
  LET plane == Head(departQueue) IN
  /\ departQueue' = Tail(departQueue)
  /\ StartTakeoff(plane, t, seq + 1, kept,
                  Emit(Emit(st, "DepartQueueWaitingTime",
                            t - plane.queueArrivalTime),
                       "DepartQueueSize", Len(departQueue) - 1))
=============================================================================
