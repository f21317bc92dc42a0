---------------------------- MODULE AirportTimes ----------------------------
(***************************************************************************)
(* Properties about the times an airplane spends in the system: an exact   *)
(* accounting of the recorded times, what the constant-time regimes of     *)
(* omnetpp.ini guarantee, and the end of every simulation.                 *)
(***************************************************************************)
EXTENDS AirportSafety, FiniteSetsExt, FiniteSums

InSystem == {e.plane : e \in fes \ ArrivalEvents}
              \cup Queued(holdingQueue) \cup Queued(departQueue)

Waited(queue) == MapThenSumSet(LAMBDA p : now - p.queueArrivalTime,
                               Queued(queue))

Remaining(events) == MapThenSumSet(LAMBDA e : e.time - now, events)

\* Airplanes that have landed: parked, waiting to take off, or served since.
LandedPlanes == numParked + Len(departQueue)
                  + stats["DepartQueueWaitingTime"].count

(***************************************************************************)
(* The response times recorded, with the ages of the airplanes still in    *)
(* the system, are exactly the times waited in the two queues, on the      *)
(* runway and parked.  The four sums come from the samples of different    *)
(* handlers and from times stored in the airplane by other ones; a stale   *)
(* queueArrivalTime or timestamp, or a wait recorded as 0, breaks it.  It  *)
(* needs the parking time, which no signal samples, to be constant.        *)
(***************************************************************************)
ResponseTimeAccounting ==
  ~par.isParkingTimeRandom =>
    stats["AirportResponseTime"].sum
      + MapThenSumSet(LAMBDA p : now - p.timestamp, InSystem)
    = stats["HoldingQueueWaitingTime"].sum + Waited(holdingQueue)
      + stats["DepartQueueWaitingTime"].sum + Waited(departQueue)
      + stats["RunwayUse"].sum - Remaining(RunwayEvents)
      + par.parkingTime * LandedPlanes - Remaining(ParkedEvents)

(***************************************************************************)
(* The inductive invariant behind it, in which the clock does not occur:   *)
(* every age is cut where the current stage of the airplane began or will  *)
(* end, at the queueArrivalTime of a queued airplane and at the time of    *)
(* the event that carries any other.  As CountInv it is stated for any     *)
(* event set F, queues H and D, recorders st and number np of airplanes    *)
(* parked; pt is the parking time.                                         *)
(***************************************************************************)
MovingIn(F) == {e \in F : ~ (e.self /\ e.to = "airspace")}

AgeAtEvent    == [e \in Events |-> e.time - e.plane.timestamp]
AgeWhenQueued == [p \in Airplanes |-> p.queueArrivalTime - p.timestamp]

EventAges(F) == Total(AgeAtEvent, MovingIn(F))
QueueAges(q) == Total(AgeWhenQueued, Queued(q))

Balanced(F, H, D, st, np, pt) ==
  st["AirportResponseTime"].sum
    + EventAges(F) + QueueAges(H) + QueueAges(D)
  = st["HoldingQueueWaitingTime"].sum + st["DepartQueueWaitingTime"].sum
    + st["RunwayUse"].sum
    + pt * (np + Len(D) + st["DepartQueueWaitingTime"].count)

BalanceInv ==
  ~par.isParkingTimeRandom =>
    Balanced(fes, holdingQueue, departQueue, stats, numParked, par.parkingTime)

AllConstant == ~ (par.isInterArrivalTimeRandom \/ par.isLandingTimeRandom
                    \/ par.isParkingTimeRandom \/ par.isTakeoffTimeRandom)

(***************************************************************************)
(* In the stable grid of omnetpp.ini (DeterministicRegimeStable) an        *)
(* airplane waits for at most one other: no queue holds two airplanes,     *)
(* none waits to land longer than a take-off or to take off longer than a  *)
(* landing.  It is a claim about that grid: with landings much shorter     *)
(* than take-offs the stability condition alone does not give it.          *)
(***************************************************************************)
StableWaitsBounded ==
  AllConstant /\ par.interArrivalTime >= par.landingTime + par.takeoffTime =>
    /\ Len(holdingQueue) <= 1 /\ Len(departQueue) <= 1
    /\ stats["HoldingQueueWaitingTime"].last <= par.takeoffTime
    /\ stats["DepartQueueWaitingTime"].last <= par.landingTime

(***************************************************************************)
(* In the unstable grid (DeterministicRegimeUnstable) the runway saturates:*)
(* after the first arrival and one parking time at most, every unit of     *)
(* time is spent landing or taking off, so the utilization factor tends to *)
(* 1.  This too is a claim about the grid's times.                         *)
(***************************************************************************)
UnstableSaturates ==
  AllConstant /\ par.interArrivalTime < par.landingTime + par.takeoffTime =>
    now - stats["RunwayUse"].sum <= par.interArrivalTime + par.parkingTime

\* The time an airplane spends in the system if it never waits.
Stay == par.landingTime + par.parkingTime + par.takeoffTime

(***************************************************************************)
(* If an airplane is gone before the next one arrives, no airplane waits.  *)
(* At equality the arrival is handled first, queued, and served in the     *)
(* same instant: it is sampled as queued but with a waiting time of 0.     *)
(***************************************************************************)
LightTrafficNeverWaits ==
  AllConstant /\ par.interArrivalTime >= Stay =>
    /\ stats["HoldingQueueWaitingTime"].sum = 0
    /\ stats["DepartQueueWaitingTime"].sum = 0
    /\ stats["DepartQueueSize"].sum = 0
    /\ par.interArrivalTime > Stay => stats["HoldingQueueSize"].sum = 0

(***************************************************************************)
(* The inductive invariant behind it.  Beside the next arrival A there is  *)
(* at most one airplane, due to leave (after the steps that follow its     *)
(* event m) before A arrives; or, at equality, that arrival was just       *)
(* handled and waits for the take-off m that ends in the same instant.     *)
(* Take-offs must take time: with parking and take-off over in an instant, *)
(* an arrival of that instant gets the runway first.                       *)
(***************************************************************************)
TakeoffsTakeTime == \A c \in Configs : c.takeoffTime > 0

ToGo(m) == IF m.self THEN par.takeoffTime
           ELSE IF m.to = "parkingarea" THEN par.parkingTime + par.takeoffTime
           ELSE 0

Alone(A) == fes = {A} /\ holdingQueue = << >> /\ departQueue = << >>

OneInSystem(A, m) ==
  /\ fes = {A, m} /\ holdingQueue = << >> /\ departQueue = << >>
  /\ m.time + ToGo(m) + (par.interArrivalTime - Stay) <= A.time

BeingFollowed(A, m) ==
  /\ fes = {A, m} /\ ~m.self /\ m.to = "airspace"
  /\ Len(holdingQueue) = 1 /\ departQueue = << >>
  /\ par.interArrivalTime = Stay
  /\ m.time = now /\ Head(holdingQueue).queueArrivalTime = now
  /\ now + par.interArrivalTime <= A.time

LightInv ==
  AllConstant /\ par.interArrivalTime >= Stay =>
    /\ LightTrafficNeverWaits
    /\ running => \E A \in ArrivalEvents :
                    \/ Alone(A)
                    \/ \E m \in fes \ ArrivalEvents :
                         OneInSystem(A, m) \/ BeingFollowed(A, m)

(***************************************************************************)
(* The simulation ends: runway hand-overs never stall, and totalSamples    *)
(* departures are reached with endSimulation() called at the last one.     *)
(***************************************************************************)
SimulationEnds == <>(~running /\ departedPlanes = par.totalSamples)
=============================================================================
