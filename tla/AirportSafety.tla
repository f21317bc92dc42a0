---------------------------- MODULE AirportSafety ----------------------------
(***************************************************************************)
(* What makes the simulated airport correct, and what makes the statistics *)
(* it records describe it: the safety properties of AirTrafficControl.     *)
(***************************************************************************)
EXTENDS AirTrafficControl

Queued(queue) == {queue[i] : i \in 1..Len(queue)}

ArrivalEvents == {e \in fes : e.self /\ e.to = "airspace"}
ParkedEvents  == {e \in fes : e.self /\ e.to = "parkingarea"}
LandingEvents == {e \in fes : ~e.self /\ e.to = "parkingarea"}
TakeoffEvents == {e \in fes : ~e.self /\ e.to = "airspace"}
RunwayEvents  == {e \in fes : ~e.self}

(***************************************************************************)
(* Every variable has its type: in particular getMaxQueueTime() only sees  *)
(* airplanes with an arrival time, and all times are on the ms grid.       *)
(***************************************************************************)
TypeOK ==
  /\ par \in Configs
  /\ now \in Nat
  /\ seq \in Nat
  /\ running \in BOOLEAN
  /\ fes \subseteq Events
  /\ stats \in StatsType
  /\ landingStripOccupied \in BOOLEAN
  /\ holdingQueue \in Seq(Airplanes)
  /\ departQueue \in Seq(Airplanes)
  /\ departedPlanes \in Nat
  /\ created \in Nat
  /\ numParked \in Int

(***************************************************************************)
(* The runway carries one airplane at a time, and while the simulation     *)
(* runs the tower's landingStripOccupied says exactly whether it carries   *)
(* one.  The flag is written by notify() and completed(), the airplanes    *)
(* move in the granted branches and in go() of two other modules.          *)
(***************************************************************************)
RunwayExclusive ==
  /\ \A e, f \in RunwayEvents : e = f
  /\ running => (landingStripOccupied <=> RunwayEvents # {})

(***************************************************************************)
(* No airplane waits while the strip is free: nobody would wake it up, as  *)
(* only completed() calls go() (a lost hand-over).                         *)
(***************************************************************************)
NoIdleWaiting ==
  ~landingStripOccupied => holdingQueue = << >> /\ departQueue = << >>

(***************************************************************************)
(* README.md: "the control tower serves the airplane with the largest      *)
(* waiting time in either queues"; and completed() prefers the landing     *)
(* when the oldest airplanes of both queues share their arrival times.     *)
(* An airplane that leaves a queue has waited longest, over both queues,   *)
(* and one that takes off has waited longer than every one that could land.*)
(***************************************************************************)
ServesOldest ==
  /\ \A p \in Queued(holdingQueue) \ Queued(holdingQueue') :
       \A q \in Queued(holdingQueue) \cup Queued(departQueue) :
         p.queueArrivalTime <= q.queueArrivalTime
  /\ \A p \in Queued(departQueue) \ Queued(departQueue') :
       /\ \A q \in Queued(departQueue) :
            p.queueArrivalTime <= q.queueArrivalTime
       /\ \A q \in Queued(holdingQueue) :
            p.queueArrivalTime < q.queueArrivalTime

ServesOldestProperty == [][ServesOldest]_vars

(***************************************************************************)
(* "Being a FIFO queue the oldest airplane is the one in front": both      *)
(* getMaxQueueTime() rely on it.  The queue times never decrease along a   *)
(* queue, and none is in the future.                                       *)
(***************************************************************************)
Ordered(queue) ==
  /\ \A i \in 1..Len(queue) : queue[i].queueArrivalTime <= now
  /\ \A i, j \in 1..Len(queue) :
       i <= j => queue[i].queueArrivalTime <= queue[j].queueArrivalTime

QueuesOrdered == Ordered(holdingQueue) /\ Ordered(departQueue)

(***************************************************************************)
(* No airplane is lost, duplicated or stuck: every airplane created is in  *)
(* exactly one place (an event or a queue) until it departs, and exactly   *)
(* one of them, the newest, has not arrived yet, so that arrivals go on.   *)
(***************************************************************************)
PlaneIds == {e.plane.id : e \in fes} \cup
            {p.id : p \in Queued(holdingQueue) \cup Queued(departQueue)}

PlanesConserved ==
  /\ Cardinality(fes) + Len(holdingQueue) + Len(departQueue)
       = Cardinality(PlaneIds)
  /\ Cardinality(PlaneIds) + departedPlanes = created
  /\ {e.plane.id : e \in ArrivalEvents} = {created}

(***************************************************************************)
(* numParked, changed by ++ and -- in two branches of a handler, counts    *)
(* the airplanes whose parking time is running, and the last ParkedPlanes  *)
(* sample is that count.                                                   *)
(***************************************************************************)
ParkedCountExact ==
  /\ numParked = Cardinality(ParkedEvents)
  /\ stats["ParkedPlanes"].last = numParked

(***************************************************************************)
(* The last queue-size sample is always the queue's length: the samples    *)
(* follow every change, and the literal 0 emitted when the runway is       *)
(* granted at once is the length of the queue at that moment.              *)
(***************************************************************************)
QueueSizesSampled ==
  /\ stats["HoldingQueueSize"].last = Len(holdingQueue)
  /\ stats["DepartQueueSize"].last = Len(departQueue)

(***************************************************************************)
(* Every runway use is sampled once, every airplane contributes one        *)
(* waiting-time sample per queue, when it gets the runway, and one         *)
(* response time.                                                          *)
(***************************************************************************)
OneSamplePerPlane ==
  /\ stats["HoldingQueueWaitingTime"].count + Len(holdingQueue) + 1 = created
  /\ stats["DepartQueueWaitingTime"].count
       = departedPlanes + Cardinality(TakeoffEvents)
  /\ stats["RunwayUse"].count = stats["HoldingQueueWaitingTime"].count
                                  + stats["DepartQueueWaitingTime"].count
  /\ stats["AirportResponseTime"].count = departedPlanes

(***************************************************************************)
(* omnetpp.ini calls totalSamples the "Minimum number of samples to        *)
(* collect for each statistic before ending the simulation": when the      *)
(* simulation has ended, every statistic with a mean was emitted that many *)
(* samples.                                                                *)
(***************************************************************************)
EnoughSamples ==
  ~running => \A s \in Signals \ {"RunwayUse", "TotalSimtime"} :
                stats[s].count >= par.totalSamples

(***************************************************************************)
(* The utilization factor sum(RunwayUse)/TotalSimtime of                   *)
(* AirTrafficControl.ned is at most 1.  Each RunwayUse sample is emitted   *)
(* in full when the operation starts, so on the way the sum may exceed the *)
(* clock, but never the end of the operation in progress.                  *)
(***************************************************************************)
UtilizationAtMostOne ==
  /\ \A e \in RunwayEvents : stats["RunwayUse"].sum <= e.time
  /\ RunwayEvents = {} => stats["RunwayUse"].sum <= now
  /\ ~running => /\ stats["TotalSimtime"].count = 1
                 /\ stats["RunwayUse"].sum <= stats["TotalSimtime"].sum

(***************************************************************************)
(* The inductive invariant behind the properties of the runway: no pending *)
(* event lies in the past, and the total simulation time is not emitted    *)
(* before the end.                                                         *)
(***************************************************************************)
EventsAhead == \A e \in fes : now <= e.time

NotEndedYet == running => /\ stats["TotalSimtime"].count = 0
                          /\ stats["TotalSimtime"].sum = 0

RunwayInv ==
  /\ TypeOK
  /\ EventsAhead
  /\ RunwayExclusive
  /\ NoIdleWaiting
  /\ QueuesOrdered
  /\ NotEndedYet
  /\ UtilizationAtMostOne

(***************************************************************************)
(* The inductive invariant behind the counters and the samples.  It is     *)
(* stated for any event set F, queues H and D and recorders st, because a  *)
(* handler that calls completed() has brought some of them up to date when *)
(* it does so, and not yet the others.                                     *)
(***************************************************************************)
ParkedIn(F)   == {e \in F : e.self /\ e.to = "parkingarea"}
TakeoffsIn(F) == {e \in F : ~e.self /\ e.to = "airspace"}

\* No two places hold the same airplane.
PlacedOnce(F, H, D) ==
  /\ \A e, f \in F : e.plane.id = f.plane.id => e = f
  /\ \A i, j \in 1..Len(H) : H[i].id = H[j].id => i = j
  /\ \A i, j \in 1..Len(D) : D[i].id = D[j].id => i = j
  /\ \A e \in F : /\ \A i \in 1..Len(H) : e.plane.id # H[i].id
                  /\ \A j \in 1..Len(D) : e.plane.id # D[j].id
  /\ \A i \in 1..Len(H), j \in 1..Len(D) : H[i].id # D[j].id

\* Airplanes are numbered from 1; number n, and no other, has not arrived yet.
Numbered(F, H, D, n) ==
  /\ \A e \in F : /\ e.plane.id \in 1..n
                  /\ (e.self /\ e.to = "airspace") <=> e.plane.id = n
  /\ \A i \in 1..Len(H) : H[i].id \in 1..n
  /\ \A j \in 1..Len(D) : D[j].id \in 1..n
  /\ \E e \in F : e.plane.id = n

\* Airplanes and samples add up: np are parked, dep departed, n were created.
Tallied(F, H, D, st, np, dep, n) ==
  /\ Cardinality(F) + Len(H) + Len(D) + dep = n
  /\ np = Cardinality(ParkedIn(F))
  /\ st["ParkedPlanes"].last = np
  /\ st["HoldingQueueSize"].last = Len(H)
  /\ st["DepartQueueSize"].last = Len(D)
  /\ st["HoldingQueueWaitingTime"].count + Len(H) + 1 = n
  /\ st["DepartQueueWaitingTime"].count = dep + Cardinality(TakeoffsIn(F))
  /\ st["RunwayUse"].count = st["HoldingQueueWaitingTime"].count
                               + st["DepartQueueWaitingTime"].count
  /\ st["AirportResponseTime"].count = dep
  /\ st["HoldingQueueSize"].count >= st["HoldingQueueWaitingTime"].count
  /\ st["DepartQueueSize"].count >= st["DepartQueueWaitingTime"].count
  /\ st["ParkedPlanes"].count
       >= st["DepartQueueWaitingTime"].count + Len(D)

CountInv ==
  /\ IsFiniteSet(fes)
  /\ \A e \in fes : e.seq < seq
  /\ PlacedOnce(fes, holdingQueue, departQueue)
  /\ Numbered(fes, holdingQueue, departQueue, created)
  /\ Tallied(fes, holdingQueue, departQueue, stats,
             numParked, departedPlanes, created)
  /\ ~running => departedPlanes >= par.totalSamples

(***************************************************************************)
(* "Should two airplanes be ready for landing and take-off at exactly the  *)
(* same time, the Control Tower will assign the runway to the airplane     *)
(* requesting to land": the runway is never granted to an airplane whose   *)
(* parking time expires while an arrival of the same instant is pending.   *)
(***************************************************************************)
SimultaneousRequestsLandFirst ==
  [][\A e \in ArrivalEvents :
        numParked' < numParked /\ e.time = now'
          => RunwayEvents' = RunwayEvents]_vars
=============================================================================
