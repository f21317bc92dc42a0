---------------------- MODULE AirportRefinement_proofs ----------------------
(***************************************************************************)
(* Proof that the simulator implements TowerSpec, for every set of         *)
(* configurations, every set of draws and every number of airplanes: the   *)
(* initial states of AirTrafficControl are initial states of TowerSpec and *)
(* each handler is one of its four operations.                             *)
(***************************************************************************)
EXTENDS AirportRefinement, AirportCounts_proofs

(***************************************************************************)
(* The mapping over any event set and queues, as in Settled.               *)
(***************************************************************************)
ParkedIds(F) == {e.plane.id : e \in ParkedIn(F)}

Ids(F, H, D) == EventIds(F) \cup QueueIds(H) \cup QueueIds(D)

RequestOf(p, op) == [plane |-> p.id, op |-> op, since |-> p.queueArrivalTime]

\* The mapped sets by the places of CountInv, in this state,
LEMMA MappedPlaces ==
  Parked = ParkedIds(fes) /\ PlaneIds = Ids(fes, holdingQueue, departQueue)
  BY DEF Parked, ParkedIds, ParkedEvents, ParkedIn, PlaneIds, Ids, EventIds,
     QueueIds

\* and in the next one.
LEMMA MappedPlacesNext ==
  /\ Parked' = ParkedIds(fes')
  /\ PlaneIds' = Ids(fes', holdingQueue', departQueue')
  BY DEF Parked, ParkedIds, ParkedEvents, ParkedIn, PlaneIds, Ids, EventIds,
     QueueIds, Queued

\* A request is that of an airplane of the queue.
LEMMA InRequests ==
  ASSUME NEW q, NEW op
  PROVE  \A x : x \in Requests(q, op) <=>
                  \E i \in 1..Len(q) : x = RequestOf(q[i], op)
  BY DEF Requests, Queued, RequestOf

\* An id in a queue is that of an airplane of the queue.
LEMMA InQueueIds ==
  ASSUME NEW q
  PROVE  \A x : x \in QueueIds(q) <=> \E i \in 1..Len(q) : x = q[i].id
  BY DEF QueueIds, Queued

\* An airplane joins a queue.
LEMMA RequestsAppend ==
  ASSUME NEW q \in Seq(Airplanes), NEW p \in Airplanes, NEW op
  PROVE  /\ Requests(Append(q, p), op) = Requests(q, op) \cup {RequestOf(p, op)}
         /\ QueueIds(Append(q, p)) = QueueIds(q) \cup {p.id}
  <1> DEFINE r == Append(q, p)
  <1>1. /\ Len(q) \in Nat /\ Len(r) = Len(q) + 1
        /\ \A i \in 1..Len(q) : r[i] = q[i]
        /\ r[Len(q) + 1] = p
    BY AppendFacts
  <1>2. /\ \A i \in 1..Len(r) : i \in 1..Len(q) \/ i = Len(q) + 1
        /\ \A i \in 1..Len(q) : i \in 1..Len(r)
        /\ Len(q) + 1 \in 1..Len(r)
    BY <1>1
  <1> HIDE DEF r
  <1>3. \A x : (\E i \in 1..Len(r) : x = RequestOf(r[i], op))
                 <=> \/ \E i \in 1..Len(q) : x = RequestOf(q[i], op)
                     \/ x = RequestOf(p, op)
    BY <1>1, <1>2
  <1>4. \A x : x \in Requests(r, op)
                 <=> x \in Requests(q, op) \cup {RequestOf(p, op)}
    <2>1. \A x : x \in Requests(r, op) <=>
                   \E i \in 1..Len(r) : x = RequestOf(r[i], op)
      BY InRequests
    <2>2. \A x : x \in Requests(q, op) <=>
                   \E i \in 1..Len(q) : x = RequestOf(q[i], op)
      BY InRequests
    <2> QED
      BY <1>3, <2>1, <2>2
  <1>5. \A x : (\E i \in 1..Len(r) : x = r[i].id)
                 <=> \/ \E i \in 1..Len(q) : x = q[i].id
                     \/ x = p.id
    BY <1>1, <1>2
  <1>6. \A x : x \in QueueIds(r) <=> x \in QueueIds(q) \cup {p.id}
    <2>1. \A x : x \in QueueIds(r) <=> \E i \in 1..Len(r) : x = r[i].id
      BY InQueueIds
    <2>2. \A x : x \in QueueIds(q) <=> \E i \in 1..Len(q) : x = q[i].id
      BY InQueueIds
    <2> QED
      BY <1>5, <2>1, <2>2
  <1>7. /\ Requests(r, op) = Requests(q, op) \cup {RequestOf(p, op)}
        /\ QueueIds(r) = QueueIds(q) \cup {p.id}
    BY <1>4, <1>6
  <1> QED
    BY <1>7 DEF r

\* The front airplane leaves a queue.
LEMMA RequestsTail ==
  ASSUME NEW q \in Seq(Airplanes), q # << >>, NEW op,
         \A i, j \in 1..Len(q) : q[i].id = q[j].id => i = j
  PROVE  /\ RequestOf(Head(q), op) \in Requests(q, op)
         /\ Requests(Tail(q), op) = Requests(q, op) \ {RequestOf(Head(q), op)}
         /\ QueueIds(q) = QueueIds(Tail(q)) \cup {Head(q).id}
  <1> DEFINE r == Tail(q)
             h == Head(q)
  <1>1. /\ Len(q) \in Nat /\ Len(r) = Len(q) - 1 /\ h = q[1]
        /\ \A i \in 1..Len(r) : r[i] = q[i + 1]
    BY PopFacts
  <1>2. /\ 1 \in 1..Len(q)
        /\ \A i \in 1..Len(r) : i + 1 \in 1..Len(q) /\ i + 1 # 1
        /\ \A i \in 1..Len(q) : i # 1 => i - 1 \in 1..Len(r) /\ (i - 1) + 1 = i
    BY <1>1
  <1> HIDE DEF r, h
  <1>3. \A i \in 1..Len(q) : i # 1 => \E j \in 1..Len(r) : r[j] = q[i]
    <2> TAKE i \in 1..Len(q)
    <2> HAVE i # 1
    <2>1. i - 1 \in 1..Len(r) /\ (i - 1) + 1 = i
      BY <1>2
    <2>2. r[i - 1] = q[i]
      BY <1>1, <2>1
    <2> QED
      BY <2>1, <2>2
  <1>4. \A j \in 1..Len(r) : \E i \in 1..Len(q) : i # 1 /\ r[j] = q[i]
    BY <1>1, <1>2
  <1>5. \A i \in 1..Len(q) : i # 1 => RequestOf(q[i], op) # RequestOf(h, op)
    BY <1>1, <1>2 DEF RequestOf
  <1>6. \A x : (\E i \in 1..Len(r) : x = RequestOf(r[i], op))
                 <=> /\ \E i \in 1..Len(q) : x = RequestOf(q[i], op)
                     /\ x # RequestOf(h, op)
    <2> TAKE x
    <2>1. ASSUME NEW j \in 1..Len(r), x = RequestOf(r[j], op)
          PROVE  /\ \E i \in 1..Len(q) : x = RequestOf(q[i], op)
                 /\ x # RequestOf(h, op)
      BY <1>4, <1>5, <2>1
    <2>2. ASSUME NEW i \in 1..Len(q), x = RequestOf(q[i], op),
                 x # RequestOf(h, op)
          PROVE  \E j \in 1..Len(r) : x = RequestOf(r[j], op)
      <3>1. i # 1
        BY <1>1, <2>2
      <3> QED
        BY <1>3, <2>2, <3>1
    <2> QED
      BY <2>1, <2>2
  <1>7. \A x : x \in Requests(r, op)
                 <=> x \in Requests(q, op) \ {RequestOf(h, op)}
    <2>1. \A x : x \in Requests(r, op) <=>
                   \E i \in 1..Len(r) : x = RequestOf(r[i], op)
      BY InRequests
    <2>2. \A x : x \in Requests(q, op) <=>
                   \E i \in 1..Len(q) : x = RequestOf(q[i], op)
      BY InRequests
    <2> QED
      BY <1>6, <2>1, <2>2
  <1>8. RequestOf(h, op) \in Requests(q, op)
    BY <1>1, <1>2, InRequests
  <1>9. \A x : (\E i \in 1..Len(q) : x = q[i].id)
                 <=> \/ \E i \in 1..Len(r) : x = r[i].id
                     \/ x = h.id
    <2> TAKE x
    <2>1. ASSUME NEW j \in 1..Len(r), x = r[j].id
          PROVE  \E i \in 1..Len(q) : x = q[i].id
      BY <1>4, <2>1
    <2>2. ASSUME x = h.id
          PROVE  \E i \in 1..Len(q) : x = q[i].id
      BY <1>1, <1>2, <2>2
    <2>3. ASSUME NEW i \in 1..Len(q), x = q[i].id, x # h.id
          PROVE  \E j \in 1..Len(r) : x = r[j].id
      <3>1. i # 1
        BY <1>1, <2>3
      <3>2. PICK j \in 1..Len(r) : r[j] = q[i]
        BY <1>3, <3>1
      <3> QED
        BY <2>3, <3>2
    <2> QED
      BY <2>1, <2>2, <2>3
  <1>10. \A x : x \in QueueIds(q) <=> x \in QueueIds(r) \cup {h.id}
    <2> TAKE x
    <2>1. x \in QueueIds(r) <=> \E i \in 1..Len(r) : x = r[i].id
      BY InQueueIds
    <2>2. x \in QueueIds(q) <=> \E i \in 1..Len(q) : x = q[i].id
      BY InQueueIds
    <2>3. (\E i \in 1..Len(q) : x = q[i].id)
            <=> (\E i \in 1..Len(r) : x = r[i].id) \/ x = h.id
      BY <1>9
    <2>4. x \in QueueIds(q) <=> x \in QueueIds(r) \/ x = h.id
      BY <2>1, <2>2, <2>3
    <2> QED
      BY <2>4
  <1>11. /\ Requests(r, op) = Requests(q, op) \ {RequestOf(h, op)}
         /\ QueueIds(q) = QueueIds(r) \cup {h.id}
    BY <1>7, <1>10
  <1> QED
    BY <1>8, <1>11 DEF r, h

\* completed() selects the front airplane with the largest waiting time.
LEMMA SelectedOldest ==
  ASSUME TypeOK, QueuesOrdered
  PROVE  /\ Selected = "airspace" =>
              /\ \A p \in Queued(holdingQueue) :
                   Head(holdingQueue).queueArrivalTime <= p.queueArrivalTime
              /\ \A p \in Queued(departQueue) :
                   Head(holdingQueue).queueArrivalTime <= p.queueArrivalTime
         /\ Selected = "parkingarea" =>
              /\ \A p \in Queued(departQueue) :
                   Head(departQueue).queueArrivalTime <= p.queueArrivalTime
              /\ \A p \in Queued(holdingQueue) :
                   Head(departQueue).queueArrivalTime < p.queueArrivalTime
  <1> DEFINE h == Head(holdingQueue).queueArrivalTime
             d == Head(departQueue).queueArrivalTime
  <1>1. /\ holdingQueue \in Seq(Airplanes) /\ departQueue \in Seq(Airplanes)
        /\ Ordered(holdingQueue) /\ Ordered(departQueue)
    BY DEF TypeOK, QueuesOrdered
  <1>2. ASSUME holdingQueue # << >>
        PROVE  /\ h \in Nat
               /\ \A p \in Queued(holdingQueue) :
                    p.queueArrivalTime \in Nat /\ h <= p.queueArrivalTime
    BY <1>1, <1>2, FrontFacts
  <1>3. ASSUME departQueue # << >>
        PROVE  /\ d \in Nat
               /\ \A p \in Queued(departQueue) :
                    p.queueArrivalTime \in Nat /\ d <= p.queueArrivalTime
    BY <1>1, <1>3, FrontFacts
  <1>4. /\ holdingQueue = << >> => Queued(holdingQueue) = {}
        /\ departQueue = << >> => Queued(departQueue) = {}
    BY DEF Queued
  <1>5. /\ Selected = "airspace" => holdingQueue # << >>
        /\ Selected = "parkingarea" => departQueue # << >>
    BY SelectedFacts
  <1>6. ASSUME Selected = "airspace", departQueue # << >> PROVE h <= d
    BY <1>2, <1>3, <1>5, <1>6 DEF Selected, NextToMove, AirspaceMaxQueueTime,
       ParkingAreaMaxQueueTime
  <1>7. ASSUME Selected = "parkingarea", holdingQueue # << >> PROVE d < h
    BY <1>2, <1>3, <1>5, <1>7 DEF Selected, NextToMove, AirspaceMaxQueueTime,
       ParkingAreaMaxQueueTime
  <1> HIDE DEF h, d
  <1>8. ASSUME Selected = "airspace"
        PROVE  /\ \A p \in Queued(holdingQueue) : h <= p.queueArrivalTime
               /\ \A p \in Queued(departQueue) : h <= p.queueArrivalTime
    BY <1>2, <1>3, <1>4, <1>5, <1>6, <1>8
  <1>9. ASSUME Selected = "parkingarea"
        PROVE  /\ \A p \in Queued(departQueue) : d <= p.queueArrivalTime
               /\ \A p \in Queued(holdingQueue) : d < p.queueArrivalTime
    BY <1>2, <1>3, <1>4, <1>5, <1>7, <1>9
  <1> QED
    BY <1>8, <1>9 DEF h, d

\* A request's time is that of an airplane in the queue.
LEMMA RequestTimes ==
  ASSUME NEW q \in Seq(Airplanes), NEW op, NEW v \in Requests(q, op)
  PROVE  /\ v.op = op /\ v.since \in Nat
         /\ \E p \in Queued(q) : v.since = p.queueArrivalTime
  <1>1. PICK p \in Queued(q) :
          v = [plane |-> p.id, op |-> op, since |-> p.queueArrivalTime]
    BY DEF Requests
  <1>2. p \in Airplanes
    BY DEF Queued
  <1> QED
    BY <1>1, <1>2 DEF Airplanes

(***************************************************************************)
(* completed() is Release: the runway is given to the first of all waiting *)
(* requests, or to nobody if there is none.                                *)
(***************************************************************************)
LEMMA CompletedReleases ==
  ASSUME TypeOK, QueuesOrdered, NEW t, NEW kept, \A f \in kept : f.self,
         NEW st, completed(t, kept, st),
         NEW n, Located(kept, holdingQueue, departQueue, n)
  PROVE  /\ Tower!Release
         /\ ParkedIds(fes') = ParkedIds(kept)
         /\ Ids(fes', holdingQueue', departQueue')
              = Ids(kept, holdingQueue, departQueue)
  <1>1. /\ holdingQueue \in Seq(Airplanes) /\ departQueue \in Seq(Airplanes)
    BY DEF TypeOK
  <1>2. /\ \A i, j \in 1..Len(holdingQueue) :
             holdingQueue[i].id = holdingQueue[j].id => i = j
        /\ \A i, j \in 1..Len(departQueue) :
             departQueue[i].id = departQueue[j].id => i = j
    BY DEF Located, PlacedOnce
  <1>3. CASE FreeStrip(kept, st)
    <2>1. /\ holdingQueue = << >> /\ departQueue = << >>
          /\ holdingQueue' = << >> /\ departQueue' = << >> /\ fes' = kept
      BY <1>3, SelectedFacts DEF FreeStrip
    <2>2. Waiting = {} /\ Waiting' = {}
      BY <2>1 DEF Waiting, Requests, Queued
    <2>3. Using' = {}
      BY <2>1 DEF Using, RunwayEvents
    <2> QED
      BY <2>1, <2>2, <2>3 DEF Tower!Release
  <1>4. CASE HandOverToLanding(t, kept, st)
    <2> DEFINE plane == Head(holdingQueue)
               w == RequestOf(plane, "land")
    <2>1. /\ holdingQueue # << >> /\ Selected = "airspace"
          /\ holdingQueue' = Tail(holdingQueue) /\ departQueue' = departQueue
      BY <1>4, SelectedFacts DEF HandOverToLanding, AirspaceGo
    <2>2. PICK d \in LandingTimes :
            fes' = kept \cup {Message("parkingarea", t + d, seq + 1, plane)}
      BY <1>4 DEF HandOverToLanding, AirspaceGo, StartLanding
    <2> DEFINE g == Message("parkingarea", t + d, seq + 1, plane)
    <2>3. /\ g.self = FALSE /\ g.to = "parkingarea" /\ g.plane = plane
      BY DEF Message
    <2>4. fes' = kept \cup {g}
      BY <2>2
    <2> HIDE DEF g
    <2>5. /\ w \in Requests(holdingQueue, "land")
          /\ Requests(Tail(holdingQueue), "land")
               = Requests(holdingQueue, "land") \ {w}
          /\ QueueIds(holdingQueue) = QueueIds(Tail(holdingQueue)) \cup {plane.id}
      BY <1>1, <1>2, <2>1, RequestsTail
    <2>6. w.op = "land" /\ w.plane = plane.id
          /\ w.since = plane.queueArrivalTime /\ w.since \in Nat
      BY <1>1, <2>1, PopFacts DEF RequestOf, Airplanes
    <2> HIDE DEF w, plane
    <2>7. \A v \in Waiting : Tower!Before(w, v)
      <3>1. ASSUME NEW v \in Requests(holdingQueue, "land")
            PROVE  Tower!Before(w, v)
        BY <1>1, <2>1, <2>6, <3>1, RequestTimes, SelectedOldest
           DEF Tower!Before, plane
      <3>2. ASSUME NEW v \in Requests(departQueue, "takeoff")
            PROVE  Tower!Before(w, v)
        BY <1>1, <2>1, <2>6, <3>2, RequestTimes, SelectedOldest
           DEF Tower!Before, plane
      <3> QED
        BY <3>1, <3>2 DEF Waiting
    <2>8. w \notin Requests(departQueue, "takeoff")
      BY <1>1, <2>6, RequestTimes
    <2>9. w \in Waiting /\ Waiting' = Waiting \ {w}
      <3>1. Waiting' = Requests(Tail(holdingQueue), "land")
                         \cup Requests(departQueue, "takeoff")
        BY <2>1 DEF Waiting, Requests, Queued
      <3> QED
        BY <2>5, <2>8, <3>1 DEF Waiting
    <2>10. RunwayEvents' = {g}
      BY <2>3, <2>4 DEF RunwayEvents
    <2>11. Using' = {Tower!Operation(w.plane, w.op)}
      BY <2>3, <2>6, <2>10 DEF Using, OperationOf, Tower!Operation
    <2>12. Tower!Release
      BY <2>7, <2>9, <2>11 DEF Tower!Release
    <2>13. ParkedIn(fes') = ParkedIn(kept)
      BY <2>3, <2>4 DEF ParkedIn
    <2>14. EventIds(fes') = EventIds(kept) \cup {plane.id}
      BY <2>3, <2>4 DEF EventIds
    <2>15. Ids(fes', holdingQueue', departQueue')
             = Ids(kept, holdingQueue, departQueue)
      BY <2>1, <2>5, <2>14 DEF Ids
    <2> QED
      BY <2>12, <2>13, <2>15 DEF ParkedIds
  <1>5. CASE HandOverToTakeoff(t, kept, st)
    <2> DEFINE plane == Head(departQueue)
               w == RequestOf(plane, "takeoff")
    <2>1. /\ departQueue # << >> /\ Selected = "parkingarea"
          /\ departQueue' = Tail(departQueue) /\ holdingQueue' = holdingQueue
      BY <1>5, SelectedFacts DEF HandOverToTakeoff, ParkingAreaGo
    <2>2. PICK d \in TakeoffTimes :
            fes' = kept \cup {Message("airspace", t + d, seq + 1, plane)}
      BY <1>5 DEF HandOverToTakeoff, ParkingAreaGo, StartTakeoff
    <2> DEFINE g == Message("airspace", t + d, seq + 1, plane)
    <2>3. /\ g.self = FALSE /\ g.to = "airspace" /\ g.plane = plane
      BY DEF Message
    <2>4. fes' = kept \cup {g}
      BY <2>2
    <2> HIDE DEF g
    <2>5. /\ w \in Requests(departQueue, "takeoff")
          /\ Requests(Tail(departQueue), "takeoff")
               = Requests(departQueue, "takeoff") \ {w}
          /\ QueueIds(departQueue) = QueueIds(Tail(departQueue)) \cup {plane.id}
      BY <1>1, <1>2, <2>1, RequestsTail
    <2>6. w.op = "takeoff" /\ w.plane = plane.id
          /\ w.since = plane.queueArrivalTime /\ w.since \in Nat
      BY <1>1, <2>1, PopFacts DEF RequestOf, Airplanes
    <2> HIDE DEF w, plane
    <2>7. \A v \in Waiting : Tower!Before(w, v)
      <3>1. ASSUME NEW v \in Requests(holdingQueue, "land")
            PROVE  Tower!Before(w, v)
        BY <1>1, <2>1, <2>6, <3>1, RequestTimes, SelectedOldest
           DEF Tower!Before, plane
      <3>2. ASSUME NEW v \in Requests(departQueue, "takeoff")
            PROVE  Tower!Before(w, v)
        BY <1>1, <2>1, <2>6, <3>2, RequestTimes, SelectedOldest
           DEF Tower!Before, plane
      <3> QED
        BY <3>1, <3>2 DEF Waiting
    <2>8. w \notin Requests(holdingQueue, "land")
      BY <1>1, <2>6, RequestTimes
    <2>9. w \in Waiting /\ Waiting' = Waiting \ {w}
      <3>1. Waiting' = Requests(holdingQueue, "land")
                         \cup Requests(Tail(departQueue), "takeoff")
        BY <2>1 DEF Waiting, Requests, Queued
      <3> QED
        BY <2>5, <2>8, <3>1 DEF Waiting
    <2>10. RunwayEvents' = {g}
      BY <2>3, <2>4 DEF RunwayEvents
    <2>11. Using' = {Tower!Operation(w.plane, w.op)}
      BY <2>3, <2>6, <2>10 DEF Using, OperationOf, Tower!Operation
    <2>12. Tower!Release
      BY <2>7, <2>9, <2>11 DEF Tower!Release
    <2>13. ParkedIn(fes') = ParkedIn(kept)
      BY <2>3, <2>4 DEF ParkedIn
    <2>14. EventIds(fes') = EventIds(kept) \cup {plane.id}
      BY <2>3, <2>4 DEF EventIds
    <2>15. Ids(fes', holdingQueue', departQueue')
             = Ids(kept, holdingQueue, departQueue)
      BY <2>1, <2>5, <2>14 DEF Ids
    <2> QED
      BY <2>12, <2>13, <2>15 DEF ParkedIds
  <1> QED
    BY <1>3, <1>4, <1>5 DEF completed

(***************************************************************************)
(* The handlers are the operations of TowerSpec.                           *)
(***************************************************************************)

\* The bound on airplanes is respected; the first one is created at once.
WithinBound == created <= MaxPlanes \/ created = 1

\* An airplane that has arrived is one of the airplanes of TowerSpec.
LEMMA ArrivedInPlanes ==
  ASSUME TypeOK, CountInv, WithinBound, NEW e \in fes,
         ~(e.self /\ e.to = "airspace")
  PROVE  e.plane.id \in 1..MaxPlanes /\ e.plane.id \in 1..created
  <1>1. e.plane.id \in 1..created /\ e.plane.id # created
    BY DEF CountInv, Numbered
  <1> QED
    BY <1>1, MaxPlanesAssumption DEF WithinBound, TypeOK

\* Which events are on the runway when a handler is entered.
LEMMA RunwayAtDelivery ==
  ASSUME RunwayInv, NEW e \in fes, NEW m, NEW self, Deliver(e, m, self)
  PROVE  /\ running = TRUE
         /\ now' >= now
         /\ e.self = self /\ e.to = m
         /\ ~landingStripOccupied => RunwayEvents = {}
         /\ landingStripOccupied => RunwayEvents # {}
         /\ self = FALSE => RunwayEvents = {e} /\ \A f \in fes \ {e} : f.self
  <1>1. TypeOK /\ EventsAhead /\ RunwayExclusive
    BY DEF RunwayInv
  <1>2. running = TRUE /\ e.self = self /\ e.to = m
    BY <1>1 DEF Deliver, TypeOK
  <1>3. now' >= now
    <2>1. now' = e.time /\ now <= e.time /\ now \in Nat /\ e.time \in Nat
      BY <1>1 DEF Deliver, EventsAhead, TypeOK, Events
    <2> QED
      BY <2>1
  <1>4. /\ ~landingStripOccupied => RunwayEvents = {}
        /\ landingStripOccupied => RunwayEvents # {}
    BY <1>1, <1>2 DEF RunwayExclusive
  <1>5. ASSUME self = FALSE
        PROVE  RunwayEvents = {e} /\ \A f \in fes \ {e} : f.self
    <2>1. e \in RunwayEvents
      BY <1>2, <1>5 DEF RunwayEvents
    <2>2. RunwayEvents = {e}
      BY <1>1, <2>1 DEF RunwayExclusive
    <2> QED
      BY <2>2 DEF RunwayEvents
  <1> QED
    BY <1>2, <1>3, <1>4, <1>5

\* An airplane that arrives was nowhere in the system.
LEMMA ArrivesFromOutside ==
  ASSUME CountInv, NEW e \in fes, e.self, e.to = "airspace"
  PROVE  e.plane.id \notin Tower!InSystem
  <1>0. PlacedOnce(fes, holdingQueue, departQueue)
        /\ Numbered(fes, holdingQueue, departQueue, created)
    BY DEF CountInv
  <1>1. e.plane.id \notin Parked
    BY <1>0 DEF Parked, ParkedEvents, PlacedOnce
  <1>2. e.plane.id \notin Gone
    BY DEF Gone, PlaneIds
  <1>3. e.plane.id \notin {u.plane : u \in Using}
    BY <1>0 DEF Using, OperationOf, RunwayEvents, PlacedOnce
  <1>4. \A w \in Requests(holdingQueue, "land") : w.plane # e.plane.id
    BY <1>0, InRequests DEF RequestOf, PlacedOnce
  <1>5. \A w \in Requests(departQueue, "takeoff") : w.plane # e.plane.id
    BY <1>0, InRequests DEF RequestOf, PlacedOnce
  <1>6. e.plane.id \notin {w.plane : w \in Waiting}
    BY <1>4, <1>5 DEF Waiting
  <1> QED
    BY <1>1, <1>2, <1>3, <1>6 DEF Tower!InSystem

\* The arrival of one airplane and the creation of the next.
LEMMA NobodyGone ==
  ASSUME created \in Nat, created' = created + 1,
         PlaneIds' = PlaneIds \cup {created + 1}
  PROVE  Gone' = Gone
  <1>1. \A x : x \in 1..(created + 1) <=> x \in 1..created \/ x = created + 1
    OBVIOUS
  <1>2. ~(created + 1 \in 1..created)
    OBVIOUS
  <1>3. Gone' = (1..(created + 1)) \ (PlaneIds \cup {created + 1})
    BY DEF Gone
  <1>4. \A x : x \in (1..(created + 1)) \ (PlaneIds \cup {created + 1})
                 <=> x \in (1..created) \ PlaneIds
    BY <1>1, <1>2
  <1> QED
    BY <1>3, <1>4 DEF Gone

\* An arrival that finds the strip free.
LEMMA ArrivalGrantedRefines ==
  ASSUME RunwayInv, CountInv, NEW e \in fes, ArrivalGranted(e),
         UNCHANGED parkingVars
  PROVE  Tower!TowerNext
  <1>1. /\ Deliver(e, "airspace", TRUE)
        /\ ~landingStripOccupied /\ created < MaxPlanes
        /\ created' = created + 1 /\ running' = running
        /\ holdingQueue' = holdingQueue /\ departQueue' = departQueue
    BY DEF ArrivalGranted, Arrival, notify, parkingVars
  <1>2. /\ running = TRUE /\ now' >= now /\ e.self = TRUE /\ e.to = "airspace"
        /\ RunwayEvents = {}
    BY <1>1, RunwayAtDelivery
  <1>3. PICK x \in InterArrivalTimes, d \in LandingTimes :
          fes' = ((fes \ {e}) \cup {NextArrival(e.time, x)})
                   \cup {Message("parkingarea", e.time + d, seq, Stamped(e))}
    BY DEF ArrivalGranted, StartLanding
  <1> DEFINE a == NextArrival(e.time, x)
             g == Message("parkingarea", e.time + d, seq, Stamped(e))
             p == e.plane.id
  <1>4. /\ a.self = TRUE /\ a.to = "airspace" /\ a.plane.id = created + 1
    BY DEF NextArrival, SelfMessage, NewAirplane
  <1>5. /\ TypeOK /\ created \in Nat /\ e.plane \in Airplanes
    BY DEF RunwayInv, TypeOK, Events
  <1>6. Stamped(e).id = p
    BY <1>5 DEF Stamped, Airplanes
  <1>7. /\ g.self = FALSE /\ g.to = "parkingarea" /\ g.plane.id = p
    BY <1>6 DEF Message
  <1>8. fes' = ((fes \ {e}) \cup {a}) \cup {g}
    BY <1>3
  <1> HIDE DEF a, g
  <1>9. p \in 1..MaxPlanes
    <2>1. p \in 1..created
      BY DEF CountInv, Numbered
    <2> QED
      BY <1>1, <1>5, <2>1, MaxPlanesAssumption
  <1>10. RunwayEvents' = {g}
    BY <1>2, <1>4, <1>7, <1>8 DEF RunwayEvents
  <1>11. Using = {} /\ Using' = {Tower!Operation(p, "land")}
    BY <1>2, <1>7, <1>10 DEF Using, OperationOf, Tower!Operation
  <1>12. Waiting' = Waiting
    BY <1>1 DEF Waiting, Requests, Queued
  <1>13. ParkedIn(fes') = ParkedIn(fes)
    BY <1>2, <1>4, <1>7, <1>8 DEF ParkedIn
  <1>14. Parked' = Parked
    BY <1>13, MappedPlaces, MappedPlacesNext DEF ParkedIds
  <1>15. EventIds(fes') = EventIds(fes) \cup {created + 1}
    BY <1>4, <1>7, <1>8 DEF EventIds
  <1>16. PlaneIds' = PlaneIds \cup {created + 1}
    BY <1>1, <1>15, MappedPlaces, MappedPlacesNext DEF Ids
  <1>17. Gone' = Gone
    BY <1>1, <1>5, <1>16, NobodyGone
  <1>18. p \notin Tower!InSystem
    BY <1>2, ArrivesFromOutside
  <1> HIDE DEF p
  <1>19. Tower!ReachAirport(p)
    BY <1>1, <1>11, <1>12, <1>14, <1>17, <1>18
       DEF Tower!ReachAirport, Tower!Request
  <1> QED
    BY <1>2, <1>9, <1>19 DEF Tower!TowerNext

\* An arrival that has to wait.
LEMMA ArrivalQueuedRefines ==
  ASSUME RunwayInv, CountInv, NEW e \in fes, ArrivalQueued(e),
         UNCHANGED parkingVars
  PROVE  Tower!TowerNext
  <1> DEFINE q == [Stamped(e) EXCEPT !.queueArrivalTime = e.time]
             p == e.plane.id
  <1>1. /\ Deliver(e, "airspace", TRUE)
        /\ landingStripOccupied /\ created < MaxPlanes
        /\ created' = created + 1 /\ running' = running
        /\ holdingQueue' = Append(holdingQueue, q) /\ departQueue' = departQueue
        /\ now' = e.time
    BY DEF ArrivalQueued, Arrival, notify, parkingVars, Deliver
  <1>2. /\ running = TRUE /\ now' >= now /\ e.self = TRUE /\ e.to = "airspace"
        /\ RunwayEvents # {}
    BY <1>1, RunwayAtDelivery
  <1>3. PICK x \in InterArrivalTimes :
          fes' = (fes \ {e}) \cup {NextArrival(e.time, x)}
    BY DEF ArrivalQueued
  <1> DEFINE a == NextArrival(e.time, x)
  <1>4. /\ a.self = TRUE /\ a.to = "airspace" /\ a.plane.id = created + 1
    BY DEF NextArrival, SelfMessage, NewAirplane
  <1>5. /\ TypeOK /\ created \in Nat /\ e.plane \in Airplanes /\ e.time \in Nat
        /\ holdingQueue \in Seq(Airplanes)
    BY DEF RunwayInv, TypeOK, Events
  <1>6. Stamped(e) \in Airplanes /\ Stamped(e).id = p
    BY <1>5 DEF Stamped, Airplanes
  <1>7. q \in Airplanes /\ q.id = p /\ q.queueArrivalTime = e.time
    BY <1>5, <1>6 DEF Airplanes
  <1>8. fes' = (fes \ {e}) \cup {a}
    BY <1>3
  <1> HIDE DEF a, q
  <1>9. p \in 1..MaxPlanes
    <2>1. p \in 1..created
      BY DEF CountInv, Numbered
    <2> QED
      BY <1>1, <1>5, <2>1, MaxPlanesAssumption
  <1>10. RunwayEvents' = RunwayEvents
    BY <1>2, <1>4, <1>8 DEF RunwayEvents
  <1>11. Using # {} /\ Using' = Using
    BY <1>2, <1>10 DEF Using
  <1>12. /\ Requests(Append(holdingQueue, q), "land")
              = Requests(holdingQueue, "land") \cup {RequestOf(q, "land")}
         /\ QueueIds(Append(holdingQueue, q)) = QueueIds(holdingQueue) \cup {p}
    BY <1>5, <1>7, RequestsAppend
  <1>13. RequestOf(q, "land") = [plane |-> p, op |-> "land", since |-> now']
    BY <1>1, <1>7 DEF RequestOf
  <1>14. Waiting' = Waiting \cup {[plane |-> p, op |-> "land", since |-> now']}
    <2>1. Waiting' = Requests(Append(holdingQueue, q), "land")
                       \cup Requests(departQueue, "takeoff")
      BY <1>1 DEF Waiting, Requests, Queued
    <2> QED
      BY <1>12, <1>13, <2>1 DEF Waiting
  <1>15. ParkedIn(fes') = ParkedIn(fes)
    BY <1>2, <1>4, <1>8 DEF ParkedIn
  <1>16. Parked' = Parked
    BY <1>15, MappedPlaces, MappedPlacesNext DEF ParkedIds
  <1>17. EventIds(fes') \cup {p} = EventIds(fes) \cup {created + 1}
    BY <1>4, <1>8 DEF EventIds
  <1>18. PlaneIds' = PlaneIds \cup {created + 1}
    BY <1>1, <1>12, <1>17, MappedPlaces, MappedPlacesNext DEF Ids
  <1>19. Gone' = Gone
    BY <1>1, <1>5, <1>18, NobodyGone
  <1>20. p \notin Tower!InSystem
    BY <1>2, ArrivesFromOutside
  <1> HIDE DEF p
  <1>21. Tower!ReachAirport(p)
    BY <1>1, <1>11, <1>14, <1>16, <1>19, <1>20
       DEF Tower!ReachAirport, Tower!Request
  <1> QED
    BY <1>2, <1>9, <1>21 DEF Tower!TowerNext

\* An airplane's parking time is over: it is no longer parked.
LEMMA LeavesParking ==
  ASSUME PlacedOnce(fes, holdingQueue, departQueue), NEW e \in fes,
         e.self, e.to = "parkingarea"
  PROVE  /\ e.plane.id \in Parked
         /\ ParkedIds(fes \ {e}) = Parked \ {e.plane.id}
         /\ EventIds(fes) = EventIds(fes \ {e}) \cup {e.plane.id}
  <1>1. \A f \in fes \ {e} : f.plane.id # e.plane.id
    BY DEF PlacedOnce
  <1>2. \A x : x \in ParkedIds(fes \ {e}) <=>
                 \E f \in fes \ {e} : /\ f.self /\ f.to = "parkingarea"
                                      /\ x = f.plane.id
    BY DEF ParkedIds, ParkedIn
  <1>3. \A x : x \in Parked <=>
                 \E f \in fes : /\ f.self /\ f.to = "parkingarea"
                                /\ x = f.plane.id
    BY DEF Parked, ParkedEvents
  <1>4. \A x : x \in ParkedIds(fes \ {e}) <=> x \in Parked \ {e.plane.id}
    BY <1>1, <1>2, <1>3
  <1>5. e.plane.id \in Parked
    BY <1>3
  <1>6. EventIds(fes) = EventIds(fes \ {e}) \cup {e.plane.id}
    BY DEF EventIds
  <1> QED
    BY <1>4, <1>5, <1>6

\* A parking time ends and the strip is free.
LEMMA ParkingExpiredGrantedRefines ==
  ASSUME RunwayInv, CountInv, WithinBound, NEW e \in fes,
         ParkingExpiredGranted(e), UNCHANGED airspaceVars
  PROVE  Tower!TowerNext
  <1> DEFINE p == e.plane.id
  <1>1. /\ Deliver(e, "parkingarea", TRUE)
        /\ ~landingStripOccupied
        /\ created' = created /\ running' = running
        /\ holdingQueue' = holdingQueue /\ departQueue' = departQueue
    BY DEF ParkingExpiredGranted, ParkingExpired, notify, airspaceVars
  <1>2. /\ running = TRUE /\ now' >= now /\ e.self = TRUE
        /\ e.to = "parkingarea" /\ RunwayEvents = {}
    BY <1>1, RunwayAtDelivery
  <1>3. PICK d \in TakeoffTimes :
          fes' = (fes \ {e}) \cup {Message("airspace", e.time + d, seq, e.plane)}
    BY DEF ParkingExpiredGranted, StartTakeoff
  <1> DEFINE g == Message("airspace", e.time + d, seq, e.plane)
  <1>4. /\ g.self = FALSE /\ g.to = "airspace" /\ g.plane.id = p
    BY DEF Message
  <1>5. fes' = (fes \ {e}) \cup {g}
    BY <1>3
  <1> HIDE DEF g
  <1>6. TypeOK /\ PlacedOnce(fes, holdingQueue, departQueue)
    BY DEF RunwayInv, CountInv
  <1>7. p \in 1..MaxPlanes
    BY <1>2, <1>6, ArrivedInPlanes
  <1>8. /\ p \in Parked /\ ParkedIds(fes \ {e}) = Parked \ {p}
        /\ EventIds(fes) = EventIds(fes \ {e}) \cup {p}
    BY <1>2, <1>6, LeavesParking
  <1>9. RunwayEvents' = {g}
    BY <1>2, <1>4, <1>5 DEF RunwayEvents
  <1>10. Using = {} /\ Using' = {Tower!Operation(p, "takeoff")}
    BY <1>2, <1>4, <1>9 DEF Using, OperationOf, Tower!Operation
  <1>11. Waiting' = Waiting
    BY <1>1 DEF Waiting, Requests, Queued
  <1>12. ParkedIn(fes') = ParkedIn(fes \ {e})
    BY <1>4, <1>5 DEF ParkedIn
  <1>13. Parked' = Parked \ {p}
    BY <1>8, <1>12, MappedPlacesNext DEF ParkedIds
  <1>14. EventIds(fes') = EventIds(fes)
    <2>1. EventIds(fes') = EventIds(fes \ {e}) \cup {p}
      BY <1>4, <1>5 DEF EventIds
    <2> QED
      BY <1>8, <2>1
  <1>15. PlaneIds' = PlaneIds
    BY <1>1, <1>14, MappedPlaces, MappedPlacesNext DEF Ids
  <1>16. Gone' = Gone
    BY <1>1, <1>15 DEF Gone
  <1> HIDE DEF p
  <1>17. Tower!LeaveParking(p)
    BY <1>1, <1>8, <1>10, <1>11, <1>13, <1>16
       DEF Tower!LeaveParking, Tower!Request
  <1> QED
    BY <1>2, <1>7, <1>17 DEF Tower!TowerNext

\* A parking time ends and the airplane has to wait.
LEMMA ParkingExpiredQueuedRefines ==
  ASSUME RunwayInv, CountInv, WithinBound, NEW e \in fes,
         ParkingExpiredQueued(e), UNCHANGED airspaceVars
  PROVE  Tower!TowerNext
  <1> DEFINE q == [e.plane EXCEPT !.queueArrivalTime = e.time]
             p == e.plane.id
  <1>1. /\ Deliver(e, "parkingarea", TRUE)
        /\ landingStripOccupied
        /\ created' = created /\ running' = running
        /\ holdingQueue' = holdingQueue /\ departQueue' = Append(departQueue, q)
        /\ now' = e.time /\ fes' = fes \ {e}
    BY DEF ParkingExpiredQueued, ParkingExpired, notify, airspaceVars, Deliver
  <1>2. /\ running = TRUE /\ now' >= now /\ e.self = TRUE
        /\ e.to = "parkingarea" /\ RunwayEvents # {}
    BY <1>1, RunwayAtDelivery
  <1>3. /\ TypeOK /\ PlacedOnce(fes, holdingQueue, departQueue)
        /\ e.plane \in Airplanes /\ e.time \in Nat
        /\ departQueue \in Seq(Airplanes)
    BY DEF RunwayInv, CountInv, TypeOK, Events
  <1>4. q \in Airplanes /\ q.id = p /\ q.queueArrivalTime = e.time
    BY <1>3 DEF Airplanes
  <1> HIDE DEF q
  <1>5. p \in 1..MaxPlanes
    BY <1>2, <1>3, ArrivedInPlanes
  <1>6. /\ p \in Parked /\ ParkedIds(fes \ {e}) = Parked \ {p}
        /\ EventIds(fes) = EventIds(fes \ {e}) \cup {p}
    BY <1>2, <1>3, LeavesParking
  <1>7. RunwayEvents' = RunwayEvents
    BY <1>1, <1>2 DEF RunwayEvents
  <1>8. Using # {} /\ Using' = Using
    BY <1>2, <1>7 DEF Using
  <1>9. /\ Requests(Append(departQueue, q), "takeoff")
             = Requests(departQueue, "takeoff") \cup {RequestOf(q, "takeoff")}
        /\ QueueIds(Append(departQueue, q)) = QueueIds(departQueue) \cup {p}
    BY <1>3, <1>4, RequestsAppend
  <1>10. RequestOf(q, "takeoff")
           = [plane |-> p, op |-> "takeoff", since |-> now']
    BY <1>1, <1>4 DEF RequestOf
  <1>11. Waiting' = Waiting
                      \cup {[plane |-> p, op |-> "takeoff", since |-> now']}
    <2>1. Waiting' = Requests(holdingQueue, "land")
                       \cup Requests(Append(departQueue, q), "takeoff")
      BY <1>1 DEF Waiting, Requests, Queued
    <2> QED
      BY <1>9, <1>10, <2>1 DEF Waiting
  <1>12. Parked' = Parked \ {p}
    BY <1>1, <1>6, MappedPlacesNext
  <1>13. PlaneIds' = PlaneIds
    BY <1>1, <1>6, <1>9, MappedPlaces, MappedPlacesNext DEF Ids
  <1>14. Gone' = Gone
    BY <1>1, <1>13 DEF Gone
  <1> HIDE DEF p
  <1>15. Tower!LeaveParking(p)
    BY <1>1, <1>6, <1>8, <1>11, <1>12, <1>14
       DEF Tower!LeaveParking, Tower!Request
  <1> QED
    BY <1>2, <1>5, <1>15 DEF Tower!TowerNext

\* A landing ends, with all that completed() does.
LEMMA LandedRefines ==
  ASSUME RunwayInv, CountInv, WithinBound, NEW e \in fes, Landed(e)
  PROVE  Tower!TowerNext
  <1> DEFINE p == e.plane.id
             st == Emit(stats, "ParkedPlanes", numParked + 1)
  <1>1. /\ Deliver(e, "parkingarea", FALSE)
        /\ created' = created /\ running' = running
    BY DEF Landed
  <1>2. /\ running = TRUE /\ now' >= now /\ e.self = FALSE
        /\ e.to = "parkingarea" /\ RunwayEvents = {e}
        /\ \A f \in fes \ {e} : f.self
    BY <1>1, RunwayAtDelivery
  <1>3. PICK d \in ParkingTimes :
          completed(e.time, (fes \ {e}) \cup
                      {SelfMessage("parkingarea", e.time + d, seq, e.plane)}, st)
    BY DEF Landed
  <1> DEFINE g == SelfMessage("parkingarea", e.time + d, seq, e.plane)
             kept == (fes \ {e}) \cup {g}
  <1>4. /\ g.self = TRUE /\ g.to = "parkingarea" /\ g.plane.id = p
    BY DEF SelfMessage
  <1>5. completed(e.time, kept, st)
    BY <1>3
  <1>6. TypeOK /\ QueuesOrdered
    BY DEF RunwayInv
  <1>7. Located(fes, holdingQueue, departQueue, created)
    BY DEF CountInv, Located
  <1> HIDE DEF g, st
  <1>8. Located(kept, holdingQueue, departQueue, created)
    BY <1>2, <1>4, <1>7, LocatedResend
  <1>9. \A f \in kept : f.self
    BY <1>2, <1>4
  <1>10. ParkedIds(kept) = Parked \cup {p} /\ EventIds(kept) = EventIds(fes)
    <2>1. ParkedIn(kept) = ParkedIn(fes) \cup {g}
      BY <1>2, <1>4 DEF ParkedIn
    <2>2. ParkedIds(kept) = ParkedIds(fes) \cup {p}
      BY <1>4, <2>1 DEF ParkedIds
    <2>3. EventIds(kept) = EventIds(fes)
      BY <1>4 DEF EventIds
    <2> QED
      BY <2>2, <2>3, MappedPlaces
  <1> HIDE DEF kept
  <1>11. /\ Tower!Release
         /\ ParkedIds(fes') = ParkedIds(kept)
         /\ Ids(fes', holdingQueue', departQueue')
              = Ids(kept, holdingQueue, departQueue)
    BY <1>5, <1>6, <1>8, <1>9, CompletedReleases
  <1>12. p \in 1..MaxPlanes
    BY <1>2, <1>6, ArrivedInPlanes
  <1>13. Using = {Tower!Operation(p, "land")}
    BY <1>2 DEF Using, OperationOf, Tower!Operation
  <1>14. Parked' = Parked \cup {p}
    BY <1>10, <1>11, MappedPlacesNext
  <1>15. PlaneIds' = PlaneIds
    BY <1>10, <1>11, MappedPlaces, MappedPlacesNext DEF Ids
  <1>16. Gone' = Gone
    BY <1>1, <1>15 DEF Gone
  <1> HIDE DEF p
  <1>17. Tower!FinishLanding(p)
    BY <1>1, <1>11, <1>13, <1>14, <1>16 DEF Tower!FinishLanding
  <1> QED
    BY <1>2, <1>12, <1>17 DEF Tower!TowerNext

\* An airplane that has taken off is nowhere else: it leaves the system.
LEMMA TakenOffLeaves ==
  ASSUME RunwayInv, CountInv, WithinBound, NEW e \in fes, TakenOff(e)
  PROVE  /\ running = TRUE /\ now' >= now /\ created' = created
         /\ Using = {Tower!Operation(e.plane.id, "takeoff")}
         /\ \A f \in fes \ {e} : f.self
         /\ e.plane.id \in 1..MaxPlanes
         /\ Located(fes \ {e}, holdingQueue, departQueue, created)
         /\ ParkedIds(fes \ {e}) = Parked
         /\ Ids(fes \ {e}, holdingQueue, departQueue) = PlaneIds \ {e.plane.id}
         /\ (1..created) \ (PlaneIds \ {e.plane.id}) = Gone \cup {e.plane.id}
  <1> DEFINE p == e.plane.id
  <1>1. Deliver(e, "airspace", FALSE) /\ created' = created
    BY DEF TakenOff
  <1>2. /\ running = TRUE /\ now' >= now /\ e.self = FALSE
        /\ e.to = "airspace" /\ RunwayEvents = {e}
        /\ \A f \in fes \ {e} : f.self
    BY <1>1, RunwayAtDelivery
  <1>3. TypeOK
    BY DEF RunwayInv
  <1>4. /\ PlacedOnce(fes, holdingQueue, departQueue)
        /\ Located(fes, holdingQueue, departQueue, created)
    BY DEF CountInv, Located
  <1>5. Located(fes \ {e}, holdingQueue, departQueue, created)
    BY <1>2, <1>4, LocatedRemove
  <1>6. p \in 1..MaxPlanes /\ p \in 1..created
    BY <1>2, <1>3, ArrivedInPlanes
  <1>7. Using = {Tower!Operation(p, "takeoff")}
    BY <1>2 DEF Using, OperationOf, Tower!Operation
  <1>8. ParkedIds(fes \ {e}) = Parked
    <2>1. ParkedIn(fes \ {e}) = ParkedIn(fes)
      BY <1>2 DEF ParkedIn
    <2> QED
      BY <2>1, MappedPlaces DEF ParkedIds
  <1>9. p \notin QueueIds(holdingQueue) /\ p \notin QueueIds(departQueue)
    BY <1>4, InQueueIds DEF PlacedOnce
  <1>10. EventIds(fes \ {e}) = EventIds(fes) \ {p}
    <2>1. \A f \in fes \ {e} : f.plane.id # p
      BY <1>4 DEF PlacedOnce
    <2> QED
      BY <2>1 DEF EventIds
  <1>11. Ids(fes \ {e}, holdingQueue, departQueue) = PlaneIds \ {p}
    BY <1>9, <1>10, MappedPlaces DEF Ids
  <1>12. (1..created) \ (PlaneIds \ {p}) = Gone \cup {p}
    BY <1>6 DEF Gone
  <1> QED
    BY <1>1, <1>2, <1>5, <1>6, <1>7, <1>8, <1>11, <1>12

\* A take-off ends, with all that completed() does.
LEMMA DepartedRefines ==
  ASSUME RunwayInv, CountInv, WithinBound, NEW e \in fes, Departed(e)
  PROVE  Tower!TowerNext
  <1> DEFINE p == e.plane.id
             st == Responded(e)
             kept == fes \ {e}
  <1>1. TakenOff(e) /\ completed(e.time, kept, st) /\ running' = running
    BY DEF Departed
  <1>2. /\ running = TRUE /\ now' >= now /\ created' = created
        /\ Using = {Tower!Operation(p, "takeoff")}
        /\ \A f \in kept : f.self
        /\ p \in 1..MaxPlanes
        /\ Located(kept, holdingQueue, departQueue, created)
        /\ ParkedIds(kept) = Parked
        /\ Ids(kept, holdingQueue, departQueue) = PlaneIds \ {p}
        /\ (1..created) \ (PlaneIds \ {p}) = Gone \cup {p}
    BY <1>1, TakenOffLeaves
  <1>3. TypeOK /\ QueuesOrdered
    BY DEF RunwayInv
  <1> HIDE DEF p, st, kept
  <1>4. /\ Tower!Release
        /\ ParkedIds(fes') = ParkedIds(kept)
        /\ Ids(fes', holdingQueue', departQueue')
             = Ids(kept, holdingQueue, departQueue)
    BY <1>1, <1>2, <1>3, CompletedReleases
  <1>5. Parked' = Parked
    BY <1>2, <1>4, MappedPlacesNext
  <1>6. PlaneIds' = PlaneIds \ {p}
    BY <1>2, <1>4, MappedPlacesNext
  <1>7. Gone' = Gone \cup {p}
    BY <1>2, <1>6 DEF Gone
  <1>8. Tower!FinishTakeoff(p)
    BY <1>1, <1>2, <1>4, <1>5, <1>7 DEF Tower!FinishTakeoff
  <1> QED
    BY <1>2, <1>8 DEF Tower!TowerNext

\* The last take-off ends the simulation.
LEMMA LastDepartedRefines ==
  ASSUME RunwayInv, CountInv, WithinBound, NEW e \in fes, LastDeparted(e)
  PROVE  Tower!TowerNext
  <1> DEFINE p == e.plane.id
             kept == fes \ {e}
  <1>1. /\ TakenOff(e) /\ fes' = kept /\ running' = FALSE
        /\ holdingQueue' = holdingQueue /\ departQueue' = departQueue
    BY DEF LastDeparted
  <1>2. /\ running = TRUE /\ now' >= now /\ created' = created
        /\ Using = {Tower!Operation(p, "takeoff")}
        /\ \A f \in kept : f.self
        /\ p \in 1..MaxPlanes
        /\ ParkedIds(kept) = Parked
        /\ Ids(kept, holdingQueue, departQueue) = PlaneIds \ {p}
        /\ (1..created) \ (PlaneIds \ {p}) = Gone \cup {p}
    BY <1>1, TakenOffLeaves
  <1> HIDE DEF p, kept
  <1>3. Using' = {}
    BY <1>1, <1>2 DEF Using, RunwayEvents
  <1>4. Waiting' = Waiting
    BY <1>1 DEF Waiting, Requests, Queued
  <1>5. Parked' = Parked
    BY <1>1, <1>2, MappedPlacesNext
  <1>6. PlaneIds' = PlaneIds \ {p}
    BY <1>1, <1>2, MappedPlacesNext
  <1>7. Gone' = Gone \cup {p}
    BY <1>2, <1>6 DEF Gone
  <1>8. Tower!FinishTakeoff(p)
    BY <1>1, <1>2, <1>3, <1>4, <1>5, <1>7 DEF Tower!FinishTakeoff
  <1> QED
    BY <1>2, <1>8 DEF Tower!TowerNext

(***************************************************************************)
(* The initial state, the bound and the steps that change nothing.         *)
(***************************************************************************)
LEMMA InitRefines == Init => Tower!TowerInit
  <1> SUFFICES ASSUME Init PROVE Tower!TowerInit
    OBVIOUS
  <1>1. /\ now = 0 /\ running = TRUE /\ created = 1
        /\ holdingQueue = << >> /\ departQueue = << >>
    BY DEF Init, InitAirspace, InitParkingArea
  <1>2. PICK a \in InterArrivalTimes :
          fes = {SelfMessage("airspace", a, 0, NewAirplane(1))}
    BY DEF Init, InitAirspace
  <1> DEFINE g == SelfMessage("airspace", a, 0, NewAirplane(1))
  <1>3. g.self = TRUE /\ g.to = "airspace" /\ g.plane.id = 1 /\ fes = {g}
    BY <1>2 DEF SelfMessage, NewAirplane
  <1> HIDE DEF g
  <1>4. Using = {} /\ Parked = {}
    BY <1>3 DEF Using, RunwayEvents, Parked, ParkedEvents
  <1>5. Waiting = {}
    BY <1>1 DEF Waiting, Requests, Queued
  <1>6. 1 \in PlaneIds
    BY <1>3 DEF PlaneIds
  <1>7. Gone = {}
    <2>1. \A x : x \in 1..1 => x = 1
      OBVIOUS
    <2> QED
      BY <1>1, <1>6, <2>1 DEF Gone
  <1> QED
    BY <1>1, <1>4, <1>5, <1>7 DEF Tower!TowerInit

\* No step creates an airplane beyond the bound.
LEMMA WithinBoundNext ==
  ASSUME TypeOK, WithinBound, [Next]_vars
  PROVE  WithinBound'
  <1>1. CASE created' = created
    BY <1>1 DEF WithinBound
  <1>2. CASE created < MaxPlanes /\ created' = created + 1
    BY <1>2, MaxPlanesAssumption DEF WithinBound, TypeOK
  <1>3. created' = created \/ (created < MaxPlanes /\ created' = created + 1)
    BY DEF Next, vars, ArrivalGranted, ArrivalQueued, Arrival, airspaceVars,
       Landed, Departed, LastDeparted, TakenOff
  <1> QED
    BY <1>1, <1>2, <1>3

\* A stuttering step of the simulator is one of the tower.
LEMMA StutterRefines ==
  ASSUME UNCHANGED vars PROVE UNCHANGED Tower!towerVars
  <1>1. /\ fes' = fes /\ holdingQueue' = holdingQueue
        /\ departQueue' = departQueue /\ created' = created
        /\ now' = now /\ running' = running
    BY DEF vars
  <1>2. Using' = Using /\ Parked' = Parked
    BY <1>1 DEF Using, RunwayEvents, Parked, ParkedEvents
  <1>3. Waiting' = Waiting
    BY <1>1 DEF Waiting, Requests, Queued
  <1>4. Gone' = Gone
    BY <1>1 DEF Gone, PlaneIds, Queued
  <1> QED
    BY <1>1, <1>2, <1>3, <1>4 DEF Tower!towerVars

\* Every step is one of the abstract tower, or a stutter.
LEMMA NextRefines ==
  ASSUME RunwayInv, CountInv, WithinBound, [Next]_vars
  PROVE  [Tower!TowerNext]_Tower!towerVars
  <1>1. CASE UNCHANGED vars
    BY <1>1, StutterRefines
  <1>2. CASE Next
    <2>1. PICK e \in fes :
            \/ (ArrivalGranted(e) \/ ArrivalQueued(e)) /\ UNCHANGED parkingVars
            \/ (ParkingExpiredGranted(e) \/ ParkingExpiredQueued(e))
                 /\ UNCHANGED airspaceVars
            \/ Landed(e)
            \/ Departed(e)
            \/ LastDeparted(e)
      BY <1>2 DEF Next
    <2>2. CASE ArrivalGranted(e) /\ UNCHANGED parkingVars
      BY <2>2, ArrivalGrantedRefines
    <2>3. CASE ArrivalQueued(e) /\ UNCHANGED parkingVars
      BY <2>3, ArrivalQueuedRefines
    <2>4. CASE ParkingExpiredGranted(e) /\ UNCHANGED airspaceVars
      BY <2>4, ParkingExpiredGrantedRefines
    <2>5. CASE ParkingExpiredQueued(e) /\ UNCHANGED airspaceVars
      BY <2>5, ParkingExpiredQueuedRefines
    <2>6. CASE Landed(e)
      BY <2>6, LandedRefines
    <2>7. CASE Departed(e)
      BY <2>7, DepartedRefines
    <2>8. CASE LastDeparted(e)
      BY <2>8, LastDepartedRefines
    <2> QED
      BY <2>1, <2>2, <2>3, <2>4, <2>5, <2>6, <2>7, <2>8
  <1> QED
    BY <1>1, <1>2

(***************************************************************************)
(* The flag of ControlTower, the two queues and the events in flight       *)
(* behave as the single runway with one queue, served oldest first, that   *)
(* the repository's README.md describes.                                   *)
(***************************************************************************)
THEOREM TowerImplemented == Spec => ImplementsTower
  <1>1. Init => WithinBound
    BY DEF Init, InitAirspace, WithinBound
  <1>2. RunwayInv /\ WithinBound /\ [Next]_vars => WithinBound'
    BY WithinBoundNext DEF RunwayInv
  <1>3. Init => Tower!TowerInit
    BY InitRefines
  <1>4. RunwayInv /\ CountInv /\ WithinBound /\ [Next]_vars
          => [Tower!TowerNext]_Tower!towerVars
    BY NextRefines
  <1> QED
    BY <1>1, <1>2, <1>3, <1>4, RunwayInvariant, CountInvariant, PTL
       DEF Spec, ImplementsTower, Tower!TowerSafety
=============================================================================
