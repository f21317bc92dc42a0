--------------------------- MODULE Airport_proofs ---------------------------
(***************************************************************************)
(* Theorems about AirTrafficControl, for every set of configurations,      *)
(* every set of drawn values and every bound on the airplanes.             *)
(***************************************************************************)
EXTENDS AirportSafety, TLAPS

(***************************************************************************)
(* Facts about the operators the handlers are built from.                  *)
(***************************************************************************)

\* emit() keeps the recorders' types, adds the sample to its own recorder
\* and leaves the others alone.
LEMMA EmitFacts ==
  ASSUME NEW st \in StatsType, NEW s \in Signals, NEW v \in Int
  PROVE  /\ Emit(st, s, v) \in StatsType
         /\ Emit(st, s, v)[s].sum = st[s].sum + v
         /\ Emit(st, s, v)[s].count = st[s].count + 1
         /\ Emit(st, s, v)[s].last = v
         /\ \A r \in Signals \ {s} : Emit(st, s, v)[r] = st[r]
  BY DEF Emit, StatsType

\* The names emitted by the handlers are those of the recorders.
LEMMA SignalNames ==
  /\ "HoldingQueueSize" \in Signals
  /\ "DepartQueueSize" \in Signals
  /\ "HoldingQueueWaitingTime" \in Signals
  /\ "DepartQueueWaitingTime" \in Signals
  /\ "ParkedPlanes" \in Signals
  /\ "AirportResponseTime" \in Signals
  /\ "RunwayUse" \in Signals
  /\ "TotalSimtime" \in Signals
  BY DEF Signals, AirspaceSignals, ParkingAreaSignals

\* Every time a handler draws is a natural number.
LEMMA DrawsAreNat ==
  ASSUME par \in Configs
  PROVE  /\ InterArrivalTimes \subseteq Nat
         /\ LandingTimes \subseteq Nat
         /\ ParkingTimes \subseteq Nat
         /\ TakeoffTimes \subseteq Nat
         /\ par.totalSamples \in Nat
  <1>1. par \in Parameters
    BY ConfigsAssumption
  <1> QED
    BY <1>1, SamplesAssumption DEF Parameters, Draw, InterArrivalTimes,
       LandingTimes, ParkingTimes, TakeoffTimes

\* A message or self-message built from typed parts is an event.
LEMMA MessageTypes ==
  ASSUME NEW m \in Modules, NEW t \in Nat, NEW n \in Nat, NEW p \in Airplanes
  PROVE  Message(m, t, n, p) \in Events /\ SelfMessage(m, t, n, p) \in Events
  BY DEF Message, SelfMessage, Events

\* Extracting the front airplane of a queue leaves a queue.
LEMMA PopFacts ==
  ASSUME NEW q \in Seq(Airplanes), q # << >>
  PROVE  /\ Head(q) \in Airplanes
         /\ Tail(q) \in Seq(Airplanes)
         /\ Len(q) \in Nat
         /\ Len(Tail(q)) = Len(q) - 1
         /\ Head(q) = q[1]
         /\ \A i \in 1..Len(Tail(q)) : Tail(q)[i] = q[i + 1]
  OBVIOUS

\* The queue completed() selects is not empty; none is left if it selects
\* nobody.
LEMMA SelectedFacts ==
  ASSUME TypeOK
  PROVE  /\ Selected = "airspace" => holdingQueue # << >>
         /\ Selected = "parkingarea" => departQueue # << >>
         /\ Selected = "nobody" =>
              holdingQueue = << >> /\ departQueue = << >>
  <1>1. holdingQueue # << >> => Head(holdingQueue).queueArrivalTime \in Nat
    BY PopFacts DEF TypeOK, Airplanes
  <1>2. departQueue # << >> => Head(departQueue).queueArrivalTime \in Nat
    BY PopFacts DEF TypeOK, Airplanes
  <1> QED
    BY <1>1, <1>2 DEF Selected, NextToMove, AirspaceMaxQueueTime,
       ParkingAreaMaxQueueTime

(***************************************************************************)
(* Type correctness.                                                       *)
(***************************************************************************)

\* The part of the state completed() changes keeps its types.
LEMMA CompletedType ==
  ASSUME TypeOK, NEW t \in Nat, NEW kept \in SUBSET Events,
         NEW st \in StatsType, completed(t, kept, st)
  PROVE  /\ fes' \subseteq Events
         /\ stats' \in StatsType
         /\ landingStripOccupied' \in BOOLEAN
         /\ holdingQueue' \in Seq(Airplanes)
         /\ departQueue' \in Seq(Airplanes)
  <1> USE SignalNames
  <1>1. CASE FreeStrip(kept, st)
    BY <1>1 DEF FreeStrip, TypeOK
  <1>2. CASE HandOverToLanding(t, kept, st)
    <2> DEFINE plane == Head(holdingQueue)
               st2 == Emit(Emit(st, "HoldingQueueWaitingTime",
                                t - plane.queueArrivalTime),
                           "HoldingQueueSize", Len(holdingQueue) - 1)
    <2>1. /\ holdingQueue \in Seq(Airplanes)
          /\ holdingQueue # << >>
      BY <1>2, SelectedFacts DEF HandOverToLanding, TypeOK
    <2>2. /\ plane \in Airplanes
          /\ Tail(holdingQueue) \in Seq(Airplanes)
          /\ Len(holdingQueue) \in Nat
      BY <2>1, PopFacts
    <2>3. st2 \in StatsType
      <3>1. t - plane.queueArrivalTime \in Int /\ Len(holdingQueue) - 1 \in Int
        BY <2>2 DEF Airplanes
      <3> QED
        BY <3>1, EmitFacts
    <2>4. PICK d \in LandingTimes :
            /\ fes' = kept \cup {Message("parkingarea", t + d, seq + 1, plane)}
            /\ stats' = Emit(st2, "RunwayUse", d)
      BY <1>2 DEF HandOverToLanding, AirspaceGo, StartLanding
    <2>5. d \in Nat /\ seq \in Nat
      BY DrawsAreNat DEF TypeOK
    <2>6. Message("parkingarea", t + d, seq + 1, plane) \in Events
      BY <2>2, <2>5, MessageTypes DEF Modules
    <2>7. stats' \in StatsType
      BY <2>3, <2>4, <2>5, EmitFacts
    <2> QED
      BY <1>2, <2>2, <2>4, <2>6, <2>7
      DEF HandOverToLanding, AirspaceGo, TypeOK
  <1>3. CASE HandOverToTakeoff(t, kept, st)
    <2> DEFINE plane == Head(departQueue)
               st2 == Emit(Emit(st, "DepartQueueWaitingTime",
                                t - plane.queueArrivalTime),
                           "DepartQueueSize", Len(departQueue) - 1)
    <2>1. /\ departQueue \in Seq(Airplanes)
          /\ departQueue # << >>
      BY <1>3, SelectedFacts DEF HandOverToTakeoff, TypeOK
    <2>2. /\ plane \in Airplanes
          /\ Tail(departQueue) \in Seq(Airplanes)
          /\ Len(departQueue) \in Nat
      BY <2>1, PopFacts
    <2>3. st2 \in StatsType
      <3>1. t - plane.queueArrivalTime \in Int /\ Len(departQueue) - 1 \in Int
        BY <2>2 DEF Airplanes
      <3> QED
        BY <3>1, EmitFacts
    <2>4. PICK d \in TakeoffTimes :
            /\ fes' = kept \cup {Message("airspace", t + d, seq + 1, plane)}
            /\ stats' = Emit(st2, "RunwayUse", d)
      BY <1>3 DEF HandOverToTakeoff, ParkingAreaGo, StartTakeoff
    <2>5. d \in Nat /\ seq \in Nat
      BY DrawsAreNat DEF TypeOK
    <2>6. Message("airspace", t + d, seq + 1, plane) \in Events
      BY <2>2, <2>5, MessageTypes DEF Modules
    <2>7. stats' \in StatsType
      BY <2>3, <2>4, <2>5, EmitFacts
    <2> QED
      BY <1>3, <2>2, <2>4, <2>6, <2>7
      DEF HandOverToTakeoff, ParkingAreaGo, TypeOK
  <1> QED
    BY <1>1, <1>2, <1>3 DEF completed

\* An event the kernel delivers is typed, and so is the clock after it.
LEMMA DeliverType ==
  ASSUME TypeOK, NEW e \in fes, NEW m, NEW self, Deliver(e, m, self)
  PROVE  /\ e \in Events /\ e.time \in Nat /\ e.plane \in Airplanes
         /\ fes \ {e} \in SUBSET Events
         /\ now' \in Nat /\ seq' \in Nat /\ par' \in Configs
         /\ seq \in Nat
  BY DEF TypeOK, Deliver, Events

\* Types after an arrival,
LEMMA ArrivalType ==
  ASSUME TypeOK, NEW e \in fes, ArrivalGranted(e) \/ ArrivalQueued(e),
         UNCHANGED parkingVars
  PROVE  TypeOK'
  <1> USE SignalNames
  <1>1. Arrival(e) /\ Deliver(e, "airspace", TRUE)
    BY DEF ArrivalGranted, ArrivalQueued, Arrival
  <1>2. /\ e.time \in Nat /\ e.plane \in Airplanes
        /\ fes \ {e} \in SUBSET Events
        /\ now' \in Nat /\ seq' \in Nat /\ par' \in Configs
        /\ seq \in Nat
    BY <1>1, DeliverType
  <1>3. Stamped(e) \in Airplanes
    BY <1>2 DEF Stamped, Airplanes
  <1>3a. [Stamped(e) EXCEPT !.queueArrivalTime = e.time] \in Airplanes
    BY <1>2, <1>3 DEF Airplanes
  <1>4. \A d \in InterArrivalTimes : NextArrival(e.time, d) \in Events
    <2> SUFFICES ASSUME NEW d \in InterArrivalTimes
                 PROVE  NextArrival(e.time, d) \in Events
      OBVIOUS
    <2>1. d \in Nat /\ created \in Nat
      BY DrawsAreNat DEF TypeOK
    <2>2. NewAirplane(created + 1) \in Airplanes
      BY <2>1 DEF NewAirplane, Airplanes
    <2> QED
      BY <1>2, <2>1, <2>2, MessageTypes DEF NextArrival, Modules
  <1>5. /\ running' \in BOOLEAN
        /\ landingStripOccupied' \in BOOLEAN
        /\ departedPlanes' \in Nat /\ created' \in Nat
        /\ departQueue' \in Seq(Airplanes) /\ numParked' \in Int
    <2>1. landingStripOccupied' = TRUE
      BY DEF ArrivalGranted, ArrivalQueued, notify
    <2> QED
      BY <1>1, <2>1 DEF TypeOK, Arrival, parkingVars
  <1>6. CASE ArrivalGranted(e)
    <2> DEFINE st2 == Emit(Emit(stats, "HoldingQueueSize", 0),
                           "HoldingQueueWaitingTime", 0)
    <2>1. PICK a \in InterArrivalTimes, d \in LandingTimes :
            /\ fes' = ((fes \ {e}) \cup {NextArrival(e.time, a)}) \cup
                        {Message("parkingarea", e.time + d, seq, Stamped(e))}
            /\ stats' = Emit(st2, "RunwayUse", d)
      BY <1>6 DEF ArrivalGranted, StartLanding
    <2>2. d \in Nat
      BY DrawsAreNat DEF TypeOK
    <2>3. Message("parkingarea", e.time + d, seq, Stamped(e)) \in Events
      BY <1>2, <1>3, <2>2, MessageTypes DEF Modules
    <2>4. stats \in StatsType
      BY DEF TypeOK
    <2>5. st2 \in StatsType
      BY <2>4, EmitFacts
    <2>6. stats' \in StatsType
      BY <2>1, <2>2, <2>5, EmitFacts
    <2>7. holdingQueue' \in Seq(Airplanes)
      BY <1>6 DEF ArrivalGranted, TypeOK
    <2> QED
      BY <1>2, <1>4, <1>5, <2>1, <2>3, <2>6, <2>7 DEF TypeOK
  <1>7. CASE ArrivalQueued(e)
    <2>1. fes' \subseteq Events
      BY <1>2, <1>4, <1>7 DEF ArrivalQueued
    <2>2. stats' \in StatsType
      BY <1>7, EmitFacts DEF ArrivalQueued, TypeOK
    <2>3. holdingQueue' \in Seq(Airplanes)
      BY <1>3a, <1>7 DEF ArrivalQueued, TypeOK
    <2> QED
      BY <1>2, <1>5, <2>1, <2>2, <2>3 DEF TypeOK
  <1> QED
    BY <1>6, <1>7

\* after a parking time,
LEMMA ParkingExpiredType ==
  ASSUME TypeOK, NEW e \in fes,
         ParkingExpiredGranted(e) \/ ParkingExpiredQueued(e),
         UNCHANGED airspaceVars
  PROVE  TypeOK'
  <1> USE SignalNames
  <1>1. ParkingExpired(e) /\ Deliver(e, "parkingarea", TRUE)
    BY DEF ParkingExpiredGranted, ParkingExpiredQueued, ParkingExpired
  <1>2. /\ e.time \in Nat /\ e.plane \in Airplanes
        /\ fes \ {e} \in SUBSET Events
        /\ now' \in Nat /\ seq' \in Nat /\ par' \in Configs
        /\ seq \in Nat
    BY <1>1, DeliverType
  <1>3. [e.plane EXCEPT !.queueArrivalTime = e.time] \in Airplanes
    BY <1>2 DEF Airplanes
  <1>4. Unparked \in StatsType
    BY EmitFacts DEF Unparked, TypeOK
  <1>5. /\ running' \in BOOLEAN
        /\ landingStripOccupied' \in BOOLEAN
        /\ departedPlanes' \in Nat /\ created' \in Nat
        /\ holdingQueue' \in Seq(Airplanes) /\ numParked' \in Int
    <2>1. landingStripOccupied' = TRUE
      BY DEF ParkingExpiredGranted, ParkingExpiredQueued, notify
    <2> QED
      BY <1>1, <2>1 DEF TypeOK, ParkingExpired, airspaceVars
  <1>6. CASE ParkingExpiredGranted(e)
    <2> DEFINE st2 == Emit(Emit(Unparked, "DepartQueueSize", 0),
                           "DepartQueueWaitingTime", 0)
    <2>1. PICK d \in TakeoffTimes :
            /\ fes' = (fes \ {e}) \cup
                        {Message("airspace", e.time + d, seq, e.plane)}
            /\ stats' = Emit(st2, "RunwayUse", d)
      BY <1>6 DEF ParkingExpiredGranted, StartTakeoff
    <2>2. d \in Nat
      BY DrawsAreNat DEF TypeOK
    <2>3. Message("airspace", e.time + d, seq, e.plane) \in Events
      BY <1>2, <2>2, MessageTypes DEF Modules
    <2>4. st2 \in StatsType
      BY <1>4, EmitFacts
    <2>5. stats' \in StatsType
      BY <2>1, <2>2, <2>4, EmitFacts
    <2>6. departQueue' \in Seq(Airplanes)
      BY <1>6 DEF ParkingExpiredGranted, TypeOK
    <2> QED
      BY <1>2, <1>5, <2>1, <2>3, <2>5, <2>6 DEF TypeOK
  <1>7. CASE ParkingExpiredQueued(e)
    <2>1. fes' \subseteq Events
      BY <1>2, <1>7 DEF ParkingExpiredQueued
    <2>2. stats' \in StatsType
      BY <1>4, <1>7, EmitFacts DEF ParkingExpiredQueued, TypeOK
    <2>3. departQueue' \in Seq(Airplanes)
      BY <1>3, <1>7 DEF ParkingExpiredQueued, TypeOK
    <2> QED
      BY <1>2, <1>5, <2>1, <2>2, <2>3 DEF TypeOK
  <1> QED
    BY <1>6, <1>7

\* after a landing,
LEMMA LandedType ==
  ASSUME TypeOK, NEW e \in fes, Landed(e)
  PROVE  TypeOK'
  <1> USE SignalNames
  <1>1. /\ e.time \in Nat /\ e.plane \in Airplanes
        /\ fes \ {e} \in SUBSET Events
        /\ now' \in Nat /\ seq' \in Nat /\ par' \in Configs
        /\ seq \in Nat
    BY DeliverType DEF Landed
  <1>2. /\ running' \in BOOLEAN
        /\ departedPlanes' \in Nat /\ created' \in Nat /\ numParked' \in Int
    BY DEF Landed, TypeOK
  <1> DEFINE kept(d) == (fes \ {e}) \cup
               {SelfMessage("parkingarea", e.time + d, seq, e.plane)}
             st == Emit(stats, "ParkedPlanes", numParked + 1)
  <1>3. PICK d \in ParkingTimes : completed(e.time, kept(d), st)
    BY DEF Landed
  <1>4. d \in Nat
    BY DrawsAreNat DEF TypeOK
  <1>5. kept(d) \in SUBSET Events
    BY <1>1, <1>4, MessageTypes DEF Modules
  <1>6. st \in StatsType
    BY EmitFacts DEF TypeOK
  <1> HIDE DEF kept, st
  <1>7. /\ fes' \subseteq Events
        /\ stats' \in StatsType
        /\ landingStripOccupied' \in BOOLEAN
        /\ holdingQueue' \in Seq(Airplanes)
        /\ departQueue' \in Seq(Airplanes)
    BY <1>1, <1>3, <1>5, <1>6, CompletedType
  <1> QED
    BY <1>1, <1>2, <1>7 DEF TypeOK

\* after a take-off,
LEMMA DepartedType ==
  ASSUME TypeOK, NEW e \in fes, Departed(e) \/ LastDeparted(e)
  PROVE  TypeOK'
  <1> USE SignalNames
  <1>1. TakenOff(e) /\ Deliver(e, "airspace", FALSE)
    BY DEF Departed, LastDeparted, TakenOff
  <1>2. /\ e.time \in Nat /\ e.plane \in Airplanes
        /\ fes \ {e} \in SUBSET Events
        /\ now' \in Nat /\ seq' \in Nat /\ par' \in Configs
    BY <1>1, DeliverType
  <1>3. /\ departedPlanes' \in Nat /\ created' \in Nat /\ numParked' \in Int
    BY <1>1 DEF TakenOff, TypeOK
  <1>4. Responded(e) \in StatsType
    <2>1. e.time - e.plane.timestamp \in Int
      BY <1>2 DEF Airplanes
    <2> QED
      BY <2>1, EmitFacts DEF Responded, TypeOK
  <1>5. CASE Departed(e)
    <2>1. completed(e.time, fes \ {e}, Responded(e)) /\ running' = running
      BY <1>5 DEF Departed
    <2>2. /\ fes' \subseteq Events
          /\ stats' \in StatsType
          /\ landingStripOccupied' \in BOOLEAN
          /\ holdingQueue' \in Seq(Airplanes)
          /\ departQueue' \in Seq(Airplanes)
      BY <1>2, <1>4, <2>1, CompletedType
    <2> QED
      BY <1>2, <1>3, <2>1, <2>2 DEF TypeOK
  <1>6. CASE LastDeparted(e)
    <2>1. stats' = Emit(Responded(e), "TotalSimtime", e.time)
      BY <1>6 DEF LastDeparted
    <2>2. stats' \in StatsType
      <3>1. e.time \in Int /\ "TotalSimtime" \in Signals
        BY <1>2
      <3>2. Emit(Responded(e), "TotalSimtime", e.time) \in StatsType
        BY <1>4, <3>1, EmitFacts
      <3> QED
        BY <2>1, <3>2
    <2>3. running' \in BOOLEAN
      BY <1>6 DEF LastDeparted
    <2>4. /\ fes' = fes \ {e}
          /\ landingStripOccupied' = landingStripOccupied
          /\ holdingQueue' = holdingQueue /\ departQueue' = departQueue
      BY <1>6 DEF LastDeparted
    <2> QED
      BY <1>2, <1>3, <2>2, <2>3, <2>4 DEF TypeOK
  <1> QED
    BY <1>5, <1>6

\* at the start,
LEMMA InitType == Init => TypeOK
  <1> SUFFICES ASSUME Init PROVE TypeOK
    OBVIOUS
  <1>1. PICK a \in InterArrivalTimes :
          fes = {SelfMessage("airspace", a, 0, NewAirplane(1))}
    BY DEF Init, InitAirspace
  <1>2. a \in Nat
    BY DrawsAreNat DEF Init
  <1>3. NewAirplane(1) \in Airplanes
    BY DEF NewAirplane, Airplanes
  <1>4. fes \subseteq Events
    BY <1>1, <1>2, <1>3, MessageTypes DEF Modules
  <1>5. stats \in StatsType
    BY DEF Init, InitStats, StatsType
  <1> QED
    <2>1. running \in BOOLEAN /\ landingStripOccupied \in BOOLEAN
      BY DEF Init, InitTower
    <2>2. /\ par \in Configs /\ now = 0 /\ seq = 1
          /\ holdingQueue = << >> /\ departQueue = << >>
          /\ departedPlanes = 0 /\ created = 1 /\ numParked = 0
      BY DEF Init, InitAirspace, InitParkingArea
    <2> QED
      BY <1>4, <1>5, <2>1, <2>2 DEF TypeOK

\* and after every step.
LEMMA NextType == TypeOK /\ [Next]_vars => TypeOK'
  <1> SUFFICES ASSUME TypeOK, [Next]_vars PROVE TypeOK'
    OBVIOUS
  <1>1. CASE UNCHANGED vars
    BY <1>1 DEF vars, TypeOK
  <1>2. CASE Next
    <2>1. PICK e \in fes :
            \/ (ArrivalGranted(e) \/ ArrivalQueued(e)) /\ UNCHANGED parkingVars
            \/ /\ ParkingExpiredGranted(e) \/ ParkingExpiredQueued(e)
               /\ UNCHANGED airspaceVars
            \/ Landed(e)
            \/ Departed(e) \/ LastDeparted(e)
      BY <1>2 DEF Next
    <2> QED
      BY <2>1, ArrivalType, ParkingExpiredType, LandedType, DepartedType
  <1> QED
    BY <1>1, <1>2

\* Every variable keeps its type, whatever the configuration and the draws.
THEOREM TypeCorrect == Spec => []TypeOK
  BY InitType, NextType, PTL DEF Spec

(***************************************************************************)
(* The runway: mutual exclusion, no lost hand-over, utilization.           *)
(***************************************************************************)

\* The three samples of a granted or handed-over operation.
LEMMA ThreeSamples ==
  ASSUME NEW st \in StatsType, NEW v1 \in Int, NEW v2 \in Int, NEW d \in Int,
         NEW s1 \in Signals \ {"RunwayUse", "TotalSimtime"},
         NEW s2 \in Signals \ {"RunwayUse", "TotalSimtime"}
  PROVE  LET r == Emit(Emit(Emit(st, s1, v1), s2, v2), "RunwayUse", d) IN
         /\ r["RunwayUse"].sum = st["RunwayUse"].sum + d
         /\ r["TotalSimtime"] = st["TotalSimtime"]
  <1> DEFINE a == Emit(st, s1, v1)
             b == Emit(a, s2, v2)
             r == Emit(b, "RunwayUse", d)
  <1> USE SignalNames
  <1>1. /\ a \in StatsType
        /\ a["RunwayUse"] = st["RunwayUse"]
        /\ a["TotalSimtime"] = st["TotalSimtime"]
    BY EmitFacts
  <1> HIDE DEF a
  <1>2. /\ b \in StatsType
        /\ b["RunwayUse"] = st["RunwayUse"]
        /\ b["TotalSimtime"] = st["TotalSimtime"]
    BY <1>1, EmitFacts
  <1> HIDE DEF b
  <1>3. /\ r["RunwayUse"].sum = st["RunwayUse"].sum + d
        /\ r["TotalSimtime"] = st["TotalSimtime"]
    <2>1. r["RunwayUse"].sum = b["RunwayUse"].sum + d
      BY <1>2, EmitFacts
    <2>2. r["TotalSimtime"] = b["TotalSimtime"]
      BY <1>2, EmitFacts
    <2> QED
      BY <1>2, <2>1, <2>2
  <1> QED
    BY <1>3 DEF a, b

\* The samples of Airspace::go().
LEMMA LandingSamples ==
  ASSUME NEW st \in StatsType, NEW v1 \in Int, NEW v2 \in Int, NEW d \in Int
  PROVE  LET r == Emit(Emit(Emit(st, "HoldingQueueWaitingTime", v1),
                            "HoldingQueueSize", v2), "RunwayUse", d) IN
         /\ r["RunwayUse"].sum = st["RunwayUse"].sum + d
         /\ r["TotalSimtime"] = st["TotalSimtime"]
  <1>1. /\ "HoldingQueueWaitingTime" \in Signals \ {"RunwayUse", "TotalSimtime"}
        /\ "HoldingQueueSize" \in Signals \ {"RunwayUse", "TotalSimtime"}
    BY SignalNames
  <1> QED
    BY <1>1, ThreeSamples

\* The samples of ParkingArea::go().
LEMMA TakeoffSamples ==
  ASSUME NEW st \in StatsType, NEW v1 \in Int, NEW v2 \in Int, NEW d \in Int
  PROVE  LET r == Emit(Emit(Emit(st, "DepartQueueWaitingTime", v1),
                            "DepartQueueSize", v2), "RunwayUse", d) IN
         /\ r["RunwayUse"].sum = st["RunwayUse"].sum + d
         /\ r["TotalSimtime"] = st["TotalSimtime"]
  <1>1. /\ "DepartQueueWaitingTime" \in Signals \ {"RunwayUse", "TotalSimtime"}
        /\ "DepartQueueSize" \in Signals \ {"RunwayUse", "TotalSimtime"}
    BY SignalNames
  <1> QED
    BY <1>1, ThreeSamples

\* The kernel delivers the earliest event: the clock does not go back and
\* the other events stay ahead of it.
LEMMA DeliverAhead ==
  ASSUME TypeOK, EventsAhead, NEW e \in fes, NEW m, NEW self,
         Deliver(e, m, self)
  PROVE  /\ now' = e.time /\ now <= now'
         /\ \A f \in fes \ {e} : now' <= f.time
         /\ now \in Nat /\ now' \in Nat
  BY DEF TypeOK, EventsAhead, Deliver, IsNext, Precedes, Events

\* Queues stay ordered when the clock advances, when an airplane with the
\* current time is appended and when the front is extracted.
LEMMA OrderedLater ==
  ASSUME NEW q \in Seq(Airplanes), Ordered(q), now \in Nat, now' \in Nat,
         now <= now'
  PROVE  /\ \A i \in 1..Len(q) : q[i].queueArrivalTime <= now'
         /\ \A i, j \in 1..Len(q) :
              i <= j => q[i].queueArrivalTime <= q[j].queueArrivalTime
  <1>1. \A i \in 1..Len(q) : q[i].queueArrivalTime \in Nat
    <2>1. \A i \in 1..Len(q) : q[i] \in Airplanes
      OBVIOUS
    <2> QED
      BY <2>1 DEF Airplanes
  <1>2. \A i \in 1..Len(q) : q[i].queueArrivalTime <= now
    BY DEF Ordered
  <1>3. \A i \in 1..Len(q) : q[i].queueArrivalTime <= now'
    BY <1>1, <1>2
  <1> QED
    BY <1>3 DEF Ordered

\* An airplane queued now keeps a queue ordered.
LEMMA OrderedAppend ==
  ASSUME NEW q \in Seq(Airplanes), Ordered(q), now \in Nat, now' \in Nat,
         now <= now', NEW p \in Airplanes, p.queueArrivalTime = now'
  PROVE  LET r == Append(q, p) IN
         /\ \A i \in 1..Len(r) : r[i].queueArrivalTime <= now'
         /\ \A i, j \in 1..Len(r) :
              i <= j => r[i].queueArrivalTime <= r[j].queueArrivalTime
  <1> DEFINE r == Append(q, p)
  <1>1. /\ Len(r) = Len(q) + 1
        /\ Len(q) \in Nat
        /\ r[Len(q) + 1] = p
        /\ \A i \in 1..Len(q) : r[i] = q[i] /\ q[i] \in Airplanes
    OBVIOUS
  <1>2. \A i \in 1..Len(q) : q[i].queueArrivalTime <= now'
    BY OrderedLater
  <1>3. \A i, j \in 1..Len(q) :
          i <= j => q[i].queueArrivalTime <= q[j].queueArrivalTime
    BY DEF Ordered
  <1> HIDE DEF r
  <1>4. \A i \in 1..Len(r) : i \in 1..Len(q) \/ i = Len(q) + 1
    BY <1>1
  <1>5. \A i \in 1..Len(r) : r[i].queueArrivalTime <= now'
    BY <1>1, <1>2, <1>4
  <1>6. \A i, j \in 1..Len(r) :
          i <= j => r[i].queueArrivalTime <= r[j].queueArrivalTime
    <2> SUFFICES ASSUME NEW i \in 1..Len(r), NEW j \in 1..Len(r), i <= j
                 PROVE  r[i].queueArrivalTime <= r[j].queueArrivalTime
      OBVIOUS
    <2>1. CASE j = Len(q) + 1
      BY <1>1, <1>5, <2>1
    <2>2. CASE j \in 1..Len(q)
      BY <1>1, <1>3, <2>2
    <2> QED
      BY <1>4, <2>1, <2>2
  <1> QED
    BY <1>5, <1>6 DEF r

\* So does taking the front away.
LEMMA OrderedTail ==
  ASSUME NEW q \in Seq(Airplanes), q # << >>, Ordered(q),
         now \in Nat, now' \in Nat, now <= now'
  PROVE  LET r == Tail(q) IN
         /\ \A i \in 1..Len(r) : r[i].queueArrivalTime <= now'
         /\ \A i, j \in 1..Len(r) :
              i <= j => r[i].queueArrivalTime <= r[j].queueArrivalTime
  <1> DEFINE r == Tail(q)
  <1>1. /\ Len(q) \in Nat /\ Len(r) = Len(q) - 1
        /\ \A i \in 1..Len(r) : r[i] = q[i + 1]
    BY PopFacts
  <1>2. /\ \A i \in 1..Len(q) : q[i].queueArrivalTime <= now'
        /\ \A i, j \in 1..Len(q) :
             i <= j => q[i].queueArrivalTime <= q[j].queueArrivalTime
    BY OrderedLater
  <1> HIDE DEF r
  <1>3. \A i \in 1..Len(r) : i + 1 \in 1..Len(q)
    BY <1>1
  <1>4. \A i \in 1..Len(r) : r[i].queueArrivalTime <= now'
    BY <1>1, <1>2, <1>3
  <1>5. ASSUME NEW i \in 1..Len(r), NEW j \in 1..Len(r), i <= j
        PROVE  r[i].queueArrivalTime <= r[j].queueArrivalTime
    <2>1. i + 1 <= j + 1
      BY <1>1, <1>5
    <2> QED
      BY <1>1, <1>2, <1>3, <2>1
  <1> QED
    BY <1>4, <1>5 DEF r

\* The runway is taken for the operation M: no other operation is left in the
\* event set, and all uses sampled, M's included, end when M does.
LEMMA RunwayTaken ==
  ASSUME running' = TRUE,
         NEW kept, \A f \in kept : f.self,
         NEW M, ~M.self, fes' = kept \cup {M},
         landingStripOccupied' = TRUE,
         stats'["RunwayUse"].sum <= M.time
  PROVE  RunwayExclusive' /\ NoIdleWaiting' /\ UtilizationAtMostOne'
  <1>1. RunwayEvents' = {M}
    BY DEF RunwayEvents
  <1>2. RunwayExclusive'
    BY <1>1 DEF RunwayExclusive
  <1>3. NoIdleWaiting'
    BY DEF NoIdleWaiting
  <1>4. UtilizationAtMostOne'
    BY <1>1 DEF UtilizationAtMostOne
  <1> QED
    BY <1>2, <1>3, <1>4

\* What completed() does, seen from the runway: the strip is freed, or a new
\* operation of some duration d starts for the front airplane of a queue.
Freed(kept, st) ==
  /\ landingStripOccupied' = FALSE
  /\ fes' = kept /\ stats' = st
  /\ holdingQueue' = << >> /\ departQueue' = << >>

Taken(t, kept, st, d, M) ==
  /\ ~M.self /\ M.time = t + d
  /\ fes' = kept \cup {M}
  /\ stats'["RunwayUse"].sum = st["RunwayUse"].sum + d
  /\ stats'["TotalSimtime"] = st["TotalSimtime"]

Popped ==
  /\ landingStripOccupied' = landingStripOccupied
  /\ \/ /\ holdingQueue # << >> /\ holdingQueue' = Tail(holdingQueue)
        /\ departQueue' = departQueue
     \/ /\ departQueue # << >> /\ departQueue' = Tail(departQueue)
        /\ holdingQueue' = holdingQueue

\* completed() frees the strip, or takes the front of a queue.
LEMMA CompletedShape ==
  ASSUME TypeOK, NEW t \in Nat, NEW kept \in SUBSET Events,
         NEW st \in StatsType, completed(t, kept, st)
  PROVE  \/ Freed(kept, st)
         \/ Popped /\ \E d \in Nat, M \in Events : Taken(t, kept, st, d, M)
  <1> USE SignalNames
  <1>1. CASE FreeStrip(kept, st)
    BY <1>1, SelectedFacts DEF FreeStrip, Freed
  <1>2. CASE HandOverToLanding(t, kept, st)
    <2> DEFINE plane == Head(holdingQueue)
               wait == t - plane.queueArrivalTime
    <2>1. /\ holdingQueue \in Seq(Airplanes)
          /\ holdingQueue # << >>
      BY <1>2, SelectedFacts DEF HandOverToLanding, TypeOK
    <2>2. plane \in Airplanes /\ wait \in Int /\ Len(holdingQueue) - 1 \in Int
      BY <2>1, PopFacts DEF Airplanes
    <2>3. PICK d \in LandingTimes :
            /\ fes' = kept \cup {Message("parkingarea", t + d, seq + 1, plane)}
            /\ stats' = Emit(Emit(Emit(st, "HoldingQueueWaitingTime", wait),
                                  "HoldingQueueSize", Len(holdingQueue) - 1),
                             "RunwayUse", d)
      BY <1>2 DEF HandOverToLanding, AirspaceGo, StartLanding
    <2>4. d \in Nat /\ seq + 1 \in Nat
      BY DrawsAreNat DEF TypeOK
    <2> DEFINE M == Message("parkingarea", t + d, seq + 1, plane)
    <2>5. M \in Events /\ ~M.self /\ M.time = t + d
      BY <2>2, <2>4, MessageTypes DEF Modules, Message
    <2>6. /\ stats'["RunwayUse"].sum = st["RunwayUse"].sum + d
          /\ stats'["TotalSimtime"] = st["TotalSimtime"]
      <3> DEFINE n == Len(holdingQueue) - 1
                 r == Emit(Emit(Emit(st, "HoldingQueueWaitingTime", wait),
                                "HoldingQueueSize", n), "RunwayUse", d)
      <3>1. wait \in Int /\ n \in Int /\ d \in Int
        BY <2>2, <2>4
      <3>2. stats' = r
        BY <2>3
      <3> HIDE DEF wait, n
      <3>3. /\ r["RunwayUse"].sum = st["RunwayUse"].sum + d
            /\ r["TotalSimtime"] = st["TotalSimtime"]
        BY <3>1, LandingSamples
      <3> HIDE DEF r
      <3> QED
        BY <3>2, <3>3
    <2>7. /\ landingStripOccupied' = landingStripOccupied
          /\ holdingQueue' = Tail(holdingQueue) /\ departQueue' = departQueue
      BY <1>2 DEF HandOverToLanding, AirspaceGo
    <2> QED
      <3>1. Popped
        BY <2>1, <2>7 DEF Popped
      <3>2. Taken(t, kept, st, d, M)
        BY <2>3, <2>5, <2>6 DEF Taken
      <3> QED
        BY <2>4, <2>5, <3>1, <3>2
  <1>3. CASE HandOverToTakeoff(t, kept, st)
    <2> DEFINE plane == Head(departQueue)
               wait == t - plane.queueArrivalTime
    <2>1. /\ departQueue \in Seq(Airplanes)
          /\ departQueue # << >>
      BY <1>3, SelectedFacts DEF HandOverToTakeoff, TypeOK
    <2>2. plane \in Airplanes /\ wait \in Int /\ Len(departQueue) - 1 \in Int
      BY <2>1, PopFacts DEF Airplanes
    <2>3. PICK d \in TakeoffTimes :
            /\ fes' = kept \cup {Message("airspace", t + d, seq + 1, plane)}
            /\ stats' = Emit(Emit(Emit(st, "DepartQueueWaitingTime", wait),
                                  "DepartQueueSize", Len(departQueue) - 1),
                             "RunwayUse", d)
      BY <1>3 DEF HandOverToTakeoff, ParkingAreaGo, StartTakeoff
    <2>4. d \in Nat /\ seq + 1 \in Nat
      BY DrawsAreNat DEF TypeOK
    <2> DEFINE M == Message("airspace", t + d, seq + 1, plane)
    <2>5. M \in Events /\ ~M.self /\ M.time = t + d
      BY <2>2, <2>4, MessageTypes DEF Modules, Message
    <2>6. /\ stats'["RunwayUse"].sum = st["RunwayUse"].sum + d
          /\ stats'["TotalSimtime"] = st["TotalSimtime"]
      <3> DEFINE n == Len(departQueue) - 1
                 r == Emit(Emit(Emit(st, "DepartQueueWaitingTime", wait),
                                "DepartQueueSize", n), "RunwayUse", d)
      <3>1. wait \in Int /\ n \in Int /\ d \in Int
        BY <2>2, <2>4
      <3>2. stats' = r
        BY <2>3
      <3> HIDE DEF wait, n
      <3>3. /\ r["RunwayUse"].sum = st["RunwayUse"].sum + d
            /\ r["TotalSimtime"] = st["TotalSimtime"]
        BY <3>1, TakeoffSamples
      <3> HIDE DEF r
      <3> QED
        BY <3>2, <3>3
    <2>7. /\ landingStripOccupied' = landingStripOccupied
          /\ departQueue' = Tail(departQueue) /\ holdingQueue' = holdingQueue
      BY <1>3 DEF HandOverToTakeoff, ParkingAreaGo
    <2> QED
      <3>1. Popped
        BY <2>1, <2>7 DEF Popped
      <3>2. Taken(t, kept, st, d, M)
        BY <2>3, <2>5, <2>6 DEF Taken
      <3> QED
        BY <2>4, <2>5, <3>1, <3>2
  <1> QED
    BY <1>1, <1>2, <1>3 DEF completed

\* A runway use of duration d that starts at t, after the sampled ones ended.
LEMMA UseEnds ==
  ASSUME NEW s \in Int, NEW t \in Nat, NEW d \in Nat, s <= t
  PROVE  s + d <= t + d
  OBVIOUS

\* The sum of the runway uses is an integer.
LEMMA UseType ==
  ASSUME NEW st \in StatsType
  PROVE  st["RunwayUse"].sum \in Int
  BY SignalNames DEF StatsType

\* The consequent of the step lemmas below.
RunwayPart ==
  /\ EventsAhead
  /\ RunwayExclusive
  /\ NoIdleWaiting
  /\ QueuesOrdered
  /\ NotEndedYet
  /\ UtilizationAtMostOne

\* An operation on the runway ends and completed() is called.
LEMMA CompletedStep ==
  ASSUME RunwayInv, NEW e \in fes, NEW m, Deliver(e, m, FALSE),
         NEW kept \in SUBSET Events, NEW st \in StatsType,
         \A f \in kept : f.self /\ e.time <= f.time,
         st["RunwayUse"] = stats["RunwayUse"],
         st["TotalSimtime"] = stats["TotalSimtime"],
         completed(e.time, kept, st), running' = running
  PROVE  RunwayPart'
  <1>1. TypeOK /\ EventsAhead /\ QueuesOrdered /\ e \in RunwayEvents /\ running
    BY DEF RunwayInv, Deliver, RunwayEvents
  <1>2. running' = TRUE
    BY <1>1 DEF TypeOK
  <1>3. /\ now' = e.time /\ now <= now' /\ e.time \in Nat
        /\ now \in Nat /\ now' \in Nat
    BY <1>1, DeliverAhead
  <1>4. landingStripOccupied = TRUE
    BY <1>1 DEF RunwayInv, RunwayExclusive, TypeOK
  <1>5. st["RunwayUse"].sum <= e.time
    BY <1>1 DEF RunwayInv, UtilizationAtMostOne
  <1>6. st["RunwayUse"].sum \in Int
    BY UseType
  <1>7. /\ st["TotalSimtime"].count = 0
        /\ st["TotalSimtime"].sum = 0
    BY <1>1 DEF RunwayInv, NotEndedYet
  <1>8. holdingQueue \in Seq(Airplanes) /\ departQueue \in Seq(Airplanes)
    BY <1>1 DEF TypeOK
  <1>9. CASE Freed(kept, st)
    <2>1. RunwayEvents' = {}
      BY <1>9 DEF Freed, RunwayEvents
    <2>2. EventsAhead'
      BY <1>3, <1>9 DEF Freed, EventsAhead
    <2>3. RunwayExclusive' /\ NoIdleWaiting'
      BY <1>9, <2>1 DEF Freed, RunwayExclusive, NoIdleWaiting
    <2>4. QueuesOrdered'
      BY <1>9 DEF Freed, QueuesOrdered, Ordered
    <2>5. NotEndedYet'
      BY <1>7, <1>9 DEF Freed, NotEndedYet
    <2>6. UtilizationAtMostOne'
      <3>1. stats'["RunwayUse"].sum <= now'
        BY <1>3, <1>5, <1>9 DEF Freed
      <3> QED
        BY <1>2, <2>1, <3>1 DEF UtilizationAtMostOne
    <2> QED
      BY <2>2, <2>3, <2>4, <2>5, <2>6 DEF RunwayPart
  <1>10. CASE /\ Popped
              /\ \E d \in Nat, M \in Events : Taken(e.time, kept, st, d, M)
    <2>1. PICK d \in Nat, M \in Events :
             /\ ~M.self /\ M.time = e.time + d
             /\ fes' = kept \cup {M}
             /\ stats'["RunwayUse"].sum = st["RunwayUse"].sum + d
             /\ stats'["TotalSimtime"] = st["TotalSimtime"]
      BY <1>10 DEF Taken
    <2>2. landingStripOccupied' = TRUE
      BY <1>4, <1>10 DEF Popped
    <2>3. stats'["RunwayUse"].sum <= M.time
      <3>1. st["RunwayUse"].sum + d <= e.time + d
        BY <1>3, <1>5, <1>6, UseEnds
      <3> QED
        BY <2>1, <3>1
    <2>4. RunwayExclusive' /\ NoIdleWaiting' /\ UtilizationAtMostOne'
      BY <1>2, <2>1, <2>2, <2>3, RunwayTaken
    <2>5. EventsAhead'
      <3>1. now' <= M.time
        BY <1>3, <2>1
      <3> QED
        BY <1>3, <2>1, <3>1 DEF EventsAhead
    <2>6. QueuesOrdered'
      <3>1. Ordered(holdingQueue) /\ Ordered(departQueue)
        BY <1>1 DEF QueuesOrdered
      <3>2. CASE /\ holdingQueue # << >> /\ holdingQueue' = Tail(holdingQueue)
                 /\ departQueue' = departQueue
        <4>1. Ordered(holdingQueue)'
          BY <1>3, <1>8, <3>1, <3>2, OrderedTail DEF Ordered
        <4>2. Ordered(departQueue)'
          BY <1>3, <1>8, <3>1, <3>2, OrderedLater DEF Ordered
        <4> QED
          BY <4>1, <4>2 DEF QueuesOrdered
      <3>3. CASE /\ departQueue # << >> /\ departQueue' = Tail(departQueue)
                 /\ holdingQueue' = holdingQueue
        <4>1. Ordered(departQueue)'
          BY <1>3, <1>8, <3>1, <3>3, OrderedTail DEF Ordered
        <4>2. Ordered(holdingQueue)'
          BY <1>3, <1>8, <3>1, <3>3, OrderedLater DEF Ordered
        <4> QED
          BY <4>1, <4>2 DEF QueuesOrdered
      <3> QED
        BY <1>10, <3>2, <3>3 DEF Popped
    <2>7. NotEndedYet'
      BY <1>7, <2>1 DEF NotEndedYet
    <2> QED
      BY <2>4, <2>5, <2>6, <2>7 DEF RunwayPart
  <1> QED
    BY <1>1, <1>3, <1>9, <1>10, CompletedShape

\* A request is granted at once: the strip was free.
LEMMA GrantStep ==
  ASSUME RunwayInv, NEW e \in fes, NEW m, Deliver(e, m, TRUE),
         landingStripOccupied = FALSE, landingStripOccupied' = TRUE,
         running' = running,
         holdingQueue' = holdingQueue, departQueue' = departQueue,
         NEW kept \in SUBSET Events,
         \A f \in kept : f \in fes \ {e} \/ (f.self /\ e.time <= f.time),
         NEW d \in Nat, NEW M \in Events, Taken(e.time, kept, stats, d, M)
  PROVE  RunwayPart'
  <1>1. TypeOK /\ EventsAhead /\ QueuesOrdered /\ running
    BY DEF RunwayInv, Deliver
  <1>2. running' = TRUE
    BY <1>1 DEF TypeOK
  <1>3. /\ now' = e.time /\ now <= now' /\ e.time \in Nat
        /\ now \in Nat /\ now' \in Nat
        /\ \A f \in fes \ {e} : now' <= f.time
    BY <1>1, DeliverAhead
  <1>4. RunwayEvents = {}
    BY <1>1 DEF RunwayInv, RunwayExclusive
  <1>5. \A f \in kept : f.self
    BY <1>4 DEF RunwayEvents
  <1>6. stats["RunwayUse"].sum \in Int
    BY <1>1, UseType DEF TypeOK
  <1>7. stats["RunwayUse"].sum <= e.time
    <2>1. stats["RunwayUse"].sum <= now
      BY <1>4 DEF RunwayInv, UtilizationAtMostOne
    <2> QED
      BY <1>3, <1>6, <2>1
  <1>8. /\ ~M.self /\ M.time = e.time + d
        /\ fes' = kept \cup {M}
        /\ stats'["RunwayUse"].sum = stats["RunwayUse"].sum + d
        /\ stats'["TotalSimtime"] = stats["TotalSimtime"]
    BY DEF Taken
  <1>9. stats'["RunwayUse"].sum <= M.time
    <2>1. stats["RunwayUse"].sum + d <= e.time + d
      BY <1>3, <1>6, <1>7, UseEnds
    <2> QED
      BY <1>8, <2>1
  <1>10. RunwayExclusive' /\ NoIdleWaiting' /\ UtilizationAtMostOne'
    BY <1>2, <1>5, <1>8, <1>9, RunwayTaken
  <1>11. EventsAhead'
    <2>1. now' <= M.time
      BY <1>3, <1>8
    <2> QED
      BY <1>3, <1>8, <2>1 DEF EventsAhead
  <1>12. QueuesOrdered'
    <2>1. /\ holdingQueue \in Seq(Airplanes) /\ departQueue \in Seq(Airplanes)
          /\ Ordered(holdingQueue) /\ Ordered(departQueue)
      BY <1>1 DEF TypeOK, QueuesOrdered
    <2>2. Ordered(holdingQueue)'
      BY <1>3, <2>1, OrderedLater DEF Ordered
    <2>3. Ordered(departQueue)'
      BY <1>3, <2>1, OrderedLater DEF Ordered
    <2> QED
      BY <2>2, <2>3 DEF QueuesOrdered
  <1>13. NotEndedYet'
    BY <1>1, <1>8 DEF RunwayInv, NotEndedYet
  <1> QED
    BY <1>10, <1>11, <1>12, <1>13 DEF RunwayPart

\* A request has to wait: the strip was and stays occupied by an operation
\* other than the delivered self-message.
LEMMA QueuedStep ==
  ASSUME RunwayInv, NEW e \in fes, NEW m, Deliver(e, m, TRUE),
         landingStripOccupied = TRUE, landingStripOccupied' = TRUE,
         running' = running,
         NEW p \in Airplanes, p.queueArrivalTime = e.time,
         \/ /\ holdingQueue' = Append(holdingQueue, p)
            /\ departQueue' = departQueue
         \/ /\ departQueue' = Append(departQueue, p)
            /\ holdingQueue' = holdingQueue,
         fes \ {e} \subseteq fes',
         \A f \in fes' : f \in fes \ {e} \/ (f.self /\ e.time <= f.time),
         stats'["RunwayUse"] = stats["RunwayUse"],
         stats'["TotalSimtime"] = stats["TotalSimtime"]
  PROVE  RunwayPart'
  <1>1. TypeOK /\ EventsAhead /\ QueuesOrdered /\ running /\ e.self
    BY DEF RunwayInv, Deliver
  <1>2. running' = TRUE
    BY <1>1 DEF TypeOK
  <1>3. /\ now' = e.time /\ now <= now' /\ e.time \in Nat
        /\ now \in Nat /\ now' \in Nat
        /\ \A f \in fes \ {e} : now' <= f.time
    BY <1>1, DeliverAhead
  <1>4. RunwayEvents' = RunwayEvents
    <2>1. \A f \in fes' : ~f.self => f \in fes
      OBVIOUS
    <2>2. \A f \in fes : ~f.self => f \in fes'
      BY <1>1
    <2> QED
      BY <2>1, <2>2 DEF RunwayEvents
  <1>5. RunwayEvents # {} /\ RunwayExclusive
    BY <1>1 DEF RunwayInv, RunwayExclusive
  <1>6. RunwayExclusive'
    BY <1>4, <1>5 DEF RunwayExclusive
  <1>7. NoIdleWaiting'
    BY DEF NoIdleWaiting
  <1>8. EventsAhead'
    BY <1>3 DEF EventsAhead
  <1>9. NotEndedYet'
    BY <1>1 DEF RunwayInv, NotEndedYet
  <1>10. UtilizationAtMostOne'
    <2>1. \A f \in RunwayEvents : stats["RunwayUse"].sum <= f.time
      BY DEF RunwayInv, UtilizationAtMostOne
    <2> QED
      BY <1>2, <1>4, <1>5, <2>1 DEF UtilizationAtMostOne
  <1>11. QueuesOrdered'
    <2>1. /\ holdingQueue \in Seq(Airplanes) /\ departQueue \in Seq(Airplanes)
          /\ Ordered(holdingQueue) /\ Ordered(departQueue)
      BY <1>1 DEF TypeOK, QueuesOrdered
    <2>2. CASE /\ holdingQueue' = Append(holdingQueue, p)
               /\ departQueue' = departQueue
      <3>1. Ordered(holdingQueue)'
        BY <1>3, <2>1, <2>2, OrderedAppend DEF Ordered
      <3>2. Ordered(departQueue)'
        BY <1>3, <2>1, <2>2, OrderedLater DEF Ordered
      <3> QED
        BY <3>1, <3>2 DEF QueuesOrdered
    <2>3. CASE /\ departQueue' = Append(departQueue, p)
               /\ holdingQueue' = holdingQueue
      <3>1. Ordered(departQueue)'
        BY <1>3, <2>1, <2>3, OrderedAppend DEF Ordered
      <3>2. Ordered(holdingQueue)'
        BY <1>3, <2>1, <2>3, OrderedLater DEF Ordered
      <3> QED
        BY <3>1, <3>2 DEF QueuesOrdered
    <2> QED
      BY <2>2, <2>3
  <1> QED
    BY <1>6, <1>7, <1>8, <1>9, <1>10, <1>11 DEF RunwayPart

\* An arrival scheduled by the handler is a self-message of the future.
LEMMA NextArrivalFacts ==
  ASSUME TypeOK, NEW t \in Nat, NEW a \in InterArrivalTimes
  PROVE  /\ NextArrival(t, a) \in Events
         /\ NextArrival(t, a).self
         /\ t <= NextArrival(t, a).time
  <1>1. a \in Nat /\ created + 1 \in Nat /\ seq + 1 \in Nat
    BY DrawsAreNat DEF TypeOK
  <1>2. NewAirplane(created + 1) \in Airplanes
    BY <1>1 DEF NewAirplane, Airplanes
  <1>3. NextArrival(t, a) \in Events
    BY <1>1, <1>2, MessageTypes DEF NextArrival, Modules
  <1>4. /\ NextArrival(t, a).self = TRUE
        /\ NextArrival(t, a).time = t + a
    BY DEF NextArrival, SelfMessage
  <1>5. t <= t + a
    BY <1>1
  <1> QED
    BY <1>3, <1>4, <1>5

\* An arrival takes the free strip.
LEMMA ArrivalGrantedRunway ==
  ASSUME RunwayInv, NEW e \in fes, ArrivalGranted(e), UNCHANGED parkingVars
  PROVE  RunwayPart'
  <1> USE SignalNames
  <1>1. TypeOK /\ Deliver(e, "airspace", TRUE)
    BY DEF RunwayInv, ArrivalGranted, Arrival
  <1>2. e.time \in Nat /\ e.plane \in Airplanes /\ seq \in Nat
        /\ fes \ {e} \in SUBSET Events
    BY <1>1, DeliverType
  <1>3. /\ landingStripOccupied = FALSE /\ landingStripOccupied' = TRUE
        /\ running' = running /\ holdingQueue' = holdingQueue
        /\ departQueue' = departQueue
    <2>1. landingStripOccupied' = TRUE /\ TRUE = ~landingStripOccupied
      BY DEF ArrivalGranted, notify
    <2>2. landingStripOccupied = FALSE
      BY <1>1, <2>1 DEF TypeOK
    <2> QED
      BY <2>1, <2>2 DEF ArrivalGranted, Arrival, parkingVars
  <1>4. PICK a \in InterArrivalTimes, d \in LandingTimes :
          /\ fes' = ((fes \ {e}) \cup {NextArrival(e.time, a)}) \cup
                      {Message("parkingarea", e.time + d, seq, Stamped(e))}
          /\ stats' = Emit(Emit(Emit(stats, "HoldingQueueSize", 0),
                                "HoldingQueueWaitingTime", 0), "RunwayUse", d)
    BY DEF ArrivalGranted, StartLanding
  <1>5. d \in Nat
    BY <1>1, DrawsAreNat DEF TypeOK
  <1> DEFINE kept == (fes \ {e}) \cup {NextArrival(e.time, a)}
             M == Message("parkingarea", e.time + d, seq, Stamped(e))
  <1>6. Stamped(e) \in Airplanes
    BY <1>2 DEF Stamped, Airplanes
  <1>7. M \in Events /\ ~M.self /\ M.time = e.time + d
    BY <1>2, <1>5, <1>6, MessageTypes DEF Modules, Message
  <1>8. /\ kept \in SUBSET Events
        /\ \A f \in kept : f \in fes \ {e} \/ (f.self /\ e.time <= f.time)
    BY <1>1, <1>2, NextArrivalFacts
  <1>9. /\ stats'["RunwayUse"].sum = stats["RunwayUse"].sum + d
        /\ stats'["TotalSimtime"] = stats["TotalSimtime"]
    <2>1. stats \in StatsType
      BY <1>1 DEF TypeOK
    <2>2. /\ "HoldingQueueSize" \in Signals \ {"RunwayUse", "TotalSimtime"}
          /\ "HoldingQueueWaitingTime" \in Signals \ {"RunwayUse", "TotalSimtime"}
      OBVIOUS
    <2> QED
      BY <1>4, <1>5, <2>1, <2>2, ThreeSamples
  <1>10. Taken(e.time, kept, stats, d, M)
    BY <1>4, <1>7, <1>9 DEF Taken
  <1> HIDE DEF kept, M
  <1> QED
    BY <1>1, <1>3, <1>5, <1>7, <1>8, <1>10, GrantStep

\* An arrival waits for the strip in use.
LEMMA ArrivalQueuedRunway ==
  ASSUME RunwayInv, NEW e \in fes, ArrivalQueued(e), UNCHANGED parkingVars
  PROVE  RunwayPart'
  <1> USE SignalNames
  <1>1. TypeOK /\ Deliver(e, "airspace", TRUE)
    BY DEF RunwayInv, ArrivalQueued, Arrival
  <1>2. e.time \in Nat /\ e.plane \in Airplanes
    BY <1>1, DeliverType
  <1> DEFINE p == [Stamped(e) EXCEPT !.queueArrivalTime = e.time]
  <1>3. /\ landingStripOccupied = TRUE /\ landingStripOccupied' = TRUE
        /\ running' = running
        /\ holdingQueue' = Append(holdingQueue, p)
        /\ departQueue' = departQueue
    <2>1. landingStripOccupied' = TRUE /\ FALSE = ~landingStripOccupied
      BY DEF ArrivalQueued, notify
    <2>2. landingStripOccupied = TRUE
      BY <1>1, <2>1 DEF TypeOK
    <2> QED
      BY <2>1, <2>2 DEF ArrivalQueued, Arrival, parkingVars
  <1>4. p \in Airplanes /\ p.queueArrivalTime = e.time
    <2>1. Stamped(e) \in Airplanes
      BY <1>2 DEF Stamped, Airplanes
    <2> QED
      BY <1>2, <2>1 DEF Airplanes
  <1>5. PICK a \in InterArrivalTimes :
          fes' = (fes \ {e}) \cup {NextArrival(e.time, a)}
    BY DEF ArrivalQueued
  <1>6. /\ fes \ {e} \subseteq fes'
        /\ \A f \in fes' : f \in fes \ {e} \/ (f.self /\ e.time <= f.time)
    BY <1>1, <1>2, <1>5, NextArrivalFacts
  <1>7. /\ stats'["RunwayUse"] = stats["RunwayUse"]
        /\ stats'["TotalSimtime"] = stats["TotalSimtime"]
    <2>1. /\ stats' = Emit(stats, "HoldingQueueSize", Len(holdingQueue) + 1)
          /\ stats \in StatsType /\ Len(holdingQueue) + 1 \in Int
      BY <1>1 DEF ArrivalQueued, TypeOK
    <2> QED
      BY <2>1, EmitFacts
  <1> HIDE DEF p
  <1> QED
    BY <1>1, <1>3, <1>4, <1>6, <1>7, QueuedStep

\* The sample of the parked airplanes leaves the runway's alone.
LEMMA UnparkedFacts ==
  ASSUME TypeOK
  PROVE  /\ Unparked \in StatsType
         /\ Unparked["RunwayUse"] = stats["RunwayUse"]
         /\ Unparked["TotalSimtime"] = stats["TotalSimtime"]
  <1>1. stats \in StatsType /\ numParked - 1 \in Int
    BY DEF TypeOK
  <1>2. /\ "ParkedPlanes" \in Signals
        /\ "RunwayUse" \in Signals \ {"ParkedPlanes"}
        /\ "TotalSimtime" \in Signals \ {"ParkedPlanes"}
    BY SignalNames
  <1> QED
    BY <1>1, <1>2, EmitFacts DEF Unparked

\* A parked airplane takes the free strip.
LEMMA ParkingExpiredGrantedRunway ==
  ASSUME RunwayInv, NEW e \in fes, ParkingExpiredGranted(e),
         UNCHANGED airspaceVars
  PROVE  RunwayPart'
  <1> USE SignalNames
  <1>1. TypeOK /\ Deliver(e, "parkingarea", TRUE)
    BY DEF RunwayInv, ParkingExpiredGranted, ParkingExpired
  <1>2. e.time \in Nat /\ e.plane \in Airplanes /\ seq \in Nat
        /\ fes \ {e} \in SUBSET Events
    BY <1>1, DeliverType
  <1>3. /\ landingStripOccupied = FALSE /\ landingStripOccupied' = TRUE
        /\ running' = running /\ holdingQueue' = holdingQueue
        /\ departQueue' = departQueue
    <2>1. landingStripOccupied' = TRUE /\ TRUE = ~landingStripOccupied
      BY DEF ParkingExpiredGranted, notify
    <2>2. landingStripOccupied = FALSE
      BY <1>1, <2>1 DEF TypeOK
    <2> QED
      BY <2>1, <2>2 DEF ParkingExpiredGranted, ParkingExpired, airspaceVars
  <1>4. PICK d \in TakeoffTimes :
          /\ fes' = (fes \ {e}) \cup
                      {Message("airspace", e.time + d, seq, e.plane)}
          /\ stats' = Emit(Emit(Emit(Unparked, "DepartQueueSize", 0),
                                "DepartQueueWaitingTime", 0), "RunwayUse", d)
    BY DEF ParkingExpiredGranted, StartTakeoff
  <1>5. d \in Nat
    BY <1>1, DrawsAreNat DEF TypeOK
  <1> DEFINE kept == fes \ {e}
             M == Message("airspace", e.time + d, seq, e.plane)
  <1>6. M \in Events /\ ~M.self /\ M.time = e.time + d
    BY <1>2, <1>5, MessageTypes DEF Modules, Message
  <1>7. /\ Unparked \in StatsType
        /\ Unparked["RunwayUse"] = stats["RunwayUse"]
        /\ Unparked["TotalSimtime"] = stats["TotalSimtime"]
    BY <1>1, UnparkedFacts
  <1>8. /\ stats'["RunwayUse"].sum = stats["RunwayUse"].sum + d
        /\ stats'["TotalSimtime"] = stats["TotalSimtime"]
    <2>1. /\ "DepartQueueSize" \in Signals \ {"RunwayUse", "TotalSimtime"}
          /\ "DepartQueueWaitingTime" \in Signals \ {"RunwayUse", "TotalSimtime"}
      OBVIOUS
    <2>2. /\ stats'["RunwayUse"].sum = Unparked["RunwayUse"].sum + d
          /\ stats'["TotalSimtime"] = Unparked["TotalSimtime"]
      BY <1>4, <1>5, <1>7, <2>1, ThreeSamples
    <2> QED
      BY <1>7, <2>2
  <1>9. Taken(e.time, kept, stats, d, M)
    BY <1>4, <1>6, <1>8 DEF Taken
  <1>10. /\ kept \in SUBSET Events
         /\ \A f \in kept : f \in fes \ {e} \/ (f.self /\ e.time <= f.time)
    BY <1>2
  <1> HIDE DEF kept, M
  <1> QED
    BY <1>1, <1>3, <1>5, <1>6, <1>9, <1>10, GrantStep

\* A parked airplane waits for the strip in use.
LEMMA ParkingExpiredQueuedRunway ==
  ASSUME RunwayInv, NEW e \in fes, ParkingExpiredQueued(e),
         UNCHANGED airspaceVars
  PROVE  RunwayPart'
  <1> USE SignalNames
  <1>1. TypeOK /\ Deliver(e, "parkingarea", TRUE)
    BY DEF RunwayInv, ParkingExpiredQueued, ParkingExpired
  <1>2. e.time \in Nat /\ e.plane \in Airplanes
    BY <1>1, DeliverType
  <1> DEFINE p == [e.plane EXCEPT !.queueArrivalTime = e.time]
  <1>3. /\ landingStripOccupied = TRUE /\ landingStripOccupied' = TRUE
        /\ running' = running
        /\ departQueue' = Append(departQueue, p)
        /\ holdingQueue' = holdingQueue
        /\ fes' = fes \ {e}
    <2>1. landingStripOccupied' = TRUE /\ FALSE = ~landingStripOccupied
      BY DEF ParkingExpiredQueued, notify
    <2>2. landingStripOccupied = TRUE
      BY <1>1, <2>1 DEF TypeOK
    <2> QED
      BY <2>1, <2>2 DEF ParkingExpiredQueued, ParkingExpired, airspaceVars
  <1>4. p \in Airplanes /\ p.queueArrivalTime = e.time
    BY <1>2 DEF Airplanes
  <1>5. /\ Unparked \in StatsType
        /\ Unparked["RunwayUse"] = stats["RunwayUse"]
        /\ Unparked["TotalSimtime"] = stats["TotalSimtime"]
    BY <1>1, UnparkedFacts
  <1>6. /\ stats'["RunwayUse"] = stats["RunwayUse"]
        /\ stats'["TotalSimtime"] = stats["TotalSimtime"]
    <2>1. /\ stats' = Emit(Unparked, "DepartQueueSize", Len(departQueue) + 1)
          /\ Len(departQueue) + 1 \in Int
      BY <1>1 DEF ParkingExpiredQueued, TypeOK
    <2>2. /\ "DepartQueueSize" \in Signals
          /\ "RunwayUse" \in Signals \ {"DepartQueueSize"}
          /\ "TotalSimtime" \in Signals \ {"DepartQueueSize"}
      OBVIOUS
    <2>3. /\ stats'["RunwayUse"] = Unparked["RunwayUse"]
          /\ stats'["TotalSimtime"] = Unparked["TotalSimtime"]
      BY <1>5, <2>1, <2>2, EmitFacts
    <2> QED
      BY <1>5, <2>3
  <1>7. /\ fes \ {e} \subseteq fes'
        /\ \A f \in fes' : f \in fes \ {e} \/ (f.self /\ e.time <= f.time)
    BY <1>3
  <1> HIDE DEF p
  <1> QED
    BY <1>1, <1>3, <1>4, <1>6, <1>7, QueuedStep

\* Before completed() is called, the delivered operation was the only one.
LEMMA OthersAreSelf ==
  ASSUME RunwayInv, NEW e \in fes, NEW m, Deliver(e, m, FALSE)
  PROVE  /\ \A f \in fes \ {e} : f.self /\ e.time <= f.time
         /\ e \in RunwayEvents /\ e.time \in Nat
  <1>1. TypeOK /\ EventsAhead /\ e \in RunwayEvents
    BY DEF RunwayInv, Deliver, RunwayEvents
  <1>2. \A f \in fes \ {e} : f.self
    BY <1>1 DEF RunwayInv, RunwayExclusive, RunwayEvents
  <1>3. /\ \A f \in fes \ {e} : e.time <= f.time
        /\ e.time \in Nat
    BY <1>1, DeliverAhead
  <1> QED
    BY <1>1, <1>2, <1>3

\* A landing ends and hands the strip over, or frees it.
LEMMA LandedRunway ==
  ASSUME RunwayInv, NEW e \in fes, Landed(e)
  PROVE  RunwayPart'
  <1>1. /\ TypeOK /\ Deliver(e, "parkingarea", FALSE) /\ running' = running
    BY DEF RunwayInv, Landed
  <1>2. e.time \in Nat /\ e.plane \in Airplanes /\ seq \in Nat
        /\ fes \ {e} \in SUBSET Events
    BY <1>1, DeliverType
  <1> DEFINE park(d) == SelfMessage("parkingarea", e.time + d, seq, e.plane)
             kept(d) == (fes \ {e}) \cup {park(d)}
             st == Emit(stats, "ParkedPlanes", numParked + 1)
  <1>3. PICK d \in ParkingTimes : completed(e.time, kept(d), st)
    BY DEF Landed
  <1>4. d \in Nat
    BY <1>1, DrawsAreNat DEF TypeOK
  <1>5. park(d) \in Events
    BY <1>2, <1>4, MessageTypes DEF Modules
  <1>6. park(d).self /\ e.time <= park(d).time
    <2>1. park(d).self = TRUE /\ park(d).time = e.time + d
      BY DEF SelfMessage
    <2>2. e.time <= e.time + d
      BY <1>2, <1>4
    <2> QED
      BY <2>1, <2>2
  <1>7. kept(d) \in SUBSET Events
    BY <1>2, <1>5
  <1>8. \A f \in kept(d) : f.self /\ e.time <= f.time
    <2>1. \A f \in fes \ {e} : f.self /\ e.time <= f.time
      BY <1>1, OthersAreSelf
    <2> QED
      BY <1>6, <2>1
  <1>9. /\ st \in StatsType
        /\ st["RunwayUse"] = stats["RunwayUse"]
        /\ st["TotalSimtime"] = stats["TotalSimtime"]
    <2>1. stats \in StatsType /\ numParked + 1 \in Int
      BY <1>1 DEF TypeOK
    <2>2. /\ "ParkedPlanes" \in Signals
          /\ "RunwayUse" \in Signals \ {"ParkedPlanes"}
          /\ "TotalSimtime" \in Signals \ {"ParkedPlanes"}
      BY SignalNames
    <2> QED
      BY <2>1, <2>2, EmitFacts
  <1> HIDE DEF kept, st
  <1> QED
    BY <1>1, <1>3, <1>7, <1>8, <1>9, CompletedStep

\* The sample of the response time leaves the runway's alone.
LEMMA RespondedFacts ==
  ASSUME TypeOK, NEW e \in fes
  PROVE  /\ Responded(e) \in StatsType
         /\ Responded(e)["RunwayUse"] = stats["RunwayUse"]
         /\ Responded(e)["TotalSimtime"] = stats["TotalSimtime"]
  <1>1. stats \in StatsType /\ e.time - e.plane.timestamp \in Int
    BY DEF TypeOK, Events, Airplanes
  <1>2. /\ "AirportResponseTime" \in Signals
        /\ "RunwayUse" \in Signals \ {"AirportResponseTime"}
        /\ "TotalSimtime" \in Signals \ {"AirportResponseTime"}
    BY SignalNames
  <1> QED
    BY <1>1, <1>2, EmitFacts DEF Responded

\* A take-off ends and hands the strip over, or frees it.
LEMMA DepartedRunway ==
  ASSUME RunwayInv, NEW e \in fes, Departed(e)
  PROVE  RunwayPart'
  <1>1. /\ TypeOK /\ Deliver(e, "airspace", FALSE) /\ running' = running
        /\ completed(e.time, fes \ {e}, Responded(e))
    BY DEF RunwayInv, Departed, TakenOff
  <1>2. fes \ {e} \in SUBSET Events
    BY <1>1, DeliverType
  <1>3. \A f \in fes \ {e} : f.self /\ e.time <= f.time
    BY <1>1, OthersAreSelf
  <1>4. /\ Responded(e) \in StatsType
        /\ Responded(e)["RunwayUse"] = stats["RunwayUse"]
        /\ Responded(e)["TotalSimtime"] = stats["TotalSimtime"]
    BY <1>1, RespondedFacts
  <1> QED
    BY <1>1, <1>2, <1>3, <1>4, CompletedStep

\* The last departure: nothing uses the runway any more, and all uses sampled
\* had ended when the total simulation time is emitted.
LEMMA LastDepartedRunway ==
  ASSUME RunwayInv, NEW e \in fes, LastDeparted(e)
  PROVE  RunwayPart'
  <1>1. /\ TypeOK /\ EventsAhead /\ Deliver(e, "airspace", FALSE)
        /\ fes' = fes \ {e}
        /\ stats' = Emit(Responded(e), "TotalSimtime", e.time)
        /\ running
    BY DEF RunwayInv, LastDeparted, TakenOff, Deliver
  <1>2. running' = FALSE
    BY DEF LastDeparted
  <1>3. /\ landingStripOccupied' = landingStripOccupied
        /\ holdingQueue' = holdingQueue /\ departQueue' = departQueue
    BY DEF LastDeparted
  <1>4. /\ now' = e.time /\ now <= now' /\ e.time \in Nat
        /\ now \in Nat /\ now' \in Nat
    BY <1>1, DeliverAhead
  <1>5. /\ \A f \in fes' : f.self /\ now' <= f.time
        /\ e \in RunwayEvents
    BY <1>1, <1>4, OthersAreSelf
  <1>6. RunwayEvents' = {}
    BY <1>5 DEF RunwayEvents
  <1>7. /\ Responded(e) \in StatsType
        /\ Responded(e)["RunwayUse"] = stats["RunwayUse"]
        /\ Responded(e)["TotalSimtime"] = stats["TotalSimtime"]
    BY <1>1, RespondedFacts
  <1>8. /\ stats'["RunwayUse"] = stats["RunwayUse"]
        /\ stats'["TotalSimtime"].count = 1
        /\ stats'["TotalSimtime"].sum = e.time
    <2>1. e.time \in Int
      BY <1>4
    <2>2. /\ "TotalSimtime" \in Signals
          /\ "RunwayUse" \in Signals \ {"TotalSimtime"}
      BY SignalNames
    <2>3. /\ stats'["RunwayUse"] = Responded(e)["RunwayUse"]
          /\ stats'["TotalSimtime"].count
               = Responded(e)["TotalSimtime"].count + 1
          /\ stats'["TotalSimtime"].sum
               = Responded(e)["TotalSimtime"].sum + e.time
      BY <1>1, <1>7, <2>1, <2>2, EmitFacts
    <2>4. /\ Responded(e)["TotalSimtime"].count = 0
          /\ Responded(e)["TotalSimtime"].sum = 0
      BY <1>1, <1>7 DEF RunwayInv, NotEndedYet
    <2> QED
      BY <1>7, <2>1, <2>3, <2>4
  <1>9. stats["RunwayUse"].sum <= e.time
    BY <1>5 DEF RunwayInv, UtilizationAtMostOne
  <1>10. EventsAhead'
    BY <1>5 DEF EventsAhead
  <1>11. RunwayExclusive' /\ NotEndedYet'
    BY <1>2, <1>6 DEF RunwayExclusive, NotEndedYet
  <1>12. NoIdleWaiting'
    BY <1>3 DEF RunwayInv, NoIdleWaiting
  <1>13. QueuesOrdered'
    <2>1. /\ holdingQueue \in Seq(Airplanes) /\ departQueue \in Seq(Airplanes)
          /\ Ordered(holdingQueue) /\ Ordered(departQueue)
      BY <1>1 DEF RunwayInv, TypeOK, QueuesOrdered
    <2>2. Ordered(holdingQueue)'
      BY <1>3, <1>4, <2>1, OrderedLater DEF Ordered
    <2>3. Ordered(departQueue)'
      BY <1>3, <1>4, <2>1, OrderedLater DEF Ordered
    <2> QED
      BY <2>2, <2>3 DEF QueuesOrdered
  <1>14. UtilizationAtMostOne'
    <2>1. stats'["RunwayUse"].sum <= now'
      BY <1>4, <1>8, <1>9
    <2>2. stats'["RunwayUse"].sum <= stats'["TotalSimtime"].sum
      BY <1>8, <1>9
    <2> QED
      BY <1>6, <1>8, <2>1, <2>2 DEF UtilizationAtMostOne
  <1> QED
    BY <1>10, <1>11, <1>12, <1>13, <1>14 DEF RunwayPart

\* The strip is free at first, and only an arrival is pending.
LEMMA RunwayInit == Init => RunwayInv
  <1> SUFFICES ASSUME Init PROVE RunwayInv
    OBVIOUS
  <1>1. TypeOK
    BY InitType
  <1>2. PICK a \in InterArrivalTimes :
          fes = {SelfMessage("airspace", a, 0, NewAirplane(1))}
    BY DEF Init, InitAirspace
  <1>3. \A f \in fes : f.self = TRUE /\ f.time = a
    BY <1>2 DEF SelfMessage
  <1>4. a \in Nat
    BY <1>1, DrawsAreNat DEF TypeOK
  <1>5. RunwayEvents = {}
    BY <1>3 DEF RunwayEvents
  <1>6. now = 0 /\ running = TRUE /\ landingStripOccupied = FALSE
        /\ holdingQueue = << >> /\ departQueue = << >>
    BY DEF Init, InitTower, InitAirspace, InitParkingArea
  <1>7. /\ stats["RunwayUse"].sum = 0
        /\ stats["TotalSimtime"].sum = 0 /\ stats["TotalSimtime"].count = 0
    BY SignalNames DEF Init, InitStats
  <1>8. EventsAhead
    BY <1>3, <1>4, <1>6 DEF EventsAhead
  <1>9. RunwayExclusive /\ NoIdleWaiting
    BY <1>5, <1>6 DEF RunwayExclusive, NoIdleWaiting
  <1>10. QueuesOrdered
    BY <1>6 DEF QueuesOrdered, Ordered
  <1>11. NotEndedYet
    BY <1>7 DEF NotEndedYet
  <1>12. UtilizationAtMostOne
    BY <1>5, <1>6, <1>7 DEF UtilizationAtMostOne
  <1> QED
    BY <1>1, <1>8, <1>9, <1>10, <1>11, <1>12 DEF RunwayInv

\* Every step keeps the runway's invariant.
LEMMA RunwayNext == RunwayInv /\ [Next]_vars => RunwayInv'
  <1> SUFFICES ASSUME RunwayInv, [Next]_vars PROVE RunwayInv'
    OBVIOUS
  <1>1. TypeOK'
    BY NextType DEF RunwayInv
  <1>2. CASE UNCHANGED vars
    BY <1>1, <1>2 DEF vars, RunwayInv, EventsAhead, RunwayExclusive,
       RunwayEvents, NoIdleWaiting, QueuesOrdered, Ordered, NotEndedYet,
       UtilizationAtMostOne
  <1>3. CASE Next
    <2>1. PICK e \in fes :
            \/ ArrivalGranted(e) /\ UNCHANGED parkingVars
            \/ ArrivalQueued(e) /\ UNCHANGED parkingVars
            \/ ParkingExpiredGranted(e) /\ UNCHANGED airspaceVars
            \/ ParkingExpiredQueued(e) /\ UNCHANGED airspaceVars
            \/ Landed(e) \/ Departed(e) \/ LastDeparted(e)
      BY <1>3 DEF Next
    <2>2. RunwayPart'
      BY <2>1, ArrivalGrantedRunway, ArrivalQueuedRunway,
         ParkingExpiredGrantedRunway, ParkingExpiredQueuedRunway,
         LandedRunway, DepartedRunway, LastDepartedRunway
    <2> QED
      BY <1>1, <2>2 DEF RunwayPart, RunwayInv
  <1> QED
    BY <1>2, <1>3

\* The inductive invariant of the runway: the tower's flag, the queues and the
\* messages in flight agree on who uses it, and its use is never sampled twice.
THEOREM RunwayInvariant == Spec => []RunwayInv
  BY RunwayInit, RunwayNext, PTL DEF Spec

\* The runway carries one airplane at a time, and the tower's flag is exact.
THEOREM RunwayMutualExclusion == Spec => []RunwayExclusive
  <1>1. RunwayInv => RunwayExclusive
    BY DEF RunwayInv
  <1> QED
    BY <1>1, RunwayInvariant, PTL

\* No airplane waits for a free runway.
THEOREM NoLostHandOver == Spec => []NoIdleWaiting
  <1>1. RunwayInv => NoIdleWaiting
    BY DEF RunwayInv
  <1> QED
    BY <1>1, RunwayInvariant, PTL

\* The front airplane of each queue is its oldest one.
THEOREM FrontIsOldest == Spec => []QueuesOrdered
  <1>1. RunwayInv => QueuesOrdered
    BY DEF RunwayInv
  <1> QED
    BY <1>1, RunwayInvariant, PTL

\* The recorded utilization factor never exceeds 1.
THEOREM UtilizationBounded == Spec => []UtilizationAtMostOne
  <1>1. RunwayInv => UtilizationAtMostOne
    BY DEF RunwayInv
  <1> QED
    BY <1>1, RunwayInvariant, PTL

(***************************************************************************)
(* The selection policy: the oldest airplane of both queues is served.     *)
(***************************************************************************)

\* The front of an ordered queue is its oldest airplane, and the only one
\* that extracting the front can remove.
LEMMA FrontFacts ==
  ASSUME NEW q \in Seq(Airplanes), q # << >>, Ordered(q)
  PROVE  /\ Head(q).queueArrivalTime \in Nat
         /\ \A p \in Queued(q) : /\ p.queueArrivalTime \in Nat
                                 /\ Head(q).queueArrivalTime <= p.queueArrivalTime
         /\ \A p \in Queued(q) \ Queued(Tail(q)) : p = Head(q)
  <1>1. /\ Head(q) \in Airplanes /\ Head(q) = q[1]
        /\ Len(q) \in Nat /\ Len(Tail(q)) = Len(q) - 1
        /\ \A i \in 1..Len(Tail(q)) : Tail(q)[i] = q[i + 1]
    BY PopFacts
  <1>2. 1 \in 1..Len(q)
    BY <1>1
  <1>3. ASSUME NEW p \in Queued(q)
        PROVE  /\ p.queueArrivalTime \in Nat
               /\ Head(q).queueArrivalTime <= p.queueArrivalTime
    <2>1. PICK i \in 1..Len(q) : p = q[i]
      BY <1>3 DEF Queued
    <2>2. p \in Airplanes
      BY <2>1
    <2>3. q[1].queueArrivalTime <= q[i].queueArrivalTime
      BY <1>2 DEF Ordered
    <2> QED
      BY <1>1, <2>1, <2>2, <2>3 DEF Airplanes
  <1>4. ASSUME NEW p \in Queued(q), p \notin Queued(Tail(q))
        PROVE  p = Head(q)
    <2>1. PICK i \in 1..Len(q) : p = q[i]
      BY <1>4 DEF Queued
    <2>2. ASSUME i # 1 PROVE FALSE
      <3>1. i - 1 \in 1..Len(Tail(q)) /\ (i - 1) + 1 = i
        BY <1>1, <2>2
      <3>2. Tail(q)[i - 1] = q[i]
        BY <1>1, <3>1
      <3>3. p \in Queued(Tail(q))
        BY <2>1, <3>1, <3>2 DEF Queued
      <3> QED
        BY <1>4, <3>3
    <2> QED
      BY <1>1, <2>1, <2>2
  <1>5. Head(q).queueArrivalTime \in Nat
    BY <1>1 DEF Airplanes
  <1> QED
    BY <1>3, <1>4, <1>5

\* No airplane leaves a queue that is kept or appended to.
LEMMA AppendKeeps ==
  ASSUME NEW q \in Seq(Airplanes), NEW p \in Airplanes
  PROVE  Queued(q) \subseteq Queued(Append(q, p))
  <1> DEFINE r == Append(q, p)
  <1>1. Len(r) = Len(q) + 1 /\ Len(q) \in Nat
        /\ \A i \in 1..Len(q) : r[i] = q[i]
    OBVIOUS
  <1>2. \A i \in 1..Len(q) : i \in 1..Len(r)
    BY <1>1
  <1> HIDE DEF r
  <1>3. Queued(q) \subseteq Queued(r)
    BY <1>1, <1>2 DEF Queued
  <1> QED
    BY <1>3 DEF r

\* completed() serves the airplane that has waited longest.
LEMMA CompletedServesOldest ==
  ASSUME TypeOK, QueuesOrdered, NEW t, NEW kept, NEW st,
         completed(t, kept, st)
  PROVE  ServesOldest
  <1>1. /\ holdingQueue \in Seq(Airplanes) /\ departQueue \in Seq(Airplanes)
        /\ Ordered(holdingQueue) /\ Ordered(departQueue)
    BY DEF TypeOK, QueuesOrdered
  <1>2. holdingQueue = << >> => Queued(holdingQueue) = {}
    BY DEF Queued
  <1>3. departQueue = << >> => Queued(departQueue) = {}
    BY DEF Queued
  <1>4. CASE FreeStrip(kept, st)
    BY <1>4 DEF FreeStrip, ServesOldest
  <1>5. CASE HandOverToLanding(t, kept, st)
    <2>1. /\ Selected = "airspace"
          /\ holdingQueue' = Tail(holdingQueue) /\ departQueue' = departQueue
          /\ holdingQueue # << >>
      BY <1>5, SelectedFacts DEF HandOverToLanding, AirspaceGo
    <2> DEFINE h == Head(holdingQueue).queueArrivalTime
    <2>2. /\ h \in Nat
          /\ \A q \in Queued(holdingQueue) : h <= q.queueArrivalTime
          /\ \A p \in Queued(holdingQueue) \ Queued(holdingQueue') :
               p = Head(holdingQueue)
      BY <1>1, <2>1, FrontFacts
    <2>3. \A q \in Queued(departQueue) : h <= q.queueArrivalTime
      <3>1. CASE departQueue = << >>
        BY <1>3, <3>1
      <3>2. CASE departQueue # << >>
        <4> DEFINE d == Head(departQueue).queueArrivalTime
        <4>1. /\ d \in Nat
              /\ \A q \in Queued(departQueue) :
                   q.queueArrivalTime \in Nat /\ d <= q.queueArrivalTime
          BY <1>1, <3>2, FrontFacts
        <4>2. h <= d
          BY <2>1, <2>2, <3>2, <4>1 DEF Selected, NextToMove,
             AirspaceMaxQueueTime, ParkingAreaMaxQueueTime
        <4> HIDE DEF d, h
        <4> QED
          BY <2>2, <4>1, <4>2
      <3> QED
        BY <3>1, <3>2
    <2> QED
      BY <2>1, <2>2, <2>3 DEF ServesOldest
  <1>6. CASE HandOverToTakeoff(t, kept, st)
    <2>1. /\ Selected = "parkingarea"
          /\ departQueue' = Tail(departQueue) /\ holdingQueue' = holdingQueue
          /\ departQueue # << >>
      BY <1>6, SelectedFacts DEF HandOverToTakeoff, ParkingAreaGo
    <2> DEFINE d == Head(departQueue).queueArrivalTime
    <2>2. /\ d \in Nat
          /\ \A q \in Queued(departQueue) : d <= q.queueArrivalTime
          /\ \A p \in Queued(departQueue) \ Queued(departQueue') :
               p = Head(departQueue)
      BY <1>1, <2>1, FrontFacts
    <2>3. \A q \in Queued(holdingQueue) : d < q.queueArrivalTime
      <3>1. CASE holdingQueue = << >>
        BY <1>2, <3>1
      <3>2. CASE holdingQueue # << >>
        <4> DEFINE h == Head(holdingQueue).queueArrivalTime
        <4>1. /\ h \in Nat
              /\ \A q \in Queued(holdingQueue) :
                   q.queueArrivalTime \in Nat /\ h <= q.queueArrivalTime
          BY <1>1, <3>2, FrontFacts
        <4>2. d < h
          BY <2>1, <2>2, <3>2, <4>1 DEF Selected, NextToMove,
             AirspaceMaxQueueTime, ParkingAreaMaxQueueTime
        <4> HIDE DEF d, h
        <4> QED
          BY <2>2, <4>1, <4>2
      <3> QED
        BY <3>1, <3>2
    <2> QED
      BY <2>1, <2>2, <2>3 DEF ServesOldest
  <1> QED
    BY <1>4, <1>5, <1>6 DEF completed

\* So every step does that serves a queue.
LEMMA NextServesOldest ==
  ASSUME RunwayInv, Next
  PROVE  ServesOldest
  <1>1. TypeOK /\ QueuesOrdered
    BY DEF RunwayInv
  <1>2. holdingQueue \in Seq(Airplanes) /\ departQueue \in Seq(Airplanes)
    BY <1>1 DEF TypeOK
  <1>3. PICK e \in fes :
          \/ ArrivalGranted(e) /\ UNCHANGED parkingVars
          \/ ArrivalQueued(e) /\ UNCHANGED parkingVars
          \/ ParkingExpiredGranted(e) /\ UNCHANGED airspaceVars
          \/ ParkingExpiredQueued(e) /\ UNCHANGED airspaceVars
          \/ Landed(e) \/ Departed(e) \/ LastDeparted(e)
    BY DEF Next
  <1>4. e \in Events /\ e.time \in Nat /\ e.plane \in Airplanes
    BY <1>1 DEF TypeOK, Events
  <1>5. CASE ArrivalGranted(e) /\ UNCHANGED parkingVars
    BY <1>5 DEF ArrivalGranted, parkingVars, ServesOldest
  <1>6. CASE ArrivalQueued(e) /\ UNCHANGED parkingVars
    <2> DEFINE p == [Stamped(e) EXCEPT !.queueArrivalTime = e.time]
    <2>1. /\ holdingQueue' = Append(holdingQueue, p)
          /\ departQueue' = departQueue
      BY <1>6 DEF ArrivalQueued, parkingVars
    <2>2. Stamped(e) \in Airplanes
      BY <1>4 DEF Stamped, Airplanes
    <2>3. p \in Airplanes
      BY <1>4, <2>2 DEF Airplanes
    <2> HIDE DEF p
    <2>4. Queued(holdingQueue) \subseteq Queued(holdingQueue')
      BY <1>2, <2>1, <2>3, AppendKeeps
    <2> QED
      BY <2>1, <2>4 DEF ServesOldest
  <1>7. CASE ParkingExpiredGranted(e) /\ UNCHANGED airspaceVars
    BY <1>7 DEF ParkingExpiredGranted, airspaceVars, ServesOldest
  <1>8. CASE ParkingExpiredQueued(e) /\ UNCHANGED airspaceVars
    <2> DEFINE p == [e.plane EXCEPT !.queueArrivalTime = e.time]
    <2>1. /\ departQueue' = Append(departQueue, p)
          /\ holdingQueue' = holdingQueue
      BY <1>8 DEF ParkingExpiredQueued, airspaceVars
    <2>2. p \in Airplanes
      BY <1>4 DEF Airplanes
    <2> HIDE DEF p
    <2>3. Queued(departQueue) \subseteq Queued(departQueue')
      BY <1>2, <2>1, <2>2, AppendKeeps
    <2> QED
      BY <2>1, <2>3 DEF ServesOldest
  <1>9. CASE Landed(e)
    BY <1>1, <1>9, CompletedServesOldest DEF Landed
  <1>10. CASE Departed(e)
    BY <1>1, <1>10, CompletedServesOldest DEF Departed
  <1>11. CASE LastDeparted(e)
    BY <1>11 DEF LastDeparted, ServesOldest
  <1> QED
    BY <1>3, <1>5, <1>6, <1>7, <1>8, <1>9, <1>10, <1>11

\* In every step that serves a waiting airplane, it is the one with the
\* largest waiting time in either queue, a landing one on a tie.
THEOREM OldestServedFirst == Spec => ServesOldestProperty
  <1>1. RunwayInv /\ [Next]_vars => [ServesOldest]_vars
    BY NextServesOldest
  <1> QED
    BY <1>1, RunwayInvariant, PTL DEF Spec, ServesOldestProperty
=============================================================================
