------------------------- MODULE AirportTimes_proofs -------------------------
(***************************************************************************)
(* The times airplanes spend, for every set of configurations, every set   *)
(* of draws and every number of airplanes.  First light traffic: in every  *)
(* constant-time configuration in which take-offs take time and an         *)
(* airplane is gone when the next one arrives, no airplane waits.  Then    *)
(* the accounting: the response times and the ages of the airplanes in the *)
(* system are the times spent in the two queues, on the runway and parked. *)
(***************************************************************************)
EXTENDS AirportTimes, AirportCounts_proofs, FiniteSums_proofs

\* Constant times with at most one airplane's stay per arrival.
Light == AllConstant /\ par.interArrivalTime >= Stay /\ par.takeoffTime > 0

\* In light traffic every draw has one outcome.
LEMMA LightTimes ==
  ASSUME TypeOK, Light
  PROVE  /\ par.interArrivalTime \in Nat /\ par.landingTime \in Nat
         /\ par.parkingTime \in Nat /\ par.takeoffTime \in Nat
         /\ par.takeoffTime > 0
         /\ Stay = par.landingTime + par.parkingTime + par.takeoffTime
         /\ Stay \in Nat /\ Stay <= par.interArrivalTime
         /\ InterArrivalTimes = {par.interArrivalTime}
         /\ LandingTimes = {par.landingTime}
         /\ ParkingTimes = {par.parkingTime}
         /\ TakeoffTimes = {par.takeoffTime}
  <1>1. /\ par.interArrivalTime \in Nat /\ par.landingTime \in Nat
        /\ par.parkingTime \in Nat /\ par.takeoffTime \in Nat
    BY ConfigsAssumption DEF TypeOK, Parameters
  <1>2. /\ InterArrivalTimes = {par.interArrivalTime}
        /\ LandingTimes = {par.landingTime}
        /\ ParkingTimes = {par.parkingTime}
        /\ TakeoffTimes = {par.takeoffTime}
    BY DEF Light, AllConstant, InterArrivalTimes, LandingTimes, ParkingTimes,
       TakeoffTimes, Draw
  <1> QED
    BY <1>1, <1>2 DEF Light, Stay

(***************************************************************************)
(* The sums of the samples, for recorders in any state st.                 *)
(***************************************************************************)
Waitless(st) ==
  /\ st["HoldingQueueWaitingTime"].sum = 0
  /\ st["DepartQueueWaitingTime"].sum = 0
  /\ st["DepartQueueSize"].sum = 0
  /\ par.interArrivalTime > Stay => st["HoldingQueueSize"].sum = 0

\* A sample of 0, or of another signal, changes no sum of these.
LEMMA EmitWaitless ==
  ASSUME NEW st \in StatsType, Waitless(st), NEW s \in Signals, NEW v \in Int,
         \/ v = 0
         \/ s \in {"ParkedPlanes", "AirportResponseTime", "RunwayUse",
                   "TotalSimtime"}
         \/ s = "HoldingQueueSize" /\ ~ (par.interArrivalTime > Stay)
  PROVE  Emit(st, s, v) \in StatsType /\ Waitless(Emit(st, s, v))
  <1>1. /\ Emit(st, s, v) \in StatsType
        /\ Emit(st, s, v)[s].sum = st[s].sum + v
        /\ \A r \in Signals \ {s} : Emit(st, s, v)[r] = st[r]
    BY EmitFacts
  <1>2. \A r \in Signals : st[r].sum \in Int
    BY DEF StatsType
  <1> DEFINE w == Emit(st, s, v)
  <1>3. ASSUME NEW r \in Signals, r # s \/ v = 0
        PROVE  w[r].sum = st[r].sum
    BY <1>1, <1>2, <1>3
  <1> HIDE DEF w
  <1>4. Waitless(w)
    BY <1>3, SignalNames DEF Waitless
  <1> QED
    BY <1>1, <1>4 DEF w

(***************************************************************************)
(* The situations of the invariant, while the simulation runs.             *)
(***************************************************************************)
Lone ==
  \E A \in ArrivalEvents :
    \/ Alone(A)
    \/ \E m \in fes \ ArrivalEvents : OneInSystem(A, m) \/ BeingFollowed(A, m)

\* The clock and the parameters in a step, and what the kernel compared.
LEMMA DeliverLight ==
  ASSUME RunwayInv, NEW e \in fes, NEW m, NEW self, Deliver(e, m, self)
  PROVE  /\ e.time \in Nat /\ now \in Nat /\ now <= e.time
         /\ now' = e.time /\ par' = par /\ e.to = m /\ e.self = self
         /\ running /\ TypeOK
         /\ \A f \in fes : f # e => e.time <= f.time
         /\ \A f \in fes : f.time \in Nat /\ f.self \in BOOLEAN
                             /\ f.to \in Modules
         /\ landingStripOccupied <=> \E f \in fes : ~f.self
  <1>1. TypeOK /\ running /\ now \in Nat /\ fes \subseteq Events
    BY DEF RunwayInv, TypeOK, Deliver
  <1>2. \A f \in fes : f.time \in Nat /\ f.self \in BOOLEAN /\ f.to \in Modules
    BY <1>1 DEF Events
  <1>3. /\ now <= e.time /\ now' = e.time /\ par' = par
        /\ e.to = m /\ e.self = self
    BY DEF Deliver, RunwayInv, EventsAhead
  <1>4. \A f \in fes : f # e => e.time <= f.time
    BY <1>2 DEF Deliver, IsNext, Precedes
  <1>5. landingStripOccupied <=> \E f \in fes : ~f.self
    BY <1>1 DEF RunwayInv, RunwayExclusive, RunwayEvents
  <1> QED
    BY <1>1, <1>2, <1>3, <1>4, <1>5

\* The arithmetic of the situations: a, stay and t are the times of Light, x
\* and y those of the events, g what is still to come after x.
LEMMA EarlierEvent ==
  ASSUME NEW a \in Nat, NEW stay \in Nat, stay <= a, NEW x \in Nat,
         NEW y \in Nat, NEW g \in Nat, x + g + (a - stay) <= y
  PROVE  /\ y <= x => g = 0 /\ a = stay /\ x = y
         /\ x <= y
  OBVIOUS

\* What an airplane under way has still to go.
LEMMA ToGoFacts ==
  ASSUME TypeOK, Light, NEW m \in fes \ ArrivalEvents
  PROVE  /\ ToGo(m) \in Nat
         /\ ToGo(m) = 0 => ~m.self /\ m.to = "airspace"
         /\ m.self => m.to = "parkingarea" /\ ToGo(m) = par.takeoffTime
         /\ ~m.self /\ m.to = "parkingarea" =>
              ToGo(m) = par.parkingTime + par.takeoffTime
         /\ ~m.self /\ m.to = "airspace" => ToGo(m) = 0
  <1>1. m \in Events /\ m.to \in Modules /\ m.self \in BOOLEAN
    BY DEF TypeOK, Events
  <1> QED
    BY <1>1, LightTimes DEF ToGo, ArrivalEvents, Modules

\* Two of the three situations after a step, by the events it leaves.
LEMMA LoneWithOne ==
  ASSUME par' = par, NEW B, NEW m, fes' = {B, m},
         B.self, B.to = "airspace", ~ (m.self /\ m.to = "airspace"),
         holdingQueue' = << >>, departQueue' = << >>,
         m.time + ToGo(m) + (par.interArrivalTime - Stay) <= B.time
  PROVE  Lone'
  <1>1. ToGo(m)' = ToGo(m) /\ Stay' = Stay
    BY DEF ToGo, Stay
  <1>2. OneInSystem(B, m)'
    BY <1>1 DEF OneInSystem
  <1>3. B \in ArrivalEvents' /\ m \in (fes \ ArrivalEvents)'
    BY DEF ArrivalEvents
  <1> QED
    BY <1>2, <1>3 DEF Lone

\* With nothing but the next arrival pending nobody waits.
LEMMA LoneAlone ==
  ASSUME NEW B, fes' = {B}, B.self, B.to = "airspace",
         holdingQueue' = << >>, departQueue' = << >>
  PROVE  Lone'
  <1>1. Alone(B)' /\ B \in ArrivalEvents'
    BY DEF Alone, ArrivalEvents
  <1> QED
    BY <1>1 DEF Lone

(***************************************************************************)
(* One lemma per handler: the situation it leads to and its samples.       *)
(***************************************************************************)
LEMMA ArrivalGrantedLone ==
  ASSUME RunwayInv, Light, Lone, Waitless(stats), NEW e \in fes,
         ArrivalGranted(e), UNCHANGED parkingVars
  PROVE  Lone' /\ Waitless(stats')
  <1> DEFINE t == e.time
             a == par.interArrivalTime
             l == par.landingTime
  <1>1. Deliver(e, "airspace", TRUE)
    BY DEF ArrivalGranted, Arrival
  <1>2. /\ t \in Nat /\ now' = t /\ par' = par /\ TypeOK
        /\ e.to = "airspace" /\ e.self = TRUE
        /\ \A f \in fes : f # e => t <= f.time
        /\ \A f \in fes : f.time \in Nat
        /\ landingStripOccupied <=> \E f \in fes : ~f.self
    BY <1>1, DeliverLight
  <1>3. \A f \in fes : f.self
    BY <1>2 DEF ArrivalGranted, notify
  <1>4. e \in ArrivalEvents
    BY <1>2 DEF ArrivalEvents
  <1>5. Alone(e)
    <2>1. PICK A \in ArrivalEvents :
            \/ Alone(A)
            \/ \E m \in fes \ ArrivalEvents :
                 OneInSystem(A, m) \/ BeingFollowed(A, m)
      BY DEF Lone
    <2>2. CASE Alone(A)
      BY <2>2 DEF Alone
    <2>3. ASSUME NEW m \in fes \ ArrivalEvents,
                 OneInSystem(A, m) \/ BeingFollowed(A, m)
          PROVE  FALSE
      <3>1. OneInSystem(A, m) /\ m.self
        BY <1>3, <2>3 DEF BeingFollowed
      <3>2. e = A
        BY <1>4, <3>1 DEF OneInSystem
      <3>3. ToGo(m) \in Nat /\ ToGo(m) # 0
        BY <1>2, <3>1, ToGoFacts
      <3>4. /\ m.time \in Nat /\ t <= m.time
            /\ a \in Nat /\ Stay \in Nat /\ Stay <= a
        BY <1>2, <1>4, <3>2, LightTimes
      <3>5. m.time + ToGo(m) + (a - Stay) <= t
        BY <3>1, <3>2 DEF OneInSystem
      <3> QED
        BY <1>2, <3>3, <3>4, <3>5, EarlierEvent
    <2> QED
      BY <2>1, <2>2, <2>3
  <1>6. PICK na \in InterArrivalTimes, d \in LandingTimes :
          /\ fes' = ((fes \ {e}) \cup {NextArrival(t, na)})
                       \cup {Message("parkingarea", t + d, seq, Stamped(e))}
          /\ stats' = Emit(Emit(Emit(stats, "HoldingQueueSize", 0),
                                "HoldingQueueWaitingTime", 0), "RunwayUse", d)
    BY DEF ArrivalGranted, StartLanding
  <1> DEFINE B == NextArrival(t, na)
             m == Message("parkingarea", t + d, seq, Stamped(e))
  <1>7. na = a /\ d = l /\ a \in Nat /\ l \in Nat
    BY <1>2, LightTimes
  <1>8. fes' = {B, m}
    BY <1>5, <1>6 DEF Alone
  <1>9. /\ B.time = t + a /\ B.self /\ B.to = "airspace"
        /\ m.time = t + l /\ ~m.self /\ m.to = "parkingarea"
    BY <1>7 DEF NextArrival, SelfMessage, Message
  <1> HIDE DEF B, m
  <1>10. ToGo(m) = par.parkingTime + par.takeoffTime
    BY <1>9 DEF ToGo
  <1>11. m.time + (par.parkingTime + par.takeoffTime) + (a - Stay) <= B.time
    BY <1>2, <1>9, LightTimes
  <1>12. holdingQueue' = << >> /\ departQueue' = << >>
    BY <1>5 DEF Alone, ArrivalGranted, parkingVars
  <1>13. Lone'
    BY <1>2, <1>8, <1>9, <1>10, <1>11, <1>12, LoneWithOne
  <1>14. Waitless(stats')
    <2>1. stats \in StatsType
      BY <1>2 DEF TypeOK
    <2>2. /\ Emit(stats, "HoldingQueueSize", 0) \in StatsType
          /\ Waitless(Emit(stats, "HoldingQueueSize", 0))
      BY <2>1, SignalNames, EmitWaitless
    <2>3. /\ Emit(Emit(stats, "HoldingQueueSize", 0),
                  "HoldingQueueWaitingTime", 0) \in StatsType
          /\ Waitless(Emit(Emit(stats, "HoldingQueueSize", 0),
                           "HoldingQueueWaitingTime", 0))
      BY <2>2, SignalNames, EmitWaitless
    <2> QED
      BY <1>6, <1>7, <2>3, SignalNames, EmitWaitless
  <1> QED
    BY <1>13, <1>14

\* The boundary case: an arrival in the instant of a departure.
LEMMA LoneFollowed ==
  ASSUME par' = par, NEW B, NEW m, fes' = {B, m},
         B.self, B.to = "airspace", ~m.self, m.to = "airspace",
         Len(holdingQueue') = 1, departQueue' = << >>,
         par.interArrivalTime = Stay, m.time = now',
         Head(holdingQueue').queueArrivalTime = now',
         now' + par.interArrivalTime <= B.time
  PROVE  Lone'
  <1>1. Stay' = Stay
    BY DEF Stay
  <1>2. BeingFollowed(B, m)'
    BY <1>1 DEF BeingFollowed
  <1>3. B \in ArrivalEvents' /\ m \in (fes \ ArrivalEvents)'
    BY DEF ArrivalEvents
  <1> QED
    BY <1>2, <1>3 DEF Lone

\* An arrival is queued only in the instant of a departure.
LEMMA ArrivalQueuedLone ==
  ASSUME RunwayInv, Light, Lone, Waitless(stats), NEW e \in fes,
         ArrivalQueued(e), UNCHANGED parkingVars
  PROVE  Lone' /\ Waitless(stats')
  <1> DEFINE t == e.time
             a == par.interArrivalTime
  <1>1. Deliver(e, "airspace", TRUE)
    BY DEF ArrivalQueued, Arrival
  <1>2. /\ t \in Nat /\ now' = t /\ par' = par /\ TypeOK
        /\ e.to = "airspace" /\ e.self = TRUE
        /\ \A f \in fes : f # e => t <= f.time
        /\ \A f \in fes : f.time \in Nat
        /\ landingStripOccupied <=> \E f \in fes : ~f.self
        /\ now \in Nat /\ now <= t
    BY <1>1, DeliverLight
  <1>3. PICK f \in fes : ~f.self
    BY <1>2 DEF ArrivalQueued, notify, TypeOK
  <1>4. e \in ArrivalEvents
    BY <1>2 DEF ArrivalEvents
  <1>5. /\ a \in Nat /\ a > 0 /\ Stay \in Nat /\ Stay <= a
    BY <1>2, LightTimes
  <1>6. PICK A \in ArrivalEvents :
            \/ Alone(A)
            \/ \E m \in fes \ ArrivalEvents :
                 OneInSystem(A, m) \/ BeingFollowed(A, m)
    BY DEF Lone
  <1>7. PICK m \in fes \ ArrivalEvents : OneInSystem(A, m) \/ BeingFollowed(A, m)
    BY <1>3, <1>6 DEF Alone, ArrivalEvents
  <1>8. fes = {e, m} /\ A = e
    BY <1>4, <1>7 DEF OneInSystem, BeingFollowed
  <1>9. ~m.self /\ m.time \in Nat /\ t <= m.time
    BY <1>2, <1>3, <1>4, <1>8
  <1>10. OneInSystem(e, m)
    <2>1. ~BeingFollowed(e, m)
      <3> SUFFICES ASSUME BeingFollowed(e, m) PROVE FALSE
        OBVIOUS
      <3>1. m.time = now /\ now + a <= t
        BY DEF BeingFollowed
      <3> HIDE DEF a, t
      <3> QED
        BY <1>2, <1>5, <1>9, <3>1
    <2> QED
      BY <1>7, <1>8, <2>1
  <1>11. ToGo(m) = 0 /\ a = Stay /\ m.time = t
    <2>1. m.time + ToGo(m) + (a - Stay) <= t /\ ToGo(m) \in Nat
      BY <1>2, <1>10, ToGoFacts DEF OneInSystem
    <2> QED
      BY <1>2, <1>5, <1>9, <2>1, EarlierEvent
  <1>12. m.to = "airspace"
    BY <1>2, <1>11, ToGoFacts
  <1>13. PICK na \in InterArrivalTimes :
           fes' = (fes \ {e}) \cup {NextArrival(t, na)}
    BY DEF ArrivalQueued
  <1> DEFINE B == NextArrival(t, na)
  <1>14. na = a
    BY <1>2, LightTimes
  <1>15. B.time = t + a /\ B.self /\ B.to = "airspace"
    BY <1>14 DEF NextArrival, SelfMessage
  <1>16. fes' = {B, m}
    BY <1>4, <1>8, <1>13
  <1> HIDE DEF B
  <1>17. /\ Len(holdingQueue') = 1 /\ departQueue' = << >>
         /\ Head(holdingQueue').queueArrivalTime = t
    <2> DEFINE q == [Stamped(e) EXCEPT !.queueArrivalTime = t]
    <2>1. holdingQueue' = Append(<< >>, q)
      BY <1>10 DEF OneInSystem, ArrivalQueued
    <2>2. q.queueArrivalTime = t
      BY <1>2, DeliverType, <1>1 DEF Stamped, Airplanes
    <2> HIDE DEF q
    <2>3. Len(Append(<< >>, q)) = 1 /\ Head(Append(<< >>, q)) = q
      OBVIOUS
    <2> QED
      BY <1>10, <2>1, <2>2, <2>3 DEF OneInSystem, parkingVars
  <1>18. now' + a <= B.time
    BY <1>2, <1>5, <1>15
  <1>19. Lone'
    BY <1>2, <1>9, <1>11, <1>12, <1>15, <1>16, <1>17, <1>18, LoneFollowed
  <1>20. Waitless(stats')
    <2>1. stats \in StatsType /\ Len(holdingQueue) + 1 \in Int
      BY <1>2 DEF TypeOK
    <2>2. stats' = Emit(stats, "HoldingQueueSize", Len(holdingQueue) + 1)
      BY DEF ArrivalQueued
    <2>3. ~ (par.interArrivalTime > Stay)
      BY <1>5, <1>11
    <2> QED
      BY <2>1, <2>2, <2>3, SignalNames, EmitWaitless
  <1> QED
    BY <1>19, <1>20

\* The event of an airplane in the system determines the situation.
LEMMA LoneEvent ==
  ASSUME RunwayInv, Lone, NEW e \in fes, e \notin ArrivalEvents
  PROVE  \E A \in ArrivalEvents :
           /\ fes = {A, e} /\ A # e
           /\ OneInSystem(A, e) \/ BeingFollowed(A, e)
  <1>1. PICK A \in ArrivalEvents :
            \/ Alone(A)
            \/ \E m \in fes \ ArrivalEvents :
                 OneInSystem(A, m) \/ BeingFollowed(A, m)
    BY DEF Lone
  <1>2. PICK m \in fes \ ArrivalEvents : OneInSystem(A, m) \/ BeingFollowed(A, m)
    BY <1>1 DEF Alone
  <1>3. fes = {A, m}
    BY <1>2 DEF OneInSystem, BeingFollowed
  <1>4. m = e
    BY <1>1, <1>3
  <1> QED
    BY <1>1, <1>2, <1>3, <1>4

\* A lone airplane is granted its take-off at once.
LEMMA ParkingExpiredLone ==
  ASSUME RunwayInv, Light, Lone, Waitless(stats), NEW e \in fes,
         ParkingExpiredGranted(e) \/ ParkingExpiredQueued(e),
         UNCHANGED airspaceVars
  PROVE  Lone' /\ Waitless(stats')
  <1> DEFINE t == e.time
             a == par.interArrivalTime
             u == par.takeoffTime
  <1>1. Deliver(e, "parkingarea", TRUE)
    BY DEF ParkingExpiredGranted, ParkingExpiredQueued, ParkingExpired
  <1>2. /\ t \in Nat /\ now' = t /\ par' = par /\ TypeOK
        /\ e.to = "parkingarea" /\ e.self = TRUE
        /\ landingStripOccupied <=> \E f \in fes : ~f.self
        /\ \A f \in fes : f.time \in Nat
    BY <1>1, DeliverLight
  <1>3. e \notin ArrivalEvents
    BY <1>2 DEF ArrivalEvents
  <1>4. PICK A \in ArrivalEvents :
          /\ fes = {A, e} /\ A # e
          /\ OneInSystem(A, e) \/ BeingFollowed(A, e)
    BY <1>3, LoneEvent
  <1>5. A.self /\ A.to = "airspace" /\ OneInSystem(A, e)
    BY <1>2, <1>4 DEF ArrivalEvents, BeingFollowed
  <1>6. ~landingStripOccupied
    BY <1>2, <1>4, <1>5
  <1>7. ParkingExpiredGranted(e)
    BY <1>6 DEF ParkingExpiredQueued, notify
  <1> DEFINE st == Emit(Emit(Unparked, "DepartQueueSize", 0),
                        "DepartQueueWaitingTime", 0)
  <1>8. PICK d \in TakeoffTimes :
          /\ fes' = (fes \ {e}) \cup {Message("airspace", t + d, seq, e.plane)}
          /\ stats' = Emit(st, "RunwayUse", d)
    BY <1>7 DEF ParkingExpiredGranted, StartTakeoff
  <1>9. d = u /\ u \in Nat
    BY <1>2, LightTimes
  <1> DEFINE m == Message("airspace", t + d, seq, e.plane)
  <1>10. m.time = t + u /\ ~m.self /\ m.to = "airspace"
    BY <1>9 DEF Message
  <1>11. fes' = {A, m}
    BY <1>4, <1>8
  <1> HIDE DEF m
  <1>12. ToGo(m) = 0
    BY <1>10 DEF ToGo
  <1>13. m.time + 0 + (a - Stay) <= A.time
    <2>1. t + u + (a - Stay) <= A.time
      <3>1. ToGo(e) = u
        BY <1>2, <1>3, ToGoFacts
      <3> QED
        BY <1>5, <3>1 DEF OneInSystem
    <2>2. A.time \in Nat /\ a \in Nat /\ Stay \in Nat
      BY <1>2, <1>4, LightTimes
    <2> HIDE DEF t, u, a
    <2> QED
      BY <1>2, <1>9, <1>10, <2>1, <2>2
  <1>14. holdingQueue' = << >> /\ departQueue' = << >>
    BY <1>5, <1>7 DEF OneInSystem, ParkingExpiredGranted, airspaceVars
  <1>15. Lone'
    BY <1>2, <1>5, <1>10, <1>11, <1>12, <1>13, <1>14, LoneWithOne
  <1>16. Waitless(stats')
    <2>1. stats \in StatsType /\ numParked - 1 \in Int
      BY <1>2 DEF TypeOK
    <2>2. Unparked \in StatsType /\ Waitless(Unparked)
      BY <2>1, SignalNames, EmitWaitless DEF Unparked
    <2>3. /\ Emit(Unparked, "DepartQueueSize", 0) \in StatsType
          /\ Waitless(Emit(Unparked, "DepartQueueSize", 0))
      BY <2>2, SignalNames, EmitWaitless
    <2>4. st \in StatsType /\ Waitless(st)
      BY <2>3, SignalNames, EmitWaitless
    <2> HIDE DEF st
    <2> QED
      BY <1>8, <1>9, <2>4, SignalNames, EmitWaitless
  <1> QED
    BY <1>15, <1>16

\* completed() with nobody waiting frees the strip.
LEMMA CompletedFrees ==
  ASSUME TypeOK, NEW t, NEW kept, NEW st, completed(t, kept, st),
         holdingQueue = << >>, departQueue = << >>
  PROVE  /\ fes' = kept /\ stats' = st
         /\ holdingQueue' = << >> /\ departQueue' = << >>
  <1>1. FreeStrip(kept, st)
    BY SelectedFacts DEF completed, HandOverToLanding, HandOverToTakeoff
  <1> QED
    BY <1>1 DEF FreeStrip

\* A lone airplane lands, and nobody waits for the strip.
LEMMA LandedLone ==
  ASSUME RunwayInv, Light, Lone, Waitless(stats), NEW e \in fes, Landed(e)
  PROVE  Lone' /\ Waitless(stats')
  <1> DEFINE t == e.time
             a == par.interArrivalTime
             u == par.takeoffTime
             pt == par.parkingTime
  <1>1. Deliver(e, "parkingarea", FALSE)
    BY DEF Landed
  <1>2. /\ t \in Nat /\ now' = t /\ par' = par /\ TypeOK
        /\ e.to = "parkingarea" /\ e.self = FALSE
        /\ \A f \in fes : f.time \in Nat
    BY <1>1, DeliverLight
  <1>3. e \notin ArrivalEvents
    BY <1>2 DEF ArrivalEvents
  <1>4. PICK A \in ArrivalEvents :
          /\ fes = {A, e} /\ A # e
          /\ OneInSystem(A, e) \/ BeingFollowed(A, e)
    BY <1>3, LoneEvent
  <1>5. A.self /\ A.to = "airspace" /\ OneInSystem(A, e)
    BY <1>2, <1>4 DEF ArrivalEvents, BeingFollowed
  <1>6. PICK d \in ParkingTimes :
          completed(t, (fes \ {e}) \cup
                         {SelfMessage("parkingarea", t + d, seq, e.plane)},
                    Emit(stats, "ParkedPlanes", numParked + 1))
    BY DEF Landed
  <1> DEFINE m == SelfMessage("parkingarea", t + d, seq, e.plane)
  <1>7. /\ fes' = (fes \ {e}) \cup {m}
        /\ stats' = Emit(stats, "ParkedPlanes", numParked + 1)
        /\ holdingQueue' = << >> /\ departQueue' = << >>
    BY <1>2, <1>5, <1>6, CompletedFrees DEF OneInSystem
  <1>8. d = pt /\ pt \in Nat /\ u \in Nat
    BY <1>2, LightTimes
  <1>9. m.time = t + pt /\ m.self /\ m.to = "parkingarea"
    BY <1>8 DEF SelfMessage
  <1>10. fes' = {A, m}
    BY <1>4, <1>7
  <1> HIDE DEF m
  <1>11. ToGo(m) = u
    BY <1>9 DEF ToGo
  <1>12. m.time + u + (a - Stay) <= A.time
    <2>1. t + (pt + u) + (a - Stay) <= A.time
      <3>1. ToGo(e) = pt + u
        BY <1>2, <1>3, ToGoFacts
      <3> QED
        BY <1>5, <3>1 DEF OneInSystem
    <2>2. A.time \in Nat /\ a \in Nat /\ Stay \in Nat
      BY <1>2, <1>4, LightTimes
    <2> HIDE DEF t, u, a, pt
    <2> QED
      BY <1>2, <1>8, <1>9, <2>1, <2>2
  <1>13. Lone'
    BY <1>2, <1>5, <1>7, <1>9, <1>10, <1>11, <1>12, LoneWithOne
  <1>14. Waitless(stats')
    <2>1. stats \in StatsType /\ numParked + 1 \in Int
      BY <1>2 DEF TypeOK
    <2> QED
      BY <1>7, <2>1, SignalNames, EmitWaitless
  <1> QED
    BY <1>13, <1>14

\* What a take-off that ends says of the situation, and its sample.
LEMMA TakenOffLone ==
  ASSUME RunwayInv, Light, Lone, Waitless(stats), NEW e \in fes, TakenOff(e)
  PROVE  /\ e.time \in Nat /\ now' = e.time /\ par' = par /\ TypeOK
         /\ now \in Nat /\ now <= e.time
         /\ Responded(e) \in StatsType /\ Waitless(Responded(e))
         /\ \E A \in ArrivalEvents :
              /\ fes \ {e} = {A} /\ A.self /\ A.to = "airspace"
              /\ A.time \in Nat
              /\ OneInSystem(A, e) \/ BeingFollowed(A, e)
  <1>1. Deliver(e, "airspace", FALSE)
    BY DEF TakenOff
  <1>2. /\ e.time \in Nat /\ now' = e.time /\ par' = par /\ TypeOK
        /\ now \in Nat /\ now <= e.time
        /\ e.to = "airspace" /\ e.self = FALSE
        /\ \A f \in fes : f.time \in Nat
    BY <1>1, DeliverLight
  <1>3. e \notin ArrivalEvents
    BY <1>2 DEF ArrivalEvents
  <1>4. PICK A \in ArrivalEvents :
          /\ fes = {A, e} /\ A # e
          /\ OneInSystem(A, e) \/ BeingFollowed(A, e)
    BY <1>3, LoneEvent
  <1>5. fes \ {e} = {A} /\ A.self /\ A.to = "airspace" /\ A.time \in Nat
    BY <1>2, <1>4 DEF ArrivalEvents
  <1>6. Responded(e) \in StatsType /\ Waitless(Responded(e))
    <2>1. stats \in StatsType /\ e.plane \in Airplanes
      BY <1>1, <1>2, DeliverType DEF TypeOK
    <2>2. e.time - e.plane.timestamp \in Int
      BY <1>2, <2>1 DEF Airplanes
    <2> QED
      BY <2>1, <2>2, SignalNames, EmitWaitless DEF Responded
  <1> QED
    BY <1>2, <1>4, <1>5, <1>6

\* A queue of one airplane is not empty.
LEMMA QueueOfOne ==
  ASSUME NEW q \in Seq(Airplanes), Len(q) = 1
  PROVE  q # << >>
  <1>1. Len(<< >>) = 0 /\ 0 # 1
    OBVIOUS
  <1> QED
    BY <1>1, Zenon

\* The airplane that arrived in this instant follows: it has not waited.
LEMMA FollowerLands ==
  ASSUME TypeOK, Light, NEW t \in Nat, NEW A, NEW st \in StatsType,
         Waitless(st), completed(t, {A}, st),
         A.self, A.to = "airspace", A.time \in Nat,
         par' = par, Len(holdingQueue) = 1, departQueue = << >>,
         par.interArrivalTime = Stay,
         Head(holdingQueue).queueArrivalTime = t,
         t + par.interArrivalTime <= A.time
  PROVE  Lone' /\ Waitless(stats')
  <1> DEFINE a == par.interArrivalTime
             l == par.landingTime
             p == Head(holdingQueue)
  <1>1. holdingQueue \in Seq(Airplanes) /\ holdingQueue # << >>
    BY QueueOfOne DEF TypeOK
  <1>2. HandOverToLanding(t, {A}, st)
    BY <1>1, SelectedFacts DEF completed, FreeStrip, HandOverToTakeoff
  <1> DEFINE st2 == Emit(Emit(st, "HoldingQueueWaitingTime",
                              t - p.queueArrivalTime),
                         "HoldingQueueSize", Len(holdingQueue) - 1)
  <1>3. PICK d \in LandingTimes :
          /\ fes' = {A} \cup {Message("parkingarea", t + d, seq + 1, p)}
          /\ stats' = Emit(st2, "RunwayUse", d)
    BY <1>2 DEF HandOverToLanding, AirspaceGo, StartLanding
  <1>4. holdingQueue' = << >> /\ departQueue' = << >>
    <2>1. holdingQueue' = Tail(holdingQueue) /\ departQueue' = departQueue
      BY <1>2 DEF HandOverToLanding, AirspaceGo
    <2>2. Tail(holdingQueue) \in Seq(Airplanes) /\ Len(Tail(holdingQueue)) = 0
      BY <1>1, PopFacts
    <2> DEFINE q == Tail(holdingQueue)
    <2>3. q = << >>
      <3>1. q \in Seq(Airplanes) /\ Len(q) = 0
        BY <2>2
      <3> HIDE DEF q
      <3> QED
        BY <3>1
    <2> QED
      BY <2>1, <2>3
  <1>5. d = l /\ l \in Nat /\ a \in Nat
    BY LightTimes
  <1> DEFINE m == Message("parkingarea", t + d, seq + 1, p)
  <1>6. m.time = t + l /\ ~m.self /\ m.to = "parkingarea"
    BY <1>5 DEF Message
  <1>7. fes' = {A, m}
    BY <1>3
  <1> HIDE DEF m
  <1>8. ToGo(m) = par.parkingTime + par.takeoffTime
    BY <1>6 DEF ToGo
  <1>9. m.time + (par.parkingTime + par.takeoffTime) + (a - Stay) <= A.time
    BY <1>6, LightTimes
  <1>10. Lone'
    BY <1>4, <1>6, <1>7, <1>8, <1>9, LoneWithOne
  <1>11. Waitless(stats')
    <2>1. t - p.queueArrivalTime = 0 /\ Len(holdingQueue) - 1 = 0
      OBVIOUS
    <2> DEFINE st1 == Emit(st, "HoldingQueueWaitingTime",
                           t - p.queueArrivalTime)
    <2>2. st1 \in StatsType /\ Waitless(st1)
      BY <2>1, SignalNames, EmitWaitless
    <2> HIDE DEF st1
    <2>3. /\ Emit(st1, "HoldingQueueSize", Len(holdingQueue) - 1) \in StatsType
          /\ Waitless(Emit(st1, "HoldingQueueSize", Len(holdingQueue) - 1))
      BY <2>1, <2>2, SignalNames, EmitWaitless
    <2>4. st2 \in StatsType /\ Waitless(st2)
      BY <2>3 DEF st1
    <2> HIDE DEF st2
    <2>5. d \in Int /\ "RunwayUse" \in Signals
      BY <1>5, SignalNames
    <2>6. Waitless(Emit(st2, "RunwayUse", d))
      BY <2>4, <2>5, EmitWaitless
    <2> QED
      BY <1>3, <2>6
  <1> QED
    BY <1>10, <1>11

\* A departure leaves nobody, or one that has not waited.
LEMMA DepartedLone ==
  ASSUME RunwayInv, Light, Lone, Waitless(stats), NEW e \in fes, Departed(e)
  PROVE  Lone' /\ Waitless(stats')
  <1>1. TakenOff(e)
    BY DEF Departed
  <1>2. /\ e.time \in Nat /\ now' = e.time /\ par' = par /\ TypeOK
        /\ Responded(e) \in StatsType /\ Waitless(Responded(e))
    BY <1>1, TakenOffLone
  <1>3. PICK A \in ArrivalEvents :
          /\ fes \ {e} = {A} /\ A.self /\ A.to = "airspace" /\ A.time \in Nat
          /\ OneInSystem(A, e) \/ BeingFollowed(A, e)
    BY <1>1, TakenOffLone
  <1>4. completed(e.time, {A}, Responded(e))
    BY <1>3 DEF Departed
  <1>5. CASE OneInSystem(A, e)
    <2>1. /\ fes' = {A} /\ stats' = Responded(e)
          /\ holdingQueue' = << >> /\ departQueue' = << >>
      BY <1>2, <1>4, <1>5, CompletedFrees DEF OneInSystem
    <2> QED
      BY <1>2, <1>3, <2>1, LoneAlone
  <1>6. CASE BeingFollowed(A, e)
    <2>1. /\ Len(holdingQueue) = 1 /\ departQueue = << >>
          /\ par.interArrivalTime = Stay
          /\ Head(holdingQueue).queueArrivalTime = e.time
          /\ e.time + par.interArrivalTime <= A.time
      BY <1>6 DEF BeingFollowed
    <2> QED
      BY <1>2, <1>3, <1>4, <2>1, FollowerLands
  <1> QED
    BY <1>3, <1>5, <1>6

\* The last departure leaves the samples without a wait.
LEMMA LastDepartedLone ==
  ASSUME RunwayInv, Light, Lone, Waitless(stats), NEW e \in fes,
         LastDeparted(e)
  PROVE  ~running' /\ Waitless(stats')
  <1>1. TakenOff(e)
    BY DEF LastDeparted
  <1>2. /\ e.time \in Nat
        /\ Responded(e) \in StatsType /\ Waitless(Responded(e))
    BY <1>1, TakenOffLone
  <1>3. /\ stats' = Emit(Responded(e), "TotalSimtime", e.time)
        /\ running' = FALSE
    BY DEF LastDeparted
  <1> QED
    BY <1>2, <1>3, SignalNames, EmitWaitless

(***************************************************************************)
(* The invariant and the theorem.                                          *)
(***************************************************************************)
LEMMA LightInit == Init => LightInv
  <1> SUFFICES ASSUME Init PROVE LightInv
    OBVIOUS
  <1>1. PICK a \in InterArrivalTimes :
          fes = {SelfMessage("airspace", a, 0, NewAirplane(1))}
    BY DEF Init, InitAirspace
  <1> DEFINE A == SelfMessage("airspace", a, 0, NewAirplane(1))
  <1>2. A \in ArrivalEvents
    BY <1>1 DEF ArrivalEvents, SelfMessage
  <1>3. Alone(A)
    BY <1>1 DEF Alone, Init, InitAirspace, InitParkingArea
  <1>4. LightTrafficNeverWaits
    BY SignalNames DEF LightTrafficNeverWaits, Init, InitStats
  <1> QED
    BY <1>2, <1>3, <1>4 DEF LightInv

\* Every step keeps light traffic light.
LEMMA LightNext ==
  ASSUME TakeoffsTakeTime, RunwayInv, LightInv, [Next]_vars
  PROVE  LightInv'
  <1>1. CASE UNCHANGED vars
    BY <1>1 DEF vars, LightInv, LightTrafficNeverWaits, AllConstant, Stay,
       ArrivalEvents, Alone, OneInSystem, BeingFollowed, ToGo
  <1>2. CASE Next
    <2>1. PICK e \in fes :
            \/ ArrivalGranted(e) /\ UNCHANGED parkingVars
            \/ ArrivalQueued(e) /\ UNCHANGED parkingVars
            \/ (ParkingExpiredGranted(e) \/ ParkingExpiredQueued(e))
                 /\ UNCHANGED airspaceVars
            \/ Landed(e) \/ Departed(e) \/ LastDeparted(e)
      BY <1>2 DEF Next
    <2>2. running /\ par' = par
      BY <2>1 DEF ArrivalGranted, ArrivalQueued, Arrival,
         ParkingExpiredGranted, ParkingExpiredQueued, ParkingExpired, Landed,
         Departed, LastDeparted, TakenOff, Deliver
    <2>3. /\ AllConstant' = AllConstant /\ Stay' = Stay
          /\ Waitless(stats)' <=> Waitless(stats')
      BY <2>2 DEF AllConstant, Stay, Waitless
    <2>4. CASE AllConstant /\ par.interArrivalTime >= Stay
      <3>1. Light
        BY <2>4 DEF Light, RunwayInv, TypeOK, TakeoffsTakeTime
      <3>2. Lone /\ Waitless(stats)
        BY <2>2, <2>4 DEF LightInv, LightTrafficNeverWaits, Lone, Waitless
      <3>3. (running' => Lone') /\ Waitless(stats')
        BY <2>1, <3>1, <3>2, ArrivalGrantedLone, ArrivalQueuedLone,
           ParkingExpiredLone, LandedLone, DepartedLone, LastDepartedLone
      <3> QED
        BY <2>3, <3>3 DEF LightInv, LightTrafficNeverWaits, Lone, Waitless
    <2>5. CASE ~ (AllConstant /\ par.interArrivalTime >= Stay)
      BY <2>2, <2>3, <2>5 DEF LightInv
    <2> QED
      BY <2>4, <2>5
  <1> QED
    BY <1>1, <1>2

(***************************************************************************)
(* If take-offs take time and, with constant times, an airplane is gone    *)
(* when the next one arrives, no airplane waits; unless it leaves in that  *)
(* very instant, none is ever queued.                                      *)
(***************************************************************************)
THEOREM NobodyWaits ==
  ASSUME TakeoffsTakeTime
  PROVE  Spec => []LightTrafficNeverWaits
  <1>1. Init => RunwayInv /\ LightInv
    BY RunwayInit, LightInit
  <1>2. RunwayInv /\ LightInv /\ [Next]_vars => RunwayInv' /\ LightInv'
    BY RunwayNext, LightNext
  <1>3. LightInv => LightTrafficNeverWaits
    BY DEF LightInv, LightTrafficNeverWaits
  <1> QED
    BY <1>1, <1>2, <1>3, PTL DEF Spec

(***************************************************************************)
(* The ages of the airplanes in the events and in the queues.              *)
(***************************************************************************)

\* Ages are integers, though a stale queueArrivalTime may precede the arrival.
LEMMA AgeTypes ==
  /\ \A e \in Events : /\ AgeAtEvent[e] = e.time - e.plane.timestamp
                       /\ AgeAtEvent[e] \in Int
  /\ \A p \in Airplanes : /\ AgeWhenQueued[p] = p.queueArrivalTime - p.timestamp
                          /\ AgeWhenQueued[p] \in Int
  BY DEF AgeAtEvent, AgeWhenQueued, Events, Airplanes

\* Ages at pending events are integers.
LEMMA EventAgesType ==
  ASSUME NEW F \in SUBSET Events, IsFiniteSet(F)
  PROVE  /\ IsFiniteSet(MovingIn(F)) /\ EventAges(F) \in Int
         /\ \A e \in MovingIn(F) : AgeAtEvent[e] \in Int
  <1>1. MovingIn(F) \subseteq F
    BY DEF MovingIn
  <1>2. IsFiniteSet(MovingIn(F))
    BY <1>1, FS_Subset
  <1>3. \A e \in MovingIn(F) : AgeAtEvent[e] \in Int
    BY <1>1, AgeTypes
  <1>4. EventAges(F) \in Int
    BY <1>2, <1>3, TotalInt DEF EventAges
  <1> QED
    BY <1>2, <1>3, <1>4

\* An airplane that is not in the system yet has no age.
LEMMA ArrivalHasNoAge ==
  ASSUME NEW F, NEW e, e.self /\ e.to = "airspace"
  PROVE  /\ EventAges(F \ {e}) = EventAges(F)
         /\ EventAges(F \cup {e}) = EventAges(F)
  <1>1. MovingIn(F \ {e}) = MovingIn(F) /\ MovingIn(F \cup {e}) = MovingIn(F)
    BY DEF MovingIn
  <1> QED
    BY <1>1 DEF EventAges

\* A scheduled event adds, a delivered one removes, the age at its time.
LEMMA EventAgesPut ==
  ASSUME NEW F \in SUBSET Events, IsFiniteSet(F),
         NEW e \in Events, e \notin F, ~ (e.self /\ e.to = "airspace")
  PROVE  EventAges(F \cup {e}) = EventAges(F) + (e.time - e.plane.timestamp)
  <1>1. /\ IsFiniteSet(MovingIn(F)) /\ EventAges(F) \in Int
        /\ \A f \in MovingIn(F) : AgeAtEvent[f] \in Int
    BY EventAgesType
  <1>2. /\ AgeAtEvent[e] = e.time - e.plane.timestamp
        /\ AgeAtEvent[e] \in Int
    BY AgeTypes
  <1>3. e \notin MovingIn(F) /\ MovingIn(F \cup {e}) = MovingIn(F) \cup {e}
    BY DEF MovingIn
  <1>4. Total(AgeAtEvent, MovingIn(F) \cup {e})
          = AgeAtEvent[e] + Total(AgeAtEvent, MovingIn(F))
    BY <1>1, <1>2, <1>3, TotalAdd
  <1>5. EventAges(F \cup {e}) = AgeAtEvent[e] + EventAges(F)
    BY <1>3, <1>4 DEF EventAges
  <1>6. EventAges(F \cup {e}) = EventAges(F) + AgeAtEvent[e]
    BY <1>1, <1>2, <1>5
  <1> QED
    BY <1>2, <1>6

\* An event taken from the event set takes its age along.
LEMMA EventAgesTake ==
  ASSUME NEW F \in SUBSET Events, IsFiniteSet(F),
         NEW e \in F, ~ (e.self /\ e.to = "airspace")
  PROVE  EventAges(F) = EventAges(F \ {e}) + (e.time - e.plane.timestamp)
  <1>1. IsFiniteSet(F \ {e}) /\ F \ {e} \in SUBSET Events
    BY FS_RemoveElement
  <1>2. (F \ {e}) \cup {e} = F /\ e \notin F \ {e} /\ e \in Events
    OBVIOUS
  <1>3. EventAges((F \ {e}) \cup {e})
          = EventAges(F \ {e}) + (e.time - e.plane.timestamp)
    BY <1>1, <1>2, EventAgesPut
  <1> QED
    BY <1>2, <1>3

\* No airplane is twice in the queue.
Distinct(q) == \A i, j \in 1..Len(q) : q[i].id = q[j].id => i = j

\* Ages when queued are integers.
LEMMA QueueAgesType ==
  ASSUME NEW q \in Seq(Airplanes)
  PROVE  /\ IsFiniteSet(Queued(q)) /\ Queued(q) \subseteq Airplanes
         /\ QueueAges(q) \in Int
         /\ \A p \in Queued(q) : AgeWhenQueued[p] \in Int
  <1>1. Len(q) \in Nat /\ \A i \in 1..Len(q) : q[i] \in Airplanes
    OBVIOUS
  <1>2. Queued(q) \subseteq Airplanes
    BY <1>1 DEF Queued
  <1>3. IsFiniteSet(Queued(q))
    <2> DEFINE k == [i \in 1..Len(q) |-> q[i]]
    <2>1. k \in Surjection(1..Len(q), Queued(q))
      BY DEF Surjection, Queued
    <2>2. IsFiniteSet(1..Len(q))
      BY <1>1, FS_Interval
    <2> HIDE DEF k
    <2> QED
      BY <2>1, <2>2, FS_Surjection
  <1>4. \A p \in Queued(q) : AgeWhenQueued[p] \in Int
    BY <1>2, AgeTypes
  <1>5. QueueAges(q) \in Int
    BY <1>3, <1>4, TotalInt DEF QueueAges
  <1> QED
    BY <1>2, <1>3, <1>4, <1>5

\* An airplane joins a queue at the end, and leaves it at the front.
LEMMA QueueAgesAppend ==
  ASSUME NEW q \in Seq(Airplanes), NEW p \in Airplanes,
         \A i \in 1..Len(q) : q[i].id # p.id
  PROVE  QueueAges(Append(q, p))
           = QueueAges(q) + (p.queueArrivalTime - p.timestamp)
  <1>1. /\ IsFiniteSet(Queued(q)) /\ QueueAges(q) \in Int
        /\ \A r \in Queued(q) : AgeWhenQueued[r] \in Int
    BY QueueAgesType
  <1>2. /\ AgeWhenQueued[p] = p.queueArrivalTime - p.timestamp
        /\ AgeWhenQueued[p] \in Int
    BY AgeTypes
  <1>3. p \notin Queued(q)
    BY DEF Queued
  <1>4. Queued(Append(q, p)) = Queued(q) \cup {p}
    <2> DEFINE a == Append(q, p)
    <2>1. /\ Len(q) \in Nat /\ Len(a) = Len(q) + 1
          /\ \A i \in 1..Len(q) : a[i] = q[i]
          /\ a[Len(q) + 1] = p
      BY AppendFacts
    <2>2. 1..Len(a) = 1..Len(q) \cup {Len(q) + 1}
      BY <2>1
    <2> HIDE DEF a
    <2>3. Queued(a) = Queued(q) \cup {p}
      BY <2>1, <2>2 DEF Queued
    <2> QED
      BY <2>3 DEF a
  <1>5. Total(AgeWhenQueued, Queued(q) \cup {p})
          = AgeWhenQueued[p] + Total(AgeWhenQueued, Queued(q))
    BY <1>1, <1>2, <1>3, TotalAdd
  <1>6. QueueAges(Append(q, p)) = AgeWhenQueued[p] + QueueAges(q)
    BY <1>4, <1>5 DEF QueueAges
  <1>7. QueueAges(Append(q, p)) = QueueAges(q) + AgeWhenQueued[p]
    BY <1>1, <1>2, <1>6
  <1> QED
    BY <1>2, <1>7

\* The head of a queue takes its age along.
LEMMA QueueAgesTail ==
  ASSUME NEW q \in Seq(Airplanes), q # << >>, Distinct(q)
  PROVE  LET p == Head(q) IN
         QueueAges(q) = QueueAges(Tail(q)) + (p.queueArrivalTime - p.timestamp)
  <1> DEFINE p == Head(q)
             t == Tail(q)
  <1>1. /\ Len(q) \in Nat /\ Len(q) > 0 /\ Len(t) = Len(q) - 1
        /\ p = q[1] /\ p \in Airplanes /\ t \in Seq(Airplanes)
        /\ \A i \in 1..Len(t) : t[i] = q[i + 1]
    BY PopFacts
  <1> HIDE DEF p, t
  <1>2. /\ \A i \in 1..Len(t) : i + 1 \in 1..Len(q) /\ i + 1 # 1
        /\ 1 \in 1..Len(q)
        /\ \A j \in 1..Len(q) : j = 1 \/ j - 1 \in 1..Len(t)
        /\ \A j \in 1..Len(q) : (j - 1) + 1 = j
    BY <1>1
  <1>3. Queued(q) = Queued(t) \cup {p}
    <2>1. \A j \in 1..Len(q) : q[j] \in Queued(t) \cup {p}
      <3> SUFFICES ASSUME NEW j \in 1..Len(q), j # 1 PROVE q[j] \in Queued(t)
        BY <1>1
      <3>1. j - 1 \in 1..Len(t) /\ t[j - 1] = q[(j - 1) + 1]
        BY <1>1, <1>2
      <3> QED
        BY <1>2, <3>1 DEF Queued
    <2>2. Queued(t) \subseteq Queued(q) /\ p \in Queued(q)
      BY <1>1, <1>2 DEF Queued
    <2> QED
      BY <2>1, <2>2 DEF Queued
  <1>4. p \notin Queued(t)
    BY <1>1, <1>2 DEF Queued, Distinct
  <1>5. /\ IsFiniteSet(Queued(t)) /\ QueueAges(t) \in Int
        /\ \A r \in Queued(t) : AgeWhenQueued[r] \in Int
    BY <1>1, QueueAgesType
  <1>6. /\ AgeWhenQueued[p] = p.queueArrivalTime - p.timestamp
        /\ AgeWhenQueued[p] \in Int
    BY <1>1, AgeTypes
  <1>7. Total(AgeWhenQueued, Queued(t) \cup {p})
          = AgeWhenQueued[p] + Total(AgeWhenQueued, Queued(t))
    BY <1>4, <1>5, <1>6, TotalAdd
  <1>8. QueueAges(q) = AgeWhenQueued[p] + QueueAges(t)
    BY <1>3, <1>7 DEF QueueAges
  <1>9. QueueAges(q) = QueueAges(t) + AgeWhenQueued[p]
    BY <1>5, <1>6, <1>8
  <1> QED
    BY <1>6, <1>9 DEF p, t

(***************************************************************************)
(* The balance.  A step shifts it by differences that cancel out.          *)
(***************************************************************************)

LandedIn(D, st, np) == np + Len(D) + st["DepartQueueWaitingTime"].count

\* All the numbers of the balance are integers.
BookTypes(F, H, D, st, np) ==
  /\ EventAges(F) \in Int /\ QueueAges(H) \in Int /\ QueueAges(D) \in Int
  /\ st["AirportResponseTime"].sum \in Int
  /\ st["HoldingQueueWaitingTime"].sum \in Int
  /\ st["DepartQueueWaitingTime"].sum \in Int
  /\ st["RunwayUse"].sum \in Int
  /\ LandedIn(D, st, np) \in Int
  /\ st["DepartQueueWaitingTime"].count \in Nat

\* What the balance is made of is typed.
LEMMA BookTyped ==
  ASSUME NEW F \in SUBSET Events, IsFiniteSet(F), NEW H \in Seq(Airplanes),
         NEW D \in Seq(Airplanes), NEW st \in StatsType, NEW np \in Int
  PROVE  BookTypes(F, H, D, st, np)
  <1>1. EventAges(F) \in Int /\ QueueAges(H) \in Int /\ QueueAges(D) \in Int
    BY EventAgesType, QueueAgesType
  <1>2. \A s \in Signals : st[s].sum \in Int /\ st[s].count \in Nat
    BY DEF StatsType
  <1>3. Len(D) \in Nat
    OBVIOUS
  <1> QED
    BY <1>1, <1>2, <1>3, SignalNames DEF BookTypes, LandedIn

\* The recorders go from st to r: the sums of the response times, of the two
\* waiting times and of the runway's use grow by ar, hw, dw and ru, and dc
\* airplanes are sampled as served.
Sampled(st, r, ar, hw, dw, ru, dc) ==
  /\ r["AirportResponseTime"].sum = st["AirportResponseTime"].sum + ar
  /\ r["HoldingQueueWaitingTime"].sum = st["HoldingQueueWaitingTime"].sum + hw
  /\ r["DepartQueueWaitingTime"].sum = st["DepartQueueWaitingTime"].sum + dw
  /\ r["RunwayUse"].sum = st["RunwayUse"].sum + ru
  /\ r["DepartQueueWaitingTime"].count = st["DepartQueueWaitingTime"].count + dc

\* The sums of the balance over numbers.
LEMMA BooksShift ==
  ASSUME NEW ar \in Int, NEW ea \in Int, NEW qh \in Int, NEW qd \in Int,
         NEW hw \in Int, NEW dw \in Int, NEW ru \in Int, NEW n \in Int,
         NEW pt \in Int,
         NEW xr \in Int, NEW xe \in Int, NEW xh \in Int, NEW xd \in Int,
         NEW yh \in Int, NEW yd \in Int, NEW yr \in Int, NEW yp \in {0, 1},
         ar + ea + qh + qd = hw + dw + ru + pt * n,
         xr + xe + xh + xd = yh + yd + yr + (IF yp = 1 THEN pt ELSE 0)
  PROVE  (ar + xr) + (ea + xe) + (qh + xh) + (qd + xd)
           = (hw + yh) + (dw + yd) + (ru + yr) + pt * (n + yp)
  <1>1. pt * (n + yp) = pt * n + (IF yp = 1 THEN pt ELSE 0)
    <2>1. CASE yp = 0
      BY <2>1
    <2>2. CASE yp = 1
      BY <2>2
    <2> QED
      BY <2>1, <2>2
  <1> DEFINE m == pt * n
             k == pt * (n + yp)
  <1>2. m \in Int /\ k = m + (IF yp = 1 THEN pt ELSE 0)
    BY <1>1
  <1>3. ar + ea + qh + qd = hw + dw + ru + m
    OBVIOUS
  <1> HIDE DEF m, k
  <1>4. (ar + xr) + (ea + xe) + (qh + xh) + (qd + xd)
           = (hw + yh) + (dw + yd) + (ru + yr) + k
    BY <1>2, <1>3
  <1> QED
    BY <1>4 DEF k

\* The ages in the events, the holding queue and the depart queue grow by xe,
\* xh and xd, and yp airplanes land.
Aged(F, H, D, st, np, G, I, E, r, mp, xe, xh, xd, yp) ==
  /\ EventAges(G) = EventAges(F) + xe
  /\ QueueAges(I) = QueueAges(H) + xh
  /\ QueueAges(E) = QueueAges(D) + xd
  /\ LandedIn(E, r, mp) = LandedIn(D, st, np) + yp

\* What is added on both sides of the balance is the same.
Cancels(xr, xe, xh, xd, yh, yd, yr, yp, pt) ==
  /\ xr \in Int /\ xe \in Int /\ xh \in Int /\ xd \in Int
  /\ yh \in Int /\ yd \in Int /\ yr \in Int /\ yp \in {0, 1}
  /\ xr + xe + xh + xd = yh + yd + yr + (IF yp = 1 THEN pt ELSE 0)

\* A step whose samples and ages make up for each other keeps the balance.
LEMMA Rebalanced ==
  ASSUME NEW F, NEW H, NEW D, NEW st, NEW np, NEW pt \in Nat,
         Balanced(F, H, D, st, np, pt), BookTypes(F, H, D, st, np),
         NEW G, NEW I, NEW E, NEW r, NEW mp,
         NEW xr, NEW xe, NEW xh, NEW xd, NEW yh, NEW yd, NEW yr, NEW yp,
         NEW dc, Sampled(st, r, xr, yh, yd, yr, dc),
         Aged(F, H, D, st, np, G, I, E, r, mp, xe, xh, xd, yp),
         Cancels(xr, xe, xh, xd, yh, yd, yr, yp, pt)
  PROVE  Balanced(G, I, E, r, mp, pt)
  <1> DEFINE ar == st["AirportResponseTime"].sum
             hw == st["HoldingQueueWaitingTime"].sum
             dw == st["DepartQueueWaitingTime"].sum
             ru == st["RunwayUse"].sum
             ea == EventAges(F)
             qh == QueueAges(H)
             qd == QueueAges(D)
             n  == LandedIn(D, st, np)
  <1>1. /\ ar \in Int /\ hw \in Int /\ dw \in Int /\ ru \in Int
        /\ ea \in Int /\ qh \in Int /\ qd \in Int /\ n \in Int
    BY DEF BookTypes
  <1>2. ar + ea + qh + qd = hw + dw + ru + pt * n
    BY DEF Balanced, LandedIn
  <1>3. /\ r["AirportResponseTime"].sum = ar + xr
        /\ r["HoldingQueueWaitingTime"].sum = hw + yh
        /\ r["DepartQueueWaitingTime"].sum = dw + yd
        /\ r["RunwayUse"].sum = ru + yr
        /\ EventAges(G) = ea + xe
        /\ QueueAges(I) = qh + xh
        /\ QueueAges(E) = qd + xd
        /\ LandedIn(E, r, mp) = n + yp
    BY DEF Sampled, Aged
  <1> HIDE DEF ar, hw, dw, ru, ea, qh, qd, n
  <1>4. (ar + xr) + (ea + xe) + (qh + xh) + (qd + xd)
           = (hw + yh) + (dw + yd) + (ru + yr) + pt * (n + yp)
    <2>1. /\ xr \in Int /\ xe \in Int /\ xh \in Int /\ xd \in Int
          /\ yh \in Int /\ yd \in Int /\ yr \in Int /\ yp \in {0, 1}
          /\ xr + xe + xh + xd = yh + yd + yr + (IF yp = 1 THEN pt ELSE 0)
      BY DEF Cancels
    <2> QED
      BY <1>1, <1>2, <2>1, BooksShift
  <1>5. r["AirportResponseTime"].sum + EventAges(G) + QueueAges(I) + QueueAges(E)
          = r["HoldingQueueWaitingTime"].sum + r["DepartQueueWaitingTime"].sum
            + r["RunwayUse"].sum + pt * LandedIn(E, r, mp)
    BY <1>3, <1>4
  <1> QED
    BY <1>5 DEF Balanced, LandedIn

\* The samples of an operation: a queue size, a waiting time w (of the signal
\* wait), in any order, and the runway's use d.
Operated(st, r, s1, v1, s2, v2, d) ==
  /\ r[s1].sum = st[s1].sum + v1
  /\ r[s2].sum = st[s2].sum + v2
  /\ r["RunwayUse"].sum = st["RunwayUse"].sum + d

\* Three emissions add up to that.
LEMMA OperationSums ==
  ASSUME NEW st \in StatsType, NEW v1 \in Int, NEW v2 \in Int, NEW d \in Int,
         NEW s1 \in Recorded, NEW s2 \in Recorded, s1 # s2
  PROVE  Operated(st, Emit(Emit(Emit(st, s1, v1), s2, v2), "RunwayUse", d),
                  s1, v1, s2, v2, d)
  <1> DEFINE a == Emit(st, s1, v1)
             b == Emit(a, s2, v2)
             r == Emit(b, "RunwayUse", d)
  <1>0. /\ s1 \in Signals /\ s2 \in Signals /\ "RunwayUse" \in Signals
        /\ s1 # "RunwayUse" /\ s2 # "RunwayUse"
    BY SignalNames DEF Recorded
  <1>1. /\ a \in StatsType /\ a[s1].sum = st[s1].sum + v1
        /\ \A s \in Signals \ {s1} : a[s] = st[s]
    BY <1>0, EmitFacts
  <1> HIDE DEF a
  <1>2. /\ b \in StatsType /\ b[s2].sum = a[s2].sum + v2
        /\ \A s \in Signals \ {s2} : b[s] = a[s]
    BY <1>0, <1>1, EmitFacts
  <1> HIDE DEF b
  <1>3. /\ r["RunwayUse"].sum = b["RunwayUse"].sum + d
        /\ \A s \in Signals \ {"RunwayUse"} : r[s] = b[s]
    BY <1>0, <1>2, EmitFacts
  <1> HIDE DEF r
  <1>4. /\ r[s1].sum = st[s1].sum + v1
        /\ r[s2].sum = st[s2].sum + v2
        /\ r["RunwayUse"].sum = st["RunwayUse"].sum + d
    BY <1>0, <1>1, <1>2, <1>3
  <1> QED
    BY <1>4 DEF Operated, a, b, r

\* What the samples of a landing and of a take-off add to the balance.
LEMMA LandingSampled ==
  ASSUME NEW st \in StatsType, NEW v \in Int, NEW w \in Int, NEW d \in Int
  PROVE  /\ Sampled(st, Emit(Emit(Emit(st, "HoldingQueueWaitingTime", w),
                                  "HoldingQueueSize", v), "RunwayUse", d),
                    0, w, 0, d, 0)
         /\ Sampled(st, Emit(Emit(Emit(st, "HoldingQueueSize", v),
                                  "HoldingQueueWaitingTime", w), "RunwayUse", d),
                    0, w, 0, d, 0)
  <1>0. /\ "HoldingQueueWaitingTime" \in Recorded
        /\ "HoldingQueueSize" \in Recorded
        /\ "HoldingQueueWaitingTime" # "HoldingQueueSize"
        /\ {"AirportResponseTime", "DepartQueueWaitingTime"} \subseteq
             Recorded \ {"HoldingQueueWaitingTime", "HoldingQueueSize"}
    BY DEF Recorded
  <1>1. \A s \in Signals : st[s].sum \in Int /\ st[s].count \in Nat
    BY DEF StatsType
  <1>2. ASSUME NEW r,
               r["HoldingQueueWaitingTime"].sum
                 = st["HoldingQueueWaitingTime"].sum + w,
               r["RunwayUse"].sum = st["RunwayUse"].sum + d,
               \A s \in Recorded \ {"HoldingQueueWaitingTime",
                                    "HoldingQueueSize"} : r[s] = st[s]
        PROVE  Sampled(st, r, 0, w, 0, d, 0)
    <2>1. /\ r["AirportResponseTime"] = st["AirportResponseTime"]
          /\ r["DepartQueueWaitingTime"] = st["DepartQueueWaitingTime"]
      BY <1>0, <1>2
    <2> QED
      BY <1>1, <1>2, <2>1, SignalNames DEF Sampled
  <1> DEFINE r == Emit(Emit(Emit(st, "HoldingQueueWaitingTime", w),
                            "HoldingQueueSize", v), "RunwayUse", d)
             q == Emit(Emit(Emit(st, "HoldingQueueSize", v),
                            "HoldingQueueWaitingTime", w), "RunwayUse", d)
  <1>3. Sampled(st, r, 0, w, 0, d, 0)
    <2>0. Operated(st, r, "HoldingQueueWaitingTime", w, "HoldingQueueSize", v, d)
      BY <1>0, OperationSums
    <2>1. /\ r["HoldingQueueWaitingTime"].sum
               = st["HoldingQueueWaitingTime"].sum + w
          /\ r["RunwayUse"].sum = st["RunwayUse"].sum + d
      BY <2>0 DEF Operated
    <2>2. \A s \in Recorded \ {"HoldingQueueWaitingTime",
                                    "HoldingQueueSize"} : r[s] = st[s]
      BY <1>0, OperationSamples
    <2> HIDE DEF r
    <2> QED
      BY <1>2, <2>1, <2>2
  <1>4. Sampled(st, q, 0, w, 0, d, 0)
    <2>0. Operated(st, q, "HoldingQueueSize", v, "HoldingQueueWaitingTime", w, d)
      BY <1>0, OperationSums
    <2>1. /\ q["HoldingQueueWaitingTime"].sum
               = st["HoldingQueueWaitingTime"].sum + w
          /\ q["RunwayUse"].sum = st["RunwayUse"].sum + d
      BY <2>0 DEF Operated
    <2>2. \A s \in Recorded \ {"HoldingQueueSize",
                               "HoldingQueueWaitingTime"} : q[s] = st[s]
      BY <1>0, OperationSamples
    <2> HIDE DEF q
    <2> QED
      BY <1>2, <2>1, <2>2
  <1> QED
    BY <1>3, <1>4

\* A take-off that starts adds its wait and its length, in either order of emission.
LEMMA TakeoffSampled ==
  ASSUME NEW st \in StatsType, NEW v \in Int, NEW w \in Int, NEW d \in Int
  PROVE  /\ Sampled(st, Emit(Emit(Emit(st, "DepartQueueWaitingTime", w),
                                  "DepartQueueSize", v), "RunwayUse", d),
                    0, 0, w, d, 1)
         /\ Sampled(st, Emit(Emit(Emit(st, "DepartQueueSize", v),
                                  "DepartQueueWaitingTime", w), "RunwayUse", d),
                    0, 0, w, d, 1)
  <1>0. /\ "DepartQueueWaitingTime" \in Recorded
        /\ "DepartQueueSize" \in Recorded
        /\ "DepartQueueWaitingTime" # "DepartQueueSize"
        /\ {"AirportResponseTime", "HoldingQueueWaitingTime"} \subseteq
             Recorded \ {"DepartQueueWaitingTime", "DepartQueueSize"}
    BY DEF Recorded
  <1>1. \A s \in Signals : st[s].sum \in Int /\ st[s].count \in Nat
    BY DEF StatsType
  <1>2. ASSUME NEW r,
               r["DepartQueueWaitingTime"].sum
                 = st["DepartQueueWaitingTime"].sum + w,
               r["DepartQueueWaitingTime"].count
                 = st["DepartQueueWaitingTime"].count + 1,
               r["RunwayUse"].sum = st["RunwayUse"].sum + d,
               \A s \in Recorded \ {"DepartQueueWaitingTime",
                                    "DepartQueueSize"} : r[s] = st[s]
        PROVE  Sampled(st, r, 0, 0, w, d, 1)
    <2>1. /\ r["AirportResponseTime"] = st["AirportResponseTime"]
          /\ r["HoldingQueueWaitingTime"] = st["HoldingQueueWaitingTime"]
      BY <1>0, <1>2
    <2> QED
      BY <1>1, <1>2, <2>1, SignalNames DEF Sampled
  <1> DEFINE r == Emit(Emit(Emit(st, "DepartQueueWaitingTime", w),
                            "DepartQueueSize", v), "RunwayUse", d)
             q == Emit(Emit(Emit(st, "DepartQueueSize", v),
                            "DepartQueueWaitingTime", w), "RunwayUse", d)
  <1>3. Sampled(st, r, 0, 0, w, d, 1)
    <2>0. Operated(st, r, "DepartQueueWaitingTime", w, "DepartQueueSize", v, d)
      BY <1>0, OperationSums
    <2>1. /\ r["DepartQueueWaitingTime"].sum
               = st["DepartQueueWaitingTime"].sum + w
          /\ r["RunwayUse"].sum = st["RunwayUse"].sum + d
      BY <2>0 DEF Operated
    <2>2. \A s \in Recorded \ {"DepartQueueWaitingTime",
                               "DepartQueueSize"} : r[s] = st[s]
      BY <1>0, OperationSamples
    <2>3. r["DepartQueueWaitingTime"].count
            = st["DepartQueueWaitingTime"].count + 1
      BY <1>0, OperationSamples
    <2> HIDE DEF r
    <2> QED
      BY <1>2, <2>1, <2>2, <2>3
  <1>4. Sampled(st, q, 0, 0, w, d, 1)
    <2>0. Operated(st, q, "DepartQueueSize", v, "DepartQueueWaitingTime", w, d)
      BY <1>0, OperationSums
    <2>1. /\ q["DepartQueueWaitingTime"].sum
               = st["DepartQueueWaitingTime"].sum + w
          /\ q["RunwayUse"].sum = st["RunwayUse"].sum + d
      BY <2>0 DEF Operated
    <2>2. \A s \in Recorded \ {"DepartQueueSize",
                               "DepartQueueWaitingTime"} : q[s] = st[s]
      BY <1>0, OperationSamples
    <2>3. q["DepartQueueWaitingTime"].count
            = st["DepartQueueWaitingTime"].count + 1
      BY <1>0, OperationSamples
    <2> HIDE DEF q
    <2> QED
      BY <1>2, <2>1, <2>2, <2>3
  <1> QED
    BY <1>3, <1>4

\* The other signals are not part of the balance.
LEMMA OtherSampled ==
  ASSUME NEW st \in StatsType, NEW v \in Int,
         NEW s \in {"HoldingQueueSize", "DepartQueueSize", "ParkedPlanes",
                    "TotalSimtime"}
  PROVE  /\ Emit(st, s, v) \in StatsType
         /\ Sampled(st, Emit(st, s, v), 0, 0, 0, 0, 0)
  <1>1. s \in Signals
    BY SignalNames
  <1>2. /\ Emit(st, s, v) \in StatsType
        /\ \A q \in Signals \ {s} : Emit(st, s, v)[q] = st[q]
    BY <1>1, EmitFacts
  <1>3. \A q \in Signals : st[q].sum \in Int /\ st[q].count \in Nat
    BY DEF StatsType
  <1> DEFINE r == Emit(st, s, v)
  <1> HIDE DEF r
  <1>4. /\ r["AirportResponseTime"] = st["AirportResponseTime"]
        /\ r["HoldingQueueWaitingTime"] = st["HoldingQueueWaitingTime"]
        /\ r["DepartQueueWaitingTime"] = st["DepartQueueWaitingTime"]
        /\ r["RunwayUse"] = st["RunwayUse"]
    BY <1>2, SignalNames DEF r
  <1>5. Sampled(st, r, 0, 0, 0, 0, 0)
    BY <1>3, <1>4, SignalNames DEF Sampled
  <1> QED
    BY <1>2, <1>5 DEF r

\* A departure records its response time.
LEMMA ResponseSampled ==
  ASSUME NEW st \in StatsType, NEW v \in Int
  PROVE  /\ Emit(st, "AirportResponseTime", v) \in StatsType
         /\ Sampled(st, Emit(st, "AirportResponseTime", v), v, 0, 0, 0, 0)
  <1> DEFINE r == Emit(st, "AirportResponseTime", v)
  <1>1. /\ r \in StatsType
        /\ r["AirportResponseTime"].sum = st["AirportResponseTime"].sum + v
        /\ \A q \in Signals \ {"AirportResponseTime"} : r[q] = st[q]
    BY SignalNames, EmitFacts
  <1>2. \A q \in Signals : st[q].sum \in Int /\ st[q].count \in Nat
    BY DEF StatsType
  <1> HIDE DEF r
  <1>3. /\ r["HoldingQueueWaitingTime"] = st["HoldingQueueWaitingTime"]
        /\ r["DepartQueueWaitingTime"] = st["DepartQueueWaitingTime"]
        /\ r["RunwayUse"] = st["RunwayUse"]
    BY <1>1, SignalNames
  <1>4. Sampled(st, r, v, 0, 0, 0, 0)
    BY <1>1, <1>2, <1>3, SignalNames DEF Sampled
  <1> QED
    BY <1>1, <1>4 DEF r

(***************************************************************************)
(* The handlers' moves, for any event set, queues and recorders.           *)
(***************************************************************************)

\* A sample that is not part of the balance.
LEMMA BalancedSample ==
  ASSUME NEW F, NEW H, NEW D, NEW st, NEW np, NEW pt \in Nat,
         Balanced(F, H, D, st, np, pt), BookTypes(F, H, D, st, np),
         NEW r, Sampled(st, r, 0, 0, 0, 0, 0)
  PROVE  Balanced(F, H, D, r, np, pt)
  <1>1. /\ r["AirportResponseTime"].sum = st["AirportResponseTime"].sum
        /\ r["HoldingQueueWaitingTime"].sum = st["HoldingQueueWaitingTime"].sum
        /\ r["DepartQueueWaitingTime"].sum = st["DepartQueueWaitingTime"].sum
        /\ r["RunwayUse"].sum = st["RunwayUse"].sum
    BY DEF Sampled, BookTypes
  <1>2. LandedIn(D, r, np) = LandedIn(D, st, np)
    BY DEF Sampled, BookTypes, LandedIn
  <1> QED
    BY <1>1, <1>2 DEF Balanced, LandedIn

\* Airspace::go(): the front airplane of the holding queue lands.
LEMMA BalancedLandingGo ==
  ASSUME NEW F \in SUBSET Events, IsFiniteSet(F), NEW H \in Seq(Airplanes),
         H # << >>, Distinct(H), NEW D \in Seq(Airplanes),
         NEW st \in StatsType, NEW np \in Int, NEW pt \in Nat,
         Balanced(F, H, D, st, np, pt),
         NEW g \in Events, g \notin F, ~g.self, g.plane = Head(H),
         NEW t \in Int, NEW d \in Int, g.time = t + d, NEW r,
         Sampled(st, r, 0, t - Head(H).queueArrivalTime, 0, d, 0)
  PROVE  Balanced(F \cup {g}, Tail(H), D, r, np, pt)
  <1> DEFINE p == Head(H)
             qa == p.queueArrivalTime
             ts == p.timestamp
  <1>1. p \in Airplanes /\ Tail(H) \in Seq(Airplanes)
    BY PopFacts
  <1>2. qa \in Int /\ ts \in Int
    BY <1>1, SMTT(30) DEF Airplanes
  <1>3. EventAges(F \cup {g}) = EventAges(F) + (g.time - g.plane.timestamp)
    BY EventAgesPut
  <1>4. EventAges(F \cup {g}) = EventAges(F) + (t + d - ts)
    BY <1>2, <1>3, EventAgesType
  <1>5. QueueAges(H) = QueueAges(Tail(H)) + (qa - ts)
    BY QueueAgesTail
  <1>6. QueueAges(Tail(H)) \in Int /\ QueueAges(D) \in Int
    BY <1>1, QueueAgesType
  <1>7. BookTypes(F, H, D, st, np)
    BY BookTyped
  <1>8. Sampled(st, r, 0, t - qa, 0, d, 0)
    OBVIOUS
  <1> HIDE DEF qa, ts
  <1>9. QueueAges(Tail(H)) = QueueAges(H) + (ts - qa)
    BY <1>2, <1>5, <1>6
  <1>10. QueueAges(D) = QueueAges(D) + 0
    BY <1>6
  <1>11. LandedIn(D, r, np) = LandedIn(D, st, np) + 0
    BY <1>7, <1>8, SMTT(30) DEF Sampled, LandedIn, BookTypes
  <1>12. Cancels(0, t + d - ts, ts - qa, 0, t - qa, 0, d, 0, pt)
    BY <1>2 DEF Cancels
  <1>13. Aged(F, H, D, st, np, F \cup {g}, Tail(H), D, r, np,
              t + d - ts, ts - qa, 0, 0)
    BY <1>4, <1>9, <1>10, <1>11 DEF Aged
  <1> QED
    BY <1>7, <1>8, <1>12, <1>13, Rebalanced

\* ParkingArea::go(): the front airplane of the depart queue takes off.
LEMMA BalancedTakeoffGo ==
  ASSUME NEW F \in SUBSET Events, IsFiniteSet(F), NEW H \in Seq(Airplanes),
         NEW D \in Seq(Airplanes), D # << >>, Distinct(D),
         NEW st \in StatsType, NEW np \in Int, NEW pt \in Nat,
         Balanced(F, H, D, st, np, pt),
         NEW g \in Events, g \notin F, ~g.self, g.plane = Head(D),
         NEW t \in Int, NEW d \in Int, g.time = t + d, NEW r,
         Sampled(st, r, 0, 0, t - Head(D).queueArrivalTime, d, 1)
  PROVE  Balanced(F \cup {g}, H, Tail(D), r, np, pt)
  <1> DEFINE p == Head(D)
             qa == p.queueArrivalTime
             ts == p.timestamp
  <1>1. /\ p \in Airplanes /\ Tail(D) \in Seq(Airplanes)
        /\ Len(D) \in Nat /\ Len(Tail(D)) = Len(D) - 1
    BY PopFacts
  <1>2. qa \in Int /\ ts \in Int
    BY <1>1 DEF Airplanes
  <1>3. EventAges(F \cup {g}) = EventAges(F) + (g.time - g.plane.timestamp)
    BY EventAgesPut
  <1>4. EventAges(F \cup {g}) = EventAges(F) + (t + d - ts)
    BY <1>2, <1>3, EventAgesType
  <1>5. QueueAges(D) = QueueAges(Tail(D)) + (qa - ts)
    BY QueueAgesTail
  <1>6. QueueAges(Tail(D)) \in Int /\ QueueAges(H) \in Int
    BY <1>1, QueueAgesType
  <1>7. BookTypes(F, H, D, st, np)
    BY BookTyped
  <1>8. Sampled(st, r, 0, 0, t - qa, d, 1)
    OBVIOUS
  <1> HIDE DEF qa, ts
  <1>9. QueueAges(Tail(D)) = QueueAges(D) + (ts - qa)
    BY <1>2, <1>5, <1>6
  <1>10. QueueAges(H) = QueueAges(H) + 0
    BY <1>6
  <1>11. LandedIn(Tail(D), r, np) = LandedIn(D, st, np) + 0
    <2> DEFINE c == st["DepartQueueWaitingTime"].count
    <2>1. c \in Nat /\ r["DepartQueueWaitingTime"].count = c + 1
      BY <1>8, SignalNames, SampleTypes DEF Sampled
    <2> HIDE DEF c
    <2>2. np + (Len(D) - 1) + (c + 1) = np + Len(D) + c + 0
      BY <1>1, <2>1
    <2> QED
      BY <1>1, <2>1, <2>2 DEF LandedIn, c
  <1>12. Cancels(0, t + d - ts, 0, ts - qa, 0, t - qa, d, 0, pt)
    BY <1>2 DEF Cancels
  <1>13. Aged(F, H, D, st, np, F \cup {g}, H, Tail(D), r, np,
              t + d - ts, 0, ts - qa, 0)
    BY <1>4, <1>9, <1>10, <1>11 DEF Aged
  <1> QED
    BY <1>7, <1>8, <1>12, <1>13, Rebalanced

\* An airplane arrives and gets the runway at once; the next arrival is
\* scheduled.
LEMMA BalancedArrivalLands ==
  ASSUME NEW F \in SUBSET Events, IsFiniteSet(F), NEW H \in Seq(Airplanes),
         NEW D \in Seq(Airplanes), NEW st \in StatsType, NEW np \in Int,
         NEW pt \in Nat, Balanced(F, H, D, st, np, pt),
         NEW e, e.self /\ e.to = "airspace",
         NEW a \in Events, a.self /\ a.to = "airspace",
         NEW g \in Events, g \notin (F \ {e}) \cup {a}, ~g.self,
         NEW t \in Int, NEW d \in Int, g.time = t + d, g.plane.timestamp = t,
         NEW r, Sampled(st, r, 0, 0, 0, d, 0)
  PROVE  Balanced(((F \ {e}) \cup {a}) \cup {g}, H, D, r, np, pt)
  <1> DEFINE R == (F \ {e}) \cup {a}
  <1>1. R \in SUBSET Events /\ IsFiniteSet(R)
    BY FS_RemoveElement, FS_AddElement
  <1>2. EventAges(R) = EventAges(F)
    <2>1. EventAges(F \ {e}) = EventAges(F)
      BY ArrivalHasNoAge
    <2>2. EventAges((F \ {e}) \cup {a}) = EventAges(F \ {e})
      BY ArrivalHasNoAge
    <2> QED
      BY <2>1, <2>2
  <1>3. BookTypes(F, H, D, st, np)
    BY BookTyped
  <1> HIDE DEF R
  <1>4. EventAges(R \cup {g}) = EventAges(R) + (g.time - g.plane.timestamp)
    BY <1>1, EventAgesPut DEF R
  <1>5. EventAges(R) \in Int
    BY <1>1, EventAgesType
  <1>6. EventAges(R \cup {g}) = EventAges(F) + d
    BY <1>2, <1>4, <1>5
  <1>7. /\ QueueAges(H) = QueueAges(H) + 0 /\ QueueAges(D) = QueueAges(D) + 0
        /\ LandedIn(D, r, np) = LandedIn(D, st, np) + 0
    <2>1. QueueAges(H) = QueueAges(H) + 0 /\ QueueAges(D) = QueueAges(D) + 0
      BY <1>3, SMTT(30) DEF BookTypes
    <2>2. LandedIn(D, r, np) = LandedIn(D, st, np) + 0
      BY <1>3, SMTT(30) DEF BookTypes, Sampled, LandedIn
    <2> QED
      BY <2>1, <2>2
  <1>8. Aged(F, H, D, st, np, R \cup {g}, H, D, r, np, d, 0, 0, 0)
    BY <1>6, <1>7 DEF Aged
  <1>9. Cancels(0, d, 0, 0, 0, 0, d, 0, pt)
    BY DEF Cancels
  <1>10. Balanced(R \cup {g}, H, D, r, np, pt)
    BY <1>3, <1>8, <1>9, Rebalanced
  <1> QED
    BY <1>10 DEF R

\* An airplane arrives and joins the holding queue.
LEMMA BalancedArrivalWaits ==
  ASSUME NEW F \in SUBSET Events, IsFiniteSet(F), NEW H \in Seq(Airplanes),
         NEW D \in Seq(Airplanes), NEW st \in StatsType, NEW np \in Int,
         NEW pt \in Nat, Balanced(F, H, D, st, np, pt),
         NEW e, e.self /\ e.to = "airspace",
         NEW a, a.self /\ a.to = "airspace",
         NEW p \in Airplanes, p.queueArrivalTime = p.timestamp,
         \A i \in 1..Len(H) : H[i].id # p.id,
         NEW r, Sampled(st, r, 0, 0, 0, 0, 0)
  PROVE  Balanced((F \ {e}) \cup {a}, Append(H, p), D, r, np, pt)
  <1> DEFINE R == (F \ {e}) \cup {a}
  <1>1. EventAges(R) = EventAges(F)
    <2>1. EventAges(F \ {e}) = EventAges(F)
      BY ArrivalHasNoAge
    <2>2. EventAges((F \ {e}) \cup {a}) = EventAges(F \ {e})
      BY ArrivalHasNoAge
    <2> QED
      BY <2>1, <2>2
  <1>2. BookTypes(F, H, D, st, np)
    BY BookTyped
  <1>3. QueueAges(Append(H, p))
          = QueueAges(H) + (p.queueArrivalTime - p.timestamp)
    BY QueueAgesAppend
  <1>4. p.timestamp \in Int
    BY DEF Airplanes
  <1> HIDE DEF R
  <1>5. QueueAges(Append(H, p)) = QueueAges(H) + 0
    BY <1>2, <1>3, <1>4 DEF BookTypes
  <1>6. /\ EventAges(R) = EventAges(F) + 0 /\ QueueAges(D) = QueueAges(D) + 0
        /\ LandedIn(D, r, np) = LandedIn(D, st, np) + 0
    BY <1>1, <1>2, SMTT(30) DEF BookTypes, Sampled, LandedIn
  <1>7. Aged(F, H, D, st, np, R, Append(H, p), D, r, np, 0, 0, 0, 0)
    BY <1>5, <1>6 DEF Aged
  <1>8. Cancels(0, 0, 0, 0, 0, 0, 0, 0, pt)
    BY DEF Cancels
  <1>9. Balanced(R, Append(H, p), D, r, np, pt)
    BY <1>2, <1>7, <1>8, Rebalanced
  <1> QED
    BY <1>9 DEF R

\* An airplane goes on in another event: the ages grow by what that one
\* comes later.
LEMMA EventAgesResend ==
  ASSUME NEW F \in SUBSET Events, IsFiniteSet(F),
         NEW e \in F, ~ (e.self /\ e.to = "airspace"),
         NEW g \in Events, g \notin F \ {e}, ~ (g.self /\ g.to = "airspace"),
         g.plane = e.plane, NEW d \in Int, g.time = e.time + d
  PROVE  EventAges((F \ {e}) \cup {g}) = EventAges(F) + d
  <1> DEFINE R == F \ {e}
  <1>1. R \in SUBSET Events /\ IsFiniteSet(R)
    BY FS_RemoveElement
  <1>2. EventAges(F) = EventAges(R) + (e.time - e.plane.timestamp)
    BY EventAgesTake
  <1> HIDE DEF R
  <1>3. EventAges(R \cup {g}) = EventAges(R) + (g.time - g.plane.timestamp)
    BY <1>1, EventAgesPut DEF R
  <1>4. EventAges(R) \in Int
    BY <1>1, EventAgesType
  <1> DEFINE t == e.time
             ts == e.plane.timestamp
  <1>5. t \in Int /\ ts \in Int
    BY DEF Events, Airplanes
  <1>6. EventAges(R \cup {g}) = EventAges(R) + ((t + d) - ts)
    BY <1>3, <1>4, <1>5
  <1>7. EventAges(F) = EventAges(R) + (t - ts)
    BY <1>2
  <1> HIDE DEF t, ts
  <1>8. EventAges(R \cup {g}) = EventAges(F) + d
    BY <1>4, <1>5, <1>6, <1>7
  <1> QED
    BY <1>8 DEF R

\* An airplane has landed: it is parked for pt from now on.
LEMMA BalancedLanded ==
  ASSUME NEW F \in SUBSET Events, IsFiniteSet(F), NEW H \in Seq(Airplanes),
         NEW D \in Seq(Airplanes), NEW st \in StatsType, NEW np \in Int,
         NEW pt \in Nat, Balanced(F, H, D, st, np, pt),
         NEW e \in F, ~ (e.self /\ e.to = "airspace"),
         NEW g \in Events, g \notin F \ {e}, ~ (g.self /\ g.to = "airspace"),
         g.plane = e.plane, g.time = e.time + pt,
         NEW r, Sampled(st, r, 0, 0, 0, 0, 0)
  PROVE  Balanced((F \ {e}) \cup {g}, H, D, r, np + 1, pt)
  <1> DEFINE G == (F \ {e}) \cup {g}
  <1>1. pt \in Int
    OBVIOUS
  <1>2. EventAges(G) = EventAges(F) + pt
    BY <1>1, EventAgesResend
  <1>3. BookTypes(F, H, D, st, np)
    BY BookTyped
  <1> HIDE DEF G
  <1>4. QueueAges(H) = QueueAges(H) + 0 /\ QueueAges(D) = QueueAges(D) + 0
    BY <1>3 DEF BookTypes
  <1>5. LandedIn(D, r, np + 1) = LandedIn(D, st, np) + 1
    <2> DEFINE c == st["DepartQueueWaitingTime"].count
    <2>1. c \in Nat /\ r["DepartQueueWaitingTime"].count = c
      BY <1>3 DEF BookTypes, Sampled
    <2>2. Len(D) \in Nat
      OBVIOUS
    <2> HIDE DEF c
    <2>3. (np + 1) + Len(D) + c = np + Len(D) + c + 1
      BY <2>1, <2>2
    <2> QED
      BY <2>1, <2>3 DEF LandedIn, c
  <1>6. Aged(F, H, D, st, np, G, H, D, r, np + 1, pt, 0, 0, 1)
    BY <1>2, <1>4, <1>5 DEF Aged
  <1>7. Cancels(0, pt, 0, 0, 0, 0, 0, 1, pt)
    BY DEF Cancels
  <1>8. Balanced(G, H, D, r, np + 1, pt)
    BY <1>1, <1>3, <1>6, <1>7, Rebalanced
  <1> QED
    BY <1>8 DEF G

\* A parking time expires and the airplane gets the runway at once.
LEMMA BalancedTakesOff ==
  ASSUME NEW F \in SUBSET Events, IsFiniteSet(F), NEW H \in Seq(Airplanes),
         NEW D \in Seq(Airplanes), NEW st \in StatsType, NEW np \in Int,
         NEW pt \in Nat, Balanced(F, H, D, st, np, pt),
         NEW e \in F, ~ (e.self /\ e.to = "airspace"),
         NEW g \in Events, g \notin F \ {e}, ~ (g.self /\ g.to = "airspace"),
         g.plane = e.plane, NEW d \in Int, g.time = e.time + d,
         NEW r, Sampled(st, r, 0, 0, 0, d, 1)
  PROVE  Balanced((F \ {e}) \cup {g}, H, D, r, np - 1, pt)
  <1> DEFINE G == (F \ {e}) \cup {g}
  <1>2. EventAges(G) = EventAges(F) + d
    BY EventAgesResend
  <1>3. BookTypes(F, H, D, st, np)
    BY BookTyped
  <1> HIDE DEF G
  <1>4. QueueAges(H) = QueueAges(H) + 0 /\ QueueAges(D) = QueueAges(D) + 0
    BY <1>3 DEF BookTypes
  <1>5. LandedIn(D, r, np - 1) = LandedIn(D, st, np) + 0
    <2> DEFINE c == st["DepartQueueWaitingTime"].count
    <2>1. c \in Nat /\ r["DepartQueueWaitingTime"].count = c + 1
      BY <1>3 DEF BookTypes, Sampled
    <2>2. Len(D) \in Nat
      OBVIOUS
    <2> HIDE DEF c
    <2>3. (np - 1) + Len(D) + (c + 1) = np + Len(D) + c + 0
      BY <2>1, <2>2
    <2> QED
      BY <2>1, <2>3 DEF LandedIn, c
  <1>6. Aged(F, H, D, st, np, G, H, D, r, np - 1, d, 0, 0, 0)
    BY <1>2, <1>4, <1>5 DEF Aged
  <1>7. Cancels(0, d, 0, 0, 0, 0, d, 0, pt)
    BY DEF Cancels
  <1>8. Balanced(G, H, D, r, np - 1, pt)
    BY <1>3, <1>6, <1>7, Rebalanced
  <1> QED
    BY <1>8 DEF G

\* A parking time expires and the airplane joins the depart queue.
LEMMA BalancedTakeoffWaits ==
  ASSUME NEW F \in SUBSET Events, IsFiniteSet(F), NEW H \in Seq(Airplanes),
         NEW D \in Seq(Airplanes), NEW st \in StatsType, NEW np \in Int,
         NEW pt \in Nat, Balanced(F, H, D, st, np, pt),
         NEW e \in F, ~ (e.self /\ e.to = "airspace"),
         NEW p \in Airplanes, p.timestamp = e.plane.timestamp,
         p.queueArrivalTime = e.time,
         \A i \in 1..Len(D) : D[i].id # p.id,
         NEW r, Sampled(st, r, 0, 0, 0, 0, 0)
  PROVE  Balanced(F \ {e}, H, Append(D, p), r, np - 1, pt)
  <1> DEFINE R == F \ {e}
             t == e.time
             ts == e.plane.timestamp
             E == Append(D, p)
  <1>1. R \in SUBSET Events /\ IsFiniteSet(R)
    BY FS_RemoveElement
  <1>2. EventAges(F) = EventAges(R) + (t - ts)
    BY EventAgesTake
  <1>3. QueueAges(E) = QueueAges(D) + (p.queueArrivalTime - p.timestamp)
    BY QueueAgesAppend
  <1>4. EventAges(R) \in Int
    BY <1>1, EventAgesType
  <1>5. BookTypes(F, H, D, st, np)
    BY BookTyped
  <1>6. t \in Int /\ ts \in Int /\ p.queueArrivalTime = t /\ p.timestamp = ts
    BY DEF Events, Airplanes
  <1>7. Len(E) = Len(D) + 1 /\ Len(D) \in Nat
    BY AppendFacts
  <1> HIDE DEF R, t, ts, E
  <1>8. QueueAges(E) = QueueAges(D) + (t - ts)
    BY <1>3, <1>6
  <1>9. EventAges(R) = EventAges(F) + (ts - t)
    BY <1>2, <1>4, <1>6
  <1>10. QueueAges(H) = QueueAges(H) + 0
    BY <1>5 DEF BookTypes
  <1>11. LandedIn(E, r, np - 1) = LandedIn(D, st, np) + 0
    <2> DEFINE c == st["DepartQueueWaitingTime"].count
    <2>1. c \in Nat /\ r["DepartQueueWaitingTime"].count = c
      BY <1>5 DEF BookTypes, Sampled
    <2> HIDE DEF c
    <2>2. (np - 1) + (Len(D) + 1) + c = np + Len(D) + c + 0
      BY <1>7, <2>1
    <2> QED
      BY <1>7, <2>1, <2>2 DEF LandedIn, c
  <1>12. Aged(F, H, D, st, np, R, H, E, r, np - 1, ts - t, 0, t - ts, 0)
    BY <1>8, <1>9, <1>10, <1>11 DEF Aged
  <1>13. Cancels(0, ts - t, 0, t - ts, 0, 0, 0, 0, pt)
    BY <1>6 DEF Cancels
  <1>14. Balanced(R, H, E, r, np - 1, pt)
    BY <1>5, <1>12, <1>13, Rebalanced
  <1> QED
    BY <1>14 DEF R, E

\* An airplane has taken off: its age becomes its response time.
LEMMA BalancedTakenOff ==
  ASSUME NEW F \in SUBSET Events, IsFiniteSet(F), NEW H \in Seq(Airplanes),
         NEW D \in Seq(Airplanes), NEW st \in StatsType, NEW np \in Int,
         NEW pt \in Nat, Balanced(F, H, D, st, np, pt),
         NEW e \in F, ~ (e.self /\ e.to = "airspace"),
         NEW r, Sampled(st, r, e.time - e.plane.timestamp, 0, 0, 0, 0)
  PROVE  Balanced(F \ {e}, H, D, r, np, pt)
  <1> DEFINE R == F \ {e}
             t == e.time
             ts == e.plane.timestamp
  <1>1. R \in SUBSET Events /\ IsFiniteSet(R)
    BY FS_RemoveElement
  <1>2. EventAges(F) = EventAges(R) + (t - ts)
    BY EventAgesTake
  <1>3. EventAges(R) \in Int
    BY <1>1, EventAgesType
  <1>4. BookTypes(F, H, D, st, np)
    BY BookTyped
  <1>5. t \in Int /\ ts \in Int
    BY DEF Events, Airplanes
  <1>6. Sampled(st, r, t - ts, 0, 0, 0, 0)
    OBVIOUS
  <1> HIDE DEF R, t, ts
  <1>7. EventAges(R) = EventAges(F) + (ts - t)
    BY <1>2, <1>3, <1>5
  <1>8. /\ QueueAges(H) = QueueAges(H) + 0 /\ QueueAges(D) = QueueAges(D) + 0
        /\ LandedIn(D, r, np) = LandedIn(D, st, np) + 0
    BY <1>4, <1>6, SMTT(30) DEF BookTypes, Sampled, LandedIn
  <1>9. Aged(F, H, D, st, np, R, H, D, r, np, ts - t, 0, 0, 0)
    BY <1>7, <1>8 DEF Aged
  <1>10. Cancels(t - ts, ts - t, 0, 0, 0, 0, 0, 0, pt)
    BY <1>5 DEF Cancels
  <1>11. Balanced(R, H, D, r, np, pt)
    BY <1>4, <1>6, <1>9, <1>10, Rebalanced
  <1> QED
    BY <1>11 DEF R

(***************************************************************************)
(* The handlers keep the balance.                                          *)
(***************************************************************************)

\* No place holds an airplane of a delivered event, or one twice.
LEMMA DistinctPlaces ==
  ASSUME CountInv
  PROVE  /\ Distinct(holdingQueue) /\ Distinct(departQueue)
         /\ \A e \in fes : /\ \A i \in 1..Len(holdingQueue) :
                                holdingQueue[i].id # e.plane.id
                           /\ \A i \in 1..Len(departQueue) :
                                departQueue[i].id # e.plane.id
  BY DEF CountInv, PlacedOnce, Distinct

\* completed(): the strip is freed, or a queue's front airplane moves on.
LEMMA CompletedBalanced ==
  ASSUME TypeOK, CountInv, NEW t \in Nat, NEW kept \in SUBSET Events,
         IsFiniteSet(kept), \A f \in kept : f.seq < seq + 1,
         NEW st \in StatsType, completed(t, kept, st),
         NEW np \in Int, NEW pt \in Nat,
         Balanced(kept, holdingQueue, departQueue, st, np, pt)
  PROVE  Balanced(fes', holdingQueue', departQueue', stats', np, pt)
  <1>1. /\ holdingQueue \in Seq(Airplanes) /\ departQueue \in Seq(Airplanes)
        /\ par \in Configs /\ seq \in Nat /\ seq + 1 \in Nat
    BY DEF TypeOK
  <1>2. Distinct(holdingQueue) /\ Distinct(departQueue)
    BY DistinctPlaces
  <1>3. CASE FreeStrip(kept, st)
    BY <1>3 DEF FreeStrip
  <1>4. CASE HandOverToLanding(t, kept, st)
    <2> DEFINE plane == Head(holdingQueue)
               w == t - plane.queueArrivalTime
               v == Len(holdingQueue) - 1
    <2>1. /\ holdingQueue # << >>
          /\ holdingQueue' = Tail(holdingQueue) /\ departQueue' = departQueue
      BY <1>4, SelectedFacts DEF HandOverToLanding, AirspaceGo
    <2>2. plane \in Airplanes /\ w \in Int /\ v \in Int
      BY <1>1, <2>1, PopFacts, SMTT(30) DEF Airplanes
    <2>3. PICK d \in LandingTimes :
            /\ fes' = kept \cup {Message("parkingarea", t + d, seq + 1, plane)}
            /\ stats' = Emit(Emit(Emit(st, "HoldingQueueWaitingTime", w),
                                  "HoldingQueueSize", v), "RunwayUse", d)
      BY <1>4 DEF HandOverToLanding, AirspaceGo, StartLanding
    <2>4. d \in Nat
      BY <1>1, DrawsAreNat
    <2> DEFINE g == Message("parkingarea", t + d, seq + 1, plane)
    <2>5. /\ g.seq = seq + 1 /\ g.plane = plane /\ g.time = t + d /\ ~g.self
      BY DEF Message
    <2>6. g \in Events
      BY <1>1, <2>2, <2>4, MessageTypes DEF Modules
    <2>7. fes' = kept \cup {g}
      BY <2>3
    <2> HIDE DEF g
    <2>8. g \notin kept
      BY <1>1, <2>5, FreshEvent
    <2>9. Sampled(st, stats', 0, w, 0, d, 0)
      BY <2>2, <2>3, <2>4, LandingSampled
    <2>10. t \in Int /\ d \in Int
      BY <2>4
    <2>11. Balanced(kept \cup {g}, Tail(holdingQueue), departQueue, stats', np, pt)
      BY <1>1, <1>2, <2>1, <2>5, <2>6, <2>8, <2>9, <2>10, BalancedLandingGo
    <2> QED
      BY <2>1, <2>7, <2>11
  <1>5. CASE HandOverToTakeoff(t, kept, st)
    <2> DEFINE plane == Head(departQueue)
               w == t - plane.queueArrivalTime
               v == Len(departQueue) - 1
    <2>1. /\ departQueue # << >>
          /\ departQueue' = Tail(departQueue) /\ holdingQueue' = holdingQueue
      BY <1>5, SelectedFacts DEF HandOverToTakeoff, ParkingAreaGo
    <2>2. plane \in Airplanes /\ w \in Int /\ v \in Int
      BY <1>1, <2>1, PopFacts, SMTT(30) DEF Airplanes
    <2>3. PICK d \in TakeoffTimes :
            /\ fes' = kept \cup {Message("airspace", t + d, seq + 1, plane)}
            /\ stats' = Emit(Emit(Emit(st, "DepartQueueWaitingTime", w),
                                  "DepartQueueSize", v), "RunwayUse", d)
      BY <1>5 DEF HandOverToTakeoff, ParkingAreaGo, StartTakeoff
    <2>4. d \in Nat
      BY <1>1, DrawsAreNat
    <2> DEFINE g == Message("airspace", t + d, seq + 1, plane)
    <2>5. /\ g.seq = seq + 1 /\ g.plane = plane /\ g.time = t + d /\ ~g.self
      BY DEF Message
    <2>6. g \in Events
      BY <1>1, <2>2, <2>4, MessageTypes DEF Modules
    <2>7. fes' = kept \cup {g}
      BY <2>3
    <2> HIDE DEF g
    <2>8. g \notin kept
      BY <1>1, <2>5, FreshEvent
    <2>9. Sampled(st, stats', 0, 0, w, d, 1)
      BY <2>2, <2>3, <2>4, TakeoffSampled
    <2>10. t \in Int /\ d \in Int
      BY <2>4
    <2>11. Balanced(kept \cup {g}, holdingQueue, Tail(departQueue), stats', np, pt)
      BY <1>1, <1>2, <2>1, <2>5, <2>6, <2>8, <2>9, <2>10, BalancedTakeoffGo
    <2> QED
      BY <2>1, <2>7, <2>11
  <1> QED
    BY <1>3, <1>4, <1>5 DEF completed

\* An airplane arrives: its next step and the next arrival are scheduled.
LEMMA ArrivalGrantedBalanced ==
  ASSUME TypeOK, CountInv, NEW e \in fes, ArrivalGranted(e),
         UNCHANGED parkingVars, NEW pt \in Nat,
         Balanced(fes, holdingQueue, departQueue, stats, numParked, pt)
  PROVE  Balanced(fes', holdingQueue', departQueue', stats', numParked', pt)
  <1>1. /\ Deliver(e, "airspace", TRUE)
        /\ holdingQueue' = holdingQueue /\ departQueue' = departQueue
        /\ numParked' = numParked
    BY DEF ArrivalGranted, Arrival, parkingVars
  <1>2. /\ e.plane \in Airplanes /\ e.to = "airspace" /\ e.self = TRUE
        /\ seq \in Nat /\ created \in Nat /\ numParked \in Int
        /\ holdingQueue \in Seq(Airplanes) /\ departQueue \in Seq(Airplanes)
        /\ stats \in StatsType /\ par \in Configs
        /\ fes \in SUBSET Events /\ e.time \in Nat
        /\ IsFiniteSet(fes)
        /\ \A f \in fes \ {e} : f.seq < seq
    BY <1>1, DeliverCounts
  <1>3. PICK x \in InterArrivalTimes, d \in LandingTimes :
          /\ fes' = ((fes \ {e}) \cup {NextArrival(e.time, x)})
                      \cup {Message("parkingarea", e.time + d, seq, Stamped(e))}
          /\ stats' = Emit(Emit(Emit(stats, "HoldingQueueSize", 0),
                                "HoldingQueueWaitingTime", 0), "RunwayUse", d)
    BY DEF ArrivalGranted, StartLanding
  <1>4. x \in Nat /\ d \in Nat
    BY <1>2, DrawsAreNat
  <1> DEFINE a == NextArrival(e.time, x)
             g == Message("parkingarea", e.time + d, seq, Stamped(e))
  <1>5. a.seq = seq + 1 /\ a.self /\ a.to = "airspace"
    BY DEF NextArrival, SelfMessage
  <1>6. Stamped(e) \in Airplanes /\ Stamped(e).timestamp = e.time
    BY <1>2 DEF Stamped, Airplanes
  <1>7. /\ g.seq = seq /\ ~g.self /\ g.time = e.time + d
        /\ g.plane.timestamp = e.time
    BY <1>6 DEF Message
  <1>8. a \in Events /\ g \in Events
    <2>1. NewAirplane(created + 1) \in Airplanes
      BY <1>2 DEF NewAirplane, Airplanes
    <2>2. e.time + x \in Nat /\ e.time + d \in Nat /\ seq + 1 \in Nat
      BY <1>2, <1>4
    <2>3. "airspace" \in Modules /\ "parkingarea" \in Modules
      BY DEF Modules
    <2> QED
      BY <1>2, <1>6, <2>1, <2>2, <2>3, MessageTypes DEF NextArrival
  <1>9. fes' = ((fes \ {e}) \cup {a}) \cup {g}
    BY <1>3
  <1> HIDE DEF a, g
  <1>10. g \notin (fes \ {e}) \cup {a}
    BY <1>2, <1>5, <1>7 DEF Events
  <1>11. Sampled(stats, stats', 0, 0, 0, d, 0)
    BY <1>2, <1>3, <1>4, LandingSampled
  <1>12. e.time \in Int /\ d \in Int
    BY <1>2, <1>4
  <1>13. Balanced(((fes \ {e}) \cup {a}) \cup {g}, holdingQueue, departQueue,
                  stats', numParked, pt)
    BY <1>2, <1>5, <1>7, <1>8, <1>10, <1>11, <1>12, BalancedArrivalLands
  <1> QED
    BY <1>1, <1>9, <1>13

\* An arrival that has to wait keeps the balance.
LEMMA ArrivalQueuedBalanced ==
  ASSUME TypeOK, CountInv, NEW e \in fes, ArrivalQueued(e),
         UNCHANGED parkingVars, NEW pt \in Nat,
         Balanced(fes, holdingQueue, departQueue, stats, numParked, pt)
  PROVE  Balanced(fes', holdingQueue', departQueue', stats', numParked', pt)
  <1> DEFINE p == [Stamped(e) EXCEPT !.queueArrivalTime = e.time]
  <1>1. /\ Deliver(e, "airspace", TRUE)
        /\ holdingQueue' = Append(holdingQueue, p) /\ departQueue' = departQueue
        /\ numParked' = numParked
        /\ stats' = Emit(stats, "HoldingQueueSize", Len(holdingQueue) + 1)
    BY DEF ArrivalQueued, Arrival, parkingVars
  <1>2. /\ e.plane \in Airplanes /\ e.to = "airspace" /\ e.self = TRUE
        /\ numParked \in Int
        /\ holdingQueue \in Seq(Airplanes) /\ departQueue \in Seq(Airplanes)
        /\ stats \in StatsType
        /\ fes \in SUBSET Events /\ e.time \in Nat
        /\ IsFiniteSet(fes)
    BY <1>1, DeliverCounts
  <1>3. PICK x \in InterArrivalTimes :
          fes' = (fes \ {e}) \cup {NextArrival(e.time, x)}
    BY DEF ArrivalQueued
  <1> DEFINE a == NextArrival(e.time, x)
  <1>4. a.self /\ a.to = "airspace"
    BY DEF NextArrival, SelfMessage
  <1>5. /\ p \in Airplanes /\ p.timestamp = e.time
        /\ p.queueArrivalTime = e.time /\ p.id = e.plane.id
    BY <1>2 DEF Stamped, Airplanes
  <1>6. \A i \in 1..Len(holdingQueue) : holdingQueue[i].id # e.plane.id
    BY DistinctPlaces
  <1>7. Len(holdingQueue) + 1 \in Int
    BY <1>2
  <1>8. Sampled(stats, stats', 0, 0, 0, 0, 0)
    BY <1>1, <1>2, <1>7, OtherSampled
  <1>9. fes' = (fes \ {e}) \cup {a}
    BY <1>3
  <1> HIDE DEF a, p
  <1>10. Balanced((fes \ {e}) \cup {a}, Append(holdingQueue, p), departQueue,
                  stats', numParked, pt)
    BY <1>2, <1>4, <1>5, <1>6, <1>8, BalancedArrivalWaits
  <1> QED
    BY <1>1, <1>9, <1>10

\* A parking time expires.
LEMMA ParkingExpiredGrantedBalanced ==
  ASSUME TypeOK, CountInv, NEW e \in fes, ParkingExpiredGranted(e),
         UNCHANGED airspaceVars, NEW pt \in Nat,
         Balanced(fes, holdingQueue, departQueue, stats, numParked, pt)
  PROVE  Balanced(fes', holdingQueue', departQueue', stats', numParked', pt)
  <1>1. /\ Deliver(e, "parkingarea", TRUE)
        /\ holdingQueue' = holdingQueue /\ departQueue' = departQueue
        /\ numParked' = numParked - 1
    BY DEF ParkingExpiredGranted, ParkingExpired, airspaceVars
  <1>2. /\ e.plane \in Airplanes /\ e.to = "parkingarea"
        /\ seq \in Nat /\ numParked \in Int
        /\ holdingQueue \in Seq(Airplanes) /\ departQueue \in Seq(Airplanes)
        /\ stats \in StatsType /\ par \in Configs
        /\ fes \in SUBSET Events /\ e.time \in Nat
        /\ IsFiniteSet(fes)
        /\ \A f \in fes \ {e} : f.seq < seq
    BY <1>1, DeliverCounts
  <1>3. PICK d \in TakeoffTimes :
          /\ fes' = (fes \ {e}) \cup {Message("airspace", e.time + d, seq, e.plane)}
          /\ stats' = Emit(Emit(Emit(Unparked, "DepartQueueSize", 0),
                                "DepartQueueWaitingTime", 0), "RunwayUse", d)
    BY DEF ParkingExpiredGranted, StartTakeoff
  <1>4. d \in Nat
    BY <1>2, DrawsAreNat
  <1> DEFINE g == Message("airspace", e.time + d, seq, e.plane)
  <1>5. g.seq = seq /\ ~g.self /\ g.time = e.time + d /\ g.plane = e.plane
    BY DEF Message
  <1>6. g \in Events
    BY <1>2, <1>4, MessageTypes DEF Modules
  <1>7. fes' = (fes \ {e}) \cup {g}
    BY <1>3
  <1>8. g \notin fes \ {e}
    BY <1>2, <1>5 DEF Events
  <1>9. /\ Unparked \in StatsType
        /\ Sampled(stats, Unparked, 0, 0, 0, 0, 0)
    <2>1. numParked - 1 \in Int
      BY <1>2
    <2> QED
      BY <1>2, <2>1, OtherSampled DEF Unparked
  <1>10. BookTypes(fes, holdingQueue, departQueue, stats, numParked)
    BY <1>2, BookTyped
  <1>11. Balanced(fes, holdingQueue, departQueue, Unparked, numParked, pt)
    BY <1>9, <1>10, BalancedSample
  <1>12. Sampled(Unparked, stats', 0, 0, 0, d, 1)
    BY <1>3, <1>4, <1>9, TakeoffSampled
  <1>13. ~ (e.self /\ e.to = "airspace") /\ ~ (g.self /\ g.to = "airspace")
    BY <1>2, <1>5
  <1> HIDE DEF g
  <1>14. Balanced((fes \ {e}) \cup {g}, holdingQueue, departQueue, stats',
                  numParked - 1, pt)
    BY <1>2, <1>4, <1>5, <1>6, <1>8, <1>9, <1>11, <1>12, <1>13, BalancedTakesOff
  <1> QED
    BY <1>1, <1>7, <1>14

\* An airplane that waits for take-off keeps the balance.
LEMMA ParkingExpiredQueuedBalanced ==
  ASSUME TypeOK, CountInv, NEW e \in fes, ParkingExpiredQueued(e),
         UNCHANGED airspaceVars, NEW pt \in Nat,
         Balanced(fes, holdingQueue, departQueue, stats, numParked, pt)
  PROVE  Balanced(fes', holdingQueue', departQueue', stats', numParked', pt)
  <1> DEFINE p == [e.plane EXCEPT !.queueArrivalTime = e.time]
             v == Len(departQueue) + 1
  <1>1. /\ Deliver(e, "parkingarea", TRUE)
        /\ holdingQueue' = holdingQueue /\ departQueue' = Append(departQueue, p)
        /\ numParked' = numParked - 1
        /\ fes' = fes \ {e}
        /\ stats' = Emit(Unparked, "DepartQueueSize", v)
    BY DEF ParkingExpiredQueued, ParkingExpired, airspaceVars
  <1>2. /\ e.plane \in Airplanes /\ e.to = "parkingarea"
        /\ numParked \in Int
        /\ holdingQueue \in Seq(Airplanes) /\ departQueue \in Seq(Airplanes)
        /\ stats \in StatsType
        /\ fes \in SUBSET Events /\ e.time \in Nat
        /\ IsFiniteSet(fes)
    BY <1>1, DeliverCounts
  <1>3. /\ p \in Airplanes /\ p.timestamp = e.plane.timestamp
        /\ p.queueArrivalTime = e.time /\ p.id = e.plane.id
    BY <1>2 DEF Airplanes
  <1>4. \A i \in 1..Len(departQueue) : departQueue[i].id # e.plane.id
    BY DistinctPlaces
  <1>5. /\ Unparked \in StatsType
        /\ Sampled(stats, Unparked, 0, 0, 0, 0, 0)
    <2>1. numParked - 1 \in Int
      BY <1>2
    <2> QED
      BY <1>2, <2>1, OtherSampled DEF Unparked
  <1>6. BookTypes(fes, holdingQueue, departQueue, stats, numParked)
    BY <1>2, BookTyped
  <1>7. Balanced(fes, holdingQueue, departQueue, Unparked, numParked, pt)
    BY <1>5, <1>6, BalancedSample
  <1>8. v \in Int
    BY <1>2
  <1>9. Sampled(Unparked, stats', 0, 0, 0, 0, 0)
    BY <1>1, <1>5, <1>8, OtherSampled
  <1>10. ~ (e.self /\ e.to = "airspace")
    BY <1>2
  <1> HIDE DEF p
  <1>11. Balanced(fes \ {e}, holdingQueue, Append(departQueue, p), stats',
                  numParked - 1, pt)
    BY <1>2, <1>3, <1>4, <1>5, <1>7, <1>9, <1>10, BalancedTakeoffWaits
  <1> QED
    BY <1>1, <1>11

\* An airplane has landed and is parked for the constant parking time.
LEMMA LandedBalanced ==
  ASSUME TypeOK, CountInv, NEW e \in fes, Landed(e),
         NEW pt \in Nat, ParkingTimes = {pt},
         Balanced(fes, holdingQueue, departQueue, stats, numParked, pt)
  PROVE  Balanced(fes', holdingQueue', departQueue', stats', numParked', pt)
  <1>1. Deliver(e, "parkingarea", FALSE) /\ numParked' = numParked + 1
    BY DEF Landed
  <1>2. /\ e.plane \in Airplanes /\ e.to = "parkingarea"
        /\ seq \in Nat /\ numParked \in Int
        /\ holdingQueue \in Seq(Airplanes) /\ departQueue \in Seq(Airplanes)
        /\ stats \in StatsType
        /\ fes \in SUBSET Events /\ e.time \in Nat
        /\ IsFiniteSet(fes)
        /\ \A f \in fes \ {e} : f.seq < seq
    BY <1>1, DeliverCounts
  <1> DEFINE g == SelfMessage("parkingarea", e.time + pt, seq, e.plane)
             r == Emit(stats, "ParkedPlanes", numParked + 1)
             G == (fes \ {e}) \cup {g}
  <1>3. completed(e.time, G, r)
    BY DEF Landed
  <1>4. /\ g.seq = seq /\ g.time = e.time + pt /\ g.plane = e.plane
        /\ g.to = "parkingarea"
    BY DEF SelfMessage
  <1>5. g \in Events
    BY <1>2, MessageTypes DEF Modules
  <1> HIDE DEF g
  <1>6. g \notin fes \ {e}
    BY <1>2, <1>4 DEF Events
  <1>7. /\ IsFiniteSet(G) /\ G \in SUBSET Events
        /\ \A f \in G : f.seq < seq + 1
    <2>1. IsFiniteSet(G)
      BY <1>2, FS_RemoveElement, FS_AddElement
    <2>2. \A f \in G : f.seq < seq + 1
      BY <1>2, <1>4 DEF Events
    <2> QED
      BY <1>2, <1>5, <2>1, <2>2
  <1>8. r \in StatsType /\ Sampled(stats, r, 0, 0, 0, 0, 0)
    <2>1. numParked + 1 \in Int
      BY <1>2
    <2> QED
      BY <1>2, <2>1, OtherSampled
  <1>9. ~ (e.self /\ e.to = "airspace") /\ ~ (g.self /\ g.to = "airspace")
    BY <1>2, <1>4
  <1> HIDE DEF r
  <1>10. Balanced(G, holdingQueue, departQueue, r, numParked + 1, pt)
    BY <1>2, <1>4, <1>5, <1>6, <1>8, <1>9, BalancedLanded
  <1> HIDE DEF G
  <1>11. numParked + 1 \in Int
    BY <1>2
  <1>12. Balanced(fes', holdingQueue', departQueue', stats', numParked + 1, pt)
    BY <1>2, <1>3, <1>7, <1>8, <1>10, <1>11, CompletedBalanced
  <1> QED
    BY <1>1, <1>12

\* An airplane has taken off.
LEMMA DepartureBalanced ==
  ASSUME TypeOK, CountInv, NEW e \in fes, Departed(e) \/ LastDeparted(e),
         NEW pt \in Nat,
         Balanced(fes, holdingQueue, departQueue, stats, numParked, pt)
  PROVE  Balanced(fes', holdingQueue', departQueue', stats', numParked', pt)
  <1>1. Deliver(e, "airspace", FALSE) /\ numParked' = numParked
    BY DEF Departed, LastDeparted, TakenOff
  <1>2. /\ e.plane \in Airplanes /\ e.self = FALSE
        /\ seq \in Nat /\ numParked \in Int
        /\ holdingQueue \in Seq(Airplanes) /\ departQueue \in Seq(Airplanes)
        /\ stats \in StatsType
        /\ fes \in SUBSET Events /\ e.time \in Nat
        /\ IsFiniteSet(fes) /\ IsFiniteSet(fes \ {e})
        /\ fes \ {e} \in SUBSET Events
        /\ \A f \in fes \ {e} : f.seq < seq
    BY <1>1, DeliverCounts
  <1> DEFINE r == Responded(e)
             R == fes \ {e}
  <1>3. e.time - e.plane.timestamp \in Int
    BY <1>2 DEF Airplanes
  <1>4. /\ r \in StatsType
        /\ Sampled(stats, r, e.time - e.plane.timestamp, 0, 0, 0, 0)
    BY <1>2, <1>3, ResponseSampled DEF Responded
  <1> HIDE DEF r
  <1>5. Balanced(R, holdingQueue, departQueue, r, numParked, pt)
    BY <1>2, <1>4, BalancedTakenOff
  <1>6. ASSUME Departed(e)
        PROVE  Balanced(fes', holdingQueue', departQueue', stats', numParked, pt)
    <2>1. completed(e.time, R, r)
      BY <1>6 DEF Departed, r
    <2>2. \A f \in R : f.seq < seq + 1
      BY <1>2 DEF Events
    <2>3. R \in SUBSET Events /\ IsFiniteSet(R)
      BY <1>2
    <2> HIDE DEF R
    <2> QED
      BY <1>2, <1>4, <1>5, <2>1, <2>2, <2>3, CompletedBalanced
  <1>7. ASSUME LastDeparted(e)
        PROVE  Balanced(fes', holdingQueue', departQueue', stats', numParked, pt)
    <2>1. /\ fes' = R /\ stats' = Emit(r, "TotalSimtime", e.time)
          /\ holdingQueue' = holdingQueue /\ departQueue' = departQueue
      BY <1>7 DEF LastDeparted, r
    <2>2. e.time \in Int
      BY <1>2
    <2>3. Sampled(r, stats', 0, 0, 0, 0, 0)
      BY <1>4, <2>1, <2>2, OtherSampled
    <2>4. BookTypes(R, holdingQueue, departQueue, r, numParked)
      BY <1>2, <1>4, BookTyped
    <2>5. Balanced(R, holdingQueue, departQueue, stats', numParked, pt)
      BY <1>5, <2>3, <2>4, BalancedSample
    <2> QED
      BY <2>1, <2>5
  <1> QED
    BY <1>1, <1>6, <1>7

(***************************************************************************)
(* The invariant.                                                          *)
(***************************************************************************)
LEMMA BalanceInit == Init => BalanceInv
  <1> SUFFICES ASSUME Init
               PROVE  Balanced(fes, holdingQueue, departQueue, stats,
                               numParked, par.parkingTime)
    BY DEF BalanceInv
  <1>1. PICK a \in InterArrivalTimes :
          fes = {SelfMessage("airspace", a, 0, NewAirplane(1))}
    BY DEF Init, InitAirspace
  <1>2. MovingIn(fes) = {}
    BY <1>1 DEF MovingIn, SelfMessage
  <1>3. /\ holdingQueue = << >> /\ departQueue = << >>
        /\ Len(holdingQueue) = 0 /\ Len(departQueue) = 0 /\ numParked = 0
    BY DEF Init, InitAirspace, InitParkingArea
  <1>4. Queued(holdingQueue) = {} /\ Queued(departQueue) = {}
    BY <1>3 DEF Queued
  <1>5. IsFiniteSet({})
    BY FS_EmptySet
  <1>6. /\ EventAges(fes) = 0
        /\ QueueAges(holdingQueue) = 0 /\ QueueAges(departQueue) = 0
    BY <1>2, <1>4, <1>5, TotalStep DEF EventAges, QueueAges
  <1>7. \A s \in Signals : stats[s].sum = 0 /\ stats[s].count = 0
    BY DEF Init, InitStats
  <1>8. par.parkingTime \in Nat
    BY ConfigsAssumption DEF Init, Parameters
  <1>9. par.parkingTime * 0 = 0
    BY <1>8
  <1> QED
    BY <1>3, <1>6, <1>7, <1>9, SignalNames DEF Balanced

\* Every step keeps the balance.
LEMMA BalanceNext ==
  RunwayInv /\ CountInv /\ BalanceInv /\ [Next]_vars => BalanceInv'
  <1> SUFFICES ASSUME RunwayInv, CountInv, BalanceInv, [Next]_vars
               PROVE  BalanceInv'
    OBVIOUS
  <1>0. TypeOK
    BY DEF RunwayInv
  <1>1. CASE UNCHANGED vars
    BY <1>1 DEF vars, BalanceInv
  <1>2. CASE Next
    <2>1. PICK e \in fes :
            \/ ArrivalGranted(e) /\ UNCHANGED parkingVars
            \/ ArrivalQueued(e) /\ UNCHANGED parkingVars
            \/ ParkingExpiredGranted(e) /\ UNCHANGED airspaceVars
            \/ ParkingExpiredQueued(e) /\ UNCHANGED airspaceVars
            \/ Landed(e) \/ Departed(e) \/ LastDeparted(e)
      BY <1>2 DEF Next
    <2>2. par' = par
      BY <2>1 DEF ArrivalGranted, ArrivalQueued, Arrival,
         ParkingExpiredGranted, ParkingExpiredQueued, ParkingExpired,
         Landed, Departed, LastDeparted, TakenOff, Deliver
    <2>3. ASSUME ~par.isParkingTimeRandom
          PROVE  Balanced(fes', holdingQueue', departQueue', stats',
                          numParked', par.parkingTime)
      <3>1. par.parkingTime \in Nat
        BY <1>0, ConfigsAssumption DEF TypeOK, Parameters
      <3>2. ParkingTimes = {par.parkingTime}
        BY <2>3 DEF ParkingTimes, Draw
      <3>3. Balanced(fes, holdingQueue, departQueue, stats, numParked,
                     par.parkingTime)
        BY <2>3 DEF BalanceInv
      <3> QED
        BY <1>0, <2>1, <3>1, <3>2, <3>3, ArrivalGrantedBalanced,
           ArrivalQueuedBalanced, ParkingExpiredGrantedBalanced,
           ParkingExpiredQueuedBalanced, LandedBalanced, DepartureBalanced
    <2> QED
      BY <2>2, <2>3 DEF BalanceInv
  <1> QED
    BY <1>1, <1>2

\* The books balance in every state: recorded response times and ages, cut
\* where the stages begin and end, against recorded waits and runway uses.
THEOREM BooksBalance == Spec => []BalanceInv
  BY BalanceInit, BalanceNext, RunwayInvariant, CountInvariant, PTL DEF Spec

(***************************************************************************)
(* From the balance to the times of the airplanes at the moment n.         *)
(***************************************************************************)
Ages(S, n)     == Total([p \in S |-> n - p.timestamp], S)
Spent(S, n)    == Total([p \in S |-> n - p.queueArrivalTime], S)
TimeLeft(S, n) == Total([e \in S |-> e.time - n], S)

\* In a queue: the age of an airplane is its age when it was queued and the
\* time it has waited since.
LEMMA AgesQueued ==
  ASSUME NEW q \in Seq(Airplanes), NEW n \in Int
  PROVE  /\ Ages(Queued(q), n) = QueueAges(q) + Spent(Queued(q), n)
         /\ QueueAges(q) \in Int /\ Spent(Queued(q), n) \in Int
  <1> DEFINE S == Queued(q)
             f == AgeWhenQueued
             g == [p \in S |-> n - p.queueArrivalTime]
             h == [p \in S |-> n - p.timestamp]
  <1>1. /\ IsFiniteSet(S) /\ S \subseteq Airplanes /\ QueueAges(q) \in Int
        /\ \A p \in S : f[p] \in Int
    BY QueueAgesType
  <1>2. \A p \in S : /\ f[p] = p.queueArrivalTime - p.timestamp
                     /\ p.queueArrivalTime \in Int /\ p.timestamp \in Int
    BY <1>1, AgeTypes DEF Airplanes
  <1> HIDE DEF S, f
  <1>3. \A p \in S : f[p] \in Int /\ g[p] \in Int /\ h[p] = f[p] + g[p]
    BY <1>1, <1>2
  <1> HIDE DEF g, h
  <1>4. Total(h, S) = Total(f, S) + Total(g, S)
    BY <1>1, <1>3, TotalPlus
  <1>5. Total(g, S) \in Int
    BY <1>1, <1>3, TotalInt
  <1> QED
    BY <1>1, <1>4, <1>5 DEF Ages, Spent, QueueAges, S, f, g, h

\* In an event: the age of an airplane is its age at the event less the time
\* that is left.
LEMMA AgesMoving ==
  ASSUME NEW F \in SUBSET Events, IsFiniteSet(F), NEW n \in Int,
         \A e, f \in F : e.plane.id = f.plane.id => e = f
  PROVE  LET M == MovingIn(F)
             P == {e.plane : e \in M}
         IN  /\ EventAges(F) = Ages(P, n) + TimeLeft(M, n)
             /\ Ages(P, n) \in Int /\ TimeLeft(M, n) \in Int
             /\ IsFiniteSet(P) /\ P \subseteq Airplanes
  <1> DEFINE M == MovingIn(F)
             P == {e.plane : e \in M}
             pl == [e \in M |-> e.plane]
             f == [e \in M |-> n - e.plane.timestamp]
             g == [e \in M |-> e.time - n]
             a == [p \in P |-> n - p.timestamp]
             h == AgeAtEvent
  <1>1. IsFiniteSet(M) /\ M \subseteq F
    BY EventAgesType DEF MovingIn
  <1>2. \A e \in M : /\ h[e] = e.time - e.plane.timestamp
                     /\ e.time \in Int /\ e.plane.timestamp \in Int
                     /\ e.plane \in Airplanes
    BY <1>1, AgeTypes DEF Events, Airplanes
  <1>3. EventAges(F) = Total(h, M)
    BY DEF EventAges
  <1> HIDE DEF M, h
  <1>4. \A e \in M : f[e] \in Int /\ g[e] \in Int /\ h[e] = f[e] + g[e]
    BY <1>2
  <1>5. P = {pl[e] : e \in M} /\ \A e \in M : pl[e] = e.plane /\ e.plane \in P
    OBVIOUS
  <1>6. \A e, d \in M : pl[e] = pl[d] => e = d
    BY <1>1
  <1>7. \A e \in M : a[pl[e]] \in Int /\ f[e] = a[pl[e]]
    BY <1>2
  <1>8. IsFiniteSet(P) /\ P \subseteq Airplanes
    <2>1. pl \in Surjection(M, P)
      BY DEF Surjection
    <2>2. IsFiniteSet(P)
      BY <1>1, <2>1, FS_Surjection
    <2> QED
      BY <1>2, <2>2
  <1> HIDE DEF f, g, a, pl
  <1>9. Total(a, {pl[e] : e \in M}) = Total(f, M)
    BY <1>1, <1>6, <1>7, TotalImage
  <1>10. Total(h, M) = Total(f, M) + Total(g, M)
    BY <1>1, <1>4, TotalPlus
  <1>11. Total(f, M) \in Int /\ Total(g, M) \in Int
    BY <1>1, <1>4, TotalInt
  <1>12. Total(a, P) = Total(f, M)
    BY <1>5, <1>9
  <1>13. Ages(P, n) = Total(a, P) /\ TimeLeft(M, n) = Total(g, M)
    BY DEF Ages, TimeLeft, a, g
  <1> HIDE DEF P
  <1>14. /\ EventAges(F) = Ages(P, n) + TimeLeft(M, n)
         /\ Ages(P, n) \in Int /\ TimeLeft(M, n) \in Int
         /\ IsFiniteSet(P) /\ P \subseteq Airplanes
    BY <1>3, <1>8, <1>10, <1>11, <1>12, <1>13
  <1> QED
    BY <1>14 DEF M, P

\* Sums over the parts of a set of airplanes or of events.
LEMMA AgesUnion ==
  ASSUME NEW S, IsFiniteSet(S), S \subseteq Airplanes,
         NEW R, IsFiniteSet(R), R \subseteq Airplanes, S \cap R = {},
         NEW n \in Int
  PROVE  Ages(S \cup R, n) = Ages(S, n) + Ages(R, n)
  <1> DEFINE g == [p \in S \cup R |-> n - p.timestamp]
             s == [p \in S |-> n - p.timestamp]
             r == [p \in R |-> n - p.timestamp]
  <1>1. /\ \A p \in S : s[p] \in Int /\ g[p] = s[p]
        /\ \A p \in R : r[p] \in Int /\ g[p] = r[p]
        /\ \A p \in S \cup R : g[p] \in Int
    BY DEF Airplanes
  <1> HIDE DEF g, s, r
  <1>2. Total(s, S) = Total(g, S) /\ Total(r, R) = Total(g, R)
    BY <1>1, TotalSame
  <1>3. Total(g, S \cup R) = Total(g, S) + Total(g, R)
    BY <1>1, TotalUnion
  <1> QED
    BY <1>2, <1>3 DEF Ages, g, s, r

\* The time to go of two kinds of events adds up.
LEMMA TimeLeftUnion ==
  ASSUME NEW S, IsFiniteSet(S), S \subseteq Events,
         NEW R, IsFiniteSet(R), R \subseteq Events, S \cap R = {},
         NEW n \in Int
  PROVE  /\ TimeLeft(S \cup R, n) = TimeLeft(S, n) + TimeLeft(R, n)
         /\ TimeLeft(S, n) \in Int /\ TimeLeft(R, n) \in Int
  <1> DEFINE g == [e \in S \cup R |-> e.time - n]
             s == [e \in S |-> e.time - n]
             r == [e \in R |-> e.time - n]
  <1>1. /\ \A e \in S : s[e] \in Int /\ g[e] = s[e]
        /\ \A e \in R : r[e] \in Int /\ g[e] = r[e]
        /\ \A e \in S \cup R : g[e] \in Int
    BY DEF Events
  <1> HIDE DEF g, s, r
  <1>2. Total(s, S) = Total(g, S) /\ Total(r, R) = Total(g, R)
    BY <1>1, TotalSame
  <1>3. Total(g, S \cup R) = Total(g, S) + Total(g, R)
    BY <1>1, TotalUnion
  <1>4. Total(s, S) \in Int /\ Total(r, R) \in Int
    BY <1>1, TotalInt
  <1> QED
    BY <1>2, <1>3, <1>4 DEF TimeLeft, g, s, r

\* All the airplanes in the system.
LEMMA AgesEverywhere ==
  ASSUME NEW F \in SUBSET Events, IsFiniteSet(F), NEW H \in Seq(Airplanes),
         NEW D \in Seq(Airplanes), PlacedOnce(F, H, D), NEW n \in Int
  PROVE  LET M == MovingIn(F)
             I == {e.plane : e \in M} \cup Queued(H) \cup Queued(D)
         IN  Ages(I, n) = (EventAges(F) - TimeLeft(M, n))
                            + (QueueAges(H) + Spent(Queued(H), n))
                            + (QueueAges(D) + Spent(Queued(D), n))
  <1> DEFINE M == MovingIn(F)
             P == {e.plane : e \in M}
             h == Queued(H)
             d == Queued(D)
  <1>0. M \subseteq F
    BY DEF MovingIn
  <1>1. /\ EventAges(F) = Ages(P, n) + TimeLeft(M, n)
        /\ Ages(P, n) \in Int /\ TimeLeft(M, n) \in Int
        /\ IsFiniteSet(P) /\ P \subseteq Airplanes
    <2>1. \A e, f \in F : e.plane.id = f.plane.id => e = f
      BY DEF PlacedOnce
    <2> QED
      BY <2>1, AgesMoving
  <1>2. /\ IsFiniteSet(h) /\ h \subseteq Airplanes
        /\ IsFiniteSet(d) /\ d \subseteq Airplanes
    BY QueueAgesType
  <1>3. /\ Ages(h, n) = QueueAges(H) + Spent(h, n)
        /\ Ages(d, n) = QueueAges(D) + Spent(d, n)
        /\ QueueAges(H) \in Int /\ Spent(h, n) \in Int
        /\ QueueAges(D) \in Int /\ Spent(d, n) \in Int
    BY AgesQueued
  <1>4. P \cap h = {} /\ P \cap d = {} /\ h \cap d = {}
    BY <1>0 DEF PlacedOnce, Queued
  <1> HIDE DEF M, P, h, d
  <1>5. Ages(P \cup h, n) = Ages(P, n) + Ages(h, n)
    BY <1>1, <1>2, <1>4, AgesUnion
  <1>6. /\ IsFiniteSet(P \cup h) /\ P \cup h \subseteq Airplanes
        /\ (P \cup h) \cap d = {}
    BY <1>1, <1>2, <1>4, FS_Union
  <1>7. Ages((P \cup h) \cup d, n) = Ages(P \cup h, n) + Ages(d, n)
    BY <1>2, <1>6, AgesUnion
  <1> DEFINE ap == Ages(P, n)
             tl == TimeLeft(M, n)
             qh == QueueAges(H)
             sh == Spent(h, n)
             qd == QueueAges(D)
             sd == Spent(d, n)
  <1>8. /\ ap \in Int /\ tl \in Int /\ qh \in Int /\ sh \in Int
        /\ qd \in Int /\ sd \in Int /\ EventAges(F) = ap + tl
    BY <1>1, <1>3
  <1>9. Ages((P \cup h) \cup d, n) = ap + (qh + sh) + (qd + sd)
    BY <1>3, <1>5, <1>7
  <1> HIDE DEF ap, tl, qh, sh, qd, sd
  <1>10. Ages((P \cup h) \cup d, n)
           = (EventAges(F) - tl) + (qh + sh) + (qd + sd)
    BY <1>8, <1>9
  <1> QED
    BY <1>10 DEF M, P, h, d, ap, tl, qh, sh, qd, sd

(***************************************************************************)
(* The sums of ResponseTimeAccounting are these sums.                      *)
(***************************************************************************)

\* The ages: a fold over the airplanes in the system.
LEMMA AgesFold ==
  ASSUME NEW n, NEW S
  PROVE  MapThenSumSet(LAMBDA p : n - p.timestamp, S) = Ages(S, n)
  <1> DEFINE g == [p \in S |-> n - p.timestamp]
             A(h) == h = [s \in SUBSET S |-> IF s = {} THEN 0
                            ELSE (n - Pick(s).timestamp) + h[s \ {Pick(s)}]]
  <1>1. MapThenSumSet(LAMBDA p : n - p.timestamp, S) = (CHOOSE h : A(h))[S]
    BY Zenon DEF MapThenSumSet, MapThenFoldSet, Pick
  <1>2. \A s \in SUBSET S : s # {} => g[Pick(s)] = n - Pick(s).timestamp
    BY DEF Pick
  <1>3. ASSUME NEW h PROVE A(h) <=> SumsUp(h, g, S)
    <2> HIDE DEF g
    <2>1. [s \in SUBSET S |-> IF s = {} THEN 0
             ELSE (n - Pick(s).timestamp) + h[s \ {Pick(s)}]]
          = [s \in SUBSET S |-> IF s = {} THEN 0
               ELSE g[Pick(s)] + h[s \ {Pick(s)}]]
      BY <1>2
    <2> QED
      BY <2>1 DEF SumsUp
  <1> HIDE DEF A, g
  <1>4. (CHOOSE h : A(h)) = (CHOOSE h : SumsUp(h, g, S))
    BY <1>3, Zenon
  <1> QED
    BY <1>1, <1>4, TotalChoice DEF Ages, g

\* The times waited so far: a fold over a queue.
LEMMA SpentFold ==
  ASSUME NEW n, NEW S
  PROVE  MapThenSumSet(LAMBDA p : n - p.queueArrivalTime, S) = Spent(S, n)
  <1> DEFINE g == [p \in S |-> n - p.queueArrivalTime]
             A(h) == h = [s \in SUBSET S |-> IF s = {} THEN 0
                            ELSE (n - Pick(s).queueArrivalTime) + h[s \ {Pick(s)}]]
  <1>1. MapThenSumSet(LAMBDA p : n - p.queueArrivalTime, S) = (CHOOSE h : A(h))[S]
    BY Zenon DEF MapThenSumSet, MapThenFoldSet, Pick
  <1>2. \A s \in SUBSET S : s # {} => g[Pick(s)] = n - Pick(s).queueArrivalTime
    BY DEF Pick
  <1>3. ASSUME NEW h PROVE A(h) <=> SumsUp(h, g, S)
    <2> HIDE DEF g
    <2>1. [s \in SUBSET S |-> IF s = {} THEN 0
             ELSE (n - Pick(s).queueArrivalTime) + h[s \ {Pick(s)}]]
          = [s \in SUBSET S |-> IF s = {} THEN 0
               ELSE g[Pick(s)] + h[s \ {Pick(s)}]]
      BY <1>2
    <2> QED
      BY <2>1 DEF SumsUp
  <1> HIDE DEF A, g
  <1>4. (CHOOSE h : A(h)) = (CHOOSE h : SumsUp(h, g, S))
    BY <1>3, Zenon
  <1> QED
    BY <1>1, <1>4, TotalChoice DEF Spent, g

\* The times left: a fold over events.
LEMMA TimeLeftFold ==
  ASSUME NEW n, NEW S
  PROVE  MapThenSumSet(LAMBDA e : e.time - n, S) = TimeLeft(S, n)
  <1> DEFINE g == [e \in S |-> e.time - n]
             A(h) == h = [s \in SUBSET S |-> IF s = {} THEN 0
                            ELSE (Pick(s).time - n) + h[s \ {Pick(s)}]]
  <1>1. MapThenSumSet(LAMBDA e : e.time - n, S) = (CHOOSE h : A(h))[S]
    BY Zenon DEF MapThenSumSet, MapThenFoldSet, Pick
  <1>2. \A s \in SUBSET S : s # {} => g[Pick(s)] = Pick(s).time - n
    BY DEF Pick
  <1>3. ASSUME NEW h PROVE A(h) <=> SumsUp(h, g, S)
    <2> HIDE DEF g
    <2>1. [s \in SUBSET S |-> IF s = {} THEN 0
             ELSE (Pick(s).time - n) + h[s \ {Pick(s)}]]
          = [s \in SUBSET S |-> IF s = {} THEN 0
               ELSE g[Pick(s)] + h[s \ {Pick(s)}]]
      BY <1>2
    <2> QED
      BY <2>1 DEF SumsUp
  <1> HIDE DEF A, g
  <1>4. (CHOOSE h : A(h)) = (CHOOSE h : SumsUp(h, g, S))
    BY <1>3, Zenon
  <1> QED
    BY <1>1, <1>4, TotalChoice DEF TimeLeft, g

\* What the balance says of the present moment.
LEMMA BalanceAccounts ==
  ASSUME TypeOK, CountInv, BalanceInv
  PROVE  ResponseTimeAccounting
  <1> SUFFICES ASSUME ~par.isParkingTimeRandom
               PROVE  ResponseTimeAccounting
    BY DEF ResponseTimeAccounting
  <1> DEFINE M == MovingIn(fes)
             I == {e.plane : e \in M} \cup Queued(holdingQueue)
                    \cup Queued(departQueue)
  <1>1. /\ now \in Int /\ fes \in SUBSET Events /\ stats \in StatsType
        /\ holdingQueue \in Seq(Airplanes) /\ departQueue \in Seq(Airplanes)
        /\ numParked \in Int /\ IsFiniteSet(fes)
        /\ PlacedOnce(fes, holdingQueue, departQueue)
    BY DEF TypeOK, CountInv
  <1>2. fes \ ArrivalEvents = M
    BY DEF ArrivalEvents, MovingIn
  <1>3. InSystem = I
    BY <1>2 DEF InSystem
  <1>4. M = RunwayEvents \cup ParkedEvents /\ RunwayEvents \cap ParkedEvents = {}
    <2>1. \A e \in fes : e.self \in BOOLEAN /\ e.to \in Modules
      BY <1>1 DEF Events
    <2> QED
      BY <2>1 DEF MovingIn, RunwayEvents, ParkedEvents, Modules
  <1>5. /\ RunwayEvents \subseteq Events /\ ParkedEvents \subseteq Events
        /\ IsFiniteSet(RunwayEvents) /\ IsFiniteSet(ParkedEvents)
    <2>1. RunwayEvents \subseteq fes /\ ParkedEvents \subseteq fes
      BY DEF RunwayEvents, ParkedEvents
    <2> QED
      BY <1>1, <2>1, FS_Subset
  <1> DEFINE ag == Ages(I, now)
             ea == EventAges(fes)
             rr == TimeLeft(RunwayEvents, now)
             rp == TimeLeft(ParkedEvents, now)
             qh == QueueAges(holdingQueue)
             sh == Spent(Queued(holdingQueue), now)
             qd == QueueAges(departQueue)
             sd == Spent(Queued(departQueue), now)
             ar == stats["AirportResponseTime"].sum
             hw == stats["HoldingQueueWaitingTime"].sum
             dw == stats["DepartQueueWaitingTime"].sum
             ru == stats["RunwayUse"].sum
             pk == par.parkingTime * LandedPlanes
  <1>6. ag = (ea - TimeLeft(M, now)) + (qh + sh) + (qd + sd)
    BY <1>1, AgesEverywhere
  <1>7. TimeLeft(M, now) = rr + rp /\ rr \in Int /\ rp \in Int
    BY <1>1, <1>4, <1>5, TimeLeftUnion
  <1>8. BookTypes(fes, holdingQueue, departQueue, stats, numParked)
    BY <1>1, BookTyped
  <1>9. /\ ea \in Int /\ qh \in Int /\ qd \in Int
        /\ ar \in Int /\ hw \in Int /\ dw \in Int /\ ru \in Int
    BY <1>8 DEF BookTypes
  <1>10. sh \in Int /\ sd \in Int
    BY <1>1, AgesQueued
  <1>11. pk \in Int
    <2>1. par.parkingTime \in Nat
      BY ConfigsAssumption DEF TypeOK, Parameters
    <2>2. LandedPlanes \in Int
      BY <1>8 DEF BookTypes, LandedIn, LandedPlanes
    <2> QED
      BY <2>1, <2>2
  <1>12. ar + ea + qh + qd = hw + dw + ru + pk
    BY DEF BalanceInv, Balanced, LandedPlanes
  <1>13. /\ MapThenSumSet(LAMBDA p : now - p.timestamp, InSystem) = ag
         /\ Waited(holdingQueue) = sh /\ Waited(departQueue) = sd
         /\ Remaining(RunwayEvents) = rr /\ Remaining(ParkedEvents) = rp
    <2>1. MapThenSumSet(LAMBDA p : now - p.timestamp, I) = ag
      BY AgesFold
    <2>2. Waited(holdingQueue) = sh /\ Waited(departQueue) = sd
      BY SpentFold DEF Waited
    <2>3. Remaining(RunwayEvents) = rr /\ Remaining(ParkedEvents) = rp
      BY TimeLeftFold DEF Remaining
    <2> QED
      BY <1>3, <2>1, <2>2, <2>3
  <1> HIDE DEF ag, ea, rr, rp, qh, sh, qd, sd, ar, hw, dw, ru, pk
  <1>14. ar + ag = hw + sh + dw + sd + ru - rr + pk - rp
    BY <1>6, <1>7, <1>9, <1>10, <1>11, <1>12
  <1>15. ar + MapThenSumSet(LAMBDA p : now - p.timestamp, InSystem)
           = hw + Waited(holdingQueue) + dw + Waited(departQueue)
             + ru - Remaining(RunwayEvents) + pk - Remaining(ParkedEvents)
    BY <1>13, <1>14
  <1> QED
    BY <1>15 DEF ResponseTimeAccounting, ar, hw, dw, ru, pk

\* Every response time recorded, with the ages of the airplanes still in the
\* system, is accounted for by the times waited in the two queues, spent on
\* the runway and parked.
THEOREM ResponseTimesAccounted == Spec => []ResponseTimeAccounting
  <1>1. RunwayInv => TypeOK
    BY DEF RunwayInv
  <1>2. TypeOK /\ CountInv /\ BalanceInv => ResponseTimeAccounting
    BY BalanceAccounts
  <1> QED
    BY <1>1, <1>2, RunwayInvariant, CountInvariant, BooksBalance, PTL
=============================================================================
