-------------------------- MODULE Experiment_proofs --------------------------
(***************************************************************************)
(* How a simulation begins, for every set of configurations whose times    *)
(* are constant, every sample set and every number of airplanes: nobody    *)
(* waits to land before the first take-off, which is the next operation,   *)
(* and the first departure comes when the warm-up period ends.             *)
(***************************************************************************)
EXTENDS Experiment, AirportCounts_proofs

(***************************************************************************)
(* The times of the first airplane.                                        *)
(***************************************************************************)

\* With constant times a handler obtains the configured value.
LEMMA Milestones ==
  ASSUME TypeOK, ConstantTimes
  PROVE  /\ FirstArrival \in Nat /\ FirstLanded \in Nat
         /\ FirstReady \in Nat /\ FirstGone \in Nat
         /\ FirstArrival <= FirstLanded /\ FirstLanded <= FirstReady
         /\ FirstReady <= FirstGone
         /\ WarmupPeriod = FirstGone
         /\ par.landingTime \in Nat /\ par.parkingTime \in Nat
         /\ par.takeoffTime \in Nat
         /\ InterArrivalTimes = {FirstArrival}
         /\ LandingTimes = {par.landingTime}
         /\ ParkingTimes = {par.parkingTime}
         /\ TakeoffTimes = {par.takeoffTime}
  <1>1. /\ par \in Configs
        /\ par.interArrivalTime \in Nat /\ par.landingTime \in Nat
        /\ par.parkingTime \in Nat /\ par.takeoffTime \in Nat
    BY ConfigsAssumption DEF TypeOK, Parameters
  <1>2. /\ ~par.isInterArrivalTimeRandom /\ ~par.isLandingTimeRandom
        /\ ~par.isParkingTimeRandom /\ ~par.isTakeoffTimeRandom
    BY <1>1 DEF ConstantTimes
  <1>3. /\ InterArrivalTimes = {FirstArrival}
        /\ LandingTimes = {par.landingTime}
        /\ ParkingTimes = {par.parkingTime}
        /\ TakeoffTimes = {par.takeoffTime}
    BY <1>2 DEF InterArrivalTimes, LandingTimes, ParkingTimes, TakeoffTimes,
       Draw, FirstArrival
  <1>4. Scaling = 1
    BY <1>2 DEF Scaling
  <1> QED
    BY <1>1, <1>3, <1>4
    DEF FirstArrival, FirstLanded, FirstReady, FirstGone, WarmupPeriod

\* The first times are those of the parameters, which never change.
LEMMA MilestonesNext ==
  ASSUME par' = par
  PROVE  /\ FirstArrival' = FirstArrival /\ FirstLanded' = FirstLanded
         /\ FirstReady' = FirstReady /\ FirstGone' = FirstGone
         /\ WarmupPeriod' = WarmupPeriod
  BY DEF FirstArrival, FirstLanded, FirstReady, FirstGone, WarmupPeriod, Scaling

\* The four kinds of events a handler inserts.
LEMMA NotEarlyPut ==
  ASSUME NEW F, NEW t \in Nat, NEW n, NEW p, NotEarly(F)
  PROVE  /\ FirstArrival <= t =>
              NotEarly(F \cup {SelfMessage("airspace", t, n, p)})
         /\ FirstLanded <= t =>
              NotEarly(F \cup {Message("parkingarea", t, n, p)})
         /\ FirstReady <= t =>
              NotEarly(F \cup {SelfMessage("parkingarea", t, n, p)})
         /\ FirstGone <= t =>
              NotEarly(F \cup {Message("airspace", t, n, p)})
  BY DEF NotEarly, SelfMessage, Message

\* Taking an event away leaves none that is early.
LEMMA NotEarlyTake ==
  ASSUME NEW F, NEW e, NotEarly(F)
  PROVE  NotEarly(F \ {e})
  BY DEF NotEarly

\* What is known of the event the kernel delivers.
LEMMA DeliverTimely ==
  ASSUME RunwayInv, NEW e \in fes, NEW m, NEW self, Deliver(e, m, self)
  PROVE  /\ e.time \in Nat /\ now \in Nat /\ now <= e.time
         /\ now' = e.time /\ par' = par /\ e.to = m /\ e.self = self
  BY DeliverType DEF Deliver, RunwayInv, EventsAhead, TypeOK

\* NotEarly of the new events speaks of the same first times.
LEMMA NotEarlyNext ==
  ASSUME par' = par, NotEarly(fes')
  PROVE  NotEarly(fes)'
  BY MilestonesNext DEF NotEarly

(***************************************************************************)
(* completed() at a time t no earlier than the end of the first landing.   *)
(***************************************************************************)
LEMMA CompletedTimely ==
  ASSUME RunwayInv, Timely, ConstantTimes, NEW t \in Nat, NEW kept, NEW st,
         completed(t, kept, st), NotEarly(kept),
         now <= t, FirstLanded <= t
  PROVE  /\ NotEarly(fes')
         /\ departQueue' # << >> => FirstReady <= t
  <1>0. TypeOK /\ now \in Nat
    BY DEF RunwayInv, TypeOK
  <1>1. CASE FreeStrip(kept, st)
    BY <1>0, <1>1, Milestones DEF FreeStrip, Timely
  <1>2. CASE HandOverToLanding(t, kept, st)
    <2>1. PICK d \in LandingTimes :
            fes' = kept \cup {Message("parkingarea", t + d, seq + 1,
                                      Head(holdingQueue))}
      BY <1>2 DEF HandOverToLanding, AirspaceGo, StartLanding
    <2>2. d = par.landingTime /\ d \in Nat
      BY <1>0, Milestones
    <2>3. t + d \in Nat /\ FirstLanded <= t + d
      BY <1>0, <2>2, Milestones
    <2>4. NotEarly(fes')
      BY <2>1, <2>3, NotEarlyPut
    <2> QED
      BY <1>0, <1>2, <2>4, Milestones DEF HandOverToLanding, Timely
  <1>3. CASE HandOverToTakeoff(t, kept, st)
    <2>1. PICK d \in TakeoffTimes :
            fes' = kept \cup {Message("airspace", t + d, seq + 1,
                                      Head(departQueue))}
      BY <1>3 DEF HandOverToTakeoff, ParkingAreaGo, StartTakeoff
    <2>2. d = par.takeoffTime /\ d \in Nat
      BY <1>0, Milestones
    <2>3. departQueue # << >>
      BY <1>0, <1>3, SelectedFacts DEF HandOverToTakeoff
    <2>4. FirstReady <= t
      BY <1>0, <2>3, Milestones DEF Timely
    <2>5. t + d \in Nat /\ FirstGone <= t + d
      BY <1>0, <2>2, <2>4, Milestones DEF FirstGone
    <2>6. NotEarly(fes')
      BY <2>1, <2>5, NotEarlyPut
    <2> QED
      BY <2>4, <2>6
  <1> QED
    BY <1>1, <1>2, <1>3 DEF completed

(***************************************************************************)
(* One lemma per handler.                                                  *)
(***************************************************************************)
LEMMA ArrivalTimely ==
  ASSUME RunwayInv, Timely, ConstantTimes, NEW e \in fes,
         ArrivalGranted(e) \/ ArrivalQueued(e), UNCHANGED parkingVars
  PROVE  Timely'
  <1> DEFINE t == e.time
  <1>0. TypeOK
    BY DEF RunwayInv
  <1>1. /\ t \in Nat /\ now \in Nat /\ now <= t /\ now' = t /\ par' = par
        /\ e.to = "airspace" /\ e.self = TRUE
    BY DeliverTimely DEF ArrivalGranted, ArrivalQueued, Arrival
  <1>2. FirstArrival <= t /\ NotEarly(fes \ {e})
    BY <1>1, NotEarlyTake DEF NotEarly, Timely
  <1>3. NotEarly(fes')
    <2>1. ASSUME NEW a \in InterArrivalTimes
          PROVE  NotEarly((fes \ {e}) \cup {NextArrival(t, a)})
      <3>1. t + a \in Nat /\ FirstArrival <= t + a
        BY <1>0, <1>1, <1>2, Milestones
      <3> QED
        BY <1>2, <3>1, NotEarlyPut DEF NextArrival
    <2>2. CASE ArrivalGranted(e)
      <3>1. PICK a \in InterArrivalTimes, d \in LandingTimes :
              fes' = ((fes \ {e}) \cup {NextArrival(t, a)})
                       \cup {Message("parkingarea", t + d, seq, Stamped(e))}
        BY <2>2 DEF ArrivalGranted, StartLanding
      <3>2. t + d \in Nat /\ FirstLanded <= t + d
        BY <1>0, <1>1, <1>2, Milestones DEF FirstLanded
      <3> QED
        BY <2>1, <3>1, <3>2, NotEarlyPut
    <2>3. CASE ArrivalQueued(e)
      BY <2>1, <2>3 DEF ArrivalQueued
    <2> QED
      BY <2>2, <2>3
  <1>4. departQueue' = departQueue /\ departedPlanes' = departedPlanes
    BY DEF parkingVars, ArrivalGranted, ArrivalQueued, Arrival
  <1>5. NotEarly(fes)'
    BY <1>1, <1>3, NotEarlyNext
  <1> HIDE DEF t
  <1> QED
    BY <1>0, <1>1, <1>2, <1>4, <1>5, Milestones, MilestonesNext DEF Timely

\* The end of a parking time causes nothing early.
LEMMA ParkingExpiredTimely ==
  ASSUME RunwayInv, Timely, ConstantTimes, NEW e \in fes,
         ParkingExpiredGranted(e) \/ ParkingExpiredQueued(e),
         UNCHANGED airspaceVars
  PROVE  Timely'
  <1> DEFINE t == e.time
  <1>0. TypeOK
    BY DEF RunwayInv
  <1>1. /\ t \in Nat /\ now \in Nat /\ now <= t /\ now' = t /\ par' = par
        /\ e.to = "parkingarea" /\ e.self = TRUE
    BY DeliverTimely
    DEF ParkingExpiredGranted, ParkingExpiredQueued, ParkingExpired
  <1>2. FirstReady <= t /\ NotEarly(fes \ {e})
    BY <1>1, NotEarlyTake DEF NotEarly, Timely
  <1>3. NotEarly(fes')
    <2>1. CASE ParkingExpiredGranted(e)
      <3>1. PICK d \in TakeoffTimes :
              fes' = (fes \ {e})
                       \cup {Message("airspace", t + d, seq, e.plane)}
        BY <2>1 DEF ParkingExpiredGranted, StartTakeoff
      <3>2. t + d \in Nat /\ FirstGone <= t + d
        BY <1>0, <1>1, <1>2, Milestones DEF FirstGone
      <3> QED
        BY <1>2, <3>1, <3>2, NotEarlyPut
    <2>2. CASE ParkingExpiredQueued(e)
      BY <1>2, <2>2 DEF ParkingExpiredQueued
    <2> QED
      BY <2>1, <2>2
  <1>4. holdingQueue' = holdingQueue /\ departedPlanes' = departedPlanes
    BY DEF airspaceVars
  <1>5. NotEarly(fes)'
    BY <1>1, <1>3, NotEarlyNext
  <1> HIDE DEF t
  <1> QED
    BY <1>0, <1>1, <1>2, <1>4, <1>5, Milestones, MilestonesNext DEF Timely

\* Nor does the end of a landing,
LEMMA LandedTimely ==
  ASSUME RunwayInv, Timely, ConstantTimes, NEW e \in fes, Landed(e)
  PROVE  Timely'
  <1> DEFINE t == e.time
  <1>0. TypeOK
    BY DEF RunwayInv
  <1>1. /\ t \in Nat /\ now \in Nat /\ now <= t /\ now' = t /\ par' = par
        /\ e.to = "parkingarea" /\ e.self = FALSE
    BY DeliverTimely DEF Landed
  <1>2. FirstLanded <= t /\ NotEarly(fes \ {e})
    BY <1>1, NotEarlyTake DEF NotEarly, Timely
  <1>3. PICK d \in ParkingTimes :
          completed(t, (fes \ {e}) \cup
                         {SelfMessage("parkingarea", t + d, seq, e.plane)},
                    Emit(stats, "ParkedPlanes", numParked + 1))
    BY DEF Landed
  <1>4. t + d \in Nat /\ FirstReady <= t + d
    BY <1>0, <1>1, <1>2, Milestones DEF FirstReady
  <1>5. /\ NotEarly(fes')
        /\ departQueue' # << >> => FirstReady <= t
    <2>1. NotEarly((fes \ {e}) \cup
                     {SelfMessage("parkingarea", t + d, seq, e.plane)})
      BY <1>2, <1>4, NotEarlyPut
    <2> QED
      BY <1>1, <1>2, <1>3, <2>1, CompletedTimely
  <1>6. departedPlanes' = departedPlanes
    BY DEF Landed
  <1>7. NotEarly(fes)'
    BY <1>1, <1>5, NotEarlyNext
  <1> HIDE DEF t
  <1> QED
    BY <1>0, <1>1, <1>2, <1>5, <1>6, <1>7, Milestones, MilestonesNext
    DEF Timely

\* or of a take-off.
LEMMA TakenOffTimely ==
  ASSUME RunwayInv, Timely, ConstantTimes, NEW e \in fes,
         Departed(e) \/ LastDeparted(e)
  PROVE  Timely'
  <1> DEFINE t == e.time
  <1>0. TypeOK
    BY DEF RunwayInv
  <1>1. /\ t \in Nat /\ now \in Nat /\ now <= t /\ now' = t /\ par' = par
        /\ e.to = "airspace" /\ e.self = FALSE
    BY DeliverTimely DEF Departed, LastDeparted, TakenOff
  <1>2. FirstGone <= t /\ NotEarly(fes \ {e})
    BY <1>1, NotEarlyTake DEF NotEarly, Timely
  <1>3. NotEarly(fes')
    <2>1. CASE Departed(e)
      <3>1. completed(t, fes \ {e}, Responded(e))
        BY <2>1 DEF Departed
      <3>2. FirstLanded <= t
        BY <1>0, <1>1, <1>2, Milestones
      <3> QED
        BY <1>1, <1>2, <3>1, <3>2, CompletedTimely
    <2>2. CASE LastDeparted(e)
      BY <1>2, <2>2 DEF LastDeparted
    <2> QED
      BY <2>1, <2>2
  <1>4. NotEarly(fes)'
    BY <1>1, <1>3, NotEarlyNext
  <1> HIDE DEF t
  <1> QED
    BY <1>0, <1>1, <1>2, <1>4, Milestones, MilestonesNext DEF Timely

\* The first arrival is not early.
LEMMA TimelyInit ==
  ASSUME Init, ConstantTimes
  PROVE  Timely
  <1>1. TypeOK
    BY InitType
  <1>2. PICK a \in InterArrivalTimes :
          fes = {SelfMessage("airspace", a, 0, NewAirplane(1))}
    BY DEF Init, InitAirspace
  <1>3. a = FirstArrival /\ a \in Nat
    BY <1>1, Milestones
  <1>4. NotEarly(fes)
    BY <1>2, <1>3 DEF NotEarly, SelfMessage
  <1> QED
    BY <1>4 DEF Timely, Init, InitAirspace, InitParkingArea

\* Every step keeps to the times, and time does not run back.
LEMMA TimelyNext ==
  ASSUME RunwayInv, Timely, ConstantTimes, Next
  PROVE  Timely' /\ par' = par /\ now' \in Nat /\ now <= now'
  <1>1. PICK e \in fes :
          \/ (ArrivalGranted(e) \/ ArrivalQueued(e)) /\ UNCHANGED parkingVars
          \/ (ParkingExpiredGranted(e) \/ ParkingExpiredQueued(e))
               /\ UNCHANGED airspaceVars
          \/ Landed(e)
          \/ Departed(e) \/ LastDeparted(e)
    BY DEF Next
  <1>2. Timely'
    BY <1>1, ArrivalTimely, ParkingExpiredTimely, LandedTimely, TakenOffTimely
  <1>3. \E m \in Modules, self \in BOOLEAN : Deliver(e, m, self)
    BY <1>1 DEF ArrivalGranted, ArrivalQueued, Arrival, ParkingExpiredGranted,
       ParkingExpiredQueued, ParkingExpired, Landed, Departed, LastDeparted,
       TakenOff, Modules
  <1> QED
    BY <1>2, <1>3, DeliverTimely

(***************************************************************************)
(* Before the first take-off.                                              *)
(***************************************************************************)

\* The take-offs begun are the departures and the take-off in progress.
Begun ==
  /\ TakeoffsBegun \in Nat /\ departedPlanes \in Nat
  /\ TakeoffEvents = {} <=> TakeoffsBegun = departedPlanes
  /\ departedPlanes <= TakeoffsBegun

OneArrival == \A a, b \in ArrivalEvents : a = b

\* Both from the counts; no two events carry the same airplane.
LEMMA CountsBegun ==
  ASSUME RunwayInv, CountInv
  PROVE  Begun /\ OneArrival
  <1>1. TakeoffsBegun \in Nat /\ departedPlanes \in Nat
    BY SignalNames DEF RunwayInv, TypeOK, StatsType, TakeoffsBegun
  <1> DEFINE n == Cardinality(TakeoffsIn(fes))
  <1>2. IsFiniteSet(TakeoffsIn(fes))
    <2>1. TakeoffsIn(fes) \subseteq fes /\ IsFiniteSet(fes)
      BY DEF TakeoffsIn, CountInv
    <2> QED
      BY <2>1, FS_Subset
  <1>3. n \in Nat /\ (n = 0 <=> TakeoffsIn(fes) = {})
    BY <1>2, FS_CardinalityType, FS_EmptySet
  <1>4. TakeoffsBegun = departedPlanes + n
    BY DEF CountInv, Tallied, TakeoffsBegun
  <1>5. TakeoffEvents = TakeoffsIn(fes)
    BY DEF TakeoffEvents, TakeoffsIn
  <1>6. OneArrival
    <2>1. \A e \in ArrivalEvents : e \in fes /\ e.plane.id = created
      BY DEF ArrivalEvents, CountInv, Numbered
    <2> QED
      BY <2>1 DEF OneArrival, CountInv, PlacedOnce
  <1> HIDE DEF n
  <1> QED
    BY <1>1, <1>3, <1>4, <1>5, <1>6 DEF Begun

\* The names of the samples of an operation.
LEMMA OperationNames ==
  /\ "DepartQueueWaitingTime" \in Recorded /\ "DepartQueueSize" \in Recorded
  /\ "HoldingQueueWaitingTime" \in Recorded
  /\ "HoldingQueueSize" \in Recorded /\ "ParkedPlanes" \in Recorded
  /\ "AirportResponseTime" \in Recorded
  /\ "DepartQueueWaitingTime" # "DepartQueueSize"
  /\ "HoldingQueueWaitingTime" # "HoldingQueueSize"
  BY DEF Recorded

\* What the start of an operation makes of the recorders.
SampledOnce(st, s1, v1, s2, v2, d) ==
  Emit(Emit(Emit(st, s1, v1), s2, v2), "RunwayUse", d)

LEMMA SampledOnceFacts ==
  ASSUME NEW st \in StatsType, NEW v1 \in Int, NEW v2 \in Int, NEW d \in Int,
         NEW s1 \in Recorded, NEW s2 \in Recorded, s1 # s2
  PROVE  /\ SampledOnce(st, s1, v1, s2, v2, d)[s1].count = st[s1].count + 1
         /\ SampledOnce(st, s1, v1, s2, v2, d)[s1].last = v1
         /\ SampledOnce(st, s1, v1, s2, v2, d)[s2].count = st[s2].count + 1
         /\ SampledOnce(st, s1, v1, s2, v2, d)[s2].last = v2
         /\ \A s \in Recorded \ {s1, s2} :
              SampledOnce(st, s1, v1, s2, v2, d)[s] = st[s]
  <1> DEFINE r == Emit(Emit(Emit(st, s1, v1), s2, v2), "RunwayUse", d)
  <1>1. /\ r \in StatsType
        /\ r[s1].count = st[s1].count + 1 /\ r[s1].last = v1
        /\ r[s2].count = st[s2].count + 1 /\ r[s2].last = v2
        /\ r["RunwayUse"].count = st["RunwayUse"].count + 1
        /\ \A s \in Recorded \ {s1, s2} : r[s] = st[s]
    BY OperationSamples, SMTT(30)
  <1>2. r = SampledOnce(st, s1, v1, s2, v2, d)
    BY DEF SampledOnce
  <1> HIDE DEF r
  <1> QED
    BY <1>1, <1>2

\* A landing samples no wait for take-off,
LEMMA LandingWaits ==
  ASSUME NEW st \in StatsType, NEW v1 \in Int, NEW v2 \in Int, NEW d \in Int,
         NEW s1 \in {"HoldingQueueWaitingTime", "HoldingQueueSize"},
         NEW s2 \in {"HoldingQueueWaitingTime", "HoldingQueueSize"}, s1 # s2
  PROVE  SampledOnce(st, s1, v1, s2, v2, d)["DepartQueueWaitingTime"]
           = st["DepartQueueWaitingTime"]
  <1>1. s1 \in Recorded /\ s2 \in Recorded
    BY OperationNames
  <1>2. \A s \in Recorded \ {s1, s2} : SampledOnce(st, s1, v1, s2, v2, d)[s] = st[s]
    BY <1>1, SampledOnceFacts, SMTT(30)
  <1>3. "DepartQueueWaitingTime" \in Recorded \ {s1, s2}
    BY OperationNames
  <1> QED
    BY <1>2, <1>3

\* and a take-off samples its own.
LEMMA TakeoffWaits ==
  ASSUME NEW st \in StatsType, NEW v \in Int, NEW n \in Int, NEW d \in Int
  PROVE  LET w == "DepartQueueWaitingTime"
             z == "DepartQueueSize"
         IN  /\ SampledOnce(st, w, v, z, n, d)[w].count = st[w].count + 1
             /\ SampledOnce(st, w, v, z, n, d)[w].last = v
             /\ SampledOnce(st, z, n, w, v, d)[w].count = st[w].count + 1
             /\ SampledOnce(st, z, n, w, v, d)[w].last = v
  <1> DEFINE w == "DepartQueueWaitingTime"
             z == "DepartQueueSize"
  <1>1. w \in Recorded /\ z \in Recorded /\ w # z
    BY OperationNames
  <1> HIDE DEF w, z
  <1>2. /\ SampledOnce(st, w, v, z, n, d)[w].count = st[w].count + 1
        /\ SampledOnce(st, w, v, z, n, d)[w].last = v
    BY <1>1, SampledOnceFacts
  <1>3. /\ SampledOnce(st, z, n, w, v, d)[w].count = st[w].count + 1
        /\ SampledOnce(st, z, n, w, v, d)[w].last = v
    BY <1>1, SampledOnceFacts
  <1> QED
    BY <1>2, <1>3 DEF w, z

\* completed() samples a wait for take-off exactly when it selects one.
LEMMA CompletedWaits ==
  ASSUME TypeOK, NEW t \in Nat, NEW kept, NEW st \in StatsType,
         completed(t, kept, st)
  PROVE  LET w == "DepartQueueWaitingTime" IN
         \/ stats'[w] = st[w] /\ Selected # "parkingarea"
         \/ /\ Selected = "parkingarea"
            /\ stats'[w].count = st[w].count + 1
            /\ stats'[w].last = t - Head(departQueue).queueArrivalTime
  <1>1. CASE FreeStrip(kept, st)
    BY <1>1 DEF FreeStrip
  <1>2. CASE HandOverToLanding(t, kept, st)
    <2>1. holdingQueue # << >> /\ Selected # "parkingarea"
      BY <1>2, SelectedFacts DEF HandOverToLanding
    <2> DEFINE v1 == t - Head(holdingQueue).queueArrivalTime
               v2 == Len(holdingQueue) - 1
    <2>2. v1 \in Int /\ v2 \in Int
      BY <2>1, PopFacts DEF TypeOK, Airplanes
    <2>3. PICK d \in LandingTimes :
            stats' = SampledOnce(st, "HoldingQueueWaitingTime", v1, "HoldingQueueSize", v2, d)
      BY <1>2 DEF HandOverToLanding, AirspaceGo, StartLanding, SampledOnce
    <2>4. d \in Int
      BY DrawsAreNat DEF TypeOK
    <2> HIDE DEF v1, v2
    <2>5. stats'["DepartQueueWaitingTime"] = st["DepartQueueWaitingTime"]
      BY <2>2, <2>3, <2>4, OperationNames, LandingWaits
    <2> QED
      BY <2>1, <2>5
  <1>3. CASE HandOverToTakeoff(t, kept, st)
    <2>1. departQueue # << >> /\ Selected = "parkingarea"
      BY <1>3, SelectedFacts DEF HandOverToTakeoff
    <2> DEFINE v1 == t - Head(departQueue).queueArrivalTime
               v2 == Len(departQueue) - 1
    <2>2. v1 \in Int /\ v2 \in Int
      BY <2>1, PopFacts DEF TypeOK, Airplanes
    <2>3. PICK d \in TakeoffTimes :
            stats' = SampledOnce(st, "DepartQueueWaitingTime", v1, "DepartQueueSize", v2, d)
      BY <1>3 DEF HandOverToTakeoff, ParkingAreaGo, StartTakeoff, SampledOnce
    <2>4. d \in Int
      BY DrawsAreNat DEF TypeOK
    <2> HIDE DEF v1, v2
    <2>5. /\ stats'["DepartQueueWaitingTime"].count
               = st["DepartQueueWaitingTime"].count + 1
          /\ stats'["DepartQueueWaitingTime"].last = v1
      <3> DEFINE r == SampledOnce(st, "DepartQueueWaitingTime", v1, "DepartQueueSize", v2, d)
      <3>1. /\ r["DepartQueueWaitingTime"].count
                 = st["DepartQueueWaitingTime"].count + 1
            /\ r["DepartQueueWaitingTime"].last = v1
        BY <2>2, <2>4, TakeoffWaits
      <3> HIDE DEF r
      <3> QED
        BY <2>3, <3>1 DEF r
    <2> QED
      BY <2>1, <2>5 DEF v1
  <1> QED
    BY <1>1, <1>2, <1>3 DEF completed

\* What the transient is about, spelt out for a step that keeps par.
LEMMA TransientNextParts ==
  ASSUME par' = par
  PROVE  /\ LandingsKeepUp' <=> LandingsKeepUp
         /\ BeforeTakeoffs' <=>
              /\ holdingQueue' = << >>
              /\ \A l \in LandingEvents' :
                   /\ l.time <= now' + par.landingTime
                   /\ \A a \in ArrivalEvents' : Precedes(l, a)
                   /\ departQueue' # << >> =>
                        l.time <= Head(departQueue').queueArrivalTime
                                    + par.landingTime
              /\ \/ \E x \in ArrivalEvents' : x.time <= FirstArrival
                 \/ \E x \in LandingEvents' : x.time <= FirstLanded
                 \/ \E x \in ParkedEvents' : x.time <= FirstReady
                 \/ /\ departQueue' # << >>
                    /\ Head(departQueue').queueArrivalTime <= FirstReady
         /\ FirstTakingOff' <=>
              \E x \in TakeoffEvents' : x.time <= FirstGone + par.landingTime
  BY MilestonesNext DEF LandingsKeepUp, BeforeTakeoffs, LandingSoonOver,
     FirstOnItsWay, FirstTakingOff, Precedes

\* A step that samples no wait for take-off and ends no take-off.
LEMMA TransientKept ==
  ASSUME Begun, TransientInv, LandingsKeepUp, par' = par, NEW e \in fes,
         e \notin TakeoffEvents, fes \ {e} \subseteq fes',
         stats'["DepartQueueWaitingTime"] = stats["DepartQueueWaitingTime"],
         departedPlanes' = departedPlanes, running' = running,
         TakeoffsBegun = 0 => BeforeTakeoffs'
  PROVE  TransientInv'
  <1>1. TakeoffsBegun' = TakeoffsBegun /\ LastWait' = LastWait
    BY DEF TakeoffsBegun, LastWait
  <1>2. TakeoffEvents \subseteq TakeoffEvents'
    BY DEF TakeoffEvents
  <1>3. FirstTakingOff => FirstTakingOff'
    BY <1>2, TransientNextParts DEF FirstTakingOff
  <1>4. par'.landingTime = par.landingTime
    OBVIOUS
  <1> QED
    BY <1>1, <1>3, <1>4 DEF TransientInv

\* An arrival that gets the runway.
LEMMA ArrivalGrantedTransient ==
  ASSUME RunwayInv, Begun, OneArrival, TransientInv, ConstantTimes,
         LandingsKeepUp, NEW e \in fes, ArrivalGranted(e),
         UNCHANGED parkingVars
  PROVE  TransientInv'
  <1> DEFINE t == e.time
             lt == par.landingTime
             iat == par.interArrivalTime
             n == NextArrival(t, iat)
             l == Message("parkingarea", t + lt, seq, Stamped(e))
  <1>0. TypeOK
    BY DEF RunwayInv
  <1>1. /\ t \in Nat /\ now \in Nat /\ now <= t /\ now' = t /\ par' = par
        /\ e.to = "airspace" /\ e.self = TRUE /\ e \in ArrivalEvents
    BY DeliverTimely DEF ArrivalGranted, Arrival, ArrivalEvents
  <1>2. lt \in Nat /\ iat \in Nat /\ lt <= iat /\ iat = FirstArrival
    BY <1>0, Milestones DEF LandingsKeepUp, FirstArrival
  <1>3. RunwayEvents = {} /\ departQueue = << >> /\ departQueue' = departQueue
    BY DEF ArrivalGranted, Arrival, Deliver, notify, RunwayInv,
       RunwayExclusive, NoIdleWaiting, parkingVars
  <1>4. fes' = ((fes \ {e}) \cup {n}) \cup {l}
    BY <1>0, <1>2, Milestones DEF ArrivalGranted, StartLanding
  <1>5. stats'["DepartQueueWaitingTime"] = stats["DepartQueueWaitingTime"]
    <2>1. PICK d \in LandingTimes :
            stats' = SampledOnce(stats, "HoldingQueueSize", 0, "HoldingQueueWaitingTime", 0, d)
      BY DEF ArrivalGranted, StartLanding, SampledOnce
    <2>2. d \in Int /\ 0 \in Int /\ stats \in StatsType
      BY <1>0, DrawsAreNat DEF TypeOK
    <2> QED
      BY <2>1, <2>2, OperationNames, LandingWaits
  <1>6. /\ n.self = TRUE /\ n.to = "airspace" /\ n.time = t + iat
        /\ n.seq = seq + 1
        /\ l.self = FALSE /\ l.to = "parkingarea" /\ l.time = t + lt
        /\ l.seq = seq /\ seq \in Nat
    BY <1>0 DEF NextArrival, SelfMessage, Message, TypeOK
  <1> HIDE DEF n, l
  <1>7. /\ LandingEvents' = {l} /\ ArrivalEvents' = {n}
        /\ ParkedEvents \subseteq ParkedEvents'
    <2>1. \A x \in fes : x.self
      BY <1>3, <1>0 DEF RunwayEvents, TypeOK, Events
    <2>2. \A x \in fes \ {e} : x.to # "airspace"
      BY <1>1, <2>1 DEF OneArrival, ArrivalEvents
    <2> QED
      BY <1>1, <1>4, <1>6, <2>1, <2>2
      DEF LandingEvents, ArrivalEvents, ParkedEvents
  <1>8. TakeoffsBegun = 0 => BeforeTakeoffs'
    <2> SUFFICES ASSUME TakeoffsBegun = 0 PROVE BeforeTakeoffs'
      OBVIOUS
    <2>1. BeforeTakeoffs
      BY DEF TransientInv
    <2>2. holdingQueue' = << >>
      BY <2>1 DEF BeforeTakeoffs, ArrivalGranted
    <2>3. l.time <= now' + par.landingTime /\ Precedes(l, n)
      BY <1>1, <1>2, <1>6 DEF Precedes
    <2>4. \/ l.time <= FirstLanded
          \/ \E x \in ParkedEvents : x.time <= FirstReady
      <3>1. LandingEvents = {}
        BY <1>3 DEF LandingEvents, RunwayEvents
      <3>2. \/ t <= FirstArrival
            \/ \E x \in ParkedEvents : x.time <= FirstReady
        BY <1>1, <1>3, <2>1, <3>1 DEF BeforeTakeoffs, FirstOnItsWay, OneArrival
      <3> QED
        BY <1>1, <1>2, <1>6, <3>2 DEF FirstLanded
    <2> QED
      BY <1>1, <1>3, <1>7, <2>2, <2>3, <2>4, TransientNextParts
  <1>9. /\ e \notin TakeoffEvents /\ fes \ {e} \subseteq fes'
        /\ departedPlanes' = departedPlanes /\ running' = running
    BY <1>1, <1>4 DEF TakeoffEvents, ArrivalGranted, Arrival
  <1> QED
    BY <1>1, <1>5, <1>8, <1>9, TransientKept

\* An arrival that waits: a take-off has begun, since a landing in progress
\* would be over by now.
LEMMA ArrivalQueuedTransient ==
  ASSUME RunwayInv, Begun, TransientInv, ConstantTimes, LandingsKeepUp,
         NEW e \in fes, ArrivalQueued(e), UNCHANGED parkingVars
  PROVE  TransientInv'
  <1>0. TypeOK
    BY DEF RunwayInv
  <1>1. /\ par' = par /\ e.to = "airspace" /\ e.self = TRUE
        /\ e \in ArrivalEvents
    BY DeliverTimely DEF ArrivalQueued, Arrival, ArrivalEvents
  <1>2. TakeoffsBegun # 0
    <2> SUFFICES ASSUME TakeoffsBegun = 0 PROVE FALSE
      OBVIOUS
    <2>1. BeforeTakeoffs /\ TakeoffEvents = {}
      BY DEF TransientInv, Begun
    <2>2. PICK r \in RunwayEvents : TRUE
      BY DEF ArrivalQueued, Arrival, Deliver, notify, RunwayInv,
         RunwayExclusive
    <2>3. r \in LandingEvents /\ r \in fes \ {e}
      BY <1>0, <1>1, <2>1
      DEF RunwayEvents, LandingEvents, TakeoffEvents, TypeOK, Events, Modules
    <2>4. Precedes(r, e)
      BY <1>1, <2>1, <2>3 DEF BeforeTakeoffs, LandingSoonOver
    <2>5. Precedes(e, r)
      BY <2>3 DEF ArrivalQueued, Arrival, Deliver, IsNext
    <2>6. /\ e.time \in Nat /\ r.time \in Nat
          /\ e.seq \in Nat /\ r.seq \in Nat
      BY <1>0, <2>3 DEF TypeOK, Events
    <2> QED
      BY <2>4, <2>5, <2>6 DEF Precedes
  <1>3. stats'["DepartQueueWaitingTime"] = stats["DepartQueueWaitingTime"]
    <2>1. stats' = Emit(stats, "HoldingQueueSize", Len(holdingQueue) + 1)
      BY DEF ArrivalQueued
    <2> DEFINE n == Len(holdingQueue) + 1
    <2>2. stats \in StatsType /\ n \in Int
      BY <1>0 DEF TypeOK
    <2>3. "DepartQueueWaitingTime" \in Recorded \ {"HoldingQueueSize"}
      BY DEF Recorded
    <2> HIDE DEF n
    <2>4. Emit(stats, "HoldingQueueSize", n)["DepartQueueWaitingTime"]
            = stats["DepartQueueWaitingTime"]
      BY <2>2, <2>3, OperationNames, OneSample
    <2> QED
      BY <2>1, <2>4 DEF n
  <1>4. /\ e \notin TakeoffEvents /\ fes \ {e} \subseteq fes'
        /\ departedPlanes' = departedPlanes /\ running' = running
    BY <1>1 DEF TakeoffEvents, ArrivalQueued, Arrival
  <1> QED
    BY <1>1, <1>2, <1>3, <1>4, TransientKept

\* The end of a parking time that gets the runway: the first take-off begins
\* at once, or another one has.
LEMMA ParkingGrantedTransient ==
  ASSUME RunwayInv, Begun, TransientInv, ConstantTimes, LandingsKeepUp,
         NEW e \in fes, ParkingExpiredGranted(e), UNCHANGED airspaceVars
  PROVE  TransientInv'
  <1> DEFINE t == e.time
             to == par.takeoffTime
             m == Message("airspace", t + to, seq, e.plane)
  <1>0. TypeOK
    BY DEF RunwayInv
  <1>1. /\ t \in Nat /\ now \in Nat /\ now <= t /\ now' = t /\ par' = par
        /\ e.to = "parkingarea" /\ e.self = TRUE
    BY DeliverTimely DEF ParkingExpiredGranted, ParkingExpired
  <1>2. RunwayEvents = {} /\ departQueue = << >>
    BY DEF ParkingExpiredGranted, ParkingExpired, Deliver, notify, RunwayInv,
       RunwayExclusive, NoIdleWaiting
  <1>3. m \in fes' /\ m \in TakeoffEvents' /\ m.time = t + to /\ to \in Nat
    <2>1. TakeoffTimes = {to} /\ to \in Nat
      BY <1>0, Milestones
    <2>2. fes' = (fes \ {e}) \cup {m}
      BY <2>1 DEF ParkingExpiredGranted, StartTakeoff
    <2> QED
      BY <2>1, <2>2 DEF Message, TakeoffEvents
  <1>4. /\ TakeoffsBegun' = TakeoffsBegun + 1 /\ LastWait' = 0
    <2>1. PICK d \in TakeoffTimes :
            stats' = SampledOnce(Unparked, "DepartQueueSize", 0, "DepartQueueWaitingTime", 0, d)
      BY DEF ParkingExpiredGranted, StartTakeoff, SampledOnce
    <2>2. d \in Int /\ 0 \in Int
      BY <1>0, DrawsAreNat DEF TypeOK
    <2>3. /\ Unparked \in StatsType
          /\ Unparked["DepartQueueWaitingTime"]
               = stats["DepartQueueWaitingTime"]
      <3> DEFINE v == numParked - 1
      <3>1. v \in Int /\ stats \in StatsType
        BY <1>0 DEF TypeOK
      <3>2. "DepartQueueWaitingTime" \in Recorded \ {"ParkedPlanes"}
        BY DEF Recorded
      <3> HIDE DEF v
      <3>3. /\ Emit(stats, "ParkedPlanes", v) \in StatsType
            /\ Emit(stats, "ParkedPlanes", v)["DepartQueueWaitingTime"]
                 = stats["DepartQueueWaitingTime"]
        BY <3>1, <3>2, OperationNames, OneSample
      <3> QED
        BY <3>3 DEF Unparked, v
    <2>4. /\ stats'["DepartQueueWaitingTime"].count
               = Unparked["DepartQueueWaitingTime"].count + 1
          /\ stats'["DepartQueueWaitingTime"].last = 0
      BY <2>1, <2>2, <2>3, TakeoffWaits
    <2> QED
      BY <2>3, <2>4 DEF TakeoffsBegun, LastWait
  <1>5. departedPlanes' = departedPlanes /\ TakeoffsBegun = departedPlanes
        /\ TakeoffsBegun \in Nat /\ running' = running
    BY <1>2 DEF ParkingExpiredGranted, ParkingExpired, airspaceVars, Begun, TakeoffEvents, RunwayEvents
  <1>6. TakeoffsBegun = 0 => FirstTakingOff'
    <2> SUFFICES ASSUME TakeoffsBegun = 0 PROVE FirstTakingOff'
      OBVIOUS
    <2>1. FirstOnItsWay
      BY DEF TransientInv, BeforeTakeoffs
    <2>2. \A x \in fes : x.time \in Nat /\ t <= x.time
      BY <1>0, <1>1 DEF ParkingExpiredGranted, ParkingExpired, Deliver, IsNext,
         Precedes, TypeOK, Events
    <2>3. t <= FirstReady
      BY <1>0, <1>1, <1>2, <2>1, <2>2, Milestones
      DEF FirstOnItsWay, ArrivalEvents, LandingEvents, ParkedEvents
    <2>4. m.time <= FirstGone + par.landingTime
      BY <1>0, <1>1, <1>3, <2>3, Milestones DEF FirstGone
    <2> HIDE DEF m
    <2> QED
      BY <1>1, <1>3, <2>4, TransientNextParts
  <1>7. LastWait' <= par'.landingTime
    BY <1>0, <1>1, <1>4, Milestones
  <1> QED
    BY <1>4, <1>5, <1>6, <1>7 DEF TransientInv

\* The end of a parking time that waits, for a landing if no take-off has
\* begun.
LEMMA ParkingQueuedTransient ==
  ASSUME RunwayInv, Begun, TransientInv, ConstantTimes, LandingsKeepUp,
         NEW e \in fes, ParkingExpiredQueued(e), UNCHANGED airspaceVars
  PROVE  TransientInv'
  <1> DEFINE t == e.time
             p == [e.plane EXCEPT !.queueArrivalTime = e.time]
  <1>0. TypeOK
    BY DEF RunwayInv
  <1>1. /\ t \in Nat /\ now \in Nat /\ now <= t /\ now' = t /\ par' = par
        /\ e.to = "parkingarea" /\ e.self = TRUE
    BY DeliverTimely DEF ParkingExpiredQueued, ParkingExpired
  <1>2. /\ fes' = fes \ {e} /\ departQueue' = Append(departQueue, p)
        /\ holdingQueue' = holdingQueue /\ departedPlanes' = departedPlanes
        /\ running' = running
    BY DEF ParkingExpiredQueued, ParkingExpired, airspaceVars
  <1>3. e.plane \in Airplanes /\ p \in Airplanes /\ p.queueArrivalTime = t
    BY <1>0, <1>1 DEF TypeOK, Events, Airplanes
  <1>4. /\ departQueue' # << >>
        /\ departQueue # << >> => Head(departQueue') = Head(departQueue)
        /\ departQueue = << >> => Head(departQueue') = p
    <2>1. departQueue \in Seq(Airplanes)
      BY <1>0 DEF TypeOK
    <2> HIDE DEF p
    <2> QED
      BY <1>2, <1>3, <2>1
  <1> HIDE DEF p
  <1>5. TakeoffsBegun = 0 => BeforeTakeoffs'
    <2> SUFFICES ASSUME TakeoffsBegun = 0 PROVE BeforeTakeoffs'
      OBVIOUS
    <2>1. BeforeTakeoffs
      BY DEF TransientInv
    <2>2. \A x \in fes : x.time \in Nat /\ t <= x.time
      BY <1>0, <1>1 DEF ParkingExpiredQueued, ParkingExpired, Deliver, IsNext,
         Precedes, TypeOK, Events
    <2>3. /\ LandingEvents' = LandingEvents /\ ArrivalEvents' = ArrivalEvents
      BY <1>1, <1>2 DEF LandingEvents, ArrivalEvents
    <2>4. par.landingTime \in Nat /\ FirstReady \in Nat
          /\ FirstArrival <= FirstReady /\ FirstLanded <= FirstReady
          /\ FirstArrival \in Nat /\ FirstLanded \in Nat
      BY <1>0, Milestones
    <2>5. ASSUME NEW l \in LandingEvents
          PROVE  /\ l.time <= now' + par.landingTime
                 /\ \A a \in ArrivalEvents : Precedes(l, a)
                 /\ l.time <= Head(departQueue').queueArrivalTime
                                + par.landingTime
      <3>1. /\ l.time <= now + par.landingTime
            /\ \A a \in ArrivalEvents : Precedes(l, a)
            /\ departQueue # << >> =>
                 l.time <= Head(departQueue).queueArrivalTime
                             + par.landingTime
        BY <2>1 DEF BeforeTakeoffs, LandingSoonOver
      <3>2. l.time \in Nat
        BY <2>2 DEF LandingEvents
      <3>3. l.time <= t + par.landingTime
        BY <1>1, <2>4, <3>1, <3>2
      <3> QED
        BY <1>1, <1>3, <1>4, <3>1, <3>3
    <2>6. \/ \E x \in ArrivalEvents : x.time <= FirstArrival
          \/ \E x \in LandingEvents : x.time <= FirstLanded
          \/ Head(departQueue').queueArrivalTime <= FirstReady
      <3>1. CASE departQueue # << >>
        <4>1. CASE \E x \in ParkedEvents : x.time <= FirstReady
          <5>1. t <= FirstReady
            BY <1>1, <2>2, <2>4, <4>1 DEF ParkedEvents
          <5>2. Head(departQueue).queueArrivalTime <= now
            BY <1>0, <3>1, PopFacts
            DEF RunwayInv, QueuesOrdered, Ordered, TypeOK
          <5>3. Head(departQueue).queueArrivalTime \in Nat
            BY <1>0, <3>1, PopFacts DEF TypeOK, Airplanes
          <5> QED
            BY <1>1, <1>4, <2>4, <3>1, <5>1, <5>2, <5>3
        <4> QED
          BY <1>4, <2>1, <3>1, <4>1 DEF BeforeTakeoffs, FirstOnItsWay
      <3>2. CASE departQueue = << >>
        <4>1. t <= FirstReady
          BY <1>1, <2>1, <2>2, <2>4, <3>2
          DEF BeforeTakeoffs, FirstOnItsWay, ArrivalEvents, LandingEvents,
              ParkedEvents
        <4> QED
          BY <1>3, <1>4, <3>2, <4>1
      <3> QED
        BY <3>1, <3>2
    <2>7. holdingQueue' = << >>
      BY <1>2, <2>1 DEF BeforeTakeoffs
    <2> QED
      BY <1>1, <1>4, <2>3, <2>5, <2>6, <2>7, TransientNextParts
  <1>6. stats'["DepartQueueWaitingTime"] = stats["DepartQueueWaitingTime"]
    <2> DEFINE v == numParked - 1
               n == Len(departQueue) + 1
               u == Emit(stats, "ParkedPlanes", v)
    <2>1. v \in Int /\ n \in Int /\ stats \in StatsType
      BY <1>0 DEF TypeOK
    <2>2. stats' = Emit(u, "DepartQueueSize", n)
      BY DEF ParkingExpiredQueued, Unparked
    <2>3. "DepartQueueWaitingTime" \in Recorded \ {"ParkedPlanes"}
          /\ "DepartQueueWaitingTime" \in Recorded \ {"DepartQueueSize"}
      BY DEF Recorded
    <2> HIDE DEF v, n
    <2>4. u \in StatsType
          /\ u["DepartQueueWaitingTime"] = stats["DepartQueueWaitingTime"]
      BY <2>1, <2>3, OperationNames, OneSample
    <2> HIDE DEF u
    <2>5. Emit(u, "DepartQueueSize", n)["DepartQueueWaitingTime"]
            = u["DepartQueueWaitingTime"]
      BY <2>1, <2>3, <2>4, OperationNames, OneSample
    <2> QED
      BY <2>2, <2>4, <2>5
  <1>7. e \notin TakeoffEvents /\ fes \ {e} \subseteq fes'
    BY <1>1, <1>2 DEF TakeoffEvents
  <1> QED
    BY <1>1, <1>2, <1>5, <1>6, <1>7, TransientKept

\* The end of a landing: before the first take-off the strip goes to the
\* airplane that waits to take off, if there is one.
LEMMA LandedTransient ==
  ASSUME RunwayInv, Begun, TransientInv, ConstantTimes, LandingsKeepUp,
         NEW e \in fes, Landed(e)
  PROVE  TransientInv'
  <1> DEFINE t == e.time
             pt == par.parkingTime
             s == SelfMessage("parkingarea", t + pt, seq, e.plane)
             kept == (fes \ {e}) \cup {s}
             st == Emit(stats, "ParkedPlanes", numParked + 1)
             w == "DepartQueueWaitingTime"
  <1>0. TypeOK
    BY DEF RunwayInv
  <1>1. /\ t \in Nat /\ now \in Nat /\ now <= t /\ now' = t /\ par' = par
        /\ e.to = "parkingarea" /\ e.self = FALSE
        /\ departedPlanes' = departedPlanes /\ running' = running
    BY DeliverTimely DEF Landed
  <1>2. completed(t, kept, st) /\ pt \in Nat
    BY <1>0, Milestones DEF Landed
  <1>3. st \in StatsType /\ st[w] = stats[w]
    <2> DEFINE v == numParked + 1
    <2>1. v \in Int /\ stats \in StatsType
      BY <1>0 DEF TypeOK
    <2>2. "DepartQueueWaitingTime" \in Recorded \ {"ParkedPlanes"}
      BY DEF Recorded
    <2> HIDE DEF v
    <2>3. /\ Emit(stats, "ParkedPlanes", v) \in StatsType
          /\ Emit(stats, "ParkedPlanes", v)["DepartQueueWaitingTime"]
               = stats["DepartQueueWaitingTime"]
      BY <2>1, <2>2, OperationNames, OneSample
    <2> QED
      BY <2>3 DEF v
  <1>4. /\ s.self = TRUE /\ s.to = "parkingarea" /\ s.time = t + pt
    BY DEF SelfMessage
  <1>5. /\ e \in LandingEvents /\ RunwayEvents = {e} /\ TakeoffEvents = {}
        /\ LandingEvents = {e}
    BY <1>0, <1>1 DEF RunwayInv, RunwayExclusive, RunwayEvents, LandingEvents,
       TakeoffEvents, TypeOK, Events
  <1>6. TakeoffsBegun = departedPlanes /\ TakeoffsBegun \in Nat
    BY <1>5 DEF Begun
  <1>7. \/ stats'[w] = stats[w] /\ Selected # "parkingarea"
        \/ /\ Selected = "parkingarea" /\ TakeoffsBegun' = TakeoffsBegun + 1
           /\ LastWait' = t - Head(departQueue).queueArrivalTime
    <2> HIDE DEF st, kept
    <2>1. \/ stats'["DepartQueueWaitingTime"] = st["DepartQueueWaitingTime"]
             /\ Selected # "parkingarea"
          \/ /\ Selected = "parkingarea"
             /\ stats'["DepartQueueWaitingTime"].count
                  = st["DepartQueueWaitingTime"].count + 1
             /\ stats'["DepartQueueWaitingTime"].last
                  = t - Head(departQueue).queueArrivalTime
      BY <1>0, <1>1, <1>2, <1>3, CompletedWaits
    <2> QED
      BY <1>3, <2>1 DEF TakeoffsBegun, LastWait
  <1> HIDE DEF s, st
  <1>8. /\ par.landingTime \in Nat /\ par.takeoffTime \in Nat
        /\ FirstReady \in Nat /\ FirstLanded \in Nat
        /\ FirstGone = FirstReady + par.takeoffTime
        /\ FirstReady = FirstLanded + pt
    BY <1>0, Milestones DEF FirstGone, FirstReady
  <1>9. CASE TakeoffsBegun # 0
    BY <1>1, <1>6, <1>7, <1>9 DEF TransientInv, TakeoffsBegun, LastWait
  <1>10. CASE TakeoffsBegun = 0 /\ Selected # "parkingarea"
    <2>1. BeforeTakeoffs
      BY <1>10 DEF TransientInv
    <2>2. FreeStrip(kept, st)
      BY <1>0, <1>2, <1>10, <2>1, SelectedFacts
      DEF completed, HandOverToLanding, HandOverToTakeoff, BeforeTakeoffs
    <2>3. /\ departQueue = << >> /\ departQueue' = << >>
          /\ holdingQueue' = << >> /\ fes' = kept
      BY <1>0, <2>1, <2>2, SelectedFacts DEF FreeStrip, BeforeTakeoffs
    <2>4. /\ LandingEvents' = {} /\ s \in ParkedEvents'
          /\ ParkedEvents \subseteq ParkedEvents'
          /\ ArrivalEvents \subseteq ArrivalEvents'
      BY <1>1, <1>4, <1>5, <2>3
      DEF LandingEvents, ParkedEvents, ArrivalEvents
    <2>5. \/ \E x \in ArrivalEvents : x.time <= FirstArrival
          \/ t <= FirstLanded
          \/ \E x \in ParkedEvents : x.time <= FirstReady
      BY <1>5, <2>1, <2>3 DEF BeforeTakeoffs, FirstOnItsWay
    <2>6. t <= FirstLanded => s.time <= FirstReady
      BY <1>1, <1>2, <1>4, <1>8
    <2>7. BeforeTakeoffs'
      BY <1>1, <2>3, <2>4, <2>5, <2>6, TransientNextParts
    <2>8. TakeoffsBegun' = 0
      BY <1>7, <1>10 DEF TakeoffsBegun
    <2> QED
      BY <1>1, <2>7, <2>8 DEF TransientInv
  <1>11. CASE TakeoffsBegun = 0 /\ Selected = "parkingarea"
    <2>1. BeforeTakeoffs
      BY <1>11 DEF TransientInv
    <2>2. HandOverToTakeoff(t, kept, st) /\ departQueue # << >>
      BY <1>0, <1>2, <1>11, SelectedFacts
      DEF completed, FreeStrip, HandOverToLanding
    <2> DEFINE q == Head(departQueue).queueArrivalTime
               to == par.takeoffTime
               m == Message("airspace", t + to, seq + 1, Head(departQueue))
    <2>3. q \in Nat /\ t <= q + par.landingTime
      <3>1. q \in Nat
        BY <1>0, <2>2, PopFacts DEF TypeOK, Airplanes
      <3>2. t <= q + par.landingTime
        BY <1>5, <2>1, <2>2 DEF BeforeTakeoffs, LandingSoonOver
      <3> QED
        BY <3>1, <3>2
    <2>4. m \in TakeoffEvents' /\ m.time = t + to
      <3>1. TakeoffTimes = {to}
        BY <1>0, Milestones
      <3>2. fes' = kept \cup {m}
        BY <2>2, <3>1 DEF HandOverToTakeoff, ParkingAreaGo, StartTakeoff
      <3> QED
        BY <3>2 DEF Message, TakeoffEvents
    <2>5. q <= FirstReady
      <3>1. /\ \A x \in fes : x.time \in Nat /\ t <= x.time
        BY <1>0, <1>1 DEF Landed, Deliver, IsNext, Precedes, TypeOK, Events
      <3>2. q <= now
        BY <1>0, <2>2, PopFacts DEF RunwayInv, QueuesOrdered, Ordered, TypeOK
      <3>3. /\ FirstArrival \in Nat /\ FirstArrival <= FirstReady
            /\ FirstLanded <= FirstReady
        BY <1>0, Milestones
      <3> HIDE DEF q
      <3>4. CASE \E x \in fes : x.time <= FirstReady
        BY <1>1, <1>8, <2>3, <3>1, <3>2, <3>4
      <3>5. CASE q <= FirstReady
        BY <3>5
      <3>6. \/ q <= FirstReady
            \/ \E x \in fes : \/ x.time <= FirstArrival
                               \/ x.time <= FirstLanded
                               \/ x.time <= FirstReady
        BY <2>1 DEF BeforeTakeoffs, FirstOnItsWay, ArrivalEvents,
           LandingEvents, ParkedEvents, q
      <3>7. q <= FirstReady \/ \E x \in fes : x.time <= FirstReady
        BY <1>8, <3>1, <3>3, <3>6
      <3> QED
        BY <3>4, <3>5, <3>7
    <2> HIDE DEF q, m
    <2>6. m.time <= FirstGone + par.landingTime
      BY <1>1, <1>8, <2>3, <2>4, <2>5
    <2>7. FirstTakingOff'
      BY <1>1, <2>4, <2>6, TransientNextParts
    <2>8. LastWait' = t - q /\ TakeoffsBegun' = 1
      BY <1>7, <1>11 DEF q
    <2>9. LastWait' <= par'.landingTime
      BY <1>1, <1>8, <2>3, <2>8
    <2> QED
      BY <1>1, <2>7, <2>8, <2>9 DEF TransientInv
  <1> QED
    BY <1>9, <1>10, <1>11

\* The end of a take-off: the first departure is over.
LEMMA TakenOffTransient ==
  ASSUME RunwayInv, Begun, TransientInv, ConstantTimes, LandingsKeepUp,
         NEW e \in fes, Departed(e) \/ LastDeparted(e)
  PROVE  TransientInv'
  <1>0. TypeOK
    BY DEF RunwayInv
  <1>1. /\ e.time \in Nat /\ par' = par
        /\ e.to = "airspace" /\ e.self = FALSE
        /\ departedPlanes' = departedPlanes + 1
    BY DeliverTimely DEF Departed, LastDeparted, TakenOff
  <1>2. TakeoffsBegun \in Nat /\ TakeoffsBegun # 0 /\ departedPlanes \in Nat
    BY <1>1 DEF TakeoffEvents, Begun
  <1> DEFINE w == "DepartQueueWaitingTime"
  <1>3. Responded(e) \in StatsType /\ Responded(e)[w] = stats[w]
    <2> DEFINE v == e.time - e.plane.timestamp
    <2>1. v \in Int /\ stats \in StatsType
      BY <1>0 DEF TypeOK, Events, Airplanes
    <2>2. "DepartQueueWaitingTime" \in Recorded \ {"AirportResponseTime"}
      BY DEF Recorded
    <2> HIDE DEF v
    <2>3. /\ Emit(stats, "AirportResponseTime", v) \in StatsType
          /\ Emit(stats, "AirportResponseTime", v)["DepartQueueWaitingTime"]
               = stats["DepartQueueWaitingTime"]
      BY <2>1, <2>2, OperationNames, OneSample
    <2> QED
      BY <2>3 DEF v, Responded
  <1>4. stats'[w] = stats[w] \/ TakeoffsBegun' = TakeoffsBegun + 1
    <2>1. CASE Departed(e)
      <3>1. completed(e.time, fes \ {e}, Responded(e))
        BY <2>1 DEF Departed
      <3>2. \/ stats'["DepartQueueWaitingTime"]
                 = Responded(e)["DepartQueueWaitingTime"]
            \/ stats'["DepartQueueWaitingTime"].count
                 = Responded(e)["DepartQueueWaitingTime"].count + 1
        BY <1>0, <1>1, <1>3, <3>1, CompletedWaits
      <3> QED
        BY <1>3, <3>2 DEF TakeoffsBegun
    <2>2. CASE LastDeparted(e)
      <3>1. stats' = Emit(Responded(e), "TotalSimtime", e.time)
        BY <2>2 DEF LastDeparted
      <3>2. w \in Signals \ {"TotalSimtime"} /\ "TotalSimtime" \in Signals
        BY SignalNames
      <3>3. e.time \in Int
        BY <1>1
      <3> QED
        BY <1>3, <3>1, <3>2, <3>3, EmitFacts
    <2> QED
      BY <2>1, <2>2
  <1> QED
    BY <1>1, <1>2, <1>4 DEF TransientInv, TakeoffsBegun, LastWait

\* At first the first airplane is on its way.
LEMMA TransientInit ==
  ASSUME Init, ConstantTimes
  PROVE  TransientInv
  <1>1. TypeOK
    BY InitType
  <1>2. PICK a \in InterArrivalTimes :
          fes = {SelfMessage("airspace", a, 0, NewAirplane(1))}
    BY DEF Init, InitAirspace
  <1>3. a = FirstArrival /\ a \in Nat
    BY <1>1, Milestones
  <1> DEFINE e == SelfMessage("airspace", a, 0, NewAirplane(1))
  <1>e. e.time = FirstArrival /\ e.self = TRUE /\ e.to = "airspace"
    BY <1>3 DEF SelfMessage
  <1> HIDE DEF e
  <1>4. /\ LandingEvents = {}
        /\ \E x \in ArrivalEvents : x.time <= FirstArrival
    BY <1>2, <1>3, <1>e DEF LandingEvents, ArrivalEvents, e
  <1>5. TakeoffsBegun = 0
    BY SignalNames DEF Init, InitStats, TakeoffsBegun
  <1> QED
    BY <1>4, <1>5 DEF TransientInv, BeforeTakeoffs, LandingSoonOver,
       FirstOnItsWay, Init, InitAirspace

\* Every step keeps to it.
LEMMA TransientNext ==
  ASSUME RunwayInv, Begun, OneArrival, TransientInv, ConstantTimes, Next
  PROVE  TransientInv'
  <1>1. PICK e \in fes :
          \/ (ArrivalGranted(e) \/ ArrivalQueued(e)) /\ UNCHANGED parkingVars
          \/ (ParkingExpiredGranted(e) \/ ParkingExpiredQueued(e))
               /\ UNCHANGED airspaceVars
          \/ Landed(e)
          \/ Departed(e) \/ LastDeparted(e)
    BY DEF Next
  <1>2. par' = par
    BY <1>1 DEF ArrivalGranted, ArrivalQueued, Arrival, ParkingExpiredGranted,
       ParkingExpiredQueued, ParkingExpired, Landed, Departed, LastDeparted,
       TakenOff, Deliver
  <1>3. CASE LandingsKeepUp
    BY <1>1, <1>3, ArrivalGrantedTransient, ArrivalQueuedTransient,
       ParkingGrantedTransient, ParkingQueuedTransient, LandedTransient,
       TakenOffTransient
  <1>4. CASE ~LandingsKeepUp
    BY <1>2, <1>4 DEF TransientInv, LandingsKeepUp
  <1> QED
    BY <1>3, <1>4

(***************************************************************************)
(* The theorems.                                                           *)
(***************************************************************************)

\* An airplane that waits to take off waits for an event: the simulation
\* does not end before a departure.
LEMMA DepartureBracketed ==
  ASSUME RunwayInv, Begun, Timely, TransientInv, ConstantTimes
  PROVE  FirstDeparture
  <1>0. TypeOK
    BY DEF RunwayInv
  <1>1. /\ WarmupPeriod = FirstGone /\ FirstGone \in Nat
        /\ FirstReady <= FirstGone /\ FirstLanded <= FirstReady
        /\ FirstArrival <= FirstLanded /\ par.landingTime \in Nat
        /\ FirstReady \in Nat /\ FirstLanded \in Nat /\ FirstArrival \in Nat
        /\ now \in Nat /\ departedPlanes \in Nat
    BY <1>0, Milestones DEF TypeOK
  <1>2. ASSUME LandingsKeepUp, departedPlanes = 0
        PROVE  now <= WarmupPeriod + par.landingTime
    <2>1. \A x \in fes : x.time \in Nat /\ now <= x.time
      BY <1>0 DEF RunwayInv, EventsAhead, TypeOK, Events
    <2>2. SUFFICES \/ \E x \in fes : x.time <= FirstReady
                   \/ \E x \in fes : x.time <= FirstReady + par.landingTime
                   \/ \E x \in fes : x.time <= FirstGone + par.landingTime
      BY <1>1, <2>1
    <2>3. CASE TakeoffsBegun # 0
      BY <1>2, <2>3 DEF TransientInv, Begun, FirstTakingOff, TakeoffEvents
    <2>4. CASE TakeoffsBegun = 0
      <3>1. BeforeTakeoffs /\ TakeoffEvents = {}
        BY <1>2, <2>4 DEF TransientInv, Begun
      <3>2. CASE \/ \E x \in ArrivalEvents : x.time <= FirstArrival
                 \/ \E x \in LandingEvents : x.time <= FirstLanded
                 \/ \E x \in ParkedEvents : x.time <= FirstReady
        BY <1>1, <2>1, <3>2 DEF ArrivalEvents, LandingEvents, ParkedEvents
      <3>3. CASE /\ departQueue # << >>
                 /\ Head(departQueue).queueArrivalTime <= FirstReady
        <4>1. running /\ landingStripOccupied
          BY <1>2, <3>3 DEF TransientInv, RunwayInv, NoIdleWaiting
        <4>2. PICK l \in RunwayEvents : TRUE
          BY <4>1 DEF RunwayInv, RunwayExclusive
        <4>3. l \in LandingEvents
          BY <1>0, <3>1, <4>2 DEF RunwayEvents, LandingEvents, TakeoffEvents,
             TypeOK, Events, Modules
        <4>4. l.time <= Head(departQueue).queueArrivalTime + par.landingTime
          BY <3>1, <3>3, <4>3 DEF BeforeTakeoffs, LandingSoonOver
        <4>5. Head(departQueue).queueArrivalTime \in Nat
          BY <1>0, <3>3, PopFacts DEF TypeOK, Airplanes
        <4>6. l \in fes
          BY <4>2 DEF RunwayEvents
        <4> QED
          BY <1>1, <2>1, <3>3, <4>4, <4>5, <4>6
      <3> QED
        BY <3>1, <3>2, <3>3 DEF BeforeTakeoffs, FirstOnItsWay
    <2> QED
      BY <2>3, <2>4
  <1> QED
    BY <1>1, <1>2 DEF Timely, FirstDeparture

\* The invariants of the runway and of the counts hold in the experiments.
Beginning == RunwayInv /\ CountInv /\ Timely /\ TransientInv

LEMMA BeginningNext ==
  ASSUME Beginning, ConstantTimes, [ExperimentNext]_experimentVars
  PROVE  Beginning'
  <1>1. [Next]_vars
    BY DEF ExperimentNext, experimentVars
  <1>2. RunwayInv' /\ CountInv'
    BY <1>1, RunwayNext, CountNext DEF Beginning
  <1>3. CASE Next
    BY <1>2, <1>3, CountsBegun, TimelyNext, TransientNext DEF Beginning
  <1>4. CASE UNCHANGED vars
    <2>1. Timely'
      BY <1>4 DEF Beginning, vars, Timely, NotEarly, FirstArrival,
         FirstLanded, FirstReady, FirstGone
    <2>2. TransientInv'
      BY <1>4 DEF Beginning, vars, TransientInv, LandingsKeepUp,
         TakeoffsBegun, LastWait, BeforeTakeoffs, LandingSoonOver,
         FirstOnItsWay, FirstTakingOff, ArrivalEvents, LandingEvents,
         ParkedEvents, TakeoffEvents, FirstArrival, FirstLanded, FirstReady,
         FirstGone, Precedes
    <2> QED
      BY <1>2, <2>1, <2>2 DEF Beginning
  <1> QED
    BY <1>1, <1>3, <1>4

\* And at the beginning.
LEMMA BeginningInit ==
  ASSUME ExperimentInit, ConstantTimes
  PROVE  Beginning
  BY RunwayInit, CountInit, TimelyInit, TransientInit
  DEF ExperimentInit, Beginning

(***************************************************************************)
(* In every deterministic experiment the first departure comes when the    *)
(* warm-up period ends, or at most a landing time later if the landings    *)
(* alone do not overload the runway.                                       *)
(***************************************************************************)
THEOREM WarmupEndsWithFirstDeparture ==
  ASSUME ConstantTimes
  PROVE  ExperimentSpec => []FirstDeparture
  <1>1. ExperimentInit => Beginning
    BY BeginningInit
  <1>2. Beginning /\ [ExperimentNext]_experimentVars => Beginning'
    BY BeginningNext
  <1>3. Beginning => FirstDeparture
    BY CountsBegun, DepartureBracketed DEF Beginning
  <1> QED
    BY <1>1, <1>2, <1>3, PTL DEF ExperimentSpec

(***************************************************************************)
(* In every deterministic experiment whose landings alone do not overload  *)
(* the runway nobody waits to land before the first take-off, and the      *)
(* first take-off waits for one landing at most.                           *)
(***************************************************************************)
THEOREM FirstTakeoffIsNext ==
  ASSUME ConstantTimes
  PROVE  ExperimentSpec => []FirstTakeoffNext
  <1>1. ExperimentInit => Beginning
    BY BeginningInit
  <1>2. Beginning /\ [ExperimentNext]_experimentVars => Beginning'
    BY BeginningNext
  <1>3. Beginning => FirstTakeoffNext
    BY DEF Beginning, TransientInv, FirstTakeoffNext, BeforeTakeoffs
  <1> QED
    BY <1>1, <1>2, <1>3, PTL DEF ExperimentSpec
=============================================================================
