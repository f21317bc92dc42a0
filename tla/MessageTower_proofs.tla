------------------------- MODULE MessageTower_proofs -------------------------
(***************************************************************************)
(* Theorems about MessageTower, for every set of settings, every set of    *)
(* drawn values and every number of airplanes: first the runway, then that *)
(* no airplane is lost or duplicated, and that the four modules implement  *)
(* PriorityRunway; last, how long an airplane waits for its take-off.      *)
(***************************************************************************)
EXTENDS MessageTower, FiniteSetTheorems, TLAPS

(***************************************************************************)
(* Facts about the event set.                                              *)
(***************************************************************************)

\* Every duration a handler draws is a natural number.
LEMMA DrawsAreNat ==
  ASSUME par \in Settings
  PROVE  /\ Draw(par.lambda) \subseteq Nat
         /\ Draw(par.tl) \subseteq Nat
         /\ Draw(par.tp) \subseteq Nat
         /\ Draw(par.to) \subseteq Nat
  BY SettingsAssumption, SamplesAssumption DEF Draw

\* x is a message the current handler inserts: an event, not in the past, and
\* newer than those pending.
Inserted(x) ==
  /\ x \in Events
  /\ x.time >= now'
  /\ x.seq = seq \/ x.seq = seq + 1

\* The delivery of an event keeps the event set ordered in time, and at the
\* present instant while another event of this instant is pending.
LEMMA KernelStep ==
  ASSUME TypeOK, EventsAhead, NEW e \in fes, NEW to, NEW msg, Deliver(e, to, msg)
  PROVE  /\ e.time \in Nat /\ now' = e.time /\ now <= e.time
         /\ seq' = seq + 2 /\ seq' \in Nat /\ seq \in Nat
         /\ par' \in Settings
         /\ \A f \in fes \ {e} : e.time <= f.time /\ (f.time = now => e.time = now)
  BY DEF TypeOK, EventsAhead, Deliver, Precedes, Events

\* No event is left behind, and all are older than the next to be inserted.
LEMMA FesStep ==
  ASSUME TypeOK, EventsAhead, NEW e \in fes, NEW to, NEW msg, Deliver(e, to, msg),
         NEW gone, NEW ins, e \in gone, Replace(gone, ins),
         \A x \in ins : Inserted(x)
  PROVE  /\ fes' \subseteq Events
         /\ EventsAhead'
  <1>1. /\ e.time \in Nat /\ now' = e.time /\ seq \in Nat /\ seq' = seq + 2
        /\ \A f \in fes \ {e} : e.time <= f.time
    BY KernelStep
  <1>2. \A f \in fes' : f \in fes \ {e} \/ Inserted(f)
    BY DEF Replace
  <1>3. \A f \in fes : f \in Events /\ f.seq < seq
    BY DEF TypeOK, EventsAhead
  <1>4. fes' \subseteq Events
    BY <1>2, <1>3 DEF Inserted
  <1>5. ASSUME NEW f \in fes' PROVE now' <= f.time /\ f.seq < seq'
    BY <1>1, <1>2, <1>3 DEF Inserted, Events
  <1> QED
    BY <1>4, <1>5 DEF EventsAhead

\* What is at a gate after a handler: what was there, if the handler takes
\* and inserts no message for it,
LEMMA AtKept ==
  ASSUME NEW to, NEW msg, NEW gone, NEW ins, Replace(gone, ins),
         \A x \in gone : ~(x.to = to /\ x.msg = msg),
         \A x \in ins : ~(x.to = to /\ x.msg = msg)
  PROVE  At(to, msg)' = At(to, msg)
  <1>1. \A x : x \in fes' <=> (x \in fes /\ x \notin gone) \/ x \in ins
    BY DEF Replace
  <1>2. \A x : x \in At(to, msg)' <=> x \in At(to, msg)
    BY <1>1 DEF At
  <1> QED
    BY <1>2

\* nothing, if it takes all that was there,
LEMMA AtTaken ==
  ASSUME NEW to, NEW msg, NEW gone, NEW ins, Replace(gone, ins),
         At(to, msg) \subseteq gone,
         \A x \in ins : ~(x.to = to /\ x.msg = msg)
  PROVE  At(to, msg)' = {}
  <1>1. \A x : x \in fes' <=> (x \in fes /\ x \notin gone) \/ x \in ins
    BY DEF Replace
  <1>2. \A x : x \notin At(to, msg)'
    BY <1>1 DEF At
  <1> QED
    BY <1>2

\* and the message inserted for it, if there was no other one.
LEMMA AtPut ==
  ASSUME NEW to, NEW msg, NEW gone, NEW ins, Replace(gone, ins),
         At(to, msg) \subseteq gone, NEW new, new \in ins,
         new.to = to, new.msg = msg,
         \A x \in ins : x # new => ~(x.to = to /\ x.msg = msg)
  PROVE  At(to, msg)' = {new}
  <1>1. \A x : x \in fes' <=> (x \in fes /\ x \notin gone) \/ x \in ins
    BY DEF Replace
  <1>2. \A x : x \in At(to, msg)' <=> x = new
    BY <1>1 DEF At
  <1> QED
    BY <1>2

\* A handler that schedules no landing leaves nextL as it is.
LEMMA LandingKept ==
  ASSUME RunwayInv, NEW gone, NEW ins, Replace(gone, ins),
         \A x \in ins : Inserted(x) /\ ~(x.to = "sky" /\ x.msg = "landing"),
         nextL' = nextL, seq' = seq + 2,
         nextL = 0 => \A x \in ins : x.to = "sky" /\ x.msg = "arrival",
         nextL = 0 => toTimes' = toTimes
  PROVE  LandingKnown'
  <1>1. /\ nextL \in Nat /\ seq \in Nat /\ nextL < seq
        /\ \A f \in fes : f.seq = nextL <=> f \in Landings
        /\ nextL = 0 => fes = At("sky", "arrival") /\ toTimes = <<>>
    BY DEF RunwayInv, TypeOK, LandingKnown
  <1>2. \A f \in fes' : (f \in fes /\ f \notin gone) \/ f \in ins
    BY DEF Replace
  <1>3. \A f : f \in Landings' <=> f \in Landings /\ f \notin gone
    BY DEF Landings, At, Replace
  <1>4. ASSUME NEW f \in fes' PROVE f.seq = nextL' <=> f \in Landings'
    <2>1. CASE f \in fes /\ f \notin gone
      BY <1>1, <1>3, <2>1
    <2>2. CASE f \in ins
      <3>1. f.seq # nextL
        BY <1>1, <2>2 DEF Inserted
      <3>2. f \notin Landings
        BY <2>2 DEF Landings, At
      <3> QED
        BY <1>3, <3>1, <3>2
    <2> QED
      BY <1>2, <2>1, <2>2
  <1>5. nextL' = 0 => fes' = At("sky", "arrival")' /\ toTimes' = <<>>
    BY <1>1, <1>2 DEF At
  <1> QED
    BY <1>1, <1>4, <1>5 DEF LandingKnown

\* A handler that schedules a landing while there is none points nextL to it.
LEMMA LandingNew ==
  ASSUME RunwayInv, NEW gone, NEW ins, Replace(gone, ins), NEW new,
         \A x \in ins : Inserted(x), new \in ins,
         new.to = "sky" /\ new.msg = "landing",
         \A x \in ins : x # new => x.seq # new.seq /\ ~(x.to = "sky" /\ x.msg = "landing"),
         Landings \subseteq gone, nextL' = new.seq, seq' = seq + 2
  PROVE  LandingKnown' /\ Landings' = {new}
  <1>1. seq \in Nat /\ 0 < seq /\ \A f \in fes : f.seq < seq /\ f.seq \in Nat
    BY DEF RunwayInv, TypeOK, LandingKnown, EventsAhead, Events
  <1>2. \A f \in fes' : f \in fes \/ f \in ins
    BY DEF Replace
  <1>3. Landings' = {new}
    BY AtPut DEF Landings
  <1>4. new.seq = seq \/ new.seq = seq + 1
    BY DEF Inserted
  <1>5. ASSUME NEW f \in fes' PROVE f.seq = nextL' <=> f \in Landings'
    BY <1>1, <1>2, <1>3, <1>4
  <1> QED
    BY <1>1, <1>3, <1>4, <1>5 DEF LandingKnown

\* What every handler owes to the invariant besides its own part: the
\* kernel's part is kept by the delivery, and a message over a gate is one of
\* the present instant.
LEMMA HandlerStep ==
  ASSUME RunwayInv, NEW e \in fes, NEW to, NEW msg, Deliver(e, to, msg),
         NEW gone, NEW ins, e \in gone, Replace(gone, ins),
         \A x \in ins :
           /\ Inserted(x)
           /\ x.to \in {"sky.inTakeoff", "takeOff.inSky"} => x.time = e.time,
         usingRunway' \in BOOLEAN, skyAvailable' \in BOOLEAN, toAvailable' \in BOOLEAN,
         nextL' \in Nat, nextLtime' \in Nat, created' \in Nat,
         skyTimes' \in Seq(Nat), toTimes' \in Seq(Nat),
         numAirplanes' \in Int, left' \in Nat,
         LandingKnown', AllUnique', LandingQueued', RightGoesRound'
  PROVE  RunwayInv'
  <1>1. TypeOK /\ EventsAhead /\ MessagesInstant
    BY DEF RunwayInv
  <1>2. /\ e.time \in Nat /\ now' = e.time /\ seq' \in Nat /\ par' \in Settings
        /\ \A f \in fes \ {e} : f.time = now => e.time = now
    BY <1>1, KernelStep
  <1>3. fes' \subseteq Events /\ EventsAhead'
    BY <1>1, FesStep
  <1>4. TypeOK'
    BY <1>2, <1>3 DEF TypeOK
  <1>5. MessagesInstant'
    <2>1. ASSUME NEW f \in fes',
                 \/ f.to = "sky.inTakeoff" /\ f.msg = "runwayRequest"
                 \/ f.to = "takeOff.inSky" /\ f.msg = "runwayAvailable"
                 \/ f.to = "sky.inTakeoff" /\ f.msg = "runwayAvailable"
          PROVE  f.time = now'
      <3>1. CASE f \in ins
        BY <1>2, <2>1, <3>1
      <3>2. CASE f \in fes \ {e}
        <4>1. f \in Requests \cup Grants \cup Returns
          BY <2>1, <3>2 DEF Requests, Grants, Returns, At
        <4> QED
          BY <1>1, <1>2, <3>2, <4>1 DEF MessagesInstant
      <3> QED
        BY <3>1, <3>2 DEF Replace
    <2> QED
      BY <2>1 DEF MessagesInstant, Requests, Grants, Returns, At
  <1> QED
    BY <1>3, <1>4, <1>5 DEF RunwayInv

\* A handler that takes and inserts none of the messages the runway depends
\* on, and does not touch the flags.
LEMMA QuietStep ==
  ASSUME RunwayInv, NEW e \in fes, NEW to, NEW msg, Deliver(e, to, msg),
         NEW ins, Replace({e}, ins),
         \A x \in ins :
           /\ Inserted(x)
           /\ x.to \notin {"takeOff", "sky.inTakeoff", "takeOff.inSky"}
           /\ x.msg # "landing",
         to \notin {"takeOff", "sky.inTakeoff", "takeOff.inSky"}, msg # "landing",
         nextL = 0 => \A x \in ins : x.to = "sky" /\ x.msg = "arrival",
         UNCHANGED <<usingRunway, skyAvailable, nextL, nextLtime, toAvailable, toTimes>>,
         skyTimes' \in Seq(Nat), skyTimes # <<>> => skyTimes' # <<>>,
         created' \in Nat, numAirplanes' \in Int, left' \in Nat
  PROVE  RunwayInv'
  <1>1. TypeOK /\ EventsAhead /\ AllUnique /\ LandingQueued /\ RightGoesRound
    BY DEF RunwayInv
  <1>2. e.to = to /\ e.msg = msg /\ seq' = seq + 2
    BY DEF Deliver
  <1>3. \A x \in {e} \cup ins :
          /\ x.to # "takeOff" /\ x.to # "sky.inTakeoff" /\ x.to # "takeOff.inSky"
          /\ x.msg # "landing"
    BY <1>2
  <1>4. Landings' = Landings
    BY <1>3, AtKept DEF Landings
  <1>5. TakeOffs' = TakeOffs
    BY <1>3, AtKept DEF TakeOffs
  <1>6. Requests' = Requests
    BY <1>3, AtKept DEF Requests
  <1>7. Grants' = Grants
    BY <1>3, AtKept DEF Grants
  <1>8. Returns' = Returns
    BY <1>3, AtKept DEF Returns
  <1>9. LandingKnown'
    BY <1>2, LandingKept
  <1>10. AllUnique' /\ LandingQueued'
    BY <1>1, <1>4, <1>5, <1>6, <1>7, <1>8 DEF AllUnique, LandingQueued, Unique
  <1>11. RightGoesRound'
    BY <1>1, <1>4, <1>5, <1>6, <1>7, <1>8
    DEF RightGoesRound, WithSky, RequestKept, BeingGranted, WithTakeOff, BeingReturned, Precedes
  <1>12. /\ usingRunway' \in BOOLEAN /\ skyAvailable' \in BOOLEAN /\ toAvailable' \in BOOLEAN
         /\ nextL' \in Nat /\ nextLtime' \in Nat /\ toTimes' \in Seq(Nat)
    BY <1>1 DEF TypeOK
  <1>13. \A x \in ins :
           /\ Inserted(x)
           /\ x.to \in {"sky.inTakeoff", "takeOff.inSky"} => x.time = e.time
    BY <1>3
  <1>14. e \in {e}
    OBVIOUS
  <1> QED
    BY <1>13, <1>14, <1>9, <1>10, <1>11, <1>12, HandlerStep

(***************************************************************************)
(* Each handler keeps the invariant.                                       *)
(***************************************************************************)

\* An airplane that has to wait changes only Sky's queue.
LEMMA ArrivalWaitsStep ==
  ASSUME RunwayInv, NEW e \in fes, ArrivalWaits(e),
         UNCHANGED <<takeOffVars, parkingVars>>
  PROVE  RunwayInv'
  <1>1. Deliver(e, "sky", "arrival")
    BY DEF ArrivalWaits, Arrives
  <1>2. e.time \in Nat /\ now' = e.time /\ seq \in Nat
    BY <1>1, KernelStep DEF RunwayInv
  <1>3. PICK d \in Draw(par.lambda) : Replace({e}, scheduleArrival(d))
    BY DEF ArrivalWaits
  <1>4. d \in Nat
    BY DrawsAreNat DEF RunwayInv, TypeOK
  <1>5. \A x \in scheduleArrival(d) : Inserted(x) /\ x.to = "sky" /\ x.msg = "arrival"
    BY <1>2, <1>4 DEF scheduleArrival, Event, Events, Inserted, Gates, Names
  <1>6. /\ UNCHANGED <<usingRunway, skyAvailable, nextL, nextLtime, toAvailable, toTimes>>
        /\ skyTimes' \in Seq(Nat) /\ skyTimes' # <<>>
        /\ created' \in Nat /\ numAirplanes' \in Int /\ left' \in Nat
    BY <1>2 DEF ArrivalWaits, Arrives, NoLanding, takeOffVars, parkingVars, RunwayInv, TypeOK
  <1> QED
    BY <1>1, <1>3, <1>5, <1>6, QuietStep

\* Parking and Runway do not take part in the protocol of the runway.
LEMMA ParkingStepInv ==
  ASSUME RunwayInv, NEW e \in fes, ParkingStep(e), UNCHANGED <<skyVars, takeOffVars>>
  PROVE  RunwayInv'
  <1>1. /\ UNCHANGED <<usingRunway, skyAvailable, nextL, nextLtime, toAvailable, toTimes>>
        /\ skyTimes' \in Seq(Nat) /\ skyTimes' = skyTimes /\ created' \in Nat
        /\ numAirplanes \in Int /\ left \in Nat /\ par \in Settings
    BY DEF skyVars, takeOffVars, RunwayInv, TypeOK
  <1>2. ASSUME e.msg # "arrival" PROVE nextL # 0
    BY <1>2 DEF RunwayInv, LandingKnown, At
  <1>3. ASSUME NEW to, NEW msg, Deliver(e, to, msg)
        PROVE  e.time \in Nat /\ now' = e.time /\ seq \in Nat /\ e.msg = msg
    BY <1>3, KernelStep DEF RunwayInv, Deliver
  <1>4. CASE ParkingEntered(e)
    <2>1. Deliver(e, "parking.park", "Airplane")
      BY <1>4 DEF ParkingEntered
    <2>2. PICK d \in Draw(par.tp) : Replace({e}, {Event("parking", "unnamed", d, 0)})
      BY <1>4 DEF ParkingEntered
    <2> DEFINE x == Event("parking", "unnamed", d, 0)
    <2>3. d \in Nat
      BY <1>1, DrawsAreNat
    <2>4. Inserted(x) /\ x.to = "parking" /\ x.msg = "unnamed"
      BY <1>3, <2>1, <2>3 DEF Event, Events, Inserted, Gates, Names
    <2>5. nextL # 0
      BY <1>2, <1>3, <2>1
    <2>6. numAirplanes' \in Int /\ left' \in Nat
      BY <1>1, <1>4 DEF ParkingEntered
    <2>7. Replace({e}, {x})
      BY <2>2
    <2> HIDE DEF x
    <2> QED
      BY <1>1, <2>1, <2>4, <2>5, <2>6, <2>7, QuietStep
  <1>5. CASE ParkingExpired(e)
    <2> DEFINE x == Event("takeOff.park", "Airplane", 0, 0)
    <2>1. Deliver(e, "parking", "unnamed") /\ Replace({e}, {x})
      BY <1>5 DEF ParkingExpired
    <2>2. Inserted(x) /\ x.to = "takeOff.park" /\ x.msg = "Airplane"
      BY <1>3, <2>1 DEF Event, Events, Inserted, Gates, Names
    <2>3. nextL # 0
      BY <1>2, <1>3, <2>1
    <2>4. numAirplanes' \in Int /\ left' \in Nat
      BY <1>1, <1>5 DEF ParkingExpired
    <2> HIDE DEF x
    <2> QED
      BY <1>1, <2>1, <2>2, <2>3, <2>4, QuietStep
  <1>6. CASE RunwayFromSky(e)
    <2> DEFINE x == Event("parking.park", "Airplane", 0, 0)
    <2>1. Deliver(e, "runway.sky", "Airplane") /\ Replace({e}, {x})
      BY <1>6 DEF RunwayFromSky, Forwarded
    <2>2. Inserted(x) /\ x.to = "parking.park" /\ x.msg = "Airplane"
      BY <1>3, <2>1 DEF Event, Events, Inserted, Gates, Names
    <2>3. nextL # 0
      BY <1>2, <1>3, <2>1
    <2>4. numAirplanes' \in Int /\ left' \in Nat
      BY <1>1, <1>6 DEF RunwayFromSky, parkingVars
    <2> HIDE DEF x
    <2> QED
      BY <1>1, <2>1, <2>2, <2>3, <2>4, QuietStep
  <1>7. CASE RunwayFromTakeOff(e)
    <2>1. Deliver(e, "runway.takeOff", "Airplane") /\ Replace({e}, {})
      BY <1>7 DEF RunwayFromTakeOff
    <2>2. numAirplanes' \in Int /\ left' \in Nat
      BY <1>1, <1>7 DEF RunwayFromTakeOff
    <2> QED
      BY <1>1, <2>1, <2>2, QuietStep
  <1> QED
    BY <1>4, <1>5, <1>6, <1>7 DEF ParkingStep

\* The landing is scheduled by the airplane's own arrival.
LEMMA ArrivalLandsStep ==
  ASSUME RunwayInv, NEW e \in fes, ArrivalLands(e),
         UNCHANGED <<takeOffVars, parkingVars>>
  PROVE  RunwayInv'
  <1>1. Deliver(e, "sky", "arrival") /\ e.to = "sky" /\ e.msg = "arrival"
    BY DEF ArrivalLands, Arrives, Deliver
  <1>2. e.time \in Nat /\ now' = e.time /\ seq \in Nat /\ seq' = seq + 2
    BY <1>1, KernelStep DEF RunwayInv
  <1>3. PICK t \in Draw(par.tl), d \in Draw(par.lambda) :
          Replace({e}, {Landing(t, 0)} \cup scheduleArrival(d))
    BY DEF ArrivalLands
  <1> DEFINE x == Landing(t, 0)
             ins == {x} \cup scheduleArrival(d)
  <1>4. t \in Nat /\ d \in Nat
    BY DrawsAreNat DEF RunwayInv, TypeOK
  <1>5. Inserted(x) /\ x.to = "sky" /\ x.msg = "landing" /\ x.seq = seq
    BY <1>2, <1>4 DEF Landing, Event, Events, Inserted, Gates, Names
  <1>6. \A y \in scheduleArrival(d) :
          Inserted(y) /\ y.to = "sky" /\ y.msg = "arrival" /\ y.seq = seq + 1
    BY <1>2, <1>4 DEF scheduleArrival, Event, Events, Inserted, Gates, Names
  <1>7. /\ Replace({e}, ins) /\ x \in ins
        /\ \A y \in ins : Inserted(y) /\ y.to = "sky"
        /\ \A y \in ins : y # x => y.seq # x.seq /\ y.msg # "landing"
    BY <1>2, <1>3, <1>5, <1>6
  <1> HIDE DEF x, ins
  <1>8. /\ skyAvailable /\ skyTimes = <<>> /\ usingRunway' = TRUE /\ skyAvailable' = skyAvailable
        /\ nextL' = x.seq /\ nextLtime' = e.time /\ created' = created + 1
        /\ skyTimes' = Append(skyTimes, e.time)
        /\ UNCHANGED <<toAvailable, toTimes, numAirplanes, left>>
    BY <1>2, <1>5 DEF ArrivalLands, Arrives, LandsAtOnce, scheduleLanding, takeOffVars, parkingVars
  <1>9. Landings = {}
    BY <1>8 DEF RunwayInv, LandingQueued
  <1>10. LandingKnown' /\ Landings' = {x}
    BY <1>2, <1>5, <1>7, <1>8, <1>9, LandingNew
  <1>11. TakeOffs' = TakeOffs
    BY <1>1, <1>7, AtKept DEF TakeOffs
  <1>12. Requests' = Requests
    BY <1>1, <1>7, AtKept DEF Requests
  <1>13. Grants' = Grants
    BY <1>1, <1>7, AtKept DEF Grants
  <1>14. Returns' = Returns
    BY <1>1, <1>7, AtKept DEF Returns
  <1>15. AllUnique'
    BY <1>10, <1>11, <1>12, <1>13, <1>14 DEF RunwayInv, AllUnique, Unique
  <1>16. /\ skyTimes' \in Seq(Nat) /\ skyTimes' # <<>> /\ created' \in Nat
         /\ nextL' \in Nat /\ nextLtime' \in Nat
    BY <1>2, <1>5, <1>8 DEF RunwayInv, TypeOK
  <1>17. LandingQueued'
    BY <1>8, <1>10, <1>16 DEF LandingQueued
  <1>18. WithSky'
    BY <1>8, <1>11, <1>12, <1>13, <1>14 DEF RunwayInv, RightGoesRound, WithSky, RequestKept, BeingGranted, WithTakeOff, BeingReturned
  <1>19. /\ usingRunway' \in BOOLEAN /\ skyAvailable' \in BOOLEAN /\ toAvailable' \in BOOLEAN
         /\ toTimes' \in Seq(Nat) /\ numAirplanes' \in Int /\ left' \in Nat
    BY <1>8 DEF RunwayInv, TypeOK
  <1>20. RightGoesRound'
    BY <1>18 DEF RightGoesRound
  <1>21. \A y \in ins :
           /\ Inserted(y)
           /\ y.to \in {"sky.inTakeoff", "takeOff.inSky"} => y.time = e.time
    BY <1>7
  <1>22. e \in {e}
    OBVIOUS
  <1> QED
    BY <1>1, <1>7, <1>10, <1>15, <1>16, <1>17, <1>19, <1>20, <1>21, <1>22, HandlerStep

\* Only an arrival is ever handled before the first landing is scheduled.
LEMMA LandingAssigned ==
  ASSUME RunwayInv, NEW e \in fes, e.msg # "arrival"
  PROVE  nextL # 0
  BY DEF RunwayInv, LandingKnown, At

\* The landing that ends is the only one.
LEMMA OnlyLanding ==
  ASSUME RunwayInv, NEW e \in fes, e.to = "sky", e.msg = "landing"
  PROVE  Landings = {e} /\ usingRunway
  <1>1. e \in Landings
    BY DEF Landings, At
  <1> QED
    BY <1>1 DEF RunwayInv, AllUnique, Unique, LandingQueued

\* The airplane that landed goes on to the runway.
LEMMA LandedFacts ==
  ASSUME RunwayInv, NEW e \in fes, Lands(e)
  PROVE  /\ Deliver(e, "sky", "landing") /\ e.to = "sky" /\ e.msg = "landing"
         /\ e.time \in Nat /\ now' = e.time /\ seq \in Nat /\ seq' = seq + 2
         /\ Landings = {e} /\ usingRunway /\ nextL # 0
         /\ skyAvailable' = skyAvailable /\ created' = created
         /\ skyTimes' \in Seq(Nat)
         /\ Inserted(Landed) /\ Landed.to = "runway.sky" /\ Landed.msg = "Airplane"
         /\ Landed.seq = seq
  <1>1. Deliver(e, "sky", "landing") /\ e.to = "sky" /\ e.msg = "landing"
    BY DEF Lands, Deliver
  <1>2. e.time \in Nat /\ now' = e.time /\ seq \in Nat /\ seq' = seq + 2
    BY <1>1, KernelStep DEF RunwayInv
  <1>3. Landings = {e} /\ usingRunway /\ nextL # 0
    BY <1>1, OnlyLanding, LandingAssigned
  <1>4. /\ skyAvailable' = skyAvailable /\ created' = created
        /\ skyTimes' \in Seq(Nat)
    BY DEF Lands, RunwayInv, TypeOK
  <1>5. /\ Inserted(Landed) /\ Landed.to = "runway.sky" /\ Landed.msg = "Airplane"
        /\ Landed.seq = seq
    BY <1>2 DEF Landed, Event, Events, Inserted, Gates, Names
  <1> QED
    BY <1>1, <1>2, <1>3, <1>4, <1>5

\* The landing a request waits for is over: the runway is granted.
LEMMA LandingAnswersStep ==
  ASSUME RunwayInv, NEW e \in fes, LandingAnswersRequest(e),
         UNCHANGED <<takeOffVars, parkingVars>>
  PROVE  RunwayInv'
  <1> DEFINE x == Landed
             g == Granted(1)
             ins == {x, g}
  <1>1. /\ Deliver(e, "sky", "landing") /\ e.to = "sky" /\ e.msg = "landing"
        /\ e.time \in Nat /\ now' = e.time /\ seq \in Nat /\ seq' = seq + 2
        /\ Landings = {e} /\ usingRunway /\ nextL # 0
        /\ skyAvailable' = skyAvailable /\ created' = created
        /\ skyTimes' \in Seq(Nat)
        /\ Inserted(x) /\ x.to = "runway.sky"
    BY LandedFacts DEF LandingAnswersRequest
  <1>2. /\ Inserted(g) /\ g.to = "takeOff.inSky" /\ g.msg = "runwayAvailable"
        /\ g.time = e.time
    BY <1>1 DEF Granted, Event, Events, Inserted, Gates, Names
  <1>3. Replace({e}, ins) /\ ~skyAvailable /\ usingRunway' = FALSE
    BY DEF LandingAnswersRequest
  <1>4. UNCHANGED <<nextL, nextLtime, toAvailable, toTimes, numAirplanes, left>>
    BY DEF LandingAnswersRequest, takeOffVars, parkingVars
  <1>5. /\ \A y \in ins : y.to # "sky" /\ y.to # "takeOff" /\ y.to # "sky.inTakeoff"
        /\ \A y \in ins : y # g => y.to # "takeOff.inSky"
        /\ g \in ins /\ \A y \in ins : Inserted(y)
    BY <1>1, <1>2
  <1> HIDE DEF x, g, ins
  <1>6. RequestKept
    BY <1>1, <1>3 DEF RunwayInv, RightGoesRound, WithSky, RequestKept, BeingGranted,
    WithTakeOff, BeingReturned
  <1>7. Landings' = {}
    BY <1>1, <1>3, <1>5, AtTaken DEF Landings
  <1>8. TakeOffs' = TakeOffs
    BY <1>1, <1>3, <1>5, AtKept DEF TakeOffs
  <1>9. Requests' = Requests
    BY <1>1, <1>3, <1>5, AtKept DEF Requests
  <1>10. Returns' = Returns
    BY <1>1, <1>3, <1>5, AtKept DEF Returns
  <1>11. At("takeOff.inSky", "runwayAvailable") \subseteq {e}
    BY <1>6 DEF RequestKept, Grants
  <1>12. Grants' = {g}
    BY <1>2, <1>3, <1>5, <1>11, AtPut DEF Grants
  <1>13. AllUnique'
    BY <1>7, <1>8, <1>9, <1>10, <1>12 DEF RunwayInv, AllUnique, Unique
  <1>14. LandingQueued'
    BY <1>3, <1>7 DEF LandingQueued
  <1>15. BeingGranted'
    BY <1>1, <1>3, <1>4, <1>6, <1>8, <1>9, <1>10, <1>12 DEF RequestKept, BeingGranted
  <1>16. RightGoesRound'
    BY <1>15 DEF RightGoesRound
  <1>17. LandingKnown'
    BY <1>1, <1>3, <1>4, <1>5, LandingKept
  <1>18. /\ usingRunway' \in BOOLEAN /\ skyAvailable' \in BOOLEAN /\ toAvailable' \in BOOLEAN
         /\ nextL' \in Nat /\ nextLtime' \in Nat /\ created' \in Nat
         /\ toTimes' \in Seq(Nat) /\ numAirplanes' \in Int /\ left' \in Nat
    BY <1>1, <1>3, <1>4 DEF RunwayInv, TypeOK
  <1>19. \A y \in ins :
           /\ Inserted(y)
           /\ y.to \in {"sky.inTakeoff", "takeOff.inSky"} => y.time = e.time
    BY <1>2, <1>5
  <1>20. e \in {e} /\ Replace({e}, ins)
    BY <1>3
  <1>21. Deliver(e, "sky", "landing") /\ skyTimes' \in Seq(Nat)
    BY <1>1
  <1> QED
    BY <1>13, <1>14, <1>16, <1>17, <1>18, <1>19, <1>20, <1>21, HandlerStep

\* The next airplane of Sky's queue lands.
LEMMA LandingFollowedStep ==
  ASSUME RunwayInv, NEW e \in fes, LandingFollowed(e),
         UNCHANGED <<takeOffVars, parkingVars>>
  PROVE  RunwayInv'
  <1>1. PICK t \in Draw(par.tl) : Replace({e}, {Landed, Landing(t, 1)})
    BY DEF LandingFollowed
  <1> DEFINE x == Landed
             l == Landing(t, 1)
             ins == {x, l}
  <1>2. /\ Deliver(e, "sky", "landing") /\ e.to = "sky" /\ e.msg = "landing"
        /\ e.time \in Nat /\ now' = e.time /\ seq \in Nat /\ seq' = seq + 2
        /\ Landings = {e} /\ usingRunway /\ nextL # 0
        /\ skyAvailable' = skyAvailable /\ created' = created
        /\ skyTimes' \in Seq(Nat)
        /\ Inserted(x) /\ x.to = "runway.sky" /\ x.msg = "Airplane" /\ x.seq = seq
    BY LandedFacts DEF LandingFollowed
  <1>3. t \in Nat
    BY DrawsAreNat DEF RunwayInv, TypeOK
  <1>4. Inserted(l) /\ l.to = "sky" /\ l.msg = "landing" /\ l.seq = seq + 1
    BY <1>2, <1>3 DEF Landing, Event, Events, Inserted, Gates, Names
  <1>5. /\ skyAvailable /\ skyTimes' # <<>> /\ usingRunway' = TRUE
        /\ nextL' = l.seq /\ nextLtime' = e.time
        /\ UNCHANGED <<toAvailable, toTimes, numAirplanes, left>>
    BY <1>2, <1>4 DEF LandingFollowed, scheduleLanding, takeOffVars, parkingVars
  <1>6. /\ Replace({e}, ins) /\ l \in ins
        /\ \A y \in ins : Inserted(y)
        /\ \A y \in ins : y.to # "takeOff" /\ y.to # "sky.inTakeoff" /\ y.to # "takeOff.inSky"
        /\ \A y \in ins : y # l => y.seq # l.seq /\ ~(y.to = "sky" /\ y.msg = "landing")
    BY <1>1, <1>2, <1>4
  <1> HIDE DEF x, l, ins
  <1>7. WithSky
    BY <1>5 DEF RunwayInv, RightGoesRound, WithSky, RequestKept, BeingGranted,
    WithTakeOff, BeingReturned
  <1>8. LandingKnown' /\ Landings' = {l}
    BY <1>2, <1>4, <1>5, <1>6, LandingNew
  <1>9. TakeOffs' = TakeOffs
    BY <1>2, <1>6, AtKept DEF TakeOffs
  <1>10. Requests' = Requests
    BY <1>2, <1>6, AtKept DEF Requests
  <1>11. Grants' = Grants
    BY <1>2, <1>6, AtKept DEF Grants
  <1>12. Returns' = Returns
    BY <1>2, <1>6, AtKept DEF Returns
  <1>13. AllUnique'
    BY <1>8, <1>9, <1>10, <1>11, <1>12 DEF RunwayInv, AllUnique, Unique
  <1>14. LandingQueued'
    BY <1>5, <1>8 DEF LandingQueued
  <1>15. WithSky'
    BY <1>2, <1>5, <1>7, <1>9, <1>10, <1>11, <1>12 DEF WithSky
  <1>16. RightGoesRound'
    BY <1>15 DEF RightGoesRound
  <1>17. /\ usingRunway' \in BOOLEAN /\ skyAvailable' \in BOOLEAN /\ toAvailable' \in BOOLEAN
         /\ nextL' \in Nat /\ nextLtime' \in Nat /\ created' \in Nat
         /\ toTimes' \in Seq(Nat) /\ numAirplanes' \in Int /\ left' \in Nat
    BY <1>2, <1>4, <1>5 DEF RunwayInv, TypeOK
  <1>18. \A y \in ins :
           /\ Inserted(y)
           /\ y.to \in {"sky.inTakeoff", "takeOff.inSky"} => y.time = e.time
    BY <1>6
  <1>19. e \in {e}
    OBVIOUS
  <1> QED
    BY <1>2, <1>6, <1>8, <1>13, <1>14, <1>16, <1>17, <1>18, <1>19, HandlerStep

\* The runway stays with Sky, unused.
LEMMA LandingEndsStep ==
  ASSUME RunwayInv, NEW e \in fes, LandingEndsQueue(e),
         UNCHANGED <<takeOffVars, parkingVars>>
  PROVE  RunwayInv'
  <1> DEFINE x == Landed
             ins == {x}
  <1>1. /\ Deliver(e, "sky", "landing") /\ e.to = "sky" /\ e.msg = "landing"
        /\ e.time \in Nat /\ now' = e.time /\ seq \in Nat /\ seq' = seq + 2
        /\ Landings = {e} /\ usingRunway /\ nextL # 0
        /\ skyAvailable' = skyAvailable /\ created' = created
        /\ skyTimes' \in Seq(Nat)
        /\ Inserted(x) /\ x.to = "runway.sky"
    BY LandedFacts DEF LandingEndsQueue
  <1>2. /\ Replace({e}, ins) /\ skyAvailable /\ usingRunway' = FALSE
        /\ UNCHANGED <<nextL, nextLtime, toAvailable, toTimes, numAirplanes, left>>
    BY DEF LandingEndsQueue, takeOffVars, parkingVars
  <1>3. \A y \in ins :
          /\ Inserted(y)
          /\ y.to # "sky" /\ y.to # "takeOff" /\ y.to # "sky.inTakeoff" /\ y.to # "takeOff.inSky"
    BY <1>1
  <1> HIDE DEF x, ins
  <1>4. WithSky
    BY <1>2 DEF RunwayInv, RightGoesRound, WithSky, RequestKept, BeingGranted,
    WithTakeOff, BeingReturned
  <1>5. Landings' = {}
    BY <1>1, <1>2, <1>3, AtTaken DEF Landings
  <1>6. TakeOffs' = TakeOffs
    BY <1>1, <1>2, <1>3, AtKept DEF TakeOffs
  <1>7. Requests' = Requests
    BY <1>1, <1>2, <1>3, AtKept DEF Requests
  <1>8. Grants' = Grants
    BY <1>1, <1>2, <1>3, AtKept DEF Grants
  <1>9. Returns' = Returns
    BY <1>1, <1>2, <1>3, AtKept DEF Returns
  <1>10. AllUnique'
    BY <1>5, <1>6, <1>7, <1>8, <1>9 DEF RunwayInv, AllUnique, Unique
  <1>11. LandingQueued'
    BY <1>2, <1>5 DEF LandingQueued
  <1>12. WithSky'
    BY <1>1, <1>2, <1>4, <1>6, <1>7, <1>8, <1>9 DEF WithSky
  <1>13. RightGoesRound'
    BY <1>12 DEF RightGoesRound
  <1>14. LandingKnown'
    BY <1>1, <1>2, <1>3, LandingKept
  <1>15. /\ usingRunway' \in BOOLEAN /\ skyAvailable' \in BOOLEAN /\ toAvailable' \in BOOLEAN
         /\ nextL' \in Nat /\ nextLtime' \in Nat /\ created' \in Nat
         /\ toTimes' \in Seq(Nat) /\ numAirplanes' \in Int /\ left' \in Nat
    BY <1>1, <1>2 DEF RunwayInv, TypeOK
  <1>16. \A y \in ins :
           /\ Inserted(y)
           /\ y.to \in {"sky.inTakeoff", "takeOff.inSky"} => y.time = e.time
    BY <1>3
  <1>17. e \in {e}
    OBVIOUS
  <1> QED
    BY <1>1, <1>2, <1>10, <1>11, <1>13, <1>14, <1>15, <1>16, <1>17, HandlerStep

\* A request finds the runway with Sky: a return still under way would have
\* been delivered before.
LEMMA RequestFindsSky ==
  ASSUME RunwayInv, NEW e \in fes, Deliver(e, "sky.inTakeoff", "runwayRequest")
  PROVE  WithSky /\ Requests = {e}
  <1>1. e \in Requests
    BY DEF Deliver, Requests, At
  <1>2. Requests = {e}
    BY <1>1 DEF RunwayInv, AllUnique, Unique
  <1>3. ~BeingReturned
    <2> SUFFICES ASSUME BeingReturned PROVE FALSE
      OBVIOUS
    <2>1. PICK p : p \in Returns
      BY DEF BeingReturned
    <2>2. Precedes(p, e)
      BY <1>1, <2>1 DEF BeingReturned
    <2>3. p \in fes /\ e # p /\ e \in Events /\ p \in Events
      BY <1>1, <2>1 DEF Returns, Requests, At, RunwayInv, TypeOK
    <2>4. Precedes(e, p)
      BY <2>3 DEF Deliver
    <2> QED
      BY <2>2, <2>3, <2>4 DEF Precedes, Events
  <1>4. WithSky \/ BeingReturned
    BY <1>1 DEF RunwayInv, RightGoesRound, WithSky, RequestKept, BeingGranted,
    WithTakeOff, BeingReturned
  <1> QED
    BY <1>2, <1>3, <1>4

\* A request is kept while a landing goes on, and granted at once otherwise:
\* the landing that gives way is cancelled.
LEMMA StopStep ==
  ASSUME RunwayInv, NEW e \in fes, handleStopFromTakeoff(e),
         UNCHANGED <<takeOffVars, parkingVars>>
  PROVE  RunwayInv'
  <1> DEFINE g == Granted(0)
             gone == {e} \cup {f \in fes : JustScheduled /\ f.seq = nextL}
             ins == IF StillUsing THEN {} ELSE {g}
  <1>1. /\ Deliver(e, "sky.inTakeoff", "runwayRequest")
        /\ e.to = "sky.inTakeoff" /\ e.msg = "runwayRequest"
    BY DEF handleStopFromTakeoff, Deliver
  <1>2. e.time \in Nat /\ now' = e.time /\ seq \in Nat /\ seq' = seq + 2
    BY <1>1, KernelStep DEF RunwayInv
  <1>3. WithSky /\ Requests = {e}
    BY <1>1, RequestFindsSky
  <1>4. nextL # 0
    BY <1>1, LandingAssigned
  <1>5. /\ Inserted(g) /\ g.to = "takeOff.inSky" /\ g.msg = "runwayAvailable"
        /\ g.time = e.time
    BY <1>2 DEF Granted, Event, Events, Inserted, Gates, Names
  <1>6. /\ Replace(gone, ins) /\ skyAvailable' = FALSE /\ usingRunway' = StillUsing
        /\ UNCHANGED <<nextL, nextLtime, skyTimes, created, toAvailable, toTimes,
                       numAirplanes, left>>
    BY DEF handleStopFromTakeoff, takeOffVars, parkingVars
  <1>7. \A f \in fes : f.seq = nextL <=> f \in Landings
    BY DEF RunwayInv, LandingKnown
  <1>8. \A f \in Landings : f.to = "sky" /\ f.msg = "landing" /\ f \in fes
    BY DEF Landings, At
  <1>9. /\ e \in gone
        /\ \A f \in gone : f = e \/ f.to = "sky"
        /\ \A f \in gone : f = e \/ JustScheduled
        /\ JustScheduled => Landings \subseteq gone
    BY <1>7, <1>8
  <1>10. /\ \A y \in ins : y = g
         /\ StillUsing => ins = {}
         /\ ~StillUsing => g \in ins
    OBVIOUS
  <1> HIDE DEF g, gone, ins
  <1>11. TakeOffs' = TakeOffs
    BY <1>1, <1>5, <1>6, <1>9, <1>10, AtKept DEF TakeOffs
  <1>12. Returns' = Returns
    <2>1. \A y \in gone : ~(y.to = "sky.inTakeoff" /\ y.msg = "runwayAvailable")
      BY <1>1, <1>9
    <2> QED
      BY <1>5, <1>6, <1>10, <2>1, AtKept DEF Returns
  <1>13. Requests' = {}
    <2>1. At("sky.inTakeoff", "runwayRequest") \subseteq gone
      BY <1>3, <1>9 DEF Requests
    <2> QED
      BY <1>5, <1>6, <1>10, <2>1, AtTaken DEF Requests
  <1>14. LandingKnown'
    <2>1. \A y \in ins : Inserted(y) /\ ~(y.to = "sky" /\ y.msg = "landing")
      BY <1>5, <1>10
    <2> QED
      BY <1>2, <1>4, <1>6, <2>1, LandingKept
  <1>15. ASSUME StillUsing PROVE AllUnique' /\ LandingQueued' /\ RightGoesRound'
    <2>1. ~JustScheduled /\ usingRunway /\ usingRunway' = TRUE
      BY <1>6, <1>15 DEF StillUsing
    <2>2. \A f \in gone : f = e
      BY <1>9, <2>1
    <2>3. Landings' = Landings
      BY <1>1, <1>6, <1>10, <1>15, <2>2, AtKept DEF Landings
    <2>4. Grants' = Grants
      BY <1>1, <1>6, <1>10, <1>15, <2>2, AtKept DEF Grants
    <2>5. AllUnique' /\ LandingQueued'
      BY <1>6, <1>11, <1>12, <1>13, <2>1, <2>3, <2>4
      DEF RunwayInv, AllUnique, Unique, LandingQueued
    <2>6. RequestKept'
      BY <1>3, <1>6, <1>11, <1>12, <1>13, <2>1, <2>4 DEF WithSky, RequestKept
    <2> QED
      BY <2>5, <2>6 DEF RightGoesRound
  <1>16. ASSUME ~StillUsing PROVE AllUnique' /\ LandingQueued' /\ RightGoesRound'
    <2>1. usingRunway' = FALSE
      BY <1>6, <1>16 DEF StillUsing, RunwayInv, TypeOK
    <2>2. Landings \subseteq gone
      BY <1>9, <1>16 DEF StillUsing, RunwayInv, LandingQueued
    <2>3. Landings' = {}
      BY <1>5, <1>6, <1>10, <2>2, AtTaken DEF Landings
    <2>4. At("takeOff.inSky", "runwayAvailable") \subseteq gone
      BY <1>3 DEF WithSky, Grants
    <2>5. Grants' = {g}
      BY <1>5, <1>6, <1>10, <1>16, <2>4, AtPut DEF Grants
    <2>6. AllUnique' /\ LandingQueued'
      BY <1>6, <1>11, <1>12, <1>13, <2>1, <2>3, <2>5
      DEF RunwayInv, AllUnique, Unique, LandingQueued
    <2>7. BeingGranted'
      BY <1>3, <1>6, <1>11, <1>12, <1>13, <2>1, <2>5 DEF WithSky, BeingGranted
    <2> QED
      BY <2>6, <2>7 DEF RightGoesRound
  <1>17. AllUnique' /\ LandingQueued' /\ RightGoesRound'
    BY <1>15, <1>16
  <1>18. /\ usingRunway' \in BOOLEAN /\ skyAvailable' \in BOOLEAN /\ toAvailable' \in BOOLEAN
         /\ nextL' \in Nat /\ nextLtime' \in Nat /\ created' \in Nat
         /\ skyTimes' \in Seq(Nat) /\ toTimes' \in Seq(Nat)
         /\ numAirplanes' \in Int /\ left' \in Nat
    BY <1>6 DEF RunwayInv, TypeOK, StillUsing
  <1>19. \A y \in ins :
           /\ Inserted(y)
           /\ y.to \in {"sky.inTakeoff", "takeOff.inSky"} => y.time = e.time
    BY <1>5, <1>10
  <1>20. e \in gone /\ Replace(gone, ins)
    BY <1>6, <1>9
  <1> QED
    BY <1>1, <1>14, <1>17, <1>18, <1>19, <1>20, HandlerStep

\* The runway comes back to Sky; until then no landing was scheduled.
LEMMA ReturnedFacts ==
  ASSUME RunwayInv, NEW e \in fes, Returned(e)
  PROVE  /\ Deliver(e, "sky.inTakeoff", "runwayAvailable")
         /\ e.to = "sky.inTakeoff" /\ e.msg = "runwayAvailable"
         /\ e.time \in Nat /\ now' = e.time /\ seq \in Nat /\ seq' = seq + 2
         /\ BeingReturned /\ Returns = {e} /\ Landings = {} /\ nextL # 0
         /\ skyAvailable' = TRUE /\ UNCHANGED <<skyTimes, created>>
  <1>1. /\ Deliver(e, "sky.inTakeoff", "runwayAvailable")
        /\ e.to = "sky.inTakeoff" /\ e.msg = "runwayAvailable"
    BY DEF Returned, Deliver
  <1>2. e.time \in Nat /\ now' = e.time /\ seq \in Nat /\ seq' = seq + 2
    BY <1>1, KernelStep DEF RunwayInv
  <1>3. e \in Returns
    BY <1>1 DEF Returns, At
  <1>4. Returns = {e}
    BY <1>3 DEF RunwayInv, AllUnique, Unique
  <1>5. BeingReturned
    BY <1>3 DEF RunwayInv, RightGoesRound, WithSky, RequestKept, BeingGranted,
    WithTakeOff, BeingReturned
  <1>6. Landings = {}
    BY <1>5 DEF BeingReturned, RunwayInv, LandingQueued
  <1>7. nextL # 0
    BY <1>1, LandingAssigned
  <1>8. skyAvailable' = TRUE /\ UNCHANGED <<skyTimes, created>>
    BY DEF Returned
  <1> QED
    BY <1>1, <1>2, <1>4, <1>5, <1>6, <1>7, <1>8

\* Sky uses the runway at once if airplanes wait.
LEMMA ReturnedAndLandingStep ==
  ASSUME RunwayInv, NEW e \in fes, ReturnedAndLanding(e),
         UNCHANGED <<takeOffVars, parkingVars>>
  PROVE  RunwayInv'
  <1>1. PICK t \in Draw(par.tl) : Replace({e}, {Landing(t, 0)})
    BY DEF ReturnedAndLanding
  <1> DEFINE l == Landing(t, 0)
             ins == {l}
  <1>2. /\ Deliver(e, "sky.inTakeoff", "runwayAvailable")
        /\ e.to = "sky.inTakeoff" /\ e.msg = "runwayAvailable"
        /\ e.time \in Nat /\ now' = e.time /\ seq \in Nat /\ seq' = seq + 2
        /\ BeingReturned /\ Returns = {e} /\ Landings = {} /\ nextL # 0
        /\ skyAvailable' = TRUE /\ UNCHANGED <<skyTimes, created>>
    BY ReturnedFacts DEF ReturnedAndLanding
  <1>3. t \in Nat
    BY DrawsAreNat DEF RunwayInv, TypeOK
  <1>4. Inserted(l) /\ l.to = "sky" /\ l.msg = "landing" /\ l.seq = seq
    BY <1>2, <1>3 DEF Landing, Event, Events, Inserted, Gates, Names
  <1>5. /\ skyTimes # <<>> /\ usingRunway' = TRUE
        /\ nextL' = l.seq /\ nextLtime' = e.time
        /\ UNCHANGED <<toAvailable, toTimes, numAirplanes, left>>
    BY <1>2, <1>4 DEF ReturnedAndLanding, scheduleLanding, takeOffVars, parkingVars
  <1>6. /\ Replace({e}, ins) /\ l \in ins
        /\ \A y \in ins : y = l /\ Inserted(y) /\ y.to = "sky"
    BY <1>1, <1>4
  <1> HIDE DEF l, ins
  <1>7. LandingKnown' /\ Landings' = {l}
    BY <1>2, <1>4, <1>5, <1>6, LandingNew
  <1>8. TakeOffs' = TakeOffs
    BY <1>2, <1>6, AtKept DEF TakeOffs
  <1>9. Requests' = Requests
    BY <1>2, <1>6, AtKept DEF Requests
  <1>10. Grants' = Grants
    BY <1>2, <1>6, AtKept DEF Grants
  <1>11. Returns' = {}
    BY <1>2, <1>6, AtTaken DEF Returns
  <1>12. AllUnique'
    BY <1>7, <1>8, <1>9, <1>10, <1>11 DEF RunwayInv, AllUnique, Unique
  <1>13. LandingQueued'
    BY <1>2, <1>5, <1>7 DEF LandingQueued
  <1>14. WithSky'
    BY <1>2, <1>5, <1>8, <1>9, <1>10, <1>11 DEF BeingReturned, WithSky
  <1>15. RightGoesRound'
    BY <1>14 DEF RightGoesRound
  <1>16. /\ usingRunway' \in BOOLEAN /\ skyAvailable' \in BOOLEAN /\ toAvailable' \in BOOLEAN
         /\ nextL' \in Nat /\ nextLtime' \in Nat /\ created' \in Nat
         /\ skyTimes' \in Seq(Nat) /\ toTimes' \in Seq(Nat)
         /\ numAirplanes' \in Int /\ left' \in Nat
    BY <1>2, <1>4, <1>5 DEF RunwayInv, TypeOK
  <1>17. \A y \in ins :
           /\ Inserted(y)
           /\ y.to \in {"sky.inTakeoff", "takeOff.inSky"} => y.time = e.time
    BY <1>6
  <1>18. e \in {e} /\ Replace({e}, ins) /\ Deliver(e, "sky.inTakeoff", "runwayAvailable")
    BY <1>2, <1>6
  <1> QED
    BY <1>7, <1>12, <1>13, <1>15, <1>16, <1>17, <1>18, HandlerStep, SMTT(30)

\* Or keeps it unused.
LEMMA ReturnedIdleStep ==
  ASSUME RunwayInv, NEW e \in fes, ReturnedIdle(e),
         UNCHANGED <<takeOffVars, parkingVars>>
  PROVE  RunwayInv'
  <1>1. /\ Deliver(e, "sky.inTakeoff", "runwayAvailable")
        /\ e.to = "sky.inTakeoff" /\ e.msg = "runwayAvailable"
        /\ e.time \in Nat /\ now' = e.time /\ seq \in Nat /\ seq' = seq + 2
        /\ BeingReturned /\ Returns = {e} /\ Landings = {} /\ nextL # 0
        /\ skyAvailable' = TRUE /\ UNCHANGED <<skyTimes, created>>
    BY ReturnedFacts DEF ReturnedIdle
  <1>2. /\ Replace({e}, {})
        /\ UNCHANGED <<usingRunway, nextL, nextLtime, toAvailable, toTimes, numAirplanes, left>>
    BY DEF ReturnedIdle, NoLanding, takeOffVars, parkingVars
  <1>3. Landings' = Landings
    BY <1>1, <1>2, AtKept DEF Landings
  <1>4. TakeOffs' = TakeOffs
    BY <1>1, <1>2, AtKept DEF TakeOffs
  <1>5. Requests' = Requests
    BY <1>1, <1>2, AtKept DEF Requests
  <1>6. Grants' = Grants
    BY <1>1, <1>2, AtKept DEF Grants
  <1>7. Returns' = {}
    BY <1>1, <1>2, AtTaken DEF Returns
  <1>8. AllUnique' /\ LandingQueued'
    BY <1>1, <1>2, <1>3, <1>4, <1>5, <1>6, <1>7 DEF RunwayInv, AllUnique, Unique, LandingQueued
  <1>9. WithSky'
    BY <1>1, <1>2, <1>4, <1>5, <1>6, <1>7 DEF BeingReturned, WithSky
  <1>10. RightGoesRound'
    BY <1>9 DEF RightGoesRound
  <1>11. LandingKnown'
    BY <1>1, <1>2, LandingKept
  <1>12. /\ usingRunway' \in BOOLEAN /\ skyAvailable' \in BOOLEAN /\ toAvailable' \in BOOLEAN
         /\ nextL' \in Nat /\ nextLtime' \in Nat /\ created' \in Nat
         /\ skyTimes' \in Seq(Nat) /\ toTimes' \in Seq(Nat)
         /\ numAirplanes' \in Int /\ left' \in Nat
    BY <1>1, <1>2 DEF RunwayInv, TypeOK
  <1>13. e \in {e} /\ Replace({e}, {}) /\ Deliver(e, "sky.inTakeoff", "runwayAvailable")
    BY <1>1, <1>2
  <1> QED
    BY <1>8, <1>10, <1>11, <1>12, <1>13, HandlerStep

\* TakeOff's handlers change neither Sky nor Parking.
LEMMA TakeOffFrame ==
  ASSUME RunwayInv, UNCHANGED <<skyVars, parkingVars>>
  PROVE  /\ UNCHANGED <<usingRunway, skyAvailable, nextL, nextLtime, skyTimes, created,
                        numAirplanes, left>>
         /\ usingRunway' \in BOOLEAN /\ skyAvailable' \in BOOLEAN
         /\ nextL' \in Nat /\ nextLtime' \in Nat /\ created' \in Nat
         /\ skyTimes' \in Seq(Nat) /\ numAirplanes' \in Int /\ left' \in Nat
  BY DEF skyVars, parkingVars, RunwayInv, TypeOK

\* The first airplane of TakeOff's queue asks for the runway; if the return
\* of the one before is still under way, the request is behind it.
LEMMA FromParkingStep ==
  ASSUME RunwayInv, NEW e \in fes, handleAirplaneFromParking(e),
         UNCHANGED <<skyVars, parkingVars>>
  PROVE  RunwayInv'
  <1> DEFINE q == Event("sky.inTakeoff", "runwayRequest", 0, 0)
             ins == IF toTimes = <<>> THEN {q} ELSE {}
  <1>1. Deliver(e, "takeOff.park", "Airplane") /\ e.to = "takeOff.park" /\ e.msg = "Airplane"
    BY DEF handleAirplaneFromParking, Deliver
  <1>2. /\ e.time \in Nat /\ now' = e.time /\ seq \in Nat /\ seq' = seq + 2
        /\ \A f \in fes \ {e} : f.time = now => e.time = now
    BY <1>1, KernelStep DEF RunwayInv
  <1>3. nextL # 0
    BY <1>1, LandingAssigned
  <1>4. toTimes = <<>> => ~toAvailable /\ (WithSky \/ BeingReturned) /\ Requests = {}
    BY DEF RunwayInv, RightGoesRound, WithSky, RequestKept, BeingGranted,
    WithTakeOff, BeingReturned
  <1>5. /\ Inserted(q) /\ q.to = "sky.inTakeoff" /\ q.msg = "runwayRequest"
        /\ q.time = e.time /\ q.seq = seq
    BY <1>2 DEF Event, Events, Inserted, Gates, Names
  <1>6. Replace({e}, ins)
    BY <1>4 DEF handleAirplaneFromParking, FirstInQueue
  <1>7. /\ toAvailable' = toAvailable /\ toTimes' # <<>>
        /\ toAvailable' \in BOOLEAN /\ toTimes' \in Seq(Nat)
    BY <1>2, SMTT(30) DEF handleAirplaneFromParking, RunwayInv, TypeOK
  <1>8. /\ \A y \in ins : y = q
        /\ toTimes # <<>> => ins = {}
        /\ toTimes = <<>> => q \in ins
    OBVIOUS
  <1> HIDE DEF q, ins
  <1>9. /\ UNCHANGED <<usingRunway, skyAvailable, nextL, nextLtime, skyTimes, created,
                       numAirplanes, left>>
        /\ usingRunway' \in BOOLEAN /\ skyAvailable' \in BOOLEAN
        /\ nextL' \in Nat /\ nextLtime' \in Nat /\ created' \in Nat
        /\ skyTimes' \in Seq(Nat) /\ numAirplanes' \in Int /\ left' \in Nat
    BY TakeOffFrame
  <1>10. Landings' = Landings
    BY <1>1, <1>5, <1>6, <1>8, AtKept DEF Landings
  <1>11. TakeOffs' = TakeOffs
    BY <1>1, <1>5, <1>6, <1>8, AtKept DEF TakeOffs
  <1>12. Grants' = Grants
    BY <1>1, <1>5, <1>6, <1>8, AtKept DEF Grants
  <1>13. Returns' = Returns
    BY <1>1, <1>5, <1>6, <1>8, AtKept DEF Returns
  <1>14. toTimes # <<>> => Requests' = Requests
    BY <1>1, <1>6, <1>8, AtKept DEF Requests
  <1>15. toTimes = <<>> => Requests' = {q}
    <2> SUFFICES ASSUME toTimes = <<>> PROVE Requests' = {q}
      OBVIOUS
    <2>1. At("sky.inTakeoff", "runwayRequest") \subseteq {e}
      BY <1>4 DEF Requests
    <2> QED
      BY <1>5, <1>6, <1>8, <2>1, AtPut DEF Requests
  <1>16. AllUnique' /\ LandingQueued'
    BY <1>9, <1>10, <1>11, <1>12, <1>13, <1>14, <1>15
    DEF RunwayInv, AllUnique, Unique, LandingQueued
  <1>17. toTimes = <<>> => \A p \in Returns : Precedes(p, q)
    <2> SUFFICES ASSUME NEW p \in Returns PROVE Precedes(p, q)
      OBVIOUS
    <2>1. p \in fes /\ p # e /\ p.time = now /\ p.seq < seq
      BY <1>1 DEF RunwayInv, MessagesInstant, EventsAhead, Returns, At
    <2> QED
      BY <1>2, <1>5, <2>1 DEF Precedes
  <1>18. RightGoesRound'
    <2>1. CASE toTimes = <<>>
      <3>1. CASE WithSky
        <4>1. WithSky'
          BY <1>7, <1>9, <1>11, <1>12, <1>13, <1>15, <2>1, <3>1 DEF WithSky
        <4> QED
          BY <4>1 DEF RightGoesRound
      <3>2. CASE BeingReturned
        <4>1. \A r \in Returns', s \in Requests' : Precedes(r, s)
          BY <1>13, <1>15, <1>17, <2>1
        <4>2. BeingReturned'
          BY <1>7, <1>9, <1>11, <1>12, <1>13, <1>15, <2>1, <3>2, <4>1
          DEF BeingReturned, Precedes
        <4> QED
          BY <4>2 DEF RightGoesRound
      <3> QED
        BY <1>4, <2>1, <3>1, <3>2
    <2>2. CASE toTimes # <<>>
      <3>1. RightGoesRound
        BY DEF RunwayInv
      <3> QED
        BY <1>7, <1>9, <1>11, <1>12, <1>13, <1>14, <2>2, <3>1
        DEF RightGoesRound, WithSky, RequestKept, BeingGranted,
    WithTakeOff, BeingReturned, Precedes
    <2> QED
      BY <2>1, <2>2
  <1>19. LandingKnown'
    <2>1. \A y \in ins : Inserted(y) /\ ~(y.to = "sky" /\ y.msg = "landing")
      BY <1>5, <1>8
    <2> QED
      BY <1>2, <1>3, <1>6, <1>9, <2>1, LandingKept
  <1>20. \A y \in ins :
           /\ Inserted(y)
           /\ y.to \in {"sky.inTakeoff", "takeOff.inSky"} => y.time = e.time
    BY <1>5, <1>8
  <1>21. e \in {e}
    OBVIOUS
  <1> QED
    BY <1>1, <1>6, <1>7, <1>9, <1>16, <1>18, <1>19, <1>20, <1>21, HandlerStep

\* The grant: TakeOff has the runway and schedules its first take-off.
LEMMA OkFromSkyStep ==
  ASSUME RunwayInv, NEW e \in fes, handleOkFromSky(e),
         UNCHANGED <<skyVars, parkingVars>>
  PROVE  RunwayInv'
  <1>1. PICK t \in Draw(par.to) : Replace({e}, {scheduleTakeOff(t, 0)})
    BY DEF handleOkFromSky
  <1> DEFINE x == scheduleTakeOff(t, 0)
             ins == {x}
  <1>2. /\ Deliver(e, "takeOff.inSky", "runwayAvailable")
        /\ e.to = "takeOff.inSky" /\ e.msg = "runwayAvailable"
    BY DEF handleOkFromSky, Deliver
  <1>3. e.time \in Nat /\ now' = e.time /\ seq \in Nat /\ seq' = seq + 2
    BY <1>2, KernelStep DEF RunwayInv
  <1>4. t \in Nat
    BY DrawsAreNat DEF RunwayInv, TypeOK
  <1>5. Inserted(x) /\ x.to = "takeOff" /\ x.msg = "takeOff"
    BY <1>3, <1>4 DEF scheduleTakeOff, Event, Events, Inserted, Gates, Names
  <1>6. /\ toAvailable' = TRUE /\ toTimes' = toTimes
        /\ toAvailable' \in BOOLEAN /\ toTimes' \in Seq(Nat)
    BY DEF handleOkFromSky, RunwayInv, TypeOK
  <1>7. /\ Replace({e}, ins) /\ x \in ins
        /\ \A y \in ins : y = x /\ Inserted(y) /\ y.to = "takeOff"
    BY <1>1, <1>5
  <1> HIDE DEF x, ins
  <1>8. /\ UNCHANGED <<usingRunway, skyAvailable, nextL, nextLtime, skyTimes, created,
                       numAirplanes, left>>
        /\ usingRunway' \in BOOLEAN /\ skyAvailable' \in BOOLEAN
        /\ nextL' \in Nat /\ nextLtime' \in Nat /\ created' \in Nat
        /\ skyTimes' \in Seq(Nat) /\ numAirplanes' \in Int /\ left' \in Nat
    BY TakeOffFrame
  <1>9. e \in Grants
    BY <1>2 DEF Grants, At
  <1>10. BeingGranted
    BY <1>9 DEF RunwayInv, RightGoesRound, WithSky, RequestKept, BeingGranted,
    WithTakeOff, BeingReturned
  <1>11. At("takeOff.inSky", "runwayAvailable") \subseteq {e}
    BY <1>9 DEF RunwayInv, AllUnique, Unique, Grants
  <1>12. At("takeOff", "takeOff") \subseteq {e}
    BY <1>10 DEF BeingGranted, TakeOffs
  <1>13. Landings' = Landings
    BY <1>2, <1>7, AtKept DEF Landings
  <1>14. TakeOffs' = {x}
    BY <1>5, <1>7, <1>12, AtPut DEF TakeOffs
  <1>15. Requests' = Requests
    BY <1>2, <1>7, AtKept DEF Requests
  <1>16. Grants' = {}
    BY <1>7, <1>11, AtTaken DEF Grants
  <1>17. Returns' = Returns
    BY <1>2, <1>7, AtKept DEF Returns
  <1>18. AllUnique' /\ LandingQueued'
    BY <1>8, <1>13, <1>14, <1>15, <1>16, <1>17
    DEF RunwayInv, AllUnique, Unique, LandingQueued
  <1>19. WithTakeOff'
    BY <1>6, <1>8, <1>10, <1>14, <1>15, <1>16, <1>17 DEF BeingGranted, WithTakeOff
  <1>20. RightGoesRound'
    BY <1>19 DEF RightGoesRound
  <1>21. nextL # 0
    BY <1>2, LandingAssigned
  <1>22. LandingKnown'
    BY <1>3, <1>7, <1>8, <1>21, LandingKept
  <1>23. \A y \in ins :
           /\ Inserted(y)
           /\ y.to \in {"sky.inTakeoff", "takeOff.inSky"} => y.time = e.time
    BY <1>7
  <1>24. e \in {e} /\ Replace({e}, ins)
    BY <1>7
  <1> QED
    BY <1>2, <1>6, <1>8, <1>18, <1>20, <1>22, <1>23, <1>24, HandlerStep,
       SMTT(30)

\* A take-off ends while TakeOff has the runway.
LEMMA TakesOffFacts ==
  ASSUME RunwayInv, NEW e \in fes, TakesOff(e)
  PROVE  /\ Deliver(e, "takeOff", "takeOff") /\ e.to = "takeOff" /\ e.msg = "takeOff"
         /\ e.time \in Nat /\ now' = e.time /\ seq \in Nat /\ seq' = seq + 2
         /\ WithTakeOff /\ TakeOffs = {e} /\ nextL # 0
         /\ toTimes' \in Seq(Nat)
         /\ Inserted(Gone) /\ Gone.to = "runway.takeOff" /\ Gone.msg = "Airplane"
  <1>1. Deliver(e, "takeOff", "takeOff") /\ e.to = "takeOff" /\ e.msg = "takeOff"
    BY DEF TakesOff, Deliver
  <1>2. e.time \in Nat /\ now' = e.time /\ seq \in Nat /\ seq' = seq + 2
    BY <1>1, KernelStep DEF RunwayInv
  <1>3. e \in TakeOffs
    BY <1>1 DEF TakeOffs, At
  <1>4. TakeOffs = {e}
    BY <1>3 DEF RunwayInv, AllUnique, Unique
  <1>5. WithTakeOff
    BY <1>3 DEF RunwayInv, RightGoesRound, WithSky, RequestKept, BeingGranted,
    WithTakeOff, BeingReturned
  <1>6. nextL # 0
    BY <1>1, LandingAssigned
  <1>7. toTimes' \in Seq(Nat)
    BY DEF TakesOff, RunwayInv, TypeOK
  <1>8. Inserted(Gone) /\ Gone.to = "runway.takeOff" /\ Gone.msg = "Airplane"
    BY <1>2 DEF Gone, Event, Events, Inserted, Gates, Names
  <1> QED
    BY <1>1, <1>2, <1>4, <1>5, <1>6, <1>7, <1>8

\* TakeOff keeps the runway while airplanes wait for take-off.
LEMMA TakeOffFollowedStep ==
  ASSUME RunwayInv, NEW e \in fes, TakeOffFollowed(e),
         UNCHANGED <<skyVars, parkingVars>>
  PROVE  RunwayInv'
  <1>1. PICK t \in Draw(par.to) : Replace({e}, {Gone, scheduleTakeOff(t, 1)})
    BY DEF TakeOffFollowed
  <1> DEFINE g == Gone
             x == scheduleTakeOff(t, 1)
             ins == {g, x}
  <1>2. /\ Deliver(e, "takeOff", "takeOff") /\ e.to = "takeOff" /\ e.msg = "takeOff"
        /\ e.time \in Nat /\ now' = e.time /\ seq \in Nat /\ seq' = seq + 2
        /\ WithTakeOff /\ TakeOffs = {e} /\ nextL # 0
        /\ toTimes' \in Seq(Nat)
        /\ Inserted(g) /\ g.to = "runway.takeOff"
    BY TakesOffFacts DEF TakeOffFollowed
  <1>3. t \in Nat
    BY DrawsAreNat DEF RunwayInv, TypeOK
  <1>4. Inserted(x) /\ x.to = "takeOff" /\ x.msg = "takeOff"
    BY <1>2, <1>3 DEF scheduleTakeOff, Event, Events, Inserted, Gates, Names
  <1>5. toAvailable' = toAvailable /\ toTimes' # <<>> /\ toAvailable' \in BOOLEAN
    BY DEF TakeOffFollowed, RunwayInv, TypeOK
  <1>6. /\ Replace({e}, ins) /\ x \in ins
        /\ \A y \in ins : Inserted(y)
        /\ \A y \in ins : y.to # "sky" /\ y.to # "sky.inTakeoff" /\ y.to # "takeOff.inSky"
        /\ \A y \in ins : y # x => y.to # "takeOff"
    BY <1>1, <1>2, <1>4
  <1> HIDE DEF g, x, ins
  <1>7. /\ UNCHANGED <<usingRunway, skyAvailable, nextL, nextLtime, skyTimes, created,
                       numAirplanes, left>>
        /\ usingRunway' \in BOOLEAN /\ skyAvailable' \in BOOLEAN
        /\ nextL' \in Nat /\ nextLtime' \in Nat /\ created' \in Nat
        /\ skyTimes' \in Seq(Nat) /\ numAirplanes' \in Int /\ left' \in Nat
    BY TakeOffFrame
  <1>8. Landings' = Landings
    BY <1>2, <1>6, AtKept DEF Landings
  <1>9. At("takeOff", "takeOff") \subseteq {e}
    BY <1>2 DEF TakeOffs
  <1>10. TakeOffs' = {x}
    BY <1>4, <1>6, <1>9, AtPut DEF TakeOffs
  <1>11. Requests' = Requests
    BY <1>2, <1>6, AtKept DEF Requests
  <1>12. Grants' = Grants
    BY <1>2, <1>6, AtKept DEF Grants
  <1>13. Returns' = Returns
    BY <1>2, <1>6, AtKept DEF Returns
  <1>14. AllUnique' /\ LandingQueued'
    BY <1>7, <1>8, <1>10, <1>11, <1>12, <1>13
    DEF RunwayInv, AllUnique, Unique, LandingQueued
  <1>15. WithTakeOff'
    BY <1>2, <1>5, <1>7, <1>10, <1>11, <1>12, <1>13 DEF WithTakeOff
  <1>16. RightGoesRound'
    BY <1>15 DEF RightGoesRound
  <1>17. LandingKnown'
    BY <1>2, <1>6, <1>7, LandingKept
  <1>18. \A y \in ins :
           /\ Inserted(y)
           /\ y.to \in {"sky.inTakeoff", "takeOff.inSky"} => y.time = e.time
    BY <1>6
  <1>19. /\ e \in {e} /\ Replace({e}, ins) /\ toTimes' \in Seq(Nat)
         /\ Deliver(e, "takeOff", "takeOff")
    BY <1>2, <1>6
  <1> QED
    BY <1>5, <1>7, <1>14, <1>16, <1>17, <1>18, <1>19, HandlerStep

\* TakeOff gives the runway back when its queue is empty.
LEMMA TakeOffEndsStep ==
  ASSUME RunwayInv, NEW e \in fes, TakeOffEndsQueue(e),
         UNCHANGED <<skyVars, parkingVars>>
  PROVE  RunwayInv'
  <1> DEFINE g == Gone
             r == Event("sky.inTakeoff", "runwayAvailable", 0, 1)
             ins == {g} \cup {r}
  <1>1. /\ Deliver(e, "takeOff", "takeOff") /\ e.to = "takeOff" /\ e.msg = "takeOff"
        /\ e.time \in Nat /\ now' = e.time /\ seq \in Nat /\ seq' = seq + 2
        /\ WithTakeOff /\ TakeOffs = {e} /\ nextL # 0
        /\ toTimes' \in Seq(Nat)
        /\ Inserted(g) /\ g.to = "runway.takeOff"
    BY TakesOffFacts DEF TakeOffEndsQueue
  <1>2. /\ Inserted(r) /\ r.to = "sky.inTakeoff" /\ r.msg = "runwayAvailable"
        /\ r.time = e.time
    BY <1>1 DEF Event, Events, Inserted, Gates, Names
  <1>3. Replace({e}, ins) /\ toAvailable' = FALSE /\ toTimes' = <<>>
    BY DEF TakeOffEndsQueue, Return, StillAvailable
  <1>4. /\ r \in ins /\ \A y \in ins : Inserted(y)
        /\ \A y \in ins : y.to # "sky" /\ y.to # "takeOff" /\ y.to # "takeOff.inSky"
        /\ \A y \in ins : y # r => y.to # "sky.inTakeoff"
        /\ \A y \in ins : ~(y.to = "sky.inTakeoff" /\ y.msg = "runwayRequest")
    BY <1>1, <1>2
  <1>5. \A y \in ins :
          /\ Inserted(y)
          /\ y.to \in {"sky.inTakeoff", "takeOff.inSky"} => y.time = e.time
    BY <1>2, <1>4
  <1> HIDE DEF g, r, ins
  <1>6. /\ UNCHANGED <<usingRunway, skyAvailable, nextL, nextLtime, skyTimes, created,
                       numAirplanes, left>>
        /\ usingRunway' \in BOOLEAN /\ skyAvailable' \in BOOLEAN
        /\ nextL' \in Nat /\ nextLtime' \in Nat /\ created' \in Nat
        /\ skyTimes' \in Seq(Nat) /\ numAirplanes' \in Int /\ left' \in Nat
    BY TakeOffFrame
  <1>7. Landings' = Landings
    BY <1>1, <1>3, <1>4, AtKept DEF Landings
  <1>8. At("takeOff", "takeOff") \subseteq {e}
    BY <1>1 DEF TakeOffs
  <1>9. TakeOffs' = {}
    BY <1>3, <1>4, <1>8, AtTaken DEF TakeOffs
  <1>10. Requests' = Requests
    BY <1>1, <1>3, <1>4, AtKept DEF Requests
  <1>11. Grants' = Grants
    BY <1>1, <1>3, <1>4, AtKept DEF Grants
  <1>12. At("sky.inTakeoff", "runwayAvailable") \subseteq {e}
    BY <1>1 DEF WithTakeOff, Returns
  <1>13. Returns' = {r}
    BY <1>2, <1>3, <1>4, <1>12, AtPut DEF Returns
  <1>14. AllUnique' /\ LandingQueued'
    BY <1>6, <1>7, <1>9, <1>10, <1>11, <1>13
    DEF RunwayInv, AllUnique, Unique, LandingQueued
  <1>15. BeingReturned'
    BY <1>1, <1>3, <1>6, <1>9, <1>10, <1>11, <1>13 DEF WithTakeOff, BeingReturned
  <1>16. RightGoesRound'
    BY <1>15 DEF RightGoesRound
  <1>17. LandingKnown'
    BY <1>1, <1>3, <1>4, <1>6, LandingKept
  <1>18. /\ e \in {e} /\ Replace({e}, ins) /\ toAvailable' \in BOOLEAN
         /\ toTimes' \in Seq(Nat) /\ Deliver(e, "takeOff", "takeOff")
    BY <1>1, <1>3
  <1> QED
    BY <1>5, <1>6, <1>14, <1>16, <1>17, <1>18, HandlerStep

(***************************************************************************)
(* The invariant, and what follows from it.                                *)
(***************************************************************************)

\* The run starts with the first arrival and the runway with Sky.
LEMMA InitInv ==
  ASSUME Init
  PROVE  RunwayInv
  <1>1. PICK d \in Draw(par.lambda) :
          fes = {[time |-> d, seq |-> 1, to |-> "sky", msg |-> "arrival"]}
    BY DEF Init
  <1>2. /\ par \in Settings /\ now = 0 /\ seq = 2 /\ usingRunway = FALSE
        /\ skyAvailable = TRUE /\ nextL = 0 /\ nextLtime = 0 /\ skyTimes = <<>>
        /\ created = 0 /\ toAvailable = FALSE /\ toTimes = <<>>
        /\ numAirplanes = 0 /\ left = 0
    BY DEF Init, InitSky, InitTakeOff, InitParking
  <1>3. d \in Nat
    BY <1>2, DrawsAreNat
  <1>4. \A f \in fes : /\ f \in Events /\ f.time = d /\ f.seq = 1
                       /\ f.to = "sky" /\ f.msg = "arrival"
    BY <1>1, <1>3 DEF Events, Gates, Names
  <1>5. /\ Landings = {} /\ TakeOffs = {} /\ Requests = {} /\ Grants = {} /\ Returns = {}
        /\ fes = At("sky", "arrival")
    BY <1>4 DEF Landings, TakeOffs, Requests, Grants, Returns, At
  <1>6. TypeOK
    <2>1. fes \subseteq Events
      BY <1>4
    <2>2. skyTimes \in Seq(Nat) /\ toTimes \in Seq(Nat)
      BY <1>2
    <2>3. /\ usingRunway \in BOOLEAN /\ skyAvailable \in BOOLEAN /\ toAvailable \in BOOLEAN
          /\ par \in Settings
      BY <1>2
    <2>4. /\ now \in Nat /\ seq \in Nat /\ nextL \in Nat /\ nextLtime \in Nat
          /\ created \in Nat /\ numAirplanes \in Int /\ left \in Nat
      BY <1>2
    <2> QED
      BY <2>1, <2>2, <2>3, <2>4 DEF TypeOK
  <1>7. EventsAhead /\ MessagesInstant /\ LandingKnown
    BY <1>2, <1>3, <1>4, <1>5 DEF EventsAhead, MessagesInstant, LandingKnown
  <1>8. AllUnique /\ LandingQueued /\ RightGoesRound
    BY <1>2, <1>5 DEF AllUnique, Unique, LandingQueued, RightGoesRound, WithSky
  <1> QED
    BY <1>6, <1>7, <1>8 DEF RunwayInv

\* Sky::handleMessage().
LEMMA SkyStepInv ==
  ASSUME RunwayInv, NEW e \in fes, SkyStep(e), UNCHANGED <<takeOffVars, parkingVars>>
  PROVE  RunwayInv'
  BY ArrivalLandsStep, ArrivalWaitsStep, LandingAnswersStep, LandingFollowedStep,
     LandingEndsStep, StopStep, ReturnedAndLandingStep, ReturnedIdleStep
  DEF SkyStep

\* TakeOff::handleMessage().
LEMMA TakeOffStepInv ==
  ASSUME RunwayInv, NEW e \in fes, TakeOffStep(e), UNCHANGED <<skyVars, parkingVars>>
  PROVE  RunwayInv'
  BY FromParkingStep, OkFromSkyStep, TakeOffFollowedStep, TakeOffEndsStep
  DEF TakeOffStep

\* Nothing changes: the properties are about one state.
LEMMA StutterInv ==
  ASSUME RunwayInv, UNCHANGED vars
  PROVE  RunwayInv'
  <1>1. /\ UNCHANGED <<par, now, fes, seq>>
        /\ UNCHANGED <<usingRunway, skyAvailable, nextL, nextLtime, skyTimes, created>>
        /\ UNCHANGED <<toAvailable, toTimes, numAirplanes, left>>
    BY DEF vars, kernelVars, skyVars, takeOffVars, parkingVars
  <1>2. /\ Landings' = Landings /\ TakeOffs' = TakeOffs /\ Requests' = Requests
        /\ Grants' = Grants /\ Returns' = Returns
        /\ At("sky", "arrival")' = At("sky", "arrival")
    BY <1>1 DEF Landings, TakeOffs, Requests, Grants, Returns, At
  <1>3. TypeOK'
    BY <1>1 DEF RunwayInv, TypeOK
  <1>4. EventsAhead' /\ MessagesInstant' /\ LandingKnown'
    BY <1>1, <1>2 DEF RunwayInv, EventsAhead, MessagesInstant, LandingKnown
  <1>5. AllUnique' /\ LandingQueued'
    BY <1>1, <1>2 DEF RunwayInv, AllUnique, Unique, LandingQueued
  <1>6. RightGoesRound'
    BY <1>1, <1>2 DEF RunwayInv, RightGoesRound, WithSky, RequestKept, BeingGranted,
    WithTakeOff, BeingReturned, Precedes
  <1> QED
    BY <1>3, <1>4, <1>5, <1>6 DEF RunwayInv

\* Every handler of Sky, TakeOff, Parking and Runway keeps the invariant of
\* the runway, at every interleaving of their messages.
THEOREM RunwayInvariant == Spec => []RunwayInv
  <1>1. Init => RunwayInv
    BY InitInv
  <1>2. RunwayInv /\ [Next]_vars => RunwayInv'
    <2> SUFFICES ASSUME RunwayInv, [Next]_vars PROVE RunwayInv'
      OBVIOUS
    <2>1. CASE Next
      BY <2>1, SkyStepInv, TakeOffStepInv, ParkingStepInv DEF Next
    <2>2. CASE UNCHANGED vars
      BY <2>2, StutterInv
    <2> QED
      BY <2>1, <2>2
  <1> QED
    BY <1>1, <1>2, PTL DEF Spec

\* The state and the events are what the handlers of MessageTower expect.
THEOREM MessageTowerTyped == Spec => []TypeOK
  <1>1. RunwayInv => TypeOK
    BY DEF RunwayInv
  <1> QED
    BY <1>1, RunwayInvariant, PTL

\* Sky and TakeOff never use the runway at the same time, and usingRunway
\* says whether a landing goes on.
THEOREM NeverTwoOnRunway == Spec => []RunwayExclusive
  <1>1. RunwayInv => RunwayExclusive
    <2> SUFFICES ASSUME RunwayInv PROVE RunwayExclusive
      OBVIOUS
    <2>1. Landings = {} \/ TakeOffs = {}
      BY DEF RunwayInv, LandingQueued, RightGoesRound, WithSky, RequestKept, BeingGranted,
    WithTakeOff, BeingReturned
    <2>2. \A e, f \in Landings \cup TakeOffs : e = f
      BY <2>1 DEF RunwayInv, AllUnique, Unique
    <2> QED
      BY <2>2 DEF RunwayExclusive, RunwayInv, LandingQueued
  <1> QED
    BY <1>1, RunwayInvariant, PTL

\* "surely there are airplanes queued if takeoff requested the runway", and no
\* operation ends with an empty queue.
THEOREM NeverServesEmptyQueue == Spec => []QueuedWhenServed
  <1>1. RunwayInv => QueuedWhenServed
    BY DEF QueuedWhenServed, RunwayInv, LandingQueued, RightGoesRound, WithSky, RequestKept, BeingGranted,
    WithTakeOff, BeingReturned
  <1> QED
    BY <1>1, RunwayInvariant, PTL

\* cancelEvent(nextL) never gets the uninitialised pointer nor anything but a
\* landing.
THEOREM CancelsOnlyLandings == Spec => []CancelsLanding
  <1>1. RunwayInv => CancelsLanding
    <2> SUFFICES ASSUME RunwayInv, Requests # {} PROVE
                 nextL # 0 /\ \A f \in fes : f.seq = nextL => f \in Landings
      BY DEF CancelsLanding
    <2>1. PICK q : q \in fes /\ q.msg = "runwayRequest"
      BY DEF Requests, At
    <2>2. nextL # 0
      BY <2>1, LandingAssigned
    <2> QED
      BY <2>2 DEF RunwayInv, LandingKnown
  <1> QED
    BY <1>1, RunwayInvariant, PTL

\* The messages of one kind are at most one.
LEMMA CountOne ==
  ASSUME NEW S, Unique(S), S # {}
  PROVE  Cardinality(S) = 1
  <1>1. PICK x : S = {x}
    BY DEF Unique
  <1> QED
    BY <1>1, FS_Singleton

\* The right to use the runway is never lost and never duplicated.
THEOREM RightConserved == Spec => []OneRight
  <1>1. RunwayInv => OneRight
    <2> SUFFICES ASSUME RunwayInv PROVE OneRight
      OBVIOUS
    <2>1. Grants = {} \/ Returns = {}
      BY DEF RunwayInv, RightGoesRound, WithSky, RequestKept, BeingGranted,
    WithTakeOff, BeingReturned
    <2>2. Unique(Grants \cup Returns)
      BY <2>1 DEF RunwayInv, AllUnique, Unique
    <2> DEFINE c == Cardinality(Grants \cup Returns)
    <2>3. c = IF Grants \cup Returns = {} THEN 0 ELSE 1
      BY <2>2, CountOne, FS_EmptySet
    <2> HIDE DEF c
    <2>4. /\ skyAvailable \in BOOLEAN /\ toAvailable \in BOOLEAN /\ usingRunway \in BOOLEAN
          /\ RightGoesRound
      BY DEF RunwayInv, TypeOK
    <2>5. \/ skyAvailable /\ ~toAvailable /\ c = 0
          \/ ~skyAvailable /\ ~toAvailable /\ usingRunway /\ c = 0
          \/ ~skyAvailable /\ ~toAvailable /\ ~usingRunway /\ c = 1
          \/ ~skyAvailable /\ toAvailable /\ ~usingRunway /\ c = 0
      BY <2>3, <2>4 DEF RightGoesRound, WithSky, RequestKept, BeingGranted,
    WithTakeOff, BeingReturned
    <2>6. (IF skyAvailable THEN 1 ELSE 0) + (IF toAvailable THEN 1 ELSE 0)
            + (IF ~skyAvailable /\ usingRunway THEN 1 ELSE 0) + c = 1
      BY <2>4, <2>5
    <2> QED
      BY <2>6 DEF OneRight, c
  <1> QED
    BY <1>1, RunwayInvariant, PTL

\* The airplanes that wait for take-off have exactly one request under way,
\* and Sky takes the return before the next request.
THEOREM RequestConserved == Spec => []OneRequest
  <1>1. RunwayInv => OneRequest
    <2> SUFFICES ASSUME RunwayInv PROVE OneRequest
      OBVIOUS
    <2>1. Requests = {} \/ Grants = {}
      BY DEF RunwayInv, RightGoesRound, WithSky, RequestKept, BeingGranted,
    WithTakeOff, BeingReturned
    <2>2. Unique(Requests \cup Grants)
      BY <2>1 DEF RunwayInv, AllUnique, Unique
    <2> DEFINE c == Cardinality(Requests \cup Grants)
    <2>3. c = IF Requests \cup Grants = {} THEN 0 ELSE 1
      BY <2>2, CountOne, FS_EmptySet
    <2> HIDE DEF c
    <2>4. /\ skyAvailable \in BOOLEAN /\ toAvailable \in BOOLEAN /\ usingRunway \in BOOLEAN
          /\ RightGoesRound
      BY DEF RunwayInv, TypeOK
    <2>5. \/ toTimes = <<>> /\ ~toAvailable /\ ~(~skyAvailable /\ usingRunway) /\ c = 0
          \/ toTimes # <<>> /\ ~toAvailable /\ ~(~skyAvailable /\ usingRunway) /\ c = 1
          \/ toTimes # <<>> /\ ~toAvailable /\ ~skyAvailable /\ usingRunway /\ c = 0
          \/ toTimes # <<>> /\ toAvailable /\ ~(~skyAvailable /\ usingRunway) /\ c = 0
      BY <2>3, <2>4 DEF RightGoesRound, WithSky, RequestKept, BeingGranted,
    WithTakeOff, BeingReturned
    <2>6. (IF toTimes # <<>> THEN 1 ELSE 0)
            = c + (IF toAvailable THEN 1 ELSE 0)
                + (IF ~skyAvailable /\ usingRunway THEN 1 ELSE 0)
      BY <2>4, <2>5
    <2>7. \A r \in Returns, q \in Requests : Precedes(r, q)
      BY <2>4 DEF RightGoesRound, WithSky, RequestKept, BeingGranted,
    WithTakeOff, BeingReturned
    <2> QED
      BY <2>6, <2>7 DEF OneRequest, c
  <1> QED
    BY <1>1, RunwayInvariant, PTL

(***************************************************************************)
(* Counting the events of a set F by the gates they arrive at.             *)
(***************************************************************************)
Among(F, gates, m) == {e \in F : e.to \in gates /\ e.msg = m}

Weight(x, gates, m) == IF x.to \in gates /\ x.msg = m THEN 1 ELSE 0

Count(F, gates, m) == Cardinality(Among(F, gates, m))

\* A message sent adds its weight to a count.
LEMMA CountPut ==
  ASSUME NEW F, IsFiniteSet(F), NEW gates, NEW m, NEW x, x \notin F
  PROVE  /\ IsFiniteSet(F \cup {x})
         /\ Count(F, gates, m) \in Nat
         /\ Count(F \cup {x}, gates, m) = Count(F, gates, m) + Weight(x, gates, m)
  <1> DEFINE S == Among(F, gates, m)
  <1>1. IsFiniteSet(F \cup {x})
    BY FS_AddElement
  <1>2. S \subseteq F
    BY DEF Among
  <1>3. IsFiniteSet(S)
    BY <1>2, FS_Subset
  <1>4. Cardinality(S) \in Nat
    BY <1>3, FS_CardinalityType
  <1>5. CASE x.to \in gates /\ x.msg = m
    <2>1. Among(F \cup {x}, gates, m) = S \cup {x} /\ x \notin S
      BY <1>5 DEF Among
    <2>2. Cardinality(S \cup {x}) = Cardinality(S) + 1
      BY <1>3, <2>1, FS_AddElement
    <2> QED
      BY <1>1, <1>4, <1>5, <2>1, <2>2 DEF Count, Weight
  <1>6. CASE ~(x.to \in gates /\ x.msg = m)
    <2>1. Among(F \cup {x}, gates, m) = S
      BY <1>6 DEF Among
    <2> QED
      BY <1>1, <1>4, <1>6, <2>1 DEF Count, Weight
  <1> QED
    BY <1>5, <1>6

\* A message delivered takes its weight away.
LEMMA CountTake ==
  ASSUME NEW F, IsFiniteSet(F), NEW gates, NEW m, NEW x \in F
  PROVE  /\ IsFiniteSet(F \ {x})
         /\ Count(F, gates, m) \in Nat
         /\ Count(F \ {x}, gates, m) \in Nat
         /\ Count(F, gates, m) = Count(F \ {x}, gates, m) + Weight(x, gates, m)
  <1> DEFINE R == F \ {x}
  <1>1. IsFiniteSet(R)
    BY FS_RemoveElement
  <1>2. x \notin R /\ R \cup {x} = F
    OBVIOUS
  <1> HIDE DEF R
  <1>3. /\ Count(R, gates, m) \in Nat
        /\ Count(R \cup {x}, gates, m) = Count(R, gates, m) + Weight(x, gates, m)
    BY <1>1, <1>2, CountPut
  <1>4. Weight(x, gates, m) \in Nat
    BY DEF Weight
  <1>5. Count(F, gates, m) = Count(R, gates, m) + Weight(x, gates, m)
    BY <1>2, <1>3
  <1>6. Count(F, gates, m) \in Nat
    BY <1>3, <1>4, <1>5
  <1> QED
    BY <1>1, <1>3, <1>5, <1>6 DEF R

(***************************************************************************)
(* The numbers the properties are about: u parking times running in F, and *)
(* a airplanes under way between two modules, p of them to the parking, d  *)
(* to TakeOff and g out of the system.                                     *)
(***************************************************************************)
Tally(F, u, p, d, g, a) ==
  /\ IsFiniteSet(F)
  /\ u \in Nat /\ p \in Nat /\ d \in Nat /\ g \in Nat /\ a \in Nat
  /\ Count(F, {"parking"}, "unnamed") = u
  /\ Count(F, {"runway.sky", "parking.park"}, "Airplane") = p
  /\ Count(F, {"takeOff.park"}, "Airplane") = d
  /\ Count(F, {"runway.takeOff"}, "Airplane") = g
  /\ Count(F, Gates, "Airplane") = a

InParking(x)  == x.to = "parking" /\ x.msg = "unnamed"
ToParking(x)  == x.to \in {"runway.sky", "parking.park"} /\ x.msg = "Airplane"
ToTakeOff(x)  == x.to = "takeOff.park" /\ x.msg = "Airplane"
GoingOut(x)   == x.to = "runway.takeOff" /\ x.msg = "Airplane"
NoAirplane(x) == x.msg # "unnamed" /\ x.msg # "Airplane"

\* How much each kind of event weighs in each of the five numbers.
LEMMA Weights ==
  ASSUME NEW x
  PROVE  LET U == Weight(x, {"parking"}, "unnamed")
             P == Weight(x, {"runway.sky", "parking.park"}, "Airplane")
             D == Weight(x, {"takeOff.park"}, "Airplane")
             G == Weight(x, {"runway.takeOff"}, "Airplane")
             A == Weight(x, Gates, "Airplane")
         IN  /\ InParking(x)  => U = 1 /\ P = 0 /\ D = 0 /\ G = 0 /\ A = 0
             /\ ToParking(x)  => U = 0 /\ P = 1 /\ D = 0 /\ G = 0 /\ A = 1
             /\ ToTakeOff(x)  => U = 0 /\ P = 0 /\ D = 1 /\ G = 0 /\ A = 1
             /\ GoingOut(x)   => U = 0 /\ P = 0 /\ D = 0 /\ G = 1 /\ A = 1
             /\ NoAirplane(x) => U = 0 /\ P = 0 /\ D = 0 /\ G = 0 /\ A = 0
  BY DEF Weight, Gates, InParking, ToParking, ToTakeOff, GoingOut, NoAirplane

\* Which number a message sent changes, by where it goes.
LEMMA TallyPut ==
  ASSUME NEW F, NEW u, NEW p, NEW d, NEW g, NEW a, Tally(F, u, p, d, g, a),
         NEW x, x \notin F
  PROVE  /\ InParking(x)  => Tally(F \cup {x}, u + 1, p, d, g, a)
         /\ ToParking(x)  => Tally(F \cup {x}, u, p + 1, d, g, a + 1)
         /\ ToTakeOff(x)  => Tally(F \cup {x}, u, p, d + 1, g, a + 1)
         /\ GoingOut(x)   => Tally(F \cup {x}, u, p, d, g + 1, a + 1)
         /\ NoAirplane(x) => Tally(F \cup {x}, u, p, d, g, a)
  <1> DEFINE K == F \cup {x}
  <1>1. /\ IsFiniteSet(F)
        /\ u \in Nat /\ p \in Nat /\ d \in Nat /\ g \in Nat /\ a \in Nat
        /\ Count(F, {"parking"}, "unnamed") = u
        /\ Count(F, {"runway.sky", "parking.park"}, "Airplane") = p
        /\ Count(F, {"takeOff.park"}, "Airplane") = d
        /\ Count(F, {"runway.takeOff"}, "Airplane") = g
        /\ Count(F, Gates, "Airplane") = a
    BY DEF Tally
  <1>2. ASSUME NEW gates, NEW m
        PROVE  /\ IsFiniteSet(K)
               /\ Count(K, gates, m) = Count(F, gates, m) + Weight(x, gates, m)
    BY <1>1, CountPut
  <1> HIDE DEF K
  <1> DEFINE U == Weight(x, {"parking"}, "unnamed")
             P == Weight(x, {"runway.sky", "parking.park"}, "Airplane")
             D == Weight(x, {"takeOff.park"}, "Airplane")
             G == Weight(x, {"runway.takeOff"}, "Airplane")
             A == Weight(x, Gates, "Airplane")
  <1>3. /\ IsFiniteSet(K)
        /\ Count(K, {"parking"}, "unnamed") = u + U
        /\ Count(K, {"runway.sky", "parking.park"}, "Airplane") = p + P
        /\ Count(K, {"takeOff.park"}, "Airplane") = d + D
        /\ Count(K, {"runway.takeOff"}, "Airplane") = g + G
        /\ Count(K, Gates, "Airplane") = a + A
    BY <1>1, <1>2
  <1>4. /\ InParking(x)  => U = 1 /\ P = 0 /\ D = 0 /\ G = 0 /\ A = 0
        /\ ToParking(x)  => U = 0 /\ P = 1 /\ D = 0 /\ G = 0 /\ A = 1
        /\ ToTakeOff(x)  => U = 0 /\ P = 0 /\ D = 1 /\ G = 0 /\ A = 1
        /\ GoingOut(x)   => U = 0 /\ P = 0 /\ D = 0 /\ G = 1 /\ A = 1
        /\ NoAirplane(x) => U = 0 /\ P = 0 /\ D = 0 /\ G = 0 /\ A = 0
    BY Weights
  <1> HIDE DEF U, P, D, G, A
  <1>5. /\ InParking(x)  => Tally(K, u + 1, p, d, g, a)
        /\ ToParking(x)  => Tally(K, u, p + 1, d, g, a + 1)
        /\ ToTakeOff(x)  => Tally(K, u, p, d + 1, g, a + 1)
        /\ GoingOut(x)   => Tally(K, u, p, d, g + 1, a + 1)
        /\ NoAirplane(x) => Tally(K, u, p, d, g, a)
    BY <1>1, <1>3, <1>4 DEF Tally
  <1> QED
    BY <1>5 DEF K

\* Which number a message delivered changes.
LEMMA TallyTake ==
  ASSUME NEW F, NEW u, NEW p, NEW d, NEW g, NEW a, Tally(F, u, p, d, g, a),
         NEW x \in F
  PROVE  /\ InParking(x)  => Tally(F \ {x}, u - 1, p, d, g, a)
         /\ ToParking(x)  => Tally(F \ {x}, u, p - 1, d, g, a - 1)
         /\ ToTakeOff(x)  => Tally(F \ {x}, u, p, d - 1, g, a - 1)
         /\ GoingOut(x)   => Tally(F \ {x}, u, p, d, g - 1, a - 1)
         /\ NoAirplane(x) => Tally(F \ {x}, u, p, d, g, a)
  <1> DEFINE K == F \ {x}
  <1>1. /\ IsFiniteSet(F)
        /\ u \in Nat /\ p \in Nat /\ d \in Nat /\ g \in Nat /\ a \in Nat
        /\ Count(F, {"parking"}, "unnamed") = u
        /\ Count(F, {"runway.sky", "parking.park"}, "Airplane") = p
        /\ Count(F, {"takeOff.park"}, "Airplane") = d
        /\ Count(F, {"runway.takeOff"}, "Airplane") = g
        /\ Count(F, Gates, "Airplane") = a
    BY DEF Tally
  <1>2. ASSUME NEW gates, NEW m
        PROVE  /\ IsFiniteSet(K)
               /\ Count(K, gates, m) \in Nat
               /\ Count(F, gates, m) = Count(K, gates, m) + Weight(x, gates, m)
    BY <1>1, CountTake
  <1> HIDE DEF K
  <1> DEFINE U == Weight(x, {"parking"}, "unnamed")
             P == Weight(x, {"runway.sky", "parking.park"}, "Airplane")
             D == Weight(x, {"takeOff.park"}, "Airplane")
             G == Weight(x, {"runway.takeOff"}, "Airplane")
             A == Weight(x, Gates, "Airplane")
             cu == Count(K, {"parking"}, "unnamed")
             cp == Count(K, {"runway.sky", "parking.park"}, "Airplane")
             cd == Count(K, {"takeOff.park"}, "Airplane")
             cg == Count(K, {"runway.takeOff"}, "Airplane")
             ca == Count(K, Gates, "Airplane")
  <1>3. /\ IsFiniteSet(K)
        /\ u = cu + U /\ p = cp + P /\ d = cd + D /\ g = cg + G /\ a = ca + A
        /\ cu \in Nat /\ cp \in Nat /\ cd \in Nat /\ cg \in Nat /\ ca \in Nat
    BY <1>1, <1>2
  <1>4. /\ InParking(x)  => U = 1 /\ P = 0 /\ D = 0 /\ G = 0 /\ A = 0
        /\ ToParking(x)  => U = 0 /\ P = 1 /\ D = 0 /\ G = 0 /\ A = 1
        /\ ToTakeOff(x)  => U = 0 /\ P = 0 /\ D = 1 /\ G = 0 /\ A = 1
        /\ GoingOut(x)   => U = 0 /\ P = 0 /\ D = 0 /\ G = 1 /\ A = 1
        /\ NoAirplane(x) => U = 0 /\ P = 0 /\ D = 0 /\ G = 0 /\ A = 0
    BY Weights
  <1>5. Tally(K, cu, cp, cd, cg, ca)
    BY <1>3 DEF Tally
  <1> HIDE DEF U, P, D, G, A, cu, cp, cd, cg, ca
  <1>6. /\ InParking(x)  => cu = u - 1 /\ cp = p /\ cd = d /\ cg = g /\ ca = a
        /\ ToParking(x)  => cu = u /\ cp = p - 1 /\ cd = d /\ cg = g /\ ca = a - 1
        /\ ToTakeOff(x)  => cu = u /\ cp = p /\ cd = d - 1 /\ cg = g /\ ca = a - 1
        /\ GoingOut(x)   => cu = u /\ cp = p /\ cd = d /\ cg = g - 1 /\ ca = a - 1
        /\ NoAirplane(x) => cu = u /\ cp = p /\ cd = d /\ cg = g /\ ca = a
    BY <1>3, <1>4
  <1>7. /\ InParking(x)  => Tally(K, u - 1, p, d, g, a)
        /\ ToParking(x)  => Tally(K, u, p - 1, d, g, a - 1)
        /\ ToTakeOff(x)  => Tally(K, u, p, d - 1, g, a - 1)
        /\ GoingOut(x)   => Tally(K, u, p, d, g - 1, a - 1)
        /\ NoAirplane(x) => Tally(K, u, p, d, g, a)
    BY <1>5, <1>6
  <1> QED
    BY <1>7 DEF K

(***************************************************************************)
(* The numbers and the state of MessageTower.                              *)
(***************************************************************************)
LEMMA TallyOf ==
  ASSUME IsFiniteSet(fes)
  PROVE  \E u, p, d, g, a \in Nat : Tally(fes, u, p, d, g, a)
  <1>1. ASSUME NEW gates, NEW m PROVE Count(fes, gates, m) \in Nat
    <2>1. Among(fes, gates, m) \subseteq fes
      BY DEF Among
    <2> QED
      BY <2>1, FS_Subset, FS_CardinalityType DEF Count
  <1> DEFINE cu == Count(fes, {"parking"}, "unnamed")
             cp == Count(fes, {"runway.sky", "parking.park"}, "Airplane")
             cd == Count(fes, {"takeOff.park"}, "Airplane")
             cg == Count(fes, {"runway.takeOff"}, "Airplane")
             ca == Count(fes, Gates, "Airplane")
  <1>2. cu \in Nat /\ cp \in Nat /\ cd \in Nat /\ cg \in Nat /\ ca \in Nat
    BY <1>1
  <1>3. Tally(fes, cu, cp, cd, cg, ca)
    BY <1>2 DEF Tally
  <1> HIDE DEF cu, cp, cd, cg, ca
  <1> QED
    BY <1>2, <1>3

\* The mapped counters by these numbers, in this state,
LEMMA MappedCounts ==
  ASSUME fes \subseteq Events, NEW u, NEW p, NEW d, NEW g, NEW a,
         Tally(fes, u, p, d, g, a)
  PROVE  /\ Cardinality(At("parking", "unnamed")) = u
         /\ Cardinality({e \in fes : e.msg = "Airplane"}) = a
         /\ Parked = numAirplanes + p
         /\ Departing = Len(toTimes) + d
         /\ Departed = left + g
  <1>1. At("parking", "unnamed") = Among(fes, {"parking"}, "unnamed")
    BY DEF At, Among
  <1>2. At("runway.sky", "Airplane") \cup At("parking.park", "Airplane")
          = Among(fes, {"runway.sky", "parking.park"}, "Airplane")
    BY DEF At, Among
  <1>3. At("takeOff.park", "Airplane") = Among(fes, {"takeOff.park"}, "Airplane")
    BY DEF At, Among
  <1>4. At("runway.takeOff", "Airplane")
          = Among(fes, {"runway.takeOff"}, "Airplane")
    BY DEF At, Among
  <1>5. {e \in fes : e.msg = "Airplane"} = Among(fes, Gates, "Airplane")
    BY DEF Among, Events
  <1> QED
    BY <1>1, <1>2, <1>3, <1>4, <1>5
       DEF Tally, Count, Parked, Departing, Departed

\* and in the next one.
LEMMA MappedCountsNext ==
  ASSUME fes' \subseteq Events, NEW u, NEW p, NEW d, NEW g, NEW a,
         Tally(fes', u, p, d, g, a)
  PROVE  /\ Cardinality(At("parking", "unnamed")') = u
         /\ Cardinality({e \in fes' : e.msg = "Airplane"}) = a
         /\ Parked' = numAirplanes' + p
         /\ Departing' = Len(toTimes') + d
         /\ Departed' = left' + g
  <1>1. At("parking", "unnamed")' = Among(fes', {"parking"}, "unnamed")
    BY DEF At, Among
  <1>2. (At("runway.sky", "Airplane") \cup At("parking.park", "Airplane"))'
          = Among(fes', {"runway.sky", "parking.park"}, "Airplane")
    BY DEF At, Among
  <1>3. At("takeOff.park", "Airplane")'
          = Among(fes', {"takeOff.park"}, "Airplane")
    BY DEF At, Among
  <1>4. At("runway.takeOff", "Airplane")'
          = Among(fes', {"runway.takeOff"}, "Airplane")
    BY DEF At, Among
  <1>5. {e \in fes' : e.msg = "Airplane"} = Among(fes', Gates, "Airplane")
    BY DEF Among, Events
  <1>6. /\ Cardinality(Among(fes', {"parking"}, "unnamed")) = u
        /\ Cardinality(Among(fes', {"runway.sky", "parking.park"},
                             "Airplane")) = p
        /\ Cardinality(Among(fes', {"takeOff.park"}, "Airplane")) = d
        /\ Cardinality(Among(fes', {"runway.takeOff"}, "Airplane")) = g
        /\ Cardinality(Among(fes', Gates, "Airplane")) = a
    BY DEF Tally, Count
  <1>7. Parked' = numAirplanes' + p
    BY <1>2, <1>6 DEF Parked
  <1>8. Departing' = Len(toTimes') + d
    BY <1>3, <1>6 DEF Departing
  <1>9. Departed' = left' + g
    BY <1>4, <1>6 DEF Departed
  <1> QED
    BY <1>1, <1>5, <1>6, <1>7, <1>8, <1>9

\* Where every airplane is, when a handler is entered
LEMMA Accounted ==
  ASSUME RunwayInv, MovesInv
  PROVE  \E u, p, d, g, a \in Nat :
           /\ Tally(fes, u, p, d, g, a)
           /\ numAirplanes = u
           /\ created = Len(skyTimes) + a + u + Len(toTimes) + left
           /\ Parked = u + p
           /\ Departing = Len(toTimes) + d
           /\ Departed = left + g
  <1>1. IsFiniteSet(fes) /\ fes \subseteq Events /\ AirplanesConserved
    BY DEF MovesInv, RunwayInv, TypeOK
  <1>2. PICK u, p, d, g, a \in Nat : Tally(fes, u, p, d, g, a)
    BY <1>1, TallyOf
  <1>3. /\ Cardinality(At("parking", "unnamed")) = u
        /\ Cardinality({e \in fes : e.msg = "Airplane"}) = a
        /\ Parked = numAirplanes + p
        /\ Departing = Len(toTimes) + d
        /\ Departed = left + g
    BY <1>1, <1>2, MappedCounts
  <1>4. /\ numAirplanes = u
        /\ created = Len(skyTimes) + a + u + Len(toTimes) + left
    BY <1>1, <1>3 DEF AirplanesConserved
  <1> QED
    BY <1>2, <1>3, <1>4

\* and when it has returned.
LEMMA AccountedNext ==
  ASSUME RunwayInv', TransfersInstant', SkyNotIdle', KeptLandingOlder',
         NEW u, NEW p, NEW d, NEW g, NEW a, Tally(fes', u, p, d, g, a),
         numAirplanes' = u,
         created' = Len(skyTimes') + a + u + Len(toTimes') + left'
  PROVE  /\ MovesInv'
         /\ Parked' = u + p
         /\ Departing' = Len(toTimes') + d
         /\ Departed' = left' + g
  <1>1. fes' \subseteq Events
    BY DEF RunwayInv, TypeOK
  <1>2. /\ Cardinality(At("parking", "unnamed")') = u
        /\ Cardinality({e \in fes' : e.msg = "Airplane"}) = a
        /\ Parked' = numAirplanes' + p
        /\ Departing' = Len(toTimes') + d
        /\ Departed' = left' + g
    BY <1>1, MappedCountsNext
  <1>3. AirplanesConserved'
    BY <1>2 DEF AirplanesConserved
  <1>4. IsFiniteSet(fes')
    BY DEF Tally
  <1> QED
    BY <1>2, <1>3, <1>4 DEF MovesInv

\* The operation on the runway is known from the flags of Sky and TakeOff.
LEMMA OperationKnown ==
  ASSUME RunwayInv
  PROVE  /\ Operation = IF usingRunway THEN "land"
                        ELSE IF toAvailable THEN "takeoff" ELSE "none"
         /\ usingRunway => ~toAvailable
  <1>1. TakeOffs # {} <=> toAvailable
    BY DEF RunwayInv, RightGoesRound, WithSky, RequestKept, BeingGranted,
       WithTakeOff, BeingReturned
  <1>2. usingRunway => ~toAvailable
    BY DEF RunwayInv, RightGoesRound, WithSky, RequestKept, BeingGranted,
       WithTakeOff, BeingReturned
  <1> QED
    BY <1>1, <1>2 DEF Operation

\* What is on the runway in the next state, by the two flags.
LEMMA OperationKnownNext ==
  ASSUME RunwayInv'
  PROVE  Operation' = IF usingRunway' THEN "land"
                      ELSE IF toAvailable' THEN "takeoff" ELSE "none"
  <1>1. TakeOffs' # {} <=> toAvailable'
    BY DEF RunwayInv, RightGoesRound, WithSky, RequestKept, BeingGranted,
       WithTakeOff, BeingReturned
  <1> QED
    BY <1>1 DEF Operation

\* Appending to and extracting from a queue of times.
LEMMA QueueLengths ==
  ASSUME NEW q \in Seq(Nat)
  PROVE  /\ Len(q) \in Nat
         /\ \A t \in Nat : Len(Append(q, t)) = Len(q) + 1
         /\ q # <<>> => Len(q) > 0 /\ Len(Tail(q)) = Len(q) - 1
         /\ q = <<>> => Len(q) = 0
  OBVIOUS

\* Time passes only when everything the instant calls for has been decided.
LEMMA TimePasses ==
  ASSUME RunwayInv, MovesInv, NEW e \in fes, NEW to, NEW msg,
         Deliver(e, to, msg)
  PROVE  /\ now' >= now
         /\ now' > now => Tower!Settled
         /\ msg = "Airplane" => now' = now
         /\ e \in Requests \cup Grants \cup Returns => now' = now
  <1>1. /\ e.time \in Nat /\ now' = e.time /\ now <= e.time
        /\ \A f \in fes \ {e} : e.time <= f.time
    BY KernelStep DEF RunwayInv
  <1>2. now \in Nat /\ fes \subseteq Events /\ e.msg = msg
    BY DEF RunwayInv, TypeOK, Deliver
  <1>3. /\ TransfersInstant /\ SkyNotIdle /\ KeptLandingOlder /\ MessagesInstant
        /\ RightGoesRound /\ nextLtime \in Nat
    BY DEF MovesInv, RunwayInv, TypeOK
  <1>4. msg = "Airplane" => now' = now
    BY <1>1, <1>2, <1>3 DEF TransfersInstant
  <1>5. e \in Requests \cup Grants \cup Returns => now' = now
    BY <1>1, <1>3 DEF MessagesInstant
  <1>6. ASSUME now' > now PROVE Tower!Settled
    <2>1. \A f \in fes : f.time # now
      BY <1>1, <1>2, <1>6 DEF Events
    <2>2. Requests \cup Grants \cup Returns \subseteq fes
      BY DEF Requests, Grants, Returns, At
    <2>3. Requests = {} /\ Grants = {} /\ Returns = {}
      BY <1>3, <2>1, <2>2 DEF MessagesInstant
    <2>4. At("takeOff.park", "Airplane") = {}
      BY <1>3, <2>1 DEF At, TransfersInstant
    <2>5. Departing = Len(toTimes)
      <3>1. Cardinality(At("takeOff.park", "Airplane")) = 0
        BY <2>4, FS_EmptySet
      <3>2. Len(toTimes) \in Nat
        BY QueueLengths DEF RunwayInv, TypeOK
      <3> QED
        BY <3>1, <3>2 DEF Departing
    <2>6. \/ skyAvailable /\ ~toAvailable /\ toTimes = <<>>
          \/ ~skyAvailable /\ ~toAvailable /\ usingRunway
          \/ toAvailable /\ ~usingRunway
      BY <1>3, <2>3 DEF RightGoesRound, WithSky, RequestKept, BeingGranted,
         WithTakeOff, BeingReturned
    <2>7. /\ Operation = "none" => ~usingRunway /\ ~toAvailable
          /\ Operation = "land" => usingRunway /\ ~toAvailable
      BY OperationKnown
    <2>8. /\ Operation = "none" => skyTimes = <<>> /\ toTimes = <<>>
          /\ Operation = "land" /\ nextLtime = now => toTimes = <<>>
      BY <1>2, <1>3, <2>6, <2>7 DEF SkyNotIdle, KeptLandingOlder
    <2>9. (skyTimes = <<>> => Len(skyTimes) = 0)
          /\ (toTimes = <<>> => Len(toTimes) = 0)
      OBVIOUS
    <2> QED
      BY <2>5, <2>8, <2>9 DEF Tower!Settled
  <1>7. now' >= now
    BY <1>1, <1>2
  <1> QED
    BY <1>4, <1>5, <1>6, <1>7

\* Airplanes that a handler sends arrive at the instant they are sent.
LEMMA SentInstant ==
  ASSUME RunwayInv, MovesInv, NEW e \in fes, NEW to, NEW msg,
         Deliver(e, to, msg), NEW gone, NEW ins, e \in gone, Replace(gone, ins),
         \A x \in ins : x.msg = "Airplane" => x.time = e.time
  PROVE  TransfersInstant'
  <1>1. /\ now' = e.time
        /\ \A f \in fes \ {e} : f.time = now => e.time = now
    BY KernelStep DEF RunwayInv
  <1>2. \A f \in fes' : f \in fes \ {e} \/ f \in ins
    BY DEF Replace
  <1>3. TransfersInstant
    BY DEF MovesInv
  <1> QED
    BY <1>1, <1>2, <1>3 DEF TransfersInstant

\* A message a handler inserts is not pending yet.
LEMMA InsertedNew ==
  ASSUME RunwayInv, NEW x, Inserted(x)
  PROVE  x \notin fes
  <1>1. seq \in Nat /\ \A f \in fes : f.seq < seq /\ f.seq \in Nat
    BY DEF RunwayInv, TypeOK, EventsAhead, Events
  <1> QED
    BY <1>1 DEF Inserted

\* A handler that schedules no landing leaves a kept landing as old as it is.
LEMMA OlderKept ==
  ASSUME RunwayInv, MovesInv, NEW e \in fes, NEW to, NEW msg,
         Deliver(e, to, msg), nextLtime' = nextLtime,
         ~skyAvailable' /\ usingRunway' => ~skyAvailable /\ usingRunway
  PROVE  KeptLandingOlder'
  <1>1. now' = e.time /\ now <= e.time /\ e.time \in Nat
    BY KernelStep DEF RunwayInv
  <1>2. now \in Nat /\ nextLtime \in Nat /\ KeptLandingOlder
    BY DEF RunwayInv, TypeOK, MovesInv
  <1> QED
    BY <1>1, <1>2 DEF KeptLandingOlder

(***************************************************************************)
(* Parking and Runway.                                                     *)
(***************************************************************************)

\* What a handler of Parking or Runway leaves alone.
LEMMA ParkingFrame ==
  ASSUME RunwayInv, RunwayInv', MovesInv, NEW e \in fes, NEW to, NEW msg,
         Deliver(e, to, msg), UNCHANGED <<skyVars, takeOffVars>>
  PROVE  /\ e.to = to /\ e.msg = msg /\ now' = e.time /\ e.time \in Nat
         /\ seq \in Nat /\ par \in Settings
         /\ skyTimes' = skyTimes /\ toTimes' = toTimes /\ created' = created
         /\ nextLtime' = nextLtime
         /\ Len(skyTimes) \in Nat /\ Len(toTimes) \in Nat /\ left \in Nat
         /\ Operation' = Operation
         /\ SkyNotIdle' /\ KeptLandingOlder'
  <1>1. e.to = to /\ e.msg = msg
    BY DEF Deliver
  <1>2. now' = e.time /\ e.time \in Nat
    BY KernelStep DEF RunwayInv
  <1>3. /\ skyTimes' = skyTimes /\ toTimes' = toTimes /\ created' = created
        /\ nextLtime' = nextLtime /\ usingRunway' = usingRunway
        /\ skyAvailable' = skyAvailable /\ toAvailable' = toAvailable
    BY DEF skyVars, takeOffVars
  <1>4. /\ skyTimes \in Seq(Nat) /\ toTimes \in Seq(Nat) /\ left \in Nat
        /\ seq \in Nat /\ par \in Settings
    BY DEF RunwayInv, TypeOK
  <1>5. Len(skyTimes) \in Nat /\ Len(toTimes) \in Nat
    BY <1>4, QueueLengths
  <1>6. Operation' = Operation
    BY <1>3, OperationKnown, OperationKnownNext
  <1>7. SkyNotIdle'
    BY <1>3 DEF MovesInv, SkyNotIdle
  <1>8. KeptLandingOlder'
    BY <1>3, OlderKept
  <1> QED
    BY <1>1, <1>2, <1>3, <1>4, <1>5, <1>6, <1>7, <1>8

\* The airplane is parked: for PriorityRunway it was parked already.
LEMMA ParkingEnteredMoves ==
  ASSUME RunwayInv, RunwayInv', MovesInv, NEW e \in fes, ParkingEntered(e),
         UNCHANGED <<skyVars, takeOffVars>>
  PROVE  MovesInv' /\ [Tower!PriorityNext]_(Tower!priorityVars)
  <1>1. /\ Deliver(e, "parking.park", "Airplane")
        /\ numAirplanes' = numAirplanes + 1 /\ left' = left
    BY DEF ParkingEntered
  <1>2. /\ e.to = "parking.park" /\ e.msg = "Airplane" /\ now' = e.time
        /\ e.time \in Nat /\ seq \in Nat /\ par \in Settings
        /\ skyTimes' = skyTimes /\ toTimes' = toTimes /\ created' = created
        /\ nextLtime' = nextLtime
        /\ Len(skyTimes) \in Nat /\ Len(toTimes) \in Nat /\ left \in Nat
        /\ Operation' = Operation
        /\ SkyNotIdle' /\ KeptLandingOlder'
    BY <1>1, ParkingFrame
  <1>3. PICK t \in Draw(par.tp) : Replace({e}, {Event("parking", "unnamed", t, 0)})
    BY DEF ParkingEntered
  <1> DEFINE x == Event("parking", "unnamed", t, 0)
  <1>4. t \in Nat
    BY <1>2, DrawsAreNat
  <1>5. Inserted(x) /\ x.to = "parking" /\ x.msg = "unnamed"
    BY <1>2, <1>4 DEF Event, Events, Inserted, Gates, Names
  <1>6. Replace({e}, {x})
    BY <1>3
  <1> HIDE DEF x
  <1>7. fes' = (fes \ {e}) \cup {x} /\ x \notin fes \ {e}
    BY <1>5, <1>6, InsertedNew DEF Replace
  <1>8. now' = now
    BY <1>1, TimePasses
  <1>9. TransfersInstant'
    <2>1. e \in {e} /\ \A y \in {x} : y.msg = "Airplane" => y.time = e.time
      BY <1>5
    <2> QED
      BY <1>1, <1>6, <2>1, SentInstant
  <1>10. PICK u, p, d, g, a \in Nat :
           /\ Tally(fes, u, p, d, g, a)
           /\ numAirplanes = u
           /\ created = Len(skyTimes) + a + u + Len(toTimes) + left
           /\ Parked = u + p
           /\ Departing = Len(toTimes) + d
           /\ Departed = left + g
    BY Accounted
  <1>11. Tally(fes \ {e}, u, p - 1, d, g, a - 1)
    BY <1>2, <1>10, TallyTake DEF ToParking
  <1>12. Tally(fes', u + 1, p - 1, d, g, a - 1)
    BY <1>5, <1>7, <1>11, TallyPut DEF InParking
  <1>13. created = Len(skyTimes) + (a - 1) + (u + 1) + Len(toTimes) + left
    BY <1>2, <1>10
  <1>14. /\ MovesInv'
         /\ Parked' = (u + 1) + (p - 1)
         /\ Departing' = Len(toTimes) + d
         /\ Departed' = left + g
    <2>1. /\ numAirplanes' = u + 1
          /\ created' = Len(skyTimes') + (a - 1) + (u + 1) + Len(toTimes') + left'
      BY <1>1, <1>2, <1>10, <1>13
    <2>2. /\ MovesInv'
          /\ Parked' = (u + 1) + (p - 1)
          /\ Departing' = Len(toTimes') + d
          /\ Departed' = left' + g
      BY <1>2, <1>9, <1>12, <2>1, AccountedNext, SMTT(30)
    <2> QED
      BY <1>1, <1>2, <2>2, SMTT(30)
  <1>15. Parked' = Parked
    BY <1>10, <1>14
  <1>16. UNCHANGED Tower!priorityVars
    BY <1>2, <1>8, <1>10, <1>14, <1>15 DEF Tower!priorityVars
  <1> QED
    BY <1>14, <1>16

\* The parking time is over.
LEMMA ParkingExpiredMoves ==
  ASSUME RunwayInv, RunwayInv', MovesInv, NEW e \in fes, ParkingExpired(e),
         UNCHANGED <<skyVars, takeOffVars>>
  PROVE  MovesInv' /\ [Tower!PriorityNext]_(Tower!priorityVars)
  <1> DEFINE x == Event("takeOff.park", "Airplane", 0, 0)
  <1>1. /\ Deliver(e, "parking", "unnamed")
        /\ numAirplanes' = numAirplanes - 1 /\ left' = left
        /\ Replace({e}, {x})
    BY DEF ParkingExpired
  <1>2. /\ e.to = "parking" /\ e.msg = "unnamed" /\ now' = e.time
        /\ e.time \in Nat /\ seq \in Nat
        /\ skyTimes' = skyTimes /\ toTimes' = toTimes /\ created' = created
        /\ nextLtime' = nextLtime
        /\ Len(skyTimes) \in Nat /\ Len(toTimes) \in Nat /\ left \in Nat
        /\ Operation' = Operation
        /\ SkyNotIdle' /\ KeptLandingOlder'
    BY <1>1, ParkingFrame
  <1>3. /\ Inserted(x) /\ x.to = "takeOff.park" /\ x.msg = "Airplane"
        /\ x.time = e.time
    BY <1>2 DEF Event, Events, Inserted, Gates, Names
  <1> HIDE DEF x
  <1>4. fes' = (fes \ {e}) \cup {x} /\ x \notin fes \ {e}
    BY <1>1, <1>3, InsertedNew DEF Replace
  <1>5. now' >= now /\ (now' > now => Tower!Settled)
    BY <1>1, TimePasses
  <1>6. TransfersInstant'
    <2>1. e \in {e} /\ \A y \in {x} : y.msg = "Airplane" => y.time = e.time
      BY <1>3
    <2> QED
      BY <1>1, <2>1, SentInstant
  <1>7. PICK u, p, d, g, a \in Nat :
          /\ Tally(fes, u, p, d, g, a)
          /\ numAirplanes = u
          /\ created = Len(skyTimes) + a + u + Len(toTimes) + left
          /\ Parked = u + p
          /\ Departing = Len(toTimes) + d
          /\ Departed = left + g
    BY Accounted
  <1>8. Tally(fes \ {e}, u - 1, p, d, g, a) /\ u - 1 \in Nat
    <2>1. Tally(fes \ {e}, u - 1, p, d, g, a)
      BY <1>2, <1>7, TallyTake DEF InParking
    <2> QED
      BY <2>1 DEF Tally
  <1>9. Tally(fes', u - 1, p, d + 1, g, a + 1)
    BY <1>3, <1>4, <1>8, TallyPut DEF ToTakeOff
  <1>10. /\ MovesInv'
         /\ Parked' = (u - 1) + p
         /\ Departing' = Len(toTimes) + (d + 1)
         /\ Departed' = left + g
    <2>1. created = Len(skyTimes) + (a + 1) + (u - 1) + Len(toTimes) + left
      BY <1>2, <1>7
    <2>2. /\ numAirplanes' = u - 1
          /\ created' = Len(skyTimes') + (a + 1) + (u - 1) + Len(toTimes') + left'
      BY <1>1, <1>2, <1>7, <2>1
    <2>3. /\ MovesInv'
          /\ Parked' = (u - 1) + p
          /\ Departing' = Len(toTimes') + (d + 1)
          /\ Departed' = left' + g
      <3>1. SkyNotIdle' /\ KeptLandingOlder' /\ TransfersInstant'
        BY <1>2, <1>6
      <3> DEFINE v == u - 1
                 w == d + 1
                 b == a + 1
      <3>2. /\ Tally(fes', v, p, w, g, b)
            /\ numAirplanes' = v
            /\ created' = Len(skyTimes') + b + v + Len(toTimes') + left'
        BY <1>9, <2>2
      <3> HIDE DEF v, w, b
      <3>3. /\ MovesInv'
            /\ Parked' = v + p
            /\ Departing' = Len(toTimes') + w
            /\ Departed' = left' + g
        BY <3>1, <3>2, AccountedNext
      <3> QED
        BY <3>3 DEF v, w
    <2> QED
      BY <1>1, <1>2, <2>3
  <1>11. Parked > 0 /\ Parked' = Parked - 1 /\ Departing' = Departing + 1
    BY <1>2, <1>7, <1>8, <1>10
  <1>12. Departed' = Departed
    BY <1>7, <1>10
  <1>13. Tower!Unpark
    BY <1>2, <1>11, <1>12 DEF Tower!Unpark
  <1> QED
    BY <1>5, <1>10, <1>13 DEF Tower!PriorityNext

\* Runway forwards the airplane to Parking.
LEMMA RunwayFromSkyMoves ==
  ASSUME RunwayInv, RunwayInv', MovesInv, NEW e \in fes, RunwayFromSky(e),
         UNCHANGED <<skyVars, takeOffVars>>
  PROVE  MovesInv' /\ [Tower!PriorityNext]_(Tower!priorityVars)
  <1> DEFINE x == Event("parking.park", "Airplane", 0, 0)
  <1>1. /\ Deliver(e, "runway.sky", "Airplane")
        /\ numAirplanes' = numAirplanes /\ left' = left
        /\ Replace({e}, {x})
    BY DEF RunwayFromSky, Forwarded, parkingVars
  <1>2. /\ e.to = "runway.sky" /\ e.msg = "Airplane" /\ now' = e.time
        /\ e.time \in Nat /\ seq \in Nat
        /\ skyTimes' = skyTimes /\ toTimes' = toTimes /\ created' = created
        /\ nextLtime' = nextLtime
        /\ Operation' = Operation
        /\ SkyNotIdle' /\ KeptLandingOlder'
    BY <1>1, ParkingFrame
  <1>3. /\ Inserted(x) /\ x.to = "parking.park" /\ x.msg = "Airplane"
        /\ x.time = e.time
    BY <1>2 DEF Event, Events, Inserted, Gates, Names
  <1> HIDE DEF x
  <1>4. fes' = (fes \ {e}) \cup {x} /\ x \notin fes \ {e}
    BY <1>1, <1>3, InsertedNew DEF Replace
  <1>5. now' = now
    BY <1>1, TimePasses
  <1>6. TransfersInstant'
    <2>1. e \in {e} /\ \A y \in {x} : y.msg = "Airplane" => y.time = e.time
      BY <1>3
    <2> QED
      BY <1>1, <2>1, SentInstant
  <1>7. PICK u, p, d, g, a \in Nat :
          /\ Tally(fes, u, p, d, g, a)
          /\ numAirplanes = u
          /\ created = Len(skyTimes) + a + u + Len(toTimes) + left
          /\ Parked = u + p
          /\ Departing = Len(toTimes) + d
          /\ Departed = left + g
    BY Accounted
  <1>8. Tally(fes \ {e}, u, p - 1, d, g, a - 1)
    BY <1>2, <1>7, TallyTake DEF ToParking
  <1>9. Tally(fes', u, p, d, g, a)
    <2>1. Tally(fes', u, (p - 1) + 1, d, g, (a - 1) + 1)
      BY <1>3, <1>4, <1>8, TallyPut DEF ToParking
    <2>2. (p - 1) + 1 = p /\ (a - 1) + 1 = a
      OBVIOUS
    <2> QED
      BY <2>1, <2>2
  <1>10. /\ MovesInv'
         /\ Parked' = u + p
         /\ Departing' = Len(toTimes') + d
         /\ Departed' = left' + g
    <2>1. /\ numAirplanes' = u
          /\ created' = Len(skyTimes') + a + u + Len(toTimes') + left'
      BY <1>1, <1>2, <1>7
    <2>2. RunwayInv' /\ TransfersInstant' /\ SkyNotIdle' /\ KeptLandingOlder'
      BY <1>2, <1>6
    <2> QED
      BY <1>9, <2>1, <2>2, AccountedNext
  <1>11. UNCHANGED Tower!priorityVars
    BY <1>1, <1>2, <1>5, <1>7, <1>10 DEF Tower!priorityVars
  <1> QED
    BY <1>10, <1>11

\* An airplane leaves: for PriorityRunway it was gone already.
LEMMA RunwayFromTakeOffMoves ==
  ASSUME RunwayInv, RunwayInv', MovesInv, NEW e \in fes, RunwayFromTakeOff(e),
         UNCHANGED <<skyVars, takeOffVars>>
  PROVE  MovesInv' /\ [Tower!PriorityNext]_(Tower!priorityVars)
  <1>1. /\ Deliver(e, "runway.takeOff", "Airplane")
        /\ numAirplanes' = numAirplanes /\ left' = left + 1
        /\ Replace({e}, {})
    BY DEF RunwayFromTakeOff
  <1>2. /\ e.to = "runway.takeOff" /\ e.msg = "Airplane"
        /\ skyTimes' = skyTimes /\ toTimes' = toTimes /\ created' = created
        /\ nextLtime' = nextLtime
        /\ Len(skyTimes) \in Nat /\ Len(toTimes) \in Nat /\ left \in Nat
        /\ Operation' = Operation
        /\ SkyNotIdle' /\ KeptLandingOlder'
    BY <1>1, ParkingFrame
  <1>3. fes' = fes \ {e}
    BY <1>1 DEF Replace
  <1>4. now' = now
    BY <1>1, TimePasses
  <1>5. TransfersInstant'
    <2>1. e \in {e} /\ \A y \in {} : y.msg = "Airplane" => y.time = e.time
      OBVIOUS
    <2> QED
      BY <1>1, <2>1, SentInstant
  <1>6. PICK u, p, d, g, a \in Nat :
          /\ Tally(fes, u, p, d, g, a)
          /\ numAirplanes = u
          /\ created = Len(skyTimes) + a + u + Len(toTimes) + left
          /\ Parked = u + p
          /\ Departing = Len(toTimes) + d
          /\ Departed = left + g
    BY Accounted
  <1>7. Tally(fes', u, p, d, g - 1, a - 1)
    BY <1>2, <1>3, <1>6, TallyTake DEF GoingOut
  <1>8. /\ MovesInv'
        /\ Parked' = u + p
        /\ Departing' = Len(toTimes) + d
        /\ Departed' = (left + 1) + (g - 1)
    <2>1. created = Len(skyTimes) + (a - 1) + u + Len(toTimes) + (left + 1)
      BY <1>2, <1>6
    <2>2. /\ numAirplanes' = u
          /\ created' = Len(skyTimes') + (a - 1) + u + Len(toTimes') + left'
      BY <1>1, <1>2, <1>6, <2>1
    <2>3. /\ MovesInv'
          /\ Parked' = u + p
          /\ Departing' = Len(toTimes') + d
          /\ Departed' = left' + (g - 1)
      BY <1>2, <1>5, <1>7, <2>2, AccountedNext, SMTT(30)
    <2> QED
      BY <1>1, <1>2, <2>3
  <1>9. Departed' = Departed
    BY <1>2, <1>6, <1>8
  <1>10. UNCHANGED Tower!priorityVars
    BY <1>2, <1>4, <1>6, <1>8, <1>9 DEF Tower!priorityVars
  <1> QED
    BY <1>8, <1>10

(***************************************************************************)
(* TakeOff.                                                                *)
(***************************************************************************)

\* What a handler of TakeOff leaves alone.
LEMMA TakeOffKeeps ==
  ASSUME RunwayInv, RunwayInv', MovesInv, NEW e \in fes, NEW to, NEW msg,
         Deliver(e, to, msg), UNCHANGED <<skyVars, parkingVars>>
  PROVE  /\ e.to = to /\ e.msg = msg /\ now' = e.time /\ e.time \in Nat
         /\ seq \in Nat /\ par \in Settings
         /\ skyTimes' = skyTimes /\ created' = created
         /\ nextLtime' = nextLtime /\ usingRunway' = usingRunway
         /\ numAirplanes' = numAirplanes /\ left' = left
         /\ Len(skyTimes) \in Nat /\ Len(toTimes) \in Nat /\ left \in Nat
         /\ toTimes \in Seq(Nat)
         /\ SkyNotIdle' /\ KeptLandingOlder'
  <1>1. e.to = to /\ e.msg = msg
    BY DEF Deliver
  <1>2. now' = e.time /\ e.time \in Nat
    BY KernelStep DEF RunwayInv
  <1>3. /\ skyTimes' = skyTimes /\ created' = created
        /\ nextLtime' = nextLtime /\ usingRunway' = usingRunway
        /\ skyAvailable' = skyAvailable
        /\ numAirplanes' = numAirplanes /\ left' = left
    BY DEF skyVars, parkingVars
  <1>4. /\ skyTimes \in Seq(Nat) /\ toTimes \in Seq(Nat) /\ left \in Nat
        /\ seq \in Nat /\ par \in Settings
    BY DEF RunwayInv, TypeOK
  <1>5. Len(skyTimes) \in Nat /\ Len(toTimes) \in Nat
    BY <1>4, QueueLengths
  <1>6. SkyNotIdle'
    BY <1>3 DEF MovesInv, SkyNotIdle
  <1>7. KeptLandingOlder'
    BY <1>3, OlderKept
  <1> QED
    BY <1>1, <1>2, <1>3, <1>4, <1>5, <1>6, <1>7

\* An airplane joins TakeOff's queue: for PriorityRunway it waited already.
LEMMA FromParkingMoves ==
  ASSUME RunwayInv, RunwayInv', MovesInv, NEW e \in fes,
         handleAirplaneFromParking(e), UNCHANGED <<skyVars, parkingVars>>
  PROVE  MovesInv' /\ [Tower!PriorityNext]_(Tower!priorityVars)
  <1>1. /\ Deliver(e, "takeOff.park", "Airplane")
        /\ toTimes' = Append(toTimes, now') /\ toAvailable' = toAvailable
    BY DEF handleAirplaneFromParking
  <1>2. /\ e.to = "takeOff.park" /\ e.msg = "Airplane" /\ now' = e.time
        /\ e.time \in Nat /\ seq \in Nat /\ par \in Settings
        /\ skyTimes' = skyTimes /\ created' = created
        /\ nextLtime' = nextLtime /\ usingRunway' = usingRunway
        /\ numAirplanes' = numAirplanes /\ left' = left
        /\ Len(skyTimes) \in Nat /\ Len(toTimes) \in Nat /\ left \in Nat
        /\ toTimes \in Seq(Nat)
        /\ SkyNotIdle' /\ KeptLandingOlder'
    BY <1>1, TakeOffKeeps
  <1>3. Len(toTimes') = Len(toTimes) + 1
    BY <1>1, <1>2, QueueLengths
  <1>4. PICK ins : /\ Replace({e}, ins)
                   /\ \/ ins = {}
                      \/ \E x : ins = {x} /\ Inserted(x) /\ NoAirplane(x)
    <2>1. PICK t \in Draw(par.to) :
            Replace({e}, IF ~FirstInQueue THEN {}
                         ELSE IF toAvailable THEN {scheduleTakeOff(t, 0)}
                         ELSE {Event("sky.inTakeoff", "runwayRequest", 0, 0)})
      BY DEF handleAirplaneFromParking
    <2>2. t \in Nat
      BY <1>2, DrawsAreNat
    <2>3. Inserted(scheduleTakeOff(t, 0)) /\ NoAirplane(scheduleTakeOff(t, 0))
      BY <1>2, <2>2
         DEF scheduleTakeOff, Event, Events, Inserted, Gates, Names, NoAirplane
    <2>4. /\ Inserted(Event("sky.inTakeoff", "runwayRequest", 0, 0))
          /\ NoAirplane(Event("sky.inTakeoff", "runwayRequest", 0, 0))
      BY <1>2 DEF Event, Events, Inserted, Gates, Names, NoAirplane
    <2> QED
      BY <2>1, <2>3, <2>4
  <1>5. now' = now
    BY <1>1, TimePasses
  <1>6. TransfersInstant'
    <2>1. e \in {e} /\ \A y \in ins : y.msg = "Airplane" => y.time = e.time
      BY <1>4 DEF NoAirplane
    <2> QED
      BY <1>1, <1>4, <2>1, SentInstant
  <1>7. PICK u, p, d, g, a \in Nat :
          /\ Tally(fes, u, p, d, g, a)
          /\ numAirplanes = u
          /\ created = Len(skyTimes) + a + u + Len(toTimes) + left
          /\ Parked = u + p
          /\ Departing = Len(toTimes) + d
          /\ Departed = left + g
    BY Accounted
  <1>8. Tally(fes \ {e}, u, p, d - 1, g, a - 1)
    BY <1>2, <1>7, TallyTake DEF ToTakeOff
  <1> DEFINE c == d - 1
             b == a - 1
  <1>9. Tally(fes', u, p, c, g, b)
    <2>1. CASE ins = {}
      BY <1>4, <1>8, <2>1 DEF Replace
    <2>2. CASE \E x : ins = {x} /\ Inserted(x) /\ NoAirplane(x)
      <3>1. PICK x : ins = {x} /\ Inserted(x) /\ NoAirplane(x)
        BY <2>2
      <3>2. fes' = (fes \ {e}) \cup {x} /\ x \notin fes \ {e}
        BY <1>4, <3>1, InsertedNew DEF Replace
      <3> QED
        BY <1>8, <3>1, <3>2, TallyPut
    <2> QED
      BY <1>4, <2>1, <2>2
  <1>10. created = Len(skyTimes) + b + u + (Len(toTimes) + 1) + left
    BY <1>2, <1>7
  <1> HIDE DEF b, c
  <1>11. created' = Len(skyTimes') + b + u + Len(toTimes') + left'
    BY <1>2, <1>3, <1>10
  <1>12. /\ MovesInv'
         /\ Parked' = u + p
         /\ Departing' = Len(toTimes') + c
         /\ Departed' = left' + g
    <2>1. SkyNotIdle' /\ KeptLandingOlder' /\ TransfersInstant'
          /\ numAirplanes' = u
      BY <1>2, <1>6, <1>7
    <2> QED
      BY <1>9, <1>11, <2>1, AccountedNext
  <1>13. Departing' = Departing
    BY <1>2, <1>3, <1>7, <1>12 DEF c
  <1>14. Operation' = Operation
    BY <1>1, <1>2, OperationKnown, OperationKnownNext
  <1>15. UNCHANGED Tower!priorityVars
    BY <1>2, <1>5, <1>7, <1>12, <1>13, <1>14 DEF Tower!priorityVars
  <1> QED
    BY <1>12, <1>15

\* A handler that sends no airplane and changes no queue moves no airplane.
LEMMA NothingMoves ==
  ASSUME RunwayInv, RunwayInv', MovesInv, NEW e \in fes, NEW to, NEW msg,
         Deliver(e, to, msg), NoAirplane(e), NEW ins, Replace({e}, ins),
         ins = {} \/ \E x : ins = {x} /\ Inserted(x) /\ NoAirplane(x),
         skyTimes' = skyTimes, toTimes' = toTimes, created' = created,
         numAirplanes' = numAirplanes, left' = left,
         SkyNotIdle', KeptLandingOlder'
  PROVE  /\ MovesInv'
         /\ Parked' = Parked /\ Departing' = Departing /\ Departed' = Departed
  <1>1. TransfersInstant'
    <2>1. e \in {e} /\ \A y \in ins : y.msg = "Airplane" => y.time = e.time
      BY DEF NoAirplane
    <2> QED
      BY <2>1, SentInstant
  <1>2. PICK u, p, d, g, a \in Nat :
          /\ Tally(fes, u, p, d, g, a)
          /\ numAirplanes = u
          /\ created = Len(skyTimes) + a + u + Len(toTimes) + left
          /\ Parked = u + p
          /\ Departing = Len(toTimes) + d
          /\ Departed = left + g
    BY Accounted
  <1>3. Tally(fes \ {e}, u, p, d, g, a)
    BY <1>2, TallyTake
  <1>4. Tally(fes', u, p, d, g, a)
    <2>1. CASE ins = {}
      BY <1>3, <2>1 DEF Replace
    <2>2. CASE \E x : ins = {x} /\ Inserted(x) /\ NoAirplane(x)
      <3>1. PICK x : ins = {x} /\ Inserted(x) /\ NoAirplane(x)
        BY <2>2
      <3>2. fes' = (fes \ {e}) \cup {x} /\ x \notin fes \ {e}
        BY <3>1, InsertedNew DEF Replace
      <3> QED
        BY <1>3, <3>1, <3>2, TallyPut
    <2> QED
      BY <2>1, <2>2
  <1>5. /\ numAirplanes' = u
        /\ created' = Len(skyTimes') + a + u + Len(toTimes') + left'
    BY <1>2
  <1>6. /\ MovesInv'
        /\ Parked' = u + p
        /\ Departing' = Len(toTimes') + d
        /\ Departed' = left' + g
    BY <1>1, <1>4, <1>5, AccountedNext
  <1> QED
    BY <1>2, <1>6

\* The runway is granted to TakeOff and the first take-off starts.
LEMMA OkFromSkyMoves ==
  ASSUME RunwayInv, RunwayInv', MovesInv, NEW e \in fes, handleOkFromSky(e),
         UNCHANGED <<skyVars, parkingVars>>
  PROVE  MovesInv' /\ [Tower!PriorityNext]_(Tower!priorityVars)
  <1>1. /\ Deliver(e, "takeOff.inSky", "runwayAvailable")
        /\ toTimes' = toTimes /\ toAvailable' = TRUE
    BY DEF handleOkFromSky
  <1>2. /\ e.to = "takeOff.inSky" /\ e.msg = "runwayAvailable" /\ now' = e.time
        /\ e.time \in Nat /\ seq \in Nat /\ par \in Settings
        /\ skyTimes' = skyTimes /\ created' = created
        /\ nextLtime' = nextLtime /\ usingRunway' = usingRunway
        /\ numAirplanes' = numAirplanes /\ left' = left
        /\ Len(toTimes) \in Nat /\ toTimes \in Seq(Nat)
        /\ SkyNotIdle' /\ KeptLandingOlder'
    BY <1>1, TakeOffKeeps
  <1>3. PICK t \in Draw(par.to) : Replace({e}, {scheduleTakeOff(t, 0)})
    BY DEF handleOkFromSky
  <1>4. t \in Nat
    BY <1>2, DrawsAreNat
  <1>5. Inserted(scheduleTakeOff(t, 0)) /\ NoAirplane(scheduleTakeOff(t, 0))
    BY <1>2, <1>4
       DEF scheduleTakeOff, Event, Events, Inserted, Gates, Names, NoAirplane
  <1>6. NoAirplane(e)
    BY <1>2 DEF NoAirplane
  <1>7. /\ MovesInv'
        /\ Parked' = Parked /\ Departing' = Departing /\ Departed' = Departed
    BY <1>1, <1>2, <1>3, <1>5, <1>6, NothingMoves
  <1>8. now' >= now /\ (now' > now => Tower!Settled)
    BY <1>1, TimePasses
  <1>9. ~usingRunway /\ ~toAvailable /\ toTimes # <<>>
    <2>1. e \in Grants
      BY <1>2 DEF Grants, At
    <2> QED
      BY <2>1 DEF RunwayInv, RightGoesRound, WithSky, RequestKept, BeingGranted,
         WithTakeOff, BeingReturned
  <1>10. Operation = "none" /\ Operation' = "takeoff"
    BY <1>1, <1>2, <1>9, OperationKnown, OperationKnownNext
  <1>11. Departing > 0
    <2>1. PICK u, p, d, g, a \in Nat : Departing = Len(toTimes) + d
      BY Accounted
    <2>2. Len(toTimes) > 0
      BY <1>2, <1>9, QueueLengths
    <2> QED
      BY <1>2, <2>1, <2>2
  <1>12. Tower!StartTakeOff
    BY <1>2, <1>7, <1>10, <1>11 DEF Tower!StartTakeOff
  <1> QED
    BY <1>7, <1>8, <1>12 DEF Tower!PriorityNext

\* An airplane takes off; the message it becomes goes out of the system.
LEMMA TakesOffMoves ==
  ASSUME RunwayInv, RunwayInv', MovesInv, NEW e \in fes, TakesOff(e),
         UNCHANGED <<skyVars, parkingVars>>,
         NEW y, Replace({e}, {Gone, y}), Inserted(y), NoAirplane(y)
  PROVE  /\ MovesInv'
         /\ Parked' = Parked /\ Departing' = Departing - 1
         /\ Departed' = Departed + 1
         /\ Departing' \in Nat /\ (toTimes' # <<>> => Departing' > 0)
         /\ Operation = "takeoff" /\ usingRunway' = FALSE
         /\ Len(skyTimes') = Len(skyTimes) /\ nextLtime' = nextLtime
         /\ now' >= now /\ (now' > now => Tower!Settled)
  <1>1. /\ Deliver(e, "takeOff", "takeOff") /\ e.to = "takeOff"
        /\ e.msg = "takeOff" /\ WithTakeOff /\ toTimes' \in Seq(Nat)
        /\ Inserted(Gone) /\ Gone.to = "runway.takeOff" /\ Gone.msg = "Airplane"
    BY TakesOffFacts
  <1>2. /\ now' = e.time /\ e.time \in Nat
        /\ skyTimes' = skyTimes /\ created' = created
        /\ nextLtime' = nextLtime /\ usingRunway' = usingRunway
        /\ numAirplanes' = numAirplanes /\ left' = left
        /\ Len(skyTimes) \in Nat /\ Len(toTimes) \in Nat /\ left \in Nat
        /\ toTimes \in Seq(Nat)
        /\ SkyNotIdle' /\ KeptLandingOlder'
    BY <1>1, TakeOffKeeps
  <1>3. now' >= now /\ (now' > now => Tower!Settled)
    BY <1>1, TimePasses
  <1>4. Gone.time = e.time
    BY <1>2 DEF Gone, Event
  <1> DEFINE x == Gone
  <1>5. /\ x.to = "runway.takeOff" /\ x.msg = "Airplane" /\ x.time = e.time
        /\ Inserted(x) /\ Replace({e}, {x, y})
    BY <1>1, <1>4
  <1> HIDE DEF x
  <1>6. /\ fes' = ((fes \ {e}) \cup {x}) \cup {y}
        /\ x \notin fes \ {e} /\ y \notin (fes \ {e}) \cup {x}
    <2>1. x \notin fes /\ y \notin fes
      BY <1>5, InsertedNew
    <2>2. x # y
      BY <1>5 DEF NoAirplane
    <2> QED
      BY <1>5, <2>1, <2>2 DEF Replace
  <1>7. TransfersInstant'
    <2>1. e \in {e} /\ \A z \in {x, y} : z.msg = "Airplane" => z.time = e.time
      BY <1>5 DEF NoAirplane
    <2> QED
      BY <1>1, <1>5, <2>1, SentInstant
  <1>8. PICK u, p, d, g, a \in Nat :
          /\ Tally(fes, u, p, d, g, a)
          /\ numAirplanes = u
          /\ created = Len(skyTimes) + a + u + Len(toTimes) + left
          /\ Parked = u + p
          /\ Departing = Len(toTimes) + d
          /\ Departed = left + g
    BY Accounted
  <1>9. Tally(fes \ {e}, u, p, d, g, a)
    BY <1>1, <1>8, TallyTake DEF NoAirplane
  <1> DEFINE k == g + 1
             b == a + 1
  <1>10. Tally(fes', u, p, d, k, b)
    <2>1. Tally((fes \ {e}) \cup {x}, u, p, d, k, b)
      BY <1>5, <1>6, <1>9, TallyPut DEF GoingOut
    <2> HIDE DEF k, b
    <2> QED
      BY <1>6, <2>1, TallyPut
  <1>11. Len(toTimes) > 0 /\ Len(toTimes') = Len(toTimes) - 1
    BY <1>2, QueueLengths DEF TakesOff
  <1>12. created = Len(skyTimes) + b + u + (Len(toTimes) - 1) + left
    BY <1>2, <1>8
  <1>13. created' = Len(skyTimes') + b + u + Len(toTimes') + left'
    BY <1>2, <1>11, <1>12
  <1> HIDE DEF k, b
  <1>14. /\ MovesInv'
         /\ Parked' = u + p
         /\ Departing' = Len(toTimes') + d
         /\ Departed' = left' + k
    <2>1. SkyNotIdle' /\ KeptLandingOlder' /\ TransfersInstant'
          /\ numAirplanes' = u
      BY <1>2, <1>7, <1>8
    <2> QED
      BY <1>10, <1>13, <2>1, AccountedNext
  <1>15. Departing' = Departing - 1 /\ Departing' \in Nat
    BY <1>2, <1>8, <1>11, <1>14, SMTT(30)
  <1>16. Departed' = Departed + 1
    BY <1>2, <1>8, <1>14 DEF k
  <1>17. toTimes' # <<>> => Departing' > 0
    <2>1. toTimes' # <<>> => Len(toTimes') > 0 /\ Len(toTimes') \in Nat
      BY <1>1, QueueLengths
    <2> QED
      BY <1>14, <2>1
  <1>18. Operation = "takeoff" /\ usingRunway' = FALSE
    BY <1>1, <1>2, OperationKnown DEF WithTakeOff, RunwayInv, TypeOK
  <1>19. Len(skyTimes') = Len(skyTimes) /\ nextLtime' = nextLtime
    BY <1>2
  <1> QED
    BY <1>3, <1>8, <1>14, <1>15, <1>16, <1>17, <1>18, <1>19

\* A take-off ends and the next one starts.
LEMMA TakeOffFollowedMoves ==
  ASSUME RunwayInv, RunwayInv', MovesInv, NEW e \in fes, TakeOffFollowed(e),
         UNCHANGED <<skyVars, parkingVars>>
  PROVE  MovesInv' /\ [Tower!PriorityNext]_(Tower!priorityVars)
  <1>1. TakesOff(e) /\ toTimes' # <<>> /\ toAvailable' = toAvailable
    BY DEF TakeOffFollowed
  <1>2. PICK t \in Draw(par.to) : Replace({e}, {Gone, scheduleTakeOff(t, 1)})
    BY DEF TakeOffFollowed
  <1>3. t \in Nat
    BY DrawsAreNat DEF RunwayInv, TypeOK
  <1>4. /\ now' = e.time /\ e.time \in Nat /\ seq \in Nat /\ WithTakeOff
    BY <1>1, TakesOffFacts
  <1>5. Inserted(scheduleTakeOff(t, 1)) /\ NoAirplane(scheduleTakeOff(t, 1))
    BY <1>3, <1>4
       DEF scheduleTakeOff, Event, Events, Inserted, Gates, Names, NoAirplane
  <1>6. /\ MovesInv'
        /\ Parked' = Parked /\ Departing' = Departing - 1
        /\ Departed' = Departed + 1
        /\ Departing' > 0
        /\ Operation = "takeoff" /\ usingRunway' = FALSE
        /\ Len(skyTimes') = Len(skyTimes) /\ nextLtime' = nextLtime
        /\ now' >= now /\ (now' > now => Tower!Settled)
    BY <1>1, <1>2, <1>5, TakesOffMoves
  <1>7. Operation' = "takeoff"
    BY <1>1, <1>4, <1>6, OperationKnownNext DEF WithTakeOff
  <1>8. Tower!TakeOff
    BY <1>6, <1>7 DEF Tower!TakeOff
  <1> QED
    BY <1>6, <1>8 DEF Tower!PriorityNext

\* A take-off ends and TakeOff returns the runway.
LEMMA TakeOffEndsMoves ==
  ASSUME RunwayInv, RunwayInv', MovesInv, NEW e \in fes, TakeOffEndsQueue(e),
         UNCHANGED <<skyVars, parkingVars>>
  PROVE  MovesInv' /\ [Tower!PriorityNext]_(Tower!priorityVars)
  <1> DEFINE y == Event("sky.inTakeoff", "runwayAvailable", 0, 1)
  <1>1. TakesOff(e) /\ toAvailable' = FALSE
    BY DEF TakeOffEndsQueue, StillAvailable
  <1>2. Replace({e}, {Gone, y})
    <2>1. {Gone} \cup Return = {Gone, y}
      BY DEF Return
    <2> QED
      BY <2>1 DEF TakeOffEndsQueue
  <1>3. now' = e.time /\ e.time \in Nat /\ seq \in Nat
    BY <1>1, TakesOffFacts
  <1>4. Inserted(y) /\ NoAirplane(y)
    BY <1>3 DEF Event, Events, Inserted, Gates, Names, NoAirplane
  <1> HIDE DEF y
  <1>5. /\ MovesInv'
        /\ Parked' = Parked /\ Departing' = Departing - 1
        /\ Departed' = Departed + 1
        /\ Operation = "takeoff" /\ usingRunway' = FALSE
        /\ Len(skyTimes') = Len(skyTimes) /\ nextLtime' = nextLtime
        /\ now' >= now /\ (now' > now => Tower!Settled)
    BY <1>1, <1>2, <1>4, TakesOffMoves
  <1>6. Operation' = "none"
    BY <1>1, <1>5, OperationKnownNext
  <1>7. Tower!TakeOff
    BY <1>5, <1>6 DEF Tower!TakeOff
  <1> QED
    BY <1>5, <1>7 DEF Tower!PriorityNext

(***************************************************************************)
(* Sky.                                                                    *)
(***************************************************************************)

\* What a handler of Sky leaves alone.
LEMMA SkyKeeps ==
  ASSUME RunwayInv, NEW e \in fes, NEW to, NEW msg, Deliver(e, to, msg),
         UNCHANGED <<takeOffVars, parkingVars>>
  PROVE  /\ e.to = to /\ e.msg = msg /\ now' = e.time /\ e.time \in Nat
         /\ seq \in Nat /\ par \in Settings
         /\ toTimes' = toTimes /\ toAvailable' = toAvailable
         /\ numAirplanes' = numAirplanes /\ left' = left
         /\ Len(skyTimes) \in Nat /\ Len(toTimes) \in Nat /\ left \in Nat
         /\ skyTimes \in Seq(Nat) /\ toTimes \in Seq(Nat) /\ created \in Nat
  <1>1. e.to = to /\ e.msg = msg
    BY DEF Deliver
  <1>2. now' = e.time /\ e.time \in Nat
    BY KernelStep DEF RunwayInv
  <1>3. /\ toTimes' = toTimes /\ toAvailable' = toAvailable
        /\ numAirplanes' = numAirplanes /\ left' = left
    BY DEF takeOffVars, parkingVars
  <1>4. /\ skyTimes \in Seq(Nat) /\ toTimes \in Seq(Nat) /\ left \in Nat
        /\ seq \in Nat /\ par \in Settings /\ created \in Nat
    BY DEF RunwayInv, TypeOK
  <1>5. Len(skyTimes) \in Nat /\ Len(toTimes) \in Nat
    BY <1>4, QueueLengths
  <1> QED
    BY <1>1, <1>2, <1>3, <1>4, <1>5

\* Two events that are no airplanes leave the numbers as they are.
LEMMA TallyPutTwo ==
  ASSUME NEW F, NEW u, NEW p, NEW d, NEW g, NEW a, Tally(F, u, p, d, g, a),
         NEW x, NEW y, x \notin F, y \notin F, NoAirplane(x), NoAirplane(y)
  PROVE  Tally(F \cup {x, y}, u, p, d, g, a)
  <1>1. Tally(F \cup {x}, u, p, d, g, a)
    BY TallyPut
  <1>2. CASE x = y
    <2>1. F \cup {x, y} = F \cup {x}
      BY <1>2
    <2> QED
      BY <1>1, <2>1
  <1>3. CASE x # y
    <2>1. /\ F \cup {x, y} = (F \cup {x}) \cup {y}
          /\ y \notin F \cup {x}
      BY <1>3
    <2> QED
      BY <1>1, <2>1, TallyPut
  <1> QED
    BY <1>2, <1>3

\* An airplane arrives in Sky's queue.
LEMMA ArrivesMoves ==
  ASSUME RunwayInv, RunwayInv', MovesInv, NEW e \in fes, Arrives(e),
         UNCHANGED <<takeOffVars, parkingVars>>, NEW ins, Replace({e}, ins),
         \A x \in ins : Inserted(x) /\ NoAirplane(x),
         \/ ins = {}
         \/ \E x : ins = {x}
         \/ \E x, y : ins = {x, y},
         SkyNotIdle', KeptLandingOlder'
  PROVE  /\ MovesInv'
         /\ Parked' = Parked /\ Departing' = Departing /\ Departed' = Departed
         /\ Len(skyTimes') = Len(skyTimes) + 1 /\ Len(skyTimes') > 0
  <1>1. /\ Deliver(e, "sky", "arrival") /\ created' = created + 1
        /\ skyTimes' = Append(skyTimes, now')
    BY DEF Arrives
  <1>2. /\ e.to = "sky" /\ e.msg = "arrival" /\ now' = e.time /\ e.time \in Nat
        /\ toTimes' = toTimes
        /\ numAirplanes' = numAirplanes /\ left' = left
        /\ Len(skyTimes) \in Nat /\ Len(toTimes) \in Nat /\ left \in Nat
        /\ skyTimes \in Seq(Nat)
    BY <1>1, SkyKeeps
  <1>3. Len(skyTimes') = Len(skyTimes) + 1
    BY <1>1, <1>2, QueueLengths
  <1>4. TransfersInstant'
    <2>1. e \in {e} /\ \A y \in ins : y.msg = "Airplane" => y.time = e.time
      BY DEF NoAirplane
    <2> QED
      BY <1>1, <2>1, SentInstant
  <1>5. PICK u, p, d, g, a \in Nat :
          /\ Tally(fes, u, p, d, g, a)
          /\ numAirplanes = u
          /\ created = Len(skyTimes) + a + u + Len(toTimes) + left
          /\ Parked = u + p
          /\ Departing = Len(toTimes) + d
          /\ Departed = left + g
    BY Accounted
  <1>6. Tally(fes \ {e}, u, p, d, g, a)
    BY <1>2, <1>5, TallyTake DEF NoAirplane
  <1>7. /\ fes' = (fes \ {e}) \cup ins
        /\ \A x \in ins : x \notin fes \ {e}
    BY InsertedNew DEF Replace
  <1>8. Tally(fes', u, p, d, g, a)
    <2>1. CASE ins = {}
      BY <1>6, <1>7, <2>1
    <2>2. CASE \E x : ins = {x}
      BY <1>6, <1>7, <2>2, TallyPut
    <2>3. CASE \E x, y : ins = {x, y}
      <3>1. PICK x, y : ins = {x, y}
        BY <2>3
      <3>2. /\ x \notin fes \ {e} /\ y \notin fes \ {e}
            /\ NoAirplane(x) /\ NoAirplane(y) /\ fes' = (fes \ {e}) \cup {x, y}
        BY <1>7, <3>1
      <3> QED
        BY <1>6, <3>2, TallyPutTwo
    <2> QED
      BY <2>1, <2>2, <2>3
  <1>9. created + 1 = (Len(skyTimes) + 1) + a + u + Len(toTimes) + left
    BY <1>2, <1>5
  <1>10. created' = Len(skyTimes') + a + u + Len(toTimes') + left'
    BY <1>1, <1>2, <1>3, <1>9
  <1>11. /\ MovesInv'
         /\ Parked' = u + p
         /\ Departing' = Len(toTimes') + d
         /\ Departed' = left' + g
    <2>1. numAirplanes' = u
      BY <1>2, <1>5
    <2> QED
      BY <1>4, <1>8, <1>10, <2>1, AccountedNext
  <1>12. Len(skyTimes') > 0
    BY <1>2, <1>3
  <1> QED
    BY <1>2, <1>3, <1>5, <1>11, <1>12

\* The next arrival, if there is one, carries no airplane yet.
LEMMA NextArrivals ==
  ASSUME NEW delay \in Nat, NEW time \in Nat, now' = time, seq \in Nat
  PROVE  /\ \A x \in scheduleArrival(delay) : Inserted(x) /\ NoAirplane(x)
         /\ \/ scheduleArrival(delay) = {}
            \/ \E x : scheduleArrival(delay) = {x}
  <1> DEFINE x == Event("sky", "arrival", delay, 1)
  <1>1. Inserted(x) /\ NoAirplane(x)
    BY DEF Event, Events, Inserted, Gates, Names, NoAirplane
  <1>2. scheduleArrival(delay) = {} \/ scheduleArrival(delay) = {x}
    BY DEF scheduleArrival
  <1> HIDE DEF x
  <1> QED
    BY <1>1, <1>2

\* An arrival that lands at once.
LEMMA ArrivalLandsMoves ==
  ASSUME RunwayInv, RunwayInv', MovesInv, NEW e \in fes, ArrivalLands(e),
         UNCHANGED <<takeOffVars, parkingVars>>
  PROVE  MovesInv' /\ [Tower!PriorityNext]_(Tower!priorityVars)
  <1>1. /\ Arrives(e) /\ Deliver(e, "sky", "arrival")
        /\ skyTimes = <<>> /\ skyAvailable
        /\ usingRunway' = TRUE /\ nextLtime' = now'
        /\ skyAvailable' = skyAvailable
    BY DEF ArrivalLands, Arrives, LandsAtOnce, scheduleLanding
  <1>2. /\ now' = e.time /\ e.time \in Nat /\ seq \in Nat /\ par \in Settings
        /\ toAvailable' = toAvailable
    BY <1>1, SkyKeeps
  <1>4. PICK t \in Draw(par.tl), d \in Draw(par.lambda) :
          Replace({e}, {Landing(t, 0)} \cup scheduleArrival(d))
    BY DEF ArrivalLands
  <1> DEFINE x == Landing(t, 0)
             A == scheduleArrival(d)
  <1>5. t \in Nat /\ d \in Nat
    BY <1>2, DrawsAreNat
  <1>6. Inserted(x) /\ NoAirplane(x)
    BY <1>2, <1>5
       DEF Landing, Event, Events, Inserted, Gates, Names, NoAirplane
  <1>7. /\ \A y \in A : Inserted(y) /\ NoAirplane(y)
        /\ A = {} \/ \E y : A = {y}
    BY <1>2, <1>5, NextArrivals
  <1> DEFINE ins == {x} \cup A
  <1>8. Replace({e}, ins)
    BY <1>4
  <1> HIDE DEF x, A
  <1>9. /\ \A y \in ins : Inserted(y) /\ NoAirplane(y)
        /\ (\E y : ins = {y}) \/ (\E y, z : ins = {y, z})
    <2>1. CASE A = {}
      BY <1>6, <2>1
    <2>2. CASE \E y : A = {y}
      <3>1. PICK y : A = {y}
        BY <2>2
      <3>2. ins = {x, y}
        BY <3>1
      <3> QED
        BY <1>6, <1>7, <3>1, <3>2
    <2> QED
      BY <1>7, <2>1, <2>2
  <1> HIDE DEF ins
  <1>10. SkyNotIdle' /\ KeptLandingOlder'
    <2>1. SkyNotIdle'
      BY <1>1 DEF SkyNotIdle
    <2>2. nextLtime' <= now'
      BY <1>1, <1>2
    <2> QED
      BY <1>1, <2>1, <2>2 DEF KeptLandingOlder
  <1>11. /\ MovesInv'
         /\ Parked' = Parked /\ Departing' = Departing /\ Departed' = Departed
         /\ Len(skyTimes') = Len(skyTimes) + 1 /\ Len(skyTimes') > 0
    BY <1>1, <1>8, <1>9, <1>10, ArrivesMoves
  <1>12. now' >= now /\ (now' > now => Tower!Settled)
    BY <1>1, TimePasses
  <1>13. ~usingRunway /\ ~toAvailable
    BY <1>1 DEF RunwayInv, LandingQueued, RightGoesRound, WithSky, RequestKept,
       BeingGranted, WithTakeOff, BeingReturned
  <1>14. Operation = "none" /\ Operation' = "land"
    BY <1>1, <1>13, OperationKnown, OperationKnownNext
  <1>15. Tower!Arrive
    BY <1>1, <1>11, <1>14 DEF Tower!Arrive, Tower!Runway
  <1> QED
    BY <1>11, <1>12, <1>15 DEF Tower!PriorityNext

\* An arrival that has to wait.
LEMMA ArrivalWaitsMoves ==
  ASSUME RunwayInv, RunwayInv', MovesInv, NEW e \in fes, ArrivalWaits(e),
         UNCHANGED <<takeOffVars, parkingVars>>
  PROVE  MovesInv' /\ [Tower!PriorityNext]_(Tower!priorityVars)
  <1>1. /\ Arrives(e) /\ Deliver(e, "sky", "arrival")
        /\ ~(skyTimes = <<>> /\ skyAvailable)
        /\ usingRunway' = usingRunway /\ nextLtime' = nextLtime
        /\ skyAvailable' = skyAvailable
    BY DEF ArrivalWaits, Arrives, LandsAtOnce, NoLanding
  <1>2. /\ now' = e.time /\ e.time \in Nat /\ seq \in Nat /\ par \in Settings
        /\ toAvailable' = toAvailable
    BY <1>1, SkyKeeps
  <1>4. PICK d \in Draw(par.lambda) : Replace({e}, scheduleArrival(d))
    BY DEF ArrivalWaits
  <1>5. d \in Nat
    BY <1>2, DrawsAreNat
  <1> DEFINE ins == scheduleArrival(d)
  <1>6. /\ Replace({e}, ins)
        /\ \A y \in ins : Inserted(y) /\ NoAirplane(y)
        /\ ins = {} \/ \E y : ins = {y}
    BY <1>2, <1>4, <1>5, NextArrivals
  <1> HIDE DEF ins
  <1>7. SkyNotIdle'
    BY <1>1 DEF MovesInv, SkyNotIdle
  <1>8. KeptLandingOlder'
    BY <1>1, OlderKept
  <1>9. /\ MovesInv'
        /\ Parked' = Parked /\ Departing' = Departing /\ Departed' = Departed
        /\ Len(skyTimes') = Len(skyTimes) + 1
    BY <1>1, <1>6, <1>7, <1>8, ArrivesMoves
  <1>10. now' >= now /\ (now' > now => Tower!Settled)
    BY <1>1, TimePasses
  <1>11. Operation' = Operation
    BY <1>1, <1>2, OperationKnown, OperationKnownNext
  <1>12. Tower!Arrive
    BY <1>1, <1>9, <1>11 DEF Tower!Arrive, Tower!Runway
  <1> QED
    BY <1>9, <1>10, <1>12 DEF Tower!PriorityNext

\* An airplane has landed; the message it becomes goes to the parking.
LEMMA LandsMoves ==
  ASSUME RunwayInv, RunwayInv', MovesInv, NEW e \in fes, Lands(e),
         UNCHANGED <<takeOffVars, parkingVars>>, NEW ins, Replace({e}, ins),
         ins = {Landed} \/ \E y : ins = {Landed, y} /\ Inserted(y) /\ NoAirplane(y),
         SkyNotIdle', KeptLandingOlder'
  PROVE  /\ MovesInv'
         /\ Parked' = Parked + 1 /\ Departing' = Departing
         /\ Departed' = Departed
         /\ Len(skyTimes') = Len(skyTimes) - 1
         /\ (skyTimes' # <<>> => Len(skyTimes') > 0)
         /\ Operation = "land" /\ toAvailable' = FALSE
         /\ now' >= now /\ (now' > now => Tower!Settled)
  <1>1. /\ Deliver(e, "sky", "landing") /\ e.to = "sky" /\ e.msg = "landing"
        /\ usingRunway /\ created' = created /\ skyTimes' \in Seq(Nat)
        /\ Inserted(Landed) /\ Landed.to = "runway.sky"
        /\ Landed.msg = "Airplane"
    BY LandedFacts
  <1>2. /\ now' = e.time /\ e.time \in Nat
        /\ toTimes' = toTimes /\ toAvailable' = toAvailable
        /\ numAirplanes' = numAirplanes /\ left' = left
        /\ Len(skyTimes) \in Nat /\ Len(toTimes) \in Nat /\ left \in Nat
        /\ skyTimes \in Seq(Nat)
    BY <1>1, SkyKeeps
  <1>3. now' >= now /\ (now' > now => Tower!Settled)
    BY <1>1, TimePasses
  <1>4. Landed.time = e.time
    BY <1>2 DEF Landed, Event
  <1> DEFINE x == Landed
  <1>5. /\ x.to = "runway.sky" /\ x.msg = "Airplane" /\ x.time = e.time
        /\ Inserted(x)
        /\ ins = {x} \/ \E y : ins = {x, y} /\ Inserted(y) /\ NoAirplane(y)
    BY <1>1, <1>4
  <1> HIDE DEF x
  <1>6. TransfersInstant'
    <2>1. e \in {e} /\ \A z \in ins : z.msg = "Airplane" => z.time = e.time
      BY <1>5 DEF NoAirplane
    <2> QED
      BY <1>1, <2>1, SentInstant
  <1>7. PICK u, p, d, g, a \in Nat :
          /\ Tally(fes, u, p, d, g, a)
          /\ numAirplanes = u
          /\ created = Len(skyTimes) + a + u + Len(toTimes) + left
          /\ Parked = u + p
          /\ Departing = Len(toTimes) + d
          /\ Departed = left + g
    BY Accounted
  <1>8. Tally(fes \ {e}, u, p, d, g, a)
    BY <1>1, <1>7, TallyTake DEF NoAirplane
  <1> DEFINE k == p + 1
             b == a + 1
             K == (fes \ {e}) \cup {x}
  <1>9. Tally(K, u, k, d, g, b)
    <2>1. x \notin fes \ {e}
      BY <1>5, InsertedNew
    <2> QED
      BY <1>5, <1>8, <2>1, TallyPut DEF ToParking
  <1>10. Tally(fes', u, k, d, g, b)
    <2> HIDE DEF k, b
    <2>1. CASE ins = {x}
      BY <1>9, <2>1 DEF Replace
    <2>2. CASE \E y : ins = {x, y} /\ Inserted(y) /\ NoAirplane(y)
      <3>1. PICK y : ins = {x, y} /\ Inserted(y) /\ NoAirplane(y)
        BY <2>2
      <3>2. x # y /\ y \notin fes
        BY <1>5, <3>1, InsertedNew DEF NoAirplane
      <3>3. fes' = K \cup {y} /\ y \notin K
        BY <3>1, <3>2 DEF Replace
      <3> HIDE DEF K
      <3> QED
        BY <1>9, <3>1, <3>3, TallyPut
    <2> QED
      BY <1>5, <2>1, <2>2
  <1>11. Len(skyTimes') = Len(skyTimes) - 1
    BY <1>2, QueueLengths DEF Lands
  <1>12. created = (Len(skyTimes) - 1) + b + u + Len(toTimes) + left
    BY <1>2, <1>7
  <1> HIDE DEF k, b
  <1>13. created' = Len(skyTimes') + b + u + Len(toTimes') + left'
    BY <1>1, <1>2, <1>11, <1>12
  <1>14. /\ MovesInv'
         /\ Parked' = u + k
         /\ Departing' = Len(toTimes') + d
         /\ Departed' = left' + g
    <2>1. numAirplanes' = u
      BY <1>2, <1>7
    <2> QED
      BY <1>6, <1>10, <1>13, <2>1, AccountedNext
  <1>15. Parked' = Parked + 1
    BY <1>7, <1>14 DEF k
  <1>16. skyTimes' # <<>> => Len(skyTimes') > 0
    BY <1>1, QueueLengths
  <1>17. Operation = "land" /\ ~toAvailable
    BY <1>1, OperationKnown
  <1>18. toAvailable' = FALSE
    BY <1>2, <1>17 DEF RunwayInv, TypeOK
  <1>19. Departing' = Departing /\ Departed' = Departed
    BY <1>2, <1>7, <1>14
  <1> QED
    BY <1>3, <1>11, <1>14, <1>15, <1>16, <1>17, <1>18, <1>19

\* The landing a request waited for is over.
LEMMA LandingAnswersMoves ==
  ASSUME RunwayInv, RunwayInv', MovesInv, NEW e \in fes,
         LandingAnswersRequest(e), UNCHANGED <<takeOffVars, parkingVars>>
  PROVE  MovesInv' /\ [Tower!PriorityNext]_(Tower!priorityVars)
  <1> DEFINE y == Granted(1)
  <1>1. /\ Lands(e) /\ Deliver(e, "sky", "landing")
        /\ ~skyAvailable /\ skyAvailable' = skyAvailable
        /\ usingRunway' = FALSE /\ nextLtime' = nextLtime
        /\ Replace({e}, {Landed, y})
    BY DEF LandingAnswersRequest, Lands
  <1>2. now' = e.time /\ e.time \in Nat /\ seq \in Nat
    BY <1>1, SkyKeeps
  <1>3. Inserted(y) /\ NoAirplane(y)
    BY <1>2 DEF Granted, Event, Events, Inserted, Gates, Names, NoAirplane
  <1> HIDE DEF y
  <1>4. SkyNotIdle'
    BY <1>1 DEF SkyNotIdle
  <1>5. KeptLandingOlder'
    BY <1>1, OlderKept
  <1>6. /\ MovesInv'
        /\ Parked' = Parked + 1 /\ Departing' = Departing
        /\ Departed' = Departed
        /\ Len(skyTimes') = Len(skyTimes) - 1
        /\ Operation = "land" /\ toAvailable' = FALSE
        /\ now' >= now /\ (now' > now => Tower!Settled)
    BY <1>1, <1>3, <1>4, <1>5, LandsMoves
  <1>7. Operation' = "none"
    BY <1>1, <1>6, OperationKnownNext
  <1>8. Tower!Land
    BY <1>1, <1>6, <1>7 DEF Tower!Land, Tower!Runway
  <1> QED
    BY <1>6, <1>8 DEF Tower!PriorityNext

\* The next landing starts.
LEMMA LandingFollowedMoves ==
  ASSUME RunwayInv, RunwayInv', MovesInv, NEW e \in fes, LandingFollowed(e),
         UNCHANGED <<takeOffVars, parkingVars>>
  PROVE  MovesInv' /\ [Tower!PriorityNext]_(Tower!priorityVars)
  <1>1. /\ Lands(e) /\ Deliver(e, "sky", "landing")
        /\ skyAvailable /\ skyAvailable' = skyAvailable /\ skyTimes' # <<>>
        /\ usingRunway' = TRUE /\ nextLtime' = now'
    BY DEF LandingFollowed, Lands, scheduleLanding
  <1>2. now' = e.time /\ e.time \in Nat /\ seq \in Nat /\ par \in Settings
    BY <1>1, SkyKeeps
  <1>3. PICK t \in Draw(par.tl) : Replace({e}, {Landed, Landing(t, 1)})
    BY DEF LandingFollowed
  <1> DEFINE y == Landing(t, 1)
  <1>4. t \in Nat
    BY <1>2, DrawsAreNat
  <1>5. Inserted(y) /\ NoAirplane(y)
    BY <1>2, <1>4
       DEF Landing, Event, Events, Inserted, Gates, Names, NoAirplane
  <1>6. Replace({e}, {Landed, y})
    BY <1>3
  <1> HIDE DEF y
  <1>7. SkyNotIdle'
    BY <1>1 DEF SkyNotIdle
  <1>8. KeptLandingOlder'
    <2>1. nextLtime' <= now'
      BY <1>1, <1>2
    <2> QED
      BY <1>1, <2>1 DEF KeptLandingOlder
  <1>9. /\ MovesInv'
        /\ Parked' = Parked + 1 /\ Departing' = Departing
        /\ Departed' = Departed
        /\ Len(skyTimes') = Len(skyTimes) - 1 /\ Len(skyTimes') > 0
        /\ Operation = "land"
        /\ now' >= now /\ (now' > now => Tower!Settled)
    BY <1>1, <1>5, <1>6, <1>7, <1>8, LandsMoves
  <1>10. Operation' = "land"
    BY <1>1, OperationKnownNext
  <1>11. Tower!Land
    BY <1>1, <1>9, <1>10 DEF Tower!Land, Tower!Runway
  <1> QED
    BY <1>9, <1>11 DEF Tower!PriorityNext

\* Nobody waits for landing any more.
LEMMA LandingEndsMoves ==
  ASSUME RunwayInv, RunwayInv', MovesInv, NEW e \in fes, LandingEndsQueue(e),
         UNCHANGED <<takeOffVars, parkingVars>>
  PROVE  MovesInv' /\ [Tower!PriorityNext]_(Tower!priorityVars)
  <1>1. /\ Lands(e) /\ Deliver(e, "sky", "landing")
        /\ skyTimes' = <<>>
        /\ usingRunway' = FALSE /\ nextLtime' = nextLtime
        /\ Replace({e}, {Landed})
    BY DEF LandingEndsQueue, Lands
  <1>2. SkyNotIdle'
    BY <1>1 DEF SkyNotIdle
  <1>3. KeptLandingOlder'
    BY <1>1, OlderKept
  <1>4. /\ MovesInv'
        /\ Parked' = Parked + 1 /\ Departing' = Departing
        /\ Departed' = Departed
        /\ Len(skyTimes') = Len(skyTimes) - 1
        /\ Operation = "land" /\ toAvailable' = FALSE
        /\ now' >= now /\ (now' > now => Tower!Settled)
    BY <1>1, <1>2, <1>3, LandsMoves
  <1>5. Operation' = "none"
    BY <1>1, <1>4, OperationKnownNext
  <1>6. Tower!Land
    BY <1>1, <1>4, <1>5 DEF Tower!Land, Tower!Runway
  <1> QED
    BY <1>4, <1>6 DEF Tower!PriorityNext

\* A request: Sky grants it, calling off a landing that has just started, or
\* keeps it until the landing is over.
LEMMA StopMoves ==
  ASSUME RunwayInv, RunwayInv', MovesInv, NEW e \in fes,
         handleStopFromTakeoff(e), UNCHANGED <<takeOffVars, parkingVars>>
  PROVE  MovesInv' /\ [Tower!PriorityNext]_(Tower!priorityVars)
  <1> DEFINE y == Granted(0)
             gone == {e} \cup {f \in fes : JustScheduled /\ f.seq = nextL}
  <1>1. /\ Deliver(e, "sky.inTakeoff", "runwayRequest")
        /\ skyAvailable' = FALSE /\ usingRunway' = StillUsing
        /\ Replace(gone, IF StillUsing THEN {} ELSE {y})
        /\ nextLtime' = nextLtime /\ skyTimes' = skyTimes /\ created' = created
    BY DEF handleStopFromTakeoff
  <1>2. /\ e.to = "sky.inTakeoff" /\ e.msg = "runwayRequest"
        /\ now' = e.time /\ e.time \in Nat /\ seq \in Nat
        /\ toTimes' = toTimes /\ toAvailable' = toAvailable
        /\ numAirplanes' = numAirplanes /\ left' = left
        /\ Len(toTimes) \in Nat /\ toTimes \in Seq(Nat)
    BY <1>1, SkyKeeps
  <1>3. Inserted(y) /\ NoAirplane(y)
    BY <1>2 DEF Granted, Event, Events, Inserted, Gates, Names, NoAirplane
  <1>4. WithSky /\ Requests = {e}
    BY <1>1, RequestFindsSky
  <1>5. now' = now
    BY <1>1, <1>4, TimePasses
  <1>6. NoAirplane(e) /\ ~toAvailable /\ toTimes # <<>> /\ usingRunway \in BOOLEAN
    BY <1>2, <1>4 DEF NoAirplane, WithSky, RunwayInv, TypeOK
  <1>7. {f \in fes : f.seq = nextL} = Landings
    BY DEF RunwayInv, LandingKnown, Landings, At
  <1>8. gone = IF JustScheduled THEN {e} \cup Landings ELSE {e}
    BY <1>7
  <1>9. SkyNotIdle'
    BY <1>1 DEF SkyNotIdle
  <1>10. KeptLandingOlder'
    <2>1. now \in Nat /\ nextLtime \in Nat /\ nextLtime <= now
      BY DEF RunwayInv, TypeOK, MovesInv, KeptLandingOlder
    <2>2. usingRunway' => nextLtime # now'
      BY <1>1 DEF StillUsing, JustScheduled
    <2> QED
      BY <1>1, <1>5, <2>1, <2>2 DEF KeptLandingOlder
  <1>11. /\ Operation = IF usingRunway THEN "land" ELSE "none"
         /\ Operation' = IF usingRunway' THEN "land" ELSE "none"
    BY <1>2, <1>6, OperationKnown, OperationKnownNext
  <1> HIDE DEF y, gone
  <1>12. CASE StillUsing
    <2>1. ~JustScheduled /\ usingRunway /\ usingRunway'
      BY <1>1, <1>12 DEF StillUsing
    <2>2. Replace({e}, {})
      BY <1>1, <1>8, <1>12, <2>1
    <2>3. /\ MovesInv'
          /\ Parked' = Parked /\ Departing' = Departing /\ Departed' = Departed
      BY <1>1, <1>2, <1>6, <1>9, <1>10, <2>2, NothingMoves
    <2>4. Operation' = Operation
      BY <1>11, <2>1
    <2>5. UNCHANGED Tower!priorityVars
      BY <1>1, <1>5, <2>3, <2>4 DEF Tower!priorityVars
    <2> QED
      BY <2>3, <2>5
  <1>13. CASE ~StillUsing /\ ~usingRunway
    <2>1. Landings = {}
      BY <1>13 DEF RunwayInv, LandingQueued
    <2>2. Replace({e}, {y})
      BY <1>1, <1>8, <1>13, <2>1
    <2>3. /\ MovesInv'
          /\ Parked' = Parked /\ Departing' = Departing /\ Departed' = Departed
      BY <1>1, <1>2, <1>3, <1>6, <1>9, <1>10, <2>2, NothingMoves
    <2>4. Operation' = Operation
      BY <1>1, <1>11, <1>13
    <2>5. UNCHANGED Tower!priorityVars
      BY <1>1, <1>5, <2>3, <2>4 DEF Tower!priorityVars
    <2> QED
      BY <2>3, <2>5
  <1>14. CASE ~StillUsing /\ usingRunway
    <2>1. JustScheduled /\ nextLtime = now'
      BY <1>14 DEF StillUsing, JustScheduled
    <2>2. PICK l : Landings = {l}
      <3>1. Landings # {} /\ Unique(Landings)
        BY <1>14 DEF RunwayInv, LandingQueued, AllUnique
      <3>2. PICK l : l \in Landings
        BY <3>1
      <3>3. Landings = {l}
        BY <3>1, <3>2 DEF Unique
      <3> QED
        BY <3>3
    <2>3. l \in fes /\ l.msg = "landing" /\ l # e
      BY <1>2, <2>2 DEF Landings, At
    <2>4. NoAirplane(l)
      BY <2>3 DEF NoAirplane
    <2>5. gone = {e, l}
      BY <1>8, <2>1, <2>2
    <2>6. /\ fes' = ((fes \ {e}) \ {l}) \cup {y}
          /\ y \notin (fes \ {e}) \ {l} /\ l \in fes \ {e}
      BY <1>1, <1>3, <1>14, <2>3, <2>5, InsertedNew DEF Replace
    <2>7. TransfersInstant'
      <3>1. /\ e \in gone /\ Replace(gone, {y})
            /\ \A z \in {y} : z.msg = "Airplane" => z.time = e.time
        BY <1>1, <1>3, <1>14, <2>5 DEF NoAirplane
      <3> QED
        BY <1>1, <3>1, SentInstant
    <2>8. PICK u, p, d, g, a \in Nat :
            /\ Tally(fes, u, p, d, g, a)
            /\ numAirplanes = u
            /\ created = Len(skyTimes) + a + u + Len(toTimes) + left
            /\ Parked = u + p
            /\ Departing = Len(toTimes) + d
            /\ Departed = left + g
      BY Accounted
    <2>9. Tally(fes', u, p, d, g, a)
      <3>1. Tally(fes \ {e}, u, p, d, g, a)
        BY <1>6, <2>8, TallyTake
      <3>2. Tally((fes \ {e}) \ {l}, u, p, d, g, a)
        BY <2>4, <2>6, <3>1, TallyTake
      <3> QED
        BY <1>3, <2>6, <3>2, TallyPut
    <2>10. /\ numAirplanes' = u
           /\ created' = Len(skyTimes') + a + u + Len(toTimes') + left'
      BY <1>1, <1>2, <2>8
    <2>11. /\ MovesInv'
           /\ Parked' = u + p
           /\ Departing' = Len(toTimes') + d
           /\ Departed' = left' + g
      BY <1>9, <1>10, <2>7, <2>9, <2>10, AccountedNext
    <2>12. Parked' = Parked /\ Departing' = Departing /\ Departed' = Departed
      BY <1>2, <2>8, <2>11
    <2>13. Departing > 0
      <3>1. Len(toTimes) > 0
        BY <1>2, <1>6, QueueLengths
      <3> QED
        BY <1>2, <2>8, <3>1
    <2>14. Operation = "land" /\ Operation' = "none"
      BY <1>1, <1>11, <1>14
    <2>15. Tower!CallOff
      BY <1>1, <2>1, <2>12, <2>13, <2>14 DEF Tower!CallOff
    <2>16. now' >= now /\ (now' > now => Tower!Settled)
      BY <1>1, TimePasses
    <2> QED
      BY <2>11, <2>15, <2>16 DEF Tower!PriorityNext
  <1> QED
    BY <1>12, <1>13, <1>14

\* The runway comes back while airplanes wait for landing,
LEMMA ReturnedAndLandingMoves ==
  ASSUME RunwayInv, RunwayInv', MovesInv, NEW e \in fes, ReturnedAndLanding(e),
         UNCHANGED <<takeOffVars, parkingVars>>
  PROVE  MovesInv' /\ [Tower!PriorityNext]_(Tower!priorityVars)
  <1>1. /\ Returned(e) /\ Deliver(e, "sky.inTakeoff", "runwayAvailable")
        /\ skyTimes # <<>> /\ skyAvailable' = TRUE
        /\ usingRunway' = TRUE /\ nextLtime' = now'
        /\ skyTimes' = skyTimes /\ created' = created
    BY DEF ReturnedAndLanding, Returned, scheduleLanding
  <1>2. /\ e.to = "sky.inTakeoff" /\ e.msg = "runwayAvailable"
        /\ now' = e.time /\ e.time \in Nat /\ seq \in Nat /\ par \in Settings
        /\ toTimes' = toTimes
        /\ numAirplanes' = numAirplanes /\ left' = left
        /\ Len(skyTimes) \in Nat /\ skyTimes \in Seq(Nat)
    BY <1>1, SkyKeeps
  <1>3. PICK t \in Draw(par.tl) : Replace({e}, {Landing(t, 0)})
    BY DEF ReturnedAndLanding
  <1> DEFINE y == Landing(t, 0)
  <1>4. t \in Nat
    BY <1>2, DrawsAreNat
  <1>5. Inserted(y) /\ NoAirplane(y)
    BY <1>2, <1>4
       DEF Landing, Event, Events, Inserted, Gates, Names, NoAirplane
  <1>6. Replace({e}, {y})
    BY <1>3
  <1> HIDE DEF y
  <1>7. NoAirplane(e)
    BY <1>2 DEF NoAirplane
  <1>8. SkyNotIdle'
    BY <1>1 DEF SkyNotIdle
  <1>9. KeptLandingOlder'
    <2>1. nextLtime' <= now'
      BY <1>1, <1>2
    <2> QED
      BY <1>1, <2>1 DEF KeptLandingOlder
  <1>10. /\ MovesInv'
         /\ Parked' = Parked /\ Departing' = Departing /\ Departed' = Departed
    BY <1>1, <1>2, <1>5, <1>6, <1>7, <1>8, <1>9, NothingMoves
  <1>11. ~usingRunway /\ ~toAvailable
    BY <1>1, ReturnedFacts DEF BeingReturned
  <1>12. Operation = "none" /\ Operation' = "land"
    BY <1>1, <1>11, OperationKnown, OperationKnownNext
  <1>13. Len(skyTimes) > 0
    BY <1>1, <1>2, QueueLengths
  <1>14. Tower!StartLanding
    BY <1>1, <1>10, <1>12, <1>13 DEF Tower!StartLanding
  <1>15. now' >= now /\ (now' > now => Tower!Settled)
    BY <1>1, TimePasses
  <1> QED
    BY <1>10, <1>14, <1>15 DEF Tower!PriorityNext

\* or while nobody does.
LEMMA ReturnedIdleMoves ==
  ASSUME RunwayInv, RunwayInv', MovesInv, NEW e \in fes, ReturnedIdle(e),
         UNCHANGED <<takeOffVars, parkingVars>>
  PROVE  MovesInv' /\ [Tower!PriorityNext]_(Tower!priorityVars)
  <1>1. /\ Returned(e) /\ Deliver(e, "sky.inTakeoff", "runwayAvailable")
        /\ skyTimes = <<>> /\ skyAvailable' = TRUE
        /\ usingRunway' = usingRunway /\ nextLtime' = nextLtime
        /\ skyTimes' = skyTimes /\ created' = created
        /\ Replace({e}, {})
    BY DEF ReturnedIdle, Returned, NoLanding
  <1>2. /\ e.to = "sky.inTakeoff" /\ e.msg = "runwayAvailable"
        /\ toTimes' = toTimes /\ toAvailable' = toAvailable
        /\ numAirplanes' = numAirplanes /\ left' = left
    BY <1>1, SkyKeeps
  <1>3. NoAirplane(e)
    BY <1>2 DEF NoAirplane
  <1>4. SkyNotIdle'
    BY <1>1 DEF SkyNotIdle
  <1>5. KeptLandingOlder'
    BY <1>1, OlderKept
  <1>6. /\ MovesInv'
        /\ Parked' = Parked /\ Departing' = Departing /\ Departed' = Departed
    BY <1>1, <1>2, <1>3, <1>4, <1>5, NothingMoves
  <1>7. Operation' = Operation
    BY <1>1, <1>2, OperationKnown, OperationKnownNext
  <1>8. now' = now
    <2>1. e \in Returns
      BY <1>2 DEF Returns, At
    <2> QED
      BY <1>1, <2>1, TimePasses
  <1>9. UNCHANGED Tower!priorityVars
    BY <1>1, <1>6, <1>7, <1>8 DEF Tower!priorityVars
  <1> QED
    BY <1>6, <1>9

(***************************************************************************)
(* The initial state, all steps, and the theorems.                         *)
(***************************************************************************)
LEMMA InitMoves == Init => MovesInv /\ Tower!PriorityInit
  <1> SUFFICES ASSUME Init PROVE MovesInv /\ Tower!PriorityInit
    OBVIOUS
  <1>1. /\ now = 0 /\ usingRunway = FALSE /\ skyAvailable = TRUE
        /\ nextLtime = 0 /\ skyTimes = <<>> /\ created = 0
        /\ toTimes = <<>> /\ numAirplanes = 0 /\ left = 0
    BY DEF Init, InitSky, InitTakeOff, InitParking
  <1>2. PICK x : fes = {x} /\ x.to = "sky" /\ x.msg = "arrival"
    <2>1. PICK d \in Draw(par.lambda) :
            fes = {[time |-> d, seq |-> 1, to |-> "sky", msg |-> "arrival"]}
      BY DEF Init
    <2> DEFINE y == [time |-> d, seq |-> 1, to |-> "sky", msg |-> "arrival"]
    <2>2. fes = {y} /\ y.to = "sky" /\ y.msg = "arrival"
      BY <2>1
    <2> HIDE DEF y
    <2> QED
      BY <2>2
  <1>3. /\ At("parking", "unnamed") = {} /\ At("runway.sky", "Airplane") = {}
        /\ At("parking.park", "Airplane") = {}
        /\ At("takeOff.park", "Airplane") = {}
        /\ At("runway.takeOff", "Airplane") = {} /\ TakeOffs = {}
        /\ {e \in fes : e.msg = "Airplane"} = {}
    BY <1>2 DEF At, TakeOffs
  <1>4. Cardinality({}) = 0 /\ Len(skyTimes) = 0 /\ Len(toTimes) = 0
    BY <1>1, FS_EmptySet
  <1>5. AirplanesConserved
    <2>1. /\ Cardinality(At("parking", "unnamed")) = 0
          /\ Cardinality({e \in fes : e.msg = "Airplane"}) = 0
      BY <1>3, <1>4
    <2>2. 0 = Len(skyTimes) + 0 + 0 + Len(toTimes) + 0
      BY <1>4
    <2> QED
      BY <1>1, <2>1, <2>2 DEF AirplanesConserved
  <1>6. IsFiniteSet(fes)
    BY <1>2, FS_Singleton
  <1>7. TransfersInstant /\ SkyNotIdle /\ KeptLandingOlder
    BY <1>1, <1>2 DEF TransfersInstant, SkyNotIdle, KeptLandingOlder
  <1>8. Parked = 0 /\ Departing = 0 /\ Departed = 0 /\ Operation = "none"
    <2>1. At("runway.sky", "Airplane") \cup At("parking.park", "Airplane") = {}
      BY <1>3
    <2>2. Parked = 0 + 0
      BY <1>1, <1>4, <2>1 DEF Parked
    <2>3. Departing = 0 + 0
      BY <1>3, <1>4 DEF Departing
    <2>4. Departed = 0 + 0
      BY <1>1, <1>3, <1>4 DEF Departed
    <2>5. Operation = "none"
      BY <1>1, <1>3 DEF Operation
    <2> QED
      BY <2>2, <2>3, <2>4, <2>5
  <1> QED
    BY <1>1, <1>4, <1>5, <1>6, <1>7, <1>8 DEF MovesInv, Tower!PriorityInit

\* A stuttering step keeps all.
LEMMA StutterMoves ==
  ASSUME MovesInv, UNCHANGED vars
  PROVE  MovesInv' /\ UNCHANGED Tower!priorityVars
  <1>1. /\ fes' = fes /\ now' = now
        /\ usingRunway' = usingRunway /\ skyAvailable' = skyAvailable
        /\ nextLtime' = nextLtime /\ skyTimes' = skyTimes /\ created' = created
        /\ toTimes' = toTimes /\ numAirplanes' = numAirplanes /\ left' = left
    BY DEF vars, kernelVars, skyVars, takeOffVars, parkingVars
  <1>2. \A to, msg : At(to, msg)' = At(to, msg)
    BY <1>1 DEF At
  <1>3. AirplanesConserved'
    BY <1>1, <1>2 DEF MovesInv, AirplanesConserved
  <1>4. TransfersInstant' /\ SkyNotIdle' /\ KeptLandingOlder'
    BY <1>1 DEF MovesInv, TransfersInstant, SkyNotIdle, KeptLandingOlder
  <1>5. /\ Parked' = Parked /\ Departing' = Departing /\ Departed' = Departed
        /\ Operation' = Operation
    BY <1>1, <1>2 DEF Parked, Departing, Departed, Operation, TakeOffs
  <1> QED
    BY <1>1, <1>3, <1>4, <1>5 DEF MovesInv, Tower!priorityVars

\* Every step keeps MovesInv and is one of PriorityRunway, or a stutter.
LEMMA NextMoves ==
  ASSUME RunwayInv, RunwayInv', MovesInv, [Next]_vars
  PROVE  MovesInv' /\ [Tower!PriorityNext]_(Tower!priorityVars)
  <1>1. CASE UNCHANGED vars
    BY <1>1, StutterMoves
  <1>2. CASE Next
    <2>1. PICK e \in fes :
            \/ SkyStep(e) /\ UNCHANGED <<takeOffVars, parkingVars>>
            \/ TakeOffStep(e) /\ UNCHANGED <<skyVars, parkingVars>>
            \/ ParkingStep(e) /\ UNCHANGED <<skyVars, takeOffVars>>
      BY <1>2 DEF Next
    <2>2. CASE SkyStep(e) /\ UNCHANGED <<takeOffVars, parkingVars>>
      BY <2>2, ArrivalLandsMoves, ArrivalWaitsMoves, LandingAnswersMoves,
         LandingFollowedMoves, LandingEndsMoves, StopMoves,
         ReturnedAndLandingMoves, ReturnedIdleMoves DEF SkyStep
    <2>3. CASE TakeOffStep(e) /\ UNCHANGED <<skyVars, parkingVars>>
      BY <2>3, FromParkingMoves, OkFromSkyMoves, TakeOffFollowedMoves,
         TakeOffEndsMoves DEF TakeOffStep
    <2>4. CASE ParkingStep(e) /\ UNCHANGED <<skyVars, takeOffVars>>
      BY <2>4, ParkingEnteredMoves, ParkingExpiredMoves, RunwayFromSkyMoves,
         RunwayFromTakeOffMoves DEF ParkingStep
    <2> QED
      BY <2>1, <2>2, <2>3, <2>4
  <1> QED
    BY <1>1, <1>2

\* The invariant of the airplanes' moves, from that of the runway.
THEOREM MovesInvariant == Spec => []MovesInv
  <1>1. Init => MovesInv
    BY InitMoves
  <1>2. RunwayInv /\ RunwayInv' /\ MovesInv /\ [Next]_vars => MovesInv'
    BY NextMoves
  <1> QED
    BY <1>1, <1>2, RunwayInvariant, PTL DEF Spec

\* Airplanes are neither lost nor duplicated between the four modules, and
\* numAirplanes counts the parking times running.
THEOREM NoAirplaneLost == Spec => []AirplanesConserved
  <1>1. MovesInv => AirplanesConserved
    BY DEF MovesInv
  <1> QED
    BY <1>1, MovesInvariant, PTL

\* The four modules and their messages behave as one runway on which
\* take-offs have priority, with every decision taken before time passes.
THEOREM PriorityImplemented == Spec => ImplementsPriority
  <1>1. Init => Tower!PriorityInit
    BY InitMoves
  <1>2. RunwayInv /\ RunwayInv' /\ MovesInv /\ [Next]_vars
          => [Tower!PriorityNext]_(Tower!priorityVars)
    BY NextMoves
  <1> QED
    BY <1>1, <1>2, RunwayInvariant, MovesInvariant, PTL
       DEF Spec, ImplementsPriority, Tower!PrioritySpec

(***************************************************************************)
(* Take-offs in time.  First, what keeps the airplanes on their way to     *)
(* TakeOff a landing time apart.                                           *)
(***************************************************************************)

\* The durations are natural numbers,
LEMMA Durations ==
  ASSUME TypeOK
  PROVE  par.tl \in Nat /\ par.tp \in Nat /\ par.to \in Nat
  BY SettingsAssumption DEF TypeOK

\* and an airplane on its way is ready no sooner than its next event.
LEMMA ReadyTypes ==
  ASSUME TypeOK, NEW F, F \subseteq Events
  PROVE  \A e \in OnTheWay(F) :
           e \in F /\ e.time \in Nat /\ ReadyAt(e) \in Nat /\ e.time <= ReadyAt(e)
  BY Durations DEF OnTheWay, ReadyAt, Events

\* Fewer airplanes on their way, or time passing, change nothing,
LEMMA SpacedFewer ==
  ASSUME TypeOK, NEW F, F \subseteq Events, NEW Q \in Seq(Nat), NEW t \in Nat,
         Spaced(F, Q, t), NEW G, OnTheWay(G) \subseteq OnTheWay(F),
         NEW u \in Nat, t <= u
  PROVE  Spaced(G, Q, u)
  <1>1. par.tl \in Nat /\ par.tp \in Nat
    BY Durations
  <1>2. \A e \in OnTheWay(F) : ReadyAt(e) \in Nat
    BY ReadyTypes
  <1>3. \A i \in 1..Len(Q) : Q[i] \in Nat
    OBVIOUS
  <1>4. ASSUME NEW e \in OnTheWay(G), e.to # "sky"
        PROVE  ReadyAt(e) <= u + par.tp
    <2>1. ReadyAt(e) <= t + par.tp
      BY <1>4 DEF Spaced
    <2> QED
      BY <1>1, <1>2, <2>1
  <1>5. ASSUME NEW i \in 1..Len(Q) PROVE Q[i] <= u
    <2>1. Q[i] <= t
      BY DEF Spaced
    <2> QED
      BY <1>3, <2>1
  <1> QED
    BY <1>4, <1>5 DEF Spaced

\* nor does a departure.
LEMMA SpacedTail ==
  ASSUME NEW F, NEW Q \in Seq(Nat), NEW t \in Nat, Q # << >>, Spaced(F, Q, t)
  PROVE  Spaced(F, Tail(Q), t)
  <1> DEFINE T == Tail(Q)
  <1>1. /\ Len(Q) \in Nat /\ Len(T) = Len(Q) - 1
        /\ \A i \in 1..Len(T) : T[i] = Q[i + 1] /\ i + 1 \in 1..Len(Q)
    OBVIOUS
  <1> HIDE DEF T
  <1>2. \A e \in OnTheWay(F), i \in 1..Len(T) : T[i] + par.tl <= ReadyAt(e)
    BY <1>1 DEF Spaced
  <1>3. \A i, j \in 1..Len(T) : i < j => T[i] + par.tl <= T[j]
    <2> SUFFICES ASSUME NEW i \in 1..Len(T), NEW j \in 1..Len(T), i < j
                 PROVE  T[i] + par.tl <= T[j]
      OBVIOUS
    <2>1. i + 1 \in 1..Len(Q) /\ j + 1 \in 1..Len(Q) /\ i + 1 < j + 1
      BY <1>1
    <2>2. Q[i + 1] + par.tl <= Q[j + 1]
      BY <2>1 DEF Spaced
    <2> QED
      BY <1>1, <2>2
  <1>4. \A i \in 1..Len(T) : T[i] <= t
    BY <1>1 DEF Spaced
  <1> QED
    BY <1>2, <1>3, <1>4 DEF Spaced, T

\* An airplane passed on within the instant or parked keeps its place,
LEMMA SpacedMove ==
  ASSUME NEW F, NEW Q \in Seq(Nat), NEW t \in Nat, Spaced(F, Q, t),
         NEW e \in OnTheWay(F), NEW x, ReadyAt(x) = ReadyAt(e),
         ReadyAt(x) <= t + par.tp,
         NEW G, OnTheWay(G) \subseteq (OnTheWay(F) \ {e}) \cup {x}
  PROVE  Spaced(G, Q, t)
  <1>1. ASSUME NEW a \in OnTheWay(G), NEW b \in OnTheWay(G), a # b
        PROVE  \/ ReadyAt(a) + par.tl <= ReadyAt(b)
               \/ ReadyAt(b) + par.tl <= ReadyAt(a)
    <2>1. CASE a = x
      <3>1. b \in OnTheWay(F) /\ b # e
        BY <1>1, <2>1
      <3> QED
        BY <2>1, <3>1 DEF Spaced
    <2>2. CASE b = x
      <3>1. a \in OnTheWay(F) /\ a # e
        BY <1>1, <2>2
      <3> QED
        BY <2>2, <3>1 DEF Spaced
    <2>3. CASE a # x /\ b # x
      <3>1. a \in OnTheWay(F) /\ b \in OnTheWay(F)
        BY <2>3
      <3> QED
        BY <1>1, <3>1 DEF Spaced
    <2> QED
      BY <2>1, <2>2, <2>3
  <1>2. \A a \in OnTheWay(G), i \in 1..Len(Q) : Q[i] + par.tl <= ReadyAt(a)
    BY DEF Spaced
  <1>3. \A a \in OnTheWay(G) : a.to # "sky" => ReadyAt(a) <= t + par.tp
    BY DEF Spaced
  <1> QED
    BY <1>1, <1>2, <1>3 DEF Spaced

\* (the arithmetic of the next lemma)
LEMMA LaterByLanding ==
  ASSUME NEW r \in Nat, NEW t \in Nat, NEW l \in Nat, NEW p \in Nat
  PROVE  /\ r <= t + p => r + l <= t + l + p
         /\ r <= t => r + l <= t + l + p
  OBVIOUS

\* an airplane that begins to land comes a landing time after the others,
LEMMA SpacedLand ==
  ASSUME TypeOK, NEW F, F \subseteq Events, NEW Q \in Seq(Nat), NEW t \in Nat,
         Spaced(F, Q, t), \A f \in OnTheWay(F) : f.to # "sky",
         NEW x, x.to = "sky", x.time = t + par.tl,
         NEW G, OnTheWay(G) \subseteq OnTheWay(F) \cup {x}
  PROVE  Spaced(G, Q, t)
  <1>1. par.tl \in Nat /\ par.tp \in Nat
    BY Durations
  <1>2. \A e \in OnTheWay(F) : ReadyAt(e) \in Nat
    BY ReadyTypes
  <1>3. \A i \in 1..Len(Q) : Q[i] \in Nat /\ Q[i] <= t
    BY DEF Spaced
  <1>4. ReadyAt(x) = t + par.tl + par.tp /\ ReadyAt(x) \in Nat
    BY <1>1 DEF ReadyAt
  <1>5. \A e \in OnTheWay(F) : ReadyAt(e) + par.tl <= ReadyAt(x)
    <2> SUFFICES ASSUME NEW e \in OnTheWay(F)
                 PROVE  ReadyAt(e) + par.tl <= ReadyAt(x)
      OBVIOUS
    <2>1. ReadyAt(e) <= t + par.tp
      BY DEF Spaced
    <2> QED
      BY <1>1, <1>2, <1>4, <2>1, LaterByLanding
  <1>6. \A i \in 1..Len(Q) : Q[i] + par.tl <= ReadyAt(x)
    <2> SUFFICES ASSUME NEW i \in 1..Len(Q)
                 PROVE  Q[i] + par.tl <= ReadyAt(x)
      OBVIOUS
    <2> QED
      BY <1>1, <1>3, <1>4, LaterByLanding
  <1>7. \A a \in OnTheWay(G) : a \in OnTheWay(F) \/ a = x
    OBVIOUS
  <1>8. ASSUME NEW a \in OnTheWay(G), NEW b \in OnTheWay(G), a # b
        PROVE  \/ ReadyAt(a) + par.tl <= ReadyAt(b)
               \/ ReadyAt(b) + par.tl <= ReadyAt(a)
    BY <1>5, <1>7, <1>8 DEF Spaced
  <1>9. \A a \in OnTheWay(G), i \in 1..Len(Q) : Q[i] + par.tl <= ReadyAt(a)
    BY <1>6, <1>7 DEF Spaced
  <1>10. \A a \in OnTheWay(G) : a.to # "sky" => ReadyAt(a) <= t + par.tp
    BY <1>7 DEF Spaced
  <1> QED
    BY <1>8, <1>9, <1>10 DEF Spaced

\* and one that joins TakeOff's queue joined it a landing time after the
\* last one and before the next.
LEMMA SpacedQueue ==
  ASSUME TypeOK, NEW F, F \subseteq Events, NEW Q \in Seq(Nat), NEW t \in Nat,
         Spaced(F, Q, t), \A f \in F : t <= f.time,
         NEW e \in OnTheWay(F), ReadyAt(e) = t,
         NEW G, OnTheWay(G) \subseteq OnTheWay(F) \ {e}
  PROVE  Spaced(G, Append(Q, t), t)
  <1> DEFINE R == Append(Q, t)
  <1>1. par.tl \in Nat /\ par.tp \in Nat
    BY Durations
  <1>2. \A f \in OnTheWay(F) : ReadyAt(f) \in Nat /\ t <= ReadyAt(f)
    <2> SUFFICES ASSUME NEW f \in OnTheWay(F)
                 PROVE  ReadyAt(f) \in Nat /\ t <= ReadyAt(f)
      OBVIOUS
    <2>1. f \in F /\ f.time \in Nat /\ ReadyAt(f) \in Nat /\ f.time <= ReadyAt(f)
      BY ReadyTypes
    <2>2. t <= f.time
      BY <2>1
    <2> QED
      BY <2>1, <2>2
  <1>3. /\ Len(Q) \in Nat /\ Len(R) = Len(Q) + 1
        /\ \A i \in 1..Len(Q) : R[i] = Q[i] /\ Q[i] \in Nat
        /\ R[Len(Q) + 1] = t
    OBVIOUS
  <1> HIDE DEF R
  <1>4. \A f \in OnTheWay(G) : t + par.tl <= ReadyAt(f)
    <2> SUFFICES ASSUME NEW f \in OnTheWay(G) PROVE t + par.tl <= ReadyAt(f)
      OBVIOUS
    <2>1. f \in OnTheWay(F) /\ f # e
      OBVIOUS
    <2>2. t + par.tl <= ReadyAt(f) \/ ReadyAt(f) + par.tl <= t
      BY <2>1 DEF Spaced
    <2> QED
      BY <1>1, <1>2, <2>1, <2>2
  <1>5. \A i \in 1..Len(R) : i \in 1..Len(Q) \/ i = Len(Q) + 1
    BY <1>3
  <1>6. ASSUME NEW f \in OnTheWay(G), NEW i \in 1..Len(R)
        PROVE  R[i] + par.tl <= ReadyAt(f)
    <2>1. f \in OnTheWay(F)
      OBVIOUS
    <2>2. CASE i \in 1..Len(Q)
      BY <1>3, <2>1, <2>2 DEF Spaced
    <2>3. CASE i = Len(Q) + 1
      BY <1>3, <1>4, <2>3
    <2> QED
      BY <1>5, <2>2, <2>3
  <1>7. ASSUME NEW i \in 1..Len(R), NEW j \in 1..Len(R), i < j
        PROVE  R[i] + par.tl <= R[j]
    <2>1. i \in 1..Len(Q)
      BY <1>3, <1>7
    <2>2. CASE j \in 1..Len(Q)
      BY <1>3, <1>7, <2>1, <2>2 DEF Spaced
    <2>3. CASE j = Len(Q) + 1
      <3>1. Q[i] + par.tl <= ReadyAt(e)
        BY <2>1 DEF Spaced
      <3> QED
        BY <1>3, <2>1, <2>3, <3>1
    <2> QED
      BY <1>5, <2>2, <2>3
  <1>8. \A i \in 1..Len(R) : R[i] <= t
    BY <1>3, <1>5 DEF Spaced
  <1>9. \A f \in OnTheWay(G) : f.to # "sky" => ReadyAt(f) <= t + par.tp
    BY DEF Spaced
  <1>10. ASSUME NEW a \in OnTheWay(G), NEW b \in OnTheWay(G), a # b
         PROVE  \/ ReadyAt(a) + par.tl <= ReadyAt(b)
                \/ ReadyAt(b) + par.tl <= ReadyAt(a)
    BY <1>10 DEF Spaced
  <1> QED
    BY <1>6, <1>7, <1>8, <1>9, <1>10 DEF Spaced, R

(***************************************************************************)
(* Then the handlers, one lemma each.                                      *)
(***************************************************************************)
PunctualState ==
  RunwayInv /\ TakeoffsShorter /\ Spaced(fes, toTimes, now) /\ FirstServed

\* With constant times a handler obtains the configured value; time passes,
\* and the airplanes stay spaced.
LEMMA PunctualKernel ==
  ASSUME PunctualState, NEW e \in fes, NEW to, NEW msg, Deliver(e, to, msg)
  PROVE  /\ TypeOK /\ fes \subseteq Events /\ toTimes \in Seq(Nat)
         /\ par' = par /\ e.time \in Nat /\ now \in Nat /\ now' = e.time
         /\ now <= now' /\ now' \in Nat
         /\ \A f \in fes : f.time \in Nat /\ now' <= f.time
         /\ Draw(par.tl) = {par.tl} /\ Draw(par.tp) = {par.tp}
         /\ Draw(par.to) = {par.to} /\ par.to <= par.tl
         /\ Spaced(fes, toTimes, now')
  <1>1. /\ TypeOK /\ fes \subseteq Events /\ toTimes \in Seq(Nat) /\ now \in Nat
    BY DEF PunctualState, RunwayInv, TypeOK
  <1>2. /\ e.time \in Nat /\ now' = e.time /\ now <= e.time
        /\ \A f \in fes \ {e} : e.time <= f.time
    BY KernelStep DEF PunctualState, RunwayInv
  <1>3. \A f \in fes : f.time \in Nat /\ now' <= f.time
    BY <1>1, <1>2 DEF Events
  <1>4. /\ Draw(par.tl) = {par.tl} /\ Draw(par.tp) = {par.tp}
        /\ Draw(par.to) = {par.to} /\ par.to <= par.tl
    BY DEF Draw, PunctualState, TakeoffsShorter
  <1>5. par' = par
    BY DEF Deliver
  <1>6. Spaced(fes, toTimes, now')
    <2>1. now' \in Nat /\ now <= now'
      BY <1>2
    <2> QED
      BY <1>1, <2>1, SpacedFewer DEF PunctualState
  <1> QED
    BY <1>1, <1>2, <1>3, <1>4, <1>5, <1>6

\* What a handler leaves at the gates that matter here.
LEMMA AfterReplace ==
  ASSUME NEW gone, NEW ins, Replace(gone, ins)
  PROVE  /\ \A x \in Landings' : \/ x \in Landings /\ x \notin gone
                                 \/ x \in ins /\ x.to = "sky" /\ x.msg = "landing"
         /\ \A x \in Requests' :
              \/ x \in Requests /\ x \notin gone
              \/ x \in ins /\ x.to = "sky.inTakeoff" /\ x.msg = "runwayRequest"
         /\ \A x \in Grants' :
              \/ x \in Grants /\ x \notin gone
              \/ x \in ins /\ x.to = "takeOff.inSky"
         /\ \A x \in TakeOffs' :
              \/ x \in TakeOffs /\ x \notin gone
              \/ x \in ins /\ x.to = "takeOff"
         /\ \A x \in OnTheWay(fes') :
              \/ x \in OnTheWay(fes) /\ x \notin gone
              \/ x \in ins /\ x \in OnTheWay(ins)
  BY DEF Replace, Landings, Requests, Grants, TakeOffs, At, OnTheWay

\* The airplanes served keep their times if the handler serves no other and
\* asks for nothing.
LEMMA FirstKept ==
  ASSUME PunctualState, RunwayInv', NEW e \in fes, NEW to, NEW msg,
         Deliver(e, to, msg),
         \A l \in Landings' : l \in Landings \/ l.time <= now' + par.tl,
         Requests' \subseteq Requests, Grants' \subseteq Grants,
         TakeOffs' \subseteq TakeOffs,
         toTimes # << >> => Head(toTimes') = Head(toTimes),
         ~skyAvailable' /\ usingRunway' =>
           ~skyAvailable /\ usingRunway /\ Landings' \subseteq Landings
  PROVE  FirstServed'
  <1>1. /\ par' = par /\ now \in Nat /\ now' \in Nat /\ now <= now'
        /\ \A f \in fes : f.time \in Nat
    BY PunctualKernel
  <1>2. par.tl \in Nat /\ par.to \in Nat
    BY PunctualKernel, Durations
  <1>3. \A l \in Landings' : l.time <= now' + par.tl
    <2> SUFFICES ASSUME NEW l \in Landings' PROVE l.time <= now' + par.tl
      OBVIOUS
    <2>1. CASE l \in Landings
      <3>1. l.time <= now + par.tl /\ l.time \in Nat
        BY <1>1, <2>1 DEF PunctualState, FirstServed, Landings, At
      <3> QED
        BY <1>1, <1>2, <3>1
    <2> QED
      BY <2>1
  <1>4. Requests' \cup Grants' # {} => now' = now
    <2>1. \A r \in Requests \cup Grants : r.time = now
      BY DEF PunctualState, RunwayInv, MessagesInstant
    <2>2. \A r \in Requests' \cup Grants' : r.time = now'
      BY DEF RunwayInv, MessagesInstant
    <2> QED
      BY <2>1, <2>2
  <1>5. /\ Requests \cup Grants \cup TakeOffs # {} => toTimes # << >>
        /\ ~skyAvailable /\ usingRunway => toTimes # << >>
    BY DEF PunctualState, RunwayInv, RightGoesRound, WithSky, RequestKept,
       BeingGranted, WithTakeOff, BeingReturned
  <1>6. Requests' # {} => Head(toTimes') = now'
    BY <1>4, <1>5 DEF PunctualState, FirstServed
  <1>7. ~skyAvailable' /\ usingRunway' =>
          \A l \in Landings' : l.time <= Head(toTimes') + par.tl
    BY <1>5 DEF PunctualState, FirstServed
  <1>8. Grants' # {} => now' <= Head(toTimes') + par.tl
    BY <1>4, <1>5 DEF PunctualState, FirstServed
  <1>9. \A o \in TakeOffs' : o.time <= Head(toTimes') + par.tl + par.to
    BY <1>5 DEF PunctualState, FirstServed
  <1> QED
    BY <1>1, <1>3, <1>6, <1>7, <1>8, <1>9 DEF FirstServed

\* An airplane arrives and lands at once,
LEMMA ArrivalLandsPunctual ==
  ASSUME PunctualState, RunwayInv', NEW e \in fes, ArrivalLands(e),
         UNCHANGED <<takeOffVars, parkingVars>>
  PROVE  Spaced(fes', toTimes', now') /\ FirstServed'
  <1>1. /\ Deliver(e, "sky", "arrival") /\ e.to = "sky" /\ e.msg = "arrival"
        /\ toTimes' = toTimes /\ skyAvailable' = skyAvailable /\ skyAvailable
    BY DEF ArrivalLands, Arrives, LandsAtOnce, Deliver, takeOffVars
  <1>2. /\ TypeOK /\ fes \subseteq Events /\ toTimes \in Seq(Nat)
        /\ par' = par /\ now' \in Nat /\ Draw(par.tl) = {par.tl}
        /\ Spaced(fes, toTimes, now')
    BY <1>1, PunctualKernel
  <1> DEFINE x == Landing(par.tl, 0)
  <1>3. x.to = "sky" /\ x.msg = "landing" /\ x.time = now' + par.tl
    BY DEF Landing, Event
  <1>4. PICK d \in Draw(par.lambda) : Replace({e}, {x} \cup scheduleArrival(d))
    BY <1>2 DEF ArrivalLands
  <1> HIDE DEF x
  <1>5. \A y \in scheduleArrival(d) : y.to = "sky" /\ y.msg = "arrival"
    BY DEF scheduleArrival, Event
  <1>6. Landings = {}
    BY DEF ArrivalLands, LandsAtOnce, PunctualState, RunwayInv, LandingQueued
  <1>7. \A f \in OnTheWay(fes) : f.to # "sky"
    BY <1>6 DEF OnTheWay, Landings, At
  <1>8. OnTheWay(fes') \subseteq OnTheWay(fes) \cup {x}
    BY <1>4, <1>5, AfterReplace DEF OnTheWay
  <1>9. Spaced(fes', toTimes', now')
    BY <1>1, <1>2, <1>3, <1>7, <1>8, SpacedLand
  <1>10. /\ \A l \in Landings' : l.time <= now' + par.tl
         /\ Requests' \subseteq Requests /\ Grants' \subseteq Grants
         /\ TakeOffs' \subseteq TakeOffs
    <2>1. \A l \in Landings' : l = x
      BY <1>4, <1>5, <1>6, AfterReplace
    <2>2. par.tl \in Nat
      BY <1>2, Durations
    <2>3. \A l \in Landings' : l.time <= now' + par.tl
      BY <1>2, <1>3, <2>1, <2>2
    <2> QED
      BY <1>3, <1>4, <1>5, <2>3, AfterReplace
  <1>11. FirstServed'
    BY <1>1, <1>10, FirstKept
  <1> QED
    BY <1>9, <1>11

\* or waits.
LEMMA ArrivalWaitsPunctual ==
  ASSUME PunctualState, RunwayInv', NEW e \in fes, ArrivalWaits(e),
         UNCHANGED <<takeOffVars, parkingVars>>
  PROVE  Spaced(fes', toTimes', now') /\ FirstServed'
  <1>1. /\ Deliver(e, "sky", "arrival") /\ toTimes' = toTimes
        /\ skyAvailable' = skyAvailable /\ usingRunway' = usingRunway
    BY DEF ArrivalWaits, Arrives, NoLanding, takeOffVars
  <1>2. /\ TypeOK /\ fes \subseteq Events /\ toTimes \in Seq(Nat)
        /\ now' \in Nat /\ now' <= now' /\ Spaced(fes, toTimes, now')
    BY <1>1, PunctualKernel
  <1>3. PICK d \in Draw(par.lambda) : Replace({e}, scheduleArrival(d))
    BY DEF ArrivalWaits
  <1>4. \A y \in scheduleArrival(d) : y.to = "sky" /\ y.msg = "arrival"
    BY DEF scheduleArrival, Event
  <1>5. OnTheWay(fes') \subseteq OnTheWay(fes)
    BY <1>3, <1>4, AfterReplace DEF OnTheWay
  <1>6. Spaced(fes', toTimes', now')
    BY <1>1, <1>2, <1>5, SpacedFewer
  <1>7. /\ Landings' \subseteq Landings
        /\ Requests' \subseteq Requests /\ Grants' \subseteq Grants
        /\ TakeOffs' \subseteq TakeOffs
    BY <1>3, <1>4, AfterReplace
  <1>8. FirstServed'
    BY <1>1, <1>7, FirstKept
  <1> QED
    BY <1>6, <1>8

\* The airplane that has landed keeps its place on the way to TakeOff.
LEMMA LandsPunctual ==
  ASSUME PunctualState, NEW e \in fes, Lands(e)
  PROVE  /\ Deliver(e, "sky", "landing") /\ Landings = {e} /\ usingRunway
         /\ Landed.to = "runway.sky" /\ Landed.time = now'
         /\ skyAvailable' = skyAvailable
         /\ \A G : OnTheWay(G) \subseteq (OnTheWay(fes) \ {e}) \cup {Landed}
                     => Spaced(G, toTimes, now')
  <1>1. /\ Deliver(e, "sky", "landing") /\ Landings = {e} /\ usingRunway
        /\ Landed.to = "runway.sky" /\ skyAvailable' = skyAvailable
        /\ e.to = "sky" /\ e.msg = "landing"
    BY LandedFacts DEF PunctualState
  <1>2. /\ TypeOK /\ toTimes \in Seq(Nat) /\ now' = e.time /\ now' \in Nat
        /\ Spaced(fes, toTimes, now')
    BY <1>1, PunctualKernel
  <1>3. Landed.time = now'
    BY <1>2 DEF Landed, Event
  <1>4. par.tp \in Nat
    BY <1>2, Durations
  <1>5. /\ e \in OnTheWay(fes) /\ ReadyAt(Landed) = ReadyAt(e)
        /\ ReadyAt(Landed) <= now' + par.tp
    BY <1>1, <1>2, <1>3, <1>4 DEF OnTheWay, ReadyAt
  <1>6. ASSUME NEW G, OnTheWay(G) \subseteq (OnTheWay(fes) \ {e}) \cup {Landed}
        PROVE  Spaced(G, toTimes, now')
    BY <1>2, <1>5, <1>6, SpacedMove
  <1> QED
    BY <1>1, <1>3, <1>6

\* The end of the landing a request waited for,
LEMMA LandingAnswersPunctual ==
  ASSUME PunctualState, RunwayInv', NEW e \in fes, LandingAnswersRequest(e),
         UNCHANGED <<takeOffVars, parkingVars>>
  PROVE  Spaced(fes', toTimes', now') /\ FirstServed'
  <1>1. Lands(e) /\ ~skyAvailable /\ usingRunway' = FALSE /\ toTimes' = toTimes
        /\ Replace({e}, {Landed, Granted(1)})
    BY DEF LandingAnswersRequest, takeOffVars
  <1>2. /\ Deliver(e, "sky", "landing") /\ Landings = {e} /\ usingRunway
        /\ Landed.to = "runway.sky"
        /\ \A G : OnTheWay(G) \subseteq (OnTheWay(fes) \ {e}) \cup {Landed}
                    => Spaced(G, toTimes, now')
    BY <1>1, LandsPunctual
  <1>3. par' = par /\ now' = e.time
    BY <1>2, PunctualKernel
  <1>4. Granted(1).to = "takeOff.inSky"
    BY DEF Granted, Event
  <1>5. OnTheWay(fes') \subseteq (OnTheWay(fes) \ {e}) \cup {Landed}
    BY <1>1, <1>4, AfterReplace DEF OnTheWay
  <1>6. Spaced(fes', toTimes', now')
    BY <1>1, <1>2, <1>5
  <1>7. RequestKept
    BY <1>1, <1>2 DEF PunctualState, RunwayInv, RightGoesRound, WithSky,
       RequestKept, BeingGranted, WithTakeOff, BeingReturned
  <1>8. Landings' = {} /\ Requests' = {} /\ TakeOffs' = {}
    BY <1>1, <1>2, <1>4, <1>7, AfterReplace DEF RequestKept
  <1>9. now' <= Head(toTimes) + par.tl
    BY <1>1, <1>2, <1>3 DEF PunctualState, FirstServed
  <1>10. FirstServed'
    BY <1>1, <1>3, <1>8, <1>9 DEF FirstServed
  <1> QED
    BY <1>6, <1>10

\* of one that others follow,
LEMMA LandingFollowedPunctual ==
  ASSUME PunctualState, RunwayInv', NEW e \in fes, LandingFollowed(e),
         UNCHANGED <<takeOffVars, parkingVars>>
  PROVE  Spaced(fes', toTimes', now') /\ FirstServed'
  <1>1. Lands(e) /\ skyAvailable /\ toTimes' = toTimes
    BY DEF LandingFollowed, takeOffVars
  <1>2. /\ Deliver(e, "sky", "landing") /\ Landings = {e}
        /\ Landed.to = "runway.sky" /\ Landed.time = now' /\ skyAvailable'
        /\ \A G : OnTheWay(G) \subseteq (OnTheWay(fes) \ {e}) \cup {Landed}
                    => Spaced(G, toTimes, now')
    BY <1>1, LandsPunctual
  <1>3. /\ TypeOK /\ fes \subseteq Events /\ toTimes \in Seq(Nat)
        /\ par' = par /\ now' \in Nat /\ Draw(par.tl) = {par.tl}
    BY <1>2, PunctualKernel
  <1> DEFINE x == Landing(par.tl, 1)
             F == (fes \ {e}) \cup {Landed}
  <1>4. x.to = "sky" /\ x.time = now' + par.tl
    BY DEF Landing, Event
  <1>5. Replace({e}, {Landed, x})
    BY <1>3 DEF LandingFollowed
  <1> HIDE DEF x
  <1>6. Spaced(F, toTimes, now')
    <2>1. OnTheWay(F) \subseteq (OnTheWay(fes) \ {e}) \cup {Landed}
      BY DEF OnTheWay
    <2> HIDE DEF F
    <2> QED
      BY <1>2, <2>1
  <1>7. F \subseteq Events
    BY <1>1, <1>3, LandedFacts DEF PunctualState, Inserted
  <1>8. \A f \in OnTheWay(F) : f.to # "sky"
    BY <1>2 DEF OnTheWay, Landings, At
  <1>9. OnTheWay(fes') \subseteq OnTheWay(F) \cup {x}
    BY <1>5 DEF OnTheWay, Replace
  <1> HIDE DEF F
  <1>10. Spaced(fes', toTimes', now')
    BY <1>1, <1>3, <1>4, <1>6, <1>7, <1>8, <1>9, SpacedLand
  <1>11. /\ \A l \in Landings' : l.time <= now' + par.tl
         /\ Requests' \subseteq Requests /\ Grants' \subseteq Grants
         /\ TakeOffs' \subseteq TakeOffs
    <2>1. \A l \in Landings' : l = x
      BY <1>2, <1>5, AfterReplace
    <2>2. par.tl \in Nat
      BY <1>3, Durations
    <2>3. \A l \in Landings' : l.time <= now' + par.tl
      BY <1>3, <1>4, <2>1, <2>2
    <2> QED
      BY <1>2, <1>4, <1>5, <2>3, AfterReplace
  <1>12. FirstServed'
    BY <1>1, <1>2, <1>11, FirstKept
  <1> QED
    BY <1>10, <1>12

\* and of the last one.
LEMMA LandingEndsPunctual ==
  ASSUME PunctualState, RunwayInv', NEW e \in fes, LandingEndsQueue(e),
         UNCHANGED <<takeOffVars, parkingVars>>
  PROVE  Spaced(fes', toTimes', now') /\ FirstServed'
  <1>1. /\ Lands(e) /\ skyAvailable /\ toTimes' = toTimes
        /\ usingRunway' = FALSE /\ Replace({e}, {Landed})
    BY DEF LandingEndsQueue, takeOffVars
  <1>2. /\ Deliver(e, "sky", "landing") /\ Landings = {e}
        /\ Landed.to = "runway.sky"
        /\ \A G : OnTheWay(G) \subseteq (OnTheWay(fes) \ {e}) \cup {Landed}
                    => Spaced(G, toTimes, now')
    BY <1>1, LandsPunctual
  <1>3. OnTheWay(fes') \subseteq (OnTheWay(fes) \ {e}) \cup {Landed}
    BY <1>1, AfterReplace
  <1>4. Spaced(fes', toTimes', now')
    BY <1>1, <1>2, <1>3
  <1>5. /\ Landings' \subseteq Landings
        /\ Requests' \subseteq Requests /\ Grants' \subseteq Grants
        /\ TakeOffs' \subseteq TakeOffs
    BY <1>1, <1>2, AfterReplace
  <1>6. FirstServed'
    BY <1>1, <1>2, <1>5, FirstKept
  <1> QED
    BY <1>4, <1>6

\* A request that finds a landing in progress waits for it at most a landing
\* time; otherwise the runway is granted at once.
LEMMA StopPunctual ==
  ASSUME PunctualState, RunwayInv', NEW e \in fes, handleStopFromTakeoff(e),
         UNCHANGED <<takeOffVars, parkingVars>>
  PROVE  Spaced(fes', toTimes', now') /\ FirstServed'
  <1> DEFINE y == Granted(0)
             gone == {e} \cup {f \in fes : JustScheduled /\ f.seq = nextL}
             ins == IF StillUsing THEN {} ELSE {y}
  <1>1. /\ Deliver(e, "sky.inTakeoff", "runwayRequest") /\ toTimes' = toTimes
        /\ Replace(gone, ins) /\ e \in gone
    BY DEF handleStopFromTakeoff, takeOffVars
  <1>2. \A x \in ins : x.to = "takeOff.inSky"
    BY DEF Granted, Event
  <1>3. /\ TypeOK /\ fes \subseteq Events /\ toTimes \in Seq(Nat) /\ par' = par
        /\ now' \in Nat /\ now' <= now' /\ now' = e.time
        /\ Spaced(fes, toTimes, now')
    BY <1>1, PunctualKernel
  <1>4. WithSky /\ Requests = {e}
    BY <1>1, RequestFindsSky DEF PunctualState
  <1>5. now' = now /\ Head(toTimes) = now
    BY <1>3, <1>4 DEF PunctualState, FirstServed, RunwayInv, MessagesInstant
  <1>6. par.tl \in Nat
    BY <1>3, Durations
  <1> HIDE DEF gone, ins, y
  <1>7. OnTheWay(fes') \subseteq OnTheWay(fes)
    BY <1>1, <1>2, AfterReplace DEF OnTheWay
  <1>8. Spaced(fes', toTimes', now')
    BY <1>1, <1>3, <1>7, SpacedFewer
  <1>9. Landings' \subseteq Landings /\ Requests' = {} /\ TakeOffs' = {}
    BY <1>1, <1>2, <1>4, AfterReplace DEF WithSky
  <1>10. \A l \in Landings' : l.time <= now + par.tl
    BY <1>9 DEF PunctualState, FirstServed
  <1>11. now <= now + par.tl
    BY <1>3, <1>5, <1>6
  <1>12. FirstServed'
    BY <1>1, <1>3, <1>5, <1>9, <1>10, <1>11 DEF FirstServed
  <1> QED
    BY <1>8, <1>12

\* The runway is returned, and an airplane lands,
LEMMA ReturnedLandsPunctual ==
  ASSUME PunctualState, RunwayInv', NEW e \in fes, ReturnedAndLanding(e),
         UNCHANGED <<takeOffVars, parkingVars>>
  PROVE  Spaced(fes', toTimes', now') /\ FirstServed'
  <1>1. /\ Deliver(e, "sky.inTakeoff", "runwayAvailable") /\ toTimes' = toTimes
        /\ skyAvailable' = TRUE
    BY DEF ReturnedAndLanding, Returned, takeOffVars
  <1>2. /\ TypeOK /\ fes \subseteq Events /\ toTimes \in Seq(Nat)
        /\ par' = par /\ now' \in Nat /\ Draw(par.tl) = {par.tl}
        /\ Spaced(fes, toTimes, now')
    BY <1>1, PunctualKernel
  <1> DEFINE x == Landing(par.tl, 0)
  <1>3. x.to = "sky" /\ x.time = now' + par.tl
    BY DEF Landing, Event
  <1>4. Replace({e}, {x})
    BY <1>2 DEF ReturnedAndLanding
  <1> HIDE DEF x
  <1>5. e \in Returns
    BY <1>1 DEF Deliver, Returns, At
  <1>6. Landings = {}
    BY <1>5 DEF PunctualState, RunwayInv, LandingQueued, RightGoesRound, WithSky,
       RequestKept, BeingGranted, WithTakeOff, BeingReturned
  <1>7. \A f \in OnTheWay(fes) : f.to # "sky"
    BY <1>6 DEF OnTheWay, Landings, At
  <1>8. OnTheWay(fes') \subseteq OnTheWay(fes) \cup {x}
    BY <1>4, AfterReplace
  <1>9. Spaced(fes', toTimes', now')
    BY <1>1, <1>2, <1>3, <1>7, <1>8, SpacedLand
  <1>10. \A l \in Landings' : l.time <= now' + par.tl
    <2>1. \A l \in Landings' : l = x
      BY <1>4, <1>6, AfterReplace
    <2>2. par.tl \in Nat
      BY <1>2, Durations
    <2> QED
      BY <1>2, <1>3, <2>1, <2>2
  <1>11. /\ Requests' \subseteq Requests /\ Grants' \subseteq Grants
         /\ TakeOffs' \subseteq TakeOffs
    BY <1>3, <1>4, AfterReplace
  <1>12. FirstServed'
    BY <1>1, <1>10, <1>11, FirstKept
  <1> QED
    BY <1>9, <1>12

\* or none waits.
LEMMA ReturnedIdlePunctual ==
  ASSUME PunctualState, RunwayInv', NEW e \in fes, ReturnedIdle(e),
         UNCHANGED <<takeOffVars, parkingVars>>
  PROVE  Spaced(fes', toTimes', now') /\ FirstServed'
  <1>1. /\ Deliver(e, "sky.inTakeoff", "runwayAvailable") /\ toTimes' = toTimes
        /\ skyAvailable' = TRUE /\ Replace({e}, {})
    BY DEF ReturnedIdle, Returned, takeOffVars
  <1>2. /\ TypeOK /\ fes \subseteq Events /\ toTimes \in Seq(Nat)
        /\ now' \in Nat /\ now' <= now' /\ Spaced(fes, toTimes, now')
    BY <1>1, PunctualKernel
  <1>3. OnTheWay(fes') \subseteq OnTheWay(fes)
    BY <1>1, AfterReplace
  <1>4. Spaced(fes', toTimes', now')
    BY <1>1, <1>2, <1>3, SpacedFewer
  <1>5. /\ Landings' \subseteq Landings
        /\ Requests' \subseteq Requests /\ Grants' \subseteq Grants
        /\ TakeOffs' \subseteq TakeOffs
    BY <1>1, AfterReplace
  <1>6. FirstServed'
    BY <1>1, <1>5, FirstKept
  <1> QED
    BY <1>4, <1>6

\* An airplane passes through the runway and the parking, which concerns
\* neither Sky nor TakeOff.
LEMMA PassedOnPunctual ==
  ASSUME PunctualState, RunwayInv', NEW e \in fes, NEW to, NEW msg,
         Deliver(e, to, msg), NEW ins, Replace({e}, ins),
         \A x \in ins : x.to \in {"parking.park", "parking", "takeOff.park"},
         UNCHANGED <<skyVars, takeOffVars>>
  PROVE  FirstServed'
  <1>1. /\ toTimes' = toTimes /\ skyAvailable' = skyAvailable
        /\ usingRunway' = usingRunway
    BY DEF skyVars, takeOffVars
  <1>2. /\ Landings' \subseteq Landings
        /\ Requests' \subseteq Requests /\ Grants' \subseteq Grants
        /\ TakeOffs' \subseteq TakeOffs
    BY AfterReplace
  <1> QED
    BY <1>1, <1>2, FirstKept

LEMMA ParkingEnteredPunctual ==
  ASSUME PunctualState, RunwayInv', NEW e \in fes, ParkingEntered(e),
         UNCHANGED <<skyVars, takeOffVars>>
  PROVE  Spaced(fes', toTimes', now') /\ FirstServed'
  <1> DEFINE x == Event("parking", "unnamed", par.tp, 0)
  <1>1. Deliver(e, "parking.park", "Airplane") /\ toTimes' = toTimes
    BY DEF ParkingEntered, takeOffVars
  <1>2. /\ TypeOK /\ fes \subseteq Events /\ toTimes \in Seq(Nat) /\ now' = e.time
        /\ now' \in Nat /\ Draw(par.tp) = {par.tp} /\ Spaced(fes, toTimes, now')
    BY <1>1, PunctualKernel
  <1>3. Replace({e}, {x})
    BY <1>2 DEF ParkingEntered
  <1>4. e.to = "parking.park" /\ x.to = "parking" /\ x.time = now' + par.tp
    BY <1>1 DEF Deliver, Event
  <1>5. par.tp \in Nat
    BY <1>2, Durations
  <1> HIDE DEF x
  <1>6. /\ e \in OnTheWay(fes) /\ ReadyAt(x) = ReadyAt(e)
        /\ ReadyAt(x) <= now' + par.tp
    BY <1>2, <1>4, <1>5 DEF OnTheWay, ReadyAt
  <1>7. OnTheWay(fes') \subseteq (OnTheWay(fes) \ {e}) \cup {x}
    BY <1>3, AfterReplace
  <1>8. Spaced(fes', toTimes', now')
    BY <1>1, <1>2, <1>6, <1>7, SpacedMove
  <1>9. FirstServed'
    BY <1>1, <1>3, <1>4, PassedOnPunctual
  <1> QED
    BY <1>8, <1>9

LEMMA ParkingExpiredPunctual ==
  ASSUME PunctualState, RunwayInv', NEW e \in fes, ParkingExpired(e),
         UNCHANGED <<skyVars, takeOffVars>>
  PROVE  Spaced(fes', toTimes', now') /\ FirstServed'
  <1> DEFINE x == Event("takeOff.park", "Airplane", 0, 0)
  <1>1. /\ Deliver(e, "parking", "unnamed") /\ toTimes' = toTimes
        /\ Replace({e}, {x})
    BY DEF ParkingExpired, takeOffVars
  <1>2. /\ TypeOK /\ fes \subseteq Events /\ toTimes \in Seq(Nat) /\ now' = e.time
        /\ now' \in Nat /\ Spaced(fes, toTimes, now')
    BY <1>1, PunctualKernel
  <1>3. e.to = "parking" /\ x.to = "takeOff.park" /\ x.time = now'
    BY <1>1, <1>2 DEF Deliver, Event
  <1>4. par.tp \in Nat
    BY <1>2, Durations
  <1> HIDE DEF x
  <1>5. /\ e \in OnTheWay(fes) /\ ReadyAt(x) = ReadyAt(e)
        /\ ReadyAt(x) <= now' + par.tp
    BY <1>2, <1>3, <1>4 DEF OnTheWay, ReadyAt
  <1>6. OnTheWay(fes') \subseteq (OnTheWay(fes) \ {e}) \cup {x}
    BY <1>1, AfterReplace
  <1>7. Spaced(fes', toTimes', now')
    BY <1>1, <1>2, <1>5, <1>6, SpacedMove
  <1>8. FirstServed'
    BY <1>1, <1>3, PassedOnPunctual
  <1> QED
    BY <1>7, <1>8

LEMMA RunwayFromSkyPunctual ==
  ASSUME PunctualState, RunwayInv', NEW e \in fes, RunwayFromSky(e),
         UNCHANGED <<skyVars, takeOffVars>>
  PROVE  Spaced(fes', toTimes', now') /\ FirstServed'
  <1> DEFINE x == Event("parking.park", "Airplane", 0, 0)
  <1>1. /\ Deliver(e, "runway.sky", "Airplane") /\ toTimes' = toTimes
        /\ Replace({e}, {x})
    BY DEF RunwayFromSky, Forwarded, takeOffVars
  <1>2. /\ TypeOK /\ fes \subseteq Events /\ toTimes \in Seq(Nat) /\ now' = e.time
        /\ now' \in Nat /\ Spaced(fes, toTimes, now')
    BY <1>1, PunctualKernel
  <1>3. e.to = "runway.sky" /\ x.to = "parking.park" /\ x.time = now'
    BY <1>1, <1>2 DEF Deliver, Event
  <1>4. par.tp \in Nat
    BY <1>2, Durations
  <1> HIDE DEF x
  <1>5. /\ e \in OnTheWay(fes) /\ ReadyAt(x) = ReadyAt(e)
        /\ ReadyAt(x) <= now' + par.tp
    BY <1>2, <1>3, <1>4 DEF OnTheWay, ReadyAt
  <1>6. OnTheWay(fes') \subseteq (OnTheWay(fes) \ {e}) \cup {x}
    BY <1>1, AfterReplace
  <1>7. Spaced(fes', toTimes', now')
    BY <1>1, <1>2, <1>5, <1>6, SpacedMove
  <1>8. FirstServed'
    BY <1>1, <1>3, PassedOnPunctual
  <1> QED
    BY <1>7, <1>8

LEMMA RunwayFromTakeOffPunctual ==
  ASSUME PunctualState, RunwayInv', NEW e \in fes, RunwayFromTakeOff(e),
         UNCHANGED <<skyVars, takeOffVars>>
  PROVE  Spaced(fes', toTimes', now') /\ FirstServed'
  <1>1. /\ Deliver(e, "runway.takeOff", "Airplane") /\ toTimes' = toTimes
        /\ Replace({e}, {})
    BY DEF RunwayFromTakeOff, takeOffVars
  <1>2. /\ TypeOK /\ fes \subseteq Events /\ toTimes \in Seq(Nat)
        /\ now' \in Nat /\ now' <= now' /\ Spaced(fes, toTimes, now')
    BY <1>1, PunctualKernel
  <1>3. OnTheWay(fes') \subseteq OnTheWay(fes)
    BY <1>1, AfterReplace
  <1>4. Spaced(fes', toTimes', now')
    BY <1>1, <1>2, <1>3, SpacedFewer
  <1>5. FirstServed'
    BY <1>1, PassedOnPunctual
  <1> QED
    BY <1>4, <1>5

\* An airplane that joins TakeOff's queue is the first to be served only if
\* it finds the queue empty, and then its request is sent at once.
LEMMA FromParkingPunctual ==
  ASSUME PunctualState, RunwayInv', NEW e \in fes, handleAirplaneFromParking(e),
         UNCHANGED <<skyVars, parkingVars>>
  PROVE  Spaced(fes', toTimes', now') /\ FirstServed'
  <1> DEFINE q == Event("sky.inTakeoff", "runwayRequest", 0, 0)
             ins == IF toTimes = <<>> THEN {q} ELSE {}
  <1>1. /\ Deliver(e, "takeOff.park", "Airplane") /\ e.to = "takeOff.park"
        /\ toTimes' = Append(toTimes, now')
        /\ skyAvailable' = skyAvailable /\ usingRunway' = usingRunway
    BY DEF handleAirplaneFromParking, Deliver, skyVars
  <1>2. /\ TypeOK /\ fes \subseteq Events /\ toTimes \in Seq(Nat) /\ par' = par
        /\ now' = e.time /\ now \in Nat /\ now' \in Nat /\ now <= now'
        /\ \A f \in fes : f.time \in Nat /\ now' <= f.time
        /\ Spaced(fes, toTimes, now')
    BY <1>1, PunctualKernel
  <1>3. toTimes = <<>> => /\ ~toAvailable /\ ~(~skyAvailable /\ usingRunway)
                          /\ Grants = {} /\ TakeOffs = {}
    BY DEF PunctualState, RunwayInv, RightGoesRound, WithSky, RequestKept,
       BeingGranted, WithTakeOff, BeingReturned
  <1>4. Replace({e}, ins)
    BY <1>3 DEF handleAirplaneFromParking, FirstInQueue
  <1>5. /\ \A x \in ins : x.to = "sky.inTakeoff"
        /\ toTimes # <<>> => ins = {}
    BY DEF Event
  <1> HIDE DEF q, ins
  <1>6. e \in OnTheWay(fes) /\ ReadyAt(e) = now'
    BY <1>1, <1>2 DEF OnTheWay, ReadyAt
  <1>7. OnTheWay(fes') \subseteq OnTheWay(fes) \ {e}
    BY <1>4, <1>5, AfterReplace DEF OnTheWay
  <1>8. Spaced(fes', toTimes', now')
    BY <1>1, <1>2, <1>6, <1>7, SpacedQueue
  <1>9. /\ Landings' \subseteq Landings /\ Grants' \subseteq Grants
        /\ TakeOffs' \subseteq TakeOffs
        /\ toTimes # <<>> => Requests' \subseteq Requests
    BY <1>4, <1>5, AfterReplace
  <1>10. CASE toTimes # <<>>
    <2>1. Head(toTimes') = Head(toTimes)
      BY <1>1, <1>2, <1>10
    <2>2. FirstServed'
      BY <1>1, <1>9, <1>10, <2>1, FirstKept
    <2> QED
      BY <1>8, <2>2
  <1>11. CASE toTimes = <<>>
    <2>1. Head(toTimes') = now'
      BY <1>1, <1>2, <1>11
    <2>2. par.tl \in Nat
      BY <1>2, Durations
    <2>3. \A l \in Landings' : l.time <= now' + par.tl
      <3> SUFFICES ASSUME NEW l \in Landings' PROVE l.time <= now' + par.tl
        OBVIOUS
      <3>1. l.time <= now + par.tl /\ l.time \in Nat
        BY <1>2, <1>9 DEF PunctualState, FirstServed, Landings, At
      <3> QED
        BY <1>2, <2>2, <3>1
    <2>4. FirstServed'
      BY <1>1, <1>2, <1>3, <1>9, <1>11, <2>1, <2>3 DEF FirstServed
    <2> QED
      BY <1>8, <2>4
  <1> QED
    BY <1>10, <1>11

\* (the arithmetic of the take-offs, and the second airplane of a queue)
LEMMA WaitArithmetic ==
  ASSUME NEW n \in Nat, NEW h \in Nat, NEW g \in Nat, NEW l \in Nat, NEW o \in Nat
  PROVE  /\ n <= h + l => n + o <= h + l + o
         /\ n <= h + l + o /\ h + l <= g /\ o <= l => n + o <= g + l + o
         /\ n <= h + l + o => n - h <= l + o
  OBVIOUS

LEMMA SecondInQueue ==
  ASSUME NEW s \in Seq(Nat), s # <<>>, Tail(s) # <<>>
  PROVE  /\ Len(s) > 1 /\ 1 \in 1..Len(s) /\ 2 \in 1..Len(s)
         /\ Head(s) = s[1] /\ Head(Tail(s)) = s[2] /\ s[1] \in Nat /\ s[2] \in Nat
  <1> DEFINE T == Tail(s)
  <1>1. Len(s) \in Nat /\ Len(T) = Len(s) - 1 /\ T \in Seq(Nat) /\ T # <<>>
    OBVIOUS
  <1>2. Head(s) = s[1] /\ \A i \in 1..Len(s) : s[i] \in Nat
    OBVIOUS
  <1>3. \A i \in 1..Len(T) : T[i] = s[i + 1]
    OBVIOUS
  <1> HIDE DEF T
  <1>4. Len(T) > 0 /\ Len(T) \in Nat
    BY <1>1, QueueLengths
  <1>5. /\ Len(s) > 1 /\ 1 \in 1..Len(s) /\ 2 \in 1..Len(s)
        /\ 1 \in 1..Len(T) /\ 1 + 1 = 2
    <2> DEFINE m == Len(T)
               n == Len(s)
    <2>1. m \in Nat /\ n \in Nat /\ m = n - 1 /\ m > 0
      BY <1>1, <1>4
    <2> HIDE DEF m, n
    <2>2. /\ n > 1 /\ 1 \in 1..n /\ 2 \in 1..n /\ 1 \in 1..m /\ 1 + 1 = 2
      BY <2>1
    <2> QED
      BY <2>2 DEF m, n
  <1>6. Head(T) = s[2]
    <2>1. Head(T) = T[1]
      BY <1>1
    <2> QED
      BY <1>3, <1>5, <2>1
  <1>7. s[1] \in Nat /\ s[2] \in Nat
    BY <1>2, <1>5
  <1> QED
    BY <1>2, <1>5, <1>6, <1>7 DEF T

\* With the runway granted it takes off: its wait was a landing at most.
LEMMA OkFromSkyPunctual ==
  ASSUME PunctualState, RunwayInv', NEW e \in fes, handleOkFromSky(e),
         UNCHANGED <<skyVars, parkingVars>>
  PROVE  Spaced(fes', toTimes', now') /\ FirstServed'
  <1> DEFINE x == scheduleTakeOff(par.to, 0)
  <1>1. /\ Deliver(e, "takeOff.inSky", "runwayAvailable") /\ toTimes' = toTimes
        /\ usingRunway' = usingRunway
    BY DEF handleOkFromSky, skyVars
  <1>2. /\ TypeOK /\ fes \subseteq Events /\ toTimes \in Seq(Nat) /\ par' = par
        /\ now' \in Nat /\ now' <= now' /\ now' = e.time
        /\ Draw(par.to) = {par.to} /\ Spaced(fes, toTimes, now')
    BY <1>1, PunctualKernel
  <1>3. x.to = "takeOff" /\ x.time = now' + par.to
    BY DEF scheduleTakeOff, Event
  <1>4. Replace({e}, {x})
    BY <1>2 DEF handleOkFromSky
  <1> HIDE DEF x
  <1>5. e \in Grants
    BY <1>1 DEF Deliver, Grants, At
  <1>6. Grants = {e} /\ now' = now
    BY <1>2, <1>5 DEF PunctualState, RunwayInv, AllUnique, Unique, MessagesInstant
  <1>7. BeingGranted /\ Landings = {} /\ toTimes # <<>>
    BY <1>5 DEF PunctualState, RunwayInv, LandingQueued, RightGoesRound, WithSky,
       RequestKept, BeingGranted, WithTakeOff, BeingReturned
  <1>8. OnTheWay(fes') \subseteq OnTheWay(fes)
    BY <1>3, <1>4, AfterReplace DEF OnTheWay
  <1>9. Spaced(fes', toTimes', now')
    BY <1>1, <1>2, <1>8, SpacedFewer
  <1>10. /\ Landings' = {} /\ Requests' = {} /\ Grants' = {}
         /\ \A o \in TakeOffs' : o = x
    BY <1>3, <1>4, <1>6, <1>7, AfterReplace DEF BeingGranted
  <1>11. x.time <= Head(toTimes) + par.tl + par.to
    <2>1. now' <= Head(toTimes) + par.tl
      BY <1>5, <1>6 DEF PunctualState, FirstServed
    <2>2. par.tl \in Nat /\ par.to \in Nat /\ Head(toTimes) \in Nat
      BY <1>2, <1>7, Durations
    <2> QED
      BY <1>2, <1>3, <2>1, <2>2, WaitArithmetic
  <1>12. FirstServed'
    BY <1>1, <1>2, <1>7, <1>10, <1>11 DEF FirstServed, BeingGranted
  <1> QED
    BY <1>9, <1>12

\* An airplane takes off within a landing and a take-off.
LEMMA TakesOffPunctual ==
  ASSUME PunctualState, NEW e \in fes, TakesOff(e)
  PROVE  /\ Deliver(e, "takeOff", "takeOff") /\ toTimes # <<>>
         /\ toTimes' = Tail(toTimes) /\ Gone.to = "runway.takeOff"
         /\ WithTakeOff /\ TakeOffs = {e} /\ Landings = {}
         /\ Head(toTimes) \in Nat
         /\ now' <= Head(toTimes) + par.tl + par.to
         /\ Spaced(fes, Tail(toTimes), now')
  <1>1. /\ Deliver(e, "takeOff", "takeOff") /\ now' = e.time
        /\ WithTakeOff /\ TakeOffs = {e} /\ Gone.to = "runway.takeOff"
    BY TakesOffFacts DEF PunctualState
  <1>2. toTimes # <<>> /\ toTimes' = Tail(toTimes)
    BY DEF TakesOff
  <1>3. toTimes \in Seq(Nat) /\ now' \in Nat /\ Spaced(fes, toTimes, now')
    BY <1>1, PunctualKernel
  <1>4. Landings = {}
    BY <1>1 DEF WithTakeOff, PunctualState, RunwayInv, LandingQueued
  <1>5. now' <= Head(toTimes) + par.tl + par.to
    BY <1>1 DEF PunctualState, FirstServed
  <1>6. Spaced(fes, Tail(toTimes), now')
    BY <1>2, <1>3, SpacedTail
  <1> QED
    BY <1>1, <1>2, <1>3, <1>4, <1>5, <1>6

\* The next one has been in the queue for a landing less, and a take-off is
\* no longer than a landing.
LEMMA TakeOffFollowedPunctual ==
  ASSUME PunctualState, RunwayInv', NEW e \in fes, TakeOffFollowed(e),
         UNCHANGED <<skyVars, parkingVars>>
  PROVE  Spaced(fes', toTimes', now') /\ FirstServed'
  <1> DEFINE x == scheduleTakeOff(par.to, 1)
  <1>1. TakesOff(e) /\ toTimes' # <<>> /\ usingRunway' = usingRunway
    BY DEF TakeOffFollowed, skyVars
  <1>2. /\ Deliver(e, "takeOff", "takeOff") /\ toTimes # <<>>
        /\ toTimes' = Tail(toTimes) /\ Gone.to = "runway.takeOff"
        /\ WithTakeOff /\ TakeOffs = {e} /\ Landings = {}
        /\ Head(toTimes) \in Nat /\ now' <= Head(toTimes) + par.tl + par.to
        /\ Spaced(fes, Tail(toTimes), now')
    BY <1>1, TakesOffPunctual
  <1>3. /\ TypeOK /\ fes \subseteq Events /\ toTimes \in Seq(Nat) /\ par' = par
        /\ now' \in Nat /\ now' <= now' /\ Draw(par.to) = {par.to}
        /\ par.to <= par.tl
    BY <1>2, PunctualKernel
  <1>4. x.to = "takeOff" /\ x.time = now' + par.to
    BY DEF scheduleTakeOff, Event
  <1>5. Replace({e}, {Gone, x})
    BY <1>3 DEF TakeOffFollowed
  <1> HIDE DEF x
  <1>6. OnTheWay(fes') \subseteq OnTheWay(fes)
    BY <1>2, <1>4, <1>5, AfterReplace DEF OnTheWay
  <1>7. Tail(toTimes) \in Seq(Nat)
    BY <1>2, <1>3
  <1>8. Spaced(fes', toTimes', now')
    BY <1>2, <1>3, <1>6, <1>7, SpacedFewer
  <1>9. /\ Landings' = {} /\ Requests' = {} /\ Grants' = {}
        /\ \A o \in TakeOffs' : o = x
    BY <1>2, <1>4, <1>5, AfterReplace DEF WithTakeOff
  <1>10. /\ Head(toTimes') = toTimes[2] /\ toTimes[2] \in Nat
         /\ Head(toTimes) = toTimes[1] /\ 1 \in 1..Len(toTimes) /\ 2 \in 1..Len(toTimes)
    BY <1>1, <1>2, <1>3, SecondInQueue
  <1>11. toTimes[1] + par.tl <= toTimes[2]
    BY <1>10 DEF PunctualState, Spaced
  <1>12. x.time <= Head(toTimes') + par.tl + par.to
    <2> DEFINE a == toTimes[1]
               b == toTimes[2]
    <2>1. a \in Nat /\ b \in Nat /\ a + par.tl <= b /\ now' <= a + par.tl + par.to
      BY <1>2, <1>10, <1>11
    <2>2. par.tl \in Nat /\ par.to \in Nat
      BY <1>3, Durations
    <2> HIDE DEF a, b
    <2>3. now' + par.to <= b + par.tl + par.to
      BY <1>3, <2>1, <2>2, WaitArithmetic
    <2> QED
      BY <1>4, <1>10, <2>3 DEF b
  <1>13. FirstServed'
    BY <1>1, <1>2, <1>3, <1>9, <1>12 DEF FirstServed, WithTakeOff
  <1> QED
    BY <1>8, <1>13

\* The last one leaves nobody to be served.
LEMMA TakeOffEndsPunctual ==
  ASSUME PunctualState, RunwayInv', NEW e \in fes, TakeOffEndsQueue(e),
         UNCHANGED <<skyVars, parkingVars>>
  PROVE  Spaced(fes', toTimes', now') /\ FirstServed'
  <1> DEFINE x == Event("sky.inTakeoff", "runwayAvailable", 0, 1)
  <1>1. /\ TakesOff(e) /\ usingRunway' = usingRunway
        /\ Replace({e}, {Gone, x})
    BY DEF TakeOffEndsQueue, Return, skyVars
  <1>2. /\ Deliver(e, "takeOff", "takeOff") /\ toTimes # <<>>
        /\ toTimes' = Tail(toTimes) /\ Gone.to = "runway.takeOff"
        /\ WithTakeOff /\ TakeOffs = {e} /\ Landings = {}
        /\ Spaced(fes, Tail(toTimes), now')
    BY <1>1, TakesOffPunctual
  <1>3. /\ TypeOK /\ fes \subseteq Events /\ toTimes \in Seq(Nat)
        /\ now' \in Nat /\ now' <= now'
    BY <1>2, PunctualKernel
  <1>4. x.to = "sky.inTakeoff" /\ x.msg = "runwayAvailable"
    BY DEF Event
  <1> HIDE DEF x
  <1>5. OnTheWay(fes') \subseteq OnTheWay(fes)
    BY <1>1, <1>2, <1>4, AfterReplace DEF OnTheWay
  <1>6. Tail(toTimes) \in Seq(Nat)
    BY <1>2, <1>3
  <1>7. Spaced(fes', toTimes', now')
    BY <1>2, <1>3, <1>5, <1>6, SpacedFewer
  <1>8. Landings' = {} /\ Requests' = {} /\ Grants' = {} /\ TakeOffs' = {}
    BY <1>1, <1>2, <1>4, AfterReplace DEF WithTakeOff
  <1>9. FirstServed'
    BY <1>1, <1>2, <1>8 DEF FirstServed, WithTakeOff
  <1> QED
    BY <1>7, <1>9

\* At the beginning nobody is on the way.
LEMMA InitPunctual == Init => PunctualInv
  <1> SUFFICES ASSUME Init PROVE Spaced(fes, toTimes, now) /\ FirstServed
    BY DEF PunctualInv
  <1>1. PICK d \in Draw(par.lambda) :
          fes = {[time |-> d, seq |-> 1, to |-> "sky", msg |-> "arrival"]}
    BY DEF Init
  <1>2. toTimes = <<>> /\ usingRunway = FALSE
    BY DEF Init, InitSky, InitTakeOff
  <1>3. /\ OnTheWay(fes) = {} /\ Landings = {} /\ Requests = {} /\ Grants = {}
        /\ TakeOffs = {}
    BY <1>1 DEF OnTheWay, Landings, Requests, Grants, TakeOffs, At
  <1>4. Spaced(fes, toTimes, now)
    BY <1>2, <1>3 DEF Spaced
  <1>5. FirstServed
    BY <1>2, <1>3 DEF FirstServed
  <1> QED
    BY <1>4, <1>5

\* Every step keeps PunctualInv.
LEMMA NextPunctual ==
  ASSUME RunwayInv, RunwayInv', PunctualInv, [Next]_vars
  PROVE  PunctualInv'
  <1>1. CASE UNCHANGED vars
    <2>1. /\ fes' = fes /\ now' = now /\ par' = par /\ toTimes' = toTimes
          /\ usingRunway' = usingRunway /\ skyAvailable' = skyAvailable
      BY <1>1 DEF vars, kernelVars, skyVars, takeOffVars
    <2> QED
      BY <2>1 DEF PunctualInv, TakeoffsShorter, Spaced, OnTheWay, ReadyAt,
         FirstServed, Landings, Requests, Grants, TakeOffs, At
  <1>2. CASE Next
    <2>1. PICK e \in fes :
            \/ SkyStep(e) /\ UNCHANGED <<takeOffVars, parkingVars>>
            \/ TakeOffStep(e) /\ UNCHANGED <<skyVars, parkingVars>>
            \/ ParkingStep(e) /\ UNCHANGED <<skyVars, takeOffVars>>
      BY <1>2 DEF Next
    <2>2. par' = par
      BY <2>1 DEF SkyStep, ArrivalLands, ArrivalWaits, Arrives, Lands,
         LandingAnswersRequest, LandingFollowed, LandingEndsQueue,
         handleStopFromTakeoff, ReturnedAndLanding, ReturnedIdle, Returned,
         TakeOffStep, handleAirplaneFromParking, handleOkFromSky,
         TakeOffFollowed, TakeOffEndsQueue, TakesOff, ParkingStep,
         ParkingEntered, ParkingExpired, RunwayFromSky, RunwayFromTakeOff, Deliver
    <2>3. SUFFICES ASSUME TakeoffsShorter'
                   PROVE  (Spaced(fes, toTimes, now) /\ FirstServed)'
      BY DEF PunctualInv
    <2>4. PunctualState
      BY <2>2, <2>3 DEF PunctualState, PunctualInv, TakeoffsShorter
    <2>5. Spaced(fes', toTimes', now') /\ FirstServed'
      <3>1. CASE SkyStep(e) /\ UNCHANGED <<takeOffVars, parkingVars>>
        BY <2>4, <3>1, ArrivalLandsPunctual, ArrivalWaitsPunctual,
           LandingAnswersPunctual, LandingFollowedPunctual, LandingEndsPunctual,
           StopPunctual, ReturnedLandsPunctual, ReturnedIdlePunctual DEF SkyStep
      <3>2. CASE TakeOffStep(e) /\ UNCHANGED <<skyVars, parkingVars>>
        BY <2>4, <3>2, FromParkingPunctual, OkFromSkyPunctual,
           TakeOffFollowedPunctual, TakeOffEndsPunctual DEF TakeOffStep
      <3>3. CASE ParkingStep(e) /\ UNCHANGED <<skyVars, takeOffVars>>
        BY <2>4, <3>3, ParkingEnteredPunctual, ParkingExpiredPunctual,
           RunwayFromSkyPunctual, RunwayFromTakeOffPunctual DEF ParkingStep
      <3> QED
        BY <2>1, <3>1, <3>2, <3>3
    <2>6. Spaced(fes, toTimes, now)'
      BY <2>2, <2>5 DEF Spaced, OnTheWay, ReadyAt
    <2> QED
      BY <2>5, <2>6
  <1> QED
    BY <1>1, <1>2

\* The invariant of the waiting times for take-off, from that of the runway.
THEOREM PunctualInvariant == Spec => []PunctualInv
  <1>1. Init => PunctualInv
    BY InitPunctual
  <1>2. RunwayInv /\ RunwayInv' /\ PunctualInv /\ [Next]_vars => PunctualInv'
    BY NextPunctual
  <1> QED
    BY <1>1, <1>2, RunwayInvariant, PTL DEF Spec

\* Only a take-off shortens TakeOff's queue.
LEMMA QueueShrinks ==
  ASSUME RunwayInv, NEW e \in fes,
         \/ SkyStep(e) /\ UNCHANGED <<takeOffVars, parkingVars>>
         \/ TakeOffStep(e) /\ UNCHANGED <<skyVars, parkingVars>>
         \/ ParkingStep(e) /\ UNCHANGED <<skyVars, takeOffVars>>,
         Len(toTimes') < Len(toTimes)
  PROVE  TakesOff(e)
  <1>1. toTimes \in Seq(Nat) /\ Len(toTimes) \in Nat
    BY DEF RunwayInv, TypeOK
  <1>2. toTimes' # toTimes
    BY <1>1
  <1>3. TakeOffStep(e)
    BY <1>2 DEF takeOffVars
  <1>4. ~handleAirplaneFromParking(e)
    <2> SUFFICES ASSUME handleAirplaneFromParking(e) PROVE FALSE
      OBVIOUS
    <2>1. now' \in Nat /\ toTimes' = Append(toTimes, now')
      BY KernelStep DEF handleAirplaneFromParking, RunwayInv
    <2>2. Len(toTimes') = Len(toTimes) + 1
      BY <1>1, <2>1
    <2> QED
      BY <1>1, <2>2
  <1> QED
    BY <1>2, <1>3, <1>4 DEF TakeOffStep, handleOkFromSky, TakeOffFollowed,
       TakeOffEndsQueue

\* With constant times and take-offs no longer than landings every airplane
\* takes off within a landing and a take-off of its coming to TakeOff,
\* whatever the load.
THEOREM TakeoffsInTime == Spec => TakeoffsPunctual
  <1>1. ASSUME RunwayInv, PunctualInv, [Next]_vars
        PROVE  [TakeoffsShorter /\ Len(toTimes') < Len(toTimes)
                  => now' - Head(toTimes) <= par.tl + par.to]_vars
    <2> SUFFICES ASSUME TakeoffsShorter, Len(toTimes') < Len(toTimes), Next
                 PROVE  now' - Head(toTimes) <= par.tl + par.to
      BY <1>1
    <2>1. PICK e \in fes :
            \/ SkyStep(e) /\ UNCHANGED <<takeOffVars, parkingVars>>
            \/ TakeOffStep(e) /\ UNCHANGED <<skyVars, parkingVars>>
            \/ ParkingStep(e) /\ UNCHANGED <<skyVars, takeOffVars>>
      BY DEF Next
    <2>2. TakesOff(e)
      BY <1>1, <2>1, QueueShrinks
    <2>3. PunctualState
      BY <1>1 DEF PunctualState, PunctualInv
    <2>4. /\ Deliver(e, "takeOff", "takeOff") /\ Head(toTimes) \in Nat
          /\ now' <= Head(toTimes) + par.tl + par.to
      BY <2>2, <2>3, TakesOffPunctual
    <2>5. now' \in Nat /\ par.tl \in Nat /\ par.to \in Nat
      BY <2>3, <2>4, PunctualKernel, Durations
    <2> QED
      BY <2>4, <2>5, WaitArithmetic
  <1> QED
    BY <1>1, RunwayInvariant, PunctualInvariant, PTL DEF Spec, TakeoffsPunctual
=============================================================================
