----------------------------- MODULE MessageTower -----------------------------
(***************************************************************************)
(* The network Airport of "Other Projects/ControlTowrMaEl": Sky, TakeOff,  *)
(* Parking and Runway.  Nobody owns the runway's state: Sky and TakeOff    *)
(* pass the right to use it back and forth in messages.                    *)
(***************************************************************************)
EXTENDS Integers, Sky, TakeOff, Parking, FiniteSets

ASSUME MaxPlanesAssumption == MaxPlanes \in Nat

kernelVars == <<par, now, fes, seq>>

vars == <<kernelVars, skyVars, takeOffVars, parkingVars>>

Init ==
  /\ par \in Settings
  /\ now = 0
  /\ \E d \in Draw(par.lambda) :
       fes = {[time |-> d, seq |-> 1, to |-> "sky", msg |-> "arrival"]}
  /\ seq = 2
  /\ InitSky /\ InitTakeOff /\ InitParking

Next == \E e \in fes :
          \/ SkyStep(e) /\ UNCHANGED <<takeOffVars, parkingVars>>
          \/ TakeOffStep(e) /\ UNCHANGED <<skyVars, parkingVars>>
          \/ ParkingStep(e) /\ UNCHANGED <<skyVars, takeOffVars>>

Spec == Init /\ [][Next]_vars

\* The event loop goes on as long as there is an event.
FairSpec == Spec /\ WF_vars(Next)

-----------------------------------------------------------------------------
(* Safety.                                                                 *)

Landings == At("sky", "landing")
TakeOffs == At("takeOff", "takeOff")
Requests == At("sky.inTakeoff", "runwayRequest")
Grants   == At("takeOff.inSky", "runwayAvailable")
Returns  == At("sky.inTakeoff", "runwayAvailable")

(***************************************************************************)
(* The state and the events are what the handlers expect.                  *)
(***************************************************************************)
TypeOK ==
  /\ par \in Settings
  /\ now \in Nat /\ seq \in Nat /\ fes \subseteq Events
  /\ usingRunway \in BOOLEAN /\ skyAvailable \in BOOLEAN /\ toAvailable \in BOOLEAN
  /\ nextL \in Nat /\ nextLtime \in Nat /\ created \in Nat
  /\ skyTimes \in Seq(Nat) /\ toTimes \in Seq(Nat)
  /\ numAirplanes \in Int /\ left \in Nat

(***************************************************************************)
(* Sky and TakeOff decide on their own when to start an operation          *)
(* (Sky::scheduleLanding, TakeOff::scheduleTakeOff); still there is never  *)
(* more than one operation in progress, and Sky's flag usingRunway says    *)
(* exactly whether it is a landing.                                        *)
(***************************************************************************)
RunwayExclusive ==
  /\ \A e, f \in Landings \cup TakeOffs : e = f
  /\ usingRunway <=> Landings # {}

(***************************************************************************)
(* The right to use the runway is in exactly one place: with Sky, with     *)
(* TakeOff, in one message between them, or with the landing a pending     *)
(* request waits for (Sky.cc:94-97 answers when it is over).               *)
(***************************************************************************)
OneRight ==
  LET n(b) == IF b THEN 1 ELSE 0
  IN  n(skyAvailable) + n(toAvailable) + n(~skyAvailable /\ usingRunway)
        + Cardinality(Grants \cup Returns) = 1

(***************************************************************************)
(* "surely there are airplanes queued if takeoff requested the runway"     *)
(* (TakeOff.cc:77): neither handleOkFromSky() nor the end of a landing or  *)
(* of a take-off ever finds an empty queue, though the queue was looked at *)
(* in another handler, possibly a landing time ago.                        *)
(***************************************************************************)
QueuedWhenServed ==
  /\ Landings # {} => skyTimes # <<>>
  /\ Requests \cup Grants \cup TakeOffs # {} => toTimes # <<>>
  /\ toAvailable => toTimes # <<>>

(***************************************************************************)
(* A request is always under way for the airplanes in TakeOff's queue, and *)
(* exactly one: sent, kept by Sky until its landing is over, answered, or  *)
(* being served.  A return and the next request travel the same gate, and  *)
(* Sky takes the return first.                                             *)
(***************************************************************************)
OneRequest ==
  LET n(b) == IF b THEN 1 ELSE 0
  IN  /\ n(toTimes # <<>>) = Cardinality(Requests \cup Grants) + n(toAvailable)
                               + n(~skyAvailable /\ usingRunway)
      /\ \A r \in Returns, q \in Requests : Precedes(r, q)

(***************************************************************************)
(* handleStopFromTakeoff() compares the time with nextLtime, which starts  *)
(* at 0, and cancels nextL, which starts uninitialised: at a request the   *)
(* pointer was assigned, and what is cancelled is a landing.               *)
(***************************************************************************)
CancelsLanding ==
  Requests # {} =>
    nextL # 0 /\ \A f \in fes : f.seq = nextL => f \in Landings

(***************************************************************************)
(* Airplanes are neither lost nor duplicated although every module counts  *)
(* its own and Parking makes new ones, and numAirplanes is the number of   *)
(* parking times running (Parking.cc:15, 21).                              *)
(***************************************************************************)
AirplanesConserved ==
  /\ numAirplanes = Cardinality(At("parking", "unnamed"))
  /\ created = Len(skyTimes) + Cardinality({e \in fes : e.msg = "Airplane"})
                 + numAirplanes + Len(toTimes) + left

(***************************************************************************)
(* The inductive invariant behind the properties of the runway.  A message *)
(* over a gate is delivered at the instant it was sent, the pointer nextL  *)
(* tells the landing from all other events, and the right to use the       *)
(* runway goes round: Sky, request, grant, TakeOff, return.                *)
(***************************************************************************)
Unique(S) == \A e, f \in S : e = f

EventsAhead == \A e \in fes : now <= e.time /\ e.seq < seq

MessagesInstant == \A e \in Requests \cup Grants \cup Returns : e.time = now

LandingKnown ==
  /\ nextL < seq
  /\ \A e \in fes : e.seq = nextL <=> e \in Landings
  /\ nextL = 0 => /\ fes = At("sky", "arrival")
                   /\ toTimes = <<>>

WithSky ==
  /\ skyAvailable /\ ~toAvailable
  /\ Grants = {} /\ Returns = {} /\ TakeOffs = {}
  /\ toTimes # <<>> <=> Requests # {}

RequestKept ==
  /\ ~skyAvailable /\ ~toAvailable /\ usingRunway
  /\ Grants = {} /\ Returns = {} /\ TakeOffs = {} /\ Requests = {}
  /\ toTimes # <<>>

BeingGranted ==
  /\ ~skyAvailable /\ ~toAvailable /\ ~usingRunway
  /\ Grants # {} /\ Returns = {} /\ TakeOffs = {} /\ Requests = {}
  /\ toTimes # <<>>

WithTakeOff ==
  /\ ~skyAvailable /\ toAvailable /\ ~usingRunway
  /\ Grants = {} /\ Returns = {} /\ TakeOffs # {} /\ Requests = {}
  /\ toTimes # <<>>

BeingReturned ==
  /\ ~skyAvailable /\ ~toAvailable /\ ~usingRunway
  /\ Grants = {} /\ Returns # {} /\ TakeOffs = {}
  /\ toTimes # <<>> <=> Requests # {}
  /\ \A p \in Returns, q \in Requests : Precedes(p, q)

RightGoesRound ==
  WithSky \/ RequestKept \/ BeingGranted \/ WithTakeOff \/ BeingReturned

AllUnique ==
  /\ Unique(Landings) /\ Unique(TakeOffs)
  /\ Unique(Requests) /\ Unique(Grants) /\ Unique(Returns)

LandingQueued ==
  /\ usingRunway <=> Landings # {}
  /\ usingRunway => skyTimes # <<>>

RunwayInv ==
  /\ TypeOK
  /\ EventsAhead
  /\ MessagesInstant
  /\ LandingKnown
  /\ AllUnique
  /\ LandingQueued
  /\ RightGoesRound

(***************************************************************************)
(* The inductive invariant behind the refinement and the conservation of   *)
(* airplanes.  Airplanes pass from module to module within the instant;    *)
(* Sky does not leave the runway unused while it has the right to it and   *)
(* airplanes wait; a landing that a request waits for began before the     *)
(* present instant, otherwise it would have been cancelled.                *)
(***************************************************************************)
TransfersInstant == \A e \in fes : e.msg = "Airplane" => e.time = now

SkyNotIdle == skyAvailable /\ skyTimes # <<>> => usingRunway

KeptLandingOlder ==
  /\ nextLtime <= now
  /\ ~skyAvailable /\ usingRunway => nextLtime < now

MovesInv ==
  /\ IsFiniteSet(fes)
  /\ TransfersInstant
  /\ SkyNotIdle
  /\ KeptLandingOlder
  /\ AirplanesConserved

-----------------------------------------------------------------------------
(* Liveness.                                                               *)

(***************************************************************************)
(* Every airplane leaves: with the event loop running, no request, grant   *)
(* or return is forgotten (Sky.cc:94, 115; TakeOff.cc:94).                 *)
(***************************************************************************)
EveryoneLeaves == <>(left = MaxPlanes)

-----------------------------------------------------------------------------
(* Refinement.                                                             *)

Parked    == numAirplanes + Cardinality(At("runway.sky", "Airplane")
                               \cup At("parking.park", "Airplane"))
Departing == Len(toTimes) + Cardinality(At("takeOff.park", "Airplane"))
Departed  == left + Cardinality(At("runway.takeOff", "Airplane"))
Operation == IF usingRunway THEN "land"
             ELSE IF TakeOffs # {} THEN "takeoff" ELSE "none"

Tower == INSTANCE PriorityRunway WITH
  clock     <- now,
  landing   <- Len(skyTimes),
  parked    <- Parked,
  departing <- Departing,
  gone      <- Departed,
  op        <- Operation,
  since     <- nextLtime

(***************************************************************************)
(* The four modules and their messages implement the runway that gives     *)
(* take-offs priority: although every decision takes several messages, it  *)
(* is complete before time passes (cancelEvent() in Sky.cc:109-113).       *)
(***************************************************************************)
ImplementsPriority == Tower!PrioritySpec

-----------------------------------------------------------------------------
(* Waiting times.                                                          *)

TakeoffsShorter == ~par.expo /\ par.to <= par.tl

(***************************************************************************)
(* With constant times, take-offs no longer than landings, the response    *)
(* time TakeOff.cc:85 records is at most a landing and a take-off whatever *)
(* the load: the landing in progress, then the take-off itself.  TakeOff   *)
(* may find several airplanes queued and Sky several waiting, but the      *)
(* airplanes come from the parking at least a landing time apart, and the  *)
(* end of a landing answers a pending request before the next airplane     *)
(* lands (Sky.cc:94-97).                                                   *)
(***************************************************************************)
TakeoffsPunctual ==
  [][TakeoffsShorter /\ Len(toTimes') < Len(toTimes)
       => now' - Head(toTimes) <= par.tl + par.to]_vars

(***************************************************************************)
(* If moreover airplanes arrive at least tl + to apart, the response time  *)
(* Sky.cc:88 records has the same bound, cancelled landings                *)
(* (Sky.cc:109-113) included: an airplane waits for one take-off at most.  *)
(***************************************************************************)
LandingsPunctual ==
  [][TakeoffsShorter /\ par.lambda >= par.tl + par.to
       /\ Len(skyTimes') < Len(skyTimes)
       => now' - Head(skyTimes) <= par.tl + par.to]_vars

(***************************************************************************)
(* The inductive invariant behind TakeoffsPunctual.  The airplanes on      *)
(* their way to TakeOff, from the beginning of their landing on, come      *)
(* there at times a landing time apart, and so came those in its queue;    *)
(* the first of the queue waits for a landing at most and then takes off.  *)
(* Spaced is stated for any event set F, queue Q and time t.               *)
(***************************************************************************)
OnTheWay(F) ==
  {e \in F : \/ e.to = "sky" /\ e.msg = "landing"
             \/ e.to \in {"runway.sky", "parking.park", "parking", "takeOff.park"}}

ReadyAt(e) == IF e.to \in {"parking", "takeOff.park"} THEN e.time
              ELSE e.time + par.tp

Spaced(F, Q, t) ==
  /\ \A e, f \in OnTheWay(F) :
       e # f => \/ ReadyAt(e) + par.tl <= ReadyAt(f)
                \/ ReadyAt(f) + par.tl <= ReadyAt(e)
  /\ \A e \in OnTheWay(F), i \in 1..Len(Q) : Q[i] + par.tl <= ReadyAt(e)
  /\ \A e \in OnTheWay(F) : e.to # "sky" => ReadyAt(e) <= t + par.tp
  /\ \A i, j \in 1..Len(Q) : i < j => Q[i] + par.tl <= Q[j]
  /\ \A i \in 1..Len(Q) : Q[i] <= t

FirstServed ==
  /\ \A l \in Landings : l.time <= now + par.tl
  /\ Requests # {} => Head(toTimes) = now
  /\ ~skyAvailable /\ usingRunway =>
       \A l \in Landings : l.time <= Head(toTimes) + par.tl
  /\ Grants # {} => now <= Head(toTimes) + par.tl
  /\ \A o \in TakeOffs : o.time <= Head(toTimes) + par.tl + par.to

PunctualInv == TakeoffsShorter => Spaced(fes, toTimes, now) /\ FirstServed
=============================================================================
