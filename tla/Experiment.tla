----------------------------- MODULE Experiment -----------------------------
(***************************************************************************)
(* What omnetpp.ini makes of a simulation beside the times: the warm-up    *)
(* period it computes from them, and which of the four generators          *)
(* (num-rngs) each random time comes from.  Both are observed along the    *)
(* steps of AirTrafficControl and never influence them.                    *)
(***************************************************************************)
EXTENDS AirportSafety

VARIABLE drawn   \* the kinds of times drawn from each global generator

experimentVars == <<vars, drawn>>

-----------------------------------------------------------------------------
(* Warm-up.                                                                *)

\* **.scaling of the deterministic and the exponential configurations
Scaling == IF par.isInterArrivalTimeRandom THEN 5 ELSE 1

\* MUTANT: the period includes the instant of the first departure
Mut_WarmupPeriod ==
  Scaling * (par.interArrivalTime + par.landingTime
               + par.parkingTime + par.takeoffTime) + 1

\* The argument of setWarmupPeriod(scaling * warmup).
WarmupPeriod ==
  Scaling * (par.interArrivalTime + par.landingTime
               + par.parkingTime + par.takeoffTime)

-----------------------------------------------------------------------------
(* Random-number streams.                                                  *)

\* The modules' full paths in the network, and the paths of the .rng-k keys.
Path == [airspace    |-> <<"AirTrafficControl", "airspace">>,
         parkingarea |-> <<"AirTrafficControl", "airport", "parkingarea">>]

RngKeys == {[path |-> <<"airspace">>,    local |-> 0, global |-> 0],
            [path |-> <<"airspace">>,    local |-> 1, global |-> 1],
            [path |-> <<"parkingarea">>, local |-> 0, global |-> 2],
            [path |-> <<"parkingarea">>, local |-> 1, global |-> 3]}

\* The kernel applies a key without wildcards to the module with exactly that
\* full path; a generator no key applies to keeps its own number.
GlobalRng(module, k) ==
  LET keys == {key \in RngKeys : key.path = Path[module] /\ key.local = k}
  IN  IF keys = {} THEN k ELSE (CHOOSE key \in keys : TRUE).global

\* The random times behind the events of a set: the handler that schedules
\* the event draws its delay.
Drawn(events) ==
  {d \in {[kind |-> "nextArrival",     module |-> "airspace",    rng |-> 0],
          [kind |-> "nextLandingTime", module |-> "airspace",    rng |-> 1],
          [kind |-> "nextParkingTime", module |-> "parkingarea", rng |-> 0],
          [kind |-> "nextTakeoffTime", module |-> "parkingarea", rng |-> 1]} :
     \E e \in events :
       CASE d.kind = "nextArrival" ->
              e.self /\ e.to = "airspace" /\ par.isInterArrivalTimeRandom
         [] d.kind = "nextLandingTime" ->
              ~e.self /\ e.to = "parkingarea" /\ par.isLandingTimeRandom
         [] d.kind = "nextParkingTime" ->
              e.self /\ e.to = "parkingarea" /\ par.isParkingTimeRandom
         [] OTHER ->
              ~e.self /\ e.to = "airspace" /\ par.isTakeoffTimeRandom}

KindsFrom(rng, draws) == {d.kind : d \in {d \in draws : GlobalRng(d.module, d.rng) = rng}}

-----------------------------------------------------------------------------

ExperimentInit ==
  /\ Init
  /\ drawn = [g \in 0..3 |-> KindsFrom(g, Drawn(fes))]

ExperimentNext ==
  /\ Next
  /\ drawn' = [g \in 0..3 |-> drawn[g] \cup KindsFrom(g, Drawn(fes' \ fes))]

ExperimentSpec == ExperimentInit /\ [][ExperimentNext]_experimentVars

-----------------------------------------------------------------------------
(* The beginning of a simulation with constant times.                      *)

ConstantTimes ==
  \A c \in Configs : ~ (c.isInterArrivalTimeRandom \/ c.isLandingTimeRandom
                          \/ c.isParkingTimeRandom \/ c.isTakeoffTimeRandom)

\* Landings alone do not overload the runway.
LandingsKeepUp == par.interArrivalTime >= par.landingTime

\* A take-off's waiting time is sampled when it begins.
TakeoffsBegun == stats["DepartQueueWaitingTime"].count
LastWait      == stats["DepartQueueWaitingTime"].last

(***************************************************************************)
(* The warm-up period of the deterministic configurations (omnetpp.ini)    *)
(* ends where the system fills up: no airplane is gone before, whatever    *)
(* the queues do, and the first one is gone at most a landing time later,  *)
(* although its take-off may meet the landings of the airplanes behind it  *)
(* (Airspace.cc:101 counts it in departedPlanes).                          *)
(***************************************************************************)
FirstDeparture ==
  /\ now < WarmupPeriod => departedPlanes = 0
  /\ LandingsKeepUp /\ WarmupPeriod + par.landingTime < now => departedPlanes > 0

(***************************************************************************)
(* Until the first take-off nobody waits to land, and the first airplane   *)
(* whose parking time is over gets the runway next, after the landing in   *)
(* progress at most (ControlTower.cc: notify() and completed()).  It holds *)
(* also when arrivals coincide with the ends of landings: handleMessage()  *)
(* sends the airplane to land before it schedules the next arrival, so the *)
(* strip is free when that one comes.                                      *)
(***************************************************************************)
FirstTakeoffNext ==
  LandingsKeepUp =>
    /\ TakeoffsBegun = 0 => holdingQueue = << >>
    /\ TakeoffsBegun = 1 => LastWait <= par.landingTime

(***************************************************************************)
(* The inductive invariants behind them.  No event of the set F comes      *)
(* before the first airplane could have caused one of its kind, and no     *)
(* airplane waits before the first one could.                              *)
(***************************************************************************)
FirstArrival == par.interArrivalTime
FirstLanded  == FirstArrival + par.landingTime
FirstReady   == FirstLanded + par.parkingTime
FirstGone    == FirstReady + par.takeoffTime

NotEarly(F) ==
  \A e \in F :
    /\ e.self /\ e.to = "airspace" => FirstArrival <= e.time
    /\ ~e.self /\ e.to = "parkingarea" => FirstLanded <= e.time
    /\ e.self /\ e.to = "parkingarea" => FirstReady <= e.time
    /\ ~e.self /\ e.to = "airspace" => FirstGone <= e.time

Timely ==
  /\ NotEarly(fes)
  /\ holdingQueue # << >> => FirstArrival <= now
  /\ departQueue # << >> => FirstReady <= now
  /\ now < FirstGone => departedPlanes = 0

(***************************************************************************)
(* Before the first take-off the landing in progress ends before the next  *)
(* arrival and within a landing time of the airplane that waits for it,    *)
(* and the first airplane is somewhere on its undelayed way.               *)
(***************************************************************************)
LandingSoonOver ==
  \A l \in LandingEvents :
    /\ l.time <= now + par.landingTime
    /\ \A a \in ArrivalEvents : Precedes(l, a)
    /\ departQueue # << >> =>
         l.time <= Head(departQueue).queueArrivalTime + par.landingTime

FirstOnItsWay ==
  \/ \E e \in ArrivalEvents : e.time <= FirstArrival
  \/ \E e \in LandingEvents : e.time <= FirstLanded
  \/ \E e \in ParkedEvents : e.time <= FirstReady
  \/ departQueue # << >> /\ Head(departQueue).queueArrivalTime <= FirstReady

BeforeTakeoffs == holdingQueue = << >> /\ LandingSoonOver /\ FirstOnItsWay

FirstTakingOff ==
  \E e \in TakeoffEvents : e.time <= FirstGone + par.landingTime

TransientInv ==
  LandingsKeepUp =>
    /\ TakeoffsBegun = 0 => BeforeTakeoffs
    /\ TakeoffsBegun > 0 /\ departedPlanes = 0 => FirstTakingOff
    /\ ~running => departedPlanes > 0
    /\ TakeoffsBegun = 1 => LastWait <= par.landingTime

-----------------------------------------------------------------------------

(***************************************************************************)
(* omnetpp.ini:11-14 gives each kind of random time a generator of its own.*)
(***************************************************************************)
OneKindPerGenerator ==
  \A g \in 0..3 : \A k, l \in drawn[g] : k = l
=============================================================================
