------------------------------ MODULE SimKernel ------------------------------
(***************************************************************************)
(* The part of the OMNeT++ kernel the simulator is written against: the    *)
(* simulation clock, the future event set, the run's parameters and        *)
(* endSimulation().  It is external code, modelled from how the three      *)
(* modules of AirTrafficControl/src use it (scheduleAt, sendDelayed,       *)
(* simTime, exponential, par, endSimulation).                              *)
(*                                                                         *)
(* Times are integers: simtime-resolution = ms quantises every time, and   *)
(* with it every exponential draw, which may round to 0.                   *)
(***************************************************************************)
EXTENDS Naturals

CONSTANTS
  Configs,   \* parameter assignments a run may be started with (omnetpp.ini)
  Samples    \* values an exponential draw may return once quantised

(***************************************************************************)
(* The parameters of Airspace.ned and ParkingArea.ned that the handlers    *)
(* read (initialize() only passes the warm-up ones on to the kernel).      *)
(***************************************************************************)
Parameters ==
  [isInterArrivalTimeRandom : BOOLEAN, interArrivalTime : Nat,
   isLandingTimeRandom      : BOOLEAN, landingTime      : Nat,
   isParkingTimeRandom      : BOOLEAN, parkingTime      : Nat,
   isTakeoffTimeRandom      : BOOLEAN, takeoffTime      : Nat,
   totalSamples             : Nat]

ASSUME ConfigsAssumption == Configs \subseteq Parameters
ASSUME SamplesAssumption == Samples \subseteq Nat

VARIABLES
  par,       \* the parameters of this run, fixed before the first event
  now,       \* simTime(): the time of the last event taken from the fes
  fes,       \* the future event set
  seq,       \* insertion number of the next event put into the fes
  running    \* FALSE once endSimulation() was called

kernelVars == <<par, now, fes, seq, running>>

(***************************************************************************)
(* An airplane is an Airplane message.  id stands for the object's         *)
(* identity; the two times are 0 until the handlers set them.              *)
(***************************************************************************)
Airplanes == [id : Nat, timestamp : Nat, queueArrivalTime : Nat]

\* MUTANT: the queue time starts at the empty-queue sentinel
Mut_NewAirplane(n) == [id |-> n, timestamp |-> 0, queueArrivalTime |-> 0 - 1]

NewAirplane(n) == [id |-> n, timestamp |-> 0, queueArrivalTime |-> 0]

(***************************************************************************)
(* An event is the delivery of an airplane to a module: a self-message if  *)
(* the module scheduled it, otherwise a message sent to it by the other    *)
(* module, delayed by the time the runway operation takes.                 *)
(***************************************************************************)
Modules == {"airspace", "parkingarea"}

Events == [time : Nat, seq : Nat, to : Modules, self : BOOLEAN,
           plane : Airplanes]

SelfMessage(m, t, n, p) ==
  [time |-> t, seq |-> n, to |-> m, self |-> TRUE, plane |-> p]

Message(m, t, n, p) ==
  [time |-> t, seq |-> n, to |-> m, self |-> FALSE, plane |-> p]

(***************************************************************************)
(* The kernel delivers the earliest event, and events of the same time in  *)
(* the order they were inserted.                                           *)
(***************************************************************************)
Precedes(e, f) == e.time < f.time \/ (e.time = f.time /\ e.seq < f.seq)

IsNext(e) == \A f \in fes \ {e} : Precedes(e, f)

(***************************************************************************)
(* The event loop hands event e to module m.  The handler's whole effect   *)
(* is one step: the kernel is single-threaded and a handler runs to its    *)
(* end.  A handler inserts at most two events, which get the insertion     *)
(* numbers seq and seq + 1.                                                *)
(***************************************************************************)
Deliver(e, m, self) ==
  /\ running
  /\ e.to = m /\ e.self = self
  /\ IsNext(e)
  /\ now' = e.time
  /\ seq' = seq + 2
  /\ UNCHANGED par

\* The values a handler may obtain for a time that is constant or random.
Draw(isRandom, mean) == IF isRandom THEN Samples ELSE {mean}
=============================================================================
