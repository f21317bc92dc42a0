------------------------------- MODULE EventSet -------------------------------
(***************************************************************************)
(* The OMNeT++ kernel under the message-based control tower of             *)
(* "Other Projects/ControlTowrMaEl": its modules call send(), scheduleAt() *)
(* and cancelEvent() only.  External code, modelled from these calls.  A   *)
(* message sent over a gate is an event of the current time, so even       *)
(* decisions of one instant pass through the event set.                    *)
(***************************************************************************)
EXTENDS Naturals

CONSTANTS
  Settings,   \* parameter assignments a run may be started with
  Samples     \* values an exponential draw may return once quantised

ASSUME SettingsAssumption ==
  Settings \subseteq [expo : BOOLEAN, lambda : Nat, tl : Nat, tp : Nat, to : Nat]
ASSUME SamplesAssumption == Samples \subseteq Nat

VARIABLES
  par,   \* the parameters of this run (expo, lambda, tl, tp, to)
  now,   \* simTime()
  fes,   \* the future event set
  seq    \* insertion number of the next event; it identifies the message

\* Where a message arrives: at an input gate, or at a module that sent it to
\* itself.
Gates == {"sky", "sky.inTakeoff", "runway.sky", "runway.takeOff",
          "parking", "parking.park", "takeOff", "takeOff.park", "takeOff.inSky"}

\* "unnamed" is the empty name of Parking's self-messages.
Names == {"arrival", "landing", "runwayRequest", "runwayAvailable", "Airplane",
          "takeOff", "unnamed"}

Events == [time : Nat, seq : Nat, to : Gates, msg : Names]

\* The k-th message the current handler inserts.
Event(to, msg, delay, k) ==
  [time |-> now' + delay, seq |-> seq + k, to |-> to, msg |-> msg]

Precedes(e, f) == e.time < f.time \/ (e.time = f.time /\ e.seq < f.seq)

\* The event loop hands e, the first event, to its handler, which runs to its
\* end and inserts at most two messages.
Deliver(e, to, msg) ==
  /\ e.to = to /\ e.msg = msg
  /\ \A f \in fes \ {e} : Precedes(e, f)
  /\ now' = e.time
  /\ seq' = seq + 2
  /\ UNCHANGED par

Replace(gone, inserted) == fes' = (fes \ gone) \cup inserted

\* The values a handler may obtain for a duration of the given mean.
Draw(mean) == IF par.expo THEN Samples ELSE {mean}

\* The events of fes that arrive at a gate under a name.
At(to, msg) == {e \in fes : e.to = to /\ e.msg = msg}
=============================================================================
