------------------------------- MODULE TakeOff -------------------------------
(***************************************************************************)
(* TakeOff: airplanes queue here for take-off.  The first one asks Sky for *)
(* the runway, which is given back when the queue is empty again.          *)
(***************************************************************************)
EXTENDS EventSet, Sequences

VARIABLES
  toAvailable,   \* runwayAvailable: Sky granted the runway
  toTimes        \* airplanes, times: the queue

takeOffVars == <<toAvailable, toTimes>>

InitTakeOff == toAvailable = FALSE /\ toTimes = <<>>

scheduleTakeOff(delay, k) == Event("takeOff", "takeOff", delay, k)

\* MUTANT: a request for every airplane that finds the runway unavailable
Mut_FirstInQueue == toTimes = <<>> \/ ~toAvailable

FirstInQueue == toTimes = <<>>

\* The second alternative is never taken: see QueuedWhenServed.
handleAirplaneFromParking(e) ==
  /\ Deliver(e, "takeOff.park", "Airplane")
  /\ toTimes' = Append(toTimes, now')
  /\ UNCHANGED toAvailable
  /\ \E t \in Draw(par.to) :
       Replace({e}, IF ~FirstInQueue THEN {}
                    ELSE IF toAvailable THEN {scheduleTakeOff(t, 0)}
                    ELSE {Event("sky.inTakeoff", "runwayRequest", 0, 0)})

handleOkFromSky(e) ==
  /\ Deliver(e, "takeOff.inSky", "runwayAvailable")
  /\ toAvailable' = TRUE
  /\ UNCHANGED toTimes
  /\ \E t \in Draw(par.to) : Replace({e}, {scheduleTakeOff(t, 0)})

TakesOff(e) ==
  /\ Deliver(e, "takeOff", "takeOff")
  /\ toTimes # <<>>
  /\ toTimes' = Tail(toTimes)

Gone == Event("runway.takeOff", "Airplane", 0, 0)

TakeOffFollowed(e) ==
  /\ TakesOff(e)
  /\ toTimes' # <<>>
  /\ \E t \in Draw(par.to) : Replace({e}, {Gone, scheduleTakeOff(t, 1)})
  /\ UNCHANGED toAvailable

\* MUTANT: Sky is not told
Mut_Return == {}

Return == {Event("sky.inTakeoff", "runwayAvailable", 0, 1)}

\* MUTANT: runwayAvailable is not reset
Mut_StillAvailable == toAvailable

StillAvailable == FALSE

TakeOffEndsQueue(e) ==
  /\ TakesOff(e)
  /\ toTimes' = <<>>
  /\ toAvailable' = StillAvailable
  /\ Replace({e}, {Gone} \cup Return)

TakeOffStep(e) ==
  \/ handleAirplaneFromParking(e)
  \/ handleOkFromSky(e)
  \/ TakeOffFollowed(e)
  \/ TakeOffEndsQueue(e)
=============================================================================
