--------------------------------- MODULE Sky ---------------------------------
(***************************************************************************)
(* Sky: airplanes queue here for landing, and Sky owns the runway unless   *)
(* TakeOff asked for it.  An airplane stays in the queue until it landed;  *)
(* the queue is modelled by the arrival times kept beside it (times).      *)
(***************************************************************************)
EXTENDS EventSet, Sequences

CONSTANT MaxPlanes   \* the bound: the last airplane schedules no other one

VARIABLES
  usingRunway,    \* a landing is going on
  skyAvailable,   \* runwayAvailable: no request of TakeOff is pending
  nextL,          \* the last landing event scheduled; 0: never assigned
  nextLtime,      \* the time it was scheduled at
  skyTimes,       \* airplanes, times: the queue
  created         \* airplanes that arrived so far

skyVars == <<usingRunway, skyAvailable, nextL, nextLtime, skyTimes, created>>

InitSky ==
  /\ usingRunway = FALSE
  /\ skyAvailable = TRUE
  /\ nextL = 0
  /\ nextLtime = 0
  /\ skyTimes = <<>>
  /\ created = 0

Landing(delay, k) == Event("sky", "landing", delay, k)
Granted(k) == Event("takeOff.inSky", "runwayAvailable", 0, k)

\* MUTANT: the pointer is not kept
Mut_scheduleLanding(k) ==
  usingRunway' = TRUE /\ nextLtime' = now' /\ UNCHANGED nextL

scheduleLanding(k) ==
  usingRunway' = TRUE /\ nextL' = seq + k /\ nextLtime' = now'

NoLanding == UNCHANGED <<usingRunway, nextL, nextLtime>>

scheduleArrival(delay) ==
  IF created' < MaxPlanes THEN {Event("sky", "arrival", delay, 1)} ELSE {}

Arrives(e) ==
  /\ Deliver(e, "sky", "arrival")
  /\ created' = created + 1
  /\ skyTimes' = Append(skyTimes, now')
  /\ UNCHANGED skyAvailable

\* MUTANT: the test looks at the queue only
Mut_LandsAtOnce == skyTimes = <<>>

LandsAtOnce == skyTimes = <<>> /\ skyAvailable

ArrivalLands(e) ==
  /\ Arrives(e)
  /\ LandsAtOnce
  /\ scheduleLanding(0)
  /\ \E t \in Draw(par.tl), d \in Draw(par.lambda) :
       Replace({e}, {Landing(t, 0)} \cup scheduleArrival(d))

ArrivalWaits(e) ==
  /\ Arrives(e)
  /\ ~LandsAtOnce
  /\ NoLanding
  /\ \E d \in Draw(par.lambda) : Replace({e}, scheduleArrival(d))

\* A landing event that found the queue empty would fail in pop(): here it
\* would be stuck (see QueuedWhenServed).
Lands(e) ==
  /\ Deliver(e, "sky", "landing")
  /\ skyTimes # <<>>
  /\ skyTimes' = Tail(skyTimes)
  /\ UNCHANGED <<skyAvailable, created>>

\* MUTANT: the airplane is sent through a gate the network does not have
Mut_Landed == Event("runway.park", "Airplane", 0, 0)

Landed == Event("runway.sky", "Airplane", 0, 0)

\* MUTANT: the airplanes queued land before a pending request is answered
Mut_LandingAnswersRequest(e) ==
  /\ Lands(e)
  /\ ~skyAvailable
  /\ \/ /\ skyTimes' # <<>>
        /\ scheduleLanding(1)
        /\ \E t \in Draw(par.tl) : Replace({e}, {Landed, Landing(t, 1)})
     \/ /\ skyTimes' = <<>>
        /\ usingRunway' = FALSE
        /\ UNCHANGED <<nextL, nextLtime>>
        /\ Replace({e}, {Landed, Granted(1)})

LandingAnswersRequest(e) ==
  /\ Lands(e)
  /\ ~skyAvailable
  /\ usingRunway' = FALSE
  /\ UNCHANGED <<nextL, nextLtime>>
  /\ Replace({e}, {Landed, Granted(1)})

LandingFollowed(e) ==
  /\ Lands(e)
  /\ skyAvailable /\ skyTimes' # <<>>
  /\ scheduleLanding(1)
  /\ \E t \in Draw(par.tl) : Replace({e}, {Landed, Landing(t, 1)})

LandingEndsQueue(e) ==
  /\ Lands(e)
  /\ skyAvailable /\ skyTimes' = <<>>
  /\ usingRunway' = FALSE
  /\ UNCHANGED <<nextL, nextLtime>>
  /\ Replace({e}, {Landed})

\* A landing that has just been scheduled gives way.
\* MUTANT: it keeps the runway
Mut_JustScheduled == FALSE

\* MUTANT: whenever it was scheduled
Mut_AnyScheduled == TRUE

JustScheduled == nextLtime = now'

StillUsing == usingRunway /\ ~JustScheduled

handleStopFromTakeoff(e) ==
  /\ Deliver(e, "sky.inTakeoff", "runwayRequest")
  /\ skyAvailable' = FALSE
  /\ usingRunway' = StillUsing
  /\ Replace({e} \cup {f \in fes : JustScheduled /\ f.seq = nextL},
             IF StillUsing THEN {} ELSE {Granted(0)})
  /\ UNCHANGED <<nextL, nextLtime, skyTimes, created>>

\* MUTANT: the flag is not set
Mut_Returned(e) ==
  /\ Deliver(e, "sky.inTakeoff", "runwayAvailable")
  /\ UNCHANGED <<skyAvailable, skyTimes, created>>

Returned(e) ==
  /\ Deliver(e, "sky.inTakeoff", "runwayAvailable")
  /\ skyAvailable' = TRUE
  /\ UNCHANGED <<skyTimes, created>>

ReturnedAndLanding(e) ==
  /\ Returned(e)
  /\ skyTimes # <<>>
  /\ scheduleLanding(0)
  /\ \E t \in Draw(par.tl) : Replace({e}, {Landing(t, 0)})

ReturnedIdle(e) ==
  /\ Returned(e)
  /\ skyTimes = <<>>
  /\ NoLanding
  /\ Replace({e}, {})

SkyStep(e) ==
  \/ ArrivalLands(e)
  \/ ArrivalWaits(e)
  \/ LandingAnswersRequest(e)
  \/ LandingFollowed(e)
  \/ LandingEndsQueue(e)
  \/ handleStopFromTakeoff(e)
  \/ ReturnedAndLanding(e)
  \/ ReturnedIdle(e)
=============================================================================
