# Verification of the air traffic control simulator

TLA+ models, TLC runs and TLAPS proofs for `AirTrafficControl/`, an OMNeT++
simulation of an airport with one runway: airplanes arrive, wait for permission
to land, land, park, wait for permission to take off, take off and leave. The
control tower serves the airplane with the largest waiting time. Beside it the
project covers what its experiments depend on (warm-up period, random-number streams,
the 2^k r factorial analysis) and the repository's second control tower, in which
modules exchange messages instead of calling each other.

## 1. Inventory of the system

| Component | Code | State | Operations |
|---|---|---|---|
| Control tower | `AirTrafficControl/src/ControlTower.{cc,h}`, `ControTower.ned` | `landingStripOccupied` | `notify()`: grants a free strip; `completed()`: frees the strip or hands it over |
| Airspace | `Airspace.{cc,h,ned}` | `holdingQueue`, `departedPlanes` | arrival (self-message), end of take-off (gate message), `getMaxQueueTime()`, `go()` |
| Parking area | `ParkingArea.{cc,h,ned}` | `departQueue`, `numParked` | parking time over (self-message), end of landing (gate message), `getMaxQueueTime()`, `go()` |
| Airplane | `Airplane.msg`, `Airplane_m.{cc,h}` | `timestamp`, `queueArrivalTime` | set by the handlers |
| Network, statistics | `simulations/AirTrafficControl.ned`, `Airport.ned` | the recorders | `emit()` of eight signals |
| Experiments | `simulations/omnetpp.ini` | parameters, grids, `totalSamples`, warm-up period, random-number streams | the length of the warm-up period; the choice of a generator |
| Factorial analysis | `simulations/results/factorial2kr.py`, `makeInput()` of `util.py` | observations, `k`, `r`, sign table, effects, residuals | `makeInput()`, loading line by line, `analyze()` |
| Second control tower | `Other Projects/ControlTowrMaEl/ControlTower/` | `Sky`: queue, `usingRunway`, `runwayAvailable`, `nextL`, `nextLtime`; `TakeOff`: queue, `runwayAvailable`; `Parking`: `numAirplanes` | arrival, end of landing, request, return; airplane from parking, grant, end of take-off; parking, forwarding |
| Plots | the rest of `util.py` | - | data frames, distributions, plots |
| OMNeT++ kernel | external | clock, future event set | `scheduleAt`, `sendDelayed`, `exponential`, `endSimulation` |

**How they interact.** An airplane is a message. The airspace sends it to the
parking area, delayed by the landing time; the parking area sends it back,
delayed by the take-off time. While such a message is in flight, its airplane is
on the runway. Parking, and the arrival of the next airplane, are
self-messages. Inside one event the modules call each other directly: a handler
calls `notify()` or `completed()`; `completed()` calls both
`getMaxQueueTime()` and then possibly `go()` of either module, which sends the
next message. The kernel is single-threaded, so one event with all these calls
is one atomic step; the interleaving is in the order of events.

In the second control tower nobody owns the runway. `Sky` has it until `TakeOff`
sends a request; it is granted at once, or at the end of the landing in progress,
or by cancelling a landing that was scheduled at this same instant. `TakeOff`
keeps the runway until its queue is empty and sends it back. Requests, grants and
returns are messages without delay, so other events of the same instant can come
between a decision and its effect.

**What is hard.**
- *Same-instant events.* Times are rounded to milliseconds, and in the
  constant-time regimes many events coincide. The kernel delivers them in the
  order of insertion, so the order depends on when unrelated events were
  scheduled.
- *The hand-over.* The tower's flag, the two queues and the messages in flight
  are three records of who has the runway, kept by three modules. Only
  `completed()` wakes a waiting airplane; forgetting one stops it for ever.
- *Sentinels and zero.* `-1.0` stands for an empty queue next to times that
  start at 0; draws can round to 0, so operations can take no time at all.
- *One field for two queues.* `queueArrivalTime` is used for the holding queue
  and then for the departing queue.
- *Statistics as separate state.* Samples are emitted from branches that do not
  look at what they describe (a literal 0 for a queue size, `++`/`--` for parked
  airplanes, the whole runway use at the start of an operation).
- *The end.* The last departure ends the simulation without `completed()`.
- *Two records of the runway.* In the second tower `Sky` and `TakeOff` each keep a
  flag and each schedule operations on their own; a request can cross a return,
  and `cancelEvent()` gets a pointer that starts uninitialised.
- *The beginning.* The warm-up period assumes that the system fills up without
  delays; with constant times arrivals, ends of landings and ends of parking times
  can fall on the same instants from the first airplane on.
- *Streams.* Which generator a draw uses depends on how the keys of `omnetpp.ini`
  match module paths.
- *Long and short operations.* The second tower gives the runway back only when
  its take-off queue is empty, and airplanes come to that queue a landing time
  apart: whether waits accumulate hangs on how the two times compare.
- *Order as meaning.* `factorial2kr.py` knows a configuration only by its line
  number, fixed by a `sort_values` in another file; residuals are stored under a
  computed mean, which rows may share.

What makes each component correct: the tower never grants a runway in use, never
leaves one idle with someone waiting, and picks the oldest request (a landing on
a tie); the airspace and the parking area keep FIFO order, lose and duplicate no
airplane and keep arrivals going; the recorders' samples agree with the state
and with each other; the simulation ends at departure `totalSamples`. In the
second tower the right to use the runway is in one place at any time, every wait
for take-off has one request behind it, and only landings are cancelled. The
analysis assigns every effect to the factor its letter names and accounts for
every observation once.

The hazards, each at its line with the properties that would catch it, are in
`PROJECT.json`.

## 2. Modules

| Module | Models |
|---|---|
| `SimKernel` | the kernel as used: `now`, the future event set `fes` ordered by time and insertion number, `running`; airplanes and events as records; `Draw`, a constant or any value of `Samples` |
| `Statistics` | `stats`: count, sum and last sample of every signal; `Emit` |
| `ControlTower` | `landingStripOccupied`, `notify`, the decision of `completed()` as `NextToMove` |
| `Airspace` | `holdingQueue`, `departedPlanes`; `ArrivalGranted`, `ArrivalQueued` (the two ways through the arrival branch), `AirspaceGo` |
| `ParkingArea` | `departQueue`, `numParked`; `ParkingExpiredGranted`, `ParkingExpiredQueued`, `ParkingAreaGo` |
| `AirTrafficControl` | the network: `completed` (`FreeStrip`, `HandOverToLanding`, `HandOverToTakeoff`), the handlers that call it (`Landed`, `Departed`, `LastDeparted`), `Init`, `Next`, `Spec` |
| `AirportSafety` | safety properties and the inductive invariants `RunwayInv` (the runway) and `CountInv` (counters and samples) |
| `TowerSpec` | abstract specification: one runway, one set of requests, served oldest first; written from the steps of the repository's `README.md` |
| `AirportRefinement` | the refinement mapping and `ImplementsTower` |
| `AirportTimes` | accounting of times with the inductive invariant `BalanceInv`, constant-time regimes with the inductive invariant `LightInv`, termination |
| `Regimes` | the configurations and grids of `omnetpp.ini` |
| `MCAirport` | sets of configurations for TLC |
| `Experiment` | on top of `AirportSafety`: the warm-up period, `drawn`, the kinds of random times each of the four generators supplies, and the beginning of a simulation with constant times with the inductive invariants `Timely` and `TransientInv` |
| `EventSet` | the kernel as the second tower uses it: `send()`, `scheduleAt()`, `cancelEvent()`; an event's insertion number identifies the message |
| `Sky`, `TakeOff`, `Parking` | the handlers of the second tower (`Runway` is in `Parking`), one action per way through a handler |
| `MessageTower` | their network, its properties, the inductive invariants `RunwayInv`, `MovesInv` and `PunctualInv`, and the mapping to `PriorityRunway` |
| `PriorityRunway` | abstract specification of the second tower: counters, one runway, take-offs first |
| `FiniteSums` | sums over finite sets, for `AirportTimes` and `Factorial2kr` |
| `Factorial2kr` | `makeInput()`, the loader, `parallel_swar()`, `sign_matrix()`, `analyze()`; the inductive invariant `AnalysisInv` |
| `MCExperiment`, `MCMessageTower`, `MCFactorial2kr` | instances for TLC |
| `Airport_proofs`, `AirportCounts_proofs`, `AirportRefinement_proofs` | theorems on the simulator: runway, counters and samples, implementation of `TowerSpec` |
| `AirportTimes_proofs` | theorems on light traffic and on the sums of the time statistics |
| `Experiment_proofs` | theorems on the beginning of a simulation |
| `MessageTower_proofs` | theorems on the second tower: runway, conservation of airplanes, implementation of `PriorityRunway`, waiting times for take-off |
| `FiniteSums_proofs` | lemmas on sums |
| `Factorial2kr_proofs` | theorems on the factorial analysis |

One action is one event: the kernel takes it from the event set and the module's
handler runs to its end, with every call it makes. The handlers insert at most
two events; they get the insertion numbers `seq` and `seq + 1` in the order the
code inserts them, which decides ties. `par` holds the run's parameters, chosen
in `Init` and never changed. An airplane's `id` stands for the identity of the
C++ object.

`MaxPlanes` is the only guard that is not in the code (`created < MaxPlanes` in
`Arrival` and in `Sky`'s `scheduleArrival`). `created` is an auxiliary counter
behind it.

`Experiment` observes the steps of `AirTrafficControl` and never influences them,
so what holds there holds here. `Factorial2kr` computes with integers: every
result of the script is multiplied by the denominator the script divides by, which
turns its floating-point identities into exact ones.

A definition whose name begins with `Mut_` is a plausible mistake in the
definition that follows it. No specification uses one; each is there to show
that a property notices the mistake (`mutants` in `PROJECT.json`).

## 3. Runs

No run checks for deadlock: a simulation really stops, at its last departure or,
in a bounded run, at its last airplane, and the analysis ends with its file.

| Run | Instance | Checks and shows |
|---|---|---|
| `random` | all times random in {0,1,2}, 5 airplanes, ends at departure 2; also with a constant parking time of 0, 1 or 2, ends at departure 3; 2.8 M states | types, `RunwayExclusive`, `NoIdleWaiting`, `QueuesOrdered`, `PlanesConserved`, `ParkedCountExact`, `QueueSizesSampled`, `OneSamplePerPlane`, `EnoughSamples`, `UtilizationAtMostOne`; for constant parking times `ResponseTimeAccounting`: recorded response times and ages of the airplanes present add up exactly to waits, runway use and parking |
| `refine` | all times random in {0,1}, 7 airplanes, ends at departure 3; 0.7 M states | `ServesOldestProperty`; `ImplementsTower`: the simulator implements `TowerSpec` |
| `regimes` | the whole grids `DeterministicRegimeStable` (12 departures) and `DeterministicRegimeUnstable` (8 departures); 96 constant-time configurations where an airplane leaves no later than the next one arrives, landing and parking times of 0 included; arrivals every 1, 2 or 3 units with the other times random in {1,2}; 181 k states | `StableWaitsBounded`: nobody waits for more than one other airplane; `UnstableSaturates`: the runway is idle for at most one interarrival and one parking time in all; `LightTrafficNeverWaits`, with the boundary case apart; `SimulationEnds`, in spite of overload |
| `same_instant` | the stable grid | violated: see section 6 |
| `messages` | second tower, all times random in {0,1,2}, 4 airplanes; 0.5 M states | types, `RunwayExclusive`, `OneRight`, `QueuedWhenServed`, `OneRequest`, `CancelsLanding`, `AirplanesConserved`; `ImplementsPriority`: the modules implement `PriorityRunway`; `EveryoneLeaves`: no request, grant or return is forgotten |
| `steady` | second tower, constant times, take-offs no longer than landings: all of interarrival times 1..12, landing 1..4, parking 0..12 and take-off 0..4; interarrival times 38..50 with landings of 20 or 25 and take-offs of 15 or 20; 100 airplanes; 2.4 M states | `TakeoffsPunctual`: the response time recorded for a take-off is at most a landing and a take-off, whatever the load; `LandingsPunctual`: so is the one recorded for a landing, where the runway can carry the load |
| `warmup` | both deterministic grids, 6 and 4 departures; 45 k states | `FirstDeparture`: nobody leaves before the warm-up period ends, and the first airplane leaves then or at most a landing time later; `FirstTakeoffNext`: nobody waits to land before the first take-off, which comes next after the landing in progress |
| `generators` | the exponential regime | violated: see section 6 |
| `factorial` | files of up to 4 lines of up to 2 values in 0..2; inputs of the 16 configurations for metrics linear in the factors | `EffectsExplainResponses`, `LettersNameFactors`, `SsyIsSumOfSquares`, `ResidualsComplete` |
| `factorial_lines`, `factorial_replications` | files of up to 4 lines; one value per line | violated: see section 6 |

The runs down to `same_instant` use `MCAirport`, the others `MCMessageTower`,
`MCExperiment` and `MCFactorial2kr`.

**Why the bounds are enough.** Only the order of times and their ties influence
the control; {0,1,2} gives ties, strict orders and zero-length operations. With
five airplanes, the last of them yet to arrive, four are in the system: one on
the runway and three spread over the queues and the parking area in every way.
With seven, and a smaller set of draws, both queues hold two or more while
others use the runway and are parked, for the refinement. In `regimes` the bound
`MaxPlanes` is out of reach before the simulation ends, which `SimulationEnds`
shows. The grids are complete and written in units of their step,
as scaling all times scales every behaviour; only the number of departures is
reduced. Under the stable grid's configurations the traffic is periodic, with a
period of up to 10 airplanes, hence 12 departures.

In `messages`, four airplanes with draws in {0,1,2} are enough for a request to
meet a landing in progress, a landing of the same instant, an idle runway and a
return under way, with airplanes waiting on both sides. In `steady` take-offs meet
landings in every phase, queues build up on both sides under overload, and with 100
airplanes a wait that grows by one unit in a dozen airplanes exceeds every bound; the
response times compared are those `Sky.cc:88` and `TakeOff.cc:85` compute when an
airplane leaves its queue. The restriction to take-offs no longer than landings is
necessary: with the 43, 15, 240 and 25 s of `[Config simp]` the runway could carry
the load, but a take-off queue that is not empty for long keeps the runway from
`Sky`, so that landings bunch and come to the take-off queue bunched again; a
simulation of these handlers has response times of up to 365 s for landings and of
158 s for take-offs, after some hundreds of airplanes. `warmup` stops after a few
departures, since it is about the first one. In `factorial`, two values and
four lines (k up to 2) reach equal and different means, lines of different length
and empty lines; k = 4 is reached through `makeInput()`. Words of
`parallel_swar()` have at most 8 bits, since TLC's integers end at 2^31; row and
column numbers of the analysis have 4.

**Fairness.** `WF_vars(Next)`: the kernel's event loop delivers events until
`endSimulation()`. The loop has no other choice to make, since the next event is
determined; no fairness among actions or draws is assumed. `regimes` leaves 0 out
of the draws: with times that may always round to 0, infinitely many arrivals
may happen before a single landing, an event of probability 0 that weak fairness
does not exclude. In the second tower the number of airplanes is bounded, so
`EveryoneLeaves` needs no such restriction. `cpu-time-limit` in `omnetpp.ini` is not modelled.

**Comparison with recorded data.** The results of a run of the stable grid kept
under `Backups/` (`DeterministiRegimeStable.csv`) were compared with the
behaviour this model gives for the 144 configurations. All agree but
(60, 30, 30, 90), where the backup's `ControlTower.cc` (lines 61-64) still
breaks ties in favour of the take-off; with that rule, the mutant
`Mut_NextToMoveTie`, it agrees too.

They agree with every sample counted from time 0 on. The backup's `Airspace.cc:16`
calls `setWarmupPeriod()` in `initialize()`, as `Airspace.cc:33` does now, and its
`omnetpp.ini` (lines 83-84) sets five times the sum of the interarrival, landing
and parking times for this grid; had the recorders
dropped the samples of that period, not one of the 144 configurations would agree.
So the call has no effect on the recorders, and `Statistics` records every sample.
The period itself is modelled for what it assumes of the system (`FirstDeparture`).
This is an observation on recorded results; no run depends on it.

## 4. Proofs

`Airport_proofs` proves, for every set of configurations, every set of draws in
`Nat` and every bound on the number of airplanes (`ConfigsAssumption`,
`SamplesAssumption`, `MaxPlanesAssumption`):

- `TypeCorrect`: `TypeOK`;
- `RunwayInvariant`: the inductive invariant `RunwayInv`, and from it
  `RunwayMutualExclusion` (`RunwayExclusive`), `NoLostHandOver`
  (`NoIdleWaiting`), `FrontIsOldest` (`QueuesOrdered`) and `UtilizationBounded`
  (`UtilizationAtMostOne`);
- `OldestServedFirst`: the action property `ServesOldestProperty`.

**The inductive invariant.** `RunwayExclusive` needs to know, when `completed()`
hands over, that the message just delivered was the only one in flight and that
the strip is marked; it is inductive together with `NoIdleWaiting`.
`QueuesOrdered` needs `EventsAhead` (no pending event lies in the past), so that
an airplane appended with the current time is not older than the one before it.
`UtilizationAtMostOne` needs all of it: an operation that starts now adds its
length to a sum that is at most `now`, because the one before has ended; and
`NotEndedYet`, so that the total time is sampled once. `ServesOldest` then
follows in each step: the front of each queue is its oldest airplane
(`QueuesOrdered`), and `NextToMove` compares the two fronts.

**Layout.** Lemmas on the operators first (`EmitFacts`, `PopFacts`,
`SelectedFacts`, `OrderedAppend`, `OrderedTail`), then one lemma per handler for
types and one per handler for the runway. The three ways a handler can leave the
runway are lemmas of their own, used by several handlers: `GrantStep` (the strip
was free), `QueuedStep` (it was not), `CompletedStep` (hand-over or release).

`MessageTower_proofs` proves, for every set of settings, every set of draws in
`Nat` and every number of airplanes (`SettingsAssumption`, `SamplesAssumption`,
`MaxPlanesAssumption`):

- `RunwayInvariant`: the inductive invariant `RunwayInv` of `MessageTower`;
- from it `MessageTowerTyped` (`TypeOK`), `NeverTwoOnRunway` (`RunwayExclusive`),
  `NeverServesEmptyQueue` (`QueuedWhenServed`), `CancelsOnlyLandings`
  (`CancelsLanding`), `RightConserved` (`OneRight`) and `RequestConserved`
  (`OneRequest`).

**The inductive invariant of the second tower.** `RightGoesRound` says that the
system is in one of five situations: the runway is with `Sky`, a request is kept
until a landing ends, a grant is under way, the runway is with `TakeOff`, or a
return is under way; each fixes both flags and which messages exist. A step leads
from one to the next, but two steps need more. A request must not overtake a
return (`StopStep`): a return is older than the request behind it, which follows
from `MessagesInstant` (messages over gates are of the present instant) and
`EventsAhead`. And `cancelEvent(nextL)` must remove exactly the landing:
`LandingKnown` ties the pointer to the one landing event, and says that before the
first landing only arrivals are pending, so the uninitialised pointer is never
used.

**Layout.** Lemmas on what is at a gate after a handler (`AtKept`, `AtTaken`,
`AtPut`) and on the kernel (`KernelStep`, `FesStep`, `HandlerStep`), then one
lemma per way through a handler.

`AirportCounts_proofs` proves, under the same assumptions as `Airport_proofs`:

- `CountInvariant`: the invariant `CountInv`, inductive together with `RunwayInv`;
- from it `AirplanesConserved` (`PlanesConserved`), `ParkedCounted`
  (`ParkedCountExact`), `QueueSizesExact` (`QueueSizesSampled`),
  `SamplesComplete` (`OneSamplePerPlane`) and `SamplesSuffice` (`EnoughSamples`).

**The inductive invariant of the counters.** None of the five is inductive. To
know that a handler changes a cardinality by one, the event it removes must be in
the set and the one it inserts must be new: `CountInv` says that no place holds an
airplane that another one holds (`PlacedOnce`), that insertion numbers in use lie
below `seq`, and that the airplane yet to arrive is the newest (`Numbered`).
`Tallied` then has the sums; three inequalities between sample counts are there
for `EnoughSamples` alone. The parts take the event set, the queues and the
recorders as parameters, since a handler calls `completed()` when it has brought
some of them up to date and not yet the others: `CompletedSettled` is about that
intermediate situation, and `Landed` and `Departed` share it. The sums are proved
over plain numbers (`SumsLandingGo` and its like) and instantiated with the
cardinalities and sample counts of each handler.

`AirportRefinement_proofs` proves `TowerImplemented`: every behaviour of the
simulator is one of `TowerSpec` under the mapping of `AirportRefinement`
(`ImplementsTower`). There is one lemma per handler (`ArrivalGrantedRefines`, ...)
that shows its step of the abstract tower; the hand-over of `completed()` is proved
once (`CompletedReleases`). It needs `RunwayInv`, for the runway in use and the
fronts of the queues as the oldest requests, and `CountInv`, so that an airplane
taken from one place is not left in another one.

Further, under the same assumptions, `MessageTower_proofs` proves:

- `MovesInvariant`: the invariant `MovesInv`, inductive together with `RunwayInv`;
- from it `NoAirplaneLost` (`AirplanesConserved`);
- `PriorityImplemented`: the four modules implement `PriorityRunway`
  (`ImplementsPriority`).

**Why the refinement needs more than `RunwayInv`.** Time may pass in
`PriorityRunway` only when no decision is open, but the modules take several
messages for one decision. So the messages that carry airplanes must be of the
present instant (`TransfersInstant`, next to `MessagesInstant`), `Sky` must not
let time pass with the right to the runway and airplanes waiting (`SkyNotIdle`),
and a request that waits for a landing must have found one that began before this
instant, otherwise `Sky` would have cancelled it (`KeptLandingOlder`). The mapped
counters are cardinalities of sets of messages; `CountPut`, `CountTake`,
`TallyPut` and `TallyTake` say how a sent or delivered message changes them, and
each handler has one lemma (`...Moves`) that names its abstract step or stutter.

The last theorem of `MessageTower_proofs` is `TakeoffsInTime` (`TakeoffsPunctual`),
for all constant times with take-offs no longer than landings, every load and every
number of airplanes, from the inductive invariant `PunctualInv`.

**Why waits do not accumulate.** `Spaced` says that the airplanes on their way to
`TakeOff`, from the beginning of their landing on, come there at times at least a
landing apart, and that so did those in its queue. Landings do not overlap, so a
landing that begins adds an airplane a landing time behind all others (`SpacedLand`);
handing it on, parking it and cancelling a landing keep the times (`SpacedMove`,
`SpacedFewer`). `FirstServed` follows the first airplane of the queue: its request is
of this instant, the landing that keeps it waiting began before it, the grant comes
within a landing time, and its take-off ends a take-off later. When the next
take-off follows at once, its airplane came a landing time after the first, and the
take-off in between took no longer than that: the bound is inherited
(`TakeOffFollowedPunctual`).

`Experiment_proofs` proves, for every set of configurations whose four times are
constant (`ConstantTimes`), `WarmupEndsWithFirstDeparture` (`FirstDeparture`) and
`FirstTakeoffIsNext` (`FirstTakeoffNext`).

**The inductive invariants of the beginning.** That nobody leaves early follows from
`Timely`: no event and no wait comes before the first airplane could have caused one
of its kind. That the first one is not late needs `TransientInv`: until the first
take-off the landing in progress ends before the next arrival (`LandingSoonOver`),
so every arrival finds the strip free and nobody is queued, and the first airplane is
at each moment somewhere on its undelayed way (`FirstOnItsWay`). When arrivals
coincide with the ends of landings, it is the order of insertion that decides; the
invariant therefore compares events with `Precedes` and not by their times. A
landing in progress when the first parking time expires ends within a landing time
of that moment, which bounds the wait of the first take-off.

`AirportTimes_proofs` proves `NobodyWaits`: if take-offs take time
(`TakeoffsTakeTime`), `LightTrafficNeverWaits`. The invariant `LightInv` has at most
one airplane beside the next arrival, due to leave before that arrival; at equality
there is one more situation, in which the arrival has been handled and waits for the
take-off that ends in the same instant. The hypothesis is needed, and TLC shows it:
with a take-off time of 0 and equality, a parking time expires in the instant of the
next arrival, whose event is older and gets the runway, so the take-off is queued.
`omnetpp.ini` has no time of 0.

Further, under the assumptions of `Airport_proofs`, `AirportTimes_proofs` proves:

- `BooksBalance`: the invariant `BalanceInv`, inductive together with `RunwayInv`
  and `CountInv`;
- from it `ResponseTimesAccounted` (`ResponseTimeAccounting`): for every number of
  airplanes, parking times that are constant and other times drawn in any way,
  the time that airplanes have spent in the system is what the statistics of the
  stages sampled, plus the parking times, plus the waits under way, less what
  running operations still have to go.

**The inductive invariant of the accounting.** `ResponseTimeAccounting` speaks of
`now`: when the clock advances, the age of every airplane grows, and so do the
waits of the queued ones, while the remaining times of the others shrink. To prove
that the two sides agree would take the number of airplanes of each kind.
`BalanceInv` takes an airplane's age at a boundary instead: when its pending
operation will end (`AgeAtEvent`), or when it was queued (`AgeWhenQueued`). These
ages do not change with the clock, so a handler changes the sums only by the one or
two airplanes it moves (`BalancedArrivalLands` and its like, one lemma per move).
`BalanceAccounts` adds the clock at the end: an age now is the age at the boundary
less the time to go, or plus the wait so far.

**Sums** (`FiniteSums_proofs`). They are folds over finite sets, whose only
definition is a recursion that chooses an element. The induction theorems of the library have an operator
parameter and cannot be used, but a minimal counterexample can: if the sums did not
behave, `WFMin` gives a least subset for which they do not (proper inclusion is
well-founded), and removing the chosen element contradicts it. So `SumsAgree`,
`SumsExist` and `TotalStep` are first-order statements; `TotalAdd`, `TotalRemove`,
`TotalUnion`, `TotalImage`, `TotalPlus`, `TotalScale`, `TotalSwap` (the order of a
double sum) and `TotalNested` (a sum over pairs, row by row) follow from them.

`Factorial2kr_proofs` proves, for every set of lines of integers, every bound on
their number and every set of integer weights (`LinesAssumption`,
`MaxLinesAssumption`, `WeightsAssumption`), given the tables below:

- `AnalysisInvariant`: the inductive invariant `AnalysisInv`;
- from it `ResponsesExplained` (`EffectsExplainResponses`), `ResidualsAccounted`
  (`ResidualsComplete`), `SquaresDecomposed` (`SsyIsSumOfSquares`) and
  `LettersRight` (`LettersNameFactors`).

**What is evaluated and what is proved.** The sign tables and the order of the
sixteen configurations are finite and do not depend on the observations. What the
analysis needs of them are assumptions that TLC evaluates in each of the three
factorial runs: the tables that `parallel_swar()` gives for k up to 4, and for any
larger file within `MaxLines`, have orthogonal rows (`TablesOrthogonal`), every row
of the sorted file is a configuration (`RowsAreConfigurations`), and a column of one
letter has the contrast of that letter's factor and of no other
(`LettersSeparateLevels`). The runs try values in 0..2, at most two to a line, and a
few weights; the theorems go from there to all observations, all numbers of
replications and all weights. With files of up to 16 lines every table a theorem
uses has been evaluated, although the run loads at most 4 lines; for more than 22
lines `TablesOrthogonal` is a hypothesis still to be evaluated, and beyond 362 lines
the model's words of 8 bits are too short for the row numbers of the table, so the
assumption fails and the theorems say nothing.

**Argument.** `TransformBack` and `TransformSquares` say what an orthogonal table
does: transforming twice gives the rows back, and squares keep their sum, up to the
number of rows. `EffectsTransform` recognises `analyze()`'s effects as such a
transform of the rows' sums. `LineCancels` and `LineErrors` are about one line: its
residuals cancel out, and their squares are the observations' squares less the
square of the sum; `SquaresByRow`, `ErrorsByRow` and `ResidualsCancel` add up the
rows, where rows of equal mean share an entry. `WeightedContrasts` and
`LetterContrast` reduce a linear metric to the contrasts. `AnalysisInv` supplies
what the formulas do not say themselves: the number of lines is that of the table's
rows, the table and the effects stored are those of this file, and a line has r
observations or none. "Or none" is finding 3 of section 6: leading empty lines pass
the loader. The theorems hold for them too, so such a file distorts the means but
breaks none of the identities, and nothing in the script's results shows it.

**Only model-checked.**

- Liveness (`SimulationEnds`, `EveryoneLeaves`): fairness and `ENABLED` are out of
  this prover's reach.
- `StableWaitsBounded` and `UnstableSaturates`: claims about the grids the runs
  enumerate. They do not hold for all constant times, so there is no theorem to
  state: with an interarrival time of 5, landing 1, parking 2 and take-off 4 the
  runway is stable, and yet a take-off waits 2; with 5, 1, 2 and 5 it is overloaded,
  and yet idle for 8 of the first 16 units.
- `LandingsPunctual`: an invariant for it would have to count the landings and
  take-offs since each arrival still waiting, including the landings cancelled and
  begun again; `Spaced` relates take-offs to each other, not to arrivals.
- The sign tables themselves: `parallel_swar()` is bit arithmetic on machine words,
  for which the provers have no theory; TLC evaluates the tables for k up to 4.

## 5. Not modelled

- The kernel's warm-up filter, which has no effect here (section 3).
- The numbers the generators produce: a draw is any value of `Samples`.
- Display, logging, memory management, and the error branches of the three
  `initialize()`, which the fixed module paths make unreachable; the statistics
  that the second tower's modules emit.
- Confidence intervals, quantiles and printing of `factorial2kr.py`, and all of
  `util.py` but `makeInput()`: real arithmetic, distributions and plots.
- `Esercizi`: course exercises that the simulator does not use.
- `Backups` and `Consegna`: older revisions and a delivered copy of the code
  modelled here.
- `Workspace/inet`: the vendored INET framework. It makes up nearly all lines of
  the repository, but no module of either control tower imports it, so it has no
  part in what this project is about. The models cover the control of both
  towers, a few hundred lines; that is a very small share of the repository's
  lines and will remain so.

## 6. Findings

1. `same_instant`: the project's documentation (`Documentazione/Control Tower
   System Analysis_draft5.docx`) says that if two airplanes are ready for landing
   and take-off at exactly the same time, the tower assigns the runway to the one
   that requests to land. `completed()` does so for airplanes that are both
   queued. But `notify()` (`ControlTower.cc:33`) grants a free strip to the first
   request it is called for, so if a parking time expires at the instant an
   arrival is pending and its event was inserted first, the take-off gets the
   runway and the arrival waits.
2. `generators`: `omnetpp.ini:11-14` means to give each kind of random time its
   own generator, but the keys name no full module path and have no wildcard, so
   none applies: parking times share the generator of arrivals, take-off times
   that of landings.
3. `factorial_lines`: leading empty lines pass the loader's check for lines of
   different length (`factorial2kr.py:65`).
4. `factorial_replications`: a file with one observation per line is reported
   valid, and `analyze()` then divides by r * (r - 1) = 0 (`factorial2kr.py:197`).

The second tower gives take-offs priority (`PriorityRunway`), where the
repository's `README.md:12` asks for the airplane with the largest waiting time in
either queue: the two towers implement different disciplines, and only the first
one implements `TowerSpec`.

## 7. Plan

Done: the control of the simulator, its abstract specification and refinement, the
regimes; the warm-up period and the random-number streams; the second control
tower with its abstract specification; the factorial analysis; and the theorems of
section 4: the runways, all counters and samples, both refinements, light
traffic, the beginning of a simulation, the accounting of times, the second tower's
waits for take-off and the four identities of the factorial analysis. Left to the
runs are liveness, the two claims about particular grids and `LandingsPunctual`.

Open: a proof of `LandingsPunctual`; and *stable traffic*, conditions under which `StableWaitsBounded` holds for all
constants (landings no shorter than take-offs seem to do), with an inductive
invariant that relates the pending landings, parking times and take-offs to the
arrivals they come from.
