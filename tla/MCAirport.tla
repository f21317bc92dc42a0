------------------------------ MODULE MCAirport ------------------------------
(***************************************************************************)
(* Instances of the airport for TLC: the sets of configurations of the     *)
(* runs, in the order of their .cfg files.                                 *)
(***************************************************************************)
EXTENDS AirportRefinement, AirportTimes, Regimes

\* Every time random, until the second or the third departure.
RandomConfigs == {ExponentialRegime(1, 1, 1, 1, 2)}
LongerConfigs == {ExponentialRegime(1, 1, 1, 1, 3)}

\* Every time but the parking time random: the flags are independent.
AccountingConfigs ==
  {[ExponentialRegime(1, 1, pt, 1, 3) EXCEPT !.isParkingTimeRandom = FALSE] :
     pt \in 0..2}

RandomOrAccounting == RandomConfigs \cup AccountingConfigs

\* The grids of omnetpp.ini, shortened to a few departures.
StableConfigs   == DeterministicRegimeStable(12)
UnstableConfigs == DeterministicRegimeUnstable(8)

\* One airplane at a time, up to and including the boundary.
LightConfigs ==
  {DeterministicRegime(lt + pt + tot + gap, lt, pt, tot, 4) :
     <<lt, pt, tot, gap>> \in (0..3) \X (0..3) \X (1..3) \X (0..1)}

\* Steady arrivals, the other times random: stable and overloaded runways.
EndingConfigs ==
  {[ExponentialRegime(iat, 1, 1, 1, 2) EXCEPT
      !.isInterArrivalTimeRandom = FALSE] : iat \in 1..3}

RegimeConfigs == StableConfigs \cup UnstableConfigs \cup LightConfigs \cup EndingConfigs
=============================================================================
