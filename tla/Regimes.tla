------------------------------- MODULE Regimes -------------------------------
(***************************************************************************)
(* The configurations of simulations/omnetpp.ini: which times are constant *)
(* or exponential, and the grids of values swept by the experiments.  All  *)
(* times of a grid are multiples of its step, so each grid is written in   *)
(* units of that step; only totalSamples (100000 in the file) is reduced.  *)
(***************************************************************************)
EXTENDS Naturals

DeterministicRegime(iat, lt, pt, tot, samples) ==
  [isInterArrivalTimeRandom |-> FALSE, interArrivalTime |-> iat,
   isLandingTimeRandom      |-> FALSE, landingTime      |-> lt,
   isParkingTimeRandom      |-> FALSE, parkingTime      |-> pt,
   isTakeoffTimeRandom      |-> FALSE, takeoffTime      |-> tot,
   totalSamples             |-> samples]

\* The means shape the distribution of the draws, not the set of their values.
ExponentialRegime(iat, lt, pt, tot, samples) ==
  [isInterArrivalTimeRandom |-> TRUE, interArrivalTime |-> iat,
   isLandingTimeRandom      |-> TRUE, landingTime      |-> lt,
   isParkingTimeRandom      |-> TRUE, parkingTime      |-> pt,
   isTakeoffTimeRandom      |-> TRUE, takeoffTime      |-> tot,
   totalSamples             |-> samples]

\* iat, lt, pt, tot = 15..30 step 3, in units of 3; iat < lt + tot
DeterministicRegimeUnstable(samples) ==
  {DeterministicRegime(iat, lt, pt, tot, samples) :
     <<iat, lt, pt, tot>> \in
       {v \in (5..10) \X (5..10) \X (5..10) \X (5..10) : v[1] < v[2] + v[4]}}

\* iat, pt = 60..90 step 15, lt, tot = 15..30 step 5, in units of 5;
\* iat >= lt + tot
DeterministicRegimeStable(samples) ==
  {DeterministicRegime(iat, lt, pt, tot, samples) :
     <<iat, lt, pt, tot>> \in
       {v \in {12, 15, 18} \X (3..6) \X {12, 15, 18} \X (3..6) :
          v[1] >= v[2] + v[4]}}
=============================================================================
