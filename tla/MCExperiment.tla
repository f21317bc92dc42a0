---------------------------- MODULE MCExperiment ----------------------------
(***************************************************************************)
(* Instances of the experiments of omnetpp.ini for TLC.                    *)
(***************************************************************************)
EXTENDS Experiment, Regimes

\* Both deterministic grids, shortened to a few departures.
DeterministicConfigs ==
  DeterministicRegimeStable(6) \cup DeterministicRegimeUnstable(4)

\* The exponential regime, every time drawn.
ExponentialConfigs == {ExponentialRegime(1, 1, 1, 1, 3)}
=============================================================================
