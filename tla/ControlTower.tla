---------------------------- MODULE ControlTower ----------------------------
(***************************************************************************)
(* The control tower: one flag, notify() and the decision taken by         *)
(* completed() (ControlTower.cc).  Carrying the decision out needs the two *)
(* other modules and is in AirTrafficControl.                              *)
(***************************************************************************)
EXTENDS Integers

VARIABLE landingStripOccupied

InitTower == landingStripOccupied = FALSE

\* MUTANT: the strip is granted but not marked as occupied
Mut_notify(granted) ==
  /\ granted = ~landingStripOccupied
  /\ UNCHANGED landingStripOccupied

\* notify() returning `granted': an immediate start occupies the strip
notify(granted) ==
  /\ granted = ~landingStripOccupied
  /\ landingStripOccupied' = TRUE

\* MUTANT: an airplane queued at time 0 is taken for an empty queue
Mut_NextToMoveZero(holdingQueueMaxTime, departQueueMaxTime) ==
  IF holdingQueueMaxTime <= 0 /\ departQueueMaxTime <= 0 THEN "nobody"
  ELSE IF holdingQueueMaxTime <= 0 THEN "parkingarea"
  ELSE IF departQueueMaxTime <= 0 THEN "airspace"
  ELSE IF departQueueMaxTime < holdingQueueMaxTime THEN "parkingarea"
  ELSE "airspace"

\* MUTANT: landings first, whoever has waited longer
Mut_NextToMoveLanding(holdingQueueMaxTime, departQueueMaxTime) ==
  IF holdingQueueMaxTime >= 0 THEN "airspace"
  ELSE IF departQueueMaxTime >= 0 THEN "parkingarea"
  ELSE "nobody"

\* MUTANT: only the holding queue is looked at before the strip is freed
Mut_NextToMoveForget(holdingQueueMaxTime, departQueueMaxTime) ==
  IF holdingQueueMaxTime < 0 THEN "nobody"
  ELSE IF departQueueMaxTime < 0 THEN "airspace"
  ELSE IF departQueueMaxTime < holdingQueueMaxTime THEN "parkingarea"
  ELSE "airspace"

\* MUTANT: the tie-break of an earlier revision, which favoured the take-off
Mut_NextToMoveTie(holdingQueueMaxTime, departQueueMaxTime) ==
  IF holdingQueueMaxTime < 0 /\ departQueueMaxTime < 0 THEN "nobody"
  ELSE IF holdingQueueMaxTime < 0 THEN "parkingarea"
  ELSE IF departQueueMaxTime < 0 THEN "airspace"
  ELSE IF holdingQueueMaxTime < departQueueMaxTime THEN "airspace"
  ELSE "parkingarea"
(***************************************************************************)
(* Who moves next, given the two getMaxQueueTime() results: the arrival    *)
(* time of the oldest airplane of each queue, negative for an empty one.   *)
(* On a tie the landing goes first.                                        *)
(***************************************************************************)
NextToMove(holdingQueueMaxTime, departQueueMaxTime) ==
  IF holdingQueueMaxTime < 0 /\ departQueueMaxTime < 0 THEN "nobody"
  ELSE IF holdingQueueMaxTime < 0 THEN "parkingarea"
  ELSE IF departQueueMaxTime < 0 THEN "airspace"
  ELSE IF departQueueMaxTime < holdingQueueMaxTime THEN "parkingarea"
  ELSE "airspace"
=============================================================================
