----------------------------- MODULE Statistics -----------------------------
(***************************************************************************)
(* The signals the modules emit and what the recorders of the NED files    *)
(* make of them: the number of samples, their sum (mean and the            *)
(* utilization factor are quotients of these) and the last one.  Every     *)
(* sample emitted is recorded: the results kept in the repository contain  *)
(* those of the warm-up period, which initialize() sets when the recorders *)
(* are there already.                                                      *)
(***************************************************************************)
EXTENDS Integers

VARIABLE stats

AirspaceSignals == {"HoldingQueueSize", "HoldingQueueWaitingTime",
                    "AirportResponseTime", "TotalSimtime", "RunwayUse"}

ParkingAreaSignals == {"ParkedPlanes", "DepartQueueSize",
                       "DepartQueueWaitingTime", "RunwayUse"}

Signals == AirspaceSignals \cup ParkingAreaSignals

StatsType == [Signals -> [count : Nat, sum : Int, last : Int]]

InitStats == stats = [s \in Signals |-> [count |-> 0, sum |-> 0, last |-> 0]]

\* emit(s, v), applied to the recorders' state st
Emit(st, s, v) ==
  [st EXCEPT ![s] = [count |-> @.count + 1, sum |-> @.sum + v, last |-> v]]
=============================================================================
