-------------------------- MODULE AirportRefinement --------------------------
(***************************************************************************)
(* The simulator implements TowerSpec.  Its two FIFO queues are one set of *)
(* requests, messages in flight between the modules are the operation in   *)
(* progress, and self-messages of the parking area are parked airplanes.   *)
(***************************************************************************)
EXTENDS AirportSafety

Requests(queue, op) ==
  {[plane |-> p.id, op |-> op, since |-> p.queueArrivalTime] :
     p \in Queued(queue)}

OperationOf(e) ==
  [plane |-> e.plane.id,
   op |-> IF e.to = "parkingarea" THEN "land" ELSE "takeoff"]

Using   == {OperationOf(e) : e \in RunwayEvents}
Waiting == Requests(holdingQueue, "land") \cup Requests(departQueue, "takeoff")
Parked  == {e.plane.id : e \in ParkedEvents}
Gone    == (1..created) \ PlaneIds

Tower == INSTANCE TowerSpec WITH
  Planes  <- 1..MaxPlanes,
  clock   <- now,
  using   <- Using,
  waiting <- Waiting,
  parked  <- Parked,
  gone    <- Gone,
  closed  <- ~running

(***************************************************************************)
(* Every step of the simulator is a step of the control tower README.md    *)
(* describes: the tower's flag, the two queues and the events in flight    *)
(* together behave as one runway with one queue, served oldest first.      *)
(***************************************************************************)
ImplementsTower == Tower!TowerSafety
=============================================================================
