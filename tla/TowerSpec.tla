------------------------------ MODULE TowerSpec ------------------------------
(***************************************************************************)
(* What the control tower promises, with no event set, no FIFO queues and  *)
(* no modules: the numbered steps of the repository's README.md.  There is *)
(* one runway and one set of airplanes waiting for it, whatever for.  A    *)
(* request made while the runway is free is served at once; a runway that  *)
(* becomes free goes to the airplane with the largest waiting time, to a   *)
(* landing one if several have waited as long.                             *)
(***************************************************************************)
EXTENDS Naturals

CONSTANT Planes

VARIABLES
  clock,       \* the time of the last step
  using,       \* the operation in progress on the runway: at most one
  waiting,     \* requests not served yet, with the time they were made
  parked,      \* airplanes in the parking area
  gone,        \* airplanes that left the system
  closed       \* the last departure of interest has happened

towerVars == <<clock, using, waiting, parked, gone, closed>>

Operation(p, op) == [plane |-> p, op |-> op]

TowerInit ==
  /\ clock = 0
  /\ using = {}
  /\ waiting = {}
  /\ parked = {}
  /\ gone = {}
  /\ closed = FALSE

Request(p, op) ==
  \/ /\ using = {}
     /\ using' = {Operation(p, op)}
     /\ UNCHANGED waiting
  \/ /\ using # {}
     /\ waiting' = waiting \cup {[plane |-> p, op |-> op, since |-> clock']}
     /\ UNCHANGED using

Before(w, v) == \/ w.since < v.since
                \/ w.since = v.since /\ (v.op = "land" => w.op = "land")

Release ==
  \/ /\ waiting = {}
     /\ using' = {}
     /\ UNCHANGED waiting
  \/ \E w \in waiting :
       /\ \A v \in waiting : Before(w, v)
       /\ using' = {Operation(w.plane, w.op)}
       /\ waiting' = waiting \ {w}

InSystem == parked \cup gone \cup {u.plane : u \in using}
              \cup {w.plane : w \in waiting}

ReachAirport(p) ==
  /\ p \notin InSystem
  /\ Request(p, "land")
  /\ UNCHANGED <<parked, gone, closed>>

FinishLanding(p) ==
  /\ using = {Operation(p, "land")}
  /\ parked' = parked \cup {p}
  /\ Release
  /\ UNCHANGED <<gone, closed>>

LeaveParking(p) ==
  /\ p \in parked
  /\ parked' = parked \ {p}
  /\ Request(p, "takeoff")
  /\ UNCHANGED <<gone, closed>>

FinishTakeoff(p) ==
  /\ using = {Operation(p, "takeoff")}
  /\ gone' = gone \cup {p}
  /\ \/ Release /\ UNCHANGED closed
     \/ closed' = TRUE /\ using' = {} /\ UNCHANGED waiting
  /\ UNCHANGED parked

TowerNext ==
  /\ ~closed
  /\ clock' >= clock
  /\ \E p \in Planes : ReachAirport(p) \/ FinishLanding(p)
                         \/ LeaveParking(p) \/ FinishTakeoff(p)

TowerSafety == TowerInit /\ [][TowerNext]_towerVars
=============================================================================
