------------------------ MODULE AirportCounts_proofs ------------------------
(***************************************************************************)
(* Proofs about the airport's counters and samples, for every set of       *)
(* configurations, every set of draws and every number of airplanes: the   *)
(* airplanes are conserved, numParked and the queue-size samples are       *)
(* exact, and every statistic has the samples it should have.              *)
(***************************************************************************)
EXTENDS Airport_proofs, FiniteSetTheorems

(***************************************************************************)
(* Counting events.                                                        *)
(***************************************************************************)

\* What an insertion into the event set adds to each count.
LEMMA PutCounts ==
  ASSUME NEW F, IsFiniteSet(F), NEW g, g \notin F
  PROVE  /\ IsFiniteSet(F \cup {g})
         /\ Cardinality(F \cup {g}) = Cardinality(F) + 1
         /\ Cardinality(ParkedIn(F \cup {g})) =
              IF g.self /\ g.to = "parkingarea"
              THEN Cardinality(ParkedIn(F)) + 1 ELSE Cardinality(ParkedIn(F))
         /\ Cardinality(TakeoffsIn(F \cup {g})) =
              IF ~g.self /\ g.to = "airspace"
              THEN Cardinality(TakeoffsIn(F)) + 1
              ELSE Cardinality(TakeoffsIn(F))
  <1>1. /\ IsFiniteSet(F \cup {g})
        /\ Cardinality(F \cup {g}) = Cardinality(F) + 1
    BY FS_AddElement
  <1>2. /\ ParkedIn(F) \in SUBSET F /\ TakeoffsIn(F) \in SUBSET F
        /\ g \notin ParkedIn(F) /\ g \notin TakeoffsIn(F)
    BY DEF ParkedIn, TakeoffsIn
  <1>3. IsFiniteSet(ParkedIn(F)) /\ IsFiniteSet(TakeoffsIn(F))
    BY <1>2, FS_Subset
  <1>4. ParkedIn(F \cup {g}) = IF g.self /\ g.to = "parkingarea"
                               THEN ParkedIn(F) \cup {g} ELSE ParkedIn(F)
    BY DEF ParkedIn
  <1>5. TakeoffsIn(F \cup {g}) = IF ~g.self /\ g.to = "airspace"
                                 THEN TakeoffsIn(F) \cup {g} ELSE TakeoffsIn(F)
    BY DEF TakeoffsIn
  <1>6. /\ Cardinality(ParkedIn(F) \cup {g}) = Cardinality(ParkedIn(F)) + 1
        /\ Cardinality(TakeoffsIn(F) \cup {g}) = Cardinality(TakeoffsIn(F)) + 1
    BY <1>2, <1>3, FS_AddElement
  <1> QED
    BY <1>1, <1>4, <1>5, <1>6

\* What a delivery takes from each count.
LEMMA TakeCounts ==
  ASSUME NEW F, IsFiniteSet(F), NEW e \in F
  PROVE  /\ IsFiniteSet(F \ {e})
         /\ Cardinality(F \ {e}) = Cardinality(F) - 1
         /\ Cardinality(ParkedIn(F \ {e})) =
              IF e.self /\ e.to = "parkingarea"
              THEN Cardinality(ParkedIn(F)) - 1 ELSE Cardinality(ParkedIn(F))
         /\ Cardinality(TakeoffsIn(F \ {e})) =
              IF ~e.self /\ e.to = "airspace"
              THEN Cardinality(TakeoffsIn(F)) - 1
              ELSE Cardinality(TakeoffsIn(F))
  <1>1. /\ IsFiniteSet(F \ {e})
        /\ Cardinality(F \ {e}) = Cardinality(F) - 1
    BY FS_RemoveElement
  <1>2. /\ ParkedIn(F) \in SUBSET F /\ TakeoffsIn(F) \in SUBSET F
        /\ e \in ParkedIn(F) <=> (e.self /\ e.to = "parkingarea")
        /\ e \in TakeoffsIn(F) <=> (~e.self /\ e.to = "airspace")
    BY DEF ParkedIn, TakeoffsIn
  <1>3. IsFiniteSet(ParkedIn(F)) /\ IsFiniteSet(TakeoffsIn(F))
    BY <1>2, FS_Subset
  <1>4. /\ ParkedIn(F \ {e}) = ParkedIn(F) \ {e}
        /\ TakeoffsIn(F \ {e}) = TakeoffsIn(F) \ {e}
    BY DEF ParkedIn, TakeoffsIn
  <1>5. Cardinality(ParkedIn(F) \ {e}) =
          IF e \in ParkedIn(F) THEN Cardinality(ParkedIn(F)) - 1
                               ELSE Cardinality(ParkedIn(F))
    BY <1>3, FS_RemoveElement
  <1>6. Cardinality(TakeoffsIn(F) \ {e}) =
          IF e \in TakeoffsIn(F) THEN Cardinality(TakeoffsIn(F)) - 1
                                 ELSE Cardinality(TakeoffsIn(F))
    BY <1>3, FS_RemoveElement
  <1> QED
    BY <1>1, <1>2, <1>4, <1>5, <1>6

\* The counts are natural numbers.
LEMMA CountTypes ==
  ASSUME NEW F, IsFiniteSet(F)
  PROVE  /\ Cardinality(F) \in Nat
         /\ Cardinality(ParkedIn(F)) \in Nat
         /\ Cardinality(TakeoffsIn(F)) \in Nat
  <1>1. ParkedIn(F) \in SUBSET F /\ TakeoffsIn(F) \in SUBSET F
    BY DEF ParkedIn, TakeoffsIn
  <1>2. IsFiniteSet(ParkedIn(F)) /\ IsFiniteSet(TakeoffsIn(F))
    BY <1>1, FS_Subset
  <1> QED
    BY <1>2, FS_CardinalityType

(***************************************************************************)
(* Airplanes and places.                                                   *)
(***************************************************************************)

\* Every airplane is in one place, and the numbers are those handed out.
Located(F, H, D, n) == PlacedOnce(F, H, D) /\ Numbered(F, H, D, n)

\* The two queues play the same part.
LEMMA LocatedSwap ==
  ASSUME NEW F, NEW H, NEW D, NEW n, Located(F, H, D, n)
  PROVE  Located(F, D, H, n)
  BY DEF Located, PlacedOnce, Numbered

\* A departing airplane leaves its place empty.
LEMMA LocatedRemove ==
  ASSUME NEW F, NEW H, NEW D, NEW n, Located(F, H, D, n),
         NEW e \in F, ~(e.self /\ e.to = "airspace")
  PROVE  Located(F \ {e}, H, D, n)
  <1>1. PlacedOnce(F \ {e}, H, D)
    BY DEF Located, PlacedOnce
  <1>2. Numbered(F \ {e}, H, D, n)
    BY DEF Located, Numbered
  <1> QED
    BY <1>1, <1>2 DEF Located

\* An airplane goes on in a new event.
LEMMA LocatedResend ==
  ASSUME NEW F, NEW H, NEW D, NEW n, Located(F, H, D, n),
         NEW e \in F, ~(e.self /\ e.to = "airspace"),
         NEW g, ~(g.self /\ g.to = "airspace"), g.plane.id = e.plane.id
  PROVE  Located((F \ {e}) \cup {g}, H, D, n)
  <1>1. PlacedOnce((F \ {e}) \cup {g}, H, D)
    BY DEF Located, PlacedOnce
  <1>2. Numbered((F \ {e}) \cup {g}, H, D, n)
    BY DEF Located, Numbered
  <1> QED
    BY <1>1, <1>2 DEF Located

\* Appending to and extracting from a queue, index by index.
LEMMA AppendFacts ==
  ASSUME NEW q \in Seq(Airplanes), NEW p \in Airplanes
  PROVE  /\ Len(q) \in Nat /\ Len(Append(q, p)) = Len(q) + 1
         /\ \A i \in 1..Len(q) : Append(q, p)[i] = q[i]
         /\ Append(q, p)[Len(q) + 1] = p
  OBVIOUS

\* An airplane of a delivered event is put into a queue.
LEMMA LocatedQueue ==
  ASSUME NEW F, NEW H \in Seq(Airplanes), NEW D, NEW n, Located(F, H, D, n),
         NEW e \in F, ~(e.self /\ e.to = "airspace"),
         NEW p \in Airplanes, p.id = e.plane.id
  PROVE  Located(F \ {e}, Append(H, p), D, n)
  <1> DEFINE q == Append(H, p)
  <1>1. /\ Len(H) \in Nat /\ Len(q) = Len(H) + 1
        /\ \A i \in 1..Len(H) : q[i] = H[i]
        /\ q[Len(H) + 1] = p
    BY AppendFacts
  <1>2. \A i \in 1..Len(q) : i \in 1..Len(H) \/ i = Len(H) + 1
    BY <1>1
  <1> HIDE DEF q
  <1>3. \A i \in 1..Len(q) : q[i].id = e.plane.id \/ i \in 1..Len(H)
    BY <1>1, <1>2
  <1>4. PlacedOnce(F \ {e}, q, D)
    BY <1>1, <1>2, <1>3 DEF Located, PlacedOnce
  <1>5. Numbered(F \ {e}, q, D, n)
    BY <1>1, <1>2, <1>3 DEF Located, Numbered
  <1> QED
    BY <1>4, <1>5 DEF Located, q

\* The front airplane of a queue starts an operation on the runway.
LEMMA LocatedGo ==
  ASSUME NEW F, NEW H \in Seq(Airplanes), NEW D, NEW n, Located(F, H, D, n),
         H # << >>, NEW g, ~g.self, g.plane.id = Head(H).id
  PROVE  Located(F \cup {g}, Tail(H), D, n)
  <1> DEFINE q == Tail(H)
  <1>1. /\ Len(H) \in Nat /\ Len(q) = Len(H) - 1
        /\ Head(H) = H[1]
        /\ \A i \in 1..Len(q) : q[i] = H[i + 1]
    BY PopFacts
  <1>2. /\ \A i \in 1..Len(q) : i \in Int /\ i + 1 \in 1..Len(H) /\ i + 1 # 1
        /\ 1 \in 1..Len(H)
    BY <1>1
  <1> HIDE DEF q
  <1>3. g.plane.id = H[1].id
    BY <1>1
  <1>4. \A i, j \in 1..Len(q) : i + 1 = j + 1 => i = j
    BY <1>2
  <1>5. PlacedOnce(F \cup {g}, q, D)
    <2>0. PlacedOnce(F, H, D)
      BY DEF Located
    <2>1. \A e, f \in F \cup {g} : e.plane.id = f.plane.id => e = f
      BY <1>2, <1>3, <2>0 DEF PlacedOnce
    <2>2. \A i, j \in 1..Len(q) : q[i].id = q[j].id => i = j
      BY <1>1, <1>2, <1>4, <2>0 DEF PlacedOnce
    <2>3. \A e \in F : \A i \in 1..Len(q) : e.plane.id # q[i].id
      BY <1>1, <1>2, <2>0 DEF PlacedOnce
    <2>4. \A i \in 1..Len(q) : g.plane.id # q[i].id
      BY <1>1, <1>2, <1>3, <2>0 DEF PlacedOnce
    <2>5. \A e \in F \cup {g} : \A j \in 1..Len(D) : e.plane.id # D[j].id
      BY <1>2, <1>3, <2>0 DEF PlacedOnce
    <2>6. \A i \in 1..Len(q), j \in 1..Len(D) : q[i].id # D[j].id
      BY <1>1, <1>2, <2>0 DEF PlacedOnce
    <2> QED
      BY <2>0, <2>1, <2>2, <2>3, <2>4, <2>5, <2>6 DEF PlacedOnce
  <1>6. g.plane.id # n
    BY <1>2, <1>3 DEF Located, PlacedOnce, Numbered
  <1>7. Numbered(F \cup {g}, q, D, n)
    BY <1>1, <1>2, <1>3, <1>6 DEF Located, Numbered
  <1> QED
    BY <1>5, <1>7 DEF Located, q

\* An airplane arrives and lands at once; the next one is scheduled.
LEMMA LocatedArrivalLands ==
  ASSUME NEW F, NEW H, NEW D, NEW n \in Nat, Located(F, H, D, n),
         NEW e \in F, e.self /\ e.to = "airspace",
         NEW a, a.self /\ a.to = "airspace", a.plane.id = n + 1,
         NEW g, ~g.self, g.plane.id = e.plane.id
  PROVE  Located(((F \ {e}) \cup {a}) \cup {g}, H, D, n + 1)
  <1> DEFINE G == ((F \ {e}) \cup {a}) \cup {g}
  <1>0. PlacedOnce(F, H, D) /\ Numbered(F, H, D, n)
    BY DEF Located
  <1>1. /\ e.plane.id = n
        /\ \A x \in 1..n : x # n + 1 /\ x \in 1..(n + 1)
        /\ n + 1 \in 1..(n + 1)
        /\ \A f \in F \ {e} : f.plane.id # n
    BY <1>0 DEF Numbered, PlacedOnce
  <1>2. /\ \A f \in F : f.plane.id \in 1..n
        /\ \A i \in 1..Len(H) : H[i].id \in 1..n
        /\ \A i \in 1..Len(D) : D[i].id \in 1..n
    BY <1>0 DEF Numbered
  <1>3. PlacedOnce(G, H, D)
    <2>1. \A x, y \in G : x.plane.id = y.plane.id => x = y
      BY <1>0, <1>1, <1>2 DEF PlacedOnce
    <2>2. \A x \in G : /\ \A i \in 1..Len(H) : x.plane.id # H[i].id
                       /\ \A j \in 1..Len(D) : x.plane.id # D[j].id
      BY <1>0, <1>1, <1>2 DEF PlacedOnce
    <2> HIDE DEF G
    <2> QED
      BY <1>0, <2>1, <2>2 DEF PlacedOnce
  <1>4. Numbered(G, H, D, n + 1)
    <2>1. \A f \in G : f.plane.id \in 1..(n + 1)
      BY <1>1, <1>2
    <2>2. \A f \in G : (f.self /\ f.to = "airspace") <=> f.plane.id = n + 1
      BY <1>0, <1>1, <1>2 DEF Numbered
    <2>3. a \in G
      OBVIOUS
    <2> HIDE DEF G
    <2> QED
      BY <1>1, <1>2, <2>1, <2>2, <2>3 DEF Numbered
  <1> QED
    BY <1>3, <1>4 DEF Located

\* An airplane arrives and joins a queue; the next one is scheduled.
LEMMA LocatedArrivalWaits ==
  ASSUME NEW F, NEW H \in Seq(Airplanes), NEW D, NEW n \in Nat,
         Located(F, H, D, n),
         NEW e \in F, e.self /\ e.to = "airspace",
         NEW a, a.self /\ a.to = "airspace", a.plane.id = n + 1,
         NEW p \in Airplanes, p.id = e.plane.id
  PROVE  Located((F \ {e}) \cup {a}, Append(H, p), D, n + 1)
  <1> DEFINE G == (F \ {e}) \cup {a}
             q == Append(H, p)
  <1>0. PlacedOnce(F, H, D) /\ Numbered(F, H, D, n)
    BY DEF Located
  <1>1. /\ e.plane.id = n
        /\ \A x \in 1..n : x # n + 1 /\ x \in 1..(n + 1)
        /\ n \in 1..n /\ n + 1 \in 1..(n + 1)
        /\ \A f \in F \ {e} : f.plane.id # n
    BY <1>0 DEF Numbered, PlacedOnce
  <1>2. /\ \A f \in F : f.plane.id \in 1..n
        /\ \A i \in 1..Len(H) : H[i].id \in 1..n /\ H[i].id # n
        /\ \A i \in 1..Len(D) : D[i].id \in 1..n /\ D[i].id # n
    BY <1>0, <1>1 DEF Numbered, PlacedOnce
  <1>3. /\ Len(H) \in Nat /\ Len(q) = Len(H) + 1
        /\ \A i \in 1..Len(H) : q[i] = H[i]
        /\ q[Len(H) + 1] = p
    BY AppendFacts
  <1>4. \A i \in 1..Len(q) : i \in 1..Len(H) \/ i = Len(H) + 1
    BY <1>3
  <1> HIDE DEF q
  <1>5. \A i \in 1..Len(q) : /\ q[i].id \in 1..n
                             /\ q[i].id = n => i = Len(H) + 1
                             /\ i # Len(H) + 1 => q[i] = H[i] /\ i \in 1..Len(H)
                             /\ i = Len(H) + 1 => q[i].id = n
    BY <1>1, <1>2, <1>3, <1>4
  <1>6. PlacedOnce(G, q, D)
    <2>1. \A x, y \in G : x.plane.id = y.plane.id => x = y
      BY <1>0, <1>1, <1>2 DEF PlacedOnce
    <2>2. \A x \in G : \A i \in 1..Len(q) : x.plane.id # q[i].id
      BY <1>0, <1>1, <1>2, <1>5 DEF PlacedOnce
    <2>3. \A x \in G : \A j \in 1..Len(D) : x.plane.id # D[j].id
      BY <1>0, <1>1, <1>2 DEF PlacedOnce
    <2>4. \A i, j \in 1..Len(q) : q[i].id = q[j].id => i = j
      BY <1>0, <1>5 DEF PlacedOnce
    <2>5. \A i \in 1..Len(q), j \in 1..Len(D) : q[i].id # D[j].id
      BY <1>0, <1>2, <1>5 DEF PlacedOnce
    <2> HIDE DEF G
    <2> QED
      BY <1>0, <2>1, <2>2, <2>3, <2>4, <2>5 DEF PlacedOnce
  <1>7. Numbered(G, q, D, n + 1)
    <2>1. \A f \in G : f.plane.id \in 1..(n + 1)
      BY <1>1, <1>2
    <2>2. \A f \in G : (f.self /\ f.to = "airspace") <=> f.plane.id = n + 1
      BY <1>0, <1>1, <1>2 DEF Numbered
    <2>3. a \in G
      OBVIOUS
    <2>4. \A i \in 1..Len(q) : q[i].id \in 1..(n + 1)
      BY <1>1, <1>5
    <2> HIDE DEF G
    <2> QED
      BY <1>1, <1>2, <2>1, <2>2, <2>3, <2>4 DEF Numbered
  <1> QED
    BY <1>6, <1>7 DEF Located, q

(***************************************************************************)
(* Samples: what the emissions of each branch add to the recorders.        *)
(***************************************************************************)

\* The recorders that matter to Tallied, but for the RunwayUse one.
Recorded == {"HoldingQueueSize", "DepartQueueSize", "HoldingQueueWaitingTime",
             "DepartQueueWaitingTime", "ParkedPlanes", "AirportResponseTime"}

\* An operation starts: two samples of one queue's signals, in any order, and
\* one of the runway's use.
LEMMA OperationSamples ==
  ASSUME NEW st \in StatsType, NEW v1 \in Int, NEW v2 \in Int, NEW d \in Int,
         NEW s1 \in Recorded, NEW s2 \in Recorded, s1 # s2
  PROVE  LET r == Emit(Emit(Emit(st, s1, v1), s2, v2), "RunwayUse", d) IN
         /\ r \in StatsType
         /\ r[s1].count = st[s1].count + 1 /\ r[s1].last = v1
         /\ r[s2].count = st[s2].count + 1 /\ r[s2].last = v2
         /\ r["RunwayUse"].count = st["RunwayUse"].count + 1
         /\ \A s \in Recorded \ {s1, s2} : r[s] = st[s]
  <1> DEFINE a == Emit(st, s1, v1)
             b == Emit(a, s2, v2)
             r == Emit(b, "RunwayUse", d)
  <1>0. /\ Recorded \subseteq Signals /\ "RunwayUse" \notin Recorded
        /\ "RunwayUse" \in Signals
    BY SignalNames DEF Recorded
  <1>s. s1 \in Signals /\ s2 \in Signals /\ "RunwayUse" \in Signals
    BY <1>0
  <1>a. a \in StatsType
    BY <1>s, EmitFacts
  <1>1. /\ a[s1].count = st[s1].count + 1 /\ a[s1].last = v1
        /\ \A s \in Signals \ {s1} : a[s] = st[s]
    BY <1>s, EmitFacts
  <1> HIDE DEF a
  <1>b. b \in StatsType
    BY <1>a, <1>s, EmitFacts
  <1>2. /\ b[s2].count = a[s2].count + 1 /\ b[s2].last = v2
        /\ \A s \in Signals \ {s2} : b[s] = a[s]
    BY <1>a, <1>s, EmitFacts
  <1> HIDE DEF b
  <1>r. r \in StatsType
    BY <1>b, <1>s, EmitFacts
  <1>3. /\ r["RunwayUse"].count = b["RunwayUse"].count + 1
        /\ \A s \in Signals \ {"RunwayUse"} : r[s] = b[s]
    BY <1>b, <1>s, EmitFacts
  <1> HIDE DEF r
  <1>4. /\ r \in StatsType
        /\ r[s1].count = st[s1].count + 1 /\ r[s1].last = v1
        /\ r[s2].count = st[s2].count + 1 /\ r[s2].last = v2
        /\ r["RunwayUse"].count = st["RunwayUse"].count + 1
        /\ \A s \in Recorded \ {s1, s2} : r[s] = st[s]
    BY <1>0, <1>1, <1>2, <1>3, <1>r
  <1> QED
    BY <1>4 DEF a, b, r

\* The parts of a recorder's state are numbers.
LEMMA SampleTypes ==
  ASSUME NEW st \in StatsType, NEW s \in Signals
  PROVE  st[s].count \in Nat /\ st[s].last \in Int
  BY DEF StatsType

(***************************************************************************)
(* The sums of Tallied over numbers: f events, tk of them take-offs, h and *)
(* d airplanes in the queues, and the sample counts of the signals.        *)
(***************************************************************************)
Sums(f, tk, h, d, dep, n, hs, hw, ds, dw, pp, ru) ==
  /\ f + h + d + dep = n
  /\ hw + h + 1 = n
  /\ dw = dep + tk
  /\ ru = hw + dw
  /\ hs >= hw
  /\ ds >= dw
  /\ pp >= dw + d

TalliedSums(F, H, D, st, dep, n) ==
  Sums(Cardinality(F), Cardinality(TakeoffsIn(F)), Len(H), Len(D), dep, n,
       st["HoldingQueueSize"].count, st["HoldingQueueWaitingTime"].count,
       st["DepartQueueSize"].count, st["DepartQueueWaitingTime"].count,
       st["ParkedPlanes"].count, st["RunwayUse"].count)

TalliedLast(F, H, D, st, np, dep) ==
  /\ np = Cardinality(ParkedIn(F))
  /\ st["ParkedPlanes"].last = np
  /\ st["HoldingQueueSize"].last = Len(H)
  /\ st["DepartQueueSize"].last = Len(D)
  /\ st["AirportResponseTime"].count = dep

\* Tallied is its sums and what the last samples say.
LEMMA TalliedParts ==
  ASSUME NEW F, NEW H, NEW D, NEW st, NEW np, NEW dep, NEW n
  PROVE  Tallied(F, H, D, st, np, dep, n) <=>
           /\ TalliedSums(F, H, D, st, dep, n)
           /\ TalliedLast(F, H, D, st, np, dep)
  BY DEF Tallied, TalliedSums, TalliedLast, Sums

\* What the branches of the handlers do to the sums.
\* Airspace::go()
LEMMA SumsLandingGo ==
  ASSUME NEW f \in Nat, NEW tk \in Nat, NEW h \in Nat, NEW d \in Nat,
         NEW dep \in Nat, NEW n \in Nat, NEW hs \in Nat, NEW hw \in Nat,
         NEW ds \in Nat, NEW dw \in Nat, NEW pp \in Nat, NEW ru \in Nat,
         Sums(f, tk, h, d, dep, n, hs, hw, ds, dw, pp, ru)
  PROVE  Sums(f + 1, tk, h - 1, d, dep, n,
              hs + 1, hw + 1, ds, dw, pp, ru + 1)
  BY DEF Sums

\* ParkingArea::go()
LEMMA SumsTakeoffGo ==
  ASSUME NEW f \in Nat, NEW tk \in Nat, NEW h \in Nat, NEW d \in Nat,
         NEW dep \in Nat, NEW n \in Nat, NEW hs \in Nat, NEW hw \in Nat,
         NEW ds \in Nat, NEW dw \in Nat, NEW pp \in Nat, NEW ru \in Nat,
         Sums(f, tk, h, d, dep, n, hs, hw, ds, dw, pp, ru)
  PROVE  Sums(f + 1, tk + 1, h, d - 1, dep, n,
              hs, hw, ds + 1, dw + 1, pp, ru + 1)
  BY DEF Sums

\* An arrival that lands at once
LEMMA SumsArrivalGranted ==
  ASSUME NEW f \in Nat, NEW tk \in Nat, NEW h \in Nat, NEW d \in Nat,
         NEW dep \in Nat, NEW n \in Nat, NEW hs \in Nat, NEW hw \in Nat,
         NEW ds \in Nat, NEW dw \in Nat, NEW pp \in Nat, NEW ru \in Nat,
         Sums(f, tk, h, d, dep, n, hs, hw, ds, dw, pp, ru)
  PROVE  Sums(f + 1, tk, h, d, dep, n + 1,
              hs + 1, hw + 1, ds, dw, pp, ru + 1)
  BY DEF Sums

\* An arrival that waits
LEMMA SumsArrivalQueued ==
  ASSUME NEW f \in Nat, NEW tk \in Nat, NEW h \in Nat, NEW d \in Nat,
         NEW dep \in Nat, NEW n \in Nat, NEW hs \in Nat, NEW hw \in Nat,
         NEW ds \in Nat, NEW dw \in Nat, NEW pp \in Nat, NEW ru \in Nat,
         Sums(f, tk, h, d, dep, n, hs, hw, ds, dw, pp, ru)
  PROVE  Sums(f, tk, h + 1, d, dep, n + 1,
              hs + 1, hw, ds, dw, pp, ru)
  BY DEF Sums

\* A parking time ends, take-off at once
LEMMA SumsParkingGranted ==
  ASSUME NEW f \in Nat, NEW tk \in Nat, NEW h \in Nat, NEW d \in Nat,
         NEW dep \in Nat, NEW n \in Nat, NEW hs \in Nat, NEW hw \in Nat,
         NEW ds \in Nat, NEW dw \in Nat, NEW pp \in Nat, NEW ru \in Nat,
         Sums(f, tk, h, d, dep, n, hs, hw, ds, dw, pp, ru)
  PROVE  Sums(f, tk + 1, h, d, dep, n,
              hs, hw, ds + 1, dw + 1, pp + 1, ru + 1)
  BY DEF Sums

\* A parking time ends, the airplane waits
LEMMA SumsParkingQueued ==
  ASSUME NEW f \in Nat, NEW tk \in Nat, NEW h \in Nat, NEW d \in Nat,
         NEW dep \in Nat, NEW n \in Nat, NEW hs \in Nat, NEW hw \in Nat,
         NEW ds \in Nat, NEW dw \in Nat, NEW pp \in Nat, NEW ru \in Nat,
         Sums(f, tk, h, d, dep, n, hs, hw, ds, dw, pp, ru)
  PROVE  Sums(f - 1, tk, h, d + 1, dep, n,
              hs, hw, ds + 1, dw, pp + 1, ru)
  BY DEF Sums

\* A landing ends
LEMMA SumsLanded ==
  ASSUME NEW f \in Nat, NEW tk \in Nat, NEW h \in Nat, NEW d \in Nat,
         NEW dep \in Nat, NEW n \in Nat, NEW hs \in Nat, NEW hw \in Nat,
         NEW ds \in Nat, NEW dw \in Nat, NEW pp \in Nat, NEW ru \in Nat,
         Sums(f, tk, h, d, dep, n, hs, hw, ds, dw, pp, ru)
  PROVE  Sums(f, tk, h, d, dep, n,
              hs, hw, ds, dw, pp + 1, ru)
  BY DEF Sums

\* An airplane departs
LEMMA SumsDeparted ==
  ASSUME NEW f \in Nat, NEW tk \in Nat, NEW h \in Nat, NEW d \in Nat,
         NEW dep \in Nat, NEW n \in Nat, NEW hs \in Nat, NEW hw \in Nat,
         NEW ds \in Nat, NEW dw \in Nat, NEW pp \in Nat, NEW ru \in Nat,
         Sums(f, tk, h, d, dep, n, hs, hw, ds, dw, pp, ru)
  PROVE  Sums(f - 1, tk - 1, h, d, dep + 1, n,
              hs, hw, ds, dw, pp, ru)
  BY DEF Sums

\* The sums are over natural numbers.
SumTypes(F, H, D, st) ==
  /\ Cardinality(F) \in Nat /\ Cardinality(TakeoffsIn(F)) \in Nat
  /\ Len(H) \in Nat /\ Len(D) \in Nat
  /\ st["HoldingQueueSize"].count \in Nat
  /\ st["DepartQueueSize"].count \in Nat
  /\ st["HoldingQueueWaitingTime"].count \in Nat
  /\ st["DepartQueueWaitingTime"].count \in Nat
  /\ st["ParkedPlanes"].count \in Nat
  /\ st["RunwayUse"].count \in Nat

\* What the sums are made of is typed.
LEMMA SumTyped ==
  ASSUME NEW F, IsFiniteSet(F), NEW H \in Seq(Airplanes),
         NEW D \in Seq(Airplanes), NEW st \in StatsType
  PROVE  SumTypes(F, H, D, st)
  <1>1. Cardinality(F) \in Nat /\ Cardinality(TakeoffsIn(F)) \in Nat
    BY CountTypes
  <1>2. Len(H) \in Nat /\ Len(D) \in Nat
    OBVIOUS
  <1>3. /\ st["HoldingQueueSize"].count \in Nat
        /\ st["DepartQueueSize"].count \in Nat
        /\ st["HoldingQueueWaitingTime"].count \in Nat
        /\ st["DepartQueueWaitingTime"].count \in Nat
        /\ st["ParkedPlanes"].count \in Nat
        /\ st["RunwayUse"].count \in Nat
    BY SampleTypes, SignalNames
  <1> QED
    BY <1>1, <1>2, <1>3 DEF SumTypes

(***************************************************************************)
(* Airspace::go() and ParkingArea::go() keep the tallies: the airplane     *)
(* moves from its queue to the runway and leaves its samples.              *)
(***************************************************************************)
LEMMA TalliedLandingGo ==
  ASSUME NEW F, IsFiniteSet(F), NEW H \in Seq(Airplanes), H # << >>,
         NEW D \in Seq(Airplanes), NEW st \in StatsType,
         NEW np, NEW dep \in Nat, NEW n \in Nat,
         Tallied(F, H, D, st, np, dep, n),
         NEW g, g \notin F, ~g.self, g.to = "parkingarea",
         NEW w \in Int, NEW d \in Int
  PROVE  Tallied(F \cup {g}, Tail(H), D,
                 Emit(Emit(Emit(st, "HoldingQueueWaitingTime", w),
                           "HoldingQueueSize", Len(H) - 1), "RunwayUse", d),
                 np, dep, n)
  <1> DEFINE G == F \cup {g}
             r == Emit(Emit(Emit(st, "HoldingQueueWaitingTime", w),
                           "HoldingQueueSize", Len(H) - 1), "RunwayUse", d)
             T == Tail(H)
  <1>0. SumTypes(F, H, D, st)
    BY SumTyped
  <1>1. /\ Cardinality(G) = Cardinality(F) + 1
        /\ Cardinality(ParkedIn(G)) = Cardinality(ParkedIn(F))
        /\ Cardinality(TakeoffsIn(G)) = Cardinality(TakeoffsIn(F))
    BY PutCounts
  <1>2. Len(H) \in Nat /\ Len(T) = Len(H) - 1
    BY PopFacts
  <1>3. /\ "HoldingQueueWaitingTime" \in Recorded
        /\ "HoldingQueueSize" \in Recorded
        /\ "HoldingQueueWaitingTime" # "HoldingQueueSize"
        /\ Len(H) - 1 \in Int
    BY <1>2 DEF Recorded
  <1>4. r["HoldingQueueWaitingTime"].count
          = st["HoldingQueueWaitingTime"].count + 1
    BY <1>3, OperationSamples
  <1>4a. /\ r["HoldingQueueSize"].count = st["HoldingQueueSize"].count + 1
         /\ r["HoldingQueueSize"].last = Len(H) - 1
    BY <1>3, OperationSamples
  <1>4b. r["RunwayUse"].count = st["RunwayUse"].count + 1
    BY <1>3, OperationSamples
  <1>5. \A s \in Recorded \ {"HoldingQueueWaitingTime", "HoldingQueueSize"} :
          r[s] = st[s]
    BY <1>3, OperationSamples
  <1> HIDE DEF G, r, T
  <1>6. /\ r["DepartQueueSize"].count = st["DepartQueueSize"].count
        /\ r["DepartQueueSize"].last = st["DepartQueueSize"].last
        /\ r["DepartQueueWaitingTime"].count = st["DepartQueueWaitingTime"].count
        /\ r["ParkedPlanes"].count = st["ParkedPlanes"].count
        /\ r["ParkedPlanes"].last = st["ParkedPlanes"].last
        /\ r["AirportResponseTime"].count = st["AirportResponseTime"].count
    BY <1>5 DEF Recorded
  <1>7. TalliedSums(F, H, D, st, dep, n) /\ TalliedLast(F, H, D, st, np, dep)
    BY TalliedParts
  <1>7a. Sums(Cardinality(F) + 1, Cardinality(TakeoffsIn(F)),
             Len(H) - 1, Len(D), dep, n,
             st["HoldingQueueSize"].count + 1,
             st["HoldingQueueWaitingTime"].count + 1,
             st["DepartQueueSize"].count,
             st["DepartQueueWaitingTime"].count,
             st["ParkedPlanes"].count, st["RunwayUse"].count + 1)
    BY <1>0, <1>7, SumsLandingGo DEF TalliedSums, SumTypes
  <1>8. TalliedSums(G, T, D, r, dep, n)
    BY <1>1, <1>2, <1>4, <1>4a, <1>4b, <1>6, <1>7a DEF TalliedSums
  <1>9. TalliedLast(G, T, D, r, np, dep)
    BY <1>1, <1>2, <1>4, <1>4a, <1>4b, <1>6, <1>7 DEF TalliedLast
  <1>10. Tallied(G, T, D, r, np, dep, n)
    BY <1>8, <1>9, TalliedParts
  <1> QED
    BY <1>10 DEF G, r, T

\* go() of the parking area: one airplane from the queue to the runway.
LEMMA TalliedTakeoffGo ==
  ASSUME NEW F, IsFiniteSet(F), NEW H \in Seq(Airplanes),
         NEW D \in Seq(Airplanes), D # << >>, NEW st \in StatsType,
         NEW np, NEW dep \in Nat, NEW n \in Nat,
         Tallied(F, H, D, st, np, dep, n),
         NEW g, g \notin F, ~g.self, g.to = "airspace",
         NEW w \in Int, NEW d \in Int
  PROVE  Tallied(F \cup {g}, H, Tail(D),
                 Emit(Emit(Emit(st, "DepartQueueWaitingTime", w),
                           "DepartQueueSize", Len(D) - 1), "RunwayUse", d),
                 np, dep, n)
  <1> DEFINE G == F \cup {g}
             r == Emit(Emit(Emit(st, "DepartQueueWaitingTime", w),
                           "DepartQueueSize", Len(D) - 1), "RunwayUse", d)
             T == Tail(D)
  <1>0. SumTypes(F, H, D, st)
    BY SumTyped
  <1>1. /\ Cardinality(G) = Cardinality(F) + 1
        /\ Cardinality(ParkedIn(G)) = Cardinality(ParkedIn(F))
        /\ Cardinality(TakeoffsIn(G)) = Cardinality(TakeoffsIn(F)) + 1
    BY PutCounts
  <1>2. Len(D) \in Nat /\ Len(T) = Len(D) - 1
    BY PopFacts
  <1>3. /\ "DepartQueueWaitingTime" \in Recorded
        /\ "DepartQueueSize" \in Recorded
        /\ "DepartQueueWaitingTime" # "DepartQueueSize"
        /\ Len(D) - 1 \in Int
    BY <1>2 DEF Recorded
  <1>4. r["DepartQueueWaitingTime"].count
          = st["DepartQueueWaitingTime"].count + 1
    BY <1>3, OperationSamples, SMTT(30)
  <1>4a. /\ r["DepartQueueSize"].count = st["DepartQueueSize"].count + 1
         /\ r["DepartQueueSize"].last = Len(D) - 1
    BY <1>3, OperationSamples
  <1>4b. r["RunwayUse"].count = st["RunwayUse"].count + 1
    BY <1>3, OperationSamples
  <1>5. \A s \in Recorded \ {"DepartQueueWaitingTime", "DepartQueueSize"} :
          r[s] = st[s]
    BY <1>3, OperationSamples
  <1> HIDE DEF G, r, T
  <1>6. /\ r["HoldingQueueSize"].count = st["HoldingQueueSize"].count
        /\ r["HoldingQueueSize"].last = st["HoldingQueueSize"].last
        /\ r["HoldingQueueWaitingTime"].count = st["HoldingQueueWaitingTime"].count
        /\ r["ParkedPlanes"].count = st["ParkedPlanes"].count
        /\ r["ParkedPlanes"].last = st["ParkedPlanes"].last
        /\ r["AirportResponseTime"].count = st["AirportResponseTime"].count
    BY <1>5 DEF Recorded
  <1>7. TalliedSums(F, H, D, st, dep, n) /\ TalliedLast(F, H, D, st, np, dep)
    BY TalliedParts
  <1>7a. Sums(Cardinality(F) + 1, Cardinality(TakeoffsIn(F)) + 1,
             Len(H), Len(D) - 1, dep, n,
             st["HoldingQueueSize"].count,
             st["HoldingQueueWaitingTime"].count,
             st["DepartQueueSize"].count + 1,
             st["DepartQueueWaitingTime"].count + 1,
             st["ParkedPlanes"].count, st["RunwayUse"].count + 1)
    BY <1>0, <1>7, SumsTakeoffGo DEF TalliedSums, SumTypes
  <1>8. TalliedSums(G, H, T, r, dep, n)
    BY <1>1, <1>2, <1>4, <1>4a, <1>4b, <1>6, <1>7a DEF TalliedSums
  <1>9. TalliedLast(G, H, T, r, np, dep)
    BY <1>1, <1>2, <1>4, <1>4a, <1>4b, <1>6, <1>7 DEF TalliedLast
  <1>10. Tallied(G, H, T, r, np, dep, n)
    BY <1>8, <1>9, TalliedParts
  <1> QED
    BY <1>10 DEF G, r, T

(***************************************************************************)
(* The parts of CountInv that a handler which calls completed() restores   *)
(* before the call, for the events and the recorders it passes on.         *)
(***************************************************************************)
Settled(F, H, D, st, np, dep, n, s) ==
  /\ IsFiniteSet(F)
  /\ \A e \in F : e.seq < s
  /\ Located(F, H, D, n)
  /\ Tallied(F, H, D, st, np, dep, n)

\* An event with a fresh insertion number is a new one.
LEMMA FreshEvent ==
  ASSUME NEW F \in SUBSET Events, NEW s \in Nat, \A e \in F : e.seq < s,
         NEW g, g.seq = s
  PROVE  /\ g \notin F
         /\ \A e \in F \cup {g} : e.seq < s + 1
  BY DEF Events

\* ControlTower::completed(): the strip is freed, or an airplane moves from
\* the front of its queue to the runway.
LEMMA CompletedSettled ==
  ASSUME TypeOK, NEW t \in Nat, NEW kept \in SUBSET Events,
         NEW st \in StatsType, completed(t, kept, st),
         NEW np, NEW dep \in Nat, NEW n \in Nat,
         Settled(kept, holdingQueue, departQueue, st, np, dep, n, seq + 1)
  PROVE  Settled(fes', holdingQueue', departQueue', stats', np, dep, n, seq + 2)
  <1>1. /\ holdingQueue \in Seq(Airplanes) /\ departQueue \in Seq(Airplanes)
        /\ par \in Configs /\ seq \in Nat
    BY DEF TypeOK
  <1>2. /\ IsFiniteSet(kept)
        /\ \A e \in kept : e.seq < seq + 1
        /\ Located(kept, holdingQueue, departQueue, n)
        /\ Tallied(kept, holdingQueue, departQueue, st, np, dep, n)
    BY DEF Settled
  <1>3. seq + 1 \in Nat /\ (seq + 1) + 1 = seq + 2
    BY <1>1
  <1>4. CASE FreeStrip(kept, st)
    <2>1. \A e \in kept : e.seq < seq + 2
      BY <1>1, <1>2 DEF Events
    <2> QED
      BY <1>2, <1>4, <2>1 DEF FreeStrip, Settled
  <1>5. CASE HandOverToLanding(t, kept, st)
    <2> DEFINE plane == Head(holdingQueue)
               w == t - plane.queueArrivalTime
    <2>1. /\ holdingQueue # << >>
          /\ holdingQueue' = Tail(holdingQueue) /\ departQueue' = departQueue
      BY <1>5, SelectedFacts DEF HandOverToLanding, AirspaceGo
    <2>2. plane \in Airplanes /\ w \in Int
      BY <1>1, <2>1, PopFacts DEF Airplanes
    <2>3. PICK d \in LandingTimes :
            /\ fes' = kept \cup {Message("parkingarea", t + d, seq + 1, plane)}
            /\ stats' = Emit(Emit(Emit(st, "HoldingQueueWaitingTime", w),
                                  "HoldingQueueSize", Len(holdingQueue) - 1),
                             "RunwayUse", d)
      BY <1>5 DEF HandOverToLanding, AirspaceGo, StartLanding
    <2>4. d \in Int
      BY <1>1, DrawsAreNat
    <2> DEFINE g == Message("parkingarea", t + d, seq + 1, plane)
    <2>5. /\ g.seq = seq + 1 /\ g.plane = plane
          /\ ~g.self /\ g.to = "parkingarea"
      BY DEF Message
    <2>6. fes' = kept \cup {g}
      BY <2>3
    <2> HIDE DEF g, w
    <2>7. g \notin kept /\ \A e \in kept \cup {g} : e.seq < seq + 2
      BY <1>2, <1>3, <2>5, FreshEvent
    <2>8. IsFiniteSet(kept \cup {g})
      BY <1>2, FS_AddElement
    <2>9. Located(kept \cup {g}, Tail(holdingQueue), departQueue, n)
      BY <1>1, <1>2, <2>1, <2>5, LocatedGo
    <2>10. Tallied(kept \cup {g}, Tail(holdingQueue), departQueue, stats',
                   np, dep, n)
      BY <1>1, <1>2, <2>1, <2>2, <2>3, <2>4, <2>5, <2>7, TalliedLandingGo
    <2> QED
      BY <2>1, <2>6, <2>7, <2>8, <2>9, <2>10 DEF Settled
  <1>6. CASE HandOverToTakeoff(t, kept, st)
    <2> DEFINE plane == Head(departQueue)
               w == t - plane.queueArrivalTime
    <2>1. /\ departQueue # << >>
          /\ departQueue' = Tail(departQueue) /\ holdingQueue' = holdingQueue
      BY <1>6, SelectedFacts DEF HandOverToTakeoff, ParkingAreaGo
    <2>2. plane \in Airplanes /\ w \in Int
      BY <1>1, <2>1, PopFacts DEF Airplanes
    <2>3. PICK d \in TakeoffTimes :
            /\ fes' = kept \cup {Message("airspace", t + d, seq + 1, plane)}
            /\ stats' = Emit(Emit(Emit(st, "DepartQueueWaitingTime", w),
                                  "DepartQueueSize", Len(departQueue) - 1),
                             "RunwayUse", d)
      BY <1>6 DEF HandOverToTakeoff, ParkingAreaGo, StartTakeoff
    <2>4. d \in Int
      BY <1>1, DrawsAreNat
    <2> DEFINE g == Message("airspace", t + d, seq + 1, plane)
    <2>5. /\ g.seq = seq + 1 /\ g.plane = plane
          /\ ~g.self /\ g.to = "airspace"
      BY DEF Message
    <2>6. fes' = kept \cup {g}
      BY <2>3
    <2> HIDE DEF g, w
    <2>7. g \notin kept /\ \A e \in kept \cup {g} : e.seq < seq + 2
      BY <1>2, <1>3, <2>5, FreshEvent
    <2>8. IsFiniteSet(kept \cup {g})
      BY <1>2, FS_AddElement
    <2>9. Located(kept \cup {g}, holdingQueue, Tail(departQueue), n)
      BY <1>1, <1>2, <2>1, <2>5, LocatedGo, LocatedSwap
    <2>10. Tallied(kept \cup {g}, holdingQueue, Tail(departQueue), stats',
                   np, dep, n)
      BY <1>1, <1>2, <2>1, <2>2, <2>3, <2>4, <2>5, <2>7, TalliedTakeoffGo
    <2> QED
      BY <2>1, <2>6, <2>7, <2>8, <2>9, <2>10 DEF Settled
  <1> QED
    BY <1>4, <1>5, <1>6 DEF completed

(***************************************************************************)
(* The handlers.                                                           *)
(***************************************************************************)

\* What a delivery finds, and what is left without the delivered event.
LEMMA DeliverCounts ==
  ASSUME TypeOK, CountInv, NEW e \in fes, NEW m, NEW self, Deliver(e, m, self)
  PROVE  /\ e \in Events /\ e.plane \in Airplanes /\ e.time \in Nat
         /\ e.to = m /\ e.self = self
         /\ seq \in Nat /\ seq' = seq + 2
         /\ created \in Nat /\ departedPlanes \in Nat /\ numParked \in Int
         /\ holdingQueue \in Seq(Airplanes) /\ departQueue \in Seq(Airplanes)
         /\ stats \in StatsType /\ par \in Configs
         /\ fes \in SUBSET Events /\ fes \ {e} \in SUBSET Events
         /\ IsFiniteSet(fes) /\ IsFiniteSet(fes \ {e})
         /\ Located(fes, holdingQueue, departQueue, created)
         /\ Tallied(fes, holdingQueue, departQueue, stats,
                    numParked, departedPlanes, created)
         /\ \A f \in fes \ {e} : f.seq < seq
  <1>1. /\ e \in Events /\ e.plane \in Airplanes /\ e.time \in Nat
    BY DEF TypeOK, Events
  <1>2. IsFiniteSet(fes) /\ IsFiniteSet(fes \ {e})
    BY FS_RemoveElement DEF CountInv
  <1>3. /\ Located(fes, holdingQueue, departQueue, created)
        /\ Tallied(fes, holdingQueue, departQueue, stats,
                    numParked, departedPlanes, created)
        /\ \A f \in fes \ {e} : f.seq < seq
    BY DEF CountInv, Located
  <1>4. /\ seq \in Nat
        /\ created \in Nat /\ departedPlanes \in Nat /\ numParked \in Int
        /\ holdingQueue \in Seq(Airplanes) /\ departQueue \in Seq(Airplanes)
        /\ stats \in StatsType /\ par \in Configs
        /\ fes \in SUBSET Events /\ fes \ {e} \in SUBSET Events
    BY DEF TypeOK
  <1>5. e.to = m /\ e.self = self /\ seq' = seq + 2
    BY DEF Deliver
  <1> QED
    BY <1>1, <1>2, <1>3, <1>4, <1>5

\* An airplane arrives while the strip is free.
LEMMA ArrivalGrantedCounts ==
  ASSUME TypeOK, NoIdleWaiting, CountInv, NEW e \in fes, ArrivalGranted(e),
         UNCHANGED parkingVars
  PROVE  Settled(fes', holdingQueue', departQueue', stats',
                 numParked', departedPlanes', created', seq')
  <1>1. /\ Deliver(e, "airspace", TRUE)
        /\ ~landingStripOccupied
        /\ created' = created + 1 /\ departedPlanes' = departedPlanes
        /\ holdingQueue' = holdingQueue /\ departQueue' = departQueue
        /\ numParked' = numParked
    BY DEF ArrivalGranted, Arrival, notify, parkingVars
  <1>2. holdingQueue = << >> /\ Len(holdingQueue) = 0
    BY <1>1 DEF NoIdleWaiting
  <1>3. /\ e.plane \in Airplanes /\ e.to = "airspace" /\ e.self = TRUE
        /\ seq \in Nat /\ seq' = seq + 2
        /\ created \in Nat /\ departedPlanes \in Nat
        /\ holdingQueue \in Seq(Airplanes) /\ departQueue \in Seq(Airplanes)
        /\ stats \in StatsType /\ par \in Configs
        /\ fes \ {e} \in SUBSET Events
        /\ IsFiniteSet(fes) /\ IsFiniteSet(fes \ {e})
        /\ Located(fes, holdingQueue, departQueue, created)
        /\ Tallied(fes, holdingQueue, departQueue, stats,
                    numParked, departedPlanes, created)
        /\ \A f \in fes \ {e} : f.seq < seq
    BY <1>1, DeliverCounts
  <1>4. PICK x \in InterArrivalTimes, d \in LandingTimes :
          /\ fes' = ((fes \ {e}) \cup {NextArrival(e.time, x)})
                      \cup {Message("parkingarea", e.time + d, seq, Stamped(e))}
          /\ stats' = Emit(Emit(Emit(stats, "HoldingQueueSize", 0),
                                "HoldingQueueWaitingTime", 0), "RunwayUse", d)
    BY DEF ArrivalGranted, StartLanding
  <1>5. d \in Int
    BY <1>3, DrawsAreNat
  <1> DEFINE a == NextArrival(e.time, x)
             g == Message("parkingarea", e.time + d, seq, Stamped(e))
             R == fes \ {e}
             G == (R \cup {a}) \cup {g}
             r == Emit(Emit(Emit(stats, "HoldingQueueSize", 0),
                            "HoldingQueueWaitingTime", 0), "RunwayUse", d)
  <1>6. /\ a.seq = seq + 1 /\ a.self = TRUE /\ a.to = "airspace"
        /\ a.plane.id = created + 1
    BY DEF NextArrival, SelfMessage, NewAirplane
  <1>7. Stamped(e).id = e.plane.id
    BY <1>3 DEF Stamped, Airplanes
  <1>8. /\ g.seq = seq /\ g.self = FALSE /\ g.to = "parkingarea"
        /\ g.plane.id = e.plane.id
    BY <1>7 DEF Message
  <1>9. fes' = G /\ stats' = r
    BY <1>4
  <1> HIDE DEF a, g
  <1>10. /\ a \notin R /\ g \notin R \cup {a}
         /\ \A f \in G : f.seq < seq + 2
    BY <1>3, <1>6, <1>8 DEF Events
  <1>11. Located(G, holdingQueue, departQueue, created + 1)
    BY <1>3, <1>6, <1>8, LocatedArrivalLands
  <1>12. /\ IsFiniteSet(R \cup {a})
         /\ Cardinality(R \cup {a}) = Cardinality(R) + 1
         /\ Cardinality(ParkedIn(R \cup {a})) = Cardinality(ParkedIn(R))
         /\ Cardinality(TakeoffsIn(R \cup {a})) = Cardinality(TakeoffsIn(R))
    BY <1>3, <1>6, <1>10, PutCounts
  <1>13. /\ IsFiniteSet(G)
         /\ Cardinality(G) = Cardinality(R \cup {a}) + 1
         /\ Cardinality(ParkedIn(G)) = Cardinality(ParkedIn(R \cup {a}))
         /\ Cardinality(TakeoffsIn(G)) = Cardinality(TakeoffsIn(R \cup {a}))
    BY <1>8, <1>10, <1>12, PutCounts
  <1>14. /\ Cardinality(R) = Cardinality(fes) - 1
         /\ Cardinality(ParkedIn(R)) = Cardinality(ParkedIn(fes))
         /\ Cardinality(TakeoffsIn(R)) = Cardinality(TakeoffsIn(fes))
    BY <1>3, TakeCounts
  <1> HIDE DEF G, R
  <1>15. SumTypes(fes, holdingQueue, departQueue, stats)
    BY <1>3, SumTyped
  <1>16. /\ Cardinality(G) = Cardinality(fes) + 1
         /\ Cardinality(ParkedIn(G)) = Cardinality(ParkedIn(fes))
         /\ Cardinality(TakeoffsIn(G)) = Cardinality(TakeoffsIn(fes))
    BY <1>12, <1>13, <1>14, <1>15 DEF SumTypes
  <1>17. /\ "HoldingQueueWaitingTime" \in Recorded
         /\ "HoldingQueueSize" \in Recorded
         /\ "HoldingQueueSize" # "HoldingQueueWaitingTime"
         /\ 0 \in Int
    BY DEF Recorded
  <1>18. /\ r["HoldingQueueSize"].count = stats["HoldingQueueSize"].count + 1
         /\ r["HoldingQueueSize"].last = 0
    BY <1>3, <1>5, <1>17, OperationSamples
  <1>19. r["HoldingQueueWaitingTime"].count
           = stats["HoldingQueueWaitingTime"].count + 1
    BY <1>3, <1>5, <1>17, OperationSamples
  <1>20. r["RunwayUse"].count = stats["RunwayUse"].count + 1
    BY <1>3, <1>5, <1>17, OperationSamples
  <1>21. \A s \in Recorded \ {"HoldingQueueSize", "HoldingQueueWaitingTime"} :
           r[s] = stats[s]
    BY <1>3, <1>5, <1>17, OperationSamples
  <1> HIDE DEF r
  <1>22. /\ r["DepartQueueSize"].count = stats["DepartQueueSize"].count
         /\ r["DepartQueueSize"].last = stats["DepartQueueSize"].last
         /\ r["DepartQueueWaitingTime"].count
              = stats["DepartQueueWaitingTime"].count
         /\ r["ParkedPlanes"].count = stats["ParkedPlanes"].count
         /\ r["ParkedPlanes"].last = stats["ParkedPlanes"].last
         /\ r["AirportResponseTime"].count = stats["AirportResponseTime"].count
    BY <1>21 DEF Recorded
  <1>23. /\ TalliedSums(fes, holdingQueue, departQueue, stats,
                        departedPlanes, created)
         /\ TalliedLast(fes, holdingQueue, departQueue, stats,
                        numParked, departedPlanes)
    BY <1>3, TalliedParts
  <1>24. Sums(Cardinality(fes) + 1, Cardinality(TakeoffsIn(fes)),
              Len(holdingQueue), Len(departQueue),
              departedPlanes, created + 1,
              stats["HoldingQueueSize"].count + 1,
              stats["HoldingQueueWaitingTime"].count + 1,
              stats["DepartQueueSize"].count,
              stats["DepartQueueWaitingTime"].count,
              stats["ParkedPlanes"].count, stats["RunwayUse"].count + 1)
    BY <1>3, <1>15, <1>23, SumsArrivalGranted DEF TalliedSums, SumTypes
  <1>25. TalliedSums(G, holdingQueue, departQueue, r,
                     departedPlanes, created + 1)
    BY <1>16, <1>18, <1>19, <1>20, <1>22, <1>24 DEF TalliedSums
  <1>26. TalliedLast(G, holdingQueue, departQueue, r,
                     numParked, departedPlanes)
    BY <1>2, <1>16, <1>18, <1>22, <1>23 DEF TalliedLast
  <1>27. Tallied(G, holdingQueue, departQueue, r,
                 numParked, departedPlanes, created + 1)
    BY <1>25, <1>26, TalliedParts
  <1> QED
    BY <1>1, <1>3, <1>9, <1>10, <1>11, <1>13, <1>27 DEF Settled

\* One sample of a signal other than the runway's use.
LEMMA OneSample ==
  ASSUME NEW st \in StatsType, NEW s \in Recorded, NEW v \in Int
  PROVE  /\ Emit(st, s, v) \in StatsType
         /\ Emit(st, s, v)[s].count = st[s].count + 1
         /\ Emit(st, s, v)[s].last = v
         /\ Emit(st, s, v)["RunwayUse"] = st["RunwayUse"]
         /\ \A q \in Recorded \ {s} : Emit(st, s, v)[q] = st[q]
  <1>1. /\ s \in Signals /\ "RunwayUse" \in Signals /\ s # "RunwayUse"
        /\ Recorded \subseteq Signals
    BY SignalNames DEF Recorded
  <1>2. Emit(st, s, v) \in StatsType
    BY <1>1, EmitFacts
  <1>3. /\ Emit(st, s, v)[s].count = st[s].count + 1
        /\ Emit(st, s, v)[s].last = v
        /\ \A q \in Signals \ {s} : Emit(st, s, v)[q] = st[q]
    BY <1>1, EmitFacts
  <1> QED
    BY <1>1, <1>2, <1>3

\* An airplane arrives while the strip is occupied.
LEMMA ArrivalQueuedCounts ==
  ASSUME TypeOK, CountInv, NEW e \in fes, ArrivalQueued(e),
         UNCHANGED parkingVars
  PROVE  Settled(fes', holdingQueue', departQueue', stats',
                 numParked', departedPlanes', created', seq')
  <1> DEFINE p == [Stamped(e) EXCEPT !.queueArrivalTime = e.time]
             q == Append(holdingQueue, p)
             r == Emit(stats, "HoldingQueueSize", Len(holdingQueue) + 1)
             R == fes \ {e}
  <1>1. /\ Deliver(e, "airspace", TRUE)
        /\ created' = created + 1 /\ departedPlanes' = departedPlanes
        /\ holdingQueue' = q /\ departQueue' = departQueue
        /\ numParked' = numParked /\ stats' = r
    BY DEF ArrivalQueued, Arrival, parkingVars
  <1>3. /\ e.plane \in Airplanes /\ e.to = "airspace" /\ e.self = TRUE
        /\ seq \in Nat /\ seq' = seq + 2
        /\ created \in Nat /\ departedPlanes \in Nat /\ numParked \in Int
        /\ holdingQueue \in Seq(Airplanes) /\ departQueue \in Seq(Airplanes)
        /\ stats \in StatsType /\ par \in Configs
        /\ fes \ {e} \in SUBSET Events /\ e.time \in Nat
        /\ IsFiniteSet(fes) /\ IsFiniteSet(fes \ {e})
        /\ Located(fes, holdingQueue, departQueue, created)
        /\ Tallied(fes, holdingQueue, departQueue, stats,
                    numParked, departedPlanes, created)
        /\ \A f \in fes \ {e} : f.seq < seq
    BY <1>1, DeliverCounts
  <1>4. PICK x \in InterArrivalTimes : fes' = R \cup {NextArrival(e.time, x)}
    BY DEF ArrivalQueued
  <1> DEFINE a == NextArrival(e.time, x)
             G == R \cup {a}
  <1>5. /\ a.seq = seq + 1 /\ a.self = TRUE /\ a.to = "airspace"
        /\ a.plane.id = created + 1
    BY DEF NextArrival, SelfMessage, NewAirplane
  <1>6. Stamped(e) \in Airplanes /\ Stamped(e).id = e.plane.id
    BY <1>3 DEF Stamped, Airplanes
  <1>7. p \in Airplanes /\ p.id = e.plane.id
    BY <1>3, <1>6 DEF Airplanes
  <1>8. fes' = G
    BY <1>4
  <1> HIDE DEF a, p
  <1>9. a \notin R /\ \A f \in G : f.seq < seq + 2
    BY <1>3, <1>5 DEF Events
  <1>10. Located(G, q, departQueue, created + 1)
    BY <1>3, <1>5, <1>7, LocatedArrivalWaits
  <1>11. /\ IsFiniteSet(G)
         /\ Cardinality(G) = Cardinality(R) + 1
         /\ Cardinality(ParkedIn(G)) = Cardinality(ParkedIn(R))
         /\ Cardinality(TakeoffsIn(G)) = Cardinality(TakeoffsIn(R))
    BY <1>3, <1>5, <1>9, PutCounts
  <1>12. /\ Cardinality(R) = Cardinality(fes) - 1
         /\ Cardinality(ParkedIn(R)) = Cardinality(ParkedIn(fes))
         /\ Cardinality(TakeoffsIn(R)) = Cardinality(TakeoffsIn(fes))
    BY <1>3, TakeCounts
  <1>13. Len(holdingQueue) \in Nat /\ Len(q) = Len(holdingQueue) + 1
    BY <1>3, <1>7, AppendFacts
  <1> HIDE DEF G, R, q
  <1>14. SumTypes(fes, holdingQueue, departQueue, stats)
    BY <1>3, SumTyped
  <1>15. /\ Cardinality(G) = Cardinality(fes)
         /\ Cardinality(ParkedIn(G)) = Cardinality(ParkedIn(fes))
         /\ Cardinality(TakeoffsIn(G)) = Cardinality(TakeoffsIn(fes))
    BY <1>11, <1>12, <1>14 DEF SumTypes
  <1>16. "HoldingQueueSize" \in Recorded /\ Len(holdingQueue) + 1 \in Int
    BY <1>13 DEF Recorded
  <1>16a. stats \in StatsType
    BY <1>3
  <1>17. /\ r["HoldingQueueSize"].count = stats["HoldingQueueSize"].count + 1
         /\ r["HoldingQueueSize"].last = Len(holdingQueue) + 1
         /\ r["RunwayUse"] = stats["RunwayUse"]
    BY <1>16, <1>16a, OneSample
  <1>18. \A s \in Recorded \ {"HoldingQueueSize"} : r[s] = stats[s]
    BY <1>16, <1>16a, OneSample
  <1> HIDE DEF r
  <1>19. /\ r["DepartQueueSize"].count = stats["DepartQueueSize"].count
         /\ r["DepartQueueSize"].last = stats["DepartQueueSize"].last
         /\ r["HoldingQueueWaitingTime"].count
              = stats["HoldingQueueWaitingTime"].count
         /\ r["DepartQueueWaitingTime"].count
              = stats["DepartQueueWaitingTime"].count
         /\ r["ParkedPlanes"].count = stats["ParkedPlanes"].count
         /\ r["ParkedPlanes"].last = stats["ParkedPlanes"].last
         /\ r["AirportResponseTime"].count = stats["AirportResponseTime"].count
         /\ r["RunwayUse"].count = stats["RunwayUse"].count
    BY <1>17, <1>18 DEF Recorded
  <1>20. /\ TalliedSums(fes, holdingQueue, departQueue, stats,
                        departedPlanes, created)
         /\ TalliedLast(fes, holdingQueue, departQueue, stats,
                        numParked, departedPlanes)
    BY <1>3, TalliedParts
  <1>21. Sums(Cardinality(fes), Cardinality(TakeoffsIn(fes)),
              Len(holdingQueue) + 1, Len(departQueue),
              departedPlanes, created + 1,
              stats["HoldingQueueSize"].count + 1,
              stats["HoldingQueueWaitingTime"].count,
              stats["DepartQueueSize"].count,
              stats["DepartQueueWaitingTime"].count,
              stats["ParkedPlanes"].count, stats["RunwayUse"].count)
    BY <1>3, <1>14, <1>20, SumsArrivalQueued DEF TalliedSums, SumTypes
  <1>22. TalliedSums(G, q, departQueue, r, departedPlanes, created + 1)
    BY <1>13, <1>15, <1>17, <1>19, <1>21 DEF TalliedSums
  <1>23. TalliedLast(G, q, departQueue, r, numParked, departedPlanes)
    BY <1>13, <1>15, <1>17, <1>19, <1>20 DEF TalliedLast
  <1>24. Tallied(G, q, departQueue, r, numParked, departedPlanes, created + 1)
    BY <1>22, <1>23, TalliedParts
  <1> QED
    BY <1>1, <1>3, <1>8, <1>9, <1>10, <1>11, <1>24 DEF Settled

\* An airplane has landed: its parking time starts, then completed() is called.
LEMMA LandedCounts ==
  ASSUME TypeOK, CountInv, NEW e \in fes, Landed(e)
  PROVE  Settled(fes', holdingQueue', departQueue', stats',
                 numParked', departedPlanes', created', seq')
  <1> DEFINE r == Emit(stats, "ParkedPlanes", numParked + 1)
             R == fes \ {e}
  <1>1. /\ Deliver(e, "parkingarea", FALSE)
        /\ created' = created /\ departedPlanes' = departedPlanes
        /\ numParked' = numParked + 1
    BY DEF Landed
  <1>3. /\ e.plane \in Airplanes /\ e.to = "parkingarea" /\ e.self = FALSE
        /\ seq \in Nat /\ seq' = seq + 2
        /\ created \in Nat /\ departedPlanes \in Nat /\ numParked \in Int
        /\ holdingQueue \in Seq(Airplanes) /\ departQueue \in Seq(Airplanes)
        /\ stats \in StatsType /\ par \in Configs
        /\ fes \ {e} \in SUBSET Events /\ e.time \in Nat
        /\ IsFiniteSet(fes) /\ IsFiniteSet(fes \ {e})
        /\ Located(fes, holdingQueue, departQueue, created)
        /\ Tallied(fes, holdingQueue, departQueue, stats,
                    numParked, departedPlanes, created)
        /\ \A f \in fes \ {e} : f.seq < seq
    BY <1>1, DeliverCounts
  <1>4. PICK x \in ParkingTimes :
          completed(e.time,
                    R \cup {SelfMessage("parkingarea", e.time + x, seq, e.plane)},
                    r)
    BY DEF Landed
  <1> DEFINE a == SelfMessage("parkingarea", e.time + x, seq, e.plane)
             G == R \cup {a}
  <1>5. /\ a.seq = seq /\ a.self = TRUE /\ a.to = "parkingarea"
        /\ a.plane = e.plane
    BY DEF SelfMessage
  <1>6. a \in Events
    <2>1. e.time + x \in Nat
      BY <1>3, DrawsAreNat
    <2> QED
      BY <1>3, <2>1, MessageTypes DEF Modules
  <1>7. completed(e.time, G, r)
    BY <1>4
  <1> HIDE DEF a
  <1>8. G \in SUBSET Events
    BY <1>3, <1>6
  <1>9. a \notin R /\ \A f \in G : f.seq < seq + 1
    BY <1>3, <1>5 DEF Events
  <1>10. Located(G, holdingQueue, departQueue, created)
    BY <1>3, <1>5, LocatedResend
  <1>11. /\ IsFiniteSet(G)
         /\ Cardinality(G) = Cardinality(R) + 1
         /\ Cardinality(ParkedIn(G)) = Cardinality(ParkedIn(R)) + 1
         /\ Cardinality(TakeoffsIn(G)) = Cardinality(TakeoffsIn(R))
    BY <1>3, <1>5, <1>9, PutCounts
  <1>12. /\ Cardinality(R) = Cardinality(fes) - 1
         /\ Cardinality(ParkedIn(R)) = Cardinality(ParkedIn(fes))
         /\ Cardinality(TakeoffsIn(R)) = Cardinality(TakeoffsIn(fes))
    BY <1>3, TakeCounts
  <1> HIDE DEF G, R
  <1>14. SumTypes(fes, holdingQueue, departQueue, stats)
    BY <1>3, SumTyped
  <1>15. /\ Cardinality(G) = Cardinality(fes)
         /\ Cardinality(ParkedIn(G)) = Cardinality(ParkedIn(fes)) + 1
         /\ Cardinality(TakeoffsIn(G)) = Cardinality(TakeoffsIn(fes))
    BY <1>11, <1>12, <1>14 DEF SumTypes
  <1>16. "ParkedPlanes" \in Recorded /\ numParked + 1 \in Int
    BY <1>3 DEF Recorded
  <1>16a. stats \in StatsType
    BY <1>3
  <1>16b. r \in StatsType
    BY <1>16, <1>16a, OneSample
  <1>17. /\ r["ParkedPlanes"].count = stats["ParkedPlanes"].count + 1
         /\ r["ParkedPlanes"].last = numParked + 1
         /\ r["RunwayUse"] = stats["RunwayUse"]
    BY <1>16, <1>16a, OneSample
  <1>18. \A s \in Recorded \ {"ParkedPlanes"} : r[s] = stats[s]
    BY <1>16, <1>16a, OneSample
  <1> HIDE DEF r
  <1>19. /\ r["HoldingQueueSize"].count = stats["HoldingQueueSize"].count
         /\ r["HoldingQueueSize"].last = stats["HoldingQueueSize"].last
         /\ r["DepartQueueSize"].count = stats["DepartQueueSize"].count
         /\ r["DepartQueueSize"].last = stats["DepartQueueSize"].last
         /\ r["HoldingQueueWaitingTime"].count
              = stats["HoldingQueueWaitingTime"].count
         /\ r["DepartQueueWaitingTime"].count
              = stats["DepartQueueWaitingTime"].count
         /\ r["AirportResponseTime"].count = stats["AirportResponseTime"].count
         /\ r["RunwayUse"].count = stats["RunwayUse"].count
    BY <1>17, <1>18 DEF Recorded
  <1>20. /\ TalliedSums(fes, holdingQueue, departQueue, stats,
                        departedPlanes, created)
         /\ TalliedLast(fes, holdingQueue, departQueue, stats,
                        numParked, departedPlanes)
    BY <1>3, TalliedParts
  <1>21. Sums(Cardinality(fes), Cardinality(TakeoffsIn(fes)),
              Len(holdingQueue), Len(departQueue), departedPlanes, created,
              stats["HoldingQueueSize"].count,
              stats["HoldingQueueWaitingTime"].count,
              stats["DepartQueueSize"].count,
              stats["DepartQueueWaitingTime"].count,
              stats["ParkedPlanes"].count + 1, stats["RunwayUse"].count)
    BY <1>3, <1>14, <1>20, SumsLanded DEF TalliedSums, SumTypes
  <1>22. TalliedSums(G, holdingQueue, departQueue, r, departedPlanes, created)
    BY <1>15, <1>17, <1>19, <1>21 DEF TalliedSums
  <1>23. TalliedLast(G, holdingQueue, departQueue, r,
                     numParked + 1, departedPlanes)
    BY <1>15, <1>17, <1>19, <1>20 DEF TalliedLast
  <1>24. Tallied(G, holdingQueue, departQueue, r,
                 numParked + 1, departedPlanes, created)
    BY <1>22, <1>23, TalliedParts
  <1>25. Settled(G, holdingQueue, departQueue, r,
                 numParked + 1, departedPlanes, created, seq + 1)
    BY <1>9, <1>10, <1>11, <1>24 DEF Settled
  <1>26. Settled(fes', holdingQueue', departQueue', stats',
                 numParked + 1, departedPlanes, created, seq + 2)
    BY <1>3, <1>7, <1>8, <1>16b, <1>25, CompletedSettled
  <1> QED
    BY <1>1, <1>3, <1>26

\* A parking time ends while the strip is free.
LEMMA ParkingExpiredGrantedCounts ==
  ASSUME TypeOK, NoIdleWaiting, CountInv, NEW e \in fes,
         ParkingExpiredGranted(e), UNCHANGED airspaceVars
  PROVE  Settled(fes', holdingQueue', departQueue', stats',
                 numParked', departedPlanes', created', seq')
  <1> DEFINE u == Emit(stats, "ParkedPlanes", numParked - 1)
             R == fes \ {e}
  <1>1. /\ Deliver(e, "parkingarea", TRUE)
        /\ ~landingStripOccupied
        /\ created' = created /\ departedPlanes' = departedPlanes
        /\ holdingQueue' = holdingQueue /\ departQueue' = departQueue
        /\ numParked' = numParked - 1
    BY DEF ParkingExpiredGranted, ParkingExpired, notify, airspaceVars
  <1>2. departQueue = << >> /\ Len(departQueue) = 0
    BY <1>1 DEF NoIdleWaiting
  <1>3. /\ e.plane \in Airplanes /\ e.to = "parkingarea" /\ e.self = TRUE
        /\ seq \in Nat /\ seq' = seq + 2
        /\ created \in Nat /\ departedPlanes \in Nat /\ numParked \in Int
        /\ holdingQueue \in Seq(Airplanes) /\ departQueue \in Seq(Airplanes)
        /\ stats \in StatsType /\ par \in Configs
        /\ fes \ {e} \in SUBSET Events /\ e.time \in Nat
        /\ IsFiniteSet(fes) /\ IsFiniteSet(fes \ {e})
        /\ Located(fes, holdingQueue, departQueue, created)
        /\ Tallied(fes, holdingQueue, departQueue, stats,
                    numParked, departedPlanes, created)
        /\ \A f \in fes \ {e} : f.seq < seq
    BY <1>1, DeliverCounts
  <1>t. stats \in StatsType
    BY <1>3
  <1>s. SumTypes(fes, holdingQueue, departQueue, stats)
    BY <1>3, SumTyped
  <1>p. /\ TalliedSums(fes, holdingQueue, departQueue, stats,
                       departedPlanes, created)
        /\ TalliedLast(fes, holdingQueue, departQueue, stats,
                       numParked, departedPlanes)
    BY <1>3, TalliedParts
  <1>4. PICK d \in TakeoffTimes :
          /\ fes' = R \cup {Message("airspace", e.time + d, seq, e.plane)}
          /\ stats' = Emit(Emit(Emit(u, "DepartQueueSize", 0),
                                "DepartQueueWaitingTime", 0), "RunwayUse", d)
    BY DEF ParkingExpiredGranted, StartTakeoff, Unparked
  <1>5. "ParkedPlanes" \in Recorded /\ numParked - 1 \in Int
    BY <1>3 DEF Recorded
  <1>6. u \in StatsType
    BY <1>5, <1>t, OneSample
  <1>7. /\ u["ParkedPlanes"].count = stats["ParkedPlanes"].count + 1
        /\ u["ParkedPlanes"].last = numParked - 1
        /\ u["RunwayUse"] = stats["RunwayUse"]
        /\ \A s \in Recorded \ {"ParkedPlanes"} : u[s] = stats[s]
    BY <1>5, <1>t, OneSample
  <1> HIDE DEF u
  <1> DEFINE g == Message("airspace", e.time + d, seq, e.plane)
             G == R \cup {g}
             r == Emit(Emit(Emit(u, "DepartQueueSize", 0),
                            "DepartQueueWaitingTime", 0), "RunwayUse", d)
  <1>8. /\ d \in Int /\ 0 \in Int
        /\ "DepartQueueSize" \in Recorded
        /\ "DepartQueueWaitingTime" \in Recorded
        /\ "DepartQueueSize" # "DepartQueueWaitingTime"
    BY <1>3, DrawsAreNat DEF Recorded
  <1>9. /\ g.seq = seq /\ g.self = FALSE /\ g.to = "airspace"
        /\ g.plane = e.plane
    BY DEF Message
  <1>10. fes' = G /\ stats' = r
    BY <1>4
  <1> HIDE DEF g
  <1>11. g \notin R /\ \A f \in G : f.seq < seq + 2
    BY <1>3, <1>9 DEF Events
  <1>12. Located(G, holdingQueue, departQueue, created)
    BY <1>3, <1>9, LocatedResend
  <1>13. /\ IsFiniteSet(G)
         /\ Cardinality(G) = Cardinality(R) + 1
         /\ Cardinality(ParkedIn(G)) = Cardinality(ParkedIn(R))
         /\ Cardinality(TakeoffsIn(G)) = Cardinality(TakeoffsIn(R)) + 1
    BY <1>3, <1>9, <1>11, PutCounts
  <1>14. /\ Cardinality(R) = Cardinality(fes) - 1
         /\ Cardinality(ParkedIn(R)) = Cardinality(ParkedIn(fes)) - 1
         /\ Cardinality(TakeoffsIn(R)) = Cardinality(TakeoffsIn(fes))
    BY <1>3, TakeCounts
  <1> HIDE DEF G, R
  <1>15. /\ Cardinality(G) = Cardinality(fes)
         /\ Cardinality(ParkedIn(G)) = Cardinality(ParkedIn(fes)) - 1
         /\ Cardinality(TakeoffsIn(G)) = Cardinality(TakeoffsIn(fes)) + 1
    BY <1>13, <1>14, <1>s DEF SumTypes
  <1>16. /\ r["DepartQueueSize"].count = u["DepartQueueSize"].count + 1
         /\ r["DepartQueueSize"].last = 0
    BY <1>6, <1>8, OperationSamples
  <1>17. r["DepartQueueWaitingTime"].count
           = u["DepartQueueWaitingTime"].count + 1
    BY <1>6, <1>8, OperationSamples
  <1>18. r["RunwayUse"].count = u["RunwayUse"].count + 1
    BY <1>6, <1>8, OperationSamples
  <1>19. \A s \in Recorded \ {"DepartQueueSize", "DepartQueueWaitingTime"} :
           r[s] = u[s]
    BY <1>6, <1>8, OperationSamples
  <1> HIDE DEF r
  <1>20. /\ r["HoldingQueueSize"].count = stats["HoldingQueueSize"].count
         /\ r["HoldingQueueSize"].last = stats["HoldingQueueSize"].last
         /\ r["HoldingQueueWaitingTime"].count
              = stats["HoldingQueueWaitingTime"].count
         /\ r["AirportResponseTime"].count = stats["AirportResponseTime"].count
         /\ r["ParkedPlanes"].count = stats["ParkedPlanes"].count + 1
         /\ r["ParkedPlanes"].last = numParked - 1
         /\ r["RunwayUse"].count = stats["RunwayUse"].count + 1
         /\ r["DepartQueueSize"].count = stats["DepartQueueSize"].count + 1
         /\ r["DepartQueueWaitingTime"].count
              = stats["DepartQueueWaitingTime"].count + 1
    BY <1>7, <1>16, <1>17, <1>18, <1>19 DEF Recorded
  <1>21. Sums(Cardinality(fes), Cardinality(TakeoffsIn(fes)) + 1,
              Len(holdingQueue), Len(departQueue), departedPlanes, created,
              stats["HoldingQueueSize"].count,
              stats["HoldingQueueWaitingTime"].count,
              stats["DepartQueueSize"].count + 1,
              stats["DepartQueueWaitingTime"].count + 1,
              stats["ParkedPlanes"].count + 1, stats["RunwayUse"].count + 1)
    BY <1>3, <1>s, <1>p, SumsParkingGranted DEF TalliedSums, SumTypes
  <1>22. TalliedSums(G, holdingQueue, departQueue, r, departedPlanes, created)
    BY <1>15, <1>20, <1>21 DEF TalliedSums
  <1>23. TalliedLast(G, holdingQueue, departQueue, r,
                     numParked - 1, departedPlanes)
    BY <1>2, <1>15, <1>16, <1>20, <1>p DEF TalliedLast
  <1>24. Tallied(G, holdingQueue, departQueue, r,
                 numParked - 1, departedPlanes, created)
    BY <1>22, <1>23, TalliedParts
  <1> QED
    BY <1>1, <1>3, <1>10, <1>11, <1>12, <1>13, <1>24 DEF Settled

\* A parking time ends while the strip is occupied.
LEMMA ParkingExpiredQueuedCounts ==
  ASSUME TypeOK, CountInv, NEW e \in fes, ParkingExpiredQueued(e),
         UNCHANGED airspaceVars
  PROVE  Settled(fes', holdingQueue', departQueue', stats',
                 numParked', departedPlanes', created', seq')
  <1> DEFINE u == Emit(stats, "ParkedPlanes", numParked - 1)
             p == [e.plane EXCEPT !.queueArrivalTime = e.time]
             q == Append(departQueue, p)
             r == Emit(u, "DepartQueueSize", Len(departQueue) + 1)
             R == fes \ {e}
  <1>1. /\ Deliver(e, "parkingarea", TRUE)
        /\ created' = created /\ departedPlanes' = departedPlanes
        /\ holdingQueue' = holdingQueue /\ departQueue' = q
        /\ numParked' = numParked - 1
        /\ fes' = R /\ stats' = r
    BY DEF ParkingExpiredQueued, ParkingExpired, airspaceVars, Unparked
  <1>3. /\ e.plane \in Airplanes /\ e.to = "parkingarea" /\ e.self = TRUE
        /\ seq \in Nat /\ seq' = seq + 2
        /\ created \in Nat /\ departedPlanes \in Nat /\ numParked \in Int
        /\ holdingQueue \in Seq(Airplanes) /\ departQueue \in Seq(Airplanes)
        /\ stats \in StatsType /\ par \in Configs
        /\ fes \ {e} \in SUBSET Events /\ e.time \in Nat
        /\ IsFiniteSet(fes) /\ IsFiniteSet(fes \ {e})
        /\ Located(fes, holdingQueue, departQueue, created)
        /\ Tallied(fes, holdingQueue, departQueue, stats,
                    numParked, departedPlanes, created)
        /\ \A f \in fes \ {e} : f.seq < seq
    BY <1>1, DeliverCounts
  <1>t. stats \in StatsType
    BY <1>3
  <1>s. SumTypes(fes, holdingQueue, departQueue, stats)
    BY <1>3, SumTyped
  <1>p. /\ TalliedSums(fes, holdingQueue, departQueue, stats,
                       departedPlanes, created)
        /\ TalliedLast(fes, holdingQueue, departQueue, stats,
                       numParked, departedPlanes)
    BY <1>3, TalliedParts
  <1>5. "ParkedPlanes" \in Recorded /\ numParked - 1 \in Int
    BY <1>3 DEF Recorded
  <1>6. u \in StatsType
    BY <1>5, <1>t, OneSample
  <1>7. /\ u["ParkedPlanes"].count = stats["ParkedPlanes"].count + 1
        /\ u["ParkedPlanes"].last = numParked - 1
        /\ u["RunwayUse"] = stats["RunwayUse"]
        /\ \A s \in Recorded \ {"ParkedPlanes"} : u[s] = stats[s]
    BY <1>5, <1>t, OneSample
  <1>8. p \in Airplanes /\ p.id = e.plane.id
    BY <1>3 DEF Airplanes
  <1>9. Len(departQueue) \in Nat /\ Len(q) = Len(departQueue) + 1
    BY <1>3, <1>8, AppendFacts
  <1>10. "DepartQueueSize" \in Recorded /\ Len(departQueue) + 1 \in Int
    BY <1>9 DEF Recorded
  <1> HIDE DEF u, p
  <1>11. /\ r["DepartQueueSize"].count = u["DepartQueueSize"].count + 1
         /\ r["DepartQueueSize"].last = Len(departQueue) + 1
         /\ r["RunwayUse"] = u["RunwayUse"]
         /\ \A s \in Recorded \ {"DepartQueueSize"} : r[s] = u[s]
    BY <1>6, <1>10, OneSample
  <1> HIDE DEF r
  <1>12. /\ r["HoldingQueueSize"].count = stats["HoldingQueueSize"].count
         /\ r["HoldingQueueSize"].last = stats["HoldingQueueSize"].last
         /\ r["HoldingQueueWaitingTime"].count
              = stats["HoldingQueueWaitingTime"].count
         /\ r["DepartQueueWaitingTime"].count
              = stats["DepartQueueWaitingTime"].count
         /\ r["AirportResponseTime"].count = stats["AirportResponseTime"].count
         /\ r["ParkedPlanes"].count = stats["ParkedPlanes"].count + 1
         /\ r["ParkedPlanes"].last = numParked - 1
         /\ r["RunwayUse"].count = stats["RunwayUse"].count
         /\ r["DepartQueueSize"].count = stats["DepartQueueSize"].count + 1
    BY <1>7, <1>11 DEF Recorded
  <1>13. Located(R, holdingQueue, q, created)
    BY <1>3, <1>8, LocatedQueue, LocatedSwap
  <1>14. /\ Cardinality(R) = Cardinality(fes) - 1
         /\ Cardinality(ParkedIn(R)) = Cardinality(ParkedIn(fes)) - 1
         /\ Cardinality(TakeoffsIn(R)) = Cardinality(TakeoffsIn(fes))
    BY <1>3, TakeCounts
  <1>15. IsFiniteSet(R) /\ \A f \in R : f.seq < seq + 2
    BY <1>3 DEF Events
  <1> HIDE DEF R, q
  <1>21. Sums(Cardinality(fes) - 1, Cardinality(TakeoffsIn(fes)),
              Len(holdingQueue), Len(departQueue) + 1, departedPlanes, created,
              stats["HoldingQueueSize"].count,
              stats["HoldingQueueWaitingTime"].count,
              stats["DepartQueueSize"].count + 1,
              stats["DepartQueueWaitingTime"].count,
              stats["ParkedPlanes"].count + 1, stats["RunwayUse"].count)
    BY <1>3, <1>s, <1>p, SumsParkingQueued DEF TalliedSums, SumTypes
  <1>22. TalliedSums(R, holdingQueue, q, r, departedPlanes, created)
    BY <1>9, <1>12, <1>14, <1>21 DEF TalliedSums
  <1>23. TalliedLast(R, holdingQueue, q, r, numParked - 1, departedPlanes)
    BY <1>9, <1>11, <1>12, <1>14, <1>p DEF TalliedLast
  <1>24. Tallied(R, holdingQueue, q, r, numParked - 1, departedPlanes, created)
    BY <1>22, <1>23, TalliedParts
  <1> QED
    BY <1>1, <1>3, <1>13, <1>15, <1>24 DEF Settled

\* An airplane has taken off: what holds before completed() is called, or
\* before the last departure ends the simulation.
LEMMA TakenOffCounts ==
  ASSUME TypeOK, CountInv, NEW e \in fes, Deliver(e, "airspace", FALSE)
  PROVE  /\ Responded(e) \in StatsType
         /\ Settled(fes \ {e}, holdingQueue, departQueue, Responded(e),
                    numParked, departedPlanes + 1, created, seq)
  <1> DEFINE v == e.time - e.plane.timestamp
             r == Emit(stats, "AirportResponseTime", v)
             R == fes \ {e}
  <1>1. Deliver(e, "airspace", FALSE)
    OBVIOUS
  <1>3. /\ e.plane \in Airplanes /\ e.to = "airspace" /\ e.self = FALSE
        /\ seq \in Nat /\ seq' = seq + 2
        /\ created \in Nat /\ departedPlanes \in Nat /\ numParked \in Int
        /\ holdingQueue \in Seq(Airplanes) /\ departQueue \in Seq(Airplanes)
        /\ stats \in StatsType /\ par \in Configs
        /\ fes \ {e} \in SUBSET Events /\ e.time \in Nat
        /\ IsFiniteSet(fes) /\ IsFiniteSet(fes \ {e})
        /\ Located(fes, holdingQueue, departQueue, created)
        /\ Tallied(fes, holdingQueue, departQueue, stats,
                    numParked, departedPlanes, created)
        /\ \A f \in fes \ {e} : f.seq < seq
    BY <1>1, DeliverCounts
  <1>t. stats \in StatsType
    BY <1>3
  <1>s. SumTypes(fes, holdingQueue, departQueue, stats)
    BY <1>3, SumTyped
  <1>p. /\ TalliedSums(fes, holdingQueue, departQueue, stats,
                       departedPlanes, created)
        /\ TalliedLast(fes, holdingQueue, departQueue, stats,
                       numParked, departedPlanes)
    BY <1>3, TalliedParts
  <1>4. "AirportResponseTime" \in Recorded /\ v \in Int
    BY <1>3 DEF Recorded, Airplanes
  <1> HIDE DEF v
  <1>5. r \in StatsType
    BY <1>4, <1>t, OneSample
  <1>6. /\ r["AirportResponseTime"].count
             = stats["AirportResponseTime"].count + 1
        /\ r["RunwayUse"] = stats["RunwayUse"]
        /\ \A s \in Recorded \ {"AirportResponseTime"} : r[s] = stats[s]
    BY <1>4, <1>t, OneSample
  <1>7. r = Responded(e)
    BY DEF Responded, v
  <1> HIDE DEF r
  <1>8. /\ r["HoldingQueueSize"].count = stats["HoldingQueueSize"].count
        /\ r["HoldingQueueSize"].last = stats["HoldingQueueSize"].last
        /\ r["DepartQueueSize"].count = stats["DepartQueueSize"].count
        /\ r["DepartQueueSize"].last = stats["DepartQueueSize"].last
        /\ r["HoldingQueueWaitingTime"].count
             = stats["HoldingQueueWaitingTime"].count
        /\ r["DepartQueueWaitingTime"].count
             = stats["DepartQueueWaitingTime"].count
        /\ r["ParkedPlanes"].count = stats["ParkedPlanes"].count
        /\ r["ParkedPlanes"].last = stats["ParkedPlanes"].last
        /\ r["RunwayUse"].count = stats["RunwayUse"].count
    BY <1>6 DEF Recorded
  <1>9. Located(R, holdingQueue, departQueue, created)
    BY <1>3, LocatedRemove
  <1>10. /\ Cardinality(R) = Cardinality(fes) - 1
         /\ Cardinality(ParkedIn(R)) = Cardinality(ParkedIn(fes))
         /\ Cardinality(TakeoffsIn(R)) = Cardinality(TakeoffsIn(fes)) - 1
    BY <1>3, TakeCounts
  <1>11. IsFiniteSet(R) /\ \A f \in R : f.seq < seq
    BY <1>3
  <1> HIDE DEF R
  <1>12. Sums(Cardinality(fes) - 1, Cardinality(TakeoffsIn(fes)) - 1,
              Len(holdingQueue), Len(departQueue), departedPlanes + 1, created,
              stats["HoldingQueueSize"].count,
              stats["HoldingQueueWaitingTime"].count,
              stats["DepartQueueSize"].count,
              stats["DepartQueueWaitingTime"].count,
              stats["ParkedPlanes"].count, stats["RunwayUse"].count)
    BY <1>3, <1>s, <1>p, SumsDeparted DEF TalliedSums, SumTypes
  <1>13. TalliedSums(R, holdingQueue, departQueue, r,
                     departedPlanes + 1, created)
    BY <1>8, <1>10, <1>12 DEF TalliedSums
  <1>14. TalliedLast(R, holdingQueue, departQueue, r,
                     numParked, departedPlanes + 1)
    BY <1>6, <1>8, <1>10, <1>p DEF TalliedLast
  <1>15. Tallied(R, holdingQueue, departQueue, r,
                 numParked, departedPlanes + 1, created)
    BY <1>13, <1>14, TalliedParts
  <1> QED
    BY <1>5, <1>7, <1>9, <1>11, <1>15 DEF Settled, R

\* An insertion number that is fresh stays so later.
LEMMA SettledLater ==
  ASSUME NEW F \in SUBSET Events, NEW H, NEW D, NEW st, NEW np, NEW dep, NEW n,
         NEW s \in Nat, Settled(F, H, D, st, np, dep, n, s)
  PROVE  /\ Settled(F, H, D, st, np, dep, n, s + 1)
         /\ Settled(F, H, D, st, np, dep, n, s + 2)
  <1>1. \A e \in F : e.seq < s + 1 /\ e.seq < s + 2
    BY DEF Settled, Events
  <1> QED
    BY <1>1 DEF Settled

\* The total simulation time is not among the samples that are tallied.
LEMMA TalliedAtEnd ==
  ASSUME NEW F, NEW H, NEW D, NEW st \in StatsType, NEW np, NEW dep, NEW n,
         Tallied(F, H, D, st, np, dep, n), NEW t \in Int
  PROVE  Tallied(F, H, D, Emit(st, "TotalSimtime", t), np, dep, n)
  <1> DEFINE r == Emit(st, "TotalSimtime", t)
  <1>1. \A s \in Signals \ {"TotalSimtime"} : r[s] = st[s]
    BY SignalNames, EmitFacts
  <1> HIDE DEF r
  <1>2. /\ r["HoldingQueueSize"] = st["HoldingQueueSize"]
        /\ r["DepartQueueSize"] = st["DepartQueueSize"]
        /\ r["HoldingQueueWaitingTime"] = st["HoldingQueueWaitingTime"]
        /\ r["DepartQueueWaitingTime"] = st["DepartQueueWaitingTime"]
        /\ r["ParkedPlanes"] = st["ParkedPlanes"]
        /\ r["AirportResponseTime"] = st["AirportResponseTime"]
        /\ r["RunwayUse"] = st["RunwayUse"]
    BY <1>1, SignalNames
  <1>3. Tallied(F, H, D, r, np, dep, n)
    BY <1>2 DEF Tallied
  <1> QED
    BY <1>3 DEF r

\* An airplane has departed and completed() is called.
LEMMA DepartedCounts ==
  ASSUME TypeOK, CountInv, NEW e \in fes, Departed(e)
  PROVE  Settled(fes', holdingQueue', departQueue', stats',
                 numParked', departedPlanes', created', seq')
  <1>1. /\ Deliver(e, "airspace", FALSE)
        /\ departedPlanes' = departedPlanes + 1
        /\ created' = created /\ numParked' = numParked
        /\ completed(e.time, fes \ {e}, Responded(e))
    BY DEF Departed, TakenOff
  <1>2. /\ Responded(e) \in StatsType
        /\ Settled(fes \ {e}, holdingQueue, departQueue, Responded(e),
                   numParked, departedPlanes + 1, created, seq)
    BY <1>1, TakenOffCounts
  <1>3. /\ e.time \in Nat /\ seq \in Nat /\ seq' = seq + 2
        /\ fes \ {e} \in SUBSET Events
        /\ departedPlanes \in Nat /\ created \in Nat
    BY <1>1, DeliverCounts
  <1>3a. departedPlanes + 1 \in Nat
    BY <1>3
  <1>4. Settled(fes \ {e}, holdingQueue, departQueue, Responded(e),
                numParked, departedPlanes + 1, created, seq + 1)
    BY <1>2, <1>3, SettledLater
  <1>5. Settled(fes', holdingQueue', departQueue', stats',
                numParked, departedPlanes + 1, created, seq + 2)
    BY <1>1, <1>2, <1>3, <1>3a, <1>4, CompletedSettled
  <1> QED
    BY <1>1, <1>3, <1>5

\* The departure that ends the simulation.
LEMMA LastDepartedCounts ==
  ASSUME TypeOK, CountInv, NEW e \in fes, LastDeparted(e)
  PROVE  Settled(fes', holdingQueue', departQueue', stats',
                 numParked', departedPlanes', created', seq')
  <1>1. /\ Deliver(e, "airspace", FALSE)
        /\ departedPlanes' = departedPlanes + 1
        /\ created' = created /\ numParked' = numParked
        /\ fes' = fes \ {e}
        /\ stats' = Emit(Responded(e), "TotalSimtime", e.time)
        /\ holdingQueue' = holdingQueue /\ departQueue' = departQueue
    BY DEF LastDeparted, TakenOff
  <1>2. /\ Responded(e) \in StatsType
        /\ Settled(fes \ {e}, holdingQueue, departQueue, Responded(e),
                   numParked, departedPlanes + 1, created, seq)
    BY <1>1, TakenOffCounts
  <1>3. /\ e.time \in Nat /\ seq \in Nat /\ seq' = seq + 2
        /\ fes \ {e} \in SUBSET Events
    BY <1>1, DeliverCounts
  <1>3a. e.time \in Int
    BY <1>3
  <1>4. Settled(fes \ {e}, holdingQueue, departQueue, Responded(e),
                numParked, departedPlanes + 1, created, seq + 2)
    BY <1>2, <1>3, SettledLater
  <1>5. Tallied(fes \ {e}, holdingQueue, departQueue, Responded(e),
                numParked, departedPlanes + 1, created)
    BY <1>2 DEF Settled
  <1>6. Tallied(fes \ {e}, holdingQueue, departQueue,
                Emit(Responded(e), "TotalSimtime", e.time),
                numParked, departedPlanes + 1, created)
    BY <1>2, <1>3a, <1>5, TalliedAtEnd
  <1> QED
    BY <1>1, <1>3, <1>4, <1>6 DEF Settled

(***************************************************************************)
(* The invariant.                                                          *)
(***************************************************************************)
LEMMA CountInit == Init => CountInv
  <1> SUFFICES ASSUME Init PROVE CountInv
    OBVIOUS
  <1>1. PICK a \in InterArrivalTimes :
          fes = {SelfMessage("airspace", a, 0, NewAirplane(1))}
    BY DEF Init, InitAirspace
  <1> DEFINE m == SelfMessage("airspace", a, 0, NewAirplane(1))
  <1>2. /\ m.seq = 0 /\ m.self = TRUE /\ m.to = "airspace" /\ m.plane.id = 1
    BY DEF SelfMessage, NewAirplane
  <1>3. fes = {m}
    BY <1>1
  <1> HIDE DEF m
  <1>4. /\ holdingQueue = << >> /\ departQueue = << >>
        /\ Len(holdingQueue) = 0 /\ Len(departQueue) = 0
        /\ seq = 1 /\ created = 1 /\ departedPlanes = 0 /\ numParked = 0
        /\ running = TRUE
    BY DEF Init, InitAirspace, InitParkingArea
  <1>5. IsFiniteSet(fes) /\ Cardinality(fes) = 1
    BY <1>3, FS_Singleton
  <1>6. \A e \in fes : e.seq < seq
    BY <1>2, <1>3, <1>4
  <1>7. PlacedOnce(fes, holdingQueue, departQueue)
    BY <1>3, <1>4 DEF PlacedOnce
  <1>8. Numbered(fes, holdingQueue, departQueue, created)
    BY <1>2, <1>3, <1>4 DEF Numbered
  <1>9. ParkedIn(fes) = {} /\ TakeoffsIn(fes) = {}
    BY <1>2, <1>3 DEF ParkedIn, TakeoffsIn
  <1>10. Cardinality(ParkedIn(fes)) = 0 /\ Cardinality(TakeoffsIn(fes)) = 0
    BY <1>9, FS_EmptySet
  <1>11. \A s \in Signals : stats[s].count = 0 /\ stats[s].last = 0
    BY DEF Init, InitStats
  <1>12. TalliedSums(fes, holdingQueue, departQueue, stats,
                     departedPlanes, created)
    BY <1>4, <1>5, <1>10, <1>11, SignalNames DEF TalliedSums, Sums
  <1>13. TalliedLast(fes, holdingQueue, departQueue, stats,
                     numParked, departedPlanes)
    BY <1>4, <1>10, <1>11, SignalNames DEF TalliedLast
  <1>14. Tallied(fes, holdingQueue, departQueue, stats,
                 numParked, departedPlanes, created)
    BY <1>12, <1>13, TalliedParts
  <1> QED
    BY <1>4, <1>5, <1>6, <1>7, <1>8, <1>14 DEF CountInv

\* Whoever ends the simulation has counted enough departures.
LEMMA EndedNext ==
  ASSUME TypeOK, CountInv, Next
  PROVE  ~running' => departedPlanes' >= par'.totalSamples
  <1>1. PICK e \in fes :
          \/ ArrivalGranted(e) /\ UNCHANGED parkingVars
          \/ ArrivalQueued(e) /\ UNCHANGED parkingVars
          \/ ParkingExpiredGranted(e) /\ UNCHANGED airspaceVars
          \/ ParkingExpiredQueued(e) /\ UNCHANGED airspaceVars
          \/ Landed(e) \/ Departed(e) \/ LastDeparted(e)
    BY DEF Next
  <1>2. CASE LastDeparted(e)
    BY <1>2 DEF LastDeparted, TakenOff, Deliver
  <1>3. CASE ~LastDeparted(e)
    <2>1. running /\ running' = running
      BY <1>1, <1>3 DEF ArrivalGranted, ArrivalQueued, Arrival,
         ParkingExpiredGranted, ParkingExpiredQueued, ParkingExpired,
         Landed, Departed, TakenOff, Deliver
    <2> QED
      BY <2>1
  <1> QED
    BY <1>2, <1>3

\* Every step keeps the counters.
LEMMA CountNext == RunwayInv /\ CountInv /\ [Next]_vars => CountInv'
  <1> SUFFICES ASSUME RunwayInv, CountInv, [Next]_vars PROVE CountInv'
    OBVIOUS
  <1>0. TypeOK /\ NoIdleWaiting
    BY DEF RunwayInv
  <1>1. CASE UNCHANGED vars
    BY <1>1 DEF vars, CountInv
  <1>2. CASE Next
    <2>1. PICK e \in fes :
            \/ ArrivalGranted(e) /\ UNCHANGED parkingVars
            \/ ArrivalQueued(e) /\ UNCHANGED parkingVars
            \/ ParkingExpiredGranted(e) /\ UNCHANGED airspaceVars
            \/ ParkingExpiredQueued(e) /\ UNCHANGED airspaceVars
            \/ Landed(e) \/ Departed(e) \/ LastDeparted(e)
      BY <1>2 DEF Next
    <2>2. Settled(fes', holdingQueue', departQueue', stats',
                  numParked', departedPlanes', created', seq')
      BY <1>0, <2>1, ArrivalGrantedCounts, ArrivalQueuedCounts,
         ParkingExpiredGrantedCounts, ParkingExpiredQueuedCounts,
         LandedCounts, DepartedCounts, LastDepartedCounts
    <2>3. ~running' => departedPlanes' >= par'.totalSamples
      BY <1>0, <1>2, EndedNext
    <2> QED
      BY <2>2, <2>3 DEF CountInv, Settled, Located
  <1> QED
    BY <1>1, <1>2

\* The places, the counters and the samples agree in every state.
THEOREM CountInvariant == Spec => []CountInv
  BY CountInit, CountNext, RunwayInvariant, PTL DEF Spec

(***************************************************************************)
(* What the invariant says of the counters and the samples.                *)
(***************************************************************************)

\* numParked and the ParkedPlanes samples are the number of parked airplanes.
THEOREM ParkedCounted == Spec => []ParkedCountExact
  <1>1. CountInv => ParkedCountExact
    BY DEF CountInv, Tallied, ParkedCountExact, ParkedEvents, ParkedIn
  <1> QED
    BY <1>1, CountInvariant, PTL

\* The last queue-size samples are the queues' lengths.
THEOREM QueueSizesExact == Spec => []QueueSizesSampled
  <1>1. CountInv => QueueSizesSampled
    BY DEF CountInv, Tallied, QueueSizesSampled
  <1> QED
    BY <1>1, CountInvariant, PTL

\* Every airplane leaves one waiting time per queue and one response time.
THEOREM SamplesComplete == Spec => []OneSamplePerPlane
  <1>1. CountInv => OneSamplePerPlane
    BY DEF CountInv, Tallied, OneSamplePerPlane, TakeoffEvents, TakeoffsIn
  <1> QED
    BY <1>1, CountInvariant, PTL

\* The sums leave at least dep samples of each signal, if an event is pending.
LEMMA SumsSuffice ==
  ASSUME NEW f \in Nat, NEW tk \in Nat, NEW h \in Nat, NEW d \in Nat,
         NEW dep \in Nat, NEW n \in Nat, NEW hs \in Nat, NEW hw \in Nat,
         NEW ds \in Nat, NEW dw \in Nat, NEW pp \in Nat, NEW ru \in Nat,
         Sums(f, tk, h, d, dep, n, hs, hw, ds, dw, pp, ru), f # 0
  PROVE  hs >= dep /\ hw >= dep /\ ds >= dep /\ dw >= dep /\ pp >= dep
  BY DEF Sums

\* Transitivity, over plain numbers.
LEMMA AtLeast ==
  ASSUME NEW a \in Nat, NEW b \in Nat, NEW c \in Nat, a >= b, b >= c
  PROVE  a >= c
  OBVIOUS

\* The simulation does not end before every statistic has its samples.
THEOREM SamplesSuffice == Spec => []EnoughSamples
  <1>1. ASSUME RunwayInv, CountInv PROVE EnoughSamples
    <2> SUFFICES ASSUME ~running,
                        NEW s \in Signals \ {"RunwayUse", "TotalSimtime"}
                 PROVE  stats[s].count >= par.totalSamples
      BY DEF EnoughSamples
    <2>1. TypeOK /\ IsFiniteSet(fes) /\ par \in Configs
      BY <1>1 DEF RunwayInv, CountInv, TypeOK
    <2>2. /\ stats \in StatsType /\ departedPlanes \in Nat /\ created \in Nat
          /\ holdingQueue \in Seq(Airplanes) /\ departQueue \in Seq(Airplanes)
          /\ par.totalSamples \in Nat
      BY <2>1, DrawsAreNat DEF TypeOK
    <2>3. SumTypes(fes, holdingQueue, departQueue, stats)
      BY <2>1, <2>2, SumTyped
    <2>4. /\ TalliedSums(fes, holdingQueue, departQueue, stats,
                         departedPlanes, created)
          /\ TalliedLast(fes, holdingQueue, departQueue, stats,
                         numParked, departedPlanes)
      BY <1>1, TalliedParts DEF CountInv
    <2>5. Cardinality(fes) # 0
      <3>1. fes # {}
        BY <1>1 DEF CountInv, Numbered
      <3> QED
        BY <2>1, <3>1, FS_EmptySet
    <2>6. departedPlanes >= par.totalSamples
      BY <1>1 DEF CountInv
    <2>7. /\ stats["HoldingQueueSize"].count >= par.totalSamples
          /\ stats["HoldingQueueWaitingTime"].count >= par.totalSamples
          /\ stats["DepartQueueSize"].count >= par.totalSamples
          /\ stats["DepartQueueWaitingTime"].count >= par.totalSamples
          /\ stats["ParkedPlanes"].count >= par.totalSamples
      <3>1. Sums(Cardinality(fes), Cardinality(TakeoffsIn(fes)),
                 Len(holdingQueue), Len(departQueue), departedPlanes, created,
                 stats["HoldingQueueSize"].count,
                 stats["HoldingQueueWaitingTime"].count,
                 stats["DepartQueueSize"].count,
                 stats["DepartQueueWaitingTime"].count,
                 stats["ParkedPlanes"].count, stats["RunwayUse"].count)
        BY <2>4 DEF TalliedSums
      <3>2. /\ stats["HoldingQueueSize"].count >= departedPlanes
            /\ stats["HoldingQueueWaitingTime"].count >= departedPlanes
            /\ stats["DepartQueueSize"].count >= departedPlanes
            /\ stats["DepartQueueWaitingTime"].count >= departedPlanes
            /\ stats["ParkedPlanes"].count >= departedPlanes
        BY <2>2, <2>3, <2>5, <3>1, SumsSuffice DEF SumTypes
      <3> QED
        BY <2>2, <2>3, <2>6, <3>2, AtLeast DEF SumTypes
    <2>8. stats["AirportResponseTime"].count >= par.totalSamples
      BY <2>4, <2>6 DEF TalliedLast
    <2> QED
      BY <2>7, <2>8 DEF Signals, AirspaceSignals, ParkingAreaSignals
  <1> QED
    BY <1>1, CountInvariant, RunwayInvariant, PTL

(***************************************************************************)
(* Conservation: as many airplanes as places that hold one.                *)
(***************************************************************************)
EventIds(F) == {e.plane.id : e \in F}
QueueIds(q) == {p.id : p \in Queued(q)}

\* Different events carry different airplanes.
LEMMA EventIdCount ==
  ASSUME NEW F, IsFiniteSet(F),
         \A e, f \in F : e.plane.id = f.plane.id => e = f
  PROVE  IsFiniteSet(EventIds(F)) /\ Cardinality(EventIds(F)) = Cardinality(F)
  <1> DEFINE b == [e \in F |-> e.plane.id]
  <1>1. b \in Bijection(F, EventIds(F))
    BY DEF Bijection, Injection, Surjection, IsInjective, EventIds
  <1>2. ExistsBijection(F, EventIds(F))
    BY <1>1 DEF ExistsBijection
  <1> QED
    BY <1>2, FS_Bijection

\* Different positions of a queue hold different airplanes.
LEMMA QueueIdCount ==
  ASSUME NEW q \in Seq(Airplanes),
         \A i, j \in 1..Len(q) : q[i].id = q[j].id => i = j
  PROVE  IsFiniteSet(QueueIds(q)) /\ Cardinality(QueueIds(q)) = Len(q)
  <1> DEFINE I == 1..Len(q)
             b == [i \in I |-> q[i].id]
  <1>1. Len(q) \in Nat
    OBVIOUS
  <1>2. IsFiniteSet(I) /\ Cardinality(I) = Len(q)
    <2>1. 1 \in Int /\ Len(q) \in Int
      BY <1>1
    <2>2. /\ IsFiniteSet(I)
          /\ Cardinality(I) = IF 1 > Len(q) THEN 0 ELSE Len(q) - 1 + 1
      BY <2>1, FS_Interval
    <2> QED
      BY <1>1, <2>2
  <1>3. \A x : x \in QueueIds(q) <=> \E i \in I : x = q[i].id
    BY DEF QueueIds, Queued
  <1> HIDE DEF I
  <1>4. \A i, j \in I : q[i].id = q[j].id => i = j
    BY DEF I
  <1>5. b \in Bijection(I, QueueIds(q))
    BY <1>3, <1>4 DEF Bijection, Injection, Surjection, IsInjective
  <1>6. ExistsBijection(I, QueueIds(q))
    BY <1>5 DEF ExistsBijection
  <1> QED
    BY <1>2, <1>6, FS_Bijection

\* Two sets with no element in common.
LEMMA DisjointCount ==
  ASSUME NEW S, NEW T, IsFiniteSet(S), IsFiniteSet(T), S \cap T = {}
  PROVE  /\ IsFiniteSet(S \cup T)
         /\ Cardinality(S \cup T) = Cardinality(S) + Cardinality(T)
  <1>1. Cardinality(S) \in Nat /\ Cardinality(T) \in Nat
    BY FS_CardinalityType
  <1>2. Cardinality(S \cap T) = 0
    BY FS_EmptySet
  <1>3. /\ IsFiniteSet(S \cup T)
        /\ Cardinality(S \cup T) =
             Cardinality(S) + Cardinality(T) - Cardinality(S \cap T)
    BY FS_Union
  <1> QED
    BY <1>1, <1>2, <1>3

\* No airplane is lost, duplicated or stuck, and arrivals go on.
THEOREM AirplanesConserved == Spec => []PlanesConserved
  <1>1. ASSUME RunwayInv, CountInv PROVE PlanesConserved
    <2> DEFINE E == EventIds(fes)
               H == QueueIds(holdingQueue)
               D == QueueIds(departQueue)
    <2>1. /\ holdingQueue \in Seq(Airplanes) /\ departQueue \in Seq(Airplanes)
          /\ IsFiniteSet(fes) /\ PlacedOnce(fes, holdingQueue, departQueue)
          /\ Numbered(fes, holdingQueue, departQueue, created)
          /\ departedPlanes \in Nat
      BY <1>1 DEF RunwayInv, TypeOK, CountInv
    <2>2. IsFiniteSet(E) /\ Cardinality(E) = Cardinality(fes)
      BY <2>1, EventIdCount DEF PlacedOnce
    <2>3. IsFiniteSet(H) /\ Cardinality(H) = Len(holdingQueue)
      BY <2>1, QueueIdCount DEF PlacedOnce
    <2>4. IsFiniteSet(D) /\ Cardinality(D) = Len(departQueue)
      BY <2>1, QueueIdCount DEF PlacedOnce
    <2>5. E \cap H = {} /\ (E \cup H) \cap D = {}
      BY <2>1 DEF PlacedOnce, EventIds, QueueIds, Queued
    <2>6. PlaneIds = (E \cup H) \cup D
      BY DEF PlaneIds, EventIds, QueueIds
    <2> HIDE DEF E, H, D
    <2>7. /\ IsFiniteSet(E \cup H)
          /\ Cardinality(E \cup H) = Cardinality(E) + Cardinality(H)
      BY <2>2, <2>3, <2>5, DisjointCount
    <2>8. Cardinality(PlaneIds)
            = Cardinality(fes) + Len(holdingQueue) + Len(departQueue)
      <3>1. Cardinality((E \cup H) \cup D)
              = Cardinality(E \cup H) + Cardinality(D)
        BY <2>4, <2>5, <2>7, DisjointCount
      <3> QED
        BY <2>2, <2>3, <2>4, <2>6, <2>7, <3>1
    <2>9. Cardinality(fes) + Len(holdingQueue) + Len(departQueue)
            + departedPlanes = created
      BY <1>1 DEF CountInv, Tallied
    <2>10. {e.plane.id : e \in ArrivalEvents} = {created}
      BY <2>1 DEF Numbered, ArrivalEvents
    <2> QED
      BY <2>8, <2>9, <2>10 DEF PlanesConserved
  <1> QED
    BY <1>1, CountInvariant, RunwayInvariant, PTL
=============================================================================
