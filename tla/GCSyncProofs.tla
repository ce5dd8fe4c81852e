------------------------- MODULE GCSyncProofs -------------------------
(* For any finite set of threads and any size of the pool: the types of  *)
(* the handshake's variables, the stopped world while one thread marks,  *)
(* and the steps of the abstract stop-the-world collection.              *)
EXTENDS GCSync, FiniteSetTheorems, TLAPS

\* Where a step from one location to another leaves the four sets counted.
LEMMA Moves ==
    ASSUME TypeOK, NEW t \in Threads, NEW w \in Locations, Goto(t, w)
    PROVE  /\ pc' \in [Threads -> Locations] /\ pc'[t] = w
           /\ \A u \in Threads \ {t} : pc'[u] = pc[u]
           /\ Registered' = IF w \in {"out", "regWait"}
                              THEN Registered \ {t} ELSE Registered \cup {t}
           /\ Inside' = IF w \in {"begin", "mark"}
                          THEN Inside \cup {t} ELSE Inside \ {t}
           /\ Owing' = IF w \in {"end", "bigSweep", "sweep"}
                         THEN Owing \cup {t} ELSE Owing \ {t}
           /\ Closing' = IF w \in {"endGc", "release"}
                           THEN Closing \cup {t} ELSE Closing \ {t}
<1>1. /\ pc' \in [Threads -> Locations] /\ pc'[t] = w
      /\ \A u \in Threads \ {t} : pc'[u] = pc[u]
  BY DEF TypeOK, Goto
<1>2. Registered' = IF w \in {"out", "regWait"}
                      THEN Registered \ {t} ELSE Registered \cup {t}
  BY <1>1 DEF Registered
<1>3. Inside' = IF w \in {"begin", "mark"}
                  THEN Inside \cup {t} ELSE Inside \ {t}
  BY <1>1 DEF Inside
<1>4. Owing' = IF w \in {"end", "bigSweep", "sweep"}
                 THEN Owing \cup {t} ELSE Owing \ {t}
  BY <1>1 DEF Owing
<1>5. Closing' = IF w \in {"endGc", "release"}
                   THEN Closing \cup {t} ELSE Closing \ {t}
  BY <1>1 DEF Closing
<1> QED  BY <1>1, <1>2, <1>3, <1>4, <1>5

\* The sets the counters count are finite, and how they are related.
LEMMA FiniteCounts ==
    /\ IsFiniteSet(Registered) /\ Cardinality(Registered) \in Nat
    /\ IsFiniteSet(Inside) /\ Cardinality(Inside) \in Nat
    /\ IsFiniteSet(Owing) /\ Cardinality(Owing) \in Nat
    /\ Inside \subseteq Registered /\ Owing \subseteq Registered
    /\ Cardinality(Inside) <= Cardinality(Registered)
    /\ Cardinality(Inside) = Cardinality(Registered) => Inside = Registered
<1>1. Registered \in SUBSET Threads /\ Inside \in SUBSET Threads /\ Owing \in SUBSET Threads
  BY DEF Registered, Inside, Owing
<1>2. IsFiniteSet(Registered) /\ IsFiniteSet(Inside) /\ IsFiniteSet(Owing)
  BY <1>1, FS_Subset, ThreadsAssumption
<1>3. Inside \subseteq Registered /\ Owing \subseteq Registered
  BY DEF Registered, Inside, Owing
<1> QED  BY <1>2, <1>3, FS_Subset, FS_CardinalityType

\* A step between locations the handshake does not look at, with every
\* shared variable left alone, preserves the invariant.
LEMMA QuietStep ==
    ASSUME HandshakeInv, NEW t \in Threads, NEW w, Goto(t, w),
           pc[t] \in {"mutator", "stuckWait", "stuck", "nanny", "collect"},
           \/ w \in {"mutator", "stuckWait", "stuck", "nanny", "collect"}
           \/ w = "arrive" /\ ~sweepLock,
           stuck' \in [Threads -> NannyStates],
           UNCHANGED <<ticket, asleep, flags>>
    PROVE  HandshakeInv'
<1> USE DEF HandshakeInv
<1>1. w \in Locations
  BY DEF Locations
<1>2. /\ Registered' = Registered /\ Inside' = Inside
      /\ Owing' = Owing /\ Closing' = Closing
      /\ pc' \in [Threads -> Locations] /\ pc'[t] = w
      /\ \A u \in Threads \ {t} : pc'[u] = pc[u]
  <2>1. t \in Registered /\ t \notin Inside /\ t \notin Owing /\ t \notin Closing
    BY DEF Registered, Inside, Owing, Closing
  <2>2. w \notin {"out", "regWait", "begin", "mark", "end", "bigSweep", "sweep",
                  "endGc", "release"}
    OBVIOUS
  <2>3. Registered' = Registered \cup {t} /\ Inside' = Inside \ {t}
        /\ Owing' = Owing \ {t} /\ Closing' = Closing \ {t}
        /\ pc' \in [Threads -> Locations] /\ pc'[t] = w
        /\ \A u \in Threads \ {t} : pc'[u] = pc[u]
    BY <1>1, <2>2, Moves
  <2> QED  BY <2>1, <2>3
<1>3. TypeOK'
  BY <1>2 DEF TypeOK, flags
<1>4. CountersExact'
  BY <1>2 DEF CountersExact, flags
<1>5. ~gcMarking
  BY DEF MarkingHolds, Registered
<1>6. MarkingHolds'
  BY <1>2, <1>5 DEF MarkingHolds, flags
<1>7. SweepHolds'
  BY <1>2, <1>5 DEF SweepHolds, flags
<1> QED  BY <1>3, <1>4, <1>6, <1>7

\* The steps that do move a counter or a flag, one lemma for each.
LEMMA RegisterStep ==
    ASSUME HandshakeInv, NEW t \in Threads, Register(t)
    PROVE  HandshakeInv'
<1> USE DEF HandshakeInv
<1>1. t \notin Registered /\ t \notin Inside /\ t \notin Owing /\ t \notin Closing
  BY DEF Register, Registered, Inside, Owing, Closing
<1>2. CASE gcRunning
  <2>1. Goto(t, "regWait") /\ "regWait" \in Locations
    BY <1>2 DEF Register, Locations
  <2>2. /\ Registered' = Registered /\ Inside' = Inside
        /\ Owing' = Owing /\ Closing' = Closing
        /\ pc' \in [Threads -> Locations] /\ pc'[t] = "regWait"
        /\ \A u \in Threads \ {t} : pc'[u] = pc[u]
    BY <1>1, <2>1, Moves
  <2>3. TypeOK'
    BY <1>2, <2>2 DEF TypeOK, Register
  <2>4. CountersExact'
    BY <1>2, <2>2 DEF CountersExact, Register
  <2>5. MarkingHolds'
    <3>1. /\ gcMarking' = gcMarking /\ waiting' = waiting /\ ticket' = ticket
          /\ count' = count /\ sweepNum' = sweepNum
      BY <1>2 DEF Register
    <3>2. Registered \subseteq Threads
      BY DEF Registered
    <3> QED  BY <1>1, <2>2, <3>1, <3>2 DEF MarkingHolds
  <2>6. SweepHolds'
    BY <1>2, <2>2 DEF SweepHolds, Register
  <2> QED  BY <2>3, <2>4, <2>5, <2>6
<1>3. CASE ~gcRunning
  <2>1. Goto(t, "mutator") /\ "mutator" \in Locations
    BY <1>3 DEF Register, Locations
  <2>2. /\ Registered' = Registered \cup {t} /\ Inside' = Inside
        /\ Owing' = Owing /\ Closing' = Closing
        /\ pc' \in [Threads -> Locations] /\ pc'[t] = "mutator"
        /\ \A u \in Threads \ {t} : pc'[u] = pc[u]
    <3>1. /\ Inside' = Inside \ {t} /\ Owing' = Owing \ {t} /\ Closing' = Closing \ {t}
          /\ Registered' = Registered \cup {t}
          /\ pc' \in [Threads -> Locations] /\ pc'[t] = "mutator"
          /\ \A u \in Threads \ {t} : pc'[u] = pc[u]
      BY <2>1, Moves
    <3> QED  BY <1>1, <3>1
  <2>3. TypeOK'
    BY <1>3, <2>2 DEF TypeOK, Register
  <2>4. CountersExact'
    <3>1. Cardinality(Registered') = Cardinality(Registered) + 1
      BY <1>1, <2>2, FiniteCounts, FS_AddElement
    <3> QED  BY <1>3, <2>2, <3>1 DEF CountersExact, Register
  <2>5. ~gcMarking
    BY <1>3 DEF MarkingHolds, CountersExact
  <2>6. MarkingHolds'
    BY <1>3, <2>2, <2>5 DEF MarkingHolds, Register
  <2>7. SweepHolds'
    BY <1>3, <2>2, <2>5 DEF SweepHolds, Register
  <2> QED  BY <2>3, <2>4, <2>6, <2>7
<1> QED  BY <1>2, <1>3

\* A thread that leaves takes itself out of Registered and out of count, and
\* can only complete the barrier for others, never open it.
LEMMA UnregisterStep ==
    ASSUME HandshakeInv, NEW t \in Threads, Unregister(t)
    PROVE  HandshakeInv'
<1> USE DEF HandshakeInv
<1>1. t \in Registered /\ t \notin Inside /\ t \notin Owing /\ t \notin Closing
  BY DEF Unregister, Registered, Inside, Owing, Closing
<1>2. /\ Registered' = Registered \ {t} /\ Inside' = Inside
      /\ Owing' = Owing /\ Closing' = Closing
      /\ pc' \in [Threads -> Locations] /\ pc'[t] = "out"
      /\ \A u \in Threads \ {t} : pc'[u] = pc[u]
  <2>1. Goto(t, "out") /\ "out" \in Locations
    BY DEF Unregister, Locations
  <2>2. /\ Registered' = Registered \ {t} /\ Inside' = Inside \ {t}
        /\ Owing' = Owing \ {t} /\ Closing' = Closing \ {t}
        /\ pc' \in [Threads -> Locations] /\ pc'[t] = "out"
        /\ \A u \in Threads \ {t} : pc'[u] = pc[u]
    BY <2>1, Moves
  <2> QED  BY <1>1, <2>2
<1>3. Cardinality(Registered') = Cardinality(Registered) - 1 /\ Cardinality(Registered') \in Nat
  <2>1. IsFiniteSet(Registered \ {t}) /\ Cardinality(Registered \ {t}) = Cardinality(Registered) - 1
    BY <1>1, FiniteCounts, FS_RemoveElement
  <2> QED  BY <1>2, <2>1, FS_CardinalityType
<1>4. CountersExact'
  BY <1>2, <1>3 DEF CountersExact, Unregister
<1>5. TypeOK'
  BY <1>2, <1>3, <1>4 DEF TypeOK, CountersExact, Unregister
<1>6. ~gcMarking
  BY <1>1 DEF MarkingHolds, Unregister
<1>7. MarkingHolds'
  BY <1>2, <1>6 DEF MarkingHolds, Unregister
<1>8. SweepHolds'
  BY <1>2, <1>6 DEF SweepHolds, Unregister
<1> QED  BY <1>4, <1>5, <1>7, <1>8

\* Whoever arrives at the barrier in front of marking is counted in waiting;
\* the last one opens it for exactly the registered threads.
LEMMA ArriveStep ==
    ASSUME HandshakeInv, NEW t \in Threads, Arrive(t)
    PROVE  HandshakeInv'
<1> USE DEF HandshakeInv
<1>1. t \in Registered /\ t \notin Inside /\ t \notin Owing /\ t \notin Closing
  BY DEF Arrive, Registered, Inside, Owing, Closing
<1>2. ~gcMarking /\ ~sweepLock /\ Owing = {} /\ Closing = {}
  BY <1>1 DEF Arrive, MarkingHolds, SweepHolds
<1>3. PICK w \in {"begin", "mark"} : Goto(t, w)
  BY DEF Arrive, OpenBarrier, PassBarrier
<1>4. /\ Registered' = Registered /\ Inside' = Inside \cup {t}
      /\ Owing' = {} /\ Closing' = {}
      /\ pc' \in [Threads -> Locations] /\ pc'[t] = w
      /\ \A u \in Threads \ {t} : pc'[u] = pc[u]
  <2>1. w \in Locations
    BY DEF Locations
  <2>2. /\ Registered' = Registered \cup {t} /\ Inside' = Inside \cup {t}
        /\ Owing' = Owing \ {t} /\ Closing' = Closing \ {t}
        /\ pc' \in [Threads -> Locations] /\ pc'[t] = w
        /\ \A u \in Threads \ {t} : pc'[u] = pc[u]
    BY <1>3, <2>1, Moves
  <2> QED  BY <1>1, <1>2, <2>2
<1>5. Cardinality(Inside') = Cardinality(Inside) + 1
  BY <1>1, <1>4, FiniteCounts, FS_AddElement
<1>6. /\ waiting' = waiting + 1 /\ count' = count /\ sweepLock' = sweepLock
      /\ gcRunning' = IF waiting = 0 THEN TRUE ELSE gcRunning
      /\ stuck' = stuck /\ gcSweeping' = gcSweeping
  BY DEF Arrive
<1>7. CountersExact'
  <2>1. gcRunning' /\ waiting' # 0
    BY <1>6 DEF CountersExact, TypeOK
  <2>2. count' = Cardinality(Registered') /\ waiting' = Cardinality(Inside')
    BY <1>4, <1>5, <1>6 DEF CountersExact
  <2> QED  BY <2>1, <2>2 DEF CountersExact
<1>11. gcRunning' \in BOOLEAN
  BY <1>6 DEF TypeOK
<1>8. SweepHolds'
  <2>1. ~sweepLock' /\ Owing' = {} /\ Closing' = {}
    BY <1>2, <1>4, <1>6
  <2> QED  BY <2>1 DEF SweepHolds
<1>9. CASE waiting + 1 = count
  <2>1. gcMarking' = TRUE /\ sweepNum' = count /\ pc'[t] = "mark"
        /\ ticket' = [ticket EXCEPT ![t] = 0] /\ asleep' = asleep \ OnMarkCond
    BY <1>4, <1>6, <1>9 DEF Arrive, OpenBarrier, Goto, TypeOK
  <2>2. TypeOK'
    <3>1. ticket' \in [Threads -> Nat]
      BY <2>1 DEF TypeOK
    <3>2. asleep' \subseteq Threads
      BY <2>1 DEF TypeOK
    <3>3. count' \in Nat /\ waiting' \in Nat /\ sweepNum' \in Nat
      BY <1>6, <2>1 DEF TypeOK
    <3>4. gcMarking' \in BOOLEAN /\ gcSweeping' \in BOOLEAN /\ sweepLock' \in BOOLEAN
      BY <1>6, <2>1 DEF TypeOK
    <3> QED  BY <1>4, <1>6, <1>11, <3>1, <3>2, <3>3, <3>4 DEF TypeOK
  <2>3. Inside' = Registered'
    <3>1. Inside' \in SUBSET Registered' /\ Cardinality(Inside') = Cardinality(Registered')
      BY <1>1, <1>4, <1>5, <1>9, FiniteCounts DEF CountersExact
    <3> QED  BY <3>1, <1>4, FiniteCounts, FS_Subset
  <2>4. MarkingHolds'
    BY <1>4, <1>6, <2>1, <2>3 DEF MarkingHolds, Inside, TypeOK
  <2> QED  BY <1>7, <1>8, <2>2, <2>4
<1>10. CASE waiting + 1 # count
  <2>1. /\ gcMarking' = gcMarking /\ sweepNum' = sweepNum /\ pc'[t] = "begin"
        /\ ticket' = [ticket EXCEPT ![t] = waiting + 1] /\ asleep' = asleep \cup {t}
    BY <1>2, <1>4, <1>6, <1>10 DEF Arrive, PassBarrier, Goto, TypeOK
  <2>2. TypeOK'
    <3>1. ticket' \in [Threads -> Nat]
      BY <2>1 DEF TypeOK
    <3>2. asleep' \subseteq Threads
      BY <2>1 DEF TypeOK
    <3>3. count' \in Nat /\ waiting' \in Nat /\ sweepNum' \in Nat
      BY <1>6, <2>1 DEF TypeOK
    <3>4. gcMarking' \in BOOLEAN /\ gcSweeping' \in BOOLEAN /\ sweepLock' \in BOOLEAN
      BY <1>6, <2>1 DEF TypeOK
    <3> QED  BY <1>4, <1>6, <1>11, <3>1, <3>2, <3>3, <3>4 DEF TypeOK
  <2>3. MarkingHolds'
    BY <1>2, <1>4, <1>6, <2>1 DEF MarkingHolds, TypeOK
  <2> QED  BY <1>7, <1>8, <2>2, <2>3
<1> QED  BY <1>9, <1>10

\* A thread woken inside that barrier opens it, passes it or sleeps again.
LEMMA BeginWakeStep ==
    ASSUME HandshakeInv, NEW t \in Threads, BeginWake(t)
    PROVE  HandshakeInv'
<1> USE DEF HandshakeInv
<1>1. t \in Registered /\ t \in Inside /\ t \notin Owing /\ t \notin Closing
  BY DEF BeginWake, Registered, Inside, Owing, Closing
<1>2. PICK w \in {"begin", "mark"} : Goto(t, w)
  BY DEF BeginWake, OpenBarrier, PassBarrier
<1>3. /\ Registered' = Registered /\ Inside' = Inside
      /\ Owing' = Owing /\ Closing' = Closing
      /\ pc' \in [Threads -> Locations] /\ pc'[t] = w
      /\ \A u \in Threads \ {t} : pc'[u] = pc[u]
  <2>1. w \in Locations
    BY DEF Locations
  <2>2. /\ Registered' = Registered \cup {t} /\ Inside' = Inside \cup {t}
        /\ Owing' = Owing \ {t} /\ Closing' = Closing \ {t}
        /\ pc' \in [Threads -> Locations] /\ pc'[t] = w
        /\ \A u \in Threads \ {t} : pc'[u] = pc[u]
    BY <1>2, <2>1, Moves
  <2> QED  BY <1>1, <2>2
<1>4. /\ stuck' = stuck /\ count' = count /\ waiting' = waiting
      /\ gcRunning' = gcRunning /\ gcSweeping' = gcSweeping /\ sweepLock' = sweepLock
  BY DEF BeginWake
<1>5. CountersExact'
  BY <1>3, <1>4 DEF CountersExact
<1>6. ~sweepLock
  \* somebody is inside the barrier, so waiting is not 0
  <2>1. Cardinality(Inside) # 0
    BY <1>1, FiniteCounts, FS_EmptySet
  <2> QED  BY <2>1 DEF SweepHolds, CountersExact
<1>7. CASE ticket[t] = count
  <2>1. gcMarking' = TRUE /\ sweepNum' = count /\ pc'[t] = "mark"
        /\ ticket' = [ticket EXCEPT ![t] = 0] /\ asleep' = asleep \ OnMarkCond
    BY <1>3, <1>7 DEF BeginWake, OpenBarrier, Goto, TypeOK
  <2>2. TypeOK'
    <3>1. ticket' \in [Threads -> Nat]
      BY <2>1 DEF TypeOK
    <3>2. asleep' \subseteq Threads
      BY <2>1 DEF TypeOK
    <3>3. count' \in Nat /\ waiting' \in Nat /\ sweepNum' \in Nat
      BY <1>4, <2>1 DEF TypeOK
    <3>4. /\ gcMarking' \in BOOLEAN /\ gcSweeping' \in BOOLEAN
          /\ sweepLock' \in BOOLEAN /\ gcRunning' \in BOOLEAN
      BY <1>4, <2>1 DEF TypeOK
    <3> QED  BY <1>3, <1>4, <3>1, <3>2, <3>3, <3>4 DEF TypeOK
  <2>3. \A u \in Registered : pc[u] \in {"begin", "mark", "end"}
    <3>1. CASE gcMarking
      BY <3>1 DEF MarkingHolds
    <3>2. CASE ~gcMarking
      <4>1. count <= waiting
        BY <1>7, <3>2 DEF MarkingHolds, BeginWake
      <4>2. Inside = Registered
        BY <4>1, FiniteCounts DEF CountersExact
      <4> QED  BY <4>2 DEF Inside
    <3> QED  BY <3>1, <3>2
  <2>4. waiting # 0
    BY <1>1, FiniteCounts, FS_EmptySet DEF CountersExact
  <2>5. MarkingHolds'
    BY <1>3, <1>4, <2>1, <2>3, <2>4 DEF MarkingHolds, Registered
  <2>6. SweepHolds'
    <3>1. Closing = {}
      BY <1>6, <2>3 DEF SweepHolds, Closing, Registered
    <3> QED  BY <1>3, <1>4, <1>6, <2>1, <3>1 DEF SweepHolds
  <2> QED  BY <1>5, <2>2, <2>5, <2>6
<1>8. CASE ticket[t] # count
  <2>1. gcMarking' = gcMarking /\ sweepNum' = sweepNum
    BY <1>8 DEF BeginWake, PassBarrier
  <2>2. ticket' \in [Threads -> Nat] /\ asleep' \subseteq Threads
    BY <1>8 DEF BeginWake, PassBarrier, TypeOK
  <2>3. TypeOK'
    BY <1>3, <1>4, <2>1, <2>2 DEF TypeOK
  <2>4. MarkingHolds'
    <3>1. CASE gcMarking
      BY <1>3, <1>4, <2>1, <3>1 DEF MarkingHolds, Registered
    <3>2. CASE ~gcMarking
      <4>1. Goto(t, "begin") /\ ticket' = [ticket EXCEPT ![t] = ticket[t]]
        BY <1>8, <3>2 DEF BeginWake, PassBarrier
      <4>2. ticket' = ticket /\ pc' = pc
        BY <4>1 DEF Goto, TypeOK, BeginWake
      <4> QED  BY <1>3, <1>4, <2>1, <3>2, <4>2 DEF MarkingHolds
    <3> QED  BY <3>1, <3>2
  <2>5. SweepHolds'
    BY <1>3, <1>4, <2>1 DEF SweepHolds
  <2> QED  BY <1>5, <2>3, <2>4, <2>5
<1> QED  BY <1>7, <1>8

\* A thread that is done marking leaves waiting; the last one takes
\* SWEEP_MUTEX for everybody who was counted when the barrier opened.
LEMMA EndArriveStep ==
    ASSUME HandshakeInv, NEW t \in Threads, EndArrive(t)
    PROVE  HandshakeInv'
<1> USE DEF HandshakeInv
<1>1. t \in Registered /\ t \in Inside /\ t \notin Owing /\ t \notin Closing
  BY DEF EndArrive, Registered, Inside, Owing, Closing
<1>2. PICK w \in {"bigSweep", "end"} : Goto(t, w)
  BY DEF EndArrive
<1>3. /\ Registered' = Registered /\ Inside' = Inside \ {t}
      /\ Owing' = Owing \cup {t} /\ Closing' = Closing
      /\ pc' \in [Threads -> Locations] /\ pc'[t] = w
      /\ \A u \in Threads \ {t} : pc'[u] = pc[u]
  <2>1. w \in Locations
    BY DEF Locations
  <2>2. /\ Registered' = Registered \cup {t} /\ Inside' = Inside \ {t}
        /\ Owing' = Owing \cup {t} /\ Closing' = Closing \ {t}
        /\ pc' \in [Threads -> Locations] /\ pc'[t] = w
        /\ \A u \in Threads \ {t} : pc'[u] = pc[u]
    BY <1>2, <2>1, Moves
  <2> QED  BY <1>1, <2>2
<1>4. gcMarking /\ ~sweepLock /\ waiting # 0 /\ sweepNum = count
      /\ \A u \in Registered : pc[u] \in {"begin", "mark", "end"}
  BY DEF EndArrive, MarkingHolds, SweepHolds
<1>5. Closing = {}
  BY <1>4 DEF Closing, Registered
<1>6. Cardinality(Inside') = Cardinality(Inside) - 1 /\ IsFiniteSet(Inside')
  BY <1>1, <1>3, FiniteCounts, FS_RemoveElement
<1>7. /\ waiting' = waiting - 1 /\ count' = count /\ sweepNum' = sweepNum
      /\ stuck' = stuck /\ ticket' = ticket
  BY DEF EndArrive
<1>8. count' = Cardinality(Registered') /\ waiting' = Cardinality(Inside')
  BY <1>3, <1>6, <1>7 DEF CountersExact
<1>9. waiting' \in Nat
  BY <1>4, <1>7 DEF TypeOK
<1>10. asleep' \subseteq Threads
  BY DEF EndArrive, TypeOK
<1>11. CASE waiting = 1
  <2>1. /\ sweepLock' = TRUE /\ gcSweeping' = TRUE /\ gcMarking' = FALSE
        /\ gcRunning' = FALSE /\ waiting' = 0
    BY <1>7, <1>11 DEF EndArrive
  <2>2. TypeOK'
    BY <1>3, <1>7, <1>9, <1>10, <2>1 DEF TypeOK
  <2>3. CountersExact'
    BY <1>8, <2>1 DEF CountersExact
  <2>4. Inside' = {}
    BY <1>6, <1>8, <2>1, FS_EmptySet
  <2>5. MarkingHolds'
    BY <2>1, <2>4 DEF MarkingHolds, Inside
  <2>6. Owing' = Registered'
    <3>1. \A u \in Registered : u # t => u \in Owing
      BY <1>3, <1>4, <2>4 DEF Inside, Owing, Registered
    <3> QED  BY <1>1, <1>3, <3>1, FiniteCounts
  <2>7. \A u \in Threads : pc'[u] # "arrive"
    BY <1>3, <1>4 DEF Registered
  <2>8. SweepHolds'
    BY <1>3, <1>4, <1>5, <1>7, <1>8, <2>1, <2>6, <2>7 DEF SweepHolds
  <2> QED  BY <2>2, <2>3, <2>5, <2>8
<1>12. CASE waiting # 1
  <2>1. /\ sweepLock' = sweepLock /\ gcSweeping' = gcSweeping
        /\ gcMarking' = gcMarking /\ gcRunning' = gcRunning /\ pc'[t] = "end"
    BY <1>3, <1>12 DEF EndArrive, Goto, TypeOK
  <2>2. TypeOK'
    BY <1>3, <1>7, <1>9, <1>10, <2>1 DEF TypeOK
  <2>3. waiting' # 0
    BY <1>7, <1>12 DEF TypeOK
  <2>4. CountersExact'
    BY <1>4, <1>8, <2>1, <2>3 DEF CountersExact
  <2>5. MarkingHolds'
    BY <1>3, <1>4, <1>7, <2>1, <2>3 DEF MarkingHolds, Registered
  <2>6. SweepHolds'
    BY <1>3, <1>4, <1>5, <2>1 DEF SweepHolds
  <2> QED  BY <2>2, <2>4, <2>5, <2>6
<1> QED  BY <1>11, <1>12

\* Between the two barriers of the sweep: the thread is in debt before the
\* step and still in debt after it.
LEMMA EndWakeStep ==
    ASSUME HandshakeInv, NEW t \in Threads, EndWake(t) \/ BigSweep(t)
    PROVE  HandshakeInv'
<1> USE DEF HandshakeInv
<1>1. t \in Registered /\ t \notin Inside /\ t \in Owing /\ t \notin Closing
  BY DEF EndWake, BigSweep, Registered, Inside, Owing, Closing
<1>2. UNCHANGED <<ticket, stuck, flags>> /\ asleep' \subseteq Threads
  BY DEF EndWake, BigSweep, TypeOK
<1>3. CASE pc' = pc
  <2>1. /\ Registered' = Registered /\ Inside' = Inside
        /\ Owing' = Owing /\ Closing' = Closing
    BY <1>3 DEF Registered, Inside, Owing, Closing
  <2>2. TypeOK'
    BY <1>2, <1>3 DEF TypeOK, flags
  <2>3. CountersExact' /\ MarkingHolds' /\ SweepHolds'
    BY <1>2, <1>3, <2>1 DEF CountersExact, MarkingHolds, SweepHolds, flags
  <2> QED  BY <2>2, <2>3
<1>4. CASE pc' # pc
  <2>1. /\ Goto(t, "sweep")
        /\ waiting = 0 \/ pc[t] = "bigSweep"
    BY <1>4 DEF EndWake, BigSweep
  <2>2. "sweep" \in Locations
    BY DEF Locations
  <2>3. /\ Registered' = Registered \cup {t} /\ Inside' = Inside \ {t}
        /\ Owing' = Owing \cup {t} /\ Closing' = Closing \ {t}
        /\ pc' \in [Threads -> Locations] /\ pc'[t] = "sweep"
        /\ \A u \in Threads \ {t} : pc'[u] = pc[u]
    BY <2>1, <2>2, Moves
  <2>4. /\ Registered' = Registered /\ Inside' = Inside
        /\ Owing' = Owing /\ Closing' = Closing
    BY <1>1, <2>3
  <2>5. ~gcMarking
    BY <1>1, <2>1 DEF MarkingHolds
  <2>6. TypeOK'
    BY <1>2, <2>3 DEF TypeOK, flags
  <2>7. CountersExact'
    BY <1>2, <2>4 DEF CountersExact, flags
  <2>8. MarkingHolds'
    BY <1>2, <2>3, <2>5 DEF MarkingHolds, flags
  <2>9. SweepHolds'
    BY <1>2, <2>3, <2>4, <2>5 DEF SweepHolds, flags
  <2> QED  BY <2>6, <2>7, <2>8, <2>9
<1> QED  BY <1>3, <1>4

\* A thread that swept pays its share of GC_SWEEPPING_NUM.
LEMMA SweepStep ==
    ASSUME HandshakeInv, NEW t \in Threads, Sweep(t)
    PROVE  HandshakeInv'
<1> USE DEF HandshakeInv
<1>1. t \in Registered /\ t \notin Inside /\ t \in Owing /\ t \notin Closing
  BY DEF Sweep, Registered, Inside, Owing, Closing
<1>2. ~gcMarking /\ sweepLock
  BY <1>1 DEF Sweep, MarkingHolds, SweepHolds
<1>3. Cardinality(Owing \ {t}) = sweepNum - 1 /\ sweepNum - 1 \in Nat
      /\ IsFiniteSet(Owing \ {t})
  <2>1. /\ IsFiniteSet(Owing \ {t})
        /\ Cardinality(Owing \ {t}) = Cardinality(Owing) - 1
    BY <1>1, FiniteCounts, FS_RemoveElement
  <2>2. Cardinality(Owing \ {t}) \in Nat
    BY <2>1, FS_CardinalityType
  <2> QED  BY <1>2, <2>1, <2>2 DEF SweepHolds
<1>4. /\ UNCHANGED <<ticket, stuck, asleep, count, waiting>>
      /\ UNCHANGED <<gcRunning, gcMarking, gcSweeping, sweepLock>>
      /\ sweepNum' = sweepNum - 1
  BY DEF Sweep
<1>5. PICK w \in {"mutator", "stuck", "endGc"} :
           Goto(t, w) /\ (w = "endGc" <=> sweepNum = 1)
  BY DEF Sweep, Home
<1>6. /\ Registered' = Registered \cup {t} /\ Inside' = Inside \ {t}
      /\ Owing' = Owing \ {t}
      /\ Closing' = IF w = "endGc" THEN Closing \cup {t} ELSE Closing \ {t}
      /\ pc' \in [Threads -> Locations] /\ pc'[t] = w
      /\ \A u \in Threads \ {t} : pc'[u] = pc[u]
  <2>1. w \in Locations
    BY DEF Locations
  <2> QED  BY <1>5, <2>1, Moves
<1>7. Registered' = Registered /\ Inside' = Inside
  BY <1>1, <1>6
<1>8. TypeOK'
  BY <1>3, <1>4, <1>6 DEF TypeOK
<1>9. CountersExact'
  BY <1>4, <1>7 DEF CountersExact
<1>10. MarkingHolds'
  BY <1>2, <1>4, <1>6 DEF MarkingHolds
<1>11. Closing = {}
  \* sweepNum is not 0, so the last sweeper of the cycle is not among us yet
  BY <1>3 DEF SweepHolds, TypeOK
<1>12. SweepHolds'
  <2>1. Closing' \subseteq {t} /\ (Closing' # {} => sweepNum' = 0)
    BY <1>4, <1>5, <1>6, <1>11 DEF TypeOK
  <2>2. waiting' = 0 /\ sweepNum' = Cardinality(Owing')
    BY <1>2, <1>3, <1>4, <1>6 DEF SweepHolds
  <2>3. \A u \in Threads : pc'[u] # "arrive"
    BY <1>2, <1>6 DEF SweepHolds
  <2> QED  BY <1>2, <1>4, <2>1, <2>2, <2>3 DEF SweepHolds
<1> QED  BY <1>8, <1>9, <1>10, <1>12

\* The last sweeper clears GC_SWEEPING while SWEEP_MUTEX is still taken.
LEMMA EndGcStep ==
    ASSUME HandshakeInv, NEW t \in Threads, EndGc(t)
    PROVE  HandshakeInv'
<1> USE DEF HandshakeInv
<1>1. t \in Registered /\ t \notin Inside /\ t \notin Owing /\ t \in Closing
  BY DEF EndGc, Registered, Inside, Owing, Closing
<1>2. ~gcMarking
  BY <1>1 DEF EndGc, MarkingHolds
<1>3. /\ Registered' = Registered \cup {t} /\ Inside' = Inside \ {t}
      /\ Owing' = Owing \ {t} /\ Closing' = Closing \cup {t}
      /\ pc' \in [Threads -> Locations] /\ pc'[t] = "release"
      /\ \A u \in Threads \ {t} : pc'[u] = pc[u]
  <2>1. Goto(t, "release") /\ "release" \in Locations
    BY DEF EndGc, Locations
  <2> QED  BY <2>1, Moves
<1>4. /\ Registered' = Registered /\ Inside' = Inside
      /\ Owing' = Owing /\ Closing' = Closing
  BY <1>1, <1>3
<1>5. /\ UNCHANGED <<ticket, stuck, asleep, count, waiting>>
      /\ UNCHANGED <<gcRunning, gcMarking, sweepLock, sweepNum>>
      /\ gcSweeping' = FALSE
  BY DEF EndGc
<1>6. TypeOK'
  BY <1>3, <1>5 DEF TypeOK
<1>7. CountersExact'
  BY <1>4, <1>5 DEF CountersExact
<1>8. MarkingHolds'
  BY <1>2, <1>3, <1>5 DEF MarkingHolds
<1>9. SweepHolds'
  BY <1>2, <1>3, <1>4, <1>5 DEF SweepHolds
<1> QED  BY <1>6, <1>7, <1>8, <1>9

\* Releasing SWEEP_MUTEX finds nobody in debt.
LEMMA ReleaseSweepStep ==
    ASSUME HandshakeInv, NEW t \in Threads, ReleaseSweep(t)
    PROVE  HandshakeInv'
<1> USE DEF HandshakeInv
<1>1. t \in Registered /\ t \notin Inside /\ t \notin Owing /\ t \in Closing
  BY DEF ReleaseSweep, Registered, Inside, Owing, Closing
<1>2. ~gcMarking /\ sweepLock
  BY <1>1 DEF ReleaseSweep, MarkingHolds, SweepHolds
<1>3. PICK w \in {"mutator", "stuck"} : Goto(t, w)
  BY DEF ReleaseSweep, Home
<1>4. /\ Registered' = Registered \cup {t} /\ Inside' = Inside \ {t}
      /\ Owing' = Owing \ {t} /\ Closing' = Closing \ {t}
      /\ pc' \in [Threads -> Locations] /\ pc'[t] = w
      /\ \A u \in Threads \ {t} : pc'[u] = pc[u]
  <2>1. w \in Locations
    BY DEF Locations
  <2> QED  BY <1>3, <2>1, Moves
<1>5. Registered' = Registered /\ Inside' = Inside /\ Owing' = Owing /\ Closing' = {}
  BY <1>1, <1>4 DEF SweepHolds
<1>6. Owing = {}
  <2>1. Cardinality(Owing) = 0
    BY <1>1, <1>2 DEF SweepHolds
  <2> QED  BY <2>1, FiniteCounts, FS_EmptySet
<1>7. /\ UNCHANGED <<ticket, stuck, count, waiting, gcRunning>>
      /\ UNCHANGED <<gcMarking, gcSweeping, sweepNum>>
      /\ sweepLock' = FALSE /\ asleep' \subseteq Threads
  BY DEF ReleaseSweep, TypeOK
<1>8. TypeOK'
  BY <1>4, <1>7 DEF TypeOK
<1>9. CountersExact'
  BY <1>5, <1>7 DEF CountersExact
<1>10. MarkingHolds'
  BY <1>2, <1>4, <1>7 DEF MarkingHolds
<1>11. SweepHolds'
  BY <1>5, <1>6, <1>7 DEF SweepHolds
<1> QED  BY <1>8, <1>9, <1>10, <1>11

\* The initial state satisfies the invariant, and every step keeps it.
LEMMA InvInit == Init => HandshakeInv
<1> SUFFICES ASSUME Init
             PROVE  HandshakeInv
  OBVIOUS
<1>1. Registered = {} /\ Inside = {} /\ Owing = {} /\ Closing = {}
  BY DEF Init, Registered, Inside, Owing, Closing
<1>2. TypeOK
  BY DEF Init, TypeOK, Locations, NannyStates
<1>3. CountersExact
  BY <1>1, FS_EmptySet DEF Init, CountersExact
<1>4. MarkingHolds /\ SweepHolds
  BY <1>1 DEF Init, MarkingHolds, SweepHolds
<1> QED  BY <1>2, <1>3, <1>4 DEF HandshakeInv

\* Every step of every thread keeps the invariant, action by action.
LEMMA InvNext == HandshakeInv /\ [Next]_vars => HandshakeInv'
<1> SUFFICES ASSUME HandshakeInv, [Next]_vars
             PROVE  HandshakeInv'
  OBVIOUS
<1>1. ASSUME UNCHANGED <<pc, ticket, flags>>, stuck' \in [Threads -> NannyStates],
             asleep' \subseteq Threads
      PROVE  HandshakeInv'
  <2>1. /\ Registered' = Registered /\ Inside' = Inside
        /\ Owing' = Owing /\ Closing' = Closing
    BY <1>1 DEF Registered, Inside, Owing, Closing
  <2>2. TypeOK'
    BY <1>1 DEF HandshakeInv, TypeOK, flags
  <2>3. CountersExact' /\ MarkingHolds' /\ SweepHolds'
    BY <1>1, <2>1 DEF HandshakeInv, CountersExact, MarkingHolds, SweepHolds, flags
  <2> QED  BY <2>2, <2>3 DEF HandshakeInv
<1>2. CASE UNCHANGED vars
  BY <1>1, <1>2 DEF vars, HandshakeInv, TypeOK
<1>3. ASSUME NEW t \in Threads, Runtime(t) \/ Program(t)
      PROVE  HandshakeInv'
  <2>1. CASE Register(t)
    BY <2>1, RegisterStep
  <2>2. CASE Unregister(t)
    BY <2>2, UnregisterStep
  <2>3. CASE ExplicitCollect(t) \/ JoinAtSafepoint(t) \/ StartAtSafepoint(t)
    <3>1. /\ pc[t] = "mutator" /\ Goto(t, "collect")
          /\ UNCHANGED <<ticket, stuck, asleep, flags>>
      BY <2>3 DEF ExplicitCollect, JoinAtSafepoint, StartAtSafepoint
    <3>2. stuck' \in [Threads -> NannyStates]
      BY <3>1 DEF HandshakeInv, TypeOK
    <3> QED  BY <3>1, <3>2, QuietStep
  <2>4. CASE AwaitSweep(t)
    <3>1. CASE sweepLock
      BY <1>1, <2>4, <3>1 DEF AwaitSweep, HandshakeInv, TypeOK
    <3>2. CASE ~sweepLock
      <4>1. /\ pc[t] = "collect" /\ Goto(t, "arrive")
            /\ UNCHANGED <<ticket, stuck, asleep, flags>>
        BY <2>4, <3>2 DEF AwaitSweep
      <4>2. stuck' \in [Threads -> NannyStates]
        BY <4>1 DEF HandshakeInv, TypeOK
      <4> QED  BY <3>2, <4>1, <4>2, QuietStep
    <3> QED  BY <3>1, <3>2
  <2>5. CASE Arrive(t)
    BY <2>5, ArriveStep
  <2>6. CASE BeginWake(t)
    BY <2>6, BeginWakeStep
  <2>7. CASE EndArrive(t)
    BY <2>7, EndArriveStep
  <2>8. CASE EndWake(t) \/ BigSweep(t)
    BY <2>8, EndWakeStep
  <2>9. CASE Sweep(t)
    BY <2>9, SweepStep
  <2>10. CASE EndGc(t)
    BY <2>10, EndGcStep
  <2>11. CASE ReleaseSweep(t)
    BY <2>11, ReleaseSweepStep
  <2>12. CASE StuckBegin(t) \/ NannyStart(t)
    <3>1. PICK w \in {"stuckWait", "stuck"} : Goto(t, w)
      BY <2>12 DEF StuckBegin, NannyStart
    <3>2. /\ pc[t] \in {"mutator", "stuckWait"}
          /\ UNCHANGED <<ticket, asleep, flags>>
      BY <2>12 DEF StuckBegin, NannyStart
    <3>3. stuck' \in [Threads -> NannyStates]
      BY <2>12 DEF StuckBegin, NannyStart, HandshakeInv, TypeOK, NannyStates
    <3> QED  BY <3>1, <3>2, <3>3, QuietStep
  <2>13. CASE StuckEnd(t)
    <3>1. stuck' \in [Threads -> NannyStates]
      BY <2>13 DEF StuckEnd, HandshakeInv, TypeOK, NannyStates
    <3> QED  BY <1>1, <2>13, <3>1 DEF StuckEnd, HandshakeInv, TypeOK
  <2>14. CASE NannyPoll(t)
    <3>1. PICK w \in {"mutator", "nanny"} : Goto(t, w)
      BY <2>14 DEF NannyPoll
    <3>2. pc[t] = "stuck" /\ UNCHANGED <<ticket, asleep, flags>>
      BY <2>14 DEF NannyPoll
    <3>3. stuck' \in [Threads -> NannyStates]
      BY <2>14 DEF NannyPoll, HandshakeInv, TypeOK, NannyStates
    <3> QED  BY <3>1, <3>2, <3>3, QuietStep
  <2>15. CASE NannySafepoint(t)
    <3>1. PICK w \in {"collect", "stuck"} : Goto(t, w)
      BY <2>15 DEF NannySafepoint
    <3>2. pc[t] = "nanny" /\ UNCHANGED <<ticket, stuck, asleep, flags>>
      BY <2>15 DEF NannySafepoint
    <3>3. stuck' \in [Threads -> NannyStates]
      BY <3>2 DEF HandshakeInv, TypeOK
    <3> QED  BY <3>1, <3>2, <3>3, QuietStep
  <2> QED  BY <1>3, <2>1, <2>2, <2>3, <2>4, <2>5, <2>6, <2>7, <2>8, <2>9, <2>10,
              <2>11, <2>12, <2>13, <2>14, <2>15 DEF Runtime, Program
<1> QED  BY <1>2, <1>3 DEF Next

\* The handshake invariant holds in every behaviour.
LEMMA Invariant == Spec => []HandshakeInv
BY InvInit, InvNext, PTL DEF Spec

\* Every variable of the handshake keeps its type, for any set of threads.
THEOREM TypeCorrect == Spec => []TypeOK
<1>1. HandshakeInv => TypeOK
  BY DEF HandshakeInv
<1> QED  BY <1>1, Invariant, PTL

\* While any thread marks, every registered thread is held between the two
\* barriers of mark_fast_unwind.
THEOREM StopsTheWorld == Spec => []WorldStopped
<1>1. HandshakeInv => WorldStopped
  BY DEF HandshakeInv, MarkingHolds, WorldStopped
<1> QED  BY <1>1, Invariant, PTL

-----------------------------------------------------------------------
(* The handshake implements StopTheWorld, but for liveness.              *)

\* The state the abstract specification sees is left alone.
LEMMA Stutters ==
    ASSUME Registered' = Registered, gcMarking' = gcMarking,
           gcMarking \/ Owing' = Owing
    PROVE  UNCHANGED Abstract!vars
BY DEF Abstract!vars

\* Every step of the handshake is a step of the abstract collection, or one
\* it does not see.
LEMMA AbstractStep ==
    ASSUME HandshakeInv, NEW t \in Threads, Runtime(t) \/ Program(t)
    PROVE  [Abstract!Next]_(Abstract!vars)
<1> USE DEF HandshakeInv
<1>1. ASSUME NEW w \in Locations, Goto(t, w), gcMarking' = gcMarking,
             pc[t] \notin {"out", "regWait"}, w \notin {"out", "regWait"},
             \/ gcMarking
             \/ pc[t] \in {"end", "bigSweep", "sweep"} <=> w \in {"end", "bigSweep", "sweep"}
      PROVE  UNCHANGED Abstract!vars
  <2>1. /\ Registered' = Registered \cup {t}
        /\ Owing' = IF w \in {"end", "bigSweep", "sweep"}
                      THEN Owing \cup {t} ELSE Owing \ {t}
    BY <1>1, Moves
  <2>2. Registered' = Registered /\ (gcMarking \/ Owing' = Owing)
    BY <1>1, <2>1 DEF Registered, Owing
  <2> QED  BY <1>1, <2>2, Stutters
<1>2. ASSUME UNCHANGED <<pc, gcMarking>>
      PROVE  UNCHANGED Abstract!vars
  BY <1>2, Stutters DEF Registered, Owing
<1>3. CASE Register(t)
  <2>1. gcMarking' = gcMarking
    BY <1>3 DEF Register
  <2>2. CASE gcRunning
    <3>1. Goto(t, "regWait") /\ "regWait" \in Locations
      BY <1>3, <2>2 DEF Register, Locations
    <3>2. Registered' = Registered \ {t} /\ Owing' = Owing \ {t}
      BY <3>1, Moves
    <3>3. Registered' = Registered /\ Owing' = Owing
      BY <1>3, <3>2 DEF Register, Registered, Owing
    <3> QED  BY <2>1, <3>3, Stutters
  <2>3. CASE ~gcRunning
    <3>1. Goto(t, "mutator") /\ "mutator" \in Locations
      BY <1>3, <2>3 DEF Register, Locations
    <3>2. Registered' = Registered \cup {t} /\ Owing' = Owing \ {t}
      BY <3>1, Moves
    <3>3. t \notin Registered /\ Owing' = Owing
      BY <1>3, <3>2 DEF Register, Registered, Owing
    <3>4. ~gcMarking
      BY <2>3 DEF MarkingHolds, CountersExact
    <3>5. Abstract!Join(t)
      BY <2>1, <3>2, <3>3, <3>4 DEF Abstract!Join
    <3> QED  BY <3>5 DEF Abstract!Next
  <2> QED  BY <2>2, <2>3
<1>4. CASE Unregister(t)
  <2>1. Goto(t, "out") /\ "out" \in Locations /\ gcMarking' = gcMarking
    BY <1>4 DEF Unregister, Locations
  <2>2. Registered' = Registered \ {t} /\ Owing' = Owing \ {t}
    BY <2>1, Moves
  <2>3. t \in Registered \ Owing
    BY <1>4 DEF Unregister, Registered, Owing
  <2>4. ~gcMarking
    BY <1>4, <2>3 DEF MarkingHolds, Unregister
  <2>5. Abstract!Leave(t)
    BY <2>1, <2>2, <2>3, <2>4 DEF Abstract!Leave
  <2> QED  BY <2>5 DEF Abstract!Next
<1>5. CASE Arrive(t)
  <2>1. pc[t] = "arrive" /\ t \in Registered
    BY <1>5 DEF Arrive, Registered
  <2>2. ~gcMarking /\ Owing = {}
    BY <2>1 DEF MarkingHolds, SweepHolds
  <2>3. PICK w \in {"begin", "mark"} : Goto(t, w)
    BY <1>5 DEF Arrive, OpenBarrier, PassBarrier
  <2>4. w \in Locations
    BY DEF Locations
  <2>5. Registered' = Registered \cup {t} /\ Owing' = Owing \ {t}
    BY <2>3, <2>4, Moves
  <2>6. CASE waiting' = count
    <3>1. gcMarking' = TRUE
      BY <1>5, <2>6 DEF Arrive, OpenBarrier
    <3>2. Abstract!StartMarking
      BY <2>1, <2>2, <2>5, <3>1 DEF Abstract!StartMarking
    <3> QED  BY <3>2 DEF Abstract!Next
  <2>7. CASE waiting' # count
    <3>1. gcMarking' = gcMarking
      BY <1>5, <2>7 DEF Arrive, PassBarrier
    <3> QED  BY <2>1, <2>2, <2>5, <3>1, Stutters
  <2> QED  BY <2>6, <2>7
<1>6. CASE BeginWake(t)
  <2>1. pc[t] = "begin" /\ t \in Registered /\ t \in Inside
    BY <1>6 DEF BeginWake, Registered, Inside
  <2>2. PICK w \in {"begin", "mark"} : Goto(t, w)
    BY <1>6 DEF BeginWake, OpenBarrier, PassBarrier
  <2>3. w \in Locations
    BY DEF Locations
  <2>4. Registered' = Registered \cup {t} /\ Owing' = Owing \ {t}
    BY <2>2, <2>3, Moves
  <2>5. CASE gcMarking' = gcMarking
    <3>1. Registered' = Registered /\ Owing' = Owing
      BY <2>1, <2>4 DEF Owing
    <3> QED  BY <2>5, <3>1, Stutters
  <2>6. CASE gcMarking' # gcMarking
    <3>1. gcMarking' = TRUE /\ ~gcMarking
      BY <1>6, <2>6 DEF BeginWake, OpenBarrier, PassBarrier, TypeOK
    <3>2. Owing = {}
      <4>1. Cardinality(Inside) # 0
        BY <2>1, FiniteCounts, FS_EmptySet
      <4>2. ~sweepLock
        BY <4>1 DEF SweepHolds, CountersExact
      <4> QED  BY <3>1, <4>2 DEF SweepHolds
    <3>3. Abstract!StartMarking
      BY <2>1, <2>4, <3>1, <3>2 DEF Abstract!StartMarking
    <3> QED  BY <3>3 DEF Abstract!Next
  <2> QED  BY <2>5, <2>6
<1>7. CASE EndArrive(t)
  <2>1. pc[t] = "mark" /\ t \in Registered /\ t \in Inside
    BY <1>7 DEF EndArrive, Registered, Inside
  <2>2. gcMarking
    BY <2>1 DEF MarkingHolds
  <2>3. PICK w \in {"bigSweep", "end"} : Goto(t, w)
    BY <1>7 DEF EndArrive
  <2>4. w \in Locations
    BY DEF Locations
  <2>5. /\ Registered' = Registered \cup {t} /\ Inside' = Inside \ {t}
        /\ Owing' = Owing \cup {t}
    BY <2>3, <2>4, Moves
  <2>6. Registered' = Registered
    BY <2>1, <2>5
  <2>7. CASE waiting = 1
    <3>1. gcMarking' = FALSE
      BY <1>7, <2>7 DEF EndArrive
    <3>2. Inside' = {}
      <4>1. IsFiniteSet(Inside \ {t}) /\ Cardinality(Inside \ {t}) = 0
        <5>1. /\ IsFiniteSet(Inside \ {t})
              /\ Cardinality(Inside \ {t}) = Cardinality(Inside) - 1
          BY <2>1, FiniteCounts, FS_RemoveElement
        <5> QED  BY <2>7, <5>1 DEF CountersExact
      <4> QED  BY <2>5, <4>1, FS_EmptySet
    <3>3. Owing' = Registered
      <4>1. \A u \in Registered : u # t => pc[u] = "end"
        BY <2>2, <2>5, <3>2 DEF MarkingHolds, Inside, Registered
      <4>2. \A u \in Registered : u # t => u \in Owing
        BY <4>1 DEF Registered, Owing
      <4> QED  BY <2>1, <2>5, <4>2, FiniteCounts
    <3>4. Abstract!EndMarking
      BY <2>2, <2>6, <3>1, <3>3 DEF Abstract!EndMarking
    <3> QED  BY <3>4 DEF Abstract!Next
  <2>8. CASE waiting # 1
    <3>1. gcMarking' = gcMarking
      BY <1>7, <2>8 DEF EndArrive
    <3> QED  BY <2>2, <2>6, <3>1, Stutters
  <2> QED  BY <2>7, <2>8
<1>8. CASE Sweep(t)
  <2>1. pc[t] = "sweep" /\ t \in Registered /\ t \in Owing
    BY <1>8 DEF Sweep, Registered, Owing
  <2>2. ~gcMarking /\ gcMarking' = gcMarking
    BY <1>8, <2>1 DEF MarkingHolds, Sweep
  <2>3. PICK w \in {"mutator", "stuck", "endGc"} : Goto(t, w)
    BY <1>8 DEF Sweep, Home
  <2>4. w \in Locations
    BY DEF Locations
  <2>5. Registered' = Registered \cup {t} /\ Owing' = Owing \ {t}
    BY <2>3, <2>4, Moves
  <2>6. Abstract!Sweep(t)
    BY <2>1, <2>2, <2>5 DEF Abstract!Sweep
  <2> QED  BY <2>6 DEF Abstract!Next
<1>9. CASE EndWake(t) \/ BigSweep(t)
  <2>1. gcMarking' = gcMarking
    BY <1>9 DEF EndWake, BigSweep, flags
  <2>2. CASE Goto(t, "sweep")
    BY <1>1, <1>9, <2>1, <2>2 DEF EndWake, BigSweep, Locations
  <2>3. CASE UNCHANGED pc
    BY <1>2, <2>1, <2>3
  <2> QED  BY <1>9, <2>2, <2>3 DEF EndWake, BigSweep
<1>10. CASE \/ ExplicitCollect(t) \/ JoinAtSafepoint(t) \/ StartAtSafepoint(t)
            \/ EndGc(t) \/ ReleaseSweep(t) \/ StuckBegin(t) \/ NannyStart(t)
            \/ NannyPoll(t) \/ NannySafepoint(t)
  <2>1. /\ gcMarking' = gcMarking
        /\ pc[t] \in {"mutator", "stuckWait", "stuck", "nanny", "endGc", "release"}
    BY <1>10 DEF ExplicitCollect, JoinAtSafepoint, StartAtSafepoint, EndGc, ReleaseSweep,
                 StuckBegin, NannyStart, NannyPoll, NannySafepoint, flags
  <2>2. PICK w \in {"collect", "release", "mutator", "stuck", "stuckWait", "nanny"} : Goto(t, w)
    BY <1>10 DEF ExplicitCollect, JoinAtSafepoint, StartAtSafepoint, EndGc, ReleaseSweep,
                 StuckBegin, NannyStart, NannyPoll, NannySafepoint, Home
  <2>3. w \in Locations
    BY DEF Locations
  <2> QED  BY <1>1, <2>1, <2>2, <2>3
<1>11. CASE AwaitSweep(t)
  <2>1. gcMarking' = gcMarking
    BY <1>11 DEF AwaitSweep, flags
  <2>2. CASE sweepLock
    BY <1>2, <1>11, <2>1, <2>2 DEF AwaitSweep
  <2>3. CASE ~sweepLock
    BY <1>1, <1>11, <2>1, <2>3 DEF AwaitSweep, Locations
  <2> QED  BY <2>2, <2>3
<1>12. CASE StuckEnd(t)
  BY <1>2, <1>12 DEF StuckEnd, flags
<1> QED  BY <1>3, <1>4, <1>5, <1>6, <1>7, <1>8, <1>9, <1>10, <1>11, <1>12 DEF Runtime, Program

\* The handshake implements the safety part of the abstract collection:
\* nobody joins or leaves while it marks, everybody registered when marking
\* ends sweeps exactly once, and only then the next collection marks.
THEOREM ImplementsSafety == Spec => Abstract!Safe
<1>1. Init => Abstract!Init
  BY DEF Init, Abstract!Init, Registered, Owing
<1>2. HandshakeInv /\ [Next]_vars => [Abstract!Next]_(Abstract!vars)
  <2>1. ASSUME HandshakeInv, Next
        PROVE  [Abstract!Next]_(Abstract!vars)
    BY <2>1, AbstractStep DEF Next
  <2>2. ASSUME UNCHANGED vars
        PROVE  UNCHANGED Abstract!vars
    BY <2>2, Stutters DEF vars, flags, Registered, Owing
  <2> QED  BY <2>1, <2>2
<1> QED  BY <1>1, <1>2, Invariant, PTL DEF Spec, Abstract!Safe
-----------------------------------------------------------------------
(* No wakeup is lost.                                                    *)

\* A thread that is not in the barrier goes elsewhere while what sleepers
\* wait for is left alone; none falls asleep.
LEMMA SleepOn ==
    ASSUME TypeOK, SleepersWait, NEW t \in Threads, NEW w \in Locations, Goto(t, w),
           t \notin asleep, pc[t] # "begin",
           asleep' = asleep, UNCHANGED <<ticket, count, waiting, gcRunning, gcMarking, sweepLock>>
    PROVE  SleepersWait'
<1>1. \A u \in Threads \ {t} : pc'[u] = pc[u]
  BY Moves
<1>2. asleep \subseteq Threads
  BY DEF TypeOK
<1>3. ASSUME NEW u \in asleep'
      PROVE  pc'[u] = pc[u] /\ u \in asleep
  BY <1>1, <1>2, <1>3
<1>4. ASSUME ~gcMarking', waiting' # 0
      PROVE  \E u \in Threads : pc'[u] = "begin" /\ ticket'[u] = waiting'
  <2>1. PICK u \in Threads : pc[u] = "begin" /\ ticket[u] = waiting
    BY <1>4 DEF SleepersWait
  <2> QED  BY <1>1, <2>1
<1> QED  BY <1>3, <1>4 DEF SleepersWait

\* Everybody on GC_MARK_COND is woken: who sleeps on waits for the sweep.
LEMMA MarkCondWoken ==
    ASSUME TypeOK, SleepersWait, NEW t \in Threads, NEW w \in Locations, Goto(t, w),
           t \notin asleep, asleep' = asleep \ OnMarkCond,
           sweepLock => sweepLock',
           ~gcMarking' /\ waiting' # 0 =>
               \E u \in Threads \ {t} : pc[u] = "begin" /\ ticket'[u] = waiting'
    PROVE  SleepersWait'
<1>1. \A u \in Threads \ {t} : pc'[u] = pc[u]
  BY Moves
<1>2. ASSUME NEW u \in asleep'
      PROVE  pc'[u] = "collect" /\ sweepLock'
  BY <1>1, <1>2 DEF TypeOK, OnMarkCond, SleepersWait
<1>3. ASSUME ~gcMarking', waiting' # 0
      PROVE  \E u \in Threads : pc'[u] = "begin" /\ ticket'[u] = waiting'
  BY <1>1, <1>3
<1> QED  BY <1>2, <1>3 DEF SleepersWait

\* A thread that falls asleep has looked at what it waits for.
LEMMA FallAsleep ==
    ASSUME TypeOK, SleepersWait, NEW t \in Threads, NEW w \in Locations, Goto(t, w),
           asleep' = asleep \cup {t}, UNCHANGED <<count, gcRunning, gcMarking, sweepLock>>,
           \A u \in Threads \ {t} : ticket'[u] = ticket[u],
           waiting # 0 => waiting' # 0,
           \/ w = "regWait" /\ gcRunning
           \/ w = "collect" /\ sweepLock
           \/ w = "begin" /\ ~gcMarking /\ ticket'[t] # count
           \/ w = "end" /\ waiting' # 0,
           ~gcMarking' /\ waiting' # 0 =>
               \/ w = "begin" /\ ticket'[t] = waiting'
               \/ \E u \in Threads \ {t} : pc[u] = "begin" /\ ticket'[u] = waiting'
    PROVE  SleepersWait'
<1>1. pc'[t] = w /\ \A u \in Threads \ {t} : pc'[u] = pc[u]
  BY Moves
<1>2. ASSUME NEW u \in asleep', u # t
      PROVE  u \in asleep /\ u \in Threads /\ pc'[u] = pc[u] /\ ticket'[u] = ticket[u]
  BY <1>1, <1>2 DEF TypeOK
<1>3. ASSUME ~gcMarking', waiting' # 0
      PROVE  \E u \in Threads : pc'[u] = "begin" /\ ticket'[u] = waiting'
  BY <1>1, <1>3
<1>4. ASSUME NEW u \in asleep', u # t
      PROVE  /\ pc'[u] \in {"regWait", "collect", "begin", "end"}
             /\ pc'[u] = "begin" => ~gcMarking' /\ ticket'[u] # count'
             /\ pc'[u] = "end" => waiting' # 0
             /\ pc'[u] = "regWait" => gcRunning'
             /\ pc'[u] = "collect" => sweepLock'
  BY <1>2, <1>4 DEF SleepersWait
<1>5. /\ pc'[t] \in {"regWait", "collect", "begin", "end"}
      /\ pc'[t] = "begin" => ~gcMarking' /\ ticket'[t] # count'
      /\ pc'[t] = "end" => waiting' # 0
      /\ pc'[t] = "regWait" => gcRunning'
      /\ pc'[t] = "collect" => sweepLock'
  BY <1>1
<1> QED  BY <1>3, <1>4, <1>5 DEF SleepersWait

\* The thread that arrived last stays the last when another one is not it.
LEMMA LastStays ==
    ASSUME SleepersWait, NEW t \in Threads, pc[t] # "begin", ~gcMarking, waiting # 0
    PROVE  \E u \in Threads \ {t} : pc[u] = "begin" /\ ticket[u] = waiting
BY DEF SleepersWait

\* Every step of the handshake keeps the sleepers waiting for something.
LEMMA SleepersStep ==
    ASSUME WakeupInv, NEW t \in Threads, Runtime(t) \/ Program(t)
    PROVE  SleepersWait'
<1> USE DEF WakeupInv, HandshakeInv
<1>1. CASE Register(t)
  <2>1. pc[t] \in {"out", "regWait"} /\ t \notin asleep
    BY <1>1 DEF Register
  <2>2. CASE gcRunning
    <3>1. /\ Goto(t, "regWait") /\ "regWait" \in Locations /\ asleep' = asleep \cup {t}
          /\ UNCHANGED <<ticket, count, waiting, gcRunning, gcMarking, sweepLock>>
      BY <1>1, <2>2 DEF Register, Locations
    <3> QED  BY <2>1, <2>2, <3>1, FallAsleep, LastStays
  <2>3. CASE ~gcRunning
    <3>1. /\ Goto(t, "mutator") /\ "mutator" \in Locations /\ asleep' = asleep \ OnMarkCond
          /\ UNCHANGED <<ticket, waiting, gcRunning, gcMarking, sweepLock>>
      BY <1>1, <2>3 DEF Register, Locations
    <3> QED  BY <2>1, <3>1, MarkCondWoken, LastStays
  <2> QED  BY <2>2, <2>3
<1>2. CASE Unregister(t)
  <2>1. /\ pc[t] = "mutator" /\ Goto(t, "out") /\ "out" \in Locations
        /\ asleep' = asleep \ OnMarkCond
        /\ UNCHANGED <<ticket, waiting, gcRunning, gcMarking, sweepLock>>
    BY <1>2 DEF Unregister, Locations
  <2>2. t \notin asleep
    BY <2>1 DEF SleepersWait
  <2> QED  BY <2>1, <2>2, MarkCondWoken, LastStays
<1>3. CASE AwaitSweep(t)
  <2>1. /\ pc[t] = "collect" /\ t \notin asleep
        /\ UNCHANGED <<ticket, count, waiting, gcRunning, gcMarking, sweepLock>>
    BY <1>3 DEF AwaitSweep, flags
  <2>2. CASE sweepLock
    <3>1. asleep' = asleep \cup {t} /\ pc' = pc
      BY <1>3, <2>2 DEF AwaitSweep
    <3>2. Goto(t, "collect") /\ "collect" \in Locations
      BY <2>1, <3>1 DEF Goto, Locations, TypeOK
    <3> QED  BY <2>1, <2>2, <3>1, <3>2, FallAsleep, LastStays
  <2>3. CASE ~sweepLock
    <3>1. asleep' = asleep /\ Goto(t, "arrive") /\ "arrive" \in Locations
      BY <1>3, <2>3 DEF AwaitSweep, Locations
    <3> QED  BY <2>1, <3>1, SleepOn
  <2> QED  BY <2>2, <2>3
<1>4. CASE Arrive(t)
  <2>1. /\ pc[t] = "arrive" /\ waiting' = waiting + 1
        /\ UNCHANGED <<count, sweepLock>>
    BY <1>4 DEF Arrive
  <2>2. ~gcMarking /\ waiting \in Nat /\ count \in Nat /\ t \notin asleep
    BY <2>1 DEF MarkingHolds, Registered, TypeOK, SleepersWait
  <2>3. CASE waiting' = count
    <3>1. /\ gcMarking' = TRUE /\ asleep' = asleep \ OnMarkCond
          /\ Goto(t, "mark") /\ "mark" \in Locations
      BY <1>4, <2>3 DEF Arrive, OpenBarrier, Locations
    <3> QED  BY <2>1, <2>2, <3>1, MarkCondWoken
  <2>4. CASE waiting' # count
    <3>1. /\ gcMarking' = gcMarking /\ asleep' = asleep \cup {t}
          /\ ticket' = [ticket EXCEPT ![t] = waiting']
          /\ Goto(t, "begin") /\ "begin" \in Locations
      BY <1>4, <2>2, <2>4 DEF Arrive, PassBarrier, Locations
    <3>2. ticket'[t] = waiting' /\ \A u \in Threads \ {t} : ticket'[u] = ticket[u]
      BY <3>1 DEF TypeOK
    <3>3. /\ pc'[t] = "begin" /\ \A u \in Threads \ {t} : pc'[u] = pc[u]
      BY <3>1, Moves
    <3>4. gcRunning => gcRunning'
      BY <1>4 DEF Arrive
    <3>5. ASSUME NEW u \in asleep', u # t
          PROVE  /\ pc'[u] \in {"regWait", "collect", "begin", "end"}
                 /\ pc'[u] = "begin" => ~gcMarking' /\ ticket'[u] # count'
                 /\ pc'[u] = "end" => waiting' # 0
                 /\ pc'[u] = "regWait" => gcRunning'
                 /\ pc'[u] = "collect" => sweepLock'
      <4>1. u \in asleep /\ u \in Threads /\ pc'[u] = pc[u] /\ ticket'[u] = ticket[u]
        BY <3>1, <3>2, <3>3, <3>5 DEF TypeOK
      <4> QED  BY <2>1, <2>2, <3>1, <3>4, <4>1 DEF SleepersWait
    <3> QED  BY <2>1, <2>2, <2>4, <3>1, <3>2, <3>3, <3>5 DEF SleepersWait
  <2> QED  BY <2>3, <2>4
<1>5. CASE BeginWake(t)
  <2>1. pc[t] = "begin" /\ t \notin asleep /\ UNCHANGED <<count, waiting, gcRunning, sweepLock>>
    BY <1>5 DEF BeginWake
  <2>2. CASE ticket[t] = count
    <3>1. /\ gcMarking' = TRUE /\ asleep' = asleep \ OnMarkCond
          /\ Goto(t, "mark") /\ "mark" \in Locations
      BY <1>5, <2>2 DEF BeginWake, OpenBarrier, Locations
    <3> QED  BY <2>1, <3>1, MarkCondWoken
  <2>3. CASE ticket[t] # count /\ gcMarking
    <3>1. /\ gcMarking' = gcMarking /\ asleep' = asleep
          /\ ticket' = [ticket EXCEPT ![t] = 0]
          /\ Goto(t, "mark") /\ "mark" \in Locations
      BY <1>5, <2>3 DEF BeginWake, PassBarrier, Locations
    <3>2. \A u \in Threads \ {t} : pc'[u] = pc[u] /\ ticket'[u] = ticket[u]
      BY <3>1, Moves DEF TypeOK
    <3> QED  BY <2>1, <2>3, <3>1, <3>2 DEF SleepersWait, TypeOK
  <2>4. CASE ticket[t] # count /\ ~gcMarking
    <3>1. /\ gcMarking' = gcMarking /\ asleep' = asleep \cup {t}
          /\ ticket' = [ticket EXCEPT ![t] = ticket[t]]
          /\ Goto(t, "begin") /\ "begin" \in Locations
      BY <1>5, <2>4 DEF BeginWake, PassBarrier, Locations
    <3>2. ticket' = ticket
      BY <3>1 DEF TypeOK
    <3>3. ~gcMarking' /\ waiting' # 0 =>
             \/ ticket'[t] = waiting'
             \/ \E u \in Threads \ {t} : pc[u] = "begin" /\ ticket'[u] = waiting'
      BY <2>1, <2>4, <3>2 DEF SleepersWait
    <3> QED  BY <2>1, <2>4, <3>1, <3>2, <3>3, FallAsleep
  <2> QED  BY <2>2, <2>3, <2>4
<1>6. CASE EndArrive(t)
  <2>1. /\ pc[t] = "mark" /\ waiting' = waiting - 1
        /\ UNCHANGED <<ticket, count>>
    BY <1>6 DEF EndArrive
  <2>2. gcMarking /\ waiting \in Nat /\ t \notin asleep
    BY <2>1 DEF MarkingHolds, TypeOK, SleepersWait
  <2>3. CASE waiting = 1
    <3>1. /\ sweepLock' = TRUE /\ asleep' = asleep \ OnMarkCond
          /\ Goto(t, "bigSweep") /\ "bigSweep" \in Locations
      BY <1>6, <2>3 DEF EndArrive, Locations
    <3> QED  BY <2>1, <2>2, <2>3, <3>1, MarkCondWoken
  <2>4. CASE waiting # 1
    <3>1. /\ asleep' = asleep \cup {t} /\ Goto(t, "end") /\ "end" \in Locations
          /\ UNCHANGED <<sweepLock, gcMarking, gcRunning>>
      BY <1>6, <2>4 DEF EndArrive, Locations
    <3>2. waiting' # 0
      BY <2>1, <2>2, <2>4
    <3> QED  BY <2>1, <2>2, <3>1, <3>2, FallAsleep
  <2> QED  BY <2>3, <2>4
<1>7. CASE EndWake(t)
  <2>1. /\ pc[t] = "end" /\ t \notin asleep
        /\ UNCHANGED <<ticket, count, waiting, gcRunning, gcMarking, sweepLock>>
    BY <1>7 DEF EndWake, flags
  <2>2. CASE waiting = 0
    <3>1. asleep' = asleep /\ Goto(t, "sweep") /\ "sweep" \in Locations
      BY <1>7, <2>2 DEF EndWake, Locations
    <3> QED  BY <2>1, <3>1, SleepOn
  <2>3. CASE waiting # 0
    <3>1. asleep' = asleep \cup {t} /\ pc' = pc
      BY <1>7, <2>3 DEF EndWake
    <3>2. Goto(t, "end") /\ "end" \in Locations
      BY <2>1, <3>1 DEF Goto, Locations, TypeOK
    <3> QED  BY <2>1, <2>3, <3>1, <3>2, FallAsleep, LastStays
  <2> QED  BY <2>2, <2>3
<1>8. CASE ReleaseSweep(t)
  <2>1. /\ pc[t] = "release" /\ asleep' = asleep \ OnSweepCond
        /\ UNCHANGED <<ticket, count, waiting, gcRunning, gcMarking>>
    BY <1>8 DEF ReleaseSweep
  <2>2. PICK w \in {"mutator", "stuck"} : Goto(t, w)
    BY <1>8 DEF ReleaseSweep, Home
  <2>3. /\ w \in Locations /\ t \notin asleep
    BY <2>1, <2>2 DEF Locations, SleepersWait
  <2>4. \A u \in Threads \ {t} : pc'[u] = pc[u]
    BY <2>2, <2>3, Moves
  <2>5. ASSUME NEW u \in asleep'
        PROVE  u \in asleep /\ pc'[u] = pc[u] /\ pc[u] # "collect"
    BY <2>1, <2>3, <2>4, <2>5 DEF OnSweepCond, TypeOK
  <2>6. ASSUME ~gcMarking', waiting' # 0
        PROVE  \E u \in Threads : pc'[u] = "begin" /\ ticket'[u] = waiting'
    BY <2>1, <2>4, <2>6, LastStays
  <2> QED  BY <2>1, <2>5, <2>6 DEF SleepersWait
<1>9. CASE \/ ExplicitCollect(t) \/ JoinAtSafepoint(t) \/ StartAtSafepoint(t)
           \/ BigSweep(t) \/ Sweep(t) \/ EndGc(t) \/ StuckBegin(t) \/ NannyStart(t)
           \/ NannyPoll(t) \/ NannySafepoint(t)
  <2>1. /\ asleep' = asleep
        /\ UNCHANGED <<ticket, count, waiting, gcRunning, gcMarking, sweepLock>>
        /\ pc[t] \in {"mutator", "stuckWait", "stuck", "nanny", "bigSweep", "sweep", "endGc"}
    BY <1>9 DEF ExplicitCollect, JoinAtSafepoint, StartAtSafepoint, BigSweep, Sweep, EndGc,
                StuckBegin, NannyStart, NannyPoll, NannySafepoint, flags
  <2>2. PICK w \in {"collect", "release", "mutator", "stuck", "stuckWait", "nanny", "sweep", "endGc"} : Goto(t, w)
    BY <1>9 DEF ExplicitCollect, JoinAtSafepoint, StartAtSafepoint, BigSweep, Sweep, EndGc,
                StuckBegin, NannyStart, NannyPoll, NannySafepoint, Home
  <2>3. w \in Locations /\ t \notin asleep
    BY <2>1, <2>2 DEF Locations, SleepersWait
  <2> QED  BY <2>1, <2>2, <2>3, SleepOn
<1>10. CASE StuckEnd(t)
  BY <1>10 DEF StuckEnd, flags, SleepersWait
<1> QED  BY <1>1, <1>2, <1>3, <1>4, <1>5, <1>6, <1>7, <1>8, <1>9, <1>10 DEF Runtime, Program

\* A sleeper is only ever waiting for something another thread still has to
\* do, and a barrier that unregistering threads complete has somebody awake
\* to open it, for any number of threads.
THEOREM WakeupsArrive == Spec => []NoLostWakeup
<1>1. Init => SleepersWait
  BY DEF Init, SleepersWait
<1>2. WakeupInv /\ [Next]_vars => SleepersWait'
  <2>1. ASSUME WakeupInv, Next
        PROVE  SleepersWait'
    BY <2>1, SleepersStep DEF Next
  <2>2. ASSUME WakeupInv, UNCHANGED vars
        PROVE  SleepersWait'
    BY <2>2 DEF WakeupInv, SleepersWait, vars, flags
  <2> QED  BY <2>1, <2>2
<1>3. WakeupInv => NoLostWakeup
  <2> SUFFICES ASSUME WakeupInv, NEW t \in asleep
               PROVE  /\ pc[t] = "begin" =>
                            /\ ~gcMarking
                            /\ \/ waiting # count
                               \/ \E u \in Threads \ asleep : pc[u] = "begin" /\ ticket[u] = count
                      /\ pc[t] = "end" => waiting # 0
                      /\ pc[t] = "regWait" => gcRunning
                      /\ pc[t] = "collect" => sweepLock
    BY DEF NoLostWakeup
  <2>1. ASSUME pc[t] = "begin", waiting = count
        PROVE  \E u \in Threads \ asleep : pc[u] = "begin" /\ ticket[u] = count
    <3>1. t \in Inside /\ ~gcMarking
      BY <2>1 DEF WakeupInv, HandshakeInv, TypeOK, SleepersWait, Inside
    <3>2. waiting # 0
      BY <3>1, FiniteCounts, FS_EmptySet DEF WakeupInv, HandshakeInv, CountersExact
    <3>3. PICK u \in Threads : pc[u] = "begin" /\ ticket[u] = waiting
      BY <3>1, <3>2 DEF WakeupInv, SleepersWait
    <3>4. u \notin asleep
      BY <2>1, <3>3 DEF WakeupInv, SleepersWait
    <3> QED  BY <2>1, <3>3, <3>4
  <2> QED  BY <2>1 DEF WakeupInv, SleepersWait
<1> QED  BY <1>1, <1>2, <1>3, Invariant, PTL DEF Spec, WakeupInv
=======================================================================
