---------------------- MODULE ParallelMarkProofs ----------------------
(* Proofs that a marking phase evacuates an object once, marks all that  *)
(* the program reaches and never makes a pointer lead to another object, *)
(* for any number of threads, any roots and any object graph.            *)
EXTENDS ParallelMark, ListLemmas, FiniteSetTheorems, TLAPS

-----------------------------------------------------------------------
(* Addresses, slots and jobs.                                            *)

LEMMA AddrParts ==
    /\ \A a \in Addr : a.obj \in Objects /\ a.at \in Threads \cup {Home} /\ a = At(a.obj, a.at)
    /\ \A o, place : At(o, place).obj = o /\ At(o, place).at = place
    /\ \A o \in Objects : \A place \in Threads \cup {Home} : At(o, place) \in Addr
    /\ Null \notin Addr
BY RootsAssumption DEF Addr, At

LEMMA BodyParts ==
    /\ 1 \in Words
    /\ \A a \in Addr, i \in Words : <<a, i>> \in Bodies /\ <<a, i>> \in Slots /\ <<a, i>> \notin Roots
    /\ \A s \in Bodies : s[1] \in Addr /\ s[2] \in Words /\ s = <<s[1], s[2]>>
    /\ \A a \in Addr : FirstWord(a) \in Bodies /\ FirstWord(a) \in Slots /\ FirstWord(a) \notin Roots
    /\ \A a, b : FirstWord(a) = FirstWord(b) => a = b
    /\ Null \notin Slots
<1>1. 1 \in Words
  <2>1. Cardinality(Words) \in Nat /\ Cardinality(Words) # 0
    BY WordsAssumption, FS_CardinalityType, FS_EmptySet
  <2> QED  BY <2>1, WordsAssumption
<1> QED  BY <1>1, RootsAssumption DEF Bodies, Slots, FirstWord

LEMMA KnownSlots ==
    ASSUME MarkTypeOK
    PROVE  /\ Known \subseteq Slots
           /\ \A a \in Addr, i \in Words : <<a, i>> \in Known <=> a \in marked
           /\ \A s \in Known : s \in Roots \/ (s \in Bodies /\ s[1] \in marked)
BY BodyParts, RootsAssumption DEF Known, WordsOf, MarkTypeOK, Slots, Bodies

LEMMA JobParts ==
    /\ \A s, u : Mark(s) = Mark(u) => s = u
    /\ \A a, b : Scan(a) = Scan(b) => a = b
    /\ \A s, a : Mark(s) # Scan(a)
    /\ \A s \in Slots : Mark(s) \in Jobs
    /\ \A a \in Addr : Scan(a) \in Jobs
    /\ \A j \in Jobs : j.kind = "mark" => j.what \in Slots /\ j = Mark(j.what)
    /\ \A j \in Jobs : j.kind = "scan" => j.what \in Addr /\ j = Scan(j.what)
    /\ \A j \in Jobs : j.kind \in {"mark", "scan"}
<1>1. \A s : Mark(s).what = s /\ Mark(s).kind = "mark" /\ Scan(s).what = s /\ Scan(s).kind = "scan"
  BY DEF Mark, Scan
<1>2. \A j \in Jobs : \/ \E s \in Slots : j = Mark(s)
                      \/ \E a \in Addr : j = Scan(a)
  BY DEF Jobs
<1>3. (\A s \in Slots : Mark(s) \in Jobs) /\ (\A a \in Addr : Scan(a) \in Jobs)
  BY DEF Jobs
<1>4. (\A s, u : Mark(s) = Mark(u) => s = u) /\ (\A a, b : Scan(a) = Scan(b) => a = b)
  BY <1>1
<1>5. \A s, a : Mark(s) # Scan(a)
  <2> TAKE s, a
  <2>1. Mark(s).kind = "mark" /\ Scan(a).kind = "scan"
    BY <1>1
  <2> QED  BY <2>1
<1>6. ASSUME NEW j \in Jobs
      PROVE  /\ j.kind = "mark" => j.what \in Slots /\ j = Mark(j.what)
             /\ j.kind = "scan" => j.what \in Addr /\ j = Scan(j.what)
             /\ j.kind \in {"mark", "scan"}
  BY <1>1, <1>2
<1> QED  BY <1>3, <1>4, <1>5, <1>6

\* mark_all queues a job for each of its slots.
LEMMA MarkAllJobs ==
    ASSUME NEW S \in SUBSET Slots, NEW slots \in Seq(S)
    PROVE  /\ MarkAll(slots) \in Seq(Jobs)
           /\ Range(MarkAll(slots)) = {Mark(s) : s \in Range(slots)}
<1>1. DOMAIN slots = 1..Len(slots) /\ Len(slots) \in Nat /\ \A i \in 1..Len(slots) : slots[i] \in Slots
  OBVIOUS
<1>2. MarkAll(slots) = [i \in 1..Len(slots) |-> Mark(slots[i])]
  BY <1>1 DEF MarkAll
<1>3. MarkAll(slots) \in Seq(Jobs)
  BY <1>1, <1>2, JobParts
<1>4. Range(MarkAll(slots)) = {Mark(s) : s \in Range(slots)}
  BY <1>1, <1>2 DEF Range
<1> QED  BY <1>3, <1>4

LEMMA BodyJobs ==
    ASSUME NEW a \in Addr
    PROVE  LET words == [i \in Words |-> <<a, i>>] IN
           /\ MarkAll(words) \in Seq(Jobs)
           /\ Range(MarkAll(words)) = {Mark(s) : s \in WordsOf({a})}
<1> DEFINE words == [i \in Words |-> <<a, i>>]
<1>1. Cardinality(Words) \in Nat /\ Words = 1..Cardinality(Words)
  BY WordsAssumption, FS_CardinalityType
<1>2. words \in Seq(Slots)
  <2>1. \A i \in 1..Cardinality(Words) : <<a, i>> \in Slots
    BY <1>1, BodyParts
  <2>2. words = [i \in 1..Cardinality(Words) |-> <<a, i>>]
    BY <1>1
  <2> HIDE DEF words
  <2> QED  BY <1>1, <2>1, <2>2
<1>3. Range(words) = WordsOf({a})
  BY DEF Range, WordsOf
<1> HIDE DEF words
<1>4. MarkAll(words) \in Seq(Jobs) /\ Range(MarkAll(words)) = {Mark(s) : s \in WordsOf({a})}
  BY <1>2, <1>3, MarkAllJobs
<1> QED  BY <1>4 DEF words

-----------------------------------------------------------------------
(* Steps of one thread.                                                  *)

LEMMA Moves ==
    ASSUME MarkTypeOK, NEW t \in Threads, NEW where, Goto(t, where)
    PROVE  /\ pc'[t] = where /\ \A u \in Threads \ {t} : pc'[u] = pc[u]
           /\ where \in Locations => pc' \in [Threads -> Locations]
BY DEF MarkTypeOK, Goto

LEMMA NewTask ==
    ASSUME MarkTypeOK, NEW t \in Threads, NEW k, task' = [task EXCEPT ![t] = k]
    PROVE  task'[t] = k /\ \A u \in Threads \ {t} : task'[u] = task[u]
BY DEF MarkTypeOK

\* A thread adds to the end of its queue; the others' are left alone.
LEMMA Pushes ==
    ASSUME MarkTypeOK, NEW t \in Threads, NEW jobs \in Seq(Jobs), Push(t, jobs)
    PROVE  /\ queue' \in [Threads -> Seq(Jobs)]
           /\ Queued' = Queued \cup Range(jobs)
           /\ \A u \in Threads \ {t} : queue'[u] = queue[u]
<1>1. queue' = [queue EXCEPT ![t] = queue[t] \o jobs] /\ queue \in [Threads -> Seq(Jobs)]
  BY DEF Push, MarkTypeOK
<1>2. queue[t] \o jobs \in Seq(Jobs) /\ Range(queue[t] \o jobs) = Range(queue[t]) \cup Range(jobs)
  BY <1>1, RangeConcat
<1>3. /\ queue' \in [Threads -> Seq(Jobs)] /\ \A u \in Threads \ {t} : queue'[u] = queue[u]
      /\ queue'[t] = queue[t] \o jobs
  BY <1>1, <1>2
<1>4. Queued' = Queued \cup Range(jobs)
  BY <1>2, <1>3 DEF Queued
<1> QED  BY <1>3, <1>4

\* A thread takes the last job of its queue and adds others in its place.
LEMMA Pops ==
    ASSUME MarkTypeOK, NEW t \in Threads, queue[t] # <<>>, NEW jobs \in Seq(Jobs),
           queue' = [queue EXCEPT ![t] = Front(@) \o jobs]
    PROVE  /\ queue' \in [Threads -> Seq(Jobs)] /\ Last(queue[t]) \in Jobs /\ Last(queue[t]) \in Queued
           /\ Queued' \subseteq Queued \cup Range(jobs)
           /\ Range(jobs) \subseteq Queued'
           /\ Queued \subseteq Queued' \cup {Last(queue[t])}
           /\ \A u \in Threads \ {t} : queue'[u] = queue[u]
<1>1. queue' = [queue EXCEPT ![t] = Front(queue[t]) \o jobs] /\ queue \in [Threads -> Seq(Jobs)]
  BY DEF MarkTypeOK
<1>2. /\ Front(queue[t]) \in Seq(Jobs) /\ Last(queue[t]) \in Jobs
      /\ Range(queue[t]) = Range(Front(queue[t])) \cup {Last(queue[t])}
  BY <1>1, RangeLast
<1>3. /\ Front(queue[t]) \o jobs \in Seq(Jobs)
      /\ Range(Front(queue[t]) \o jobs) = Range(Front(queue[t])) \cup Range(jobs)
  BY <1>2, RangeConcat
<1>4. /\ queue' \in [Threads -> Seq(Jobs)] /\ \A u \in Threads \ {t} : queue'[u] = queue[u]
      /\ queue'[t] = Front(queue[t]) \o jobs
  BY <1>1, <1>3
<1>5. /\ \A j : j \in Queued <=> \E u \in Threads : j \in Range(queue[u])
      /\ \A j : j \in Queued' <=> \E u \in Threads : j \in Range(queue'[u])
  BY DEF Queued
<1>6. Range(queue'[t]) = Range(Front(queue[t])) \cup Range(jobs)
  BY <1>3, <1>4
<1>7. Queued' \subseteq Queued \cup Range(jobs) /\ Range(jobs) \subseteq Queued'
  BY <1>2, <1>4, <1>5, <1>6
<1>8. Queued \subseteq Queued' \cup {Last(queue[t])}
  BY <1>2, <1>4, <1>5, <1>6
<1>9. Last(queue[t]) \in Queued
  BY <1>2, <1>5
<1> QED  BY <1>2, <1>4, <1>7, <1>8, <1>9

\* What only t changes.
Alone(t) == \A u \in Threads \ {t} : pc'[u] = pc[u] /\ task'[u] = task[u]
Evacuating == {"copy", "correct", "publish"}

\* A slot somebody will deal with stays so, if t does not drop the slot it
\* works on or the copy it made.
LEMMA PendingKept ==
    ASSUME MarkTypeOK, NEW t \in Threads, NEW s \in Slots, Pending(s), Alone(t),
           Queued \subseteq Queued', marked \subseteq marked', globals' = globals,
           pc[t] # "roots",
           pc[t] \in AtWork /\ task[t].slot = s => pc'[t] \in AtWork /\ task'[t].slot = s,
           pc[t] \in {"correct", "publish"} =>
              \/ pc'[t] \in {"correct", "publish"} /\ task'[t] = task[t]
              \/ Scan(At(task[t].ptr.obj, t)) \in Queued'
    PROVE  Pending(s)'
<1>1. CASE Mark(s) \in Queued
  BY <1>1 DEF Pending
<1>2. CASE \E u \in Threads : pc[u] \in AtWork /\ task[u].slot = s
  BY <1>2 DEF Pending, Alone
<1>3. CASE \E u \in Threads : pc[u] = "roots" /\ s \in Range(RootsOf[u])
  BY <1>3 DEF Pending, Alone
<1>4. CASE ~globals /\ s \in Range(GlobalRoots)
  BY <1>4 DEF Pending
<1>5. CASE \E a \in marked : s \in WordsOf({a}) /\
             \/ Scan(a) \in Queued
             \/ \E u \in Threads : pc[u] \in {"correct", "publish"} /\ a = At(task[u].ptr.obj, u)
  <2>1. PICK a \in marked : /\ s \in WordsOf({a})
                            /\ \/ Scan(a) \in Queued
                               \/ \E u \in Threads : /\ pc[u] \in {"correct", "publish"}
                                                     /\ a = At(task[u].ptr.obj, u)
    BY <1>5
  <2>2. a \in marked' /\ s \in WordsOf({a})
    BY <2>1
  <2>3. \/ Scan(a) \in Queued'
        \/ \E u \in Threads : pc'[u] \in {"correct", "publish"} /\ a = At(task'[u].ptr.obj, u)
    BY <2>1 DEF Alone
  <2> QED  BY <2>2, <2>3 DEF Pending
<1> QED  BY <1>1, <1>2, <1>3, <1>4, <1>5 DEF Pending

\* A step that touches neither memory nor marks, of a thread that evacuates
\* nothing.
LEMMA Quiet ==
    ASSUME MarkInv, NEW t \in Threads, UNCHANGED <<mem, movers, header, marked>>, Alone(t),
           pc[t] \notin Evacuating, pc'[t] \notin Evacuating,
           pc'[t] \in AtWork => StillTrue(t)'
    PROVE  /\ EvacuationInv' /\ PlacesInv' /\ TaskInv' /\ Known' = Known
           /\ \A s : Settled(s)' = Settled(s)
<1>1. Known' = Known /\ \A s : Settled(s)' = Settled(s)
  BY DEF Known, Settled
<1>2. \A u \in Threads, o \in Objects : Evacuates(u, o)' = Evacuates(u, o) /\ Copier(u, o)' = Copier(u, o)
  BY DEF Evacuates, Copier, Alone, Evacuating
<1>3. EvacuationInv'
  <2>1. ASSUME NEW u \in Threads
        PROVE  /\ pc'[u] = "copy" => At(task'[u].ptr.obj, u) \notin marked'
               /\ pc'[u] \in {"correct", "publish"} => At(task'[u].ptr.obj, u) \in marked'
    BY DEF MarkInv, EvacuationInv, Alone, Evacuating
  <2> QED  BY <1>2, <2>1 DEF MarkInv, EvacuationInv
<1>4. PlacesInv'
  BY DEF MarkInv, PlacesInv, Evacuated
<1>5. TaskInv'
  <2>1. ASSUME NEW u \in Threads, u # t, pc'[u] \in AtWork PROVE StillTrue(u)'
    <3>1. pc'[u] = pc[u] /\ task'[u] = task[u] /\ StillTrue(u)
      BY <2>1 DEF MarkInv, TaskInv, Alone
    <3> QED  BY <1>1, <3>1 DEF StillTrue, Evacuated, MovedTo
  <2> QED  BY <2>1 DEF TaskInv
<1> QED  BY <1>1, <1>3, <1>4, <1>5

-----------------------------------------------------------------------
(* Roots and queues.                                                     *)

LEMMA PushRootsKeeps == ASSUME MarkInv, NEW t \in Threads, PushRoots(t) PROVE MarkInv'
<1> DEFINE jobs == IF globals THEN MarkAll(RootsOf[t])
                              ELSE MarkAll(RootsOf[t]) \o MarkAll(GlobalRoots)
<1>1. /\ pc[t] = "roots" /\ Push(t, jobs) /\ globals' = TRUE /\ Goto(t, "steal")
      /\ UNCHANGED <<mem, movers, header, marked, task>> /\ MarkTypeOK
  BY DEF PushRoots, MarkInv
<1>2. Roots \in SUBSET Slots /\ RootsOf[t] \in Seq(Roots) /\ GlobalRoots \in Seq(Roots)
  BY RootsAssumption DEF Slots
<1>3. /\ MarkAll(RootsOf[t]) \in Seq(Jobs) /\ MarkAll(GlobalRoots) \in Seq(Jobs)
      /\ Range(MarkAll(RootsOf[t])) = {Mark(s) : s \in Range(RootsOf[t])}
      /\ Range(MarkAll(GlobalRoots)) = {Mark(s) : s \in Range(GlobalRoots)}
  BY <1>2, MarkAllJobs
<1>4. /\ jobs \in Seq(Jobs)
      /\ \A s \in Range(RootsOf[t]) : Mark(s) \in Range(jobs)
      /\ ~globals => \A s \in Range(GlobalRoots) : Mark(s) \in Range(jobs)
      /\ \A j \in Range(jobs) : \E s \in Roots : j = Mark(s)
  <2>1. CASE globals
    BY <1>2, <1>3, <2>1, InRange
  <2>2. CASE ~globals
    <3>1. jobs \in Seq(Jobs) /\ Range(jobs) = Range(MarkAll(RootsOf[t])) \cup Range(MarkAll(GlobalRoots))
      BY <1>3, <2>2, RangeConcat
    <3> HIDE DEF jobs
    <3> QED  BY <1>2, <1>3, <2>2, <3>1, InRange
  <2> QED  BY <2>1, <2>2
<1> HIDE DEF jobs
<1>5. /\ queue' \in [Threads -> Seq(Jobs)] /\ Queued' = Queued \cup Range(jobs)
      /\ \A u \in Threads \ {t} : queue'[u] = queue[u]
  BY <1>1, <1>4, Pushes
<1>6. /\ pc'[t] = "steal" /\ pc' \in [Threads -> Locations] /\ Alone(t)
      /\ \A u \in Threads \ {t} : pc'[u] = pc[u]
  BY <1>1, Moves DEF Locations, Alone
<1>7. MarkTypeOK'
  BY <1>1, <1>5, <1>6 DEF MarkTypeOK
<1>8. /\ EvacuationInv' /\ PlacesInv' /\ TaskInv' /\ Known' = Known
      /\ \A s : Settled(s)' = Settled(s)
  BY <1>1, <1>6, Quiet DEF Evacuating, AtWork
<1>9. JobsInv'
  <2>1. ASSUME NEW s \in Slots, Mark(s) \in Queued' PROVE s \in Known'
    BY <1>4, <1>5, <1>8, <2>1, JobParts DEF MarkInv, JobsInv, Known
  <2>2. ASSUME NEW a \in Addr, Scan(a) \in Queued' PROVE a \in marked'
    BY <1>1, <1>4, <1>5, <2>2, JobParts DEF MarkInv, JobsInv
  <2>3. ASSUME NEW u \in Threads, pc'[u] = "done" PROVE queue'[u] = <<>>
    BY <1>5, <1>6, <2>3 DEF MarkInv, JobsInv
  <2> QED  BY <2>1, <2>2, <2>3 DEF JobsInv
<1>10. NothingForgotten'
  <2>1. ASSUME NEW s \in Known, Pending(s) PROVE Pending(s)'
    <3>1. CASE Mark(s) \in Queued
      BY <1>5, <3>1 DEF Pending
    <3>2. CASE \E u \in Threads : pc[u] \in AtWork /\ task[u].slot = s
      BY <1>1, <1>6, <3>2 DEF Pending, AtWork
    <3>3. CASE \E u \in Threads : pc[u] = "roots" /\ s \in Range(RootsOf[u])
      BY <1>4, <1>5, <1>6, <3>3 DEF Pending
    <3>4. CASE ~globals /\ s \in Range(GlobalRoots)
      BY <1>4, <1>5, <3>4 DEF Pending
    <3>5. CASE \E a \in marked : s \in WordsOf({a}) /\
                 \/ Scan(a) \in Queued
                 \/ \E u \in Threads : pc[u] \in {"correct", "publish"} /\ a = At(task[u].ptr.obj, u)
      BY <1>1, <1>5, <1>6, <3>5 DEF Pending
    <3> QED  BY <2>1, <3>1, <3>2, <3>3, <3>4, <3>5 DEF Pending
  <2> QED  BY <1>1, <1>8, <2>1 DEF MarkInv, NothingForgotten
<1> QED  BY <1>7, <1>8, <1>9, <1>10 DEF MarkInv

LEMMA StealKeeps == ASSUME MarkInv, NEW t \in Threads, NEW v \in Threads, Steal(t, v) PROVE MarkInv'
<1>1. /\ pc[t] = "steal" /\ UNCHANGED <<mem, movers, header, marked, globals, task>> /\ MarkTypeOK
      /\ \E where \in {"steal", "drain"} : Goto(t, where)
  BY DEF Steal, MarkInv
<1>2. /\ pc'[t] \in {"steal", "drain"} /\ pc' \in [Threads -> Locations] /\ Alone(t)
      /\ \A u \in Threads \ {t} : pc'[u] = pc[u]
  BY <1>1, Moves DEF Locations, Alone
<1>3. /\ queue' \in [Threads -> Seq(Jobs)] /\ Queued' = Queued
      /\ \A u \in Threads : queue[u] = <<>> /\ u # t => queue'[u] = <<>>
  <2> DEFINE half == (Len(queue[v]) + 1) \div 2
             kept == SubSeq(queue[v], half + 1, Len(queue[v]))
             taken == SubSeq(queue[v], 1, half)
  <2>1. CASE /\ v # t /\ queue[v] # <<>>
             /\ queue' = [queue EXCEPT ![v] = kept, ![t] = queue[t] \o taken]
    <3>1. queue \in [Threads -> Seq(Jobs)] /\ Len(queue[v]) \in Nat
      BY <1>1 DEF MarkTypeOK
    <3>2. half \in 0..Len(queue[v])
      BY <2>1, <3>1
    <3> HIDE DEF half
    <3>3. /\ kept \in Seq(Jobs) /\ taken \in Seq(Jobs)
          /\ Range(queue[v]) = Range(taken) \cup Range(kept)
      BY <3>1, <3>2, RangeSplit
    <3> HIDE DEF kept, taken
    <3>4. /\ queue[t] \o taken \in Seq(Jobs)
          /\ Range(queue[t] \o taken) = Range(queue[t]) \cup Range(taken)
      BY <3>1, <3>3, RangeConcat
    <3>5. /\ queue' \in [Threads -> Seq(Jobs)]
          /\ queue'[v] = kept /\ queue'[t] = queue[t] \o taken
          /\ \A u \in Threads \ {t, v} : queue'[u] = queue[u]
      BY <2>1, <3>1, <3>3, <3>4
    <3>6. /\ \A j : j \in Queued <=> \E u \in Threads : j \in Range(queue[u])
          /\ \A j : j \in Queued' <=> \E u \in Threads : j \in Range(queue'[u])
      BY DEF Queued
    <3>7. Queued \subseteq Queued' /\ Queued' \subseteq Queued
      <4>1. ASSUME NEW j, NEW u \in Threads, j \in Range(queue[u])
            PROVE  \E w \in Threads : j \in Range(queue'[w])
        BY <3>3, <3>4, <3>5, <4>1
      <4>2. ASSUME NEW j, NEW u \in Threads, j \in Range(queue'[u])
            PROVE  \E w \in Threads : j \in Range(queue[w])
        BY <2>1, <3>3, <3>4, <3>5, <4>2
      <4> QED  BY <3>6, <4>1, <4>2
    <3> QED  BY <2>1, <3>5, <3>7
  <2>2. CASE queue' = queue
    BY <1>1, <2>2 DEF MarkTypeOK, Queued
  <2> QED  BY <2>1, <2>2 DEF Steal
<1>4. MarkTypeOK'
  BY <1>1, <1>2, <1>3 DEF MarkTypeOK
<1>5. /\ EvacuationInv' /\ PlacesInv' /\ TaskInv' /\ Known' = Known
      /\ \A s : Settled(s)' = Settled(s)
  BY <1>1, <1>2, Quiet DEF Evacuating, AtWork
<1>6. JobsInv'
  BY <1>1, <1>2, <1>3, <1>5 DEF MarkInv, JobsInv
<1>7. NothingForgotten'
  <2>1. ASSUME NEW s \in Known, Pending(s) PROVE Pending(s)'
    BY <1>1, <1>2, <1>3, <2>1, PendingKept, KnownSlots DEF AtWork
  <2> QED  BY <1>1, <1>2, <1>5, <2>1 DEF MarkInv, NothingForgotten
<1> QED  BY <1>4, <1>5, <1>6, <1>7 DEF MarkInv

LEMMA PopMarkKeeps == ASSUME MarkInv, NEW t \in Threads, PopMark(t) PROVE MarkInv'
<1>1. /\ pc[t] = "drain" /\ queue[t] # <<>> /\ Last(queue[t]).kind = "mark" /\ MarkTypeOK
      /\ queue' = [queue EXCEPT ![t] = Front(@)]
      /\ UNCHANGED <<mem, movers, header, marked, globals, empties>>
  BY DEF PopMark, MarkInv
<1>2. queue' = [queue EXCEPT ![t] = Front(@) \o <<>>]
  <2>1. Front(queue[t]) \in Seq(Jobs)
    BY <1>1, RangeLast DEF MarkTypeOK
  <2> QED  BY <1>1, <2>1 DEF MarkTypeOK
<1>3. <<>> \in Seq(Jobs) /\ Range(<<>>) = {}
  BY DEF Range
<1>4. /\ queue' \in [Threads -> Seq(Jobs)] /\ Last(queue[t]) \in Jobs /\ Last(queue[t]) \in Queued
      /\ Queued' \subseteq Queued /\ Queued \subseteq Queued' \cup {Last(queue[t])}
      /\ \A u \in Threads \ {t} : queue'[u] = queue[u]
  BY <1>1, <1>2, <1>3, Pops
<1>5. PICK slot \in Slots : Last(queue[t]) = Mark(slot) /\ Last(queue[t]).what = slot
  BY <1>1, <1>4, JobParts
<1>6. slot \in Known /\ mem[slot] \in Values
  BY <1>1, <1>4, <1>5 DEF MarkInv, JobsInv, MarkTypeOK
<1>7. /\ pc' \in [Threads -> Locations] /\ Alone(t)
      /\ \A u \in Threads \ {t} : pc'[u] = pc[u]
      /\ task' \in [Threads -> Tasks]
      /\ \/ mem[slot] = Null /\ pc'[t] = "drain"
         \/ /\ mem[slot] # Null /\ task'[t].slot = slot /\ task'[t].ptr = mem[slot]
            /\ pc'[t] \in {"try", "check"} /\ (pc'[t] = "try" <=> Evacuated(mem[slot]))
  <2>1. CASE mem[slot] = Null /\ Return(t)
    <3>1. Goto(t, "drain") /\ task' = [task EXCEPT ![t] = Idle]
      BY <2>1 DEF Return
    <3>2. Idle \in Tasks
      BY DEF Idle, Values, Tasks
    <3> QED  BY <1>1, <2>1, <3>1, <3>2, Moves, NewTask DEF Alone, Locations, MarkTypeOK
  <2>2. CASE /\ mem[slot] # Null
             /\ task' = [task EXCEPT ![t].slot = slot, ![t].ptr = mem[slot]]
             /\ Goto(t, IF mem[slot].at = Home /\ mem[slot].obj \in movers THEN "try" ELSE "check")
    <3>1. PICK where \in {"try", "check"} :
            Goto(t, where) /\ (where = "try" <=> Evacuated(mem[slot]))
      BY <2>2 DEF Evacuated
    <3>2. /\ task' \in [Threads -> Tasks]
          /\ task'[t].slot = slot /\ task'[t].ptr = mem[slot]
          /\ \A u \in Threads \ {t} : task'[u] = task[u]
      BY <1>1, <1>5, <1>6, <2>2 DEF MarkTypeOK, Tasks
    <3> QED  BY <1>1, <2>2, <3>1, <3>2, Moves DEF Alone, Locations
  <2> QED  BY <1>5, <2>1, <2>2 DEF PopMark
<1>8. MarkTypeOK'
  BY <1>1, <1>4, <1>7 DEF MarkTypeOK
<1>9. ASSUME pc'[t] \in AtWork PROVE StillTrue(t)'
  <2>1. /\ mem'[slot] # Null /\ task'[t].slot = slot /\ task'[t].ptr = mem'[slot]
        /\ pc'[t] \in {"try", "check"} /\ (pc'[t] = "try" <=> Evacuated(task[t].ptr)')
    BY <1>1, <1>7, <1>9 DEF AtWork, Evacuated
  <2>2. slot \in Known' /\ mem'[slot] \in Addr
    BY <1>1, <1>6, <2>1 DEF Known, Values
  <2> QED  BY <2>1, <2>2 DEF StillTrue
<1>10. /\ EvacuationInv' /\ PlacesInv' /\ TaskInv' /\ Known' = Known
       /\ \A s : Settled(s)' = Settled(s)
  BY <1>1, <1>7, <1>9, Quiet DEF Evacuating
<1>11. JobsInv'
  BY <1>1, <1>4, <1>7, <1>10 DEF MarkInv, JobsInv
<1>12. NothingForgotten'
  <2>1. ASSUME NEW s \in Known, Pending(s), ~Settled(s) PROVE Pending(s)'
    <3>1. CASE s = slot
      BY <1>7, <2>1, <3>1 DEF Pending, Settled, AtWork
    <3>2. CASE s # slot /\ Mark(s) \in Queued
      <4>1. Mark(s) \in Queued'
        BY <1>4, <1>5, <3>2, JobParts
      <4> QED  BY <4>1 DEF Pending
    <3>3. CASE \E u \in Threads : pc[u] \in AtWork /\ task[u].slot = s
      BY <1>1, <1>7, <3>3 DEF Pending, Alone, AtWork
    <3>4. CASE \E u \in Threads : pc[u] = "roots" /\ s \in Range(RootsOf[u])
      BY <1>1, <1>7, <3>4 DEF Pending
    <3>5. CASE ~globals /\ s \in Range(GlobalRoots)
      BY <1>1, <3>5 DEF Pending
    <3>6. CASE \E a \in marked : s \in WordsOf({a}) /\
                 \/ Scan(a) \in Queued
                 \/ \E u \in Threads : pc[u] \in {"correct", "publish"} /\ a = At(task[u].ptr.obj, u)
      <4>1. \A a : Scan(a) \in Queued => Scan(a) \in Queued'
        BY <1>4, <1>5, JobParts
      <4>2. \A u \in Threads : pc[u] \in {"correct", "publish"} =>
                pc'[u] \in {"correct", "publish"} /\ task'[u] = task[u]
        BY <1>1, <1>7 DEF Alone
      <4> QED  BY <1>1, <3>6, <4>1, <4>2 DEF Pending
    <3> QED  BY <2>1, <3>1, <3>2, <3>3, <3>4, <3>5, <3>6 DEF Pending
  <2> QED  BY <1>1, <1>10, <2>1 DEF MarkInv, NothingForgotten
<1> QED  BY <1>8, <1>10, <1>11, <1>12 DEF MarkInv

LEMMA PopScanKeeps == ASSUME MarkInv, NEW t \in Threads, PopScan(t) PROVE MarkInv'
<1>1. /\ pc[t] = "drain" /\ queue[t] # <<>> /\ Last(queue[t]).kind = "scan" /\ MarkTypeOK
      /\ UNCHANGED <<mem, movers, header, marked, globals, pc, empties, task>>
  BY DEF PopScan, MarkInv
<1>2. PICK a \in Addr : Last(queue[t]) = Scan(a) /\ Last(queue[t]).what = a /\ Scan(a) \in Queued
  <2>1. queue[t] \in Seq(Jobs)
    BY <1>1 DEF MarkTypeOK
  <2>2. Last(queue[t]) \in Jobs /\ Last(queue[t]) \in Range(queue[t])
    BY <1>1, <2>1, RangeLast
  <2>3. Last(queue[t]) \in Queued
    BY <2>2 DEF Queued
  <2> QED  BY <1>1, <2>2, <2>3, JobParts
<1> DEFINE jobs == MarkAll([i \in Words |-> <<a, i>>])
<1>3. a \in marked /\ queue' = [queue EXCEPT ![t] = Front(@) \o jobs]
  <2>1. a \in marked
    BY <1>2 DEF MarkInv, JobsInv
  <2>2. a.obj \in Objects /\ ~Evacuated(a)
    BY <1>2, <2>1, AddrParts DEF MarkInv, PlacesInv
  <2>3. ~(a.at = Home /\ header[a.obj] = "forwarded")
    BY <2>2 DEF MarkInv, EvacuationInv, Evacuated
  <2> QED  BY <1>2, <2>1, <2>3 DEF PopScan
<1>4. /\ jobs \in Seq(Jobs)
      /\ \A j : j \in Range(jobs) <=> \E w \in WordsOf({a}) : j = Mark(w)
  BY <1>2, BodyJobs
<1> HIDE DEF jobs
<1>5. /\ queue' \in [Threads -> Seq(Jobs)]
      /\ Queued' \subseteq Queued \cup Range(jobs) /\ Range(jobs) \subseteq Queued'
      /\ Queued \subseteq Queued' \cup {Scan(a)}
      /\ \A u \in Threads \ {t} : queue'[u] = queue[u]
  BY <1>1, <1>2, <1>3, <1>4, Pops
<1>6. MarkTypeOK'
  BY <1>1, <1>5 DEF MarkTypeOK
<1>7. /\ EvacuationInv' /\ PlacesInv' /\ TaskInv' /\ Known' = Known
      /\ \A s : Settled(s)' = Settled(s)
  BY <1>1, Quiet DEF Evacuating, AtWork, Alone
<1>8. WordsOf({a}) \subseteq Known
  BY <1>3 DEF Known, WordsOf
<1>9. JobsInv'
  <2>1. ASSUME NEW s \in Slots, Mark(s) \in Queued' PROVE s \in Known'
    <3>1. CASE Mark(s) \in Queued
      BY <1>7, <2>1, <3>1 DEF MarkInv, JobsInv
    <3>2. CASE Mark(s) \in Range(jobs)
      <4>1. PICK u \in WordsOf({a}) : Mark(s) = Mark(u)
        BY <1>4, <3>2
      <4>2. s = u
        BY <4>1, JobParts
      <4> QED  BY <1>7, <1>8, <4>2
    <3> QED  BY <1>5, <2>1, <3>1, <3>2
  <2>2. ASSUME NEW b \in Addr, Scan(b) \in Queued' PROVE b \in marked'
    BY <1>1, <1>4, <1>5, <2>2, JobParts DEF MarkInv, JobsInv
  <2>3. ASSUME NEW u \in Threads, pc'[u] = "done" PROVE queue'[u] = <<>>
    BY <1>1, <1>5, <2>3 DEF MarkInv, JobsInv
  <2> QED  BY <2>1, <2>2, <2>3 DEF JobsInv
<1>10. NothingForgotten'
  <2>1. ASSUME NEW s \in Known, Pending(s) PROVE Pending(s)'
    <3>1. CASE s \in WordsOf({a})
      <4>1. Mark(s) \in Queued'
        BY <1>4, <1>5, <3>1
      <4> QED  BY <4>1 DEF Pending
    <3>2. CASE s \notin WordsOf({a})
      <4>1. Mark(s) \in Queued => Mark(s) \in Queued'
        BY <1>5, JobParts
      <4>2. \A b : Scan(b) \in Queued /\ s \in WordsOf({b}) => Scan(b) \in Queued'
        BY <1>5, <3>2, JobParts
      <4> QED  BY <1>1, <2>1, <4>1, <4>2 DEF Pending
    <3> QED  BY <3>1, <3>2
  <2> QED  BY <1>1, <1>7, <2>1 DEF MarkInv, NothingForgotten
<1> QED  BY <1>6, <1>7, <1>9, <1>10 DEF MarkInv

LEMMA DrainedKeeps == ASSUME MarkInv, NEW t \in Threads, Drained(t) PROVE MarkInv'
<1>1. /\ pc[t] = "drain" /\ queue[t] = <<>> /\ MarkTypeOK
      /\ UNCHANGED <<mem, movers, header, marked, globals, queue, task>>
      /\ \E where \in {"done", "steal"} : Goto(t, where)
  BY DEF Drained, MarkInv
<1>2. /\ pc'[t] \in {"done", "steal"} /\ pc' \in [Threads -> Locations] /\ Alone(t)
      /\ \A u \in Threads \ {t} : pc'[u] = pc[u]
  BY <1>1, Moves DEF Locations, Alone
<1>3. MarkTypeOK' /\ Queued' = Queued
  BY <1>1, <1>2 DEF MarkTypeOK, Queued
<1>4. /\ EvacuationInv' /\ PlacesInv' /\ TaskInv' /\ Known' = Known
      /\ \A s : Settled(s)' = Settled(s)
  BY <1>1, <1>2, Quiet DEF Evacuating, AtWork
<1>5. JobsInv'
  BY <1>1, <1>2, <1>3, <1>4 DEF MarkInv, JobsInv
<1>6. NothingForgotten'
  <2>1. ASSUME NEW s \in Known, Pending(s) PROVE Pending(s)'
    BY <1>1, <1>2, <1>3, <2>1, PendingKept, KnownSlots DEF AtWork
  <2> QED  BY <1>1, <1>2, <1>4, <2>1 DEF MarkInv, NothingForgotten
<1> QED  BY <1>3, <1>4, <1>5, <1>6 DEF MarkInv

-----------------------------------------------------------------------
(* Objects that stay, and the headers of those that do not.              *)

\* The step of t leaves the slots alone that others work on.
LEMMA TasksKept ==
    ASSUME MarkInv, NEW t \in Threads, Alone(t), UNCHANGED movers, marked \subseteq marked',
           \A s \in Known : mem'[s] = mem[s],
           \A o \in Objects : header[o] = "forwarded" => header'[o] = "forwarded",
           pc'[t] \in AtWork => StillTrue(t)'
    PROVE  TaskInv' /\ Known \subseteq Known' /\ \A s \in Known : Settled(s) => Settled(s)'
<1>1. Known \subseteq Known'
  BY DEF Known, WordsOf
<1>2. ASSUME NEW u \in Threads, u # t, pc'[u] \in AtWork PROVE StillTrue(u)'
  <2>1. pc'[u] = pc[u] /\ task'[u] = task[u] /\ StillTrue(u)
    BY <1>2 DEF MarkInv, TaskInv, Alone
  <2>2. mem'[task[u].slot] = mem[task[u].slot] /\ task[u].slot \in Known'
    BY <1>1, <2>1 DEF StillTrue
  <2>3. task[u].ptr \in Addr /\ task[u].ptr.obj \in Objects
    BY <2>1, AddrParts DEF StillTrue
  <2> QED  BY <2>1, <2>2, <2>3 DEF StillTrue, Evacuated, MovedTo
<1> QED  BY <1>1, <1>2 DEF TaskInv, Settled

LEMMA CheckMarkKeeps == ASSUME MarkInv, NEW t \in Threads, CheckMark(t) PROVE MarkInv'
<1>1. /\ pc[t] = "check" /\ MarkTypeOK /\ StillTrue(t)
      /\ UNCHANGED <<mem, movers, header, marked, globals, queue>>
      /\ \/ task[t].ptr \in marked /\ Goto(t, "drain") /\ task' = [task EXCEPT ![t] = Idle]
         \/ Goto(t, "set") /\ task' = task
  BY DEF CheckMark, Return, MarkInv, TaskInv, AtWork
<1>2. Idle \in Tasks
  BY DEF Idle, Tasks, Values
<1>3. /\ pc' \in [Threads -> Locations] /\ Alone(t) /\ task' \in [Threads -> Tasks]
      /\ \A u \in Threads \ {t} : pc'[u] = pc[u]
      /\ \/ pc'[t] = "drain" /\ Settled(task[t].slot)
         \/ pc'[t] = "set" /\ task' = task
  <2>1. CASE task[t].ptr \in marked /\ Goto(t, "drain") /\ task' = [task EXCEPT ![t] = Idle]
    <3>1. Settled(task[t].slot)
      BY <1>1, <2>1 DEF StillTrue, Settled
    <3> QED  BY <1>1, <1>2, <2>1, <3>1, Moves, NewTask DEF Alone, Locations, MarkTypeOK
  <2>2. CASE Goto(t, "set") /\ task' = task
    BY <1>1, <2>2, Moves DEF Alone, Locations, MarkTypeOK
  <2> QED  BY <1>1, <2>1, <2>2
<1>4. MarkTypeOK' /\ Queued' = Queued
  BY <1>1, <1>3 DEF MarkTypeOK, Queued
<1>5. ASSUME pc'[t] \in AtWork PROVE StillTrue(t)'
  <2>1. pc'[t] = "set" /\ task' = task
    BY <1>3, <1>5 DEF AtWork
  <2>2. Known' = Known
    BY <1>1 DEF Known
  <2> QED  BY <1>1, <2>1, <2>2 DEF StillTrue, Evacuated
<1>6. /\ EvacuationInv' /\ PlacesInv' /\ TaskInv' /\ Known' = Known
      /\ \A s : Settled(s)' = Settled(s)
  BY <1>1, <1>3, <1>5, Quiet DEF Evacuating
<1>7. JobsInv'
  BY <1>1, <1>3, <1>4, <1>6 DEF MarkInv, JobsInv
<1>8. NothingForgotten'
  <2>1. ASSUME NEW s \in Known, Pending(s), ~Settled(s) PROVE Pending(s)'
    BY <1>1, <1>3, <1>4, <2>1, PendingKept, KnownSlots DEF AtWork
  <2> QED  BY <1>1, <1>3, <1>6, <2>1 DEF MarkInv, NothingForgotten
<1> QED  BY <1>4, <1>6, <1>7, <1>8 DEF MarkInv

LEMMA LoadHeaderKeeps == ASSUME MarkInv, NEW t \in Threads, LoadHeader(t) PROVE MarkInv'
<1>1. /\ pc[t] = "try" /\ MarkTypeOK /\ StillTrue(t) /\ Goto(t, "cas")
      /\ UNCHANGED <<mem, movers, header, marked, globals, queue>>
      /\ task' = [task EXCEPT ![t].seen = header[task[t].ptr.obj]]
  BY DEF LoadHeader, MarkInv, TaskInv, AtWork
<1>2. task[t].ptr.obj \in Objects
  BY <1>1, AddrParts DEF StillTrue
<1>3. /\ task' \in [Threads -> Tasks]
      /\ task'[t].slot = task[t].slot /\ task'[t].ptr = task[t].ptr
      /\ \A u \in Threads \ {t} : task'[u] = task[u]
  BY <1>1, <1>2 DEF MarkTypeOK, Tasks
<1>4. /\ pc'[t] = "cas" /\ pc' \in [Threads -> Locations] /\ Alone(t)
      /\ \A u \in Threads \ {t} : pc'[u] = pc[u]
  BY <1>1, <1>3, Moves DEF Locations, Alone
<1>5. MarkTypeOK' /\ Queued' = Queued
  BY <1>1, <1>3, <1>4 DEF MarkTypeOK, Queued
<1>6. StillTrue(t)'
  <2>1. Known' = Known
    BY <1>1 DEF Known
  <2> QED  BY <1>1, <1>3, <1>4, <2>1 DEF StillTrue, Evacuated, MovedTo
<1>7. /\ EvacuationInv' /\ PlacesInv' /\ TaskInv' /\ Known' = Known
      /\ \A s : Settled(s)' = Settled(s)
  BY <1>1, <1>4, <1>6, Quiet DEF Evacuating
<1>8. JobsInv'
  BY <1>1, <1>4, <1>5, <1>7 DEF MarkInv, JobsInv
<1>9. NothingForgotten'
  <2>1. ASSUME NEW s \in Known, Pending(s) PROVE Pending(s)'
    BY <1>1, <1>3, <1>4, <1>5, <2>1, PendingKept, KnownSlots DEF AtWork
  <2> QED  BY <1>1, <1>4, <1>7, <2>1 DEF MarkInv, NothingForgotten
<1> QED  BY <1>5, <1>7, <1>8, <1>9 DEF MarkInv

LEMMA SetMarkKeeps == ASSUME MarkInv, NEW t \in Threads, SetMark(t) PROVE MarkInv'
<1> DEFINE a == task[t].ptr
<1>1. /\ pc[t] = "set" /\ MarkTypeOK /\ StillTrue(t)
      /\ marked' = marked \cup {a} /\ Push(t, <<Scan(a)>>) /\ Goto(t, "drain")
      /\ task' = [task EXCEPT ![t] = Idle]
      /\ UNCHANGED <<mem, movers, header, globals, empties>>
  BY DEF SetMark, Return, MarkInv, TaskInv, AtWork
<1>2. a \in Addr /\ ~Evacuated(a) /\ mem[task[t].slot] = a /\ task[t].slot \in Known
  BY <1>1 DEF StillTrue
<1> HIDE DEF a
<1>3. Idle \in Tasks
  BY DEF Idle, Tasks, Values
<1>4. /\ pc'[t] = "drain" /\ pc' \in [Threads -> Locations] /\ Alone(t)
      /\ \A u \in Threads \ {t} : pc'[u] = pc[u]
      /\ task' \in [Threads -> Tasks]
  BY <1>1, <1>3, Moves, NewTask DEF Locations, Alone, MarkTypeOK
<1>5. <<Scan(a)>> \in Seq(Jobs) /\ Range(<<Scan(a)>>) = {Scan(a)}
  BY <1>2, JobParts, RangeOne
<1>6. /\ queue' \in [Threads -> Seq(Jobs)] /\ Queued' = Queued \cup {Scan(a)}
      /\ \A u \in Threads \ {t} : queue'[u] = queue[u]
  BY <1>1, <1>5, Pushes
<1>7. MarkTypeOK'
  BY <1>1, <1>2, <1>4, <1>6 DEF MarkTypeOK
\* A copy is marked by the thread that made it, and long before.
<1>8. \A o \in Objects, u \in Threads : At(o, u) \in marked' <=> At(o, u) \in marked
  <2>1. a.at # Home => a \in marked
    BY <1>1, <1>2, KnownSlots, AddrParts DEF MarkInv, PlacesInv
  <2> QED  BY <1>1, <2>1, AddrParts, ThreadsAssumption
<1>9. EvacuationInv'
  <2>1. \A u \in Threads, o \in Objects : Evacuates(u, o)' = Evacuates(u, o) /\ Copier(u, o)' = Copier(u, o)
    BY <1>1, <1>4, <1>8 DEF Evacuates, Copier, Alone
  <2>2. ASSUME NEW u \in Threads
        PROVE  /\ pc'[u] = "copy" => At(task'[u].ptr.obj, u) \notin marked'
               /\ pc'[u] \in {"correct", "publish"} => At(task'[u].ptr.obj, u) \in marked'
    <3>1. CASE u = t
      BY <1>4, <3>1
    <3>2. CASE u # t /\ pc[u] \in AtWork
      <4>1. pc'[u] = pc[u] /\ task'[u] = task[u] /\ task[u].ptr \in Addr
        BY <1>4, <3>2 DEF Alone, MarkInv, TaskInv, StillTrue
      <4>2. task[u].ptr.obj \in Objects
        BY <4>1, AddrParts
      <4> QED  BY <1>8, <4>1, <4>2 DEF MarkInv, EvacuationInv
    <3> QED  BY <1>4, <3>1, <3>2 DEF Alone, AtWork
  <2> QED  BY <1>1, <1>8, <2>1, <2>2 DEF MarkInv, EvacuationInv
<1>10. PlacesInv'
  BY <1>1, <1>2 DEF MarkInv, PlacesInv, Evacuated
<1>11. TaskInv' /\ Known \subseteq Known' /\ \A s \in Known : Settled(s) => Settled(s)'
  BY <1>1, <1>4, TasksKept DEF AtWork
<1>12. JobsInv'
  <2>1. ASSUME NEW s \in Slots, Mark(s) \in Queued' PROVE s \in Known'
    BY <1>6, <1>11, <2>1, JobParts DEF MarkInv, JobsInv
  <2>2. ASSUME NEW b \in Addr, Scan(b) \in Queued' PROVE b \in marked'
    BY <1>1, <1>6, <2>2, JobParts DEF MarkInv, JobsInv
  <2>3. ASSUME NEW u \in Threads, pc'[u] = "done" PROVE queue'[u] = <<>>
    BY <1>4, <1>6, <2>3 DEF MarkInv, JobsInv
  <2> QED  BY <2>1, <2>2, <2>3 DEF JobsInv
<1>13. NothingForgotten'
  <2>1. ASSUME NEW s \in Known' PROVE Settled(s)' \/ Pending(s)'
    <3>1. CASE s = task[t].slot
      BY <1>1, <1>2, <3>1 DEF Settled
    <3>2. CASE s \in WordsOf({a})
      BY <1>1, <1>6, <3>2 DEF Pending
    <3>3. CASE s \in Known /\ s # task[t].slot
      <4>1. Settled(s) \/ Pending(s)
        BY <3>3 DEF MarkInv, NothingForgotten
      <4>2. ASSUME Pending(s) PROVE Pending(s)'
        BY <1>1, <1>4, <1>6, <3>3, <4>2, PendingKept, KnownSlots DEF AtWork
      <4> QED  BY <1>11, <3>3, <4>1, <4>2
    <3> QED  BY <1>1, <2>1, <3>1, <3>2, <3>3 DEF Known, WordsOf
  <2> QED  BY <1>1, <1>4, <2>1 DEF MarkInv, NothingForgotten
<1> QED  BY <1>7, <1>9, <1>10, <1>11, <1>12, <1>13 DEF MarkInv

LEMMA ForwardCasKeeps == ASSUME MarkInv, NEW t \in Threads, ForwardCas(t) PROVE MarkInv'
<1>1. /\ pc[t] = "cas" /\ MarkTypeOK /\ StillTrue(t)
      /\ UNCHANGED <<mem, movers, marked, globals, queue, task>>
  BY DEF ForwardCas, MarkInv, TaskInv, AtWork
<1>2. PICK o \in Objects : task[t].ptr = At(o, Home) /\ task[t].ptr.obj = o /\ o \in movers
  BY <1>1, AddrParts DEF StillTrue, Evacuated
<1>3. Known' = Known /\ Queued' = Queued /\ \A s : Settled(s)' = Settled(s)
  BY <1>1 DEF Known, Queued, Settled
<1>4. CASE header[o] # "plain" \/ task[t].seen # "plain"
  <2>1. Goto(t, "spin") /\ header' = header
    BY <1>2, <1>4 DEF ForwardCas
  <2>2. /\ pc'[t] = "spin" /\ pc' \in [Threads -> Locations] /\ Alone(t)
        /\ \A u \in Threads \ {t} : pc'[u] = pc[u]
    BY <1>1, <2>1, Moves DEF Locations, Alone
  <2>3. MarkTypeOK'
    BY <1>1, <2>1, <2>2 DEF MarkTypeOK
  <2>4. StillTrue(t)'
    BY <1>1, <1>3, <2>1, <2>2 DEF StillTrue, Evacuated, MovedTo
  <2>5. EvacuationInv' /\ PlacesInv' /\ TaskInv'
    BY <1>1, <2>1, <2>2, <2>4, Quiet DEF Evacuating
  <2>6. JobsInv'
    BY <1>1, <1>3, <2>2 DEF MarkInv, JobsInv
  <2>7. NothingForgotten'
    <3>1. ASSUME NEW s \in Known, Pending(s) PROVE Pending(s)'
      BY <1>1, <1>3, <2>2, <3>1, PendingKept, KnownSlots DEF AtWork
    <3> QED  BY <1>1, <1>3, <2>2, <3>1 DEF MarkInv, NothingForgotten
  <2> QED  BY <2>3, <2>5, <2>6, <2>7 DEF MarkInv
<1>5. CASE header[o] = "plain" /\ task[t].seen = "plain"
  <2>1. Goto(t, "copy") /\ header' = [header EXCEPT ![o] = "busy"]
    BY <1>2, <1>5 DEF ForwardCas
  <2>2. /\ pc'[t] = "copy" /\ pc' \in [Threads -> Locations] /\ Alone(t)
        /\ \A u \in Threads \ {t} : pc'[u] = pc[u]
    BY <1>1, <2>1, Moves DEF Locations, Alone
  <2>3. /\ header'[o] = "busy" /\ \A p \in Objects \ {o} : header'[p] = header[p]
        /\ header' \in [Objects -> {"plain", "busy", "forwarded"}]
    BY <1>1, <2>1 DEF MarkTypeOK
  <2>4. MarkTypeOK'
    BY <1>1, <2>2, <2>3 DEF MarkTypeOK
\* Nobody has begun to move the object, so the slot still points to its home.
  <2>5. \A u \in Threads : ~Copier(u, o) /\ At(o, u) \notin marked
    BY <1>5 DEF MarkInv, EvacuationInv, Copier
  <2>6. mem[task[t].slot] = At(o, Home)
    <3>1. ASSUME MovedTo(mem[task[t].slot], o) PROVE FALSE
      <4>1. PICK a \in marked : a = mem[task[t].slot] /\ a.obj = o /\ ~Evacuated(a)
        BY <3>1 DEF MarkInv, PlacesInv, MovedTo
      <4>2. a.at \in Threads /\ a = At(o, a.at)
        BY <1>1, <1>2, <4>1, AddrParts DEF Evacuated, MarkTypeOK
      <4> QED  BY <2>5, <4>1, <4>2
    <3> QED  BY <1>1, <1>2, <3>1 DEF StillTrue
  <2>7. StillTrue(t)'
    BY <1>1, <1>2, <1>3, <2>2, <2>6 DEF StillTrue, Evacuated
  <2>8. /\ Evacuates(t, o)'
        /\ \A u \in Threads, p \in Objects : Evacuates(u, p)' => Evacuates(u, p) \/ (u = t /\ p = o)
        /\ \A u \in Threads, p \in Objects : Evacuates(u, p) => Evacuates(u, p)'
    BY <1>1, <1>2, <2>2, AddrParts DEF Evacuates, Alone
  <2>9. EvacuationInv'
    <3>1. ASSUME NEW p \in Objects, NEW u \in Threads, NEW w \in Threads, Copier(u, p)', Copier(w, p)'
          PROVE  u = w
      BY <1>1, <2>5, <2>8, <3>1 DEF MarkInv, EvacuationInv, Copier
    <3>2. ASSUME NEW p \in Objects
          PROVE  /\ header'[p] = "busy" => \E u \in Threads : Evacuates(u, p)'
                 /\ header'[p] # "busy" => \A u \in Threads : ~Evacuates(u, p)'
                 /\ header'[p] = "plain" => \A u \in Threads : At(p, u) \notin marked'
                 /\ header'[p] = "forwarded" => \E u \in Threads : At(p, u) \in marked'
                 /\ p \notin movers' => header'[p] = "plain"
      BY <1>1, <1>2, <2>3, <2>8 DEF MarkInv, EvacuationInv
    <3>3. ASSUME NEW u \in Threads
          PROVE  /\ pc'[u] = "copy" => At(task'[u].ptr.obj, u) \notin marked'
                 /\ pc'[u] \in {"correct", "publish"} => At(task'[u].ptr.obj, u) \in marked'
      BY <1>1, <1>2, <2>2, <2>5 DEF MarkInv, EvacuationInv, Alone
    <3> QED  BY <1>1, <3>1, <3>2, <3>3 DEF MarkInv, EvacuationInv
  <2>10. PlacesInv'
    BY <1>1 DEF MarkInv, PlacesInv, Evacuated
  <2>11. TaskInv'
    BY <1>1, <1>5, <2>2, <2>3, <2>7, TasksKept
  <2>12. JobsInv'
    BY <1>1, <1>3, <2>2 DEF MarkInv, JobsInv
  <2>13. NothingForgotten'
    <3>1. ASSUME NEW s \in Known, Pending(s) PROVE Pending(s)'
      BY <1>1, <1>3, <2>2, <3>1, PendingKept, KnownSlots DEF AtWork
    <3> QED  BY <1>1, <1>3, <2>2, <3>1 DEF MarkInv, NothingForgotten
  <2> QED  BY <2>4, <2>9, <2>10, <2>11, <2>12, <2>13 DEF MarkInv
<1> QED  BY <1>4, <1>5, <1>1 DEF MarkTypeOK

-----------------------------------------------------------------------
(* Evacuation.                                                           *)

LEMMA CopyKeeps == ASSUME MarkInv, NEW t \in Threads, Copy(t)
                   PROVE  /\ MarkInv' /\ \A s \in Known : mem'[s] = mem[s]
                          /\ \A s \in Bodies : s[1].at = Home /\ s[1].obj \notin movers => mem'[s] = mem[s]
<1>1. /\ pc[t] = "copy" /\ MarkTypeOK /\ StillTrue(t) /\ Goto(t, "correct")
      /\ UNCHANGED <<movers, header, globals, queue, task>>
  BY DEF Copy, MarkInv, TaskInv, AtWork
<1>2. PICK o \in Objects : task[t].ptr = At(o, Home) /\ task[t].ptr.obj = o /\ o \in movers
  BY <1>1, AddrParts DEF StillTrue, Evacuated
<1> DEFINE old == At(o, Home)
           new == At(o, t)
<1>3. /\ old \in Addr /\ new \in Addr /\ old # new /\ new.at = t /\ new.obj = o /\ t # Home
      /\ old \notin marked /\ new \notin marked
  <2>1. Evacuated(old)
    BY <1>2, AddrParts DEF Evacuated
  <2> QED  BY <1>1, <1>2, <2>1, AddrParts, ThreadsAssumption DEF MarkInv, EvacuationInv, PlacesInv
<1>4. /\ mem' = [s \in DOMAIN mem |->
                   IF s = FirstWord(old) THEN new
                   ELSE IF s \in Bodies /\ s[1] = new THEN mem[<<old, s[2]>>] ELSE mem[s]]
      /\ marked' = marked \cup {new}
  BY <1>2, AddrParts DEF Copy
<1> HIDE DEF old, new
<1>5. /\ mem'[FirstWord(old)] = new
      /\ \A s \in Slots : s # FirstWord(old) /\ ~(s \in Bodies /\ s[1] = new) => mem'[s] = mem[s]
      /\ \A s \in Slots : \/ mem'[s] = new
                          \/ mem'[s] = mem[s]
                          \/ s \in Bodies /\ mem'[s] = mem[<<old, s[2]>>] /\ <<old, s[2]>> \in Slots
  BY <1>1, <1>3, <1>4, BodyParts DEF MarkTypeOK
<1>6. mem' \in [Slots -> Values]
  <2>1. \A s \in Slots : mem'[s] \in Values
    BY <1>1, <1>3, <1>5 DEF MarkTypeOK, Values
  <2> QED  BY <1>1, <1>4, <2>1 DEF MarkTypeOK
<1>7. /\ pc'[t] = "correct" /\ pc' \in [Threads -> Locations] /\ Alone(t)
      /\ \A u \in Threads \ {t} : pc'[u] = pc[u]
  BY <1>1, Moves DEF Locations, Alone
<1>8. MarkTypeOK'
  BY <1>1, <1>3, <1>4, <1>6, <1>7 DEF MarkTypeOK
\* Neither the old body nor the new one is known yet.
<1>9. \A s \in Known : mem'[s] = mem[s]
  <2>1. ASSUME NEW s \in Known PROVE s # FirstWord(old) /\ ~(s \in Bodies /\ s[1] = new) /\ s \in Slots
    <3>1. s \in Slots /\ (s \in Roots \/ (s \in Bodies /\ s[1] \in marked))
      BY <1>1, KnownSlots
    <3>2. s # FirstWord(old)
      BY <1>3, <3>1, BodyParts DEF FirstWord
    <3>3. ~(s \in Bodies /\ s[1] = new)
      BY <1>3, <3>1, RootsAssumption
    <3> QED  BY <3>1, <3>2, <3>3
  <2> QED  BY <1>5, <2>1
<1>10. /\ Evacuates(t, o)
       /\ \A u \in Threads, p \in Objects : Evacuates(u, p)' = Evacuates(u, p)
       /\ \A u \in Threads, p \in Objects : At(p, u) \in marked' => At(p, u) \in marked \/ (u = t /\ p = o)
       /\ \A u \in Threads : ~(u = t) => At(o, u) \notin marked
  <2>1. Evacuates(t, o) /\ Copier(t, o)
    BY <1>1, <1>2 DEF Evacuates, Copier
  <2>2. \A u \in Threads, p \in Objects : Evacuates(u, p)' = Evacuates(u, p)
    BY <1>1, <1>7 DEF Evacuates, Alone
  <2>3. \A u \in Threads : ~(u = t) => At(o, u) \notin marked
    BY <2>1 DEF MarkInv, EvacuationInv, Copier
  <2>4. ASSUME NEW u \in Threads, NEW p \in Objects, At(p, u) = new PROVE u = t /\ p = o
    BY <1>3, <2>4, AddrParts
  <2> QED  BY <1>4, <2>1, <2>2, <2>3, <2>4
<1>11. EvacuationInv'
  <2>1. ASSUME NEW p \in Objects, NEW u \in Threads, NEW w \in Threads, Copier(u, p)', Copier(w, p)'
        PROVE  u = w
    <3>1. Copier(u, p) /\ Copier(w, p)
      BY <1>10, <2>1 DEF Copier
    <3> QED  BY <3>1 DEF MarkInv, EvacuationInv
  <2>2. header[o] = "busy"
    BY <1>10 DEF MarkInv, EvacuationInv
  <2>3. ASSUME NEW p \in Objects
        PROVE  /\ header'[p] = "busy" => \E u \in Threads : Evacuates(u, p)'
               /\ header'[p] # "busy" => \A u \in Threads : ~Evacuates(u, p)'
               /\ header'[p] = "plain" => \A u \in Threads : At(p, u) \notin marked'
               /\ header'[p] = "forwarded" => \E u \in Threads : At(p, u) \in marked'
               /\ p \notin movers' => header'[p] = "plain"
    BY <1>1, <1>4, <1>10, <2>2 DEF MarkInv, EvacuationInv
  <2>4. ASSUME NEW p \in Objects, NEW u \in Threads, At(p, u) \in marked'
        PROVE  mem'[FirstWord(At(p, Home))] = At(p, u)
    <3>1. CASE p = o
      BY <1>5, <1>10, <2>4, <3>1 DEF old, new
    <3>2. CASE p # o
      <4>1. At(p, u) \in marked /\ mem[FirstWord(At(p, Home))] = At(p, u)
        BY <1>10, <2>4, <3>2 DEF MarkInv, EvacuationInv
      <4>2. At(p, Home) \in Addr /\ At(p, Home) # old /\ At(p, Home) # new
        BY <1>3, <3>2, AddrParts DEF old
      <4>3. FirstWord(At(p, Home)) \in Slots /\ FirstWord(At(p, Home)) # FirstWord(old)
        BY <4>2, BodyParts
      <4>4. FirstWord(At(p, Home))[1] # new
        BY <4>2 DEF FirstWord
      <4> QED  BY <1>5, <4>1, <4>3, <4>4
    <3> QED  BY <3>1, <3>2
  <2>5. ASSUME NEW u \in Threads
        PROVE  /\ pc'[u] = "copy" => At(task'[u].ptr.obj, u) \notin marked'
               /\ pc'[u] \in {"correct", "publish"} => At(task'[u].ptr.obj, u) \in marked'
    <3>1. CASE u = t
      BY <1>1, <1>2, <1>4, <1>7, <3>1 DEF new
    <3>2. CASE u # t
      <4>1. pc'[u] = pc[u] /\ task'[u] = task[u] /\ At(task[u].ptr.obj, u) # new
        BY <1>3, <1>7, <3>2, AddrParts DEF Alone
      <4> QED  BY <1>4, <4>1 DEF MarkInv, EvacuationInv
    <3> QED  BY <3>1, <3>2
  <2> QED  BY <2>1, <2>3, <2>4, <2>5 DEF EvacuationInv
<1>12. PlacesInv'
  <2>1. \A a \in marked' : ~Evacuated(a)'
    BY <1>1, <1>3, <1>4 DEF MarkInv, PlacesInv, Evacuated
  <2>2. ASSUME NEW s \in Slots, mem'[s] # Null, mem'[s].at # Home PROVE mem'[s] \in marked'
    <3>1. CASE mem'[s] = new
      BY <1>4, <3>1
    <3>2. CASE \E u \in Slots : mem'[s] = mem[u]
      <4>1. PICK u \in Slots : mem'[s] = mem[u]
        BY <3>2
      <4>2. mem[u] \in marked
        BY <2>2, <4>1 DEF MarkInv, PlacesInv
      <4> QED  BY <1>4, <4>1, <4>2
    <3> QED  BY <1>5, <3>1, <3>2
  <2> QED  BY <2>1, <2>2 DEF PlacesInv
<1>13. Known \subseteq Known'
  BY <1>4 DEF Known, WordsOf
<1>14. StillTrue(t)'
  <2>1. mem'[task[t].slot] = mem[task[t].slot] /\ task[t].slot \in Known'
    BY <1>1, <1>9, <1>13 DEF StillTrue
  <2> QED  BY <1>1, <1>7, <2>1 DEF StillTrue, Evacuated
<1>15. TaskInv' /\ \A s \in Known : Settled(s) => Settled(s)'
  BY <1>1, <1>4, <1>7, <1>9, <1>14, TasksKept
<1>16. Queued' = Queued
  BY <1>1 DEF Queued
<1>17. JobsInv'
  BY <1>1, <1>4, <1>7, <1>13, <1>16 DEF MarkInv, JobsInv
<1>18. NothingForgotten'
  <2>1. ASSUME NEW s \in Known' PROVE Settled(s)' \/ Pending(s)'
    <3>1. CASE s \in WordsOf({new})
      <4>1. new \in marked' /\ pc'[t] \in {"correct", "publish"} /\ new = At(task'[t].ptr.obj, t)
        BY <1>1, <1>2, <1>4, <1>7 DEF new
      <4> QED  BY <3>1, <4>1 DEF Pending
    <3>2. CASE s \in Known
      <4>1. Settled(s) \/ Pending(s)
        BY <3>2 DEF MarkInv, NothingForgotten
      <4>2. ASSUME Pending(s) PROVE Pending(s)'
        BY <1>1, <1>4, <1>7, <1>16, <3>2, <4>2, PendingKept, KnownSlots DEF AtWork
      <4> QED  BY <1>15, <3>2, <4>1, <4>2
    <3> QED  BY <1>4, <2>1, <3>1, <3>2 DEF Known, WordsOf
  <2> QED  BY <1>1, <1>7, <2>1 DEF MarkInv, NothingForgotten
<1>19. ASSUME NEW s \in Bodies, s[1].at = Home, s[1].obj \notin movers PROVE mem'[s] = mem[s]
  <2>1. s # FirstWord(old) /\ s[1] # new
    BY <1>2, <1>3, <1>19, AddrParts DEF FirstWord, old
  <2> QED  BY <1>5, <2>1 DEF Slots
<1> QED  BY <1>8, <1>9, <1>11, <1>12, <1>15, <1>17, <1>18, <1>19 DEF MarkInv

\* A slot that points to an evacuated home comes to point to the copy.
Corrects(t, slot, old, new) ==
    /\ task[t].slot = slot /\ task[t].ptr = old
    /\ StillTrue(t) /\ Evacuated(old) /\ mem[slot] = old
    /\ new \in marked /\ new.obj = old.obj
    /\ mem' = [mem EXCEPT ![slot] = new]
    /\ UNCHANGED <<movers, header, marked>>

LEMMA Correction ==
    ASSUME MarkInv, NEW t \in Threads, NEW slot, NEW old, NEW new,
           Corrects(t, slot, old, new), Alone(t),
           \A u \in Threads : pc[u] \in Evacuating /\ task[u].ptr = old => u = t
    PROVE  /\ mem' \in [Slots -> Values] /\ Known' = Known /\ PlacesInv'
           /\ \A s \in Slots : mem'[s] = (IF s = slot THEN new ELSE mem[s])
           /\ \A o \in Objects, u \in Threads :
                 At(o, u) \in marked => mem'[FirstWord(At(o, Home))] = At(o, u)
           /\ \A s \in Slots : Settled(s) => Settled(s)'
           /\ Settled(slot)'
           /\ \A u \in Threads \ {t} : pc[u] \in AtWork => StillTrue(u)'
<1>1. /\ slot \in Known /\ slot \in Slots /\ old \in Addr /\ old.obj \in Objects /\ mem[slot] = old
      /\ new \in marked /\ new \in Addr /\ new.obj = old.obj /\ ~Evacuated(new) /\ Evacuated(old)
      /\ old \notin marked /\ old # new /\ MarkTypeOK
      /\ UNCHANGED <<movers, header, marked>>
  BY KnownSlots, AddrParts DEF Corrects, StillTrue, MarkInv, MarkTypeOK, PlacesInv
<1>2. /\ mem' \in [Slots -> Values] /\ Known' = Known
      /\ \A s \in Slots : mem'[s] = (IF s = slot THEN new ELSE mem[s])
  BY <1>1 DEF Corrects, MarkTypeOK, Values, Known
<1>3. \A s \in Slots : Settled(s) => Settled(s)'
  BY <1>1, <1>2 DEF Settled
<1>4. Settled(slot)'
  BY <1>1, <1>2 DEF Settled
<1>5. PlacesInv'
  BY <1>1, <1>2 DEF MarkInv, PlacesInv, Evacuated
\* The home of an object with a copy is no live body: no slot there is known.
<1>6. ASSUME NEW o \in Objects, NEW u \in Threads, At(o, u) \in marked
      PROVE  mem'[FirstWord(At(o, Home))] = At(o, u)
  <2>1. At(o, Home) \notin marked
    <3>1. o \in movers
      BY <1>6 DEF MarkInv, EvacuationInv
    <3> QED  BY <3>1, AddrParts DEF MarkInv, PlacesInv, Evacuated
  <2>2. FirstWord(At(o, Home)) # slot
    <3>1. At(o, Home) \in Addr /\ 1 \in Words
      BY AddrParts, BodyParts
    <3>2. <<At(o, Home), 1>> \notin Known
      BY <1>1, <2>1, <3>1, KnownSlots
    <3> QED  BY <1>1, <3>2 DEF FirstWord
  <2> QED  BY <1>2, <1>6, <2>2, BodyParts, AddrParts DEF MarkInv, EvacuationInv
<1>7. ASSUME NEW u \in Threads, u # t, pc[u] \in AtWork PROVE StillTrue(u)'
  <2>1. /\ pc'[u] = pc[u] /\ task'[u] = task[u] /\ StillTrue(u)
        /\ task[u].slot \in Known' /\ task[u].slot \in Slots
        /\ ~(pc[u] \in Evacuating /\ task[u].ptr = old)
    BY <1>1, <1>2, <1>7, KnownSlots DEF Alone, MarkInv, TaskInv, StillTrue
  <2>2. CASE task[u].slot # slot
    <3>1. mem'[task[u].slot] = mem[task[u].slot]
      BY <1>2, <2>1, <2>2
    <3> QED  BY <1>1, <2>1, <3>1 DEF StillTrue, Evacuated, MovedTo
  <2>3. CASE task[u].slot = slot
    <3>1. mem[task[u].slot] = old /\ ~MovedTo(old, task[u].ptr.obj) /\ mem'[task[u].slot] = new
      BY <1>1, <1>2, <2>3 DEF MovedTo
    <3>2. pc[u] \in {"try", "cas", "spin", "fix"} /\ task[u].ptr = old
      BY <1>1, <1>7, <2>1, <3>1 DEF StillTrue, AtWork, Evacuating
    <3>3. MovedTo(new, old.obj)
      BY <1>1 DEF MovedTo
    <3> QED  BY <1>1, <2>1, <3>1, <3>2, <3>3 DEF StillTrue, Evacuated, MovedTo
  <2> QED  BY <2>2, <2>3
<1> QED  BY <1>2, <1>3, <1>4, <1>5, <1>6, <1>7

LEMMA CorrectKeeps == ASSUME MarkInv, NEW t \in Threads, Correct(t)
                      PROVE  /\ MarkInv'
                             /\ \A s \in Slots : mem'[s] = mem[s] \/ SameObject(mem[s], mem'[s])
<1>1. pc[t] = "correct" /\ MarkTypeOK /\ StillTrue(t)
  BY DEF Correct, MarkInv, TaskInv, AtWork
<1>2. PICK o \in Objects : task[t].ptr = At(o, Home) /\ task[t].ptr.obj = o /\ o \in movers
  BY <1>1, AddrParts DEF StillTrue, Evacuated
<1> DEFINE old == At(o, Home)
           new == At(o, t)
<1>3. PICK slot \in Slots : task[t].slot = slot /\ slot \in Known /\ mem[slot] = old
  BY <1>1, <1>2, KnownSlots DEF StillTrue
<1>4. new \in marked /\ new.obj = o /\ mem[FirstWord(old)] = new /\ old.obj = o /\ old.at = Home
  BY <1>1, <1>2, AddrParts DEF MarkInv, EvacuationInv
<1> HIDE DEF old, new
<1>5. /\ Goto(t, "publish") /\ mem' = [mem EXCEPT ![slot] = new]
      /\ UNCHANGED <<movers, header, marked, globals, queue, empties, task>>
  BY <1>2, <1>3, <1>4 DEF Correct, Corrected, old
<1>6. /\ pc'[t] = "publish" /\ pc' \in [Threads -> Locations] /\ Alone(t)
      /\ \A u \in Threads \ {t} : pc'[u] = pc[u]
  BY <1>1, <1>5, Moves DEF Locations, Alone
<1>7. \A u \in Threads : pc[u] \in Evacuating /\ task[u].ptr = old => u = t
  BY <1>1, <1>2 DEF MarkInv, EvacuationInv, Copier, Evacuates, Evacuating, old
<1>8. Corrects(t, slot, old, new)
  BY <1>1, <1>2, <1>3, <1>4, <1>5 DEF Corrects, Evacuated, old
<1>9. /\ mem' \in [Slots -> Values] /\ Known' = Known /\ PlacesInv'
      /\ \A s \in Slots : mem'[s] = (IF s = slot THEN new ELSE mem[s])
      /\ \A p \in Objects, u \in Threads :
            At(p, u) \in marked => mem'[FirstWord(At(p, Home))] = At(p, u)
      /\ \A s \in Slots : Settled(s) => Settled(s)'
      /\ Settled(slot)'
      /\ \A u \in Threads \ {t} : pc[u] \in AtWork => StillTrue(u)'
  BY <1>6, <1>7, <1>8, Correction
<1>10. MarkTypeOK' /\ Queued' = Queued
  BY <1>1, <1>5, <1>6, <1>9 DEF MarkTypeOK, Queued
<1>11. EvacuationInv'
  <2>1. \A u \in Threads, p \in Objects : Evacuates(u, p)' = Evacuates(u, p) /\ Copier(u, p)' = Copier(u, p)
    BY <1>1, <1>5, <1>6 DEF Evacuates, Copier, Alone
  <2>2. ASSUME NEW u \in Threads
        PROVE  /\ pc'[u] = "copy" => At(task'[u].ptr.obj, u) \notin marked'
               /\ pc'[u] \in {"correct", "publish"} => At(task'[u].ptr.obj, u) \in marked'
    BY <1>1, <1>5, <1>6 DEF MarkInv, EvacuationInv, Alone
  <2> QED  BY <1>5, <1>9, <2>1, <2>2 DEF MarkInv, EvacuationInv
<1>12. TaskInv'
  <2>1. StillTrue(t)'
    <3>1. /\ task'[t].slot = slot /\ slot \in Known' /\ task'[t].ptr = old /\ old \in Addr
          /\ MovedTo(mem[slot], o)' /\ old.obj = o /\ Evacuated(old)'
      <4>1. mem'[slot] = new /\ new \in marked' /\ new.obj = o
        BY <1>4, <1>5, <1>9
      <4>2. old \in Addr /\ task'[t].slot = slot /\ task'[t].ptr = old
        BY <1>2, <1>3, <1>5, AddrParts DEF old
      <4> QED  BY <1>2, <1>3, <1>4, <1>5, <1>9, <4>1, <4>2 DEF MovedTo, Evacuated
    <3> QED  BY <1>6, <3>1 DEF StillTrue
  <2> QED  BY <1>6, <1>9, <2>1 DEF TaskInv
<1>13. JobsInv'
  BY <1>5, <1>6, <1>9, <1>10 DEF MarkInv, JobsInv
<1>14. NothingForgotten'
  <2>1. ASSUME NEW s \in Known, Pending(s) PROVE Pending(s)'
    BY <1>1, <1>5, <1>6, <1>10, <2>1, PendingKept, KnownSlots DEF AtWork
  <2>2. Known' \subseteq Slots
    BY <1>1, <1>9, KnownSlots
  <2> QED  BY <1>1, <1>5, <1>6, <1>9, <2>1, <2>2 DEF MarkInv, NothingForgotten
<1>15. ASSUME NEW s \in Slots PROVE mem'[s] = mem[s] \/ SameObject(mem[s], mem'[s])
  <2>1. old # Null /\ new # Null /\ old.obj = new.obj
    BY <1>2, <1>4, AddrParts, ThreadsAssumption DEF old, new
  <2> QED  BY <1>3, <1>9, <2>1 DEF SameObject
<1> QED  BY <1>9, <1>10, <1>11, <1>12, <1>13, <1>14, <1>15 DEF MarkInv

LEMMA PublishKeeps == ASSUME MarkInv, NEW t \in Threads, Publish(t) PROVE MarkInv'
<1>1. /\ pc[t] = "publish" /\ MarkTypeOK /\ StillTrue(t)
      /\ header' = [header EXCEPT ![task[t].ptr.obj] = "forwarded"]
      /\ Push(t, <<Scan(At(task[t].ptr.obj, t))>>)
      /\ Goto(t, "drain") /\ task' = [task EXCEPT ![t] = Idle]
      /\ UNCHANGED <<mem, movers, marked, globals, empties>>
  BY DEF Publish, Return, MarkInv, TaskInv, AtWork
<1>2. PICK o \in Objects : task[t].ptr = At(o, Home) /\ task[t].ptr.obj = o /\ o \in movers
  BY <1>1, AddrParts DEF StillTrue, Evacuated
<1> DEFINE new == At(o, t)
<1>3. new \in marked /\ new \in Addr
  BY <1>1, <1>2, AddrParts DEF MarkInv, EvacuationInv
<1>4. Idle \in Tasks
  BY DEF Idle, Tasks, Values
<1>5. /\ pc'[t] = "drain" /\ pc' \in [Threads -> Locations] /\ Alone(t)
      /\ \A u \in Threads \ {t} : pc'[u] = pc[u]
      /\ task' \in [Threads -> Tasks]
  BY <1>1, <1>4, Moves, NewTask DEF Locations, Alone, MarkTypeOK
<1>6. /\ queue' \in [Threads -> Seq(Jobs)] /\ Queued' = Queued \cup {Scan(new)}
      /\ \A u \in Threads \ {t} : queue'[u] = queue[u]
  <2>1. <<Scan(new)>> \in Seq(Jobs) /\ Range(<<Scan(new)>>) = {Scan(new)}
    BY <1>3, JobParts, RangeOne
  <2> HIDE DEF new
  <2>2. Push(t, <<Scan(new)>>)
    BY <1>1, <1>2 DEF new
  <2> QED  BY <1>1, <2>1, <2>2, Pushes
<1>7. /\ header'[o] = "forwarded" /\ \A p \in Objects \ {o} : header'[p] = header[p]
      /\ header' \in [Objects -> {"plain", "busy", "forwarded"}]
  BY <1>1, <1>2 DEF MarkTypeOK
<1>8. MarkTypeOK'
  BY <1>1, <1>5, <1>6, <1>7 DEF MarkTypeOK
<1>9. /\ Evacuates(t, o)
      /\ \A u \in Threads, p \in Objects : Evacuates(u, p)' <=> Evacuates(u, p) /\ p # o
  <2>1. Evacuates(t, o)
    BY <1>1, <1>2 DEF Evacuates
  <2>2. ASSUME NEW u \in Threads, Evacuates(u, o) PROVE u = t
    BY <2>1, <2>2 DEF MarkInv, EvacuationInv, Copier
  <2>3. ASSUME NEW u \in Threads, NEW p \in Objects PROVE Evacuates(u, p)' <=> Evacuates(u, p) /\ p # o
    <3>1. CASE u = t
      <4>1. ~Evacuates(t, p)'
        BY <1>5 DEF Evacuates
      <4>2. Evacuates(t, p) => p = o
        BY <1>2, AddrParts DEF Evacuates
      <4> QED  BY <3>1, <4>1, <4>2
    <3>2. CASE u # t
      BY <1>5, <2>2, <3>2 DEF Evacuates, Alone
    <3> QED  BY <3>1, <3>2
  <2> QED  BY <2>1, <2>3
<1>10. EvacuationInv'
  <2>1. ASSUME NEW p \in Objects, NEW u \in Threads, NEW w \in Threads, Copier(u, p)', Copier(w, p)'
        PROVE  u = w
    <3>1. Copier(u, p) /\ Copier(w, p)
      BY <1>1, <1>9, <2>1 DEF Copier
    <3> QED  BY <3>1 DEF MarkInv, EvacuationInv
  <2>2. ASSUME NEW p \in Objects
        PROVE  /\ header'[p] = "busy" => \E u \in Threads : Evacuates(u, p)'
               /\ header'[p] # "busy" => \A u \in Threads : ~Evacuates(u, p)'
               /\ header'[p] = "plain" => \A u \in Threads : At(p, u) \notin marked'
               /\ header'[p] = "forwarded" => \E u \in Threads : At(p, u) \in marked'
               /\ p \notin movers' => header'[p] = "plain"
    BY <1>1, <1>2, <1>3, <1>7, <1>9 DEF MarkInv, EvacuationInv
  <2>3. ASSUME NEW u \in Threads
        PROVE  /\ pc'[u] = "copy" => At(task'[u].ptr.obj, u) \notin marked'
               /\ pc'[u] \in {"correct", "publish"} => At(task'[u].ptr.obj, u) \in marked'
    BY <1>1, <1>5 DEF MarkInv, EvacuationInv, Alone
  <2> QED  BY <1>1, <2>1, <2>2, <2>3 DEF MarkInv, EvacuationInv
<1>11. PlacesInv'
  BY <1>1 DEF MarkInv, PlacesInv, Evacuated
<1>12. TaskInv' /\ Known \subseteq Known' /\ \A s \in Known : Settled(s) => Settled(s)'
  BY <1>1, <1>5, <1>7, TasksKept DEF AtWork
<1>13. Known' = Known
  BY <1>1 DEF Known
<1>14. JobsInv'
  <2>1. ASSUME NEW s \in Slots, Mark(s) \in Queued' PROVE s \in Known'
    BY <1>6, <1>13, <2>1, JobParts DEF MarkInv, JobsInv
  <2>2. ASSUME NEW b \in Addr, Scan(b) \in Queued' PROVE b \in marked'
    BY <1>1, <1>3, <1>6, <2>2, JobParts DEF MarkInv, JobsInv
  <2>3. ASSUME NEW u \in Threads, pc'[u] = "done" PROVE queue'[u] = <<>>
    BY <1>5, <1>6, <2>3 DEF MarkInv, JobsInv
  <2> QED  BY <2>1, <2>2, <2>3 DEF JobsInv
<1>15. NothingForgotten'
  <2>1. Settled(task[t].slot)
    BY <1>1 DEF StillTrue, Settled, MovedTo
  <2>2. ASSUME NEW s \in Known, Pending(s), ~Settled(s) PROVE Pending(s)'
    BY <1>1, <1>2, <1>5, <1>6, <2>1, <2>2, PendingKept, KnownSlots DEF AtWork
  <2> QED  BY <1>1, <1>5, <1>12, <1>13, <2>2 DEF MarkInv, NothingForgotten
<1> QED  BY <1>8, <1>10, <1>11, <1>12, <1>14, <1>15 DEF MarkInv

LEMMA SpinAndLoadKeeps == ASSUME MarkInv, NEW t \in Threads, SpinAndLoad(t) PROVE MarkInv'
<1>1. /\ pc[t] = "spin" /\ MarkTypeOK /\ StillTrue(t) /\ Goto(t, "fix")
      /\ header[task[t].ptr.obj] = "forwarded"
      /\ task' = [task EXCEPT ![t].np = Corrected(t)]
      /\ UNCHANGED <<mem, movers, header, marked, globals, queue>>
  BY DEF SpinAndLoad, MarkInv, TaskInv, AtWork
<1>2. PICK o \in Objects : task[t].ptr = At(o, Home) /\ task[t].ptr.obj = o /\ o \in movers
  BY <1>1, AddrParts DEF StillTrue, Evacuated
<1>3. task[t].slot \in Slots /\ mem[task[t].slot] \in Addr
  BY <1>1, KnownSlots DEF StillTrue, MovedTo, MarkTypeOK
<1>4. Corrected(t) \in Values
  BY <1>1, <1>3, BodyParts DEF Corrected, MarkTypeOK
\* Whoever forwarded the object left the address of its copy.
<1>5. mem[task[t].slot] = task[t].ptr => MovedTo(Corrected(t), o)
  <2>1. PICK u \in Threads : At(o, u) \in marked /\ mem[FirstWord(At(o, Home))] = At(o, u)
    BY <1>1, <1>2 DEF MarkInv, EvacuationInv
  <2> QED  BY <1>2, <2>1, AddrParts DEF Corrected, MovedTo
<1>6. /\ task' \in [Threads -> Tasks]
      /\ task'[t].slot = task[t].slot /\ task'[t].ptr = task[t].ptr /\ task'[t].np = Corrected(t)
      /\ \A u \in Threads \ {t} : task'[u] = task[u]
  BY <1>1, <1>4 DEF MarkTypeOK, Tasks
<1>7. /\ pc'[t] = "fix" /\ pc' \in [Threads -> Locations] /\ Alone(t)
      /\ \A u \in Threads \ {t} : pc'[u] = pc[u]
  BY <1>1, <1>6, Moves DEF Locations, Alone
<1>8. MarkTypeOK' /\ Queued' = Queued
  BY <1>1, <1>6, <1>7 DEF MarkTypeOK, Queued
<1>9. StillTrue(t)'
  <2>1. Known' = Known
    BY <1>1 DEF Known
  <2> QED  BY <1>1, <1>2, <1>5, <1>6, <1>7, <2>1 DEF StillTrue, Evacuated, MovedTo
<1>10. /\ EvacuationInv' /\ PlacesInv' /\ TaskInv' /\ Known' = Known
       /\ \A s : Settled(s)' = Settled(s)
  BY <1>1, <1>7, <1>9, Quiet DEF Evacuating
<1>11. JobsInv'
  BY <1>1, <1>7, <1>8, <1>10 DEF MarkInv, JobsInv
<1>12. NothingForgotten'
  <2>1. ASSUME NEW s \in Known, Pending(s) PROVE Pending(s)'
    BY <1>1, <1>6, <1>7, <1>8, <2>1, PendingKept, KnownSlots DEF AtWork
  <2> QED  BY <1>1, <1>7, <1>10, <2>1 DEF MarkInv, NothingForgotten
<1> QED  BY <1>8, <1>10, <1>11, <1>12 DEF MarkInv

LEMMA FixSlotKeeps == ASSUME MarkInv, NEW t \in Threads, FixSlot(t)
                      PROVE  /\ MarkInv'
                             /\ \A s \in Slots : mem'[s] = mem[s] \/ SameObject(mem[s], mem'[s])
<1>1. /\ pc[t] = "fix" /\ MarkTypeOK /\ StillTrue(t)
      /\ Goto(t, "drain") /\ task' = [task EXCEPT ![t] = Idle]
      /\ UNCHANGED <<movers, header, marked, globals, queue>>
  BY DEF FixSlot, Return, MarkInv, TaskInv, AtWork
<1>2. PICK o \in Objects : task[t].ptr = At(o, Home) /\ task[t].ptr.obj = o /\ o \in movers
  BY <1>1, AddrParts DEF StillTrue, Evacuated
<1> DEFINE old == At(o, Home)
<1>3. PICK slot \in Slots : task[t].slot = slot /\ slot \in Known
  BY <1>1, KnownSlots DEF StillTrue
<1>4. PICK new \in Values : task[t].np = new
  BY <1>1 DEF MarkTypeOK, Tasks
<1>5. old.obj = o /\ old.at = Home /\ task[t].ptr = old /\ header[o] = "forwarded"
  BY <1>1, <1>2, AddrParts DEF StillTrue
<1> HIDE DEF old
<1>6. Idle \in Tasks
  BY DEF Idle, Tasks, Values
<1>7. /\ pc'[t] = "drain" /\ pc' \in [Threads -> Locations] /\ Alone(t)
      /\ \A u \in Threads \ {t} : pc'[u] = pc[u]
      /\ task' \in [Threads -> Tasks]
  BY <1>1, <1>6, Moves, NewTask DEF Locations, Alone, MarkTypeOK
<1>8. Queued' = Queued
  BY <1>1 DEF Queued
\* What the exchange does to the slot, whether it succeeds or fails.
<1>9. /\ mem' \in [Slots -> Values] /\ Known' = Known /\ PlacesInv'
      /\ \A p \in Objects, u \in Threads :
            At(p, u) \in marked => mem'[FirstWord(At(p, Home))] = At(p, u)
      /\ \A s \in Slots : Settled(s) => Settled(s)'
      /\ Settled(slot)'
      /\ \A u \in Threads \ {t} : pc[u] \in AtWork => StillTrue(u)'
      /\ \A s \in Slots : mem'[s] = mem[s] \/ SameObject(mem[s], mem'[s])
  <2>1. CASE mem[slot] = old
    <3>1. new \in marked /\ new.obj = o /\ mem' = [mem EXCEPT ![slot] = new]
      BY <1>1, <1>3, <1>4, <1>5, <2>1 DEF StillTrue, MovedTo, FixSlot
    <3>2. Corrects(t, slot, old, new)
      BY <1>1, <1>2, <1>3, <1>5, <2>1, <3>1 DEF Corrects, Evacuated
    <3>3. \A u \in Threads : ~(pc[u] \in Evacuating /\ task[u].ptr = old)
      BY <1>2, <1>5 DEF MarkInv, EvacuationInv, Evacuates, Evacuating, old
    <3>4. /\ mem' \in [Slots -> Values] /\ Known' = Known /\ PlacesInv'
          /\ \A s \in Slots : mem'[s] = (IF s = slot THEN new ELSE mem[s])
          /\ \A p \in Objects, u \in Threads :
                At(p, u) \in marked => mem'[FirstWord(At(p, Home))] = At(p, u)
          /\ \A s \in Slots : Settled(s) => Settled(s)'
          /\ Settled(slot)'
          /\ \A u \in Threads \ {t} : pc[u] \in AtWork => StillTrue(u)'
      BY <1>7, <3>2, <3>3, Correction
    <3>5. ASSUME NEW s \in Slots PROVE mem'[s] = mem[s] \/ SameObject(mem[s], mem'[s])
      <4>1. old # Null /\ new # Null
        BY <1>1, <1>5, <3>1, AddrParts DEF StillTrue, MarkTypeOK
      <4> QED  BY <1>5, <2>1, <3>1, <3>4, <4>1 DEF SameObject
    <3> QED  BY <3>4, <3>5
  <2>2. CASE mem[slot] # old
    <3>1. mem' = mem /\ MovedTo(mem[slot], o)
      BY <1>1, <1>2, <1>3, <1>5, <2>2 DEF StillTrue, FixSlot
    <3>2. Known' = Known /\ PlacesInv' /\ \A s : Settled(s)' = Settled(s)
      BY <1>1, <3>1 DEF Known, MarkInv, PlacesInv, Evacuated, Settled
    <3>3. ASSUME NEW u \in Threads \ {t}, pc[u] \in AtWork PROVE StillTrue(u)'
      <4>1. pc'[u] = pc[u] /\ task'[u] = task[u] /\ StillTrue(u)
        BY <1>7, <3>3 DEF Alone, MarkInv, TaskInv
      <4> QED  BY <1>1, <3>1, <3>2, <4>1 DEF StillTrue, Evacuated, MovedTo
    <3>4. Settled(slot)
      BY <3>1 DEF Settled, MovedTo
    <3> QED  BY <1>1, <3>1, <3>2, <3>3, <3>4 DEF MarkTypeOK, MarkInv, EvacuationInv
  <2> QED  BY <2>1, <2>2
<1>10. MarkTypeOK'
  BY <1>1, <1>7, <1>9 DEF MarkTypeOK
<1>11. EvacuationInv'
  <2>1. \A u \in Threads, p \in Objects : Evacuates(u, p)' = Evacuates(u, p) /\ Copier(u, p)' = Copier(u, p)
    BY <1>1, <1>7 DEF Evacuates, Copier, Alone
  <2>2. ASSUME NEW u \in Threads
        PROVE  /\ pc'[u] = "copy" => At(task'[u].ptr.obj, u) \notin marked'
               /\ pc'[u] \in {"correct", "publish"} => At(task'[u].ptr.obj, u) \in marked'
    BY <1>1, <1>7 DEF MarkInv, EvacuationInv, Alone
  <2> QED  BY <1>1, <1>9, <2>1, <2>2 DEF MarkInv, EvacuationInv
<1>12. TaskInv'
  BY <1>7, <1>9 DEF TaskInv, AtWork
<1>13. JobsInv'
  BY <1>1, <1>7, <1>8, <1>9 DEF MarkInv, JobsInv
<1>14. NothingForgotten'
  <2>1. ASSUME NEW s \in Known, Pending(s), s # slot PROVE Pending(s)'
    BY <1>1, <1>3, <1>7, <1>8, <2>1, PendingKept, KnownSlots DEF AtWork
  <2>2. Known' \subseteq Slots
    BY <1>1, <1>9, KnownSlots
  <2> QED  BY <1>1, <1>7, <1>9, <2>1, <2>2 DEF MarkInv, NothingForgotten
<1> QED  BY <1>9, <1>10, <1>11, <1>12, <1>13, <1>14 DEF MarkInv

-----------------------------------------------------------------------
(* The theorems.                                                         *)

LEMMA MarkInit == Init => MarkInv
<1> SUFFICES ASSUME Init PROVE MarkInv
  OBVIOUS
<1>1. /\ movers \in Movers /\ header = [o \in Objects |-> "plain"] /\ marked = {} /\ globals = FALSE
      /\ queue = [t \in Threads |-> <<>>] /\ pc = [t \in Threads |-> "roots"]
      /\ task = [t \in Threads |-> Idle]
  BY DEF Init
<1>2. mem \in [Slots -> Values] /\ \A s \in Slots : mem[s] # Null => mem[s].at = Home
  <2>1. PICK h \in Heaps :
          mem = [s \in Roots \cup Bodies |->
                   IF s \in Roots THEN At(h[s], Home)
                   ELSE IF s[1].at = Home /\ <<s[1].obj, s[2]>> \in DOMAIN h
                        THEN At(h[<<s[1].obj, s[2]>>], Home) ELSE Null]
    BY DEF Init
  <2>2. ASSUME NEW s \in Slots PROVE mem[s] = Null \/ \E o \in Objects : mem[s] = At(o, Home)
    <3>1. CASE s \in Roots
      <4>1. h[s] \in Objects /\ mem[s] = At(h[s], Home)
        BY <2>1, <3>1, HeapsAssumption
      <4> QED  BY <4>1
    <3>2. CASE s \in Bodies /\ s \notin Roots /\ s[1].at = Home /\ <<s[1].obj, s[2]>> \in DOMAIN h
      <4>1. s[1] \in Addr /\ s[2] \in Words /\ s[1].obj \in Objects
        BY <3>2, BodyParts, AddrParts
      <4>2. h[<<s[1].obj, s[2]>>] \in Objects
        BY <2>1, <3>2, <4>1, HeapsAssumption
      <4>3. mem[s] = At(h[<<s[1].obj, s[2]>>], Home)
        BY <2>1, <3>2
      <4> QED  BY <4>2, <4>3
    <3>3. CASE s \in Bodies /\ s \notin Roots /\ ~(s[1].at = Home /\ <<s[1].obj, s[2]>> \in DOMAIN h)
      BY <2>1, <3>3
    <3> QED  BY <3>1, <3>2, <3>3 DEF Slots
  <2>3. \A s \in Slots : mem[s] \in Values /\ (mem[s] # Null => mem[s].at = Home)
    BY <2>2, AddrParts DEF Values
  <2>4. mem = [s \in Slots |-> mem[s]]
    BY <2>1 DEF Slots
  <2> QED  BY <2>3, <2>4
<1>3. Queued = {}
  BY <1>1 DEF Queued, Range
<1>4. Idle \in Tasks /\ movers \subseteq Objects
  BY <1>1, HeapsAssumption DEF Idle, Tasks, Values
<1>5. MarkTypeOK
  <2>1. queue \in [Threads -> Seq(Jobs)] /\ pc \in [Threads -> Locations] /\ task \in [Threads -> Tasks]
    BY <1>1, <1>4 DEF Locations
  <2> QED  BY <1>1, <1>2, <1>4, <2>1 DEF MarkTypeOK
<1>6. EvacuationInv
  BY <1>1 DEF EvacuationInv, Copier, Evacuates
<1>7. PlacesInv /\ TaskInv /\ JobsInv
  BY <1>1, <1>2, <1>3 DEF PlacesInv, TaskInv, JobsInv, AtWork
<1>8. NothingForgotten
  <2>1. ASSUME NEW s \in Known PROVE Pending(s)
    <3>1. s \in Roots
      BY <1>1 DEF Known, WordsOf
    <3>2. (\E t \in Threads : s \in Range(RootsOf[t])) \/ s \in Range(GlobalRoots)
      BY <3>1 DEF Roots
    <3>3. ~globals /\ \A t \in Threads : pc[t] = "roots"
      BY <1>1
    <3> QED  BY <3>2, <3>3 DEF Pending
  <2> QED  BY <1>1, <2>1 DEF NothingForgotten
<1> QED  BY <1>5, <1>6, <1>7, <1>8 DEF MarkInv

LEMMA MarkStutter == ASSUME MarkInv, UNCHANGED vars PROVE MarkInv'
<1>1. UNCHANGED <<mem, movers, header, marked, globals, queue, pc, task>>
  BY DEF vars
<1>2. Known' = Known /\ Queued' = Queued /\ \A s : Settled(s)' = Settled(s)
  BY <1>1 DEF Known, Queued, Settled
<1>3. \A s : Pending(s)' = Pending(s)
  BY <1>1, <1>2 DEF Pending
<1>4. \A t \in Threads : StillTrue(t)' = StillTrue(t)
  BY <1>1, <1>2 DEF StillTrue, Evacuated, MovedTo
<1>5. \A t, o : Evacuates(t, o)' = Evacuates(t, o) /\ Copier(t, o)' = Copier(t, o)
  BY <1>1 DEF Evacuates, Copier
<1>6. MarkTypeOK'
  BY <1>1 DEF MarkInv, MarkTypeOK
<1>7. EvacuationInv' /\ PlacesInv'
  BY <1>1, <1>5 DEF MarkInv, EvacuationInv, PlacesInv, Evacuated
<1>8. TaskInv' /\ JobsInv' /\ NothingForgotten'
  BY <1>1, <1>2, <1>3, <1>4 DEF MarkInv, TaskInv, JobsInv, NothingForgotten
<1> QED  BY <1>6, <1>7, <1>8 DEF MarkInv

LEMMA MarkStep == ASSUME MarkInv, [Next]_vars PROVE MarkInv'
<1>1. ASSUME NEW t \in Threads, Step(t) PROVE MarkInv'
  BY <1>1, PushRootsKeeps, StealKeeps, PopMarkKeeps, PopScanKeeps, DrainedKeeps, CheckMarkKeeps,
     SetMarkKeeps, LoadHeaderKeeps, ForwardCasKeeps, CopyKeeps, CorrectKeeps, PublishKeeps,
     SpinAndLoadKeeps, FixSlotKeeps DEF Step
<1> QED  BY <1>1, MarkStutter DEF Next, Finished

THEOREM MarkInvariant == Spec => []MarkInv
BY MarkInit, MarkStep, PTL DEF Spec

\* An object is copied by one thread at most, and a thread that evacuates
\* never finds its slot changed: the compare-and-exchange on the header is
\* enough, for any number of threads.
THEOREM OneEvacuation == Spec => []EvacuatedOnce
<1>1. MarkInv => EvacuatedOnce
  <2> SUFFICES ASSUME MarkInv PROVE EvacuatedOnce
    OBVIOUS
  <2>1. ASSUME NEW o \in Objects PROVE Cardinality(Copies(o)) <= 1
    <3>1. \A t \in Copies(o) : t \in Threads /\ Copier(t, o)
      BY DEF Copies, Copier, Evacuates
    <3>2. CASE Copies(o) = {}
      BY <3>2, FS_EmptySet
    <3>3. CASE Copies(o) # {}
      <4>1. PICK t \in Copies(o) : TRUE
        BY <3>3
      <4>2. Copies(o) = {t}
        BY <3>1, <4>1 DEF MarkInv, EvacuationInv
      <4> QED  BY <4>2, FS_Singleton
    <3> QED  BY <3>2, <3>3
  <2>2. \A t \in Threads : pc[t] # "panic"
    BY DEF MarkInv, MarkTypeOK, Locations
  <2> QED  BY <2>1, <2>2 DEF EvacuatedOnce
<1> QED  BY <1>1, MarkInvariant, PTL

\* When marking is over, what the program can reach is marked and every
\* pointer it can follow leads to where the object is now, for any number of
\* threads, any graph and any choice of objects to evacuate.
THEOREM MarkingCompletes == Spec => []MarkComplete
<1>1. MarkInv => MarkComplete
  <2> SUFFICES ASSUME MarkInv, Done PROVE (Live \subseteq marked) /\ \A a \in Live : a = FinalPlace(a.obj)
    BY DEF MarkComplete
  <2>1. MarkTypeOK /\ marked \subseteq Addr
    BY DEF MarkInv, MarkTypeOK
  <2>2. Queued = {} /\ globals
    <3>1. \A t \in Threads : queue[t] = <<>> /\ pc[t] # "roots"
      BY DEF MarkInv, JobsInv, Done
    <3>2. \A t \in Threads : Range(queue[t]) = {}
      BY <3>1 DEF Range
    <3> QED  BY <3>1, <3>2, ThreadsAssumption DEF Queued, MarkInv, NothingForgotten
  <2>3. \A s \in Known : Settled(s)
    <3>1. ASSUME NEW s \in Known, Pending(s) PROVE FALSE
      BY <2>2, <3>1 DEF Pending, Done, AtWork
    <3> QED  BY <3>1 DEF MarkInv, NothingForgotten
  <2>4. Contents(Roots) \subseteq marked /\ Contents(WordsOf(marked)) \subseteq marked
    BY <2>3 DEF Contents, Settled, Known
  <2>5. Live \subseteq marked
    BY <2>1, <2>4 DEF Live
  <2>6. ASSUME NEW a \in marked PROVE a = FinalPlace(a.obj)
    <3>1. a \in Addr /\ a.obj \in Objects /\ a.at \in Threads \cup {Home} /\ a = At(a.obj, a.at)
          /\ ~Evacuated(a)
      BY <2>1, AddrParts DEF MarkInv, PlacesInv
    <3>2. CASE a.obj \in movers
      <4>1. a.at \in Threads /\ At(a.obj, a.at) \in marked
        BY <3>1, <3>2 DEF Evacuated
      <4>2. \A t \in Threads : At(a.obj, t) \in marked => t = a.at
        BY <3>1, <4>1 DEF MarkInv, EvacuationInv, Copier
      <4>3. (CHOOSE t \in Threads : At(a.obj, t) \in marked) = a.at
        BY <4>1, <4>2
      <4> QED  BY <3>1, <3>2, <4>3 DEF FinalPlace
    <3>3. CASE a.obj \notin movers
      <4>1. \A t \in Threads : At(a.obj, t) \notin marked
        BY <3>1, <3>3 DEF MarkInv, EvacuationInv
      <4> QED  BY <3>1, <3>3, <4>1 DEF FinalPlace
    <3> QED  BY <3>2, <3>3
  <2> QED  BY <2>5, <2>6
<1> QED  BY <1>1, MarkInvariant, PTL

\* Copying a body and correcting a pointer change where a root or a live
\* word leads, never to which object.
THEOREM PointersKeepObjects == Spec => KeepsItsObject
<1> DEFINE Kept == \A s \in DOMAIN mem :
                      s \in Roots \/ s[1] \in marked \/ (s[1].at = Home /\ s[1].obj \notin movers)
                         => SameObject(mem[s], mem'[s])
<1>1. \A v : SameObject(v, v)
  BY DEF SameObject
<1>2. ASSUME MarkInv, [Next]_vars PROVE [Kept]_vars
  <2>1. DOMAIN mem = Slots /\ MarkTypeOK
    BY <1>2 DEF MarkInv, MarkTypeOK
  <2>2. ASSUME mem' = mem PROVE Kept
    BY <1>1, <2>2
  <2>3. ASSUME NEW t \in Threads, Copy(t) PROVE Kept
    <3>1. \A s \in Slots : s \in Roots \/ s \in Bodies
      BY DEF Slots
    <3>2. \A s \in Bodies : s[1] \in marked => s \in Known
      BY <2>1, BodyParts, KnownSlots
    <3>3. Roots \subseteq Known
      BY DEF Known
    <3>4. ASSUME NEW s \in Slots,
                 s \in Roots \/ s[1] \in marked \/ (s[1].at = Home /\ s[1].obj \notin movers)
          PROVE  mem'[s] = mem[s]
      BY <1>2, <2>3, <3>1, <3>2, <3>3, <3>4, CopyKeeps
    <3> QED  BY <1>1, <2>1, <3>4
  <2>4. ASSUME NEW t \in Threads, Correct(t) \/ FixSlot(t) PROVE Kept
    <3>1. \A s \in Slots : mem'[s] = mem[s] \/ SameObject(mem[s], mem'[s])
      BY <1>2, <2>4, CorrectKeeps, FixSlotKeeps
    <3> QED  BY <1>1, <2>1, <3>1
  <2>5. ASSUME NEW t \in Threads, Step(t), ~Copy(t), ~Correct(t), ~FixSlot(t) PROVE mem' = mem
    BY <2>5 DEF Step, PushRoots, Steal, PopMark, PopScan, Drained, CheckMark, SetMark, LoadHeader,
                ForwardCas, Publish, SpinAndLoad
  <2>6. Next => Kept
    BY <2>2, <2>3, <2>4, <2>5 DEF Next, Finished, vars
  <2> QED  BY <1>2, <2>6
<1> QED  BY <1>2, MarkInvariant, PTL DEF Spec, KeepsItsObject
=======================================================================
