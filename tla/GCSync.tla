---------------------------- MODULE GCSync ----------------------------
(* The stop-the-world handshake of the Immix collector                   *)
(* (src/karte-gc/immix/src/collector.rs): registration of threads, the   *)
(* barrier in front of marking, the barrier behind it, per-thread        *)
(* sweeping, and the nanny that stands in for a thread blocked in native *)
(* code.                                                                 *)
(*                                                                       *)
(* One action is one critical section of GC_COLLECTOR_COUNT, one access  *)
(* of SWEEP_MUTEX or one access of an atomic.  A condition variable is a *)
(* set of sleepers: a thread in "asleep" runs again only after a         *)
(* notify_all, and then evaluates its wait_while predicate anew.         *)
(* The exit path (SHOULD_EXIT) is left out: nothing in the repository    *)
(* calls exit_block, and status.collecting only stops a collection that  *)
(* a finalizer or a scanner would start inside another one.              *)
EXTENDS Naturals, FiniteSets

CONSTANTS
    Threads,    \* the threads that may own a Collector
    PoolSize    \* workers of GlobalAllocator.pool, ThreadPool::default()

ASSUME ThreadsAssumption == IsFiniteSet(Threads)
ASSUME PoolAssumption == PoolSize \in Nat

VARIABLES
    pc,          \* where each thread's collector is
    ticket,      \* the local "waiting" of mark_fast_unwind, 0 outside the barrier
    stuck,       \* state of the nanny of a thread
    asleep,      \* threads blocked in GC_MARK_COND or SWEEP_COND
    count,       \* GC_COLLECTOR_COUNT.0, registered collectors
    waiting,     \* GC_COLLECTOR_COUNT.1, collectors inside a collection
    gcRunning,   \* GC_RUNNING
    gcMarking,   \* GC_MARKING
    gcSweeping,  \* GC_SWEEPING
    sweepLock,   \* the boolean SWEEP_MUTEX protects
    sweepNum     \* GC_SWEEPPING_NUM

flags == <<count, waiting, gcRunning, gcMarking, gcSweeping, sweepLock, sweepNum>>
vars == <<pc, ticket, stuck, asleep, flags>>

Locations == {"out", "regWait",                      \* not registered
              "mutator", "stuckWait", "stuck", "nanny",
              "collect", "arrive", "begin",          \* on the way to marking
              "mark", "end",
              "bigSweep", "sweep", "endGc", "release"}

NannyStates == {"no", "queued", "running", "stopping"}

\* The collectors GC_COLLECTOR_COUNT.0 counts.
Registered == {t \in Threads : pc[t] \notin {"out", "regWait"}}

\* Threads blocked on GC_MARK_COND and on SWEEP_COND.
OnMarkCond == {t \in asleep : pc[t] \in {"regWait", "begin", "end"}}
OnSweepCond == {t \in asleep : pc[t] = "collect"}

Goto(t, where) == pc' = [pc EXCEPT ![t] = where]

\* A collection is run by the thread itself or by its nanny.
Home(t) == IF stuck[t] = "no" THEN "mutator" ELSE "stuck"

Init ==
    /\ pc = [t \in Threads |-> "out"]
    /\ ticket = [t \in Threads |-> 0]
    /\ stuck = [t \in Threads |-> "no"]
    /\ asleep = {}
    /\ count = 0 /\ waiting = 0 /\ sweepNum = 0
    /\ gcRunning = FALSE /\ gcMarking = FALSE
    /\ gcSweeping = FALSE /\ sweepLock = FALSE

-----------------------------------------------------------------------
(* Registration.                                                        *)

\* Mutant: a new thread does not wait for the running collection.
RegisterAnytime(t) ==
    /\ pc[t] = "out"
    /\ Goto(t, "mutator")
    /\ count' = count + 1
    /\ asleep' = asleep \ OnMarkCond
    /\ UNCHANGED <<ticket, stuck, waiting, gcRunning, gcMarking, gcSweeping, sweepLock, sweepNum>>

\* Collector::new waits out a running collection, then counts itself in.
Register(t) ==
    /\ pc[t] \in {"out", "regWait"} /\ t \notin asleep
    /\ IF gcRunning
         THEN /\ Goto(t, "regWait")
              /\ asleep' = asleep \cup {t}
              /\ UNCHANGED count
         ELSE /\ Goto(t, "mutator")
              /\ count' = count + 1
              /\ asleep' = asleep \ OnMarkCond
    /\ UNCHANGED <<ticket, stuck, waiting, gcRunning, gcMarking, gcSweeping, sweepLock, sweepNum>>

\* Mutant: the thread that leaves does not notify GC_MARK_COND.
UnregisterQuietly(t) ==
    /\ pc[t] = "mutator"
    /\ Goto(t, "out")
    /\ count' = count - 1
    /\ UNCHANGED <<ticket, stuck, asleep, waiting, gcRunning, gcMarking, gcSweeping, sweepLock, sweepNum>>

\* unregister_current_thread and Drop: the others may now be complete.
Unregister(t) ==
    /\ pc[t] = "mutator"
    /\ Goto(t, "out")
    /\ count' = count - 1
    /\ asleep' = asleep \ OnMarkCond
    /\ UNCHANGED <<ticket, stuck, waiting, gcRunning, gcMarking, gcSweeping, sweepLock, sweepNum>>

-----------------------------------------------------------------------
(* Entering a collection.                                               *)

\* gc_collect, and the emergency collection of alloc_fast_unwind.
ExplicitCollect(t) ==
    /\ pc[t] = "mutator"
    /\ Goto(t, "collect")
    /\ UNCHANGED <<ticket, stuck, asleep, flags>>

\* collect_if_needed_fast_unwind joins a running collection ...
JoinAtSafepoint(t) ==
    /\ pc[t] = "mutator" /\ gcRunning
    /\ Goto(t, "collect")
    /\ UNCHANGED <<ticket, stuck, asleep, flags>>

\* ... or starts one, when should_gc() says so and nobody sweeps.
StartAtSafepoint(t) ==
    /\ pc[t] = "mutator" /\ ~gcRunning /\ ~gcSweeping
    /\ Goto(t, "collect")
    /\ UNCHANGED <<ticket, stuck, asleep, flags>>

\* SWEEP_COND.wait_while(sweeping), in front of the barrier.
AwaitSweep(t) ==
    /\ pc[t] = "collect" /\ t \notin asleep
    /\ IF sweepLock THEN asleep' = asleep \cup {t} /\ UNCHANGED pc
                    ELSE Goto(t, "arrive") /\ UNCHANGED asleep
    /\ UNCHANGED <<ticket, stuck, flags>>

-----------------------------------------------------------------------
(* The barrier in front of marking.                                     *)

\* Mutant: the sweepers of this collection are not counted.
OpenUncounted(t) ==
    /\ gcMarking' = TRUE
    /\ UNCHANGED sweepNum
    /\ asleep' = asleep \ OnMarkCond
    /\ Goto(t, "mark")
    /\ ticket' = [ticket EXCEPT ![t] = 0]

\* What the thread that completes the barrier does.
OpenBarrier(t) ==
    /\ gcMarking' = TRUE
    /\ sweepNum' = count
    /\ asleep' = asleep \ OnMarkCond
    /\ Goto(t, "mark")
    /\ ticket' = [ticket EXCEPT ![t] = 0]

\* The wait_while predicate does not hold the thread back, or it does.
PassBarrier(t, number) ==
    /\ IF gcMarking
         THEN /\ Goto(t, "mark")
              /\ ticket' = [ticket EXCEPT ![t] = 0]
              /\ UNCHANGED asleep
         ELSE /\ Goto(t, "begin")
              /\ ticket' = [ticket EXCEPT ![t] = number]
              /\ asleep' = asleep \cup {t}
    /\ UNCHANGED <<gcMarking, sweepNum>>

\* The first to arrive raises GC_RUNNING, the last opens the barrier.
Arrive(t) ==
    /\ pc[t] = "arrive"
    /\ gcRunning' = IF waiting = 0 THEN TRUE ELSE gcRunning
    /\ waiting' = waiting + 1
    /\ IF waiting' = count THEN OpenBarrier(t) ELSE PassBarrier(t, waiting')
    /\ UNCHANGED <<stuck, count, gcSweeping, sweepLock>>

\* The predicate anew: a thread that left may have completed the barrier.
BeginWake(t) ==
    /\ pc[t] = "begin" /\ t \notin asleep
    /\ IF ticket[t] = count THEN OpenBarrier(t) ELSE PassBarrier(t, ticket[t])
    /\ UNCHANGED <<stuck, count, waiting, gcRunning, gcSweeping, sweepLock>>

-----------------------------------------------------------------------
(* The barrier behind marking, and sweeping.                            *)

\* Mutant: SWEEP_MUTEX is not set before the threads are let go to sweep.
EndUnlocked(t) ==
    /\ pc[t] = "mark"
    /\ waiting' = waiting - 1
    /\ IF waiting = 1
         THEN /\ gcSweeping' = TRUE /\ gcMarking' = FALSE /\ gcRunning' = FALSE
              /\ asleep' = asleep \ OnMarkCond
              /\ Goto(t, "bigSweep")
         ELSE /\ asleep' = asleep \cup {t}
              /\ Goto(t, "end")
              /\ UNCHANGED <<gcSweeping, gcMarking, gcRunning>>
    /\ UNCHANGED <<ticket, stuck, count, sweepNum, sweepLock>>

\* mark_queue is done; the last thread ends the marking phase.
EndArrive(t) ==
    /\ pc[t] = "mark"
    /\ waiting' = waiting - 1
    /\ IF waiting = 1
         THEN /\ sweepLock' = TRUE /\ gcSweeping' = TRUE
              /\ gcMarking' = FALSE /\ gcRunning' = FALSE
              /\ asleep' = asleep \ OnMarkCond
              /\ Goto(t, "bigSweep")
         ELSE /\ asleep' = asleep \cup {t}
              /\ Goto(t, "end")
              /\ UNCHANGED <<sweepLock, gcSweeping, gcMarking, gcRunning>>
    /\ UNCHANGED <<ticket, stuck, count, sweepNum>>

EndWake(t) ==
    /\ pc[t] = "end" /\ t \notin asleep
    /\ IF waiting = 0 THEN Goto(t, "sweep") /\ UNCHANGED asleep
                      ELSE asleep' = asleep \cup {t} /\ UNCHANGED pc
    /\ UNCHANGED <<ticket, stuck, flags>>

\* sweep_big_objs, after the lock was dropped.
BigSweep(t) ==
    /\ pc[t] = "bigSweep"
    /\ Goto(t, "sweep")
    /\ UNCHANGED <<ticket, stuck, asleep, flags>>

\* The thread's own sweep up to GC_SWEEPPING_NUM.fetch_sub.
Sweep(t) ==
    /\ pc[t] = "sweep"
    /\ sweepNum' = sweepNum - 1
    /\ Goto(t, IF sweepNum = 1 THEN "endGc" ELSE Home(t))
    /\ UNCHANGED <<ticket, stuck, asleep, count, waiting, gcRunning, gcMarking, gcSweeping, sweepLock>>

\* The last sweeper: end_gc and GC_SWEEPING := false ...
EndGc(t) ==
    /\ pc[t] = "endGc"
    /\ gcSweeping' = FALSE
    /\ Goto(t, "release")
    /\ UNCHANGED <<ticket, stuck, asleep, count, waiting, gcRunning, gcMarking, sweepLock, sweepNum>>

\* Mutant: the threads waiting for the sweep are not notified.
ReleaseQuietly(t) ==
    /\ pc[t] = "release"
    /\ sweepLock' = FALSE
    /\ Goto(t, Home(t))
    /\ UNCHANGED <<ticket, stuck, asleep, count, waiting, gcRunning, gcMarking, gcSweeping, sweepNum>>

\* ... and SWEEP_MUTEX := false, which admits the next collection.
ReleaseSweep(t) ==
    /\ pc[t] = "release"
    /\ sweepLock' = FALSE
    /\ asleep' = asleep \ OnSweepCond
    /\ Goto(t, Home(t))
    /\ UNCHANGED <<ticket, stuck, count, waiting, gcRunning, gcMarking, gcSweeping, sweepNum>>

-----------------------------------------------------------------------
(* A thread blocked in native code and its nanny.                       *)

\* stuck_fast_unwind hands the nanny's loop to the pool and waits for it.
StuckBegin(t) ==
    /\ pc[t] = "mutator"
    /\ Goto(t, "stuckWait")
    /\ stuck' = [stuck EXCEPT ![t] = "queued"]
    /\ UNCHANGED <<ticket, asleep, flags>>

\* A nanny keeps its worker of the pool until unstuck.
NannyStart(t) ==
    /\ pc[t] = "stuckWait"
    /\ Cardinality({u \in Threads : stuck[u] \in {"running", "stopping"}}) < PoolSize
    /\ Goto(t, "stuck")
    /\ stuck' = [stuck EXCEPT ![t] = "running"]
    /\ UNCHANGED <<ticket, asleep, flags>>

\* unstuck sends the stop message, whatever the nanny is doing, and waits.
StuckEnd(t) ==
    /\ stuck[t] = "running"
    /\ stuck' = [stuck EXCEPT ![t] = "stopping"]
    /\ UNCHANGED <<pc, ticket, asleep, flags>>

\* Mutant: the nanny takes its stop message only while nothing is collected
\* or swept, and looks for work otherwise.
NannyPollWhenQuiet(t) ==
    /\ pc[t] = "stuck"
    /\ IF stuck[t] = "stopping" /\ ~gcRunning /\ ~gcSweeping
         THEN Goto(t, "mutator") /\ stuck' = [stuck EXCEPT ![t] = "no"]
         ELSE Goto(t, "nanny") /\ UNCHANGED stuck
    /\ UNCHANGED <<ticket, asleep, flags>>

\* The nanny's loop: answer the stop message, or go on to a safepoint.
\* The timed wait on STUCK_COND in between changes no state.
NannyPoll(t) ==
    /\ pc[t] = "stuck"
    /\ IF stuck[t] = "stopping"
         THEN Goto(t, "mutator") /\ stuck' = [stuck EXCEPT ![t] = "no"]
         ELSE Goto(t, "nanny") /\ UNCHANGED stuck
    /\ UNCHANGED <<ticket, asleep, flags>>

\* c.safepoint(): as at a mutator's safepoint, should_gc() may be true.
NannySafepoint(t) ==
    /\ pc[t] = "nanny"
    /\ \/ (gcRunning \/ ~gcSweeping) /\ Goto(t, "collect")
       \/ ~gcRunning /\ Goto(t, "stuck")
    /\ UNCHANGED <<ticket, stuck, asleep, flags>>

-----------------------------------------------------------------------
\* Steps the runtime takes by itself once it can.
Runtime(t) ==
    \/ AwaitSweep(t) \/ Arrive(t) \/ BeginWake(t)
    \/ EndArrive(t) \/ EndWake(t)
    \/ BigSweep(t) \/ Sweep(t) \/ EndGc(t) \/ ReleaseSweep(t)
    \/ NannyStart(t) \/ NannyPoll(t) \/ NannySafepoint(t)

\* Steps the program chooses.
Program(t) ==
    \/ Register(t) \/ Unregister(t)
    \/ ExplicitCollect(t) \/ JoinAtSafepoint(t) \/ StartAtSafepoint(t)
    \/ StuckBegin(t) \/ StuckEnd(t)

Next == \E t \in Threads : Runtime(t) \/ Program(t)

Spec == Init /\ [][Next]_vars

\* Locks are granted and notified threads run; a thread that is woken in
\* Collector::new goes on; and a thread that keeps running keeps reaching
\* safepoints (every allocation is one), which is all the collector can ask.
Fairness ==
    \A t \in Threads :
        /\ WF_vars(Runtime(t))
        /\ WF_vars(pc[t] = "regWait" /\ Register(t))
        /\ SF_vars(JoinAtSafepoint(t))

FairSpec == Spec /\ Fairness
-----------------------------------------------------------------------
(* What the handshake guarantees.                                        *)

\* Every variable of the handshake has its type.
TypeOK ==
    /\ pc \in [Threads -> Locations]
    /\ ticket \in [Threads -> Nat]
    /\ stuck \in [Threads -> NannyStates]
    /\ asleep \subseteq Threads
    /\ count \in Nat /\ waiting \in Nat /\ sweepNum \in Nat
    /\ gcRunning \in BOOLEAN /\ gcMarking \in BOOLEAN
    /\ gcSweeping \in BOOLEAN /\ sweepLock \in BOOLEAN

\* While one thread marks (mark_queue), every registered thread is inside
\* the two barriers: no mutator runs, nobody sweeps, and nobody is in the
\* part of collect_fast_unwind in front of the barrier, where the comment
\* asks that evacuation candidates be chosen before anyone marks.
WorldStopped ==
    (\E t \in Threads : pc[t] = "mark")
        => \A t \in Registered : pc[t] \in {"begin", "mark", "end"}

\* A thread sleeps on a condition variable only while somebody else still
\* has to move: no notify_all is missing. When threads that unregister make
\* a barrier complete, the last to have arrived is awake to find that out.
NoLostWakeup ==
    \A t \in asleep :
        /\ pc[t] = "begin" =>
               /\ ~gcMarking
               /\ \/ waiting # count
                  \/ \E u \in Threads \ asleep : pc[u] = "begin" /\ ticket[u] = count
        /\ pc[t] = "end" => waiting # 0
        /\ pc[t] = "regWait" => gcRunning
        /\ pc[t] = "collect" => sweepLock

\* The threads counted in sweepNum.
Owing == {t \in Threads : pc[t] \in {"end", "bigSweep", "sweep"}}

\* The handshake implements the abstract stop-the-world collection.
Abstract == INSTANCE StopTheWorld WITH
    registered <- Registered,
    marking <- gcMarking,
    unswept <- IF gcMarking THEN {} ELSE Owing

ImplementsStopTheWorld == Abstract!Spec

\* A thread that entered a collection gets out of it again.
CollectionsReturn ==
    \A t \in Threads :
        pc[t] = "collect" ~> pc[t] \in {"mutator", "stuck"}

\* thread_stuck_end blocks only until a running collection is finished.
UnstuckReturns ==
    \A t \in Threads : stuck[t] = "stopping" ~> stuck[t] = "no"

-----------------------------------------------------------------------
(* The inductive invariant behind the safety properties.                 *)

\* The threads counted in waiting, and the last sweeper of a collection.
Inside == {t \in Threads : pc[t] \in {"begin", "mark"}}
Closing == {t \in Threads : pc[t] \in {"endGc", "release"}}

\* The two counters of GC_COLLECTOR_COUNT count what they are meant to.
CountersExact ==
    /\ count = Cardinality(Registered)
    /\ waiting = Cardinality(Inside)
    /\ gcRunning <=> waiting # 0

\* While GC_MARKING is up, the barrier holds every registered thread.
MarkingHolds ==
    /\ gcMarking => /\ \A t \in Registered : pc[t] \in {"begin", "mark", "end"}
                    /\ waiting # 0 /\ sweepNum = count
    /\ ~gcMarking => \A t \in Threads :
                        /\ pc[t] # "mark"
                        /\ pc[t] = "begin" => ticket[t] <= waiting

\* SWEEP_MUTEX keeps everyone out of the barrier until the sweep is paid off.
SweepHolds ==
    /\ sweepLock => /\ waiting = 0 /\ sweepNum = Cardinality(Owing)
                    /\ \A t \in Threads : pc[t] # "arrive"
    /\ ~sweepLock /\ ~gcMarking => Owing = {} /\ Closing = {}
    /\ \A t, u \in Closing : t = u
    /\ Closing # {} => sweepNum = 0

HandshakeInv == TypeOK /\ CountersExact /\ MarkingHolds /\ SweepHolds

\* What a sleeper waits for has not happened, and the last to have arrived
\* at the barrier is still in front of it.
SleepersWait ==
    /\ \A t \in asleep :
        /\ pc[t] \in {"regWait", "collect", "begin", "end"}
        /\ pc[t] = "begin" => ~gcMarking /\ ticket[t] # count
        /\ pc[t] = "end" => waiting # 0
        /\ pc[t] = "regWait" => gcRunning
        /\ pc[t] = "collect" => sweepLock
    /\ ~gcMarking /\ waiting # 0 =>
        \E u \in Threads : pc[u] = "begin" /\ ticket[u] = waiting

WakeupInv == HandshakeInv /\ SleepersWait
=======================================================================
