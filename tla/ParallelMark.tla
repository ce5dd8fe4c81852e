------------------------- MODULE ParallelMark -------------------------
(* One marking phase of the Immix collector                              *)
(* (src/karte-gc/immix/src/collector.rs): threads trace the object graph *)
(* from their roots with work-stealing queues, and evacuate the objects  *)
(* of candidate blocks while others trace the same objects.              *)
(*                                                                       *)
(* Memory is words: a slot is a root or a word of an object's body, at   *)
(* the object's home or in the copy a thread made. The first word of an  *)
(* evacuated body is overwritten by the forwarding pointer, as in the    *)
(* code. What happens to line and block marks is in another module; an   *)
(* object that is pinned, big or outside a candidate block never moves.  *)
EXTENDS Naturals, Sequences, FiniteSets, SequencesExt

CONSTANTS
    Threads,      \* the threads that passed the barrier in front of marking
    Objects,
    Words,        \* 1 .. n, the words of a body
    RootsOf,      \* a thread's root slots, as a sequence
    GlobalRoots,  \* register_global's slots, as a sequence
    Heaps,        \* initial contents of root slots and bodies
    Movers,       \* sets of objects that may be the ones to be evacuated
    Null          \* a word that is no pointer into the heap

Home == "home"
Addr == [obj : Objects, at : Threads \cup {Home}]
At(o, place) == [obj |-> o, at |-> place]

Roots == (UNION {Range(RootsOf[t]) : t \in Threads}) \cup Range(GlobalRoots)
Bodies == {<<a, i>> : a \in Addr, i \in Words}
Slots == Roots \cup Bodies
Values == Addr \cup {Null}
FirstWord(a) == <<a, 1>>

\* Somebody marks; bodies have a first word; root slots are no words of a
\* body; at first roots and words hold objects.
ASSUME ThreadsAssumption == IsFiniteSet(Threads) /\ Threads # {} /\ Home \notin Threads
ASSUME WordsAssumption == IsFiniteSet(Words) /\ Words # {} /\ Words = 1..Cardinality(Words)
ASSUME RootsAssumption ==
    /\ RootsOf \in [Threads -> Seq(Roots)] /\ GlobalRoots \in Seq(Roots)
    /\ Roots \cap Bodies = {} /\ Null \notin Addr \cup Slots
ASSUME HeapsAssumption ==
    /\ \A h \in Heaps :
        /\ \A r \in Roots : h[r] \in Objects
        /\ \A o \in Objects, i \in Words : <<o, i>> \in DOMAIN h => h[<<o, i>>] \in Objects
    /\ Movers \subseteq SUBSET Objects

VARIABLES
    mem,      \* contents of the slots: an address or Null
    movers,   \* objects in candidate blocks that are not pinned
    header,   \* forwarding bits of a home: "plain", "busy" (0x40), "forwarded" (0x60)
    marked,   \* addresses whose mark bit is set
    globals,  \* GLOBAL_MARK_FLAG
    queue,    \* the worker queues: slots to mark, addresses to scan
    pc,
    empties,  \* stealers still to ask, and how many were found empty
    task      \* the locals of mark_ptr: the slot ("father") it was called for,
              \* the address read there, the header read, the corrected pointer

vars == <<mem, movers, header, marked, globals, queue, pc, empties, task>>

Idle == [slot |-> Null, ptr |-> Null, seen |-> "plain", np |-> Null]

Init ==
    /\ \E h \in Heaps : mem = [s \in Roots \cup Bodies |->
            IF s \in Roots THEN At(h[s], Home)
            ELSE IF s[1].at = Home /\ <<s[1].obj, s[2]>> \in DOMAIN h
                 THEN At(h[<<s[1].obj, s[2]>>], Home) ELSE Null]
    /\ movers \in Movers
    /\ header = [o \in Objects |-> "plain"]
    /\ marked = {}
    /\ globals = FALSE
    /\ queue = [t \in Threads |-> <<>>]
    /\ pc = [t \in Threads |-> "roots"]
    /\ empties = [t \in Threads |-> [left |-> {}, found |-> 0]]
    /\ task = [t \in Threads |-> Idle]

Goto(t, where) == pc' = [pc EXCEPT ![t] = where]
Return(t) == Goto(t, "drain") /\ task' = [task EXCEPT ![t] = Idle]
Push(t, jobs) == queue' = [queue EXCEPT ![t] = @ \o jobs]

Mark(slot) == [kind |-> "mark", what |-> slot]
Scan(addr) == [kind |-> "scan", what |-> addr]
MarkAll(slots) == [i \in DOMAIN slots |-> Mark(slots[i])]

\* A new round over the stealers, the thread's own among them.
NewRound == [left |-> Threads, found |-> 0]

-----------------------------------------------------------------------
(* Roots and queues.                                                     *)

\* A thread queues its roots; one of them, by GLOBAL_MARK_FLAG, the globals.
PushRoots(t) ==
    /\ pc[t] = "roots"
    /\ Push(t, IF globals THEN MarkAll(RootsOf[t])
                          ELSE MarkAll(RootsOf[t]) \o MarkAll(GlobalRoots))
    /\ globals' = TRUE
    /\ empties' = [empties EXCEPT ![t] = NewRound]
    /\ Goto(t, "steal")
    /\ UNCHANGED <<mem, movers, header, marked, task>>

\* One stealer.steal_batch(&self.queue): nothing there, half of it moved
\* over, or a lost race (Retry). A thread's own stealer moves nothing.
Steal(t, v) ==
    /\ pc[t] = "steal" /\ v \in empties[t].left
    /\ empties' = [empties EXCEPT ![t] =
                     [left |-> @.left \ {v},
                      found |-> IF queue[v] = <<>> THEN @.found + 1 ELSE @.found]]
    /\ LET half == (Len(queue[v]) + 1) \div 2 IN
         \/ /\ v # t /\ queue[v] # <<>>
            /\ queue' = [queue EXCEPT ![v] = SubSeq(@, half + 1, Len(@)),
                                      ![t] = @ \o SubSeq(queue[v], 1, half)]
         \/ UNCHANGED queue
    /\ Goto(t, IF empties[t].left = {v} THEN "drain" ELSE "steal")
    /\ UNCHANGED <<mem, movers, header, marked, globals, task>>

\* self.queue.pop() of a slot: load it, and see where the object is.
PopMark(t) ==
    /\ pc[t] = "drain" /\ queue[t] # <<>> /\ Last(queue[t]).kind = "mark"
    /\ LET slot == Last(queue[t]).what  a == mem[slot] IN
         \/ a = Null /\ Return(t)
         \/ /\ a # Null
            /\ task' = [task EXCEPT ![t].slot = slot, ![t].ptr = a]
            /\ Goto(t, IF a.at = Home /\ a.obj \in movers THEN "try" ELSE "check")
    /\ queue' = [queue EXCEPT ![t] = Front(@)]
    /\ UNCHANGED <<mem, movers, header, marked, globals, empties>>

\* self.queue.pop() of an object: mark_conservative queues its words, after
\* following a forwarding pointer.
PopScan(t) ==
    /\ pc[t] = "drain" /\ queue[t] # <<>> /\ Last(queue[t]).kind = "scan"
    /\ LET a == Last(queue[t]).what
           body == IF a.at = Home /\ header[a.obj] = "forwarded" THEN mem[FirstWord(a)] ELSE a
       IN  queue' = [queue EXCEPT ![t] = Front(@) \o
                        MarkAll([i \in Words |-> <<body, i>>])]
    /\ UNCHANGED <<mem, movers, header, marked, globals, pc, empties, task>>

\* The queue is drained: leave if every stealer was empty in this round.
Drained(t) ==
    /\ pc[t] = "drain" /\ queue[t] = <<>>
    /\ IF empties[t].found = Cardinality(Threads)
         THEN Goto(t, "done") /\ UNCHANGED empties
         ELSE Goto(t, "steal") /\ empties' = [empties EXCEPT ![t] = NewRound]
    /\ UNCHANGED <<mem, movers, header, marked, globals, queue, task>>

-----------------------------------------------------------------------
(* mark_ptr on an object that stays: test, then set, the mark bit.       *)

CheckMark(t) ==
    /\ pc[t] = "check"
    /\ IF task[t].ptr \in marked THEN Return(t)
                                 ELSE Goto(t, "set") /\ UNCHANGED task
    /\ UNCHANGED <<mem, movers, header, marked, globals, queue, empties>>

SetMark(t) ==
    /\ pc[t] = "set"
    /\ marked' = marked \cup {task[t].ptr}
    /\ Push(t, <<Scan(task[t].ptr)>>)
    /\ Return(t)
    /\ UNCHANGED <<mem, movers, header, globals, empties>>

-----------------------------------------------------------------------
(* mark_ptr on an object to be evacuated.                                *)

\* get_forward_start
LoadHeader(t) ==
    /\ pc[t] = "try"
    /\ task' = [task EXCEPT ![t].seen = header[task[t].ptr.obj]]
    /\ Goto(t, "cas")
    /\ UNCHANGED <<mem, movers, header, marked, globals, queue, empties>>

\* Mutant: the header is stored, not compared and exchanged.
ForwardStore(t) ==
    /\ pc[t] = "cas"
    /\ LET o == task[t].ptr.obj IN
         IF task[t].seen = "plain"
           THEN header' = [header EXCEPT ![o] = "busy"] /\ Goto(t, "copy")
           ELSE Goto(t, "spin") /\ UNCHANGED header
    /\ UNCHANGED <<mem, movers, marked, globals, queue, empties, task>>

\* forward_cas: who turned a plain header busy evacuates, the others wait.
ForwardCas(t) ==
    /\ pc[t] = "cas"
    /\ LET o == task[t].ptr.obj IN
         IF task[t].seen = "plain" /\ header[o] = "plain"
           THEN header' = [header EXCEPT ![o] = "busy"] /\ Goto(t, "copy")
           ELSE Goto(t, "spin") /\ UNCHANGED header
    /\ UNCHANGED <<mem, movers, marked, globals, queue, empties, task>>

\* Allocate, copy the body, leave the forwarding pointer, mark the copy.
Copy(t) ==
    /\ pc[t] = "copy"
    /\ LET old == task[t].ptr  new == At(old.obj, t) IN
         /\ mem' = [s \in DOMAIN mem |->
                      IF s = FirstWord(old) THEN new
                      ELSE IF s \in Bodies /\ s[1] = new THEN mem[<<old, s[2]>>]
                      ELSE mem[s]]
         /\ marked' = marked \cup {new}
    /\ Goto(t, "correct")
    /\ UNCHANGED <<movers, header, globals, queue, empties, task>>

\* correct_ptr reads the slot again, and the first word of whatever object
\* the slot points to by now.
Corrected(t) == mem[FirstWord(mem[task[t].slot])]

\* correct_ptr by the evacuating thread: a lost race is a panic.
Correct(t) ==
    /\ pc[t] = "correct"
    /\ IF mem[task[t].slot] = task[t].ptr
         THEN mem' = [mem EXCEPT ![task[t].slot] = Corrected(t)] /\ Goto(t, "publish")
         ELSE Goto(t, "panic") /\ UNCHANGED mem
    /\ UNCHANGED <<movers, header, marked, globals, queue, empties, task>>

\* Mutant: set_forwarded is forgotten.
PublishNothing(t) ==
    /\ pc[t] = "publish"
    /\ Push(t, <<Scan(At(task[t].ptr.obj, t))>>)
    /\ Return(t)
    /\ UNCHANGED <<mem, movers, header, marked, globals, empties>>

\* set_forwarded releases the waiting threads; the copy is queued.
Publish(t) ==
    /\ pc[t] = "publish"
    /\ header' = [header EXCEPT ![task[t].ptr.obj] = "forwarded"]
    /\ Push(t, <<Scan(At(task[t].ptr.obj, t))>>)
    /\ Return(t)
    /\ UNCHANGED <<mem, movers, marked, globals, empties>>

\* spin_until!(get_forwarded()), then the loads of correct_ptr ...
SpinAndLoad(t) ==
    /\ pc[t] = "spin"
    /\ header[task[t].ptr.obj] = "forwarded"
    /\ task' = [task EXCEPT ![t].np = Corrected(t)]
    /\ Goto(t, "fix")
    /\ UNCHANGED <<mem, movers, header, marked, globals, queue, empties>>

\* Mutants: a plain store in the place of the exchange; no correction at all.
FixByStore(t) ==
    /\ pc[t] = "fix"
    /\ mem' = [mem EXCEPT ![task[t].slot] = task[t].np]
    /\ Return(t)
    /\ UNCHANGED <<movers, header, marked, globals, queue, empties>>
FixNothing(t) ==
    /\ pc[t] = "fix"
    /\ Return(t)
    /\ UNCHANGED <<mem, movers, header, marked, globals, queue, empties>>

\* ... and its compare_exchange, whose failure is ignored.
FixSlot(t) ==
    /\ pc[t] = "fix"
    /\ mem' = IF mem[task[t].slot] = task[t].ptr
                THEN [mem EXCEPT ![task[t].slot] = task[t].np] ELSE mem
    /\ Return(t)
    /\ UNCHANGED <<movers, header, marked, globals, queue, empties>>

-----------------------------------------------------------------------
Step(t) ==
    \/ PushRoots(t) \/ (\E v \in Threads : Steal(t, v))
    \/ PopMark(t) \/ PopScan(t) \/ Drained(t)
    \/ CheckMark(t) \/ SetMark(t)
    \/ LoadHeader(t) \/ ForwardCas(t) \/ Copy(t) \/ Correct(t) \/ Publish(t)
    \/ SpinAndLoad(t) \/ FixSlot(t)

Done == \A t \in Threads : pc[t] = "done"

\* The barrier behind marking takes over.
Finished == Done /\ UNCHANGED vars

Next == (\E t \in Threads : Step(t)) \/ Finished

\* Every thread of the barrier is scheduled.
Spec == Init /\ [][Next]_vars /\ \A t \in Threads : WF_vars(Step(t))

-----------------------------------------------------------------------
(* What a marking phase of ParallelMark guarantees.                  *)

\* The copies of an object that threads have finished or begun.
Copies(o) == {t \in Threads : \/ At(o, t) \in marked
                              \/ pc[t] = "copy" /\ task[t].ptr = At(o, Home)}

\* forward_cas lets one thread evacuate an object, and the panic "The thread
\* evacuated pointer changed by another thread during evacuation" is dead code.
EvacuatedOnce ==
    /\ \A o \in Objects : Cardinality(Copies(o)) <= 1
    /\ \A t \in Threads : pc[t] # "panic"

\* The address a pointer to o must hold after the collection.
FinalPlace(o) == IF o \in movers THEN At(o, CHOOSE t \in Threads : At(o, t) \in marked)
                                 ELSE At(o, Home)

\* What the program can reach after marking: what lies in every set that has
\* the objects of the roots and, with an object, those its words point to.
Contents(slots) == {mem[s] : s \in slots} \ {Null}
WordsOf(addrs) == {<<a, i>> : a \in addrs, i \in Words}
Live ==
    {a \in Addr : \A S \in SUBSET Addr :
        Contents(Roots) \subseteq S /\ Contents(WordsOf(S)) \subseteq S => a \in S}

\* When all threads have left mark_queue, everything the program reaches is
\* marked, and no root or word it reaches still points to an evacuated home.
MarkComplete ==
    Done => /\ Live \subseteq marked
            /\ \A a \in Live : a = FinalPlace(a.obj)

\* A root, or a word of a body that holds live data, never comes to point to
\* another object: correcting a pointer changes its address and nothing else.
SameObject(v, w) == IF v = Null \/ w = Null THEN v = w ELSE v.obj = w.obj
KeepsItsObject ==
    [][\A s \in DOMAIN mem :
          s \in Roots \/ s[1] \in marked \/ (s[1].at = Home /\ s[1].obj \notin movers)
              => SameObject(mem[s], mem'[s])]_vars

\* Marking ends, unless threads pass a job to and fro for ever without one of
\* them getting to pop it: no thread spins for a forwarding that never comes,
\* no job is scanned again and again, and the rounds over the stealers end.
StealingStops ==
    <>[][\A t \in Threads : pc[t] = "steal" => queue'[t] = queue[t]]_vars
MarkingEnds == StealingStops => <>Done

-----------------------------------------------------------------------
(* The inductive invariant behind EvacuatedOnce, MarkComplete and        *)
(* KeepsItsObject.                                                       *)

Locations == {"roots", "steal", "drain", "check", "set", "try", "cas", "copy", "correct",
              "publish", "spin", "fix", "done"}
Tasks == [slot : Slots \cup {Null}, ptr : Values, seen : {"plain", "busy", "forwarded"},
          np : Values]
Jobs == {Mark(s) : s \in Slots} \cup {Scan(a) : a \in Addr}

MarkTypeOK ==
    /\ mem \in [Slots -> Values] /\ movers \subseteq Objects /\ marked \subseteq Addr
    /\ header \in [Objects -> {"plain", "busy", "forwarded"}]
    /\ globals \in BOOLEAN
    /\ queue \in [Threads -> Seq(Jobs)]
    /\ pc \in [Threads -> Locations]
    /\ task \in [Threads -> Tasks]

\* Homes that are given up, and who does or did it.
Evacuated(a) == a.at = Home /\ a.obj \in movers
Evacuates(t, o) == pc[t] \in {"copy", "correct", "publish"} /\ task[t].ptr = At(o, Home)
Copier(t, o) == Evacuates(t, o) \/ At(o, t) \in marked

\* One thread evacuates an object, the header says how far it is, and the
\* forwarding pointer leads to its copy.
EvacuationInv ==
    /\ \A o \in Objects : \A t, u \in Threads : Copier(t, o) /\ Copier(u, o) => t = u
    /\ \A o \in Objects :
        /\ header[o] = "busy" => \E t \in Threads : Evacuates(t, o)
        /\ header[o] # "busy" => \A t \in Threads : ~Evacuates(t, o)
        /\ header[o] = "plain" => \A t \in Threads : At(o, t) \notin marked
        /\ header[o] = "forwarded" => \E t \in Threads : At(o, t) \in marked
        /\ o \notin movers => header[o] = "plain"
    /\ \A o \in Objects : \A t \in Threads :
        At(o, t) \in marked => mem[FirstWord(At(o, Home))] = At(o, t)
    /\ \A t \in Threads :
        /\ pc[t] = "copy" => At(task[t].ptr.obj, t) \notin marked
        /\ pc[t] \in {"correct", "publish"} => At(task[t].ptr.obj, t) \in marked

\* What is marked stays where it is, and so does what points to a copy.
PlacesInv ==
    /\ \A a \in marked : ~Evacuated(a)
    /\ \A s \in Slots : mem[s] # Null /\ mem[s].at # Home => mem[s] \in marked

\* The slots marking knows of, and those it is done with.
Known == Roots \cup WordsOf(marked)
Settled(s) == mem[s] = Null \/ mem[s] \in marked
MovedTo(a, o) == a \in marked /\ a.obj = o

\* What a thread has found out about the slot it works on is still true.
AtWork == {"check", "set", "try", "cas", "copy", "correct", "publish", "spin", "fix"}
StillTrue(t) ==
    /\ task[t].slot \in Known /\ task[t].ptr \in Addr
    /\ Evacuated(task[t].ptr) <=> pc[t] \notin {"check", "set"}
    /\ pc[t] \in {"check", "set", "copy", "correct"} => mem[task[t].slot] = task[t].ptr
    /\ pc[t] \in {"try", "cas", "spin", "fix"} =>
            mem[task[t].slot] = task[t].ptr \/ MovedTo(mem[task[t].slot], task[t].ptr.obj)
    /\ pc[t] = "publish" => MovedTo(mem[task[t].slot], task[t].ptr.obj)
    /\ pc[t] = "fix" =>
        /\ header[task[t].ptr.obj] = "forwarded"
        /\ mem[task[t].slot] = task[t].ptr => MovedTo(task[t].np, task[t].ptr.obj)
TaskInv == \A t \in Threads : pc[t] \in AtWork => StillTrue(t)

\* Jobs are about known slots and marked objects, and a thread leaves none.
Queued == UNION {Range(queue[t]) : t \in Threads}
JobsInv ==
    /\ \A s \in Slots : Mark(s) \in Queued => s \in Known
    /\ \A a \in Addr : Scan(a) \in Queued => a \in marked
    /\ \A t \in Threads : pc[t] = "done" => queue[t] = <<>>

\* Whatever has not been dealt with is somebody's job.
Pending(s) ==
    \/ Mark(s) \in Queued
    \/ \E t \in Threads : pc[t] \in AtWork /\ task[t].slot = s
    \/ \E t \in Threads : pc[t] = "roots" /\ s \in Range(RootsOf[t])
    \/ ~globals /\ s \in Range(GlobalRoots)
    \/ \E a \in marked : s \in WordsOf({a}) /\
        \/ Scan(a) \in Queued
        \/ \E t \in Threads : pc[t] \in {"correct", "publish"} /\ a = At(task[t].ptr.obj, t)
NothingForgotten ==
    /\ \A s \in Known : Settled(s) \/ Pending(s)
    /\ ~globals => \A t \in Threads : pc[t] = "roots"

MarkInv == MarkTypeOK /\ EvacuationInv /\ PlacesInv /\ TaskInv /\ JobsInv /\ NothingForgotten
=======================================================================
