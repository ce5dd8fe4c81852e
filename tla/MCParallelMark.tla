------------------------ MODULE MCParallelMark ------------------------
(* ParallelMark for TLC: two threads with a root each and one global, on *)
(* object graphs with sharing, a cycle and an object only a copy keeps.  *)
EXTENDS ParallelMark, TLC

CONSTANTS t1, t2, o1, o2, o3, r1, r2, g

MCRootsOf == t1 :> <<r1>> @@ t2 :> <<r2>>
MCGlobalRoots == <<g>>

\* Both threads start from the same object; a cycle through all three.
SharedCycle == r1 :> o1 @@ r2 :> o1 @@ g :> o2
            @@ <<o1, 1>> :> o2 @@ <<o1, 2>> :> o3 @@ <<o2, 1>> :> o3 @@ <<o3, 2>> :> o1
\* Two parents of one child.
Diamond == r1 :> o1 @@ r2 :> o2 @@ g :> o1
        @@ <<o1, 1>> :> o3 @@ <<o1, 2>> :> o3 @@ <<o2, 2>> :> o3
\* Two words of one object point to the object itself.
SelfLoop == r1 :> o1 @@ r2 :> o2 @@ g :> o2
         @@ <<o1, 1>> :> o1 @@ <<o1, 2>> :> o2 @@ <<o2, 1>> :> o2

MCHeaps == {SharedCycle, Diamond, SelfLoop}
MCMovers == {{o1, o2, o3}, {o1, o3}, {o2}}
=======================================================================
