------------------------------ MODULE MCMemory ------------------------------
(***************************************************************************)
(* Simulated memory and the caches in front of it: a memory of three pages *)
(* in one bucket, or one cache of SSCache.  A behaviour is about one of    *)
(* them, and the other rests in its initial state.                         *)
(***************************************************************************)
EXTENDS PagedMemory, CacheLevel

CONSTANT Parts      \* "paged", "level"

VARIABLE part

\* Block zero, which no program touches, is reached in the smallest cache only.
MCGeometries ==
    {[nsets |-> 1, assoc |-> 3, hsize |-> 0, policy |-> p, hit_latency |-> 1,
      blocks |-> 1..4, max_time |-> 0, max_accesses |-> IF p = "LRU" THEN 5 ELSE 4] : p \in {"LRU", "FIFO"}}
    \cup {[nsets |-> 1, assoc |-> 2, hsize |-> 2, policy |-> "Random", hit_latency |-> 1,
           blocks |-> 1..3, max_time |-> 1, max_accesses |-> 4],
          [nsets |-> 2, assoc |-> 1, hsize |-> 0, policy |-> "LRU", hit_latency |-> 1,
           blocks |-> 0..3, max_time |-> 1, max_accesses |-> 4]}

vars == <<part, memVars, levelVars>>

Init ==
    /\ part \in Parts /\ MemInit /\ LevelInit
    /\ part # "level" => g = CHOOSE x \in Geometries : TRUE

Next ==
    \/ part = "paged" /\ MemNext /\ UNCHANGED <<part, levelVars>>
    \/ part = "level" /\ LevelNext /\ UNCHANGED <<part, memVars>>

Spec == Init /\ [][Next]_vars
=============================================================================
