------------------------------ MODULE DemandCache ------------------------------
(***************************************************************************)
(* What every CacheManager promises to the listener that holds the         *)
(* objects: the listener never holds more than Capacity objects, a visit   *)
(* of a key it holds changes nothing, and a visit of another key loads     *)
(* exactly that key and evicts at most one.  Which key is evicted is the   *)
(* policy's business and left open.                                        *)
(***************************************************************************)
EXTENDS Naturals, Sequences, FiniteSets

CONSTANTS
    Keys,
    Capacity,
    EvictEarly,     \* the policy may evict although there is room
    LoadFirst       \* it announces the load before the eviction: between the two
                    \* callbacks the listener holds one object too many

VARIABLES
    resident,       \* the keys whose objects the listener holds
    calls           \* the callbacks of the last operation

vars == <<resident, calls>>

Init == resident = {} /\ calls = << >>

\* A visit of a held key, and a visit that fails before it changed anything.
Hit == UNCHANGED resident /\ calls' = << >>

LoadKey(k) ==
    /\ k \notin resident
    /\ Cardinality(resident) < Capacity
    /\ resident' = resident \cup {k}
    /\ calls' = <<[call |-> "load", key |-> k]>>

Replace(v, k) ==
    /\ k \notin resident /\ v \in resident
    /\ EvictEarly \/ Cardinality(resident) = Capacity
    /\ resident' = (resident \ {v}) \cup {k}
    /\ calls' = LET evict == [call |-> "evict", key |-> v]
                    load  == [call |-> "load", key |-> k]
                IN  IF LoadFirst THEN <<load, evict>> ELSE <<evict, load>>

\* The owner takes objects out itself: remove(k), clear().
Leave(gone) == resident' = resident \ gone /\ calls' = << >>

Next ==
    \/ Hit
    \/ \E k \in Keys : LoadKey(k) \/ \E v \in resident : Replace(v, k)
    \/ \E k \in Keys : Leave({k})
    \/ Leave(resident)

Spec == Init /\ [][Next]_vars
=============================================================================
