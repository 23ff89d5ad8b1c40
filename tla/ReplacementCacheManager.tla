------------------------ MODULE ReplacementCacheManager ------------------------
(***************************************************************************)
(* ReplacementCacheManager.java: the cache proper is t1 and t2; a key that *)
(* enters it from outside is announced to the listener.                    *)
(***************************************************************************)
EXTENDS MultipleQueueCacheManager

Cached == {"t1", "t2"}

\* Mutant: a move within the cache is announced as well.
AfterInsertAlways(m, k, source, destination) ==
    IF destination \in Cached THEN Load(m, k) ELSE m

\* afterInsert(entry, source, destination)
AfterInsert(m, k, source, destination) ==
    IF destination \in Cached /\ source \notin Cached THEN Load(m, k) ELSE m

InsertNode(m, k, to) == AfterInsert(Insert(m, k, to), k, NoQueue, to)

MoveNode(m, k, from, to) == AfterInsert(Move(m, k, from, to), k, from, to)

CacheSize(m) == Size(m, "t1") + Size(m, "t2")
=============================================================================
