-------------------- MODULE AdaptiveReplacementCacheManager --------------------
(***************************************************************************)
(* AdaptiveReplacementCacheManager.java (ARC).  visit(hit) is one action   *)
(* per case of onHit and onMiss; remove(hit) and clear() may come at any   *)
(* time between visits.  The class is not synchronized: its clients call   *)
(* it from one thread, so an operation is one step.                        *)
(***************************************************************************)
EXTENDS ReplacementCacheManager

CONSTANT MaxNodes       \* getConfig().getMaxNodes(); the default is 0

ASSUME MaxNodesAssumption == MaxNodes \in Nat

VARIABLES
    m,              \* the manager (MultipleQueueCacheManager)
    targetT1Size,   \* the adaptive target for t1
    older           \* history: <<a, b>> when b was visited after a's last visit

vars == <<m, targetT1Size, older>>

Queues == {"t1", "t2", "b1", "b2"}

LeftSideSize(mm) == Size(mm, "t1") + Size(mm, "b1")

DirectorySize(mm) == LeftSideSize(mm) + Size(mm, "t2") + Size(mm, "b2")

DirectoryCapacity == 2 * MaxNodes

AtLeast(a, b) == IF a >= b THEN a ELSE b

AtMost(a, b) == IF a <= b THEN a ELSE b

\* freeRoom(hitList): the victim's key stays behind in b1 or b2.
FreeRoom(mm, target, hitList) ==
    IF /\ ~IsEmpty(mm.q["t1"])
       /\ \/ Size(mm, "t1") > target
          \/ Size(mm, "t1") = target /\ hitList = "b2"
    THEN EvictHeadTo(mm, "t1", "b1")
    ELSE IF IsEmpty(mm.q["t2"]) THEN mm ELSE EvictHeadTo(mm, "t2", "b2")

After(R, k) == {p \in R : p[1] # k} \cup {<<a, k>> : a \in Keys \ {k}}
Visited(k) == older' = After(older, k)

Init ==
    /\ m = NewManager(Queues)
    /\ targetT1Size = 0
    /\ older = {}

\* Mutant: a hit in t2 does not move the key to the tail.
HitCachedInPlace(k) ==
    /\ m.loc[k] \in Cached
    /\ m' = IF m.loc[k] = "t2" THEN Begin(m) ELSE MoveNode(Begin(m), k, "t1", "t2")
    /\ Visited(k)
    /\ UNCHANGED targetT1Size

\* Case I: a hit in the cache proper.
HitCached(k) ==
    /\ m.loc[k] \in Cached
    /\ m' = MoveNode(Begin(m), k, m.loc[k], "t2")
    /\ Visited(k)
    /\ UNCHANGED targetT1Size

\* Mutant: the target is not capped by the capacity.
HitB1Uncapped(k) ==
    /\ m.loc[k] = "b1"
    /\ targetT1Size' = targetT1Size + AtLeast(Size(m, "b2") \div Size(m, "b1"), 1)
    /\ m' = MoveNode(FreeRoom(Begin(m), targetT1Size', "b1"), k, "b1", "t2")
    /\ Visited(k)

\* Case II: a ghost hit in b1 favours recency.
HitB1(k) ==
    /\ m.loc[k] = "b1"
    /\ targetT1Size' = AtMost(targetT1Size + AtLeast(Size(m, "b2") \div Size(m, "b1"), 1),
                              MaxNodes)
    /\ m' = MoveNode(FreeRoom(Begin(m), targetT1Size', "b1"), k, "b1", "t2")
    /\ Visited(k)

\* Case III: a ghost hit in b2 favours frequency.
HitB2(k) ==
    /\ m.loc[k] = "b2"
    /\ targetT1Size' = AtLeast(targetT1Size - AtLeast(Size(m, "b1") \div Size(m, "b2"), 1),
                               0)
    /\ m' = MoveNode(FreeRoom(Begin(m), targetT1Size', "b2"), k, "b2", "t2")
    /\ Visited(k)

Miss(k) == m.loc[k] = NoQueue /\ Visited(k) /\ UNCHANGED targetT1Size

\* Mutant: no ghost is dropped.
MissLeftSideFullKeepsGhost(k) ==
    /\ Miss(k)
    /\ LeftSideSize(m) >= MaxNodes
    /\ Size(m, "t1") < MaxNodes
    /\ m' = InsertNode(FreeRoom(Begin(m), targetT1Size, NoQueue), k, "t1")

\* Case IV.i.if: side 1 is full and b1 holds part of it.
MissLeftSideFull(k) ==
    /\ Miss(k)
    /\ LeftSideSize(m) >= MaxNodes
    /\ Size(m, "t1") < MaxNodes
    /\ m' = InsertNode(FreeRoom(RemoveNode(Begin(m), "b1"), targetT1Size, NoQueue), k, "t1")

\* Case IV.i.else: t1 alone fills side 1; its head leaves no ghost.
MissT1Full(k) ==
    /\ Miss(k)
    /\ LeftSideSize(m) >= MaxNodes
    /\ Size(m, "t1") >= MaxNodes
    /\ m' = InsertNode(EvictNode(Begin(m), "t1"), k, "t1")

\* Case IV.ii.if: the directory is full.
MissDirectoryFull(k) ==
    /\ Miss(k)
    /\ LeftSideSize(m) < MaxNodes
    /\ DirectorySize(m) >= MaxNodes
    /\ DirectorySize(m) >= DirectoryCapacity
    /\ m' = InsertNode(FreeRoom(RemoveNode(Begin(m), "b2"), targetT1Size, NoQueue), k, "t1")

\* Case IV.ii: at least MaxNodes keys known, directory not full.
MissCacheFull(k) ==
    /\ Miss(k)
    /\ LeftSideSize(m) < MaxNodes
    /\ DirectorySize(m) >= MaxNodes
    /\ DirectorySize(m) < DirectoryCapacity
    /\ m' = InsertNode(FreeRoom(Begin(m), targetT1Size, NoQueue), k, "t1")

\* Fall through: room in the cache.
MissRoom(k) ==
    /\ Miss(k)
    /\ LeftSideSize(m) < MaxNodes
    /\ DirectorySize(m) < MaxNodes
    /\ m' = InsertNode(Begin(m), k, "t1")

Visit(k) ==
    \/ HitCached(k) \/ HitB1(k) \/ HitB2(k)
    \/ MissLeftSideFull(k) \/ MissT1Full(k)
    \/ MissDirectoryFull(k) \/ MissCacheFull(k) \/ MissRoom(k)

\* remove(hit), from cache and ghost queues alike.
RemoveKey(k) ==
    /\ m' = Removed(Begin(m), k)
    /\ UNCHANGED <<targetT1Size, older>>

\* clear() empties the queues; targetT1Size keeps what it learned.
Clear ==
    /\ m' = EmptyManager(Begin(m))
    /\ UNCHANGED <<targetT1Size, older>>

Next ==
    \/ \E k \in Keys : Visit(k) \/ RemoveKey(k)
    \/ Clear

Spec == Init /\ [][Next]_vars
-----------------------------------------------------------------------------
\* Types of the manager's fields, and the target stays within the cache.
TypeOK ==
    /\ m \in Managers(Queues)
    /\ targetT1Size \in 0..MaxNodes
    /\ older \subseteq Keys \X Keys

\* The objects that the listener loaded and that were not evicted or removed since are
\* those of t1 and t2.
ListenerHoldsCache == m.resident = {k \in Keys : m.loc[k] \in Cached}

\* currentLocations, the four LinkedHashSets and the objects that the listener holds agree
\* after every operation, also when the listener removed the victim in the middle of it.
LocationsConsistent == Located(m.q, m.loc) /\ ListenerHoldsCache

\* What assertInvariants logs as an error when false, and the bound the class
\* documents for the cache proper.
SizesBounded ==
    /\ LeftSideSize(m) <= MaxNodes
    /\ CacheSize(m) <= MaxNodes
    /\ DirectorySize(m) <= DirectoryCapacity

\* A configured cache never takes the head of an empty queue.
NoException == MaxNodes > 0 => ~Threw(m)

\* The order ARC's analysis needs: the ghosts of each side were used less
\* recently than its cached keys, and each queue runs from the least recently
\* used key to the most recently used one.
InOrder(R, s) == \A i, j \in 1..Len(s) : i < j => <<s[i], s[j]>> \in R
AllBefore(R, s, t) == \A i \in 1..Len(s) : \A j \in 1..Len(t) : <<s[i], t[j]>> \in R
Aged(R, q) ==
    /\ InOrder(R, q["b1"]) /\ InOrder(R, q["t1"]) /\ AllBefore(R, q["b1"], q["t1"])
    /\ InOrder(R, q["b2"]) /\ InOrder(R, q["t2"]) /\ AllBefore(R, q["b2"], q["t2"])
RecencyOrder == Aged(older, m.q)

\* A visit of a resident key makes no callback, so none is repeated; another one loads
\* its key, once, after at most one eviction, of a resident key and never of a ghost.
Calls(c, k) == [call |-> c, key |-> k]
VisitNotifies ==
    [][\A k \in Keys : Visit(k) /\ MaxNodes > 0 =>
         IF k \in m.resident THEN m'.calls = << >>
         ELSE \/ m'.calls = <<Calls("load", k)>>
              \/ \E v \in m.resident \ {k} : m'.calls = <<Calls("evict", v), Calls("load", k)>>]_vars

\* ARC is a demand cache; it may evict although there is room, because onMiss
\* decides by the size of the directory, ghosts included, and remove(hit) takes
\* keys out of t1 and t2 only.
Abstract == INSTANCE DemandCache
    WITH resident <- m.resident, calls <- m.calls, Capacity <- MaxNodes,
         EvictEarly <- TRUE, LoadFirst <- FALSE
ImplementsDemandCache == Abstract!Spec
=============================================================================
