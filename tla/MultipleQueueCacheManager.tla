----------------------- MODULE MultipleQueueCacheManager -----------------------
(***************************************************************************)
(* BaseCacheManager.java and MultipleQueueCacheManager.java: the state and *)
(* the building blocks shared by every policy that shuffles keys between   *)
(* queues.  A manager is a record                                          *)
(*   q        the queues of the subclass, by their registered names        *)
(*   loc      currentLocations; NoQueue is HashMap.get's null              *)
(*   resident the keys the listener holds: objectLoaded adds one,          *)
(*            objectReadyForEviction takes one away                        *)
(*   calls    the listener callbacks of the operation in progress          *)
(*   exc      what the operation in progress threw, or "none"              *)
(* A method that changes the manager is an operator from manager to        *)
(* manager.  Once one threw, every operator is the identity: the exception *)
(* unwinds the rest of the operation and nothing is rolled back.           *)
(* The hooks afterInsert and afterRemove belong to the subclasses, which   *)
(* wrap Insert and Move (and, for afterRemove, the removals).              *)
(***************************************************************************)
EXTENDS Integers, Sequences, SequencesExt

CONSTANTS
    Keys,               \* the cached objects (T)
    Removing            \* those for which the listener answers objectReadyForEviction(k)
                        \* with remove(k) on this manager: all with SimpleCache, none
                        \* with CacheHitSimulator

ASSUME ListenerAssumption == Removing \subseteq Keys

-----------------------------------------------------------------------------
(* QueueAdapter.java: a java.util.Queue over a LinkedHashSet.  The queue   *)
(* is a sequence without repetitions, head first.  Of poll and the         *)
(* no-argument remove, which differ on an empty queue (null,               *)
(* NoSuchElementException), the managers see only the latter's exception:  *)
(* the operators below are used under IsEmpty tests.                       *)

\* isEmpty()
IsEmpty(s) == s = << >>

\* add(e): LinkedHashSet.add leaves an element that is present where it is.
Add(s, e) == IF Contains(s, e) THEN s ELSE Append(s, e)

\* remove(Object): a no-op when the element is absent.
RemoveObject(s, e) == RemoveFirst(s, e)

\* The queue after poll() (or remove()) took its head.
Poll(s) == Tail(s)

\* The abstract queue: no element is held twice.
IsQueue(s) == \A i, j \in 1..Len(s) : s[i] = s[j] => i = j
-----------------------------------------------------------------------------
NoQueue == "null"

Callbacks == [call : {"load", "evict"}, key : Keys]

Managers(queues) ==
    [q : [queues -> Seq(Keys)],
     loc : [Keys -> queues \cup {NoQueue}],
     resident : SUBSET Keys,
     calls : Seq(Callbacks),
     exc : {"none", "NoSuchElement"}]

NewManager(queues) ==
    [q |-> [n \in queues |-> << >>],
     loc |-> [k \in Keys |-> NoQueue],
     resident |-> {}, calls |-> << >>, exc |-> "none"]

Size(m, n) == Len(m.q[n])

Threw(m) == m.exc # "none"

\* A public operation starts with no callback made and nothing thrown.
Begin(m) == [m EXCEPT !.calls = << >>, !.exc = "none"]

\* One queue's add(k), remove(k) or poll(), and currentLocations.put(k, n);
\* putting NoQueue is currentLocations.remove(k).
Added(q, n, k) == [q EXCEPT ![n] = Add(@, k)]
Taken(q, n, k) == [q EXCEPT ![n] = RemoveObject(@, k)]
Polled(q, n) == [q EXCEPT ![n] = Poll(@)]
Placed(loc, k, n) == [loc EXCEPT ![k] = n]

\* New contents for the queues and for currentLocations.
Reindex(m, q, loc) == [m EXCEPT !.q = q, !.loc = loc]

\* A listener callback about k, after which the listener holds the keys held.
Notify(m, callback, k, held) ==
    [m EXCEPT !.calls = Append(@, [call |-> callback, key |-> k]), !.resident = held]

\* load(object)
Load(m, k) == IF Threw(m) THEN m ELSE Notify(m, "load", k, m.resident \cup {k})

\* remove(hit), for the listener's re-entrant call and for other callers.
Forget(m, k) ==
    IF m.loc[k] = NoQueue THEN m
    ELSE Reindex(m, Taken(m.q, m.loc[k], k), Placed(m.loc, k, NoQueue))

\* evict(object): the listener may call back into remove(object).
Evict(m, k) ==
    IF Threw(m) THEN m
    ELSE LET told == Notify(m, "evict", k, m.resident \ {k})
         IN  IF k \in Removing THEN Forget(told, k) ELSE told

Throw(m) == [m EXCEPT !.exc = "NoSuchElement"]

\* insertNode(entry, destination), before afterInsert
Insert(m, k, to) ==
    IF Threw(m) THEN m
    ELSE Reindex(m, Added(m.q, to, k), Placed(m.loc, k, to))

\* moveNode(entry, currentLocation, to), before afterInsert
Move(m, k, from, to) ==
    IF Threw(m) THEN m
    ELSE Reindex(m, Added(Taken(m.q, from, k), to, k), Placed(m.loc, k, to))

\* Mutant: the entry is linked into its new queue after the listener was told.
EvictHeadToLate(m, from, to) ==
    IF Threw(m) THEN m
    ELSE IF IsEmpty(m.q[from]) THEN Throw(m)
    ELSE LET k    == Head(m.q[from])
             told == Evict(Reindex(m, Polled(m.q, from), Placed(m.loc, k, to)), k)
         IN  Reindex(told, Added(told.q, to, k), told.loc)

\* evict(moveHead(from, to)): the policies never call moveHead otherwise.
EvictHeadTo(m, from, to) ==
    IF Threw(m) THEN m
    ELSE IF IsEmpty(m.q[from]) THEN Throw(m)
    ELSE LET k == Head(m.q[from])
         IN  Evict(Reindex(m, Added(Polled(m.q, from), to, k), Placed(m.loc, k, to)), k)

\* evictNode(from): currentLocations still names from while the listener runs.
EvictNode(m, from) ==
    IF Threw(m) THEN m
    ELSE IF IsEmpty(m.q[from]) THEN Throw(m)
    ELSE LET k    == Head(m.q[from])
             told == Evict(Reindex(m, Polled(m.q, from), m.loc), k)
         IN  Reindex(told, told.q, Placed(told.loc, k, NoQueue))

\* removeNode(from)
RemoveNode(m, from) ==
    IF Threw(m) THEN m
    ELSE IF IsEmpty(m.q[from]) THEN Throw(m)
    ELSE Reindex(m, Polled(m.q, from), Placed(m.loc, Head(m.q[from]), NoQueue))

\* The owner of the cache drops its own copy of k and calls remove(k).
Removed(m, k) == Forget([m EXCEPT !.resident = @ \ {k}], k)

\* clear(), with every queue of the subclass emptied as its override does and
\* the owner dropping its objects.
EmptyManager(m) ==
    [Reindex(m, [n \in DOMAIN m.q |-> << >>], [k \in Keys |-> NoQueue])
        EXCEPT !.resident = {}]
-----------------------------------------------------------------------------
(* What the subclasses rely on: a key is in at most one queue, once, and   *)
(* currentLocations says in which.                                         *)
Located(q, loc) ==
    /\ \A n \in DOMAIN q : IsQueue(q[n])
    /\ \A n \in DOMAIN q : \A i \in 1..Len(q[n]) : loc[q[n][i]] = n
    /\ \A k \in Keys : loc[k] # NoQueue => Contains(q[loc[k]], k)
=============================================================================
