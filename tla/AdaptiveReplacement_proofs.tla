----------------------- MODULE AdaptiveReplacement_proofs -----------------------
(***************************************************************************)
(* The invariants of AdaptiveReplacementCacheManager, for every set of     *)
(* keys, every capacity and any keys that the listener removes.  Each      *)
(* operator of a manager has a lemma (InsertNodeARC, MoveNodeARC,          *)
(* FreeRoomARC), each case of onHit and onMiss one more, and Inductive     *)
(* collects them.  Then the refinement: to its listener the manager is a   *)
(* demand cache, and last that the queues keep the order of use.           *)
(***************************************************************************)
EXTENDS AdaptiveReplacementCacheManager, FiniteSetTheorems, TLAPS

-----------------------------------------------------------------------------
(* What the operations of QueueAdapter do to a queue, and the building blocks  *)
(* of MultipleQueueCacheManager to a manager whose queues and currentLocations *)
(* agree, for any set of queues.                                               *)

\* add(e) keeps the queue free of repetitions and adds e unless it is present.
LEMMA AddLemma ==
  ASSUME NEW K, NEW s \in Seq(K), NEW e \in K, IsQueue(s)
  PROVE  /\ Add(s, e) \in Seq(K)
         /\ IsQueue(Add(s, e))
         /\ \A x : Contains(Add(s, e), x) <=> Contains(s, x) \/ x = e
         /\ Contains(s, e) => Add(s, e) = s
         /\ ~Contains(s, e) => /\ Add(s, e) = Append(s, e)
                               /\ Len(Add(s, e)) = Len(s) + 1
<1>1. CASE Contains(s, e)
  BY <1>1 DEF Add, Contains
<1>2. CASE ~Contains(s, e)
  <2>1. Add(s, e) = Append(s, e)
    BY <1>2 DEF Add
  <2>2. /\ Append(s, e) \in Seq(K)
        /\ Len(Append(s, e)) = Len(s) + 1
        /\ \A i \in 1..Len(s) : Append(s, e)[i] = s[i]
        /\ Append(s, e)[Len(s) + 1] = e
    OBVIOUS
  <2>3. \A i \in 1..(Len(s)+1) : i # Len(s)+1 => i \in 1..Len(s)
    OBVIOUS
  <2>4. IsQueue(Append(s, e))
    BY <1>2, <2>2, <2>3 DEF IsQueue, Contains
  <2>5. \A x : Contains(Append(s, e), x) <=> Contains(s, x) \/ x = e
    BY <2>2, <2>3 DEF Contains
  <2> QED BY <1>2, <2>1, <2>2, <2>4, <2>5
<1> QED BY <1>1, <1>2

\* poll() removes exactly the head of a non-empty queue.
LEMMA PollLemma ==
  ASSUME NEW K, NEW s \in Seq(K), IsQueue(s), ~IsEmpty(s)
  PROVE  /\ Head(s) \in K
         /\ Contains(s, Head(s))
         /\ Poll(s) \in Seq(K)
         /\ IsQueue(Poll(s))
         /\ Len(Poll(s)) = Len(s) - 1
         /\ \A x : Contains(Poll(s), x) <=> Contains(s, x) /\ x # Head(s)
         /\ \A i \in 1..Len(Poll(s)) : i + 1 \in 1..Len(s) /\ Poll(s)[i] = s[i+1]
<1>1. s # << >>  BY DEF IsEmpty
<1>2. /\ Head(s) = s[1]
      /\ 1 \in 1..Len(s)
      /\ Tail(s) \in Seq(K)
      /\ Len(Tail(s)) = Len(s) - 1
      /\ \A i \in 1..(Len(s) - 1) : i + 1 \in 1..Len(s) /\ Tail(s)[i] = s[i+1]
  BY <1>1
<1>3. \A j \in 1..Len(s) : j # 1 => j - 1 \in 1..(Len(s)-1) /\ (j - 1) + 1 = j
  OBVIOUS
<1>4. IsQueue(Tail(s))
  BY <1>2 DEF IsQueue
<1>5. \A x : Contains(Tail(s), x) <=> Contains(s, x) /\ x # Head(s)
  <2> TAKE x
  <2>1. ASSUME Contains(Tail(s), x) PROVE Contains(s, x) /\ x # Head(s)
    BY <1>2, <2>1 DEF Contains, IsQueue
  <2>2. ASSUME Contains(s, x), x # Head(s) PROVE Contains(Tail(s), x)
    <3>1. PICK j \in 1..Len(s) : s[j] = x BY <2>2 DEF Contains
    <3>2. j # 1 BY <3>1, <2>2, <1>2
    <3> QED BY <3>1, <3>2, <1>2, <1>3, ZenonT(60) DEF Contains
  <2> QED BY <2>1, <2>2
<1> QED BY <1>2, <1>4, <1>5 DEF Poll, Contains

\* Where the i-th element of a queue stood before position p was taken out.
Skip(p, i) == IF i < p THEN i ELSE i + 1

\* remove(Object) removes exactly e and keeps the order of the rest.
LEMMA RemoveObjectLemma ==
  ASSUME NEW K, NEW s \in Seq(K), NEW e, IsQueue(s)
  PROVE  /\ RemoveObject(s, e) \in Seq(K)
         /\ IsQueue(RemoveObject(s, e))
         /\ \A x : Contains(RemoveObject(s, e), x) <=> Contains(s, x) /\ x # e
         /\ ~Contains(s, e) => RemoveObject(s, e) = s
         /\ Contains(s, e) => Len(RemoveObject(s, e)) = Len(s) - 1
         /\ \E p \in Nat : \A i \in 1..Len(RemoveObject(s, e)) :
              Skip(p, i) \in 1..Len(s) /\ RemoveObject(s, e)[i] = s[Skip(p, i)]
<1>1. CASE ~Contains(s, e)
  <2>1. RemoveObject(s, e) = s
    BY <1>1 DEF RemoveObject, RemoveFirst, Contains
  <2>2. \A i \in 1..Len(s) : Skip(Len(s) + 1, i) = i
    BY DEF Skip
  <2>3. Len(s) + 1 \in Nat OBVIOUS
  <2> QED BY <1>1, <2>1, <2>2, <2>3 DEF Contains
<1>2. CASE Contains(s, e)
  <2> DEFINE I == {i \in 1..Len(s) : s[i] = e}
  <2>1. PICK p \in 1..Len(s) : s[p] = e BY <1>2 DEF Contains
  <2>2. I = {p} BY <2>1 DEF IsQueue
  <2>3. Min(I) = p BY <2>2 DEF Min
  <2> DEFINE r == RemoveAt(s, p)
  <2>4. RemoveObject(s, e) = r
    BY <1>2, <2>2, <2>3 DEF RemoveObject, RemoveFirst, Contains, SelectInSeq
  <2>5. /\ r \in Seq(K)
        /\ Len(r) = Len(s) - 1
        /\ \A i \in 1..Len(r) : r[i] = s[IF i < p THEN i ELSE i + 1]
    <3> DEFINE a == SubSeq(s, 1, p - 1)
               b == SubSeq(s, p + 1, Len(s))
    <3>1. /\ a \in Seq(K)
          /\ Len(a) = p - 1
          /\ \A i \in 1..(p - 1) : a[i] = s[i]
      BY <2>1
    <3>2. /\ b \in Seq(K)
          /\ Len(b) = Len(s) - p
          /\ \A i \in 1..(Len(s) - p) : b[i] = s[p + i]
      BY <2>1
    <3>3. r = a \o b BY DEF RemoveAt
    <3> HIDE DEF a, b, r
    <3>4. /\ r \in Seq(K)
          /\ Len(r) = Len(s) - 1
      BY <2>1, <3>1, <3>2, <3>3
    <3>5. ASSUME NEW i \in 1..Len(r)
          PROVE  r[i] = s[IF i < p THEN i ELSE i + 1]
      <4>1. CASE i < p
        BY <4>1, <3>1, <3>2, <3>3, <3>4
      <4>2. CASE ~(i < p)
        <5>1. i - (p - 1) \in 1..(Len(s) - p) /\ p + (i - (p - 1)) = i + 1
          BY <4>2, <3>4, <2>1
        <5>2. r[i] = b[i - (p - 1)]
          BY <5>1, <4>2, <3>1, <3>2, <3>3, <3>4, SMTT(30)
        <5> QED BY <5>1, <5>2, <4>2, <3>2
      <4> QED BY <4>1, <4>2
    <3> QED BY <3>4, <3>5
  <2>6. IsQueue(r)
    <3> HIDE DEF r
    <3>1. \A i \in 1..Len(r) : Skip(p, i) \in 1..Len(s) /\ r[i] = s[Skip(p, i)]
      BY <2>1, <2>5 DEF Skip
    <3>2. \A i, j \in 1..Len(r) : i # j => Skip(p, i) # Skip(p, j)
      BY <2>1, <2>5 DEF Skip
    <3> QED BY <3>1, <3>2 DEF IsQueue
  <2>7. \A x : Contains(r, x) <=> Contains(s, x) /\ x # e
    <3> TAKE x
    <3>1. ASSUME Contains(r, x) PROVE Contains(s, x) /\ x # e
      BY <2>1, <2>5, <3>1, SMTT(30) DEF Contains, IsQueue
    <3>2. ASSUME Contains(s, x), x # e PROVE Contains(r, x)
      <4>1. PICK j \in 1..Len(s) : s[j] = x BY <3>2 DEF Contains
      <4>2. j # p BY <4>1, <3>2, <2>1
      <4>3. CASE j < p BY <4>3, <4>1, <2>5 DEF Contains
      <4>4. CASE j > p
        <5>1. j - 1 \in 1..Len(r) /\ ~(j - 1 < p) /\ (j-1)+1 = j BY <4>4, <2>5
        <5>2. r[j-1] = x BY <5>1, <2>5, <4>1
        <5> QED BY <5>1, <5>2 DEF Contains
      <4> QED BY <4>2, <4>3, <4>4
    <3> QED BY <3>1, <3>2
  <2> HIDE DEF r
  <2>8. p \in Nat /\ \A i \in 1..Len(r) : Skip(p, i) \in 1..Len(s) /\ r[i] = s[Skip(p, i)]
    BY <2>1, <2>5 DEF Skip
  <2> QED BY <1>2, <2>4, <2>5, <2>6, <2>7, <2>8
<1> QED BY <1>1, <1>2

\* Adding an absent element and removing it again gives the queue back.
LEMMA RemoveAppendedLemma ==
  ASSUME NEW K, NEW s \in Seq(K), NEW e \in K, IsQueue(s), ~Contains(s, e)
  PROVE  RemoveObject(Append(s, e), e) = s
<1> DEFINE a == Append(s, e)
           I == {i \in 1..Len(a) : a[i] = e}
<1>1. /\ a \in Seq(K)
      /\ Len(a) = Len(s) + 1
      /\ \A i \in 1..Len(s) : a[i] = s[i]
      /\ a[Len(s) + 1] = e
  OBVIOUS
<1> HIDE DEF a
<1>2. I = {Len(s) + 1} BY <1>1 DEF Contains
<1>3. Min(I) = Len(s) + 1 BY <1>2 DEF Min
<1>4. RemoveObject(a, e) = RemoveAt(a, Len(s) + 1)
  BY <1>1, <1>2, <1>3 DEF RemoveObject, RemoveFirst, SelectInSeq
<1>5. RemoveAt(a, Len(s) + 1) = SubSeq(a, 1, Len(s)) \o SubSeq(a, Len(s) + 2, Len(s) + 1)
  BY <1>1 DEF RemoveAt
<1>6. SubSeq(a, 1, Len(s)) = s BY <1>1
<1>7. SubSeq(a, Len(s) + 2, Len(s) + 1) = << >> BY <1>1
<1>8. s \o << >> = s OBVIOUS
<1> QED BY <1>4, <1>5, <1>6, <1>7, <1>8 DEF a
-----------------------------------------------------------------------------

\* Typed queues and locations that agree.
Indexed(Q, q, loc) ==
    /\ NoQueue \notin Q
    /\ q \in [Q -> Seq(Keys)]
    /\ loc \in [Keys -> Q \cup {NoQueue}]
    /\ Located(q, loc)

\* A manager the building blocks may be applied to.
Sound(mm, Q) == mm \in Managers(Q) /\ Indexed(Q, mm.q, mm.loc)

\* poll() of a queue and forgetting the polled key keeps queues and locations in
\* agreement.
LEMMA PollIndexed ==
  ASSUME NEW Q, NEW q, NEW loc, NEW n \in Q, Indexed(Q, q, loc), ~IsEmpty(q[n]),
         NEW k, k = Head(q[n])
  PROVE  /\ k \in Keys
         /\ loc[k] = n
         /\ Indexed(Q, Polled(q, n), Placed(loc, k, NoQueue))
         /\ Len(Poll(q[n])) = Len(q[n]) - 1
<1> USE DEF Indexed
<1> DEFINE q2 == [q EXCEPT ![n] = Poll(@)]
           loc2 == [loc EXCEPT ![k] = NoQueue]
<1>1. IsQueue(q[n]) /\ q[n] \in Seq(Keys) BY DEF Located
<1>2. /\ k \in Keys
      /\ Contains(q[n], k)
      /\ Poll(q[n]) \in Seq(Keys)
      /\ IsQueue(Poll(q[n]))
      /\ Len(Poll(q[n])) = Len(q[n]) - 1
      /\ \A x : Contains(Poll(q[n]), x) <=> Contains(q[n], x) /\ x # k
  BY <1>1, PollLemma
<1>3. loc[k] = n BY <1>2 DEF Located, Contains
<1>4. q2 \in [Q -> Seq(Keys)] /\ loc2 \in [Keys -> Q \cup {NoQueue}] BY <1>2
<1>5. \A x \in Q : x # n => q2[x] = q[x] OBVIOUS
<1>6. q2[n] = Poll(q[n]) OBVIOUS
<1>7. loc2[k] = NoQueue /\ \A x \in Keys : x # k => loc2[x] = loc[x] BY <1>2
<1> HIDE DEF q2, loc2
<1>8. \A x \in Q : \A y : Contains(q[x], y) => loc[y] = x
  BY DEF Located, Contains
<1>9. \A x \in Q : \A y : Contains(q2[x], y) => loc2[y] = x
  <2> TAKE x \in Q
  <2> TAKE y
  <2> HAVE Contains(q2[x], y)
  <2>1. y \in Keys BY <1>4 DEF Contains
  <2>2. CASE x = n BY <2>2, <2>1, <1>2, <1>6, <1>7, <1>8
  <2>3. CASE x # n BY <2>3, <2>1, <1>3, <1>5, <1>7, <1>8
  <2> QED BY <2>2, <2>3
<1>10. \A x \in Keys : loc2[x] # NoQueue => Contains(q2[loc2[x]], x)
  <2> TAKE x \in Keys
  <2> HAVE loc2[x] # NoQueue
  <2>1. x # k /\ loc2[x] = loc[x] /\ loc[x] \in Q BY <1>7
  <2>2. Contains(q[loc[x]], x) BY <2>1 DEF Located
  <2> QED BY <2>1, <2>2, <1>2, <1>5, <1>6
<1>11. \A x \in Q : IsQueue(q2[x]) BY <1>2, <1>5, <1>6 DEF Located
<1>12. Located(q2, loc2)
  BY <1>4, <1>9, <1>10, <1>11 DEF Located, Contains
<1> QED BY <1>2, <1>3, <1>4, <1>12 DEF q2, loc2, Polled, Placed

\* add(k) of an unknown key and recording where it went keeps them in agreement.
LEMMA AddIndexed ==
  ASSUME NEW Q, NEW q, NEW loc, NEW n \in Q, NEW k \in Keys,
         Indexed(Q, q, loc), loc[k] = NoQueue
  PROVE  /\ Indexed(Q, Added(q, n, k), Placed(loc, k, n))
         /\ Add(q[n], k) = Append(q[n], k)
         /\ Len(Add(q[n], k)) = Len(q[n]) + 1
<1> USE DEF Indexed
<1> DEFINE q2 == [q EXCEPT ![n] = Add(@, k)]
           loc2 == [loc EXCEPT ![k] = n]
<1>1. IsQueue(q[n]) /\ q[n] \in Seq(Keys) BY DEF Located
<1>8. \A x \in Q : \A y : Contains(q[x], y) => loc[y] = x
  BY DEF Located, Contains
<1>0. ~Contains(q[n], k) BY <1>8
<1>2. /\ Add(q[n], k) \in Seq(Keys)
      /\ IsQueue(Add(q[n], k))
      /\ Add(q[n], k) = Append(q[n], k)
      /\ Len(Add(q[n], k)) = Len(q[n]) + 1
      /\ \A x : Contains(Add(q[n], k), x) <=> Contains(q[n], x) \/ x = k
  BY <1>0, <1>1, AddLemma
<1>4. q2 \in [Q -> Seq(Keys)] /\ loc2 \in [Keys -> Q \cup {NoQueue}] BY <1>2
<1>5. \A x \in Q : x # n => q2[x] = q[x] OBVIOUS
<1>6. q2[n] = Add(q[n], k) OBVIOUS
<1>7. loc2[k] = n /\ \A x \in Keys : x # k => loc2[x] = loc[x] OBVIOUS
<1> HIDE DEF q2, loc2
<1>9. \A x \in Q : \A y : Contains(q2[x], y) => loc2[y] = x
  <2> TAKE x \in Q
  <2> TAKE y
  <2> HAVE Contains(q2[x], y)
  <2>1. y \in Keys BY <1>4 DEF Contains
  <2>2. CASE x = n BY <2>2, <2>1, <1>2, <1>6, <1>7, <1>8
  <2>3. CASE x # n BY <2>3, <2>1, <1>5, <1>7, <1>8
  <2> QED BY <2>2, <2>3
<1>10. \A x \in Keys : loc2[x] # NoQueue => Contains(q2[loc2[x]], x)
  <2> TAKE x \in Keys
  <2> HAVE loc2[x] # NoQueue
  <2>1. CASE x = k BY <2>1, <1>2, <1>6, <1>7
  <2>2. CASE x # k
    <3>1. loc2[x] = loc[x] /\ loc[x] \in Q BY <2>2, <1>7
    <3>2. Contains(q[loc[x]], x) BY <3>1 DEF Located
    <3> QED BY <3>1, <3>2, <1>2, <1>5, <1>6
  <2> QED BY <2>1, <2>2
<1>11. \A x \in Q : IsQueue(q2[x]) BY <1>2, <1>5, <1>6 DEF Located
<1>12. Located(q2, loc2)
  BY <1>4, <1>9, <1>10, <1>11 DEF Located, Contains
<1> QED BY <1>2, <1>4, <1>12 DEF q2, loc2, Added, Placed

\* remove(Object) of a known key and forgetting it keeps them in agreement.
LEMMA RemoveIndexed ==
  ASSUME NEW Q, NEW q, NEW loc, NEW k \in Keys,
         Indexed(Q, q, loc), loc[k] # NoQueue
  PROVE  /\ loc[k] \in Q
         /\ Contains(q[loc[k]], k)
         /\ Indexed(Q, Taken(q, loc[k], k), Placed(loc, k, NoQueue))
         /\ Len(RemoveObject(q[loc[k]], k)) = Len(q[loc[k]]) - 1
<1> USE DEF Indexed
<1> DEFINE n == loc[k]
           q2 == [q EXCEPT ![n] = RemoveObject(@, k)]
           loc2 == [loc EXCEPT ![k] = NoQueue]
<1>0. n \in Q /\ Contains(q[n], k) BY DEF Located
<1> HIDE DEF n
<1>1. IsQueue(q[n]) /\ q[n] \in Seq(Keys) BY <1>0 DEF Located
<1>2. /\ RemoveObject(q[n], k) \in Seq(Keys)
      /\ IsQueue(RemoveObject(q[n], k))
      /\ Len(RemoveObject(q[n], k)) = Len(q[n]) - 1
      /\ \A x : Contains(RemoveObject(q[n], k), x) <=> Contains(q[n], x) /\ x # k
  BY <1>0, <1>1, RemoveObjectLemma
<1>4. q2 \in [Q -> Seq(Keys)] /\ loc2 \in [Keys -> Q \cup {NoQueue}] BY <1>2, <1>0
<1>5. \A x \in Q : x # n => q2[x] = q[x] OBVIOUS
<1>6. q2[n] = RemoveObject(q[n], k) BY <1>0
<1>7. loc2[k] = NoQueue /\ \A x \in Keys : x # k => loc2[x] = loc[x] OBVIOUS
<1> HIDE DEF q2, loc2
<1>8. \A x \in Q : \A y : Contains(q[x], y) => loc[y] = x
  BY DEF Located, Contains
<1>9. \A x \in Q : \A y : Contains(q2[x], y) => loc2[y] = x
  <2> TAKE x \in Q
  <2> TAKE y
  <2> HAVE Contains(q2[x], y)
  <2>1. y \in Keys BY <1>4 DEF Contains
  <2>2. CASE x = n BY <2>2, <2>1, <1>2, <1>6, <1>7, <1>8
  <2>3. CASE x # n BY <2>3, <2>1, <1>5, <1>7, <1>8 DEF n
  <2> QED BY <2>2, <2>3
<1>10. \A x \in Keys : loc2[x] # NoQueue => Contains(q2[loc2[x]], x)
  <2> TAKE x \in Keys
  <2> HAVE loc2[x] # NoQueue
  <2>1. x # k /\ loc2[x] = loc[x] /\ loc[x] \in Q BY <1>7
  <2>2. Contains(q[loc[x]], x) BY <2>1 DEF Located
  <2> QED BY <2>1, <2>2, <1>2, <1>5, <1>6
<1>11. \A x \in Q : IsQueue(q2[x]) BY <1>2, <1>5, <1>6 DEF Located
<1>12. Located(q2, loc2)
  BY <1>4, <1>9, <1>10, <1>11 DEF Located, Contains
<1> QED BY <1>0, <1>2, <1>4, <1>12 DEF q2, loc2, n, Taken, Placed
-----------------------------------------------------------------------------
\* The fields of a record of managers.
LEMMA FieldTypes ==
  ASSUME NEW Q, NEW mm \in Managers(Q)
  PROVE  /\ mm.q \in [Q -> Seq(Keys)]
         /\ mm.loc \in [Keys -> Q \cup {NoQueue}]
         /\ mm.resident \in SUBSET Keys
         /\ mm.calls \in Seq(Callbacks)
         /\ mm.exc \in {"none", "NoSuchElement"}
BY DEF Managers

\* Reindex replaces the queues and the locations and nothing else.
LEMMA ReindexFields ==
  ASSUME NEW Q, NEW mm \in Managers(Q),
         NEW q \in [Q -> Seq(Keys)], NEW loc \in [Keys -> Q \cup {NoQueue}],
         NEW r, r = Reindex(mm, q, loc)
  PROVE  /\ r \in Managers(Q)
         /\ r.q = q /\ r.loc = loc
         /\ r.resident = mm.resident /\ r.calls = mm.calls /\ r.exc = mm.exc
BY DEF Managers, Reindex

\* Reindex with queues and locations that agree gives a sound manager.
LEMMA ReindexSound ==
  ASSUME NEW Q, NEW mm \in Managers(Q), NEW q, NEW loc, Indexed(Q, q, loc),
         NEW r, r = Reindex(mm, q, loc)
  PROVE  /\ Sound(r, Q)
         /\ r.q = q /\ r.loc = loc
         /\ r.resident = mm.resident /\ r.calls = mm.calls /\ r.exc = mm.exc
<1>1. q \in [Q -> Seq(Keys)] /\ loc \in [Keys -> Q \cup {NoQueue}] BY DEF Indexed
<1>2. /\ r \in Managers(Q) /\ r.q = q /\ r.loc = loc
      /\ r.resident = mm.resident /\ r.calls = mm.calls /\ r.exc = mm.exc
  BY <1>1, ReindexFields
<1> QED BY <1>2 DEF Sound

\* A listener callback changes what the listener holds and the call log only.
LEMMA NotifyFields ==
  ASSUME NEW Q, NEW mm \in Managers(Q), NEW c \in {"load", "evict"}, NEW k \in Keys,
         NEW held \in SUBSET Keys, NEW r, r = Notify(mm, c, k, held)
  PROVE  /\ r \in Managers(Q)
         /\ r.q = mm.q /\ r.loc = mm.loc
         /\ r.resident = held
         /\ r.calls = Append(mm.calls, [call |-> c, key |-> k])
         /\ r.exc = mm.exc
<1> DEFINE calls == Append(mm.calls, [call |-> c, key |-> k])
<1>0. [call |-> c, key |-> k] \in Callbacks BY DEF Callbacks
<1>1. calls \in Seq(Callbacks) BY <1>0, FieldTypes
<1>2. r = [mm EXCEPT !.calls = calls, !.resident = held] BY DEF Notify
<1> HIDE DEF calls
<1>3. QED BY <1>1, <1>2 DEF Managers, calls

\* An exception changes nothing but the outcome: there is no roll-back.
LEMMA ThrowFields ==
  ASSUME NEW Q, NEW mm \in Managers(Q), NEW r, r = Throw(mm)
  PROVE  /\ r \in Managers(Q) /\ Threw(r)
         /\ r.q = mm.q /\ r.loc = mm.loc
         /\ r.resident = mm.resident /\ r.calls = mm.calls
BY DEF Managers, Throw, Threw

\* What an operation starts from.
LEMMA BeginFields ==
  ASSUME NEW Q, NEW mm \in Managers(Q), NEW r, r = Begin(mm)
  PROVE  /\ r \in Managers(Q) /\ ~Threw(r)
         /\ r.q = mm.q /\ r.loc = mm.loc
         /\ r.resident = mm.resident /\ r.calls = << >>
<1>1. << >> \in Seq(Callbacks) OBVIOUS
<1>2. QED BY <1>1 DEF Managers, Begin, Threw
-----------------------------------------------------------------------------
EvictCall(k) == [call |-> "evict", key |-> k]
LoadCall(k) == [call |-> "load", key |-> k]

\* load(k): the listener holds k, the queues are untouched.
LEMMA LoadEffect ==
  ASSUME NEW Q, NEW mm, Sound(mm, Q), ~Threw(mm), NEW k \in Keys, NEW r, r = Load(mm, k)
  PROVE  /\ Sound(r, Q) /\ ~Threw(r)
         /\ r.q = mm.q /\ r.loc = mm.loc
         /\ r.resident = mm.resident \cup {k}
         /\ r.calls = Append(mm.calls, LoadCall(k))
<1>1. r = Notify(mm, "load", k, mm.resident \cup {k}) BY DEF Load
<1>2. mm \in Managers(Q) /\ mm.resident \cup {k} \in SUBSET Keys BY FieldTypes DEF Sound
<1> QED BY <1>1, <1>2, NotifyFields DEF Sound, Threw, LoadCall

\* remove(hit) as the listener calls it: the key is in no queue afterwards, and an
\* unknown key changes nothing.
LEMMA ForgetEffect ==
  ASSUME NEW Q, NEW mm, Sound(mm, Q), NEW k \in Keys, NEW r, r = Forget(mm, k)
  PROVE  /\ Sound(r, Q)
         /\ r.loc = Placed(mm.loc, k, NoQueue)
         /\ mm.loc[k] = NoQueue => r = mm
         /\ mm.loc[k] # NoQueue =>
               /\ mm.loc[k] \in Q
               /\ r.q = Taken(mm.q, mm.loc[k], k)
               /\ Len(RemoveObject(mm.q[mm.loc[k]], k)) = Len(mm.q[mm.loc[k]]) - 1
         /\ r.resident = mm.resident /\ r.calls = mm.calls /\ r.exc = mm.exc
<1>0. mm \in Managers(Q) /\ Indexed(Q, mm.q, mm.loc) BY DEF Sound
<1>1. CASE mm.loc[k] = NoQueue
  <2>1. Placed(mm.loc, k, NoQueue) = mm.loc BY <1>0, <1>1, FieldTypes DEF Placed
  <2>2. r = mm BY <1>1 DEF Forget
  <2> QED BY <1>1, <2>1, <2>2
<1>2. CASE mm.loc[k] # NoQueue
  <2>1. /\ mm.loc[k] \in Q
        /\ Indexed(Q, Taken(mm.q, mm.loc[k], k), Placed(mm.loc, k, NoQueue))
        /\ Len(RemoveObject(mm.q[mm.loc[k]], k)) = Len(mm.q[mm.loc[k]]) - 1
    BY <1>0, <1>2, RemoveIndexed, ZenonT(60)
  <2>2. r = Reindex(mm, Taken(mm.q, mm.loc[k], k), Placed(mm.loc, k, NoQueue))
    BY <1>2 DEF Forget
  <2> QED BY <1>0, <1>2, <2>1, <2>2, ReindexSound
<1> QED BY <1>1, <1>2

\* remove(hit) as the owner calls it.
LEMMA RemovedEffect ==
  ASSUME NEW Q, NEW mm, Sound(mm, Q), NEW k \in Keys, NEW r, r = Removed(mm, k)
  PROVE  /\ Sound(r, Q)
         /\ r.loc = Placed(mm.loc, k, NoQueue)
         /\ mm.loc[k] = NoQueue => r.q = mm.q
         /\ mm.loc[k] # NoQueue =>
               /\ mm.loc[k] \in Q
               /\ r.q = Taken(mm.q, mm.loc[k], k)
               /\ Len(RemoveObject(mm.q[mm.loc[k]], k)) = Len(mm.q[mm.loc[k]]) - 1
         /\ r.resident = mm.resident \ {k} /\ r.calls = mm.calls /\ r.exc = mm.exc
<1> DEFINE d == [mm EXCEPT !.resident = @ \ {k}]
<1>1. /\ d \in Managers(Q) /\ d.q = mm.q /\ d.loc = mm.loc
      /\ d.resident = mm.resident \ {k} /\ d.calls = mm.calls /\ d.exc = mm.exc
  BY DEF Sound, Managers
<1>2. r = Forget(d, k) BY DEF Removed
<1> HIDE DEF d
<1>3. Sound(d, Q) BY <1>1 DEF Sound
<1> QED BY <1>1, <1>2, <1>3, ForgetEffect

\* insertNode before afterInsert: the key is at the tail of its queue.
LEMMA InsertEffect ==
  ASSUME NEW Q, NEW mm, Sound(mm, Q), ~Threw(mm), NEW k \in Keys, NEW to \in Q,
         mm.loc[k] = NoQueue, NEW r, r = Insert(mm, k, to)
  PROVE  /\ Sound(r, Q) /\ ~Threw(r)
         /\ r.q = Added(mm.q, to, k)
         /\ Add(mm.q[to], k) = Append(mm.q[to], k)
         /\ r.loc = Placed(mm.loc, k, to)
         /\ r.resident = mm.resident /\ r.calls = mm.calls
<1>0. mm \in Managers(Q) /\ Indexed(Q, mm.q, mm.loc) BY DEF Sound
<1>1. /\ Indexed(Q, Added(mm.q, to, k), Placed(mm.loc, k, to))
      /\ Add(mm.q[to], k) = Append(mm.q[to], k)
  BY <1>0, AddIndexed
<1>2. r = Reindex(mm, Added(mm.q, to, k), Placed(mm.loc, k, to)) BY DEF Insert
<1> QED BY <1>0, <1>1, <1>2, ReindexSound DEF Threw

\* moveNode before afterInsert, also within one queue.
LEMMA MoveEffect ==
  ASSUME NEW Q, NEW mm, Sound(mm, Q), ~Threw(mm), NEW k \in Keys,
         NEW from \in Q, NEW to \in Q, mm.loc[k] = from, NEW r, r = Move(mm, k, from, to)
  PROVE  /\ Sound(r, Q) /\ ~Threw(r)
         /\ r.q = Added(Taken(mm.q, from, k), to, k)
         /\ Add(Taken(mm.q, from, k)[to], k) = Append(Taken(mm.q, from, k)[to], k)
         /\ Len(RemoveObject(mm.q[from], k)) = Len(mm.q[from]) - 1
         /\ r.loc = Placed(mm.loc, k, to)
         /\ r.resident = mm.resident /\ r.calls = mm.calls
<1>0. mm \in Managers(Q) /\ Indexed(Q, mm.q, mm.loc) BY DEF Sound
<1>1. mm.loc[k] # NoQueue /\ mm.loc \in [Keys -> Q \cup {NoQueue}] BY <1>0 DEF Indexed
<1> DEFINE q1 == Taken(mm.q, from, k)
           loc1 == Placed(mm.loc, k, NoQueue)
<1>2. Indexed(Q, q1, loc1) /\ Len(RemoveObject(mm.q[from], k)) = Len(mm.q[from]) - 1
  BY <1>0, <1>1, RemoveIndexed
<1>3. /\ Placed(loc1, k, to) = Placed(mm.loc, k, to)
      /\ loc1[k] = NoQueue
  BY <1>1 DEF Placed
<1>4. /\ Indexed(Q, Added(q1, to, k), Placed(loc1, k, to))
      /\ Add(q1[to], k) = Append(q1[to], k)
  BY <1>2, <1>3, AddIndexed
<1>5. r = Reindex(mm, Added(q1, to, k), Placed(mm.loc, k, to)) BY DEF Move
<1> QED BY <1>0, <1>2, <1>3, <1>4, <1>5, ReindexSound DEF Threw

\* removeNode of a non-empty queue: its head is forgotten, no callback is made.
LEMMA RemoveNodeEffect ==
  ASSUME NEW Q, NEW mm, Sound(mm, Q), ~Threw(mm), NEW from \in Q,
         ~IsEmpty(mm.q[from]), NEW k, k = Head(mm.q[from]),
         NEW r, r = RemoveNode(mm, from)
  PROVE  /\ k \in Keys /\ mm.loc[k] = from
         /\ Sound(r, Q) /\ ~Threw(r)
         /\ r.q = Polled(mm.q, from)
         /\ Len(Poll(mm.q[from])) = Len(mm.q[from]) - 1
         /\ r.loc = Placed(mm.loc, k, NoQueue)
         /\ r.resident = mm.resident /\ r.calls = mm.calls
<1>0. mm \in Managers(Q) /\ Indexed(Q, mm.q, mm.loc) BY DEF Sound
<1>1. /\ k \in Keys /\ mm.loc[k] = from
      /\ Indexed(Q, Polled(mm.q, from), Placed(mm.loc, k, NoQueue))
      /\ Len(Poll(mm.q[from])) = Len(mm.q[from]) - 1
  BY <1>0, PollIndexed
<1>2. r = Reindex(mm, Polled(mm.q, from), Placed(mm.loc, k, NoQueue))
  BY DEF RemoveNode
<1> QED BY <1>0, <1>1, <1>2, ReindexSound DEF Threw

\* evict: without re-entrancy only the listener's fields change; with it the
\* key is forgotten as well, whatever its location.
LEMMA EvictEffect ==
  ASSUME NEW Q, NEW mm \in Managers(Q), ~Threw(mm), NEW k \in Keys,
         NEW r, r = Evict(mm, k)
  PROVE  \E t \in Managers(Q) :
            /\ t.q = mm.q /\ t.loc = mm.loc /\ t.exc = mm.exc
            /\ t.resident = mm.resident \ {k}
            /\ t.calls = Append(mm.calls, EvictCall(k))
            /\ r = IF k \in Removing THEN Forget(t, k) ELSE t
<1> DEFINE t == Notify(mm, "evict", k, mm.resident \ {k})
<1>1. r = IF k \in Removing THEN Forget(t, k) ELSE t BY DEF Evict
<1>2. mm.resident \ {k} \in SUBSET Keys BY FieldTypes
<1> HIDE DEF t
<1>3. /\ t \in Managers(Q)
      /\ t.q = mm.q /\ t.loc = mm.loc /\ t.exc = mm.exc
      /\ t.resident = mm.resident \ {k}
      /\ t.calls = Append(mm.calls, EvictCall(k))
  BY <1>2, NotifyFields DEF t, EvictCall
<1> QED BY <1>1, <1>3

\* evict(moveHead(from, to)): the head of from ends in to, or nowhere when the
\* listener removes it, and the listener was told once.
LEMMA EvictHeadToEffect ==
  ASSUME NEW Q, NEW mm, Sound(mm, Q), ~Threw(mm), NEW from \in Q, NEW to \in Q, from # to,
         ~IsEmpty(mm.q[from]), NEW k, k = Head(mm.q[from]),
         NEW r, r = EvictHeadTo(mm, from, to)
  PROVE  /\ k \in Keys /\ mm.loc[k] = from
         /\ Sound(r, Q) /\ ~Threw(r)
         /\ Len(Poll(mm.q[from])) = Len(mm.q[from]) - 1
         /\ Add(mm.q[to], k) = Append(mm.q[to], k)
         /\ k \in Removing => r.q = Polled(mm.q, from) /\ r.loc = Placed(mm.loc, k, NoQueue)
         /\ k \notin Removing => r.q = Added(Polled(mm.q, from), to, k) /\ r.loc = Placed(mm.loc, k, to)
         /\ r.resident = mm.resident \ {k}
         /\ r.calls = Append(mm.calls, EvictCall(k))
<1>0. mm \in Managers(Q) /\ Indexed(Q, mm.q, mm.loc) BY DEF Sound
<1> DEFINE q1 == Polled(mm.q, from)
           loc1 == Placed(mm.loc, k, NoQueue)
           q2 == Added(q1, to, k)
           loc2 == Placed(mm.loc, k, to)
           moved == Reindex(mm, q2, loc2)
<1>1. /\ k \in Keys /\ mm.loc[k] = from
      /\ Indexed(Q, q1, loc1)
      /\ Len(Poll(mm.q[from])) = Len(mm.q[from]) - 1
  BY <1>0, PollIndexed
<1>2. /\ mm.q \in [Q -> Seq(Keys)] /\ mm.loc \in [Keys -> Q \cup {NoQueue}]
      /\ NoQueue \notin Q /\ Located(mm.q, mm.loc)
  BY <1>0 DEF Indexed
<1>3. /\ Placed(loc1, k, to) = loc2
      /\ loc1[k] = NoQueue /\ loc2[k] = to
      /\ Placed(loc2, k, NoQueue) = loc1
      /\ q1[to] = mm.q[to]
  BY <1>1, <1>2 DEF Placed, Polled
<1>4. Indexed(Q, q2, loc2) /\ Add(q1[to], k) = Append(q1[to], k)
  BY <1>1, <1>3, AddIndexed, SMTT(30)
<1>5. r = Evict(moved, k) BY DEF EvictHeadTo
<1> HIDE DEF moved
<1>6. /\ moved \in Managers(Q) /\ moved.q = q2 /\ moved.loc = loc2 /\ moved.exc = mm.exc
      /\ moved.resident = mm.resident /\ moved.calls = mm.calls
  <2>1. moved = Reindex(mm, q2, loc2) BY DEF moved
  <2> HIDE DEF q2, loc2
  <2>2. /\ Sound(moved, Q) /\ moved.q = q2 /\ moved.loc = loc2 /\ moved.exc = mm.exc
        /\ moved.resident = mm.resident /\ moved.calls = mm.calls
    BY <1>0, <1>4, <2>1, ReindexSound
  <2> QED BY <2>2 DEF Sound
<1>7. ~Threw(moved) BY <1>6 DEF Threw
<1>8. PICK t \in Managers(Q) :
            /\ t.q = q2 /\ t.loc = loc2 /\ t.exc = mm.exc
            /\ t.resident = mm.resident \ {k}
            /\ t.calls = Append(mm.calls, EvictCall(k))
            /\ r = IF k \in Removing THEN Forget(t, k) ELSE t
  BY <1>1, <1>5, <1>6, <1>7, EvictEffect
<1>9. Sound(t, Q) BY <1>4, <1>8 DEF Sound
<1>10. CASE k \notin Removing
  BY <1>1, <1>3, <1>4, <1>8, <1>9, <1>10, SMTT(30) DEF Threw
<1>11. CASE k \in Removing
  <2>1. /\ Sound(r, Q)
        /\ r.loc = Placed(t.loc, k, NoQueue)
        /\ r.q = Taken(t.q, to, k)
        /\ r.resident = t.resident /\ r.calls = t.calls /\ r.exc = t.exc
    <3>1. r = Forget(t, k) /\ t.loc[k] = to /\ to # NoQueue
      BY <1>2, <1>3, <1>8, <1>11
    <3> QED BY <1>1, <1>9, <3>1, ForgetEffect
  <2>2. RemoveObject(Append(q1[to], k), k) = q1[to]
    <3>1. mm.q[to] \in Seq(Keys) /\ IsQueue(mm.q[to]) BY <1>2 DEF Located
    <3>2. ~Contains(mm.q[to], k) BY <1>1, <1>2 DEF Located, Contains
    <3> QED BY <1>1, <1>3, <3>1, <3>2, RemoveAppendedLemma
  <2>3. q1 \in [Q -> Seq(Keys)] BY <1>1 DEF Indexed
  <2>4. Taken(q2, to, k) = q1
    <3> HIDE DEF q1
    <3> QED BY <1>4, <2>2, <2>3 DEF Taken, Added
  <2> QED BY <1>1, <1>3, <1>4, <1>8, <1>11, <2>1, <2>4 DEF Threw
<1> QED BY <1>10, <1>11

\* evictNode of a non-empty queue: its head is evicted and forgotten; a re-entrant
\* remove finds the key gone from the queue already.
LEMMA EvictNodeEffect ==
  ASSUME NEW Q, NEW mm, Sound(mm, Q), ~Threw(mm), NEW from \in Q,
         ~IsEmpty(mm.q[from]), NEW k, k = Head(mm.q[from]),
         NEW r, r = EvictNode(mm, from)
  PROVE  /\ k \in Keys /\ mm.loc[k] = from
         /\ Sound(r, Q) /\ ~Threw(r)
         /\ r.q = Polled(mm.q, from)
         /\ Len(Poll(mm.q[from])) = Len(mm.q[from]) - 1
         /\ r.loc = Placed(mm.loc, k, NoQueue)
         /\ r.resident = mm.resident \ {k}
         /\ r.calls = Append(mm.calls, EvictCall(k))
<1>0. mm \in Managers(Q) /\ Indexed(Q, mm.q, mm.loc) BY DEF Sound
<1> DEFINE q1 == Polled(mm.q, from)
           loc1 == Placed(mm.loc, k, NoQueue)
           polled == Reindex(mm, q1, mm.loc)
           e == Evict(polled, k)
<1>1. /\ k \in Keys /\ mm.loc[k] = from
      /\ Indexed(Q, q1, loc1)
      /\ Len(Poll(mm.q[from])) = Len(mm.q[from]) - 1
  BY <1>0, PollIndexed
<1>2. /\ mm.q \in [Q -> Seq(Keys)] /\ mm.loc \in [Keys -> Q \cup {NoQueue}]
      /\ NoQueue \notin Q /\ Located(mm.q, mm.loc) /\ q1 \in [Q -> Seq(Keys)]
  BY <1>0, <1>1 DEF Indexed
<1>3. r = Reindex(e, e.q, Placed(e.loc, k, NoQueue)) BY DEF EvictNode
<1>p. polled = Reindex(mm, q1, mm.loc) OBVIOUS
<1> HIDE DEF polled, e
<1>4. /\ polled \in Managers(Q) /\ polled.q = q1 /\ polled.loc = mm.loc
      /\ polled.resident = mm.resident /\ polled.calls = mm.calls /\ polled.exc = mm.exc
  <2> HIDE DEF q1, loc1
  <2>1. mm \in Managers(Q) BY <1>0
  <2>2. q1 \in [Q -> Seq(Keys)] /\ mm.loc \in [Keys -> Q \cup {NoQueue}] BY <1>2
  <2> QED BY <1>p, <2>1, <2>2, ReindexFields
<1>5. PICK t \in Managers(Q) :
            /\ t.q = q1 /\ t.loc = mm.loc /\ t.exc = mm.exc
            /\ t.resident = mm.resident \ {k}
            /\ t.calls = Append(mm.calls, EvictCall(k))
            /\ e = IF k \in Removing THEN Forget(t, k) ELSE t
  <2>1. ~Threw(polled) BY <1>4 DEF Threw
  <2> QED BY <1>1, <1>4, <2>1, EvictEffect, SMTT(30) DEF e
<1>6. /\ e \in Managers(Q) /\ e.q = q1 /\ Placed(e.loc, k, NoQueue) = loc1 /\ e.exc = mm.exc
      /\ e.resident = mm.resident \ {k}
      /\ e.calls = Append(mm.calls, EvictCall(k))
  <2>1. CASE k \notin Removing
    BY <1>5, <2>1
  <2>2. CASE k \in Removing
    <3>1. e = Reindex(t, Taken(q1, from, k), loc1)
      BY <1>1, <1>2, <1>5, <2>2 DEF Forget
    <3>2. Taken(q1, from, k) = q1
      <4>1. q1[from] = Poll(mm.q[from]) BY <1>2 DEF Polled
      <4>2. mm.q[from] \in Seq(Keys) /\ IsQueue(mm.q[from]) BY <1>2 DEF Located
      <4>3. /\ Poll(mm.q[from]) \in Seq(Keys) /\ IsQueue(Poll(mm.q[from]))
            /\ ~Contains(Poll(mm.q[from]), k)
        BY <4>2, PollLemma
      <4>4. RemoveObject(Poll(mm.q[from]), k) = Poll(mm.q[from])
        BY <4>3, RemoveObjectLemma
      <4> HIDE DEF q1
      <4> QED BY <1>2, <4>1, <4>4 DEF Taken
    <3>3. loc1 \in [Keys -> Q \cup {NoQueue}] BY <1>1 DEF Indexed
    <3>4. /\ e \in Managers(Q) /\ e.q = q1 /\ e.loc = loc1 /\ e.exc = mm.exc
          /\ e.resident = mm.resident \ {k}
          /\ e.calls = Append(mm.calls, EvictCall(k))
      <4>1. e = Reindex(t, q1, loc1) BY <3>1, <3>2
      <4> HIDE DEF q1, loc1
      <4>2. /\ e \in Managers(Q) /\ e.q = q1 /\ e.loc = loc1 /\ e.exc = t.exc
            /\ e.resident = t.resident /\ e.calls = t.calls
        BY <1>2, <3>3, <4>1, ReindexFields, SMTT(30)
      <4> QED BY <1>5, <4>2
    <3>5. Placed(loc1, k, NoQueue) = loc1 BY <1>1, <1>2 DEF Placed
    <3> QED BY <3>4, <3>5
  <2> QED BY <2>1, <2>2
<1> QED BY <1>1, <1>3, <1>6, ReindexSound DEF Threw

-----------------------------------------------------------------------------
(* AdaptiveReplacementCacheManager. *)

\* The listener holds what t1 and t2 hold.
Holds(mm) == mm.resident = {k \in Keys : mm.loc[k] \in Cached}

\* SizesBounded of any manager.
Sizes(mm) ==
    /\ LeftSideSize(mm) <= MaxNodes
    /\ CacheSize(mm) <= MaxNodes
    /\ DirectorySize(mm) <= DirectoryCapacity

\* Queue sizes are naturals, and zero exactly for empty queues.
LEMMA SizeTypes ==
  ASSUME NEW mm, Sound(mm, Queues)
  PROVE  /\ \A n \in Queues : Size(mm, n) \in Nat /\ (IsEmpty(mm.q[n]) <=> Size(mm, n) = 0)
         /\ "t1" \in Queues /\ "t2" \in Queues /\ "b1" \in Queues /\ "b2" \in Queues
         /\ NoQueue \notin Queues
<1>1. mm.q \in [Queues -> Seq(Keys)] BY FieldTypes DEF Sound
<1> QED BY <1>1 DEF Queues, Size, IsEmpty, NoQueue

\* Two pairs with the same elements are equal.
LEMMA SameSequence ==
  ASSUME NEW T, NEW s \in Seq(T), NEW t \in Seq(T), Len(s) = 2, Len(t) = 2,
         s[1] = t[1], s[2] = t[2]
  PROVE  s = t
<1>1. \A i \in 1..2 : s[i] = t[i] OBVIOUS
<1>2. DOMAIN s = 1..2 /\ DOMAIN t = 1..2 OBVIOUS
<1> QED BY <1>1, <1>2

\* The calls of a visit that evicts v and then loads k.
LEMMA EvictThenLoad ==
  ASSUME NEW v, NEW k, NEW c0, NEW c1, NEW c2, c0 = << >>,
         c1 = Append(c0, EvictCall(v)), c2 = Append(c1, LoadCall(k))
  PROVE  c2 = <<Calls("evict", v), Calls("load", k)>>
<1> DEFINE x == EvictCall(v)
           y == LoadCall(k)
           T == {x, y}
<1>1. Calls("evict", v) = x /\ Calls("load", k) = y BY DEF Calls, EvictCall, LoadCall
<1> HIDE DEF x, y
<1>2. c1 \in Seq(T) /\ Len(c1) = 1 /\ c1[1] = x BY DEF x
<1>3. c2 \in Seq(T) /\ Len(c2) = 2 /\ c2[1] = x /\ c2[2] = y BY <1>2 DEF y
<1>4. <<x, y>> \in Seq(T) /\ Len(<<x, y>>) = 2 /\ <<x, y>>[1] = x /\ <<x, y>>[2] = y OBVIOUS
<1>5. c2 = <<x, y>>
  <2> DEFINE t == <<x, y>>
  <2>1. t \in Seq(T) /\ Len(t) = 2 /\ t[1] = x /\ t[2] = y BY <1>4
  <2> HIDE DEF t
  <2>2. c2 = t BY <1>3, <2>1, SameSequence
  <2> QED BY <2>2 DEF t
<1> QED BY <1>1, <1>5

\* leftSideSize, cacheSize and directorySize are naturals.
LEMMA TotalTypes ==
  ASSUME NEW mm, Sound(mm, Queues)
  PROVE  LeftSideSize(mm) \in Nat /\ CacheSize(mm) \in Nat /\ DirectorySize(mm) \in Nat
<1>1. /\ Size(mm, "t1") \in Nat /\ Size(mm, "t2") \in Nat
      /\ Size(mm, "b1") \in Nat /\ Size(mm, "b2") \in Nat
  BY SizeTypes
<1> QED BY <1>1 DEF LeftSideSize, CacheSize, DirectorySize

\* One more key in t1 is one more in each total.
LEMMA TotalsAfterInsert ==
  ASSUME NEW mm, Sound(mm, Queues), NEW r,
         Size(r, "t1") = Size(mm, "t1") + 1, Size(r, "t2") = Size(mm, "t2"),
         Size(r, "b1") = Size(mm, "b1"), Size(r, "b2") = Size(mm, "b2")
  PROVE  /\ LeftSideSize(r) = LeftSideSize(mm) + 1
         /\ CacheSize(r) = CacheSize(mm) + 1
         /\ DirectorySize(r) = DirectorySize(mm) + 1
<1>1. /\ Size(mm, "t1") \in Nat /\ Size(mm, "t2") \in Nat
      /\ Size(mm, "b1") \in Nat /\ Size(mm, "b2") \in Nat
  BY SizeTypes
<1> QED BY <1>1 DEF LeftSideSize, CacheSize, DirectorySize

\* insertNode(k, t1) of an unknown key: t1 grows by one, k is loaded, nothing else
\* changes.
LEMMA InsertNodeARC ==
  ASSUME NEW mm, Sound(mm, Queues), ~Threw(mm), NEW k \in Keys, mm.loc[k] = NoQueue,
         NEW r, r = InsertNode(mm, k, "t1")
  PROVE  /\ Sound(r, Queues) /\ ~Threw(r)
         /\ Size(r, "t1") = Size(mm, "t1") + 1
         /\ \A n \in Queues \ {"t1"} : Size(r, n) = Size(mm, n)
         /\ Holds(mm) => Holds(r)
         /\ r.calls = Append(mm.calls, LoadCall(k))
<1> DEFINE i == Insert(mm, k, "t1")
<1>1. r = Load(i, k) BY DEF InsertNode, AfterInsert, Cached, NoQueue
<1> HIDE DEF i
<1>2. "t1" \in Queues /\ mm.q \in [Queues -> Seq(Keys)] /\ mm.loc \in [Keys -> Queues \cup {NoQueue}]
  BY FieldTypes DEF Sound, Queues
<1>3. /\ Sound(i, Queues) /\ ~Threw(i)
      /\ i.q = Added(mm.q, "t1", k)
      /\ Add(mm.q["t1"], k) = Append(mm.q["t1"], k)
      /\ i.loc = Placed(mm.loc, k, "t1")
      /\ i.resident = mm.resident /\ i.calls = mm.calls
  BY <1>2, InsertEffect DEF i
<1>4. /\ Sound(r, Queues) /\ ~Threw(r)
      /\ r.q = i.q /\ r.loc = i.loc
      /\ r.resident = i.resident \cup {k}
      /\ r.calls = Append(i.calls, LoadCall(k))
  BY <1>1, <1>3, LoadEffect, SMTT(30)
<1>5. /\ r.q["t1"] = Append(mm.q["t1"], k)
      /\ \A n \in Queues \ {"t1"} : r.q[n] = mm.q[n]
  BY <1>2, <1>3, <1>4 DEF Added
<1>6. /\ Size(r, "t1") = Size(mm, "t1") + 1
      /\ \A n \in Queues \ {"t1"} : Size(r, n) = Size(mm, n)
  BY <1>2, <1>5 DEF Size
<1>7. Holds(mm) => Holds(r)
  BY <1>2, <1>3, <1>4 DEF Holds, Placed, Cached
<1> QED BY <1>3, <1>4, <1>5, <1>6, <1>7

\* moveNode(k, from, t2): one key less in from, one more in t2, and k is loaded
\* exactly when it came from a ghost queue.
LEMMA MoveNodeARC ==
  ASSUME NEW mm, Sound(mm, Queues), ~Threw(mm), NEW k \in Keys, NEW from \in Queues,
         mm.loc[k] = from, NEW r, r = MoveNode(mm, k, from, "t2")
  PROVE  /\ Sound(r, Queues) /\ ~Threw(r)
         /\ from # "t2" => /\ Size(r, from) = Size(mm, from) - 1
                           /\ Size(r, "t2") = Size(mm, "t2") + 1
         /\ from = "t2" => Size(r, "t2") = Size(mm, "t2")
         /\ \A n \in Queues \ {from, "t2"} : Size(r, n) = Size(mm, n)
         /\ Holds(mm) => Holds(r)
         /\ r.calls = IF from \in Cached THEN mm.calls ELSE Append(mm.calls, LoadCall(k))
<1> DEFINE i == Move(mm, k, from, "t2")
<1>1. r = IF from \in Cached THEN i ELSE Load(i, k)
  BY DEF MoveNode, AfterInsert, Cached
<1> HIDE DEF i
<1>2. "t2" \in Queues /\ mm.q \in [Queues -> Seq(Keys)] /\ mm.loc \in [Keys -> Queues \cup {NoQueue}]
  BY FieldTypes DEF Sound, Queues
<1>3. /\ Sound(i, Queues) /\ ~Threw(i)
      /\ i.q = Added(Taken(mm.q, from, k), "t2", k)
      /\ Add(Taken(mm.q, from, k)["t2"], k) = Append(Taken(mm.q, from, k)["t2"], k)
      /\ Len(RemoveObject(mm.q[from], k)) = Len(mm.q[from]) - 1
      /\ i.loc = Placed(mm.loc, k, "t2")
      /\ i.resident = mm.resident /\ i.calls = mm.calls
  BY <1>2, MoveEffect DEF i
<1>4. /\ Sound(r, Queues) /\ ~Threw(r)
      /\ r.q = i.q /\ r.loc = i.loc
      /\ r.resident = IF from \in Cached THEN mm.resident ELSE mm.resident \cup {k}
      /\ r.calls = IF from \in Cached THEN mm.calls ELSE Append(mm.calls, LoadCall(k))
  <2>1. CASE from \in Cached BY <1>1, <1>3, <2>1
  <2>2. CASE from \notin Cached
    <3>1. r = Load(i, k) BY <1>1, <2>2
    <3> QED BY <1>3, <2>2, <3>1, LoadEffect, SMTT(30)
  <2> QED BY <2>1, <2>2
<1>5. /\ Taken(mm.q, from, k)["t2"] = IF from = "t2" THEN RemoveObject(mm.q["t2"], k)
                                              ELSE mm.q["t2"]
      /\ Taken(mm.q, from, k)[from] = RemoveObject(mm.q[from], k)
      /\ \A n \in Queues \ {from} : Taken(mm.q, from, k)[n] = mm.q[n]
      /\ DOMAIN Taken(mm.q, from, k) = Queues
  BY <1>2 DEF Taken
<1>6. /\ r.q["t2"] = Append(IF from = "t2" THEN RemoveObject(mm.q["t2"], k)
                                              ELSE mm.q["t2"], k)
      /\ \A n \in Queues \ {"t2"} : r.q[n] = Taken(mm.q, from, k)[n]
  BY <1>2, <1>3, <1>4, <1>5 DEF Added
<1>7. IsQueue(mm.q[from]) BY DEF Sound, Indexed, Located
<1>8. RemoveObject(mm.q[from], k) \in Seq(Keys) BY <1>2, <1>7, RemoveObjectLemma
<1>9. /\ from # "t2" => /\ Size(r, from) = Size(mm, from) - 1
                        /\ Size(r, "t2") = Size(mm, "t2") + 1
      /\ from = "t2" => Size(r, "t2") = Size(mm, "t2")
      /\ \A n \in Queues \ {from, "t2"} : r.q[n] = mm.q[n] /\ Size(r, n) = Size(mm, n)
  BY <1>2, <1>3, <1>5, <1>6, <1>8 DEF Size
<1>10. Holds(mm) => Holds(r)
  <2>1. /\ r.loc[k] \in Cached
        /\ \A x \in Keys : x # k => r.loc[x] = mm.loc[x]
    BY <1>2, <1>3, <1>4 DEF Placed, Cached
  <2>2. CASE from \in Cached BY <1>4, <2>1, <2>2 DEF Holds
  <2>3. CASE from \notin Cached BY <1>4, <2>1, <2>3 DEF Holds
  <2> QED BY <2>2, <2>3
<1> QED BY <1>3, <1>4, <1>9, <1>10
\* freeRoom either evicts one cached key or finds nothing it may evict.
LEMMA FreeRoomARC ==
  ASSUME NEW mm, Sound(mm, Queues), ~Threw(mm), NEW target \in Nat, NEW hitList,
         NEW r, r = FreeRoom(mm, target, hitList)
  PROVE  /\ Sound(r, Queues) /\ ~Threw(r)
         /\ Holds(mm) => Holds(r)
         /\ \A k \in Keys : mm.loc[k] \notin Cached => r.loc[k] = mm.loc[k]
         /\ \/ /\ r = mm
               /\ Size(mm, "t2") = 0
               /\ \/ Size(mm, "t1") = 0
                  \/ /\ Size(mm, "t1") <= target
                     /\ hitList = "b2" => Size(mm, "t1") < target
            \/ /\ CacheSize(r) = CacheSize(mm) - 1
               /\ LeftSideSize(r) <= LeftSideSize(mm)
               /\ DirectorySize(r) <= DirectorySize(mm)
               /\ \E v \in Keys : /\ mm.loc[v] \in Cached
                                  /\ r.calls = Append(mm.calls, EvictCall(v))
<1>1. /\ \A n \in Queues : Size(mm, n) \in Nat /\ (IsEmpty(mm.q[n]) <=> Size(mm, n) = 0)
      /\ "t1" \in Queues /\ "t2" \in Queues /\ "b1" \in Queues /\ "b2" \in Queues
      /\ NoQueue \notin Queues
  BY SizeTypes
<1>2. mm.q \in [Queues -> Seq(Keys)] /\ mm.loc \in [Keys -> Queues \cup {NoQueue}]
  BY FieldTypes DEF Sound
<1>3. ASSUME NEW f \in Queues, NEW g \in Queues, f \in Cached, g \notin Cached,
             ~IsEmpty(mm.q[f]), r = EvictHeadTo(mm, f, g)
      PROVE  /\ Sound(r, Queues) /\ ~Threw(r)
             /\ Holds(mm) => Holds(r)
             /\ \A k \in Keys : mm.loc[k] \notin Cached => r.loc[k] = mm.loc[k]
             /\ Size(r, f) = Size(mm, f) - 1
             /\ \/ Size(r, g) = Size(mm, g) \/ Size(r, g) = Size(mm, g) + 1
             /\ \A n \in Queues \ {f, g} : Size(r, n) = Size(mm, n)
             /\ \E v \in Keys : /\ mm.loc[v] \in Cached
                                /\ r.calls = Append(mm.calls, EvictCall(v))
  <2> DEFINE k == Head(mm.q[f])
  <2>1. k = Head(mm.q[f]) /\ f # g BY <1>3
  <2> HIDE DEF k
  <2>2. /\ k \in Keys /\ mm.loc[k] = f
        /\ Sound(r, Queues) /\ ~Threw(r)
        /\ Len(Poll(mm.q[f])) = Len(mm.q[f]) - 1
        /\ Add(mm.q[g], k) = Append(mm.q[g], k)
        /\ k \in Removing => r.q = Polled(mm.q, f) /\ r.loc = Placed(mm.loc, k, NoQueue)
        /\ k \notin Removing => r.q = Added(Polled(mm.q, f), g, k) /\ r.loc = Placed(mm.loc, k, g)
        /\ r.resident = mm.resident \ {k}
        /\ r.calls = Append(mm.calls, EvictCall(k))
    BY <1>3, <2>1, EvictHeadToEffect, SMTT(30)
  <2>3. /\ r.loc[k] \notin Cached
        /\ \A x \in Keys : x # k => r.loc[x] = mm.loc[x]
    BY <1>2, <1>3, <2>2 DEF Placed, Cached, NoQueue
  <2>4. Holds(mm) => Holds(r) BY <2>2, <2>3 DEF Holds
  <2>5. /\ r.q[f] = Poll(mm.q[f])
        /\ r.q[g] = mm.q[g] \/ r.q[g] = Append(mm.q[g], k)
        /\ \A n \in Queues \ {f, g} : r.q[n] = mm.q[n]
    BY <1>2, <2>1, <2>2 DEF Polled, Added
  <2>6. /\ Size(r, f) = Size(mm, f) - 1
        /\ \/ Size(r, g) = Size(mm, g) \/ Size(r, g) = Size(mm, g) + 1
        /\ \A n \in Queues \ {f, g} : Size(r, n) = Size(mm, n)
    BY <1>2, <2>2, <2>5 DEF Size
  <2> QED BY <1>3, <2>2, <2>3, <2>4, <2>6
<1>6. /\ Size(mm, "t1") \in Nat /\ Size(mm, "t2") \in Nat
      /\ Size(mm, "b1") \in Nat /\ Size(mm, "b2") \in Nat
  BY <1>1
<1>4. CASE ~IsEmpty(mm.q["t1"]) /\ (Size(mm, "t1") > target \/ (Size(mm, "t1") = target /\ hitList = "b2"))
  <2>1. r = EvictHeadTo(mm, "t1", "b1") BY <1>4 DEF FreeRoom
  <2>2. "t1" \in Cached /\ "b1" \notin Cached BY DEF Cached
  <2>3. /\ Sound(r, Queues) /\ ~Threw(r)
        /\ Holds(mm) => Holds(r)
        /\ \A k \in Keys : mm.loc[k] \notin Cached => r.loc[k] = mm.loc[k]
        /\ Size(r, "t1") = Size(mm, "t1") - 1
        /\ \/ Size(r, "b1") = Size(mm, "b1") \/ Size(r, "b1") = Size(mm, "b1") + 1
        /\ \A n \in Queues \ {"t1", "b1"} : Size(r, n) = Size(mm, n)
        /\ \E v \in Keys : /\ mm.loc[v] \in Cached
                           /\ r.calls = Append(mm.calls, EvictCall(v))
    BY <1>1, <1>3, <1>4, <2>1, <2>2
  <2>4. /\ Size(r, "t2") = Size(mm, "t2") /\ Size(r, "b2") = Size(mm, "b2")
        /\ Size(r, "t1") = Size(mm, "t1") - 1
        /\ Size(r, "b1") = Size(mm, "b1") \/ Size(r, "b1") = Size(mm, "b1") + 1
    BY <1>1, <2>3
  <2>5. /\ CacheSize(r) = CacheSize(mm) - 1
        /\ LeftSideSize(r) <= LeftSideSize(mm)
        /\ DirectorySize(r) <= DirectorySize(mm)
    BY <1>6, <2>4 DEF CacheSize, LeftSideSize, DirectorySize
  <2> QED BY <2>3, <2>5
<1>5. CASE ~(~IsEmpty(mm.q["t1"]) /\ (Size(mm, "t1") > target \/ (Size(mm, "t1") = target /\ hitList = "b2")))
  <2>1. CASE IsEmpty(mm.q["t2"])
    <3>1. r = mm BY <1>5, <2>1 DEF FreeRoom
    <3> QED BY <1>1, <1>5, <2>1, <3>1
  <2>2. CASE ~IsEmpty(mm.q["t2"])
    <3>1. r = EvictHeadTo(mm, "t2", "b2") BY <1>5, <2>2 DEF FreeRoom
    <3>2. "t2" \in Cached /\ "b2" \notin Cached BY DEF Cached
    <3>3. /\ Sound(r, Queues) /\ ~Threw(r)
          /\ Holds(mm) => Holds(r)
          /\ \A k \in Keys : mm.loc[k] \notin Cached => r.loc[k] = mm.loc[k]
          /\ Size(r, "t2") = Size(mm, "t2") - 1
          /\ \/ Size(r, "b2") = Size(mm, "b2") \/ Size(r, "b2") = Size(mm, "b2") + 1
          /\ \A n \in Queues \ {"t2", "b2"} : Size(r, n) = Size(mm, n)
          /\ \E v \in Keys : /\ mm.loc[v] \in Cached
                             /\ r.calls = Append(mm.calls, EvictCall(v))
      BY <1>1, <1>3, <2>2, <3>1, <3>2
    <3>4. /\ Size(r, "t1") = Size(mm, "t1") /\ Size(r, "b1") = Size(mm, "b1")
          /\ Size(r, "t2") = Size(mm, "t2") - 1
          /\ Size(r, "b2") = Size(mm, "b2") \/ Size(r, "b2") = Size(mm, "b2") + 1
      BY <1>1, <3>3
    <3>5. /\ CacheSize(r) = CacheSize(mm) - 1
          /\ LeftSideSize(r) <= LeftSideSize(mm)
          /\ DirectorySize(r) <= DirectorySize(mm)
      BY <1>6, <3>4 DEF CacheSize, LeftSideSize, DirectorySize
    <3> QED BY <3>3, <3>5
  <2> QED BY <2>1, <2>2
<1> QED BY <1>4, <1>5
-----------------------------------------------------------------------------
\* The inductive invariant.
IInv == TypeOK /\ LocationsConsistent /\ SizesBounded /\ NoException

\* What VisitNotifies says of one visit.
Notifies(k) ==
    MaxNodes > 0 =>
       IF k \in m.resident THEN m'.calls = << >>
       ELSE \/ m'.calls = <<Calls("load", k)>>
            \/ \E v \in m.resident \ {k} : m'.calls = <<Calls("evict", v), Calls("load", k)>>

\* The invariant gives what the operator lemmas assume, and a visit starts with
\* nothing thrown and nothing said.
LEMMA Start ==
  ASSUME IInv
  PROVE  /\ Sound(m, Queues) /\ Holds(m) /\ Sizes(m)
         /\ Sound(Begin(m), Queues) /\ ~Threw(Begin(m)) /\ Holds(Begin(m))
         /\ Begin(m).q = m.q /\ Begin(m).loc = m.loc /\ Begin(m).calls = << >>
         /\ Begin(m).resident = m.resident
         /\ \A n \in Queues : Size(Begin(m), n) = Size(m, n)
         /\ \A k \in Keys : k \in m.resident <=> m.loc[k] \in Cached
<1>1. m \in Managers(Queues) BY DEF IInv, TypeOK
<1>2. NoQueue \notin Queues BY DEF NoQueue, Queues
<1>3. Indexed(Queues, m.q, m.loc)
  BY <1>1, <1>2, FieldTypes DEF Indexed, IInv, LocationsConsistent
<1>4. Sound(m, Queues) BY <1>1, <1>3 DEF Sound
<1>5. Holds(m) /\ Sizes(m)
  BY DEF IInv, LocationsConsistent, ListenerHoldsCache, Holds, SizesBounded, Sizes
<1>6. /\ Begin(m) \in Managers(Queues) /\ ~Threw(Begin(m))
      /\ Begin(m).q = m.q /\ Begin(m).loc = m.loc
      /\ Begin(m).resident = m.resident /\ Begin(m).calls = << >>
  BY <1>1, BeginFields
<1>7. Sound(Begin(m), Queues) /\ Holds(Begin(m))
  BY <1>3, <1>5, <1>6 DEF Sound, Holds
<1>8. \A n \in Queues : Size(Begin(m), n) = Size(m, n) BY <1>6 DEF Size
<1>9. \A k \in Keys : k \in m.resident <=> m.loc[k] \in Cached BY <1>5 DEF Holds
<1> QED BY <1>4, <1>5, <1>6, <1>7, <1>8, <1>9

\* What has to be shown of the state after a step.
LEMMA Finish ==
  ASSUME Sound(m', Queues), Holds(m'), Sizes(m'), MaxNodes > 0 => ~Threw(m'),
         targetT1Size' \in 0..MaxNodes, older' \subseteq Keys \X Keys
  PROVE  IInv'
BY DEF Sound, Indexed, Holds, Sizes, IInv, TypeOK, LocationsConsistent, SizesBounded,
       ListenerHoldsCache, NoException, LeftSideSize, CacheSize, DirectorySize, Size, Threw, DirectoryCapacity, Cached

\* The history relation keeps its type.
LEMMA VisitedType ==
  ASSUME IInv, NEW k \in Keys, Visited(k)
  PROVE  older' \subseteq Keys \X Keys
BY DEF IInv, TypeOK, Visited, After

\* Case I of onHit preserves the invariant and calls no listener.
LEMMA HitCachedStep ==
  ASSUME IInv, NEW k \in Keys, HitCached(k)
  PROVE  IInv' /\ Notifies(k)
<1> DEFINE b == Begin(m)
           from == m.loc[k]
<1>1. /\ Sound(b, Queues) /\ ~Threw(b) /\ Holds(b) /\ b.loc = m.loc /\ b.calls = << >>
      /\ \A n \in Queues : Size(b, n) = Size(m, n)
      /\ Sizes(m) /\ Sound(m, Queues) /\ k \in m.resident
  BY Start DEF HitCached
<1>2. m' = MoveNode(b, k, from, "t2") /\ from \in Cached /\ from \in Queues
  BY DEF HitCached, Cached, Queues
<1> HIDE DEF b, from
<1>3. /\ Sound(m', Queues) /\ ~Threw(m')
      /\ from # "t2" => /\ Size(m', from) = Size(b, from) - 1
                        /\ Size(m', "t2") = Size(b, "t2") + 1
      /\ from = "t2" => Size(m', "t2") = Size(b, "t2")
      /\ \A n \in Queues \ {from, "t2"} : Size(m', n) = Size(b, n)
      /\ Holds(m')
      /\ m'.calls = << >>
  BY <1>1, <1>2, MoveNodeARC DEF from
<1>4. /\ Size(m, "t1") \in Nat /\ Size(m, "t2") \in Nat
      /\ Size(m, "b1") \in Nat /\ Size(m, "b2") \in Nat
      /\ "t1" \in Queues /\ "t2" \in Queues /\ "b1" \in Queues /\ "b2" \in Queues
  BY <1>1, SizeTypes
<1>5. /\ Size(m', "b1") = Size(m, "b1") /\ Size(m', "b2") = Size(m, "b2")
      /\ \/ Size(m', "t1") = Size(m, "t1") /\ Size(m', "t2") = Size(m, "t2")
         \/ Size(m', "t1") = Size(m, "t1") - 1 /\ Size(m', "t2") = Size(m, "t2") + 1
  BY <1>1, <1>2, <1>3, <1>4 DEF Cached
<1>6. Sizes(m')
  BY <1>1, <1>4, <1>5, MaxNodesAssumption DEF Sizes, LeftSideSize, CacheSize, DirectorySize, DirectoryCapacity
<1>7. targetT1Size' \in 0..MaxNodes BY DEF HitCached, IInv, TypeOK
<1>8. IInv' BY <1>3, <1>6, <1>7, Finish, VisitedType DEF HitCached
<1>9. Notifies(k) BY <1>1, <1>3 DEF Notifies
<1> QED BY <1>8, <1>9
\* A key that is known is in a queue that is not empty.
LEMMA KnownKey ==
  ASSUME NEW mm, Sound(mm, Queues), NEW k \in Keys, mm.loc[k] # NoQueue
  PROVE  mm.loc[k] \in Queues /\ Size(mm, mm.loc[k]) > 0
<1>1. /\ mm.loc[k] \in Queues
      /\ mm.q[mm.loc[k]] \in Seq(Keys)
      /\ Contains(mm.q[mm.loc[k]], k)
  BY DEF Sound, Indexed, Located
<1> QED BY <1>1 DEF Contains, Size

\* Cases II and III: a ghost comes back to t2 after freeRoom.
LEMMA GhostHit ==
  ASSUME IInv, NEW k \in Keys, NEW from \in {"b1", "b2"}, m.loc[k] = from,
         NEW target \in 0..MaxNodes,
         m' = MoveNode(FreeRoom(Begin(m), target, from), k, from, "t2")
  PROVE  Sound(m', Queues) /\ ~Threw(m') /\ Holds(m') /\ Sizes(m') /\ Notifies(k)
<1> DEFINE b == Begin(m)
           f == FreeRoom(b, target, from)
<1>1. /\ Sound(b, Queues) /\ ~Threw(b) /\ Holds(b) /\ b.loc = m.loc /\ b.calls = << >>
      /\ b.resident = m.resident
      /\ \A n \in Queues : Size(b, n) = Size(m, n)
      /\ Sizes(m) /\ Sound(m, Queues)
      /\ \A x \in Keys : x \in m.resident <=> m.loc[x] \in Cached
  BY Start
<1>2. /\ m' = MoveNode(f, k, from, "t2") /\ f = FreeRoom(b, target, from)
      /\ target \in Nat /\ target <= MaxNodes
      /\ from \in Queues /\ from \notin Cached /\ from # "t2" /\ from # "t1" /\ from # NoQueue
  BY MaxNodesAssumption DEF Cached, Queues, NoQueue
<1> HIDE DEF b, f
<1>3. /\ Sound(f, Queues) /\ ~Threw(f) /\ Holds(f)
      /\ f.loc[k] = from
      /\ \/ /\ f = b
            /\ Size(b, "t2") = 0
            /\ \/ Size(b, "t1") = 0
               \/ /\ Size(b, "t1") <= target
                  /\ from = "b2" => Size(b, "t1") < target
         \/ /\ CacheSize(f) = CacheSize(b) - 1
            /\ LeftSideSize(f) <= LeftSideSize(b)
            /\ DirectorySize(f) <= DirectorySize(b)
            /\ \E v \in Keys : /\ m.loc[v] \in Cached
                               /\ f.calls = Append(b.calls, EvictCall(v))
  BY <1>1, <1>2, FreeRoomARC
<1>4. /\ Sound(m', Queues) /\ ~Threw(m') /\ Holds(m')
      /\ Size(m', from) = Size(f, from) - 1
      /\ Size(m', "t2") = Size(f, "t2") + 1
      /\ \A n \in Queues \ {from, "t2"} : Size(m', n) = Size(f, n)
      /\ m'.calls = Append(f.calls, LoadCall(k))
  <2>1. Sound(f, Queues) /\ ~Threw(f) /\ Holds(f) /\ f.loc[k] = from BY <1>3
  <2>2. m' = MoveNode(f, k, from, "t2") /\ from \in Queues BY <1>2
  <2>3. /\ Sound(m', Queues) /\ ~Threw(m')
        /\ from # "t2" => /\ Size(m', from) = Size(f, from) - 1
                          /\ Size(m', "t2") = Size(f, "t2") + 1
        /\ from = "t2" => Size(m', "t2") = Size(f, "t2")
        /\ \A n \in Queues \ {from, "t2"} : Size(m', n) = Size(f, n)
        /\ Holds(f) => Holds(m')
        /\ m'.calls = IF from \in Cached THEN f.calls ELSE Append(f.calls, LoadCall(k))
    BY <2>1, <2>2, MoveNodeARC, ZenonT(60)
  <2> QED BY <1>2, <2>1, <2>3
<1>5. /\ \A n \in Queues : Size(b, n) \in Nat /\ Size(f, n) \in Nat
      /\ "t1" \in Queues /\ "t2" \in Queues /\ "b1" \in Queues /\ "b2" \in Queues
  BY <1>1, <1>3, SizeTypes
<1>6. /\ Size(b, "t1") \in Nat /\ Size(b, "t2") \in Nat
      /\ Size(b, "b1") \in Nat /\ Size(b, "b2") \in Nat
      /\ Size(f, "t1") \in Nat /\ Size(f, "t2") \in Nat
      /\ Size(f, "b1") \in Nat /\ Size(f, "b2") \in Nat
  BY <1>5
<1>7. LeftSideSize(b) <= MaxNodes /\ CacheSize(b) <= MaxNodes /\ DirectorySize(b) <= 2 * MaxNodes
  BY <1>1, <1>5 DEF Sizes, LeftSideSize, CacheSize, DirectorySize, DirectoryCapacity
<1>8. Size(b, from) > 0 BY <1>1, <1>2, KnownKey
<1>9. /\ Size(m', "t1") = Size(f, "t1") /\ Size(m', "t2") = Size(f, "t2") + 1
      /\ \/ /\ from = "b1" /\ Size(m', "b1") = Size(f, "b1") - 1
            /\ Size(m', "b2") = Size(f, "b2") /\ Size(b, "b1") > 0
         \/ /\ from = "b2" /\ Size(m', "b2") = Size(f, "b2") - 1
            /\ Size(m', "b1") = Size(f, "b1") /\ Size(b, "b2") > 0
  BY <1>2, <1>4, <1>5, <1>8
<1>10. Sizes(m')
  <2>1. CASE /\ f = b
             /\ Size(b, "t2") = 0
             /\ \/ Size(b, "t1") = 0
                \/ /\ Size(b, "t1") <= target
                   /\ from = "b2" => Size(b, "t1") < target
    <3>1. Size(b, "t1") + 1 <= MaxNodes
      BY <1>2, <1>6, <1>7, <1>9, <2>1, MaxNodesAssumption DEF LeftSideSize, DirectorySize
    <3> QED BY <1>6, <1>7, <1>9, <2>1, <3>1, MaxNodesAssumption
            DEF Sizes, LeftSideSize, CacheSize, DirectorySize, DirectoryCapacity
  <2>2. CASE /\ CacheSize(f) = CacheSize(b) - 1
             /\ LeftSideSize(f) <= LeftSideSize(b)
             /\ DirectorySize(f) <= DirectorySize(b)
    BY <1>6, <1>7, <1>9, <2>2, MaxNodesAssumption
       DEF Sizes, LeftSideSize, CacheSize, DirectorySize, DirectoryCapacity
  <2> QED BY <1>3, <2>1, <2>2
<1>11. Notifies(k)
  <2>1. k \notin m.resident BY <1>1, <1>2
  <2>2. CASE f = b BY <1>1, <1>4, <2>1, <2>2 DEF Notifies, Calls, LoadCall
  <2>3. ASSUME NEW v \in Keys, m.loc[v] \in Cached, f.calls = Append(b.calls, EvictCall(v))
        PROVE  Notifies(k)
    <3>1. v \in m.resident \ {k} BY <1>1, <2>1, <2>3
    <3>2. m'.calls = <<Calls("evict", v), Calls("load", k)>>
      BY <1>1, <1>4, <2>3 DEF Calls, LoadCall, EvictCall
    <3> QED BY <2>1, <3>1, <3>2 DEF Notifies
  <2> QED BY <1>3, <2>2, <2>3
<1> QED BY <1>4, <1>10, <1>11

\* Case II of onHit; the target is clamped to MaxNodes from above.
LEMMA HitB1Step ==
  ASSUME IInv, NEW k \in Keys, HitB1(k)
  PROVE  IInv' /\ Notifies(k)
<1>1. Sound(m, Queues) BY Start
<1>2. /\ Size(m, "b2") \in Nat /\ Size(m, "b1") \in Nat /\ Size(m, "b1") > 0
  BY <1>1, SizeTypes, KnownKey DEF HitB1, NoQueue
<1>3. targetT1Size' \in 0..MaxNodes
  <2>1. targetT1Size \in 0..MaxNodes BY DEF IInv, TypeOK
  <2>2. Size(m, "b2") \div Size(m, "b1") \in Int BY <1>2
  <2>3. AtLeast(Size(m, "b2") \div Size(m, "b1"), 1) \in Nat BY <2>2 DEF AtLeast
  <2> QED BY <2>1, <2>3, MaxNodesAssumption DEF HitB1, AtMost
<1>4. Sound(m', Queues) /\ ~Threw(m') /\ Holds(m') /\ Sizes(m') /\ Notifies(k)
  BY <1>3, GhostHit DEF HitB1
<1> QED BY <1>3, <1>4, Finish, VisitedType DEF HitB1

\* Case III of onHit; the target is clamped to 0 from below.
LEMMA HitB2Step ==
  ASSUME IInv, NEW k \in Keys, HitB2(k)
  PROVE  IInv' /\ Notifies(k)
<1>1. Sound(m, Queues) BY Start
<1>2. /\ Size(m, "b2") \in Nat /\ Size(m, "b1") \in Nat /\ Size(m, "b2") > 0
  BY <1>1, SizeTypes, KnownKey DEF HitB2, NoQueue
<1>3. targetT1Size' \in 0..MaxNodes
  <2>1. targetT1Size \in 0..MaxNodes BY DEF IInv, TypeOK
  <2>2. Size(m, "b1") \div Size(m, "b2") \in Int BY <1>2
  <2>3. AtLeast(Size(m, "b1") \div Size(m, "b2"), 1) \in Nat BY <2>2 DEF AtLeast
  <2> HIDE DEF AtLeast
  <2>4. targetT1Size' = AtLeast(targetT1Size - AtLeast(Size(m, "b1") \div Size(m, "b2"), 1), 0)
    BY DEF HitB2
  <2> QED BY <2>1, <2>3, <2>4, MaxNodesAssumption DEF AtLeast
<1>4. Sound(m', Queues) /\ ~Threw(m') /\ Holds(m') /\ Sizes(m') /\ Notifies(k)
  BY <1>3, GhostHit DEF HitB2
<1> QED BY <1>3, <1>4, Finish, VisitedType DEF HitB2
\* Case IV once room has been made among the ghosts: freeRoom, then into t1.
LEMMA MissInsert ==
  ASSUME IInv, NEW k \in Keys, m.loc[k] = NoQueue,
         NEW mm, Sound(mm, Queues), ~Threw(mm), Holds(mm), mm.calls = << >>,
         mm.loc[k] = NoQueue, mm.resident = m.resident,
         LeftSideSize(mm) < MaxNodes, CacheSize(mm) <= MaxNodes,
         DirectorySize(mm) < DirectoryCapacity,
         NEW target \in Nat,
         m' = InsertNode(FreeRoom(mm, target, NoQueue), k, "t1")
  PROVE  Sound(m', Queues) /\ ~Threw(m') /\ Holds(m') /\ Sizes(m') /\ Notifies(k)
<1> DEFINE f == FreeRoom(mm, target, NoQueue)
<1>1. m' = InsertNode(f, k, "t1") /\ f = FreeRoom(mm, target, NoQueue) /\ NoQueue \notin Cached
  BY DEF NoQueue, Cached
<1> HIDE DEF f
<1>2. /\ Sound(f, Queues) /\ ~Threw(f) /\ Holds(f)
      /\ f.loc[k] = NoQueue
      /\ \/ f = mm /\ Size(mm, "t2") = 0
         \/ /\ CacheSize(f) = CacheSize(mm) - 1
            /\ LeftSideSize(f) <= LeftSideSize(mm)
            /\ DirectorySize(f) <= DirectorySize(mm)
            /\ \E v \in Keys : /\ mm.loc[v] \in Cached
                               /\ f.calls = Append(mm.calls, EvictCall(v))
  BY <1>1, FreeRoomARC
<1>3. /\ Sound(m', Queues) /\ ~Threw(m') /\ Holds(m')
      /\ Size(m', "t1") = Size(f, "t1") + 1
      /\ \A n \in Queues \ {"t1"} : Size(m', n) = Size(f, n)
      /\ m'.calls = Append(f.calls, LoadCall(k))
  <2>1. Sound(f, Queues) /\ ~Threw(f) /\ Holds(f) /\ f.loc[k] = NoQueue BY <1>2
  <2>2. m' = InsertNode(f, k, "t1") BY <1>1
  <2> QED BY <2>1, <2>2, InsertNodeARC
<1>4. /\ \A n \in Queues : Size(mm, n) \in Nat /\ Size(f, n) \in Nat
      /\ "t1" \in Queues /\ "t2" \in Queues /\ "b1" \in Queues /\ "b2" \in Queues
  BY <1>2, SizeTypes
<1>5. /\ Size(mm, "t1") \in Nat /\ Size(mm, "t2") \in Nat
      /\ Size(mm, "b1") \in Nat /\ Size(mm, "b2") \in Nat
      /\ Size(f, "t1") \in Nat /\ Size(f, "t2") \in Nat
      /\ Size(f, "b1") \in Nat /\ Size(f, "b2") \in Nat
  BY <1>4
<1>6. /\ Size(m', "t1") = Size(f, "t1") + 1
      /\ Size(m', "t2") = Size(f, "t2")
      /\ Size(m', "b1") = Size(f, "b1")
      /\ Size(m', "b2") = Size(f, "b2")
  BY <1>3, <1>4
<1>7. Sizes(m')
  <2>1. CASE f = mm /\ Size(mm, "t2") = 0
    <3>1. /\ Size(m', "t1") = Size(mm, "t1") + 1 /\ Size(m', "t2") = 0
          /\ Size(m', "b1") = Size(mm, "b1") /\ Size(m', "b2") = Size(mm, "b2")
      BY <1>6, <2>1
    <3>2. /\ Size(mm, "t1") + Size(mm, "b1") < MaxNodes
          /\ Size(mm, "t1") + Size(mm, "b1") + Size(mm, "t2") + Size(mm, "b2") < 2 * MaxNodes
      BY DEF LeftSideSize, DirectorySize, DirectoryCapacity
    <3> QED BY <1>5, <2>1, <3>1, <3>2, MaxNodesAssumption, SMTT(30)
            DEF Sizes, LeftSideSize, CacheSize, DirectorySize, DirectoryCapacity
  <2>2. CASE /\ CacheSize(f) = CacheSize(mm) - 1
             /\ LeftSideSize(f) <= LeftSideSize(mm)
             /\ DirectorySize(f) <= DirectorySize(mm)
    <3>1. /\ LeftSideSize(mm) \in Nat /\ LeftSideSize(f) \in Nat
          /\ CacheSize(mm) \in Nat /\ CacheSize(f) \in Nat
          /\ DirectorySize(mm) \in Nat /\ DirectorySize(f) \in Nat
          /\ DirectoryCapacity \in Nat
      BY <1>2, TotalTypes, MaxNodesAssumption DEF DirectoryCapacity
    <3>2. /\ LeftSideSize(m') = LeftSideSize(f) + 1
          /\ CacheSize(m') = CacheSize(f) + 1
          /\ DirectorySize(m') = DirectorySize(f) + 1
      BY <1>2, <1>6, TotalsAfterInsert
    <3> QED BY <2>2, <3>1, <3>2, MaxNodesAssumption, SMTT(30) DEF Sizes
  <2> QED BY <1>2, <2>1, <2>2
<1>8. Notifies(k)
  <2>1. k \notin m.resident /\ \A x \in Keys : x \in m.resident <=> mm.loc[x] \in Cached
    BY <1>1 DEF Holds
  <2>2. CASE f = mm BY <1>3, <2>1, <2>2 DEF Notifies, Calls, LoadCall
  <2>3. ASSUME NEW v \in Keys, mm.loc[v] \in Cached, f.calls = Append(mm.calls, EvictCall(v))
        PROVE  Notifies(k)
    <3>1. v \in m.resident \ {k} BY <2>1, <2>3
    <3>2. m'.calls = <<Calls("evict", v), Calls("load", k)>>
      BY <1>3, <2>3 DEF Calls, LoadCall, EvictCall
    <3> QED BY <2>1, <3>1, <3>2 DEF Notifies
  <2> QED BY <1>2, <2>2, <2>3
<1> QED BY <1>3, <1>7, <1>8

\* Dropping the head of a ghost queue first (cases IV.i.if and IV.ii.if).
LEMMA MissDropGhost ==
  ASSUME IInv, NEW k \in Keys, m.loc[k] = NoQueue, NEW g \in {"b1", "b2"}, Size(m, g) > 0,
         LeftSideSize(m) - (IF g = "b1" THEN 1 ELSE 0) < MaxNodes,
         NEW target \in Nat,
         m' = InsertNode(FreeRoom(RemoveNode(Begin(m), g), target, NoQueue), k, "t1")
  PROVE  Sound(m', Queues) /\ ~Threw(m') /\ Holds(m') /\ Sizes(m') /\ Notifies(k)
<1> DEFINE b == Begin(m)
           d == RemoveNode(b, g)
           h == Head(b.q[g])
<1>1. /\ Sound(b, Queues) /\ ~Threw(b) /\ Holds(b) /\ b.loc = m.loc /\ b.calls = << >>
      /\ b.resident = m.resident
      /\ \A n \in Queues : Size(b, n) = Size(m, n)
      /\ Sizes(m) /\ Sound(m, Queues)
  BY Start
<1>2. /\ g \in Queues /\ g \notin Cached /\ d = RemoveNode(b, g) /\ h = Head(b.q[g])
      /\ m' = InsertNode(FreeRoom(d, target, NoQueue), k, "t1")
  BY DEF Queues, Cached
<1> HIDE DEF b, d, h
<1>3. /\ \A n \in Queues : Size(b, n) \in Nat /\ (IsEmpty(b.q[n]) <=> Size(b, n) = 0)
      /\ "t1" \in Queues /\ "t2" \in Queues /\ "b1" \in Queues /\ "b2" \in Queues
  BY <1>1, SizeTypes
<1>4. ~IsEmpty(b.q[g]) BY <1>1, <1>2, <1>3
<1>5. /\ h \in Keys /\ b.loc[h] = g
      /\ Sound(d, Queues) /\ ~Threw(d)
      /\ d.q = Polled(b.q, g)
      /\ Len(Poll(b.q[g])) = Len(b.q[g]) - 1
      /\ d.loc = Placed(b.loc, h, NoQueue)
      /\ d.resident = b.resident /\ d.calls = b.calls
  BY <1>1, <1>2, <1>4, RemoveNodeEffect
<1>6. b.q \in [Queues -> Seq(Keys)] /\ b.loc \in [Keys -> Queues \cup {NoQueue}]
  BY <1>1, FieldTypes DEF Sound
<1>7. /\ Size(d, g) = Size(b, g) - 1
      /\ \A n \in Queues \ {g} : Size(d, n) = Size(b, n)
  BY <1>2, <1>5, <1>6 DEF Size, Polled
<1>8. Holds(d) /\ d.loc[k] = NoQueue
  <2>1. /\ d.loc[h] = NoQueue /\ \A x \in Keys : x # h => d.loc[x] = b.loc[x]
    BY <1>5, <1>6 DEF Placed
  <2>2. NoQueue \notin Cached BY DEF NoQueue, Cached
  <2> QED BY <1>1, <1>2, <1>5, <2>1, <2>2 DEF Holds
<1>9. /\ Size(b, "t1") = Size(m, "t1") /\ Size(b, "t1") \in Nat
      /\ Size(b, "t2") = Size(m, "t2") /\ Size(b, "t2") \in Nat
      /\ Size(b, "b1") = Size(m, "b1") /\ Size(b, "b1") \in Nat
      /\ Size(b, "b2") = Size(m, "b2") /\ Size(b, "b2") \in Nat
  BY <1>1, <1>3
<1>10. /\ Size(d, "t1") = Size(m, "t1") /\ Size(d, "t2") = Size(m, "t2")
       /\ \/ g = "b1" /\ Size(d, "b1") = Size(m, "b1") - 1 /\ Size(d, "b2") = Size(m, "b2")
          \/ g = "b2" /\ Size(d, "b2") = Size(m, "b2") - 1 /\ Size(d, "b1") = Size(m, "b1")
  BY <1>2, <1>3, <1>7, <1>9
<1>11. /\ LeftSideSize(d) < MaxNodes /\ CacheSize(d) <= MaxNodes
       /\ DirectorySize(d) < DirectoryCapacity
  BY <1>1, <1>9, <1>10, MaxNodesAssumption, SMTT(30)
     DEF Sizes, LeftSideSize, CacheSize, DirectorySize, DirectoryCapacity
<1>12. d.calls = << >> /\ d.resident = m.resident BY <1>1, <1>5
<1> QED BY <1>2, <1>5, <1>8, <1>11, <1>12, MissInsert

\* Case IV.i.if of onMiss: b1 is not empty because side 1 is full and t1 is not.
LEMMA MissLeftSideFullStep ==
  ASSUME IInv, NEW k \in Keys, MissLeftSideFull(k)
  PROVE  IInv' /\ Notifies(k)
<1>1. Sound(m, Queues) /\ Sizes(m) BY Start
<1>2. Size(m, "t1") \in Nat /\ Size(m, "b1") \in Nat BY <1>1, SizeTypes
<1>3. /\ Size(m, "b1") > 0
      /\ LeftSideSize(m) - 1 < MaxNodes
  BY <1>1, <1>2, MaxNodesAssumption DEF MissLeftSideFull, LeftSideSize, Sizes
<1>4. targetT1Size \in 0..MaxNodes /\ targetT1Size \in Nat /\ targetT1Size' \in 0..MaxNodes
  BY DEF IInv, TypeOK, MissLeftSideFull, Miss
<1>5. /\ m.loc[k] = NoQueue /\ Visited(k)
      /\ m' = InsertNode(FreeRoom(RemoveNode(Begin(m), "b1"), targetT1Size, NoQueue), k, "t1")
  BY DEF MissLeftSideFull, Miss
<1>6. Sound(m', Queues) /\ ~Threw(m') /\ Holds(m') /\ Sizes(m') /\ Notifies(k)
  BY <1>3, <1>4, <1>5, MissDropGhost
<1> QED BY <1>4, <1>5, <1>6, Finish, VisitedType

\* Case IV.ii.if of onMiss: b2 is not empty because the directory is full, side 1
\* is not and t2 holds at most MaxNodes keys.
LEMMA MissDirectoryFullStep ==
  ASSUME IInv, NEW k \in Keys, MissDirectoryFull(k)
  PROVE  IInv' /\ Notifies(k)
<1>1. Sound(m, Queues) /\ Sizes(m) BY Start
<1>2. /\ Size(m, "t1") \in Nat /\ Size(m, "b1") \in Nat
      /\ Size(m, "t2") \in Nat /\ Size(m, "b2") \in Nat
  BY <1>1, SizeTypes
<1>3. /\ LeftSideSize(m) < MaxNodes
      /\ Size(m, "t1") + Size(m, "t2") <= MaxNodes
      /\ Size(m, "t1") + Size(m, "b1") < MaxNodes
      /\ Size(m, "t1") + Size(m, "b1") + Size(m, "t2") + Size(m, "b2") >= 2 * MaxNodes
  BY <1>1 DEF MissDirectoryFull, LeftSideSize, DirectorySize, DirectoryCapacity, CacheSize, Sizes
<1>4. Size(m, "b2") > 0 BY <1>2, <1>3, MaxNodesAssumption
<1>5. LeftSideSize(m) - 0 < MaxNodes BY <1>1, <1>3, TotalTypes
<1>6. targetT1Size \in 0..MaxNodes /\ targetT1Size \in Nat /\ targetT1Size' \in 0..MaxNodes
  BY DEF IInv, TypeOK, MissDirectoryFull, Miss
<1>7. /\ m.loc[k] = NoQueue /\ Visited(k)
      /\ m' = InsertNode(FreeRoom(RemoveNode(Begin(m), "b2"), targetT1Size, NoQueue), k, "t1")
  BY DEF MissDirectoryFull, Miss
<1>8. Sound(m', Queues) /\ ~Threw(m') /\ Holds(m') /\ Sizes(m') /\ Notifies(k)
  BY <1>4, <1>5, <1>6, <1>7, MissDropGhost
<1> QED BY <1>6, <1>7, <1>8, Finish, VisitedType

\* The totals are those of the state before the visit.
LEMMA BeginTotals ==
  ASSUME IInv
  PROVE  /\ LeftSideSize(Begin(m)) = LeftSideSize(m)
         /\ CacheSize(Begin(m)) = CacheSize(m)
         /\ DirectorySize(Begin(m)) = DirectorySize(m)
BY Start DEF LeftSideSize, CacheSize, DirectorySize, Queues

\* Case IV.ii of onMiss below the directory's capacity.
LEMMA MissCacheFullStep ==
  ASSUME IInv, NEW k \in Keys, MissCacheFull(k)
  PROVE  IInv' /\ Notifies(k)
<1> DEFINE b == Begin(m)
<1>1. /\ Sound(b, Queues) /\ ~Threw(b) /\ Holds(b) /\ b.loc = m.loc /\ b.calls = << >>
      /\ b.resident = m.resident /\ Sizes(m)
  BY Start
<1>2. /\ LeftSideSize(b) < MaxNodes /\ CacheSize(b) <= MaxNodes
      /\ DirectorySize(b) < DirectoryCapacity
  BY <1>1, BeginTotals DEF MissCacheFull, Sizes
<1>3. targetT1Size \in 0..MaxNodes /\ targetT1Size \in Nat /\ targetT1Size' \in 0..MaxNodes
  BY DEF IInv, TypeOK, MissCacheFull, Miss
<1>4. /\ m.loc[k] = NoQueue /\ Visited(k)
      /\ m' = InsertNode(FreeRoom(b, targetT1Size, NoQueue), k, "t1")
  BY DEF MissCacheFull, Miss
<1> HIDE DEF b
<1>5. Sound(m', Queues) /\ ~Threw(m') /\ Holds(m') /\ Sizes(m') /\ Notifies(k)
  BY <1>1, <1>2, <1>3, <1>4, MissInsert
<1> QED BY <1>3, <1>4, <1>5, Finish, VisitedType

\* Into t1 without freeRoom.
LEMMA PlainInsert ==
  ASSUME IInv, NEW k \in Keys, m.loc[k] = NoQueue,
         NEW mm, Sound(mm, Queues), ~Threw(mm), Holds(mm), mm.loc[k] = NoQueue,
         LeftSideSize(mm) < MaxNodes, CacheSize(mm) < MaxNodes,
         DirectorySize(mm) < DirectoryCapacity,
         m' = InsertNode(mm, k, "t1")
  PROVE  /\ Sound(m', Queues) /\ ~Threw(m') /\ Holds(m') /\ Sizes(m')
         /\ m'.calls = Append(mm.calls, LoadCall(k))
<1>1. /\ Sound(m', Queues) /\ ~Threw(m') /\ Holds(m')
      /\ Size(m', "t1") = Size(mm, "t1") + 1
      /\ \A n \in Queues \ {"t1"} : Size(m', n) = Size(mm, n)
      /\ m'.calls = Append(mm.calls, LoadCall(k))
  BY InsertNodeARC
<1>2. /\ Size(m', "t2") = Size(mm, "t2") /\ Size(m', "b1") = Size(mm, "b1")
      /\ Size(m', "b2") = Size(mm, "b2")
  BY <1>1 DEF Queues
<1>3. /\ LeftSideSize(m') = LeftSideSize(mm) + 1
      /\ CacheSize(m') = CacheSize(mm) + 1
      /\ DirectorySize(m') = DirectorySize(mm) + 1
  BY <1>1, <1>2, TotalsAfterInsert
<1>4. /\ LeftSideSize(mm) \in Nat /\ CacheSize(mm) \in Nat /\ DirectorySize(mm) \in Nat
      /\ DirectoryCapacity \in Nat
  BY TotalTypes, MaxNodesAssumption DEF DirectoryCapacity
<1>5. Sizes(m') BY <1>3, <1>4, MaxNodesAssumption DEF Sizes
<1> QED BY <1>1, <1>5

\* onMiss with fewer than MaxNodes known keys inserts without evicting.
LEMMA MissRoomStep ==
  ASSUME IInv, NEW k \in Keys, MissRoom(k)
  PROVE  IInv' /\ Notifies(k)
<1> DEFINE b == Begin(m)
<1>1. /\ Sound(b, Queues) /\ ~Threw(b) /\ Holds(b) /\ b.loc = m.loc /\ b.calls = << >>
      /\ Sizes(m) /\ Sound(m, Queues) /\ (k \in m.resident <=> m.loc[k] \in Cached)
  BY Start
<1>2. /\ LeftSideSize(b) < MaxNodes /\ CacheSize(b) < MaxNodes
      /\ DirectorySize(b) < DirectoryCapacity
  <2>1. /\ Size(m, "t1") \in Nat /\ Size(m, "b1") \in Nat
        /\ Size(m, "t2") \in Nat /\ Size(m, "b2") \in Nat
    BY <1>1, SizeTypes
  <2>2. LeftSideSize(m) < MaxNodes /\ DirectorySize(m) < MaxNodes BY DEF MissRoom
  <2>3. CacheSize(m) < MaxNodes /\ DirectorySize(m) < DirectoryCapacity
    BY <2>1, <2>2, MaxNodesAssumption DEF LeftSideSize, CacheSize, DirectorySize, DirectoryCapacity
  <2> QED BY <2>2, <2>3, BeginTotals
<1>3. targetT1Size' \in 0..MaxNodes BY DEF IInv, TypeOK, MissRoom, Miss
<1>4. /\ m.loc[k] = NoQueue /\ Visited(k) /\ m' = InsertNode(b, k, "t1")
  BY DEF MissRoom, Miss
<1> HIDE DEF b
<1>5. /\ Sound(m', Queues) /\ ~Threw(m') /\ Holds(m') /\ Sizes(m')
      /\ m'.calls = Append(b.calls, LoadCall(k))
  BY <1>1, <1>2, <1>4, PlainInsert
<1>6. k \notin m.resident BY <1>1, <1>4 DEF Cached, NoQueue
<1>7. m'.calls = <<Calls("load", k)>> BY <1>1, <1>5 DEF Calls, LoadCall
<1> QED BY <1>3, <1>4, <1>5, <1>6, <1>7, Finish, VisitedType DEF Notifies
\* Case IV.i.else.  With MaxNodes = 0 the head of the empty t1 is asked for and
\* the exception leaves the manager as it was.
LEMMA MissT1FullStep ==
  ASSUME IInv, NEW k \in Keys, MissT1Full(k)
  PROVE  IInv' /\ Notifies(k)
<1> DEFINE b == Begin(m)
           d == EvictNode(b, "t1")
           v == Head(b.q["t1"])
<1>1. /\ Sound(b, Queues) /\ ~Threw(b) /\ Holds(b) /\ b.loc = m.loc /\ b.calls = << >>
      /\ Sizes(m) /\ Sound(m, Queues) /\ b.q = m.q /\ b.resident = m.resident
      /\ \A x \in Keys : x \in m.resident <=> m.loc[x] \in Cached
  BY Start
<1>2. /\ m.loc[k] = NoQueue /\ Visited(k) /\ m' = InsertNode(d, k, "t1")
      /\ Size(m, "t1") >= MaxNodes /\ d = EvictNode(b, "t1") /\ v = Head(b.q["t1"])
  BY DEF MissT1Full, Miss
<1>3. targetT1Size' \in 0..MaxNodes BY DEF IInv, TypeOK, MissT1Full, Miss
<1> HIDE DEF b, d, v
<1>4. k \notin m.resident /\ NoQueue \notin Cached BY <1>1, <1>2 DEF Cached, NoQueue
<1>5. /\ \A n \in Queues : Size(b, n) \in Nat /\ (IsEmpty(b.q[n]) <=> Size(b, n) = 0)
      /\ "t1" \in Queues /\ "t2" \in Queues /\ "b1" \in Queues /\ "b2" \in Queues
      /\ \A n \in Queues : Size(b, n) = Size(m, n)
  BY <1>1, SizeTypes DEF Size
<1>6. /\ Size(b, "t1") \in Nat /\ Size(b, "t2") \in Nat
      /\ Size(b, "b1") \in Nat /\ Size(b, "b2") \in Nat
      /\ Size(b, "t1") = Size(m, "t1") /\ Size(b, "t2") = Size(m, "t2")
      /\ Size(b, "b1") = Size(m, "b1") /\ Size(b, "b2") = Size(m, "b2")
  BY <1>5
<1>7. CASE IsEmpty(b.q["t1"])
  <2>1. MaxNodes = 0 BY <1>2, <1>5, <1>6, <1>7, MaxNodesAssumption
  <2>2. d = Throw(b) BY <1>1, <1>2, <1>7 DEF EvictNode
  <2>3. /\ d \in Managers(Queues) /\ Threw(d)
        /\ d.q = b.q /\ d.loc = b.loc /\ d.resident = b.resident
    BY <1>1, <2>2, ThrowFields DEF Sound
  <2>4. m' = d
    BY <1>2, <2>3 DEF InsertNode, AfterInsert, Insert, Load
  <2>5. Sound(m', Queues) /\ Holds(m') BY <1>1, <2>3, <2>4 DEF Sound, Holds
  <2>6. \A n \in Queues : Size(m', n) = Size(m, n)
    BY <1>1, <2>3, <2>4 DEF Size
  <2>7. Sizes(m') BY <1>1, <1>5, <2>6 DEF Sizes, LeftSideSize, CacheSize, DirectorySize
  <2>8. ~(MaxNodes > 0) BY <2>1
  <2> QED BY <1>2, <1>3, <2>5, <2>7, <2>8, Finish, VisitedType DEF Notifies
<1>8. CASE ~IsEmpty(b.q["t1"])
  <2>1. /\ v \in Keys /\ b.loc[v] = "t1"
        /\ Sound(d, Queues) /\ ~Threw(d)
        /\ d.q = Polled(b.q, "t1")
        /\ Len(Poll(b.q["t1"])) = Len(b.q["t1"]) - 1
        /\ d.loc = Placed(b.loc, v, NoQueue)
        /\ d.resident = b.resident \ {v}
        /\ d.calls = Append(b.calls, EvictCall(v))
    <3>1. Sound(b, Queues) /\ ~Threw(b) /\ "t1" \in Queues BY <1>1, <1>5
    <3>2. d = EvictNode(b, "t1") /\ v = Head(b.q["t1"]) BY <1>2
    <3> QED BY <1>8, <3>1, <3>2, EvictNodeEffect
  <2>2. b.q \in [Queues -> Seq(Keys)] /\ b.loc \in [Keys -> Queues \cup {NoQueue}]
    BY <1>1, FieldTypes DEF Sound
  <2>3. /\ Size(d, "t1") = Size(b, "t1") - 1 /\ Size(d, "t2") = Size(b, "t2")
        /\ Size(d, "b1") = Size(b, "b1") /\ Size(d, "b2") = Size(b, "b2")
    BY <1>5, <2>1, <2>2 DEF Size, Polled
  <2>4. /\ d.loc[v] = NoQueue /\ \A x \in Keys : x # v => d.loc[x] = b.loc[x]
    BY <2>1, <2>2 DEF Placed
  <2>5. Holds(d) /\ d.loc[k] = NoQueue
    BY <1>1, <1>2, <1>4, <2>1, <2>4 DEF Holds
  <2>6. /\ Size(m, "t1") + Size(m, "b1") <= MaxNodes
        /\ Size(m, "t1") + Size(m, "t2") <= MaxNodes
        /\ Size(m, "t1") + Size(m, "b1") + Size(m, "t2") + Size(m, "b2") <= 2 * MaxNodes
    BY <1>1 DEF Sizes, LeftSideSize, CacheSize, DirectorySize, DirectoryCapacity
  <2>7. /\ LeftSideSize(d) < MaxNodes /\ CacheSize(d) < MaxNodes
        /\ DirectorySize(d) < DirectoryCapacity
    BY <1>6, <2>3, <2>6, MaxNodesAssumption
       DEF LeftSideSize, CacheSize, DirectorySize, DirectoryCapacity
  <2>8. /\ Sound(m', Queues) /\ ~Threw(m') /\ Holds(m') /\ Sizes(m')
        /\ m'.calls = Append(d.calls, LoadCall(k))
    BY <1>2, <2>1, <2>5, <2>7, PlainInsert
  <2>9. v \in m.resident \ {k} BY <1>1, <1>4, <2>1 DEF Cached
  <2>10. m'.calls = <<Calls("evict", v), Calls("load", k)>>
    <3>1. /\ b.calls = << >> /\ d.calls = Append(b.calls, EvictCall(v))
          /\ m'.calls = Append(d.calls, LoadCall(k))
      BY <1>1, <2>1, <2>8
    <3> QED BY <3>1, EvictThenLoad
  <2>11. Notifies(k) BY <1>4, <2>9, <2>10 DEF Notifies
  <2> QED BY <1>2, <1>3, <2>8, <2>11, Finish, VisitedType
<1> QED BY <1>7, <1>8

\* remove(hit) between visits preserves the invariant.
LEMMA RemoveKeyStep ==
  ASSUME IInv, NEW k \in Keys, RemoveKey(k)
  PROVE  IInv'
<1> DEFINE b == Begin(m)
<1>1. /\ Sound(b, Queues) /\ ~Threw(b) /\ Holds(b) /\ Sizes(m) /\ Sound(m, Queues)
      /\ \A n \in Queues : Size(b, n) = Size(m, n)
  BY Start
<1>2. m' = Removed(b, k) BY DEF RemoveKey
<1> HIDE DEF b
<1>3. /\ Sound(m', Queues)
      /\ m'.loc = Placed(b.loc, k, NoQueue)
      /\ b.loc[k] = NoQueue => m'.q = b.q
      /\ b.loc[k] # NoQueue =>
            /\ b.loc[k] \in Queues
            /\ m'.q = Taken(b.q, b.loc[k], k)
            /\ Len(RemoveObject(b.q[b.loc[k]], k)) = Len(b.q[b.loc[k]]) - 1
      /\ m'.resident = b.resident \ {k} /\ m'.exc = b.exc
  BY <1>1, <1>2, RemovedEffect
<1>4. b.q \in [Queues -> Seq(Keys)] /\ b.loc \in [Keys -> Queues \cup {NoQueue}]
  BY <1>1, FieldTypes DEF Sound
<1>5. Holds(m')
  BY <1>1, <1>3, <1>4 DEF Holds, Placed, Cached, NoQueue
<1>6. \A n \in Queues : Size(m', n) \in Nat /\ Size(b, n) \in Nat BY <1>1, <1>3, SizeTypes
<1>7. \A n \in Queues : Size(m', n) <= Size(b, n)
  <2>1. CASE b.loc[k] = NoQueue BY <1>3, <1>6, <2>1 DEF Size
  <2>2. CASE b.loc[k] # NoQueue
    <3>1. m'.q[b.loc[k]] = RemoveObject(b.q[b.loc[k]], k)
      BY <1>3, <1>4, <2>2 DEF Taken
    <3>2. \A n \in Queues : n # b.loc[k] => m'.q[n] = b.q[n]
      BY <1>3, <1>4, <2>2 DEF Taken
    <3> QED BY <1>3, <1>6, <2>2, <3>1, <3>2, SMTT(30) DEF Size
  <2> QED BY <2>1, <2>2
<1>8. Sizes(m')
  <2>1. /\ Size(m', "t1") \in Nat /\ Size(m', "t2") \in Nat
        /\ Size(m', "b1") \in Nat /\ Size(m', "b2") \in Nat
        /\ Size(m, "t1") \in Nat /\ Size(m, "t2") \in Nat
        /\ Size(m, "b1") \in Nat /\ Size(m, "b2") \in Nat
        /\ Size(m', "t1") <= Size(m, "t1") /\ Size(m', "t2") <= Size(m, "t2")
        /\ Size(m', "b1") <= Size(m, "b1") /\ Size(m', "b2") <= Size(m, "b2")
    BY <1>1, <1>6, <1>7 DEF Queues
  <2> QED BY <1>1, <2>1, MaxNodesAssumption
          DEF Sizes, LeftSideSize, CacheSize, DirectorySize, DirectoryCapacity
<1>9. ~Threw(m') BY <1>1, <1>3 DEF Threw
<1>10. targetT1Size' \in 0..MaxNodes /\ older' \subseteq Keys \X Keys
  BY DEF IInv, TypeOK, RemoveKey
<1> QED BY <1>3, <1>5, <1>8, <1>9, <1>10, Finish

\* Empty queues agree with an empty currentLocations.
LEMMA EmptyIndexed ==
  ASSUME NEW q, q = [n \in Queues |-> << >>], NEW loc, loc = [k \in Keys |-> NoQueue]
  PROVE  Indexed(Queues, q, loc)
BY DEF Indexed, Located, IsQueue, Contains, Queues, NoQueue

\* clear() preserves the invariant; targetT1Size stays within the cache.
LEMMA ClearStep ==
  ASSUME IInv, Clear
  PROVE  IInv'
<1> DEFINE b == Begin(m)
           q0 == [n \in DOMAIN b.q |-> << >>]
           loc0 == [k \in Keys |-> NoQueue]
           r == Reindex(b, q0, loc0)
<1>1. Sound(b, Queues) /\ ~Threw(b) BY Start
<1>2. m' = [r EXCEPT !.resident = {}] BY DEF Clear, EmptyManager
<1>3. q0 = [n \in Queues |-> << >>] BY <1>1, FieldTypes DEF Sound
<1>4. Indexed(Queues, q0, loc0) BY <1>3, EmptyIndexed
<1>5. b \in Managers(Queues) /\ r = Reindex(b, q0, loc0) BY <1>1 DEF Sound
<1>6. \A n \in Queues : q0[n] = << >> BY <1>3
<1>7. \A k \in Keys : loc0[k] = NoQueue OBVIOUS
<1> HIDE DEF b, q0, loc0, r
<1>8. /\ Sound(r, Queues) /\ r.q = q0 /\ r.loc = loc0 /\ r.exc = b.exc
  BY <1>4, <1>5, ReindexSound
<1>9. /\ m' \in Managers(Queues) /\ m'.q = q0 /\ m'.loc = loc0 /\ m'.exc = b.exc
      /\ m'.resident = {}
  BY <1>2, <1>8 DEF Sound, Managers
<1>10. Sound(m', Queues) BY <1>4, <1>9 DEF Sound
<1>11. Holds(m') BY <1>7, <1>9 DEF Holds, Cached, NoQueue
<1>12. /\ Size(m', "t1") = 0 /\ Size(m', "t2") = 0 /\ Size(m', "b1") = 0 /\ Size(m', "b2") = 0
  BY <1>6, <1>9 DEF Size, Queues
<1>13. Sizes(m')
  BY <1>12, MaxNodesAssumption DEF Sizes, LeftSideSize, CacheSize, DirectorySize, DirectoryCapacity
<1>14. ~Threw(m') BY <1>1, <1>9 DEF Threw
<1>15. targetT1Size' \in 0..MaxNodes /\ older' \subseteq Keys \X Keys
  BY DEF IInv, TypeOK, Clear
<1> QED BY <1>10, <1>11, <1>13, <1>14, <1>15, Finish

\* The constructor establishes the invariant.
LEMMA InitInvariant == Init => IInv
<1> SUFFICES ASSUME Init PROVE IInv OBVIOUS
<1>1. m = [q |-> [n \in Queues |-> << >>], loc |-> [k \in Keys |-> NoQueue],
           resident |-> {}, calls |-> << >>, exc |-> "none"]
  BY DEF Init, NewManager
<1>2. m \in Managers(Queues)
  <2>1. << >> \in Seq(Keys) /\ << >> \in Seq(Callbacks) OBVIOUS
  <2> QED BY <1>1, <2>1 DEF Managers
<1>3. /\ m.q = [n \in Queues |-> << >>] /\ m.loc = [k \in Keys |-> NoQueue]
      /\ m.resident = {} /\ m.exc = "none"
  BY <1>1
<1>4. Located(m.q, m.loc) BY <1>3, EmptyIndexed DEF Indexed
<1>5. /\ Size(m, "t1") = 0 /\ Size(m, "t2") = 0 /\ Size(m, "b1") = 0 /\ Size(m, "b2") = 0
  BY <1>3 DEF Size, Queues
<1>6. SizesBounded
  BY <1>5, MaxNodesAssumption DEF SizesBounded, LeftSideSize, CacheSize, DirectorySize, DirectoryCapacity
<1>7. ListenerHoldsCache BY <1>3 DEF ListenerHoldsCache, Cached, NoQueue
<1>8. TypeOK BY <1>2, MaxNodesAssumption DEF TypeOK, Init
<1> QED BY <1>3, <1>4, <1>6, <1>7, <1>8 DEF IInv, LocationsConsistent, NoException, Threw

\* visit(hit), whichever case of onHit and onMiss it takes.
LEMMA VisitStep ==
  ASSUME IInv, NEW k \in Keys, Visit(k)
  PROVE  IInv' /\ Notifies(k)
BY HitCachedStep, HitB1Step, HitB2Step, MissLeftSideFullStep, MissT1FullStep,
   MissDirectoryFullStep, MissCacheFullStep, MissRoomStep DEF Visit

\* Every operation of the manager preserves the invariant.
LEMMA Inductive == IInv /\ [Next]_vars => IInv'
<1> SUFFICES ASSUME IInv, [Next]_vars PROVE IInv' OBVIOUS
<1>1. ASSUME NEW k \in Keys, Visit(k) PROVE IInv' BY <1>1, VisitStep
<1>2. ASSUME NEW k \in Keys, RemoveKey(k) PROVE IInv' BY <1>2, RemoveKeyStep
<1>3. CASE Clear BY <1>3, ClearStep
<1>4. CASE UNCHANGED vars
  BY <1>4 DEF vars, IInv, TypeOK, LocationsConsistent, SizesBounded, ListenerHoldsCache,
     NoException, LeftSideSize, CacheSize, DirectorySize, Size, Threw
<1> QED BY <1>1, <1>2, <1>3, <1>4 DEF Next

\* Type, locations and listener, size bounds and absence of exceptions, together, hold in
\* every state ARC reaches by visit, remove and clear, for any set of keys, any capacity
\* and whichever keys the listener removes.  No part is inductive alone: the cases of
\* onMiss that take the head of b1 or b2 need the size bounds, the bounds need the
\* locations to be right, and the listener's view needs both.
THEOREM Invariant == Spec => []IInv
BY InitInvariant, Inductive, PTL DEF Spec

\* targetT1Size never leaves 0..MaxNodes and the manager keeps its types, whatever
\* onHit's integer divisions yield.
THEOREM TypeCorrect == Spec => []TypeOK
BY Invariant, PTL DEF IInv

\* currentLocations always names the one queue that holds a key, and the objects the
\* listener was told to load and not yet told to evict are those of t1 and t2, also when
\* the listener calls remove from within evict, for whichever keys it does.
THEOREM LocationsAgree == Spec => []LocationsConsistent
BY Invariant, PTL DEF IInv

\* What assertInvariants only logs: t1 with b1 and t1 with t2 hold at most MaxNodes
\* keys and the directory at most twice as many.
THEOREM SizesStayBounded == Spec => []SizesBounded
BY Invariant, PTL DEF IInv

\* With MaxNodes > 0 no visit takes the head of an empty queue, so
\* QueueAdapter.remove never throws.
THEOREM NeverThrows == Spec => []NoException
BY Invariant, PTL DEF IInv

\* A visit of a resident key makes no callback; any other visit loads its key last,
\* after at most one eviction of another resident key.
THEOREM VisitsNotify == Spec => VisitNotifies
<1>1. IInv /\ [Next]_vars =>
        [\A k \in Keys : Visit(k) /\ MaxNodes > 0 =>
           IF k \in m.resident THEN m'.calls = << >>
           ELSE \/ m'.calls = <<Calls("load", k)>>
                \/ \E v \in m.resident \ {k} :
                      m'.calls = <<Calls("evict", v), Calls("load", k)>>]_vars
  BY VisitStep DEF Notifies
<1> QED BY <1>1, Invariant, PTL DEF Spec, VisitNotifies
-----------------------------------------------------------------------------
(* ARC as a demand cache.                                                  *)

\* The calls made so far since the listener held r0, and what it holds now, agree.
Tells(r0, mm) ==
    /\ DOMAIN mm = {"q", "loc", "resident", "calls", "exc"}
    /\ \E T : mm.calls \in Seq(T)
    /\ mm.calls = << >> => mm.resident = r0
    /\ \A v : mm.calls = <<EvictCall(v)>> => mm.resident = r0 \ {v}
    /\ \A k : mm.calls = <<LoadCall(k)>> => mm.resident = r0 \cup {k}
    /\ \A v, k : mm.calls = <<EvictCall(v), LoadCall(k)>> => mm.resident = (r0 \ {v}) \cup {k}

\* A call is different for each callback and each key.
LEMMA CallsDiffer ==
  ASSUME NEW v, NEW k
  PROVE  EvictCall(v) # LoadCall(k) /\ (EvictCall(v) = EvictCall(k) => v = k)
         /\ (LoadCall(v) = LoadCall(k) => v = k)
<1>1. /\ EvictCall(v).call = "evict" /\ EvictCall(v).key = v /\ EvictCall(k).key = k
      /\ LoadCall(k).call = "load" /\ LoadCall(v).key = v /\ LoadCall(k).key = k
  BY DEF EvictCall, LoadCall
<1> QED BY <1>1

\* A sequence with one more call.
LEMMA OneMore ==
  ASSUME NEW T, NEW s \in Seq(T), NEW x
  PROVE  /\ Append(s, x) \in Seq(T \cup {x}) /\ Append(s, x) # << >>
         /\ Len(Append(s, x)) = Len(s) + 1 /\ Len(s) \in Nat
         /\ \A i \in 1..Len(s) : Append(s, x)[i] = s[i]
         /\ Append(s, x)[Len(s) + 1] = x
<1>1. s \in Seq(T \cup {x}) /\ x \in T \cup {x} OBVIOUS
<1>2. /\ Append(s, x) \in Seq(T \cup {x}) /\ Len(Append(s, x)) = Len(s) + 1
      /\ \A i \in 1..Len(s) : Append(s, x)[i] = s[i]
      /\ Append(s, x)[Len(s) + 1] = x
  BY <1>1
<1>3. Len(s) \in Nat OBVIOUS
<1>4. Append(s, x) # << >> BY <1>2, <1>3
<1> QED BY <1>2, <1>3, <1>4

\* The one call there is was made last, after none.
LEMMA OnlyCall ==
  ASSUME NEW T, NEW s \in Seq(T), NEW x, NEW a, Append(s, x) = <<a>>
  PROVE  s = << >> /\ x = a
<1>1. Len(<<a>>) = 1 /\ <<a>>[1] = a OBVIOUS
<1>2. Len(s) = 0 BY <1>1, OneMore
<1> QED BY <1>1, <1>2, OneMore

\* Of two calls the second was made last, after the first.
LEMMA SecondCall ==
  ASSUME NEW T, NEW s \in Seq(T), NEW x, NEW a, NEW b
  PROVE  Append(s, x) = <<a, b>> => s = <<a>> /\ x = b
<1> DEFINE n == Len(s)
           u == Append(s, x)
<1>1. /\ Len(u) = n + 1 /\ n \in Nat /\ DOMAIN s = 1..n
      /\ \A i \in 1..n : u[i] = s[i]
      /\ u[n + 1] = x
  BY OneMore
<1>2. s \in Seq(T) OBVIOUS
<1> HIDE DEF n, u
<1>3. SUFFICES ASSUME u = <<a, b>> PROVE s = <<a>> /\ x = b BY DEF u
<1>4. Len(u) = 2 /\ u[1] = a /\ u[2] = b BY <1>3
<1>5. n = 1 BY <1>1, <1>4
<1>6. s[1] = a /\ x = b BY <1>1, <1>4, <1>5
<1>7. DOMAIN s = 1..1 /\ DOMAIN <<a>> = 1..1 /\ \A i \in 1..1 : s[i] = <<a>>[i]
  BY <1>1, <1>5, <1>6
<1> QED BY <1>2, <1>6, <1>7

\* A callback, after which the listener has done what it was told.
LEMMA NotifyTells ==
  ASSUME NEW r0, NEW mm, Tells(r0, mm), NEW k
  PROVE  /\ Tells(r0, Notify(mm, "evict", k, mm.resident \ {k}))
         /\ Tells(r0, Notify(mm, "load", k, mm.resident \cup {k}))
<1>1. PICK T : mm.calls \in Seq(T) BY DEF Tells
<1> DEFINE e == Notify(mm, "evict", k, mm.resident \ {k})
           l == Notify(mm, "load", k, mm.resident \cup {k})
<1>2. /\ DOMAIN e = DOMAIN mm /\ DOMAIN l = DOMAIN mm
      /\ e.calls = Append(mm.calls, EvictCall(k)) /\ e.resident = mm.resident \ {k}
      /\ l.calls = Append(mm.calls, LoadCall(k)) /\ l.resident = mm.resident \cup {k}
  BY DEF Notify, Tells, EvictCall, LoadCall
<1> HIDE DEF e, l
<1>3. Tells(r0, e)
  <2>1. \E S : e.calls \in Seq(S)
    <3>1. e.calls \in Seq(T \cup {EvictCall(k)}) BY <1>1, <1>2, OneMore
    <3> QED BY <3>1
  <2>2. e.calls # << >> BY <1>1, <1>2, OneMore, SMTT(30)
  <2>6. ASSUME NEW a, e.calls = <<a>> PROVE mm.calls = << >> /\ EvictCall(k) = a
    BY <1>1, <1>2, <2>6, OnlyCall
  <2>7. ASSUME NEW a, NEW b, e.calls = <<a, b>> PROVE mm.calls = <<a>> /\ EvictCall(k) = b
    <3>1. Append(mm.calls, EvictCall(k)) = <<a, b>> BY <1>2, <2>7
    <3> QED BY <1>1, <3>1, SecondCall
  <2>3. ASSUME NEW v, e.calls = <<EvictCall(v)>> PROVE e.resident = r0 \ {v}
    <3>1. mm.calls = << >> /\ EvictCall(k) = EvictCall(v) BY <2>3, <2>6
    <3> QED BY <1>2, <3>1, CallsDiffer DEF Tells
  <2>4. ASSUME NEW v PROVE e.calls # <<LoadCall(v)>> BY <2>6, <2>7, CallsDiffer
  <2>5. ASSUME NEW v, NEW j PROVE e.calls # <<EvictCall(v), LoadCall(j)>>
    BY <2>6, <2>7, CallsDiffer
  <2> QED BY <1>2, <2>1, <2>2, <2>3, <2>4, <2>5 DEF Tells
<1>4. Tells(r0, l)
  <2>1. \E S : l.calls \in Seq(S)
    <3>1. l.calls \in Seq(T \cup {LoadCall(k)}) BY <1>1, <1>2, OneMore
    <3> QED BY <3>1
  <2>2. l.calls # << >> BY <1>1, <1>2, OneMore, SMTT(30)
  <2>6. ASSUME NEW a, l.calls = <<a>> PROVE mm.calls = << >> /\ LoadCall(k) = a
    BY <1>1, <1>2, <2>6, OnlyCall
  <2>7. ASSUME NEW a, NEW b, l.calls = <<a, b>> PROVE mm.calls = <<a>> /\ LoadCall(k) = b
    <3>1. Append(mm.calls, LoadCall(k)) = <<a, b>> BY <1>2, <2>7
    <3> QED BY <1>1, <3>1, SecondCall
  <2>3. ASSUME NEW v, l.calls = <<LoadCall(v)>> PROVE l.resident = r0 \cup {v}
    <3>1. mm.calls = << >> /\ LoadCall(k) = LoadCall(v) BY <2>3, <2>6
    <3> QED BY <1>2, <3>1, CallsDiffer DEF Tells
  <2>4. ASSUME NEW v PROVE l.calls # <<EvictCall(v)>> BY <2>6, <2>7, CallsDiffer
  <2>5. ASSUME NEW v, NEW j, l.calls = <<EvictCall(v), LoadCall(j)>>
        PROVE  l.resident = (r0 \ {v}) \cup {j}
    <3>1. mm.calls = <<EvictCall(v)>> /\ LoadCall(k) = LoadCall(j)
      BY <2>5, <2>7
    <3> QED BY <1>2, <3>1, CallsDiffer DEF Tells
  <2> QED BY <1>2, <2>1, <2>2, <2>3, <2>4, <2>5 DEF Tells
<1> QED BY <1>3, <1>4 DEF e, l

\* Neither new contents of the queues nor an exception tells the listener anything.
LEMMA SilentTells ==
  ASSUME NEW r0, NEW mm, Tells(r0, mm), NEW q, NEW loc
  PROVE  Tells(r0, Reindex(mm, q, loc)) /\ Tells(r0, Throw(mm))
<1>1. /\ DOMAIN Reindex(mm, q, loc) = DOMAIN mm /\ DOMAIN Throw(mm) = DOMAIN mm
      /\ Reindex(mm, q, loc).calls = mm.calls /\ Throw(mm).calls = mm.calls
      /\ Reindex(mm, q, loc).resident = mm.resident /\ Throw(mm).resident = mm.resident
  BY DEF Tells, Reindex, Throw
<1> QED BY <1>1 DEF Tells

\* evict(k), with the listener's remove(k) if it makes one.
LEMMA EvictTells ==
  ASSUME NEW r0, NEW mm, Tells(r0, mm), NEW k
  PROVE  Tells(r0, Evict(mm, k))
<1> DEFINE told == Notify(mm, "evict", k, mm.resident \ {k})
<1>1. Tells(r0, told) BY NotifyTells
<1>2. Tells(r0, Forget(told, k)) BY <1>1, SilentTells DEF Forget
<1> QED BY <1>1, <1>2 DEF Evict

\* Each building block of onHit and onMiss.
LEMMA BlocksTell ==
  ASSUME NEW r0, NEW mm, Tells(r0, mm), NEW k, NEW from, NEW to, NEW target
  PROVE  /\ Tells(r0, EvictHeadTo(mm, from, to)) /\ Tells(r0, EvictNode(mm, from))
         /\ Tells(r0, RemoveNode(mm, from)) /\ Tells(r0, FreeRoom(mm, target, from))
         /\ Tells(r0, InsertNode(mm, k, to)) /\ Tells(r0, MoveNode(mm, k, from, to))
<1>1. \A a, b : Tells(r0, EvictHeadTo(mm, a, b))
  <2> TAKE a, b
  <2> DEFINE h == Head(mm.q[a])
             d == Reindex(mm, Added(Polled(mm.q, a), b, h), Placed(mm.loc, h, b))
  <2>1. Tells(r0, d) BY SilentTells
  <2> HIDE DEF d
  <2>2. Tells(r0, Evict(d, h)) BY <2>1, EvictTells
  <2>3. EvictHeadTo(mm, a, b) \in {mm, Throw(mm), Evict(d, h)} BY DEF EvictHeadTo, d
  <2> HIDE DEF h
  <2> QED BY <2>2, <2>3, SilentTells
<1>2. Tells(r0, EvictNode(mm, from))
  <2> DEFINE h == Head(mm.q[from])
             d == Reindex(mm, Polled(mm.q, from), mm.loc)
             told == Evict(d, h)
             e == Reindex(told, told.q, Placed(told.loc, h, NoQueue))
  <2>1. Tells(r0, d) BY SilentTells
  <2>2. Tells(r0, told) BY <2>1, EvictTells
  <2>3. Tells(r0, e) BY <2>2, SilentTells
  <2>4. EvictNode(mm, from) \in {mm, Throw(mm), e} BY DEF EvictNode
  <2> HIDE DEF e
  <2> QED BY <2>3, <2>4, SilentTells
<1>3. Tells(r0, RemoveNode(mm, from)) BY SilentTells DEF RemoveNode
<1>4. Tells(r0, FreeRoom(mm, target, from)) BY <1>1 DEF FreeRoom
<1>5. ASSUME NEW d, Tells(r0, d), NEW a, NEW b PROVE Tells(r0, AfterInsert(d, k, a, b))
  BY <1>5, NotifyTells DEF AfterInsert, Load
<1>6. Tells(r0, Insert(mm, k, to)) /\ Tells(r0, Move(mm, k, from, to))
  BY SilentTells DEF Insert, Move
<1>7. Tells(r0, InsertNode(mm, k, to)) /\ Tells(r0, MoveNode(mm, k, from, to))
  BY <1>5, <1>6 DEF InsertNode, MoveNode
<1> QED BY <1>1, <1>2, <1>3, <1>4, <1>7

\* visit(hit): the listener holds what the calls of the visit told it.
LEMMA VisitTells ==
  ASSUME IInv, NEW k \in Keys, Visit(k)
  PROVE  Tells(m.resident, m')
<1> DEFINE b == Begin(m)
<1>1. Tells(m.resident, b)
  <2>1. b \in Managers(Queues) /\ b.calls = << >> /\ b.resident = m.resident
    BY Start DEF Sound
  <2>2. DOMAIN b = {"q", "loc", "resident", "calls", "exc"} BY <2>1 DEF Managers
  <2>3. \A x, y : << >> # <<x>> /\ << >> # <<x, y>> OBVIOUS
  <2>4. << >> \in Seq({}) OBVIOUS
  <2> HIDE DEF b
  <2> QED BY <2>1, <2>2, <2>3, <2>4 DEF Tells
<1> HIDE DEF b
<1>2. CASE HitCached(k) BY <1>1, <1>2, BlocksTell DEF HitCached, b
<1>3. CASE HitB1(k) BY <1>1, <1>3, BlocksTell DEF HitB1, b
<1>4. CASE HitB2(k) BY <1>1, <1>4, BlocksTell DEF HitB2, b
<1>5. CASE MissLeftSideFull(k) BY <1>1, <1>5, BlocksTell DEF MissLeftSideFull, b
<1>6. CASE MissT1Full(k) BY <1>1, <1>6, BlocksTell DEF MissT1Full, b
<1>7. CASE MissDirectoryFull(k) BY <1>1, <1>7, BlocksTell DEF MissDirectoryFull, b
<1>8. CASE MissCacheFull(k) BY <1>1, <1>8, BlocksTell DEF MissCacheFull, b
<1>9. CASE MissRoom(k) BY <1>1, <1>9, BlocksTell DEF MissRoom, b
<1> QED BY <1>2, <1>3, <1>4, <1>5, <1>6, <1>7, <1>8, <1>9 DEF Visit

\* A sequence has no more elements than places.
LEMMA FewElements ==
  ASSUME NEW T, NEW s \in Seq(T), NEW E, E = {s[i] : i \in 1..Len(s)}
  PROVE  IsFiniteSet(E) /\ Cardinality(E) \in Nat /\ Cardinality(E) <= Len(s)
<1> DEFINE f == [i \in 1..Len(s) |-> s[i]]
<1>1. f \in Surjection(1..Len(s), E) BY DEF Surjection
<1>2. IsFiniteSet(1..Len(s)) /\ Cardinality(1..Len(s)) = Len(s)
  <2>1. Len(s) \in Nat OBVIOUS
  <2>2. 1 \in Int /\ Len(s) \in Int BY <2>1
  <2>3. IsFiniteSet(1..Len(s)) /\ Cardinality(1..Len(s)) = IF 1 > Len(s) THEN 0 ELSE Len(s) - 1 + 1
    BY <2>2, FS_Interval
  <2> QED BY <2>1, <2>3
<1>3. IsFiniteSet(E) /\ Cardinality(E) <= Cardinality(1..Len(s)) BY <1>1, <1>2, FS_Surjection
<1> QED BY <1>2, <1>3, FS_CardinalityType

\* The listener never holds more objects than the capacity.
LEMMA ResidentsBounded ==
  ASSUME NEW mm, Sound(mm, Queues), Holds(mm), Sizes(mm)
  PROVE  IsFiniteSet(mm.resident) /\ Cardinality(mm.resident) \in 0..MaxNodes
<1> DEFINE E(n) == {mm.q[n][i] : i \in 1..Len(mm.q[n])}
<1>1. \A k \in Keys : k \in mm.resident <=> mm.loc[k] \in Cached BY DEF Holds
<1>2. /\ mm.q \in [Queues -> Seq(Keys)] /\ mm.resident \subseteq Keys
      /\ "t1" \in Queues /\ "t2" \in Queues
  BY <1>1, FieldTypes DEF Sound, Queues, Managers
<1>3. \A n \in Queues : /\ IsFiniteSet(E(n)) /\ Cardinality(E(n)) \in Nat
                        /\ Cardinality(E(n)) <= Size(mm, n)
  BY <1>2, FewElements DEF Size
<1>4. mm.resident \subseteq E("t1") \cup E("t2")
  <2> SUFFICES ASSUME NEW k \in mm.resident PROVE k \in E("t1") \cup E("t2") OBVIOUS
  <2>1. Contains(mm.q[mm.loc[k]], k) /\ mm.loc[k] \in {"t1", "t2"}
    BY <1>1, <1>2 DEF Sound, Indexed, Located, Cached, NoQueue
  <2> QED BY <1>2, <2>1 DEF Contains
<1> HIDE DEF E
<1>5. /\ IsFiniteSet(E("t1") \cup E("t2"))
      /\ Cardinality(E("t1") \cup E("t2")) =
           Cardinality(E("t1")) + Cardinality(E("t2")) - Cardinality(E("t1") \cap E("t2"))
  BY <1>2, <1>3, FS_Union
<1>6. Cardinality(E("t1") \cap E("t2")) \in Nat
  BY <1>2, <1>3, FS_Subset, FS_CardinalityType
<1>7. IsFiniteSet(mm.resident) /\ Cardinality(mm.resident) <= Cardinality(E("t1") \cup E("t2"))
  BY <1>4, <1>5, FS_Subset
<1>8. Cardinality(mm.resident) \in Nat BY <1>7, FS_CardinalityType
<1>9. Size(mm, "t1") + Size(mm, "t2") <= MaxNodes /\ Size(mm, "t1") \in Nat /\ Size(mm, "t2") \in Nat
  BY <1>1, SizeTypes DEF Sizes, CacheSize
<1> QED BY <1>2, <1>3, <1>5, <1>6, <1>7, <1>8, <1>9, MaxNodesAssumption

\* A cache of capacity 0 knows no key, and every visit fails before it changes anything.
LEMMA NoCapacity ==
  ASSUME IInv, MaxNodes = 0, NEW k \in Keys, Visit(k)
  PROVE  m'.resident = m.resident /\ m'.calls = << >>
<1> DEFINE b == Begin(m)
<1>1. /\ Sound(m, Queues) /\ Sizes(m) /\ b.q = m.q /\ b.calls = << >>
      /\ b.resident = m.resident /\ ~Threw(b) /\ b \in Managers(Queues)
  BY Start DEF Sound
<1>2. /\ Size(m, "t1") \in Nat /\ Size(m, "t2") \in Nat
      /\ Size(m, "b1") \in Nat /\ Size(m, "b2") \in Nat /\ NoQueue \notin Queues
      /\ \A n \in Queues : IsEmpty(m.q[n]) <=> Size(m, n) = 0
  BY <1>1, SizeTypes
<1>3. Size(m, "t1") = 0 /\ Size(m, "t2") = 0 /\ Size(m, "b1") = 0 /\ Size(m, "b2") = 0
  BY <1>1, <1>2 DEF Sizes, LeftSideSize, DirectorySize, DirectoryCapacity
<1>4. m.loc[k] = NoQueue
  <2>1. \A n \in Queues : m.q[n] = << >> BY <1>2, <1>3 DEF Queues, IsEmpty
  <2>2. \A n \in Queues : ~Contains(m.q[n], k) BY <2>1 DEF Contains
  <2> QED BY <1>1, <2>2, FieldTypes DEF Sound, Indexed, Located
<1>5. MissT1Full(k)
  BY <1>3, <1>4 DEF Visit, HitCached, HitB1, HitB2, MissLeftSideFull, MissDirectoryFull,
     MissCacheFull, MissRoom, LeftSideSize, Cached, NoQueue
<1>6. IsEmpty(b.q["t1"]) BY <1>1, <1>2, <1>3 DEF Queues
<1> HIDE DEF b
<1>7. EvictNode(b, "t1") = Throw(b) BY <1>1, <1>6 DEF EvictNode
<1>8. Threw(Throw(b)) /\ Throw(b).resident = b.resident /\ Throw(b).calls = b.calls
  BY <1>1 DEF Threw, Throw, Managers
<1>9. m' = InsertNode(Throw(b), k, "t1") BY <1>5, <1>7 DEF MissT1Full, b
<1>10. InsertNode(Throw(b), k, "t1") = Throw(b)
  BY <1>8 DEF InsertNode, Insert, AfterInsert, Load
<1> QED BY <1>1, <1>8, <1>9, <1>10

\* The constructor starts with an empty cache.
LEMMA InitDemand == Init => Abstract!Init
BY DEF Init, NewManager, Abstract!Init

\* Every operation of the manager is one of a demand cache.
LEMMA StepDemand == IInv /\ [Next]_vars => [Abstract!Next]_(Abstract!vars)
<1> SUFFICES ASSUME IInv, [Next]_vars PROVE [Abstract!Next]_(Abstract!vars) OBVIOUS
<1> USE DEF Abstract!Next, Abstract!vars
<1>1. ASSUME NEW k \in Keys, Visit(k) PROVE Abstract!Next
  <2>1. CASE MaxNodes = 0 BY <1>1, <2>1, NoCapacity DEF Abstract!Hit
  <2>2. CASE MaxNodes > 0
    <3>1. Tells(m.resident, m') /\ Notifies(k) /\ IInv' BY <1>1, VisitTells, VisitStep
    <3>2. CASE k \in m.resident
      <4>1. m'.calls = << >> BY <2>2, <3>1, <3>2 DEF Notifies
      <4>2. m'.resident = m.resident BY <3>1, <4>1 DEF Tells
      <4> QED BY <4>1, <4>2 DEF Abstract!Hit
    <3>3. CASE k \notin m.resident /\ m'.calls = <<LoadCall(k)>>
      <4>1. m'.resident = m.resident \cup {k} BY <3>1, <3>3 DEF Tells
      <4>2. IsFiniteSet(m.resident) /\ Cardinality(m.resident) \in 0..MaxNodes BY Start, ResidentsBounded
      <4>3. Cardinality(m'.resident) \in 0..MaxNodes
        <5>1. Sound(m', Queues)
          BY <3>1, FieldTypes, SizeTypes DEF IInv, TypeOK, LocationsConsistent, Sound, Indexed, NoQueue, Queues
        <5>2. Holds(m') BY <3>1 DEF IInv, LocationsConsistent, ListenerHoldsCache, Holds, Cached
        <5>3. Sizes(m')
          BY <3>1 DEF IInv, SizesBounded, Sizes, LeftSideSize, CacheSize, DirectorySize, Size,
                      DirectoryCapacity
        <5> QED BY <5>1, <5>2, <5>3, ResidentsBounded
      <4>4. Cardinality(m.resident \cup {k}) = Cardinality(m.resident) + 1
        BY <3>3, <4>2, FS_AddElement
      <4>5. Cardinality(m.resident) < MaxNodes
        BY <4>1, <4>2, <4>3, <4>4, MaxNodesAssumption
      <4>6. Abstract!Cardinality(m.resident) = Cardinality(m.resident)
        BY DEF Abstract!Cardinality, Cardinality
      <4>7. Abstract!LoadKey(k) BY <3>3, <4>1, <4>5, <4>6 DEF Abstract!LoadKey, LoadCall
      <4> QED BY <4>7
    <3>4. ASSUME k \notin m.resident, NEW v \in m.resident \ {k},
                 m'.calls = <<EvictCall(v), LoadCall(k)>>
          PROVE  Abstract!Next
      <4>1. m'.resident = (m.resident \ {v}) \cup {k} BY <3>1, <3>4 DEF Tells
      <4>2. Abstract!Replace(v, k)
        BY <3>4, <4>1 DEF Abstract!Replace, LoadCall, EvictCall
      <4> QED BY <4>2
    <3> QED BY <2>2, <3>1, <3>2, <3>3, <3>4 DEF Notifies, Calls, LoadCall, EvictCall
  <2>3. MaxNodes = 0 \/ MaxNodes > 0 BY MaxNodesAssumption
  <2> QED BY <2>1, <2>2, <2>3
<1>2. ASSUME NEW k \in Keys, RemoveKey(k) PROVE Abstract!Next
  <2>1. Sound(Begin(m), Queues) /\ Begin(m).resident = m.resident /\ Begin(m).calls = << >>
    BY Start
  <2>2. m'.resident = m.resident \ {k} /\ m'.calls = << >>
    BY <1>2, <2>1, RemovedEffect DEF RemoveKey
  <2> QED BY <2>2 DEF Abstract!Leave
<1>3. CASE Clear
  <2>1. Begin(m) \in Managers(Queues) /\ Begin(m).calls = << >> BY Start DEF Sound
  <2>2. m'.resident = {} /\ m'.calls = << >>
    BY <1>3, <2>1 DEF Clear, EmptyManager, Reindex, Managers
  <2> QED BY <2>2 DEF Abstract!Leave
<1>4. CASE UNCHANGED vars BY <1>4 DEF vars
<1> QED BY <1>1, <1>2, <1>3, <1>4 DEF Next

\* AdaptiveReplacementCacheManager implements DemandCache: whatever it shuffles between
\* its four queues, to the listener a visit of a held key is nothing, a visit of another
\* key loads that key and evicts at most one, and never are more than MaxNodes held.
THEOREM ImplementsDemand == Spec => ImplementsDemandCache
<1>1. Init /\ [][Next]_vars /\ []IInv => Abstract!Init /\ [][Abstract!Next]_(Abstract!vars)
  BY InitDemand, StepDemand, PTL
<1> QED BY <1>1, Invariant, PTL DEF Spec, ImplementsDemandCache, Abstract!Spec
-----------------------------------------------------------------------------
(* RecencyOrder, on top of IInv.  The lemmas named Aged... say what one queue  *)
(* operation does to the order (R is the history relation older); those named  *)
(* ...Ages lift them to the steps.                                             *)

\* Taking a key out of a queue keeps it ordered and keeps it within its side.
LEMMA TakeAges ==
  ASSUME NEW R, NEW s \in Seq(Keys), NEW e, IsQueue(s), NEW r, r = RemoveObject(s, e)
  PROVE  /\ InOrder(R, s) => InOrder(R, r)
         /\ \A t : AllBefore(R, s, t) => AllBefore(R, r, t)
         /\ \A t : AllBefore(R, t, s) => AllBefore(R, t, r)
<1>0. \E p \in Nat : \A i \in 1..Len(RemoveObject(s, e)) :
        Skip(p, i) \in 1..Len(s) /\ RemoveObject(s, e)[i] = s[Skip(p, i)]
  BY RemoveObjectLemma, Zenon
<1>1. PICK p \in Nat : \A i \in 1..Len(r) : Skip(p, i) \in 1..Len(s) /\ r[i] = s[Skip(p, i)]
  BY <1>0
<1>2. r \in Seq(Keys) BY RemoveObjectLemma
<1>3. \A i, j \in 1..Len(r) : i < j => Skip(p, i) < Skip(p, j) BY <1>2 DEF Skip
<1> QED BY <1>1, <1>3 DEF InOrder, AllBefore

\* Polling a queue keeps it ordered, and its old head is older than what is left.
LEMMA PollAges ==
  ASSUME NEW R, NEW s \in Seq(Keys), IsQueue(s), ~IsEmpty(s), NEW r, r = Poll(s)
  PROVE  /\ InOrder(R, s) => InOrder(R, r) /\ \A j \in 1..Len(r) : <<Head(s), r[j]>> \in R
         /\ \A t : AllBefore(R, s, t) => AllBefore(R, r, t)
         /\ \A t : AllBefore(R, t, s) => AllBefore(R, t, r)
<1>1. /\ Len(r) = Len(s) - 1 /\ r \in Seq(Keys)
      /\ \A i \in 1..Len(r) : i + 1 \in 1..Len(s) /\ r[i] = s[i + 1]
  BY PollLemma
<1>2. Head(s) = s[1] /\ 1 \in 1..Len(s) BY DEF IsEmpty
<1>3. \A i, j \in 1..Len(r) : i < j => i + 1 < j + 1 BY <1>1
<1>4. \A j \in 1..Len(r) : 1 < j + 1 BY <1>1
<1> QED BY <1>1, <1>2, <1>3, <1>4 DEF InOrder, AllBefore

\* A key younger than a whole queue may be added at its tail.
LEMMA AppendAges ==
  ASSUME NEW R, NEW s \in Seq(Keys), NEW k, NEW r, r = Append(s, k)
  PROVE  /\ InOrder(R, s) /\ (\A i \in 1..Len(s) : <<s[i], k>> \in R) => InOrder(R, r)
         /\ \A t : AllBefore(R, s, t) /\ (\A j \in 1..Len(t) : <<k, t[j]>> \in R) => AllBefore(R, r, t)
         /\ \A t : AllBefore(R, t, s) /\ (\A i \in 1..Len(t) : <<t[i], k>> \in R) => AllBefore(R, t, r)
<1>1. /\ Len(r) = Len(s) + 1
      /\ \A i \in 1..Len(s) : r[i] = s[i]
      /\ r[Len(s) + 1] = k
  OBVIOUS
<1>2. \A i \in 1..Len(r) : i \in 1..Len(s) \/ i = Len(s) + 1 BY <1>1
<1>3. \A i, j \in 1..Len(r) : i < j => i \in 1..Len(s) BY <1>1
<1> QED BY <1>1, <1>2, <1>3 DEF InOrder, AllBefore

\* A queue without k is as ordered after a visit of k as before it.
LEMMA VisitAges ==
  ASSUME NEW R, NEW k \in Keys, NEW s \in Seq(Keys), ~Contains(s, k)
  PROVE  /\ InOrder(R, s) => InOrder(After(R, k), s)
         /\ \A t : AllBefore(R, s, t) => AllBefore(After(R, k), s, t)
         /\ \A i \in 1..Len(s) : <<s[i], k>> \in After(R, k)
<1>1. \A i \in 1..Len(s) : s[i] \in Keys /\ s[i] # k BY DEF Contains
<1>2. \A x, y : x # k /\ <<x, y>> \in R => <<x, y>> \in After(R, k) BY DEF After
<1>3. \A x \in Keys : x # k => <<x, k>> \in After(R, k) BY DEF After
<1> QED BY <1>1, <1>2, <1>3 DEF InOrder, AllBefore

\* remove(Object) on one queue keeps both sides of the directory aged.
LEMMA AgedTaken ==
  ASSUME NEW R, NEW q, NEW loc, Indexed(Queues, q, loc), Aged(R, q), NEW n \in Queues, NEW k
  PROVE  Aged(R, Taken(q, n, k))
<1>1. /\ q \in [Queues -> Seq(Keys)]
      /\ \A x \in Queues : q[x] \in Seq(Keys) /\ IsQueue(q[x])
  BY DEF Indexed, Located
<1> DEFINE r == RemoveObject(q[n], k)
           q2 == Taken(q, n, k)
<1>2. q2[n] = r /\ \A x \in Queues : x # n => q2[x] = q[x] BY <1>1 DEF Taken
<1>3. /\ InOrder(R, q[n]) => InOrder(R, r)
      /\ \A t : AllBefore(R, q[n], t) => AllBefore(R, r, t)
      /\ \A t : AllBefore(R, t, q[n]) => AllBefore(R, t, r)
  BY <1>1, TakeAges
<1> HIDE DEF r, q2
<1>4. Aged(R, q2) BY <1>2, <1>3 DEF Aged, Queues
<1> QED BY <1>4 DEF q2

\* poll() on one queue keeps both sides of the directory aged.
LEMMA AgedPolled ==
  ASSUME NEW R, NEW q, NEW loc, Indexed(Queues, q, loc), Aged(R, q), NEW n \in Queues,
         ~IsEmpty(q[n])
  PROVE  Aged(R, Polled(q, n))
<1>1. /\ q \in [Queues -> Seq(Keys)]
      /\ \A x \in Queues : q[x] \in Seq(Keys) /\ IsQueue(q[x])
  BY DEF Indexed, Located
<1> DEFINE r == Poll(q[n])
           q2 == Polled(q, n)
<1>2. q2[n] = r /\ \A x \in Queues : x # n => q2[x] = q[x] BY <1>1 DEF Polled
<1>3. /\ InOrder(R, q[n]) => InOrder(R, r)
      /\ \A t : AllBefore(R, q[n], t) => AllBefore(R, r, t)
      /\ \A t : AllBefore(R, t, q[n]) => AllBefore(R, t, r)
  BY <1>1, PollAges
<1> HIDE DEF r, q2
<1>4. Aged(R, q2) BY <1>2, <1>3 DEF Aged, Queues
<1> QED BY <1>4 DEF q2

\* The head of t1 (or t2) is younger than every ghost of its side and older than
\* the rest of its queue: at the tail of the ghosts it is in its place.
LEMMA AgedGhost ==
  ASSUME NEW R, NEW q, NEW loc, Indexed(Queues, q, loc), Aged(R, q),
         NEW f \in Queues, NEW g \in Queues,
         <<f, g>> \in {<<"t1", "b1">>, <<"t2", "b2">>}, ~IsEmpty(q[f]),
         NEW k, k = Head(q[f]), Add(q[g], k) = Append(q[g], k)
  PROVE  Aged(R, Added(Polled(q, f), g, k))
<1>1. /\ q \in [Queues -> Seq(Keys)]
      /\ \A x \in Queues : q[x] \in Seq(Keys) /\ IsQueue(q[x])
      /\ f # g
  BY DEF Indexed, Located
<1> DEFINE sf == q[f]
           sg == q[g]
           rf == Poll(sf)
           rg == Append(sg, k)
           q2 == Added(Polled(q, f), g, k)
<1>2. /\ q2[f] = rf /\ q2[g] = rg
      /\ \A x \in Queues : x # f /\ x # g => q2[x] = q[x]
  BY <1>1 DEF Polled, Added
<1>3. /\ sf \in Seq(Keys) /\ sg \in Seq(Keys) /\ IsQueue(sf) /\ ~IsEmpty(sf)
      /\ rf = Poll(sf) /\ rg = Append(sg, k) /\ k = Head(sf)
  BY <1>1
<1>4. InOrder(R, sg) /\ InOrder(R, sf) /\ AllBefore(R, sg, sf) BY DEF Aged
<1> HIDE DEF sf, sg, rf, rg, q2
<1>5. /\ InOrder(R, rf) /\ \A j \in 1..Len(rf) : <<k, rf[j]>> \in R
      /\ AllBefore(R, sg, rf)
  BY <1>3, <1>4, PollAges
<1>6. k = sf[1] /\ 1 \in 1..Len(sf) BY <1>3 DEF IsEmpty
<1>7. \A i \in 1..Len(sg) : <<sg[i], k>> \in R BY <1>4, <1>6 DEF AllBefore
<1>8. InOrder(R, rg) /\ AllBefore(R, rg, rf)
  <2>1. sg \in Seq(Keys) /\ rg = Append(sg, k) BY <1>3
  <2> QED BY <1>4, <1>5, <1>7, <2>1, AppendAges
<1>9. Aged(R, q2) BY <1>2, <1>5, <1>8 DEF Aged, Queues
<1> QED BY <1>9 DEF q2

\* A visit of a key that no queue holds leaves their order as it was.
LEMMA AgedUnknown ==
  ASSUME NEW R, NEW q, NEW loc, Indexed(Queues, q, loc), Aged(R, q),
         NEW k \in Keys, loc[k] = NoQueue
  PROVE  /\ Aged(After(R, k), q)
         /\ \A x \in Queues : \A i \in 1..Len(q[x]) : <<q[x][i], k>> \in After(R, k)
<1>1. \A x \in Queues : q[x] \in Seq(Keys) /\ ~Contains(q[x], k)
  BY DEF Indexed, Located, Contains
<1> DEFINE R2 == After(R, k)
<1>2. \A x \in Queues :
         /\ InOrder(R, q[x]) => InOrder(R2, q[x])
         /\ \A t : AllBefore(R, q[x], t) => AllBefore(R2, q[x], t)
         /\ \A i \in 1..Len(q[x]) : <<q[x][i], k>> \in R2
  BY <1>1, VisitAges
<1> HIDE DEF R2
<1>3. Aged(R2, q) BY <1>2 DEF Aged, Queues
<1> QED BY <1>2, <1>3 DEF R2

\* The visited key becomes the youngest of all, at the tail of t1 or t2.
LEMMA AgedVisit ==
  ASSUME NEW R, NEW q, NEW loc, Indexed(Queues, q, loc), Aged(R, q),
         NEW k \in Keys, loc[k] = NoQueue, NEW n \in Cached
  PROVE  Aged(After(R, k), Added(q, n, k))
<1> DEFINE R2 == After(R, k)
           s == q[n]
           r == Append(s, k)
           q2 == Added(q, n, k)
<1>0. n \in Queues BY DEF Cached, Queues
<1>1. q \in [Queues -> Seq(Keys)] BY DEF Indexed
<1>2. Add(q[n], k) = Append(q[n], k) BY <1>0, AddIndexed
<1>3. /\ Aged(R2, q)
      /\ \A x \in Queues : \A i \in 1..Len(q[x]) : <<q[x][i], k>> \in R2
  BY AgedUnknown
<1>4. q2[n] = r /\ \A x \in Queues : x # n => q2[x] = q[x]
  BY <1>0, <1>1, <1>2 DEF Added
<1>5. s \in Seq(Keys) /\ r = Append(s, k) /\ s = q[n] BY <1>0, <1>1
<1> HIDE DEF R2, s, r, q2
<1>6. InOrder(R2, s) BY <1>3, <1>5 DEF Aged, Cached
<1>7. InOrder(R2, r) BY <1>0, <1>3, <1>5, <1>6, AppendAges
<1>8. \A x \in Queues : AllBefore(R2, q[x], s) => AllBefore(R2, q[x], r)
  <2> SUFFICES ASSUME NEW x \in Queues, AllBefore(R2, q[x], s) PROVE AllBefore(R2, q[x], r)
    OBVIOUS
  <2>1. \A i \in 1..Len(q[x]) : <<q[x][i], k>> \in R2 BY <1>3
  <2> QED BY <1>5, <2>1, AppendAges
<1>9. "t1" \in Queues /\ "t2" \in Queues /\ "b1" \in Queues /\ "b2" \in Queues BY DEF Queues
<1>10. /\ InOrder(R2, q["b1"]) /\ InOrder(R2, q["t1"]) /\ AllBefore(R2, q["b1"], q["t1"])
       /\ InOrder(R2, q["b2"]) /\ InOrder(R2, q["t2"]) /\ AllBefore(R2, q["b2"], q["t2"])
  BY <1>3 DEF Aged
<1>11. n = "t1" => Aged(R2, q2)
  <2> SUFFICES ASSUME n = "t1" PROVE Aged(R2, q2) OBVIOUS
  <2>1. /\ q2["t1"] = r /\ q2["t2"] = q["t2"] /\ q2["b1"] = q["b1"] /\ q2["b2"] = q["b2"]
        /\ AllBefore(R2, q["b1"], r)
    BY <1>4, <1>5, <1>8, <1>9, <1>10
  <2> QED BY <1>7, <1>10, <2>1 DEF Aged
<1>12. n = "t2" => Aged(R2, q2)
  <2> SUFFICES ASSUME n = "t2" PROVE Aged(R2, q2) OBVIOUS
  <2>1. /\ q2["t2"] = r /\ q2["t1"] = q["t1"] /\ q2["b1"] = q["b1"] /\ q2["b2"] = q["b2"]
        /\ AllBefore(R2, q["b2"], r)
    BY <1>4, <1>5, <1>8, <1>9, <1>10
  <2> QED BY <1>7, <1>10, <2>1 DEF Aged
<1>13. Aged(R2, q2) BY <1>11, <1>12 DEF Cached
<1> QED BY <1>13 DEF R2, q2

\* freeRoom moves the head of t1 or t2 to the tail of its ghosts, where its age
\* belongs; under a re-entrant remove the ghost vanishes, which disturbs nothing.
LEMMA FreeRoomAges ==
  ASSUME NEW R, NEW mm, Sound(mm, Queues), ~Threw(mm), Aged(R, mm.q), NEW target, NEW hitList,
         NEW r, r = FreeRoom(mm, target, hitList)
  PROVE  Aged(R, r.q)
<1>1. Indexed(Queues, mm.q, mm.loc) BY DEF Sound
<1>2. ASSUME NEW f \in Queues, NEW g \in Queues,
             <<f, g>> \in {<<"t1", "b1">>, <<"t2", "b2">>}, ~IsEmpty(mm.q[f]),
             r = EvictHeadTo(mm, f, g)
      PROVE  Aged(R, r.q)
  <2> DEFINE k == Head(mm.q[f])
  <2>1. k = Head(mm.q[f]) /\ f # g BY <1>2
  <2> HIDE DEF k
  <2>2. /\ Add(mm.q[g], k) = Append(mm.q[g], k)
        /\ k \in Removing => r.q = Polled(mm.q, f)
        /\ k \notin Removing => r.q = Added(Polled(mm.q, f), g, k)
    BY <1>2, <2>1, EvictHeadToEffect
  <2>3. Aged(R, Polled(mm.q, f)) BY <1>1, <1>2, AgedPolled
  <2>4. Aged(R, Added(Polled(mm.q, f), g, k)) BY <1>1, <1>2, <2>1, <2>2, AgedGhost
  <2> QED BY <2>2, <2>3, <2>4
<1>3. "t1" \in Queues /\ "b1" \in Queues /\ "t2" \in Queues /\ "b2" \in Queues BY DEF Queues
<1>4. CASE ~IsEmpty(mm.q["t1"]) /\ r = EvictHeadTo(mm, "t1", "b1") BY <1>2, <1>3, <1>4
<1>5. CASE ~IsEmpty(mm.q["t2"]) /\ r = EvictHeadTo(mm, "t2", "b2") BY <1>2, <1>3, <1>5
<1>6. CASE r = mm BY <1>6
<1> QED BY <1>4, <1>5, <1>6 DEF FreeRoom

\* removeNode and evictNode only take the oldest key of a queue.
LEMMA RemoveNodeAges ==
  ASSUME NEW R, NEW mm, Sound(mm, Queues), ~Threw(mm), Aged(R, mm.q), NEW n \in Queues,
         ~IsEmpty(mm.q[n]), NEW r, r = RemoveNode(mm, n) \/ r = EvictNode(mm, n)
  PROVE  Aged(R, r.q)
<1>1. r.q = Polled(mm.q, n) BY RemoveNodeEffect, EvictNodeEffect
<1>2. Indexed(Queues, mm.q, mm.loc) BY DEF Sound
<1> QED BY <1>1, <1>2, AgedPolled

\* insertNode puts the visited key, the youngest of all, at the tail of t1.
LEMMA InsertNodeAges ==
  ASSUME NEW R, NEW mm, Sound(mm, Queues), ~Threw(mm), Aged(R, mm.q), NEW k \in Keys,
         mm.loc[k] = NoQueue, NEW r, r = InsertNode(mm, k, "t1")
  PROVE  Aged(After(R, k), r.q)
<1> DEFINE i == Insert(mm, k, "t1")
<1>1. r = Load(i, k) /\ "t1" \in Queues /\ "t1" \in Cached
  BY DEF InsertNode, AfterInsert, Cached, NoQueue, Queues
<1> HIDE DEF i
<1>2. Sound(i, Queues) /\ ~Threw(i) /\ i.q = Added(mm.q, "t1", k)
  BY <1>1, InsertEffect DEF i
<1>3. r.q = i.q BY <1>1, <1>2, LoadEffect
<1>4. Indexed(Queues, mm.q, mm.loc) BY DEF Sound
<1>5. Aged(After(R, k), Added(mm.q, "t1", k)) BY <1>1, <1>4, AgedVisit
<1> QED BY <1>2, <1>3, <1>5

\* moveNode takes the visited key out of its queue before it adds it to t2, so it
\* ends at the tail also when it was in t2 already.
LEMMA MoveNodeAges ==
  ASSUME NEW R, NEW mm, Sound(mm, Queues), ~Threw(mm), Aged(R, mm.q), NEW k \in Keys,
         NEW from \in Queues, mm.loc[k] = from, NEW r, r = MoveNode(mm, k, from, "t2")
  PROVE  Aged(After(R, k), r.q)
<1> DEFINE i == Move(mm, k, from, "t2")
           q1 == Taken(mm.q, from, k)
           loc1 == Placed(mm.loc, k, NoQueue)
<1>1. /\ r = i \/ r = Load(i, k)
      /\ "t2" \in Queues /\ "t2" \in Cached /\ mm.loc[k] # NoQueue
  BY DEF MoveNode, AfterInsert, Cached, NoQueue, Queues
<1>2. Indexed(Queues, mm.q, mm.loc) BY DEF Sound
<1>3. Indexed(Queues, q1, loc1) BY <1>1, <1>2, RemoveIndexed
<1>4. Aged(R, q1) BY <1>2, AgedTaken
<1>5. loc1[k] = NoQueue BY <1>2 DEF Placed, Indexed
<1>6. Sound(i, Queues) /\ ~Threw(i) /\ i.q = Added(q1, "t2", k)
  BY <1>1, MoveEffect
<1> HIDE DEF i, q1, loc1
<1>7. r.q = i.q BY <1>1, <1>6, LoadEffect
<1>8. Aged(After(R, k), Added(q1, "t2", k)) BY <1>1, <1>3, <1>4, <1>5, AgedVisit
<1> QED BY <1>6, <1>7, <1>8
-----------------------------------------------------------------------------
\* Cases II and III of onHit keep the order.
LEMMA GhostHitAges ==
  ASSUME IInv, RecencyOrder, NEW k \in Keys, NEW from \in {"b1", "b2"}, m.loc[k] = from,
         NEW target \in Nat,
         m' = MoveNode(FreeRoom(Begin(m), target, from), k, from, "t2")
  PROVE  Aged(After(older, k), m'.q)
<1> DEFINE b == Begin(m)
           f == FreeRoom(b, target, from)
<1>1. Sound(b, Queues) /\ ~Threw(b) /\ b.loc = m.loc /\ b.q = m.q BY Start
<1>2. /\ f = FreeRoom(b, target, from) /\ m' = MoveNode(f, k, from, "t2")
      /\ from \in Queues /\ from \notin Cached
  BY DEF Queues, Cached
<1>3. Aged(older, b.q) BY <1>1 DEF RecencyOrder
<1> HIDE DEF b, f
<1>4. Sound(f, Queues) /\ ~Threw(f) /\ f.loc[k] = from BY <1>1, <1>2, FreeRoomARC
<1>5. Aged(older, f.q) BY <1>1, <1>2, <1>3, FreeRoomAges
<1> QED BY <1>2, <1>4, <1>5, MoveNodeAges

\* onMiss's freeRoom followed by insertNode keeps the order.
LEMMA MissAges ==
  ASSUME NEW R, NEW mm, Sound(mm, Queues), ~Threw(mm), Aged(R, mm.q), NEW k \in Keys,
         mm.loc[k] = NoQueue, NEW target \in Nat,
         NEW r, r = InsertNode(FreeRoom(mm, target, NoQueue), k, "t1")
  PROVE  Aged(After(R, k), r.q)
<1> DEFINE f == FreeRoom(mm, target, NoQueue)
<1>1. f = FreeRoom(mm, target, NoQueue) /\ r = InsertNode(f, k, "t1") /\ NoQueue \notin Cached
  BY DEF NoQueue, Cached
<1> HIDE DEF f
<1>2. Sound(f, Queues) /\ ~Threw(f) /\ f.loc[k] = NoQueue BY <1>1, FreeRoomARC
<1>3. Aged(R, f.q) BY <1>1, FreeRoomAges
<1> QED BY <1>1, <1>2, <1>3, InsertNodeAges

\* Dropping the oldest ghost before freeRoom and insertNode keeps the order.
LEMMA MissDropAges ==
  ASSUME IInv, RecencyOrder, NEW k \in Keys, m.loc[k] = NoQueue, NEW g \in {"b1", "b2"},
         Size(m, g) > 0, NEW target \in Nat,
         m' = InsertNode(FreeRoom(RemoveNode(Begin(m), g), target, NoQueue), k, "t1")
  PROVE  Aged(After(older, k), m'.q)
<1> DEFINE b == Begin(m)
           d == RemoveNode(b, g)
           h == Head(b.q[g])
<1>1. /\ Sound(b, Queues) /\ ~Threw(b) /\ b.loc = m.loc /\ b.q = m.q /\ Sound(m, Queues)
  BY Start
<1>2. g \in Queues BY DEF Queues
<1>3. ~IsEmpty(b.q[g]) BY <1>1, <1>2, SizeTypes
<1>4. Aged(older, b.q) BY <1>1 DEF RecencyOrder
<1>5. d = RemoveNode(b, g) /\ h = Head(b.q[g]) OBVIOUS
<1>6. m' = InsertNode(FreeRoom(d, target, NoQueue), k, "t1") OBVIOUS
<1> HIDE DEF b, d, h
<1>7. /\ Sound(d, Queues) /\ ~Threw(d) /\ d.loc = Placed(b.loc, h, NoQueue)
  BY <1>1, <1>2, <1>3, <1>5, RemoveNodeEffect
<1>8. d.loc[k] = NoQueue
  BY <1>1, <1>7, FieldTypes DEF Placed, Sound
<1>9. Aged(older, d.q) BY <1>1, <1>2, <1>3, <1>4, <1>5, RemoveNodeAges
<1> QED BY <1>6, <1>7, <1>8, <1>9, MissAges

\* Case IV.i.else (evictNode of t1, then insertNode) keeps the order; with
\* MaxNodes = 0 the exception leaves the queues alone.
LEMMA T1FullAges ==
  ASSUME IInv, RecencyOrder, NEW k \in Keys, m.loc[k] = NoQueue,
         m' = InsertNode(EvictNode(Begin(m), "t1"), k, "t1")
  PROVE  Aged(After(older, k), m'.q)
<1> DEFINE b == Begin(m)
           d == EvictNode(b, "t1")
           v == Head(b.q["t1"])
<1>1. /\ Sound(b, Queues) /\ ~Threw(b) /\ b.loc = m.loc /\ b.q = m.q /\ "t1" \in Queues
  BY Start DEF Queues
<1>2. Aged(older, b.q) BY <1>1 DEF RecencyOrder
<1>3. /\ d = EvictNode(b, "t1") /\ v = Head(b.q["t1"]) /\ m' = InsertNode(d, k, "t1")
  OBVIOUS
<1> HIDE DEF b, d, v
<1>4. CASE IsEmpty(b.q["t1"])
  <2>1. d = Throw(b) BY <1>1, <1>3, <1>4 DEF EvictNode
  <2>2. Threw(d) /\ d.q = b.q BY <1>1, <2>1, ThrowFields DEF Sound
  <2>3. m' = d BY <1>3, <2>2 DEF InsertNode, AfterInsert, Insert, Load
  <2>4. Indexed(Queues, b.q, b.loc) /\ b.loc[k] = NoQueue BY <1>1 DEF Sound
  <2>5. Aged(After(older, k), b.q) BY <1>2, <2>4, AgedUnknown
  <2> QED BY <2>2, <2>3, <2>5
<1>5. CASE ~IsEmpty(b.q["t1"])
  <2>1. /\ Sound(d, Queues) /\ ~Threw(d) /\ d.loc = Placed(b.loc, v, NoQueue)
    BY <1>1, <1>3, <1>5, EvictNodeEffect
  <2>2. d.loc[k] = NoQueue
    BY <1>1, <2>1, FieldTypes DEF Placed, Sound
  <2>3. Aged(older, d.q) BY <1>1, <1>2, <1>3, <1>5, RemoveNodeAges
  <2> QED BY <1>3, <2>1, <2>2, <2>3, InsertNodeAges
<1> QED BY <1>4, <1>5

\* How a visit changes the history relation.
LEMMA VisitedAfter ==
  ASSUME NEW k, Visited(k)
  PROVE  older' = After(older, k)
BY DEF Visited

\* Every case of visit(hit) keeps the order.
LEMMA VisitAgesStep ==
  ASSUME IInv, RecencyOrder, NEW k \in Keys, Visit(k)
  PROVE  RecencyOrder'
<1> SUFFICES Aged(After(older, k), m'.q)
  <2>1. Visited(k)
    BY DEF Visit, HitCached, HitB1, HitB2, Miss, MissLeftSideFull, MissT1Full,
           MissDirectoryFull, MissCacheFull, MissRoom
  <2>2. older' = After(older, k) BY <2>1, VisitedAfter
  <2> QED BY <2>2 DEF RecencyOrder, Aged, InOrder, AllBefore
<1>1. /\ Sound(Begin(m), Queues) /\ ~Threw(Begin(m)) /\ Sound(m, Queues) /\ Sizes(m)
      /\ Begin(m).loc = m.loc /\ Begin(m).q = m.q
  BY Start
<1>2. Aged(older, Begin(m).q) BY <1>1 DEF RecencyOrder
<1>3. /\ Size(m, "t1") \in Nat /\ Size(m, "t2") \in Nat
      /\ Size(m, "b1") \in Nat /\ Size(m, "b2") \in Nat
  BY <1>1, SizeTypes
<1>4. targetT1Size \in Nat BY DEF IInv, TypeOK
<1>5. CASE HitCached(k)
  <2>1. m.loc[k] \in Queues BY <1>5 DEF HitCached, Cached, Queues
  <2>2. m' = MoveNode(Begin(m), k, m.loc[k], "t2") BY <1>5 DEF HitCached
  <2> QED BY <1>1, <1>2, <2>1, <2>2, MoveNodeAges
<1>6. CASE HitB1(k)
  <2>1. targetT1Size' \in 0..MaxNodes BY <1>6, HitB1Step DEF IInv, TypeOK
  <2>2. targetT1Size' \in Nat BY <2>1
  <2>3. /\ m.loc[k] = "b1"
        /\ m' = MoveNode(FreeRoom(Begin(m), targetT1Size', "b1"), k, "b1", "t2")
    BY <1>6 DEF HitB1
  <2> QED BY <2>2, <2>3, GhostHitAges
<1>7. CASE HitB2(k)
  <2>1. targetT1Size' \in 0..MaxNodes BY <1>7, HitB2Step DEF IInv, TypeOK
  <2>2. targetT1Size' \in Nat BY <2>1
  <2>3. /\ m.loc[k] = "b2"
        /\ m' = MoveNode(FreeRoom(Begin(m), targetT1Size', "b2"), k, "b2", "t2")
    BY <1>7 DEF HitB2
  <2> QED BY <2>2, <2>3, GhostHitAges
<1>8. CASE MissLeftSideFull(k)
  <2>1. Size(m, "b1") > 0
    BY <1>3, <1>8, MaxNodesAssumption DEF MissLeftSideFull, LeftSideSize
  <2>2. /\ m.loc[k] = NoQueue
        /\ m' = InsertNode(FreeRoom(RemoveNode(Begin(m), "b1"), targetT1Size, NoQueue), k, "t1")
    BY <1>8 DEF MissLeftSideFull, Miss
  <2> QED BY <1>4, <2>1, <2>2, MissDropAges
<1>9. CASE MissDirectoryFull(k)
  <2>1. /\ Size(m, "t1") + Size(m, "t2") <= MaxNodes
        /\ Size(m, "t1") + Size(m, "b1") < MaxNodes
        /\ Size(m, "t1") + Size(m, "b1") + Size(m, "t2") + Size(m, "b2") >= 2 * MaxNodes
    BY <1>1, <1>9 DEF MissDirectoryFull, LeftSideSize, DirectorySize, DirectoryCapacity, CacheSize, Sizes
  <2>2. Size(m, "b2") > 0 BY <1>3, <2>1, MaxNodesAssumption
  <2>3. /\ m.loc[k] = NoQueue
        /\ m' = InsertNode(FreeRoom(RemoveNode(Begin(m), "b2"), targetT1Size, NoQueue), k, "t1")
    BY <1>9 DEF MissDirectoryFull, Miss
  <2> QED BY <1>4, <2>2, <2>3, MissDropAges
<1>10. CASE MissT1Full(k) BY <1>10, T1FullAges DEF MissT1Full, Miss
<1>11. CASE MissCacheFull(k)
  <2>1. /\ Begin(m).loc[k] = NoQueue
        /\ m' = InsertNode(FreeRoom(Begin(m), targetT1Size, NoQueue), k, "t1")
    BY <1>1, <1>11 DEF MissCacheFull, Miss
  <2> QED BY <1>1, <1>2, <1>4, <2>1, MissAges
<1>12. CASE MissRoom(k)
  <2>1. Begin(m).loc[k] = NoQueue /\ m' = InsertNode(Begin(m), k, "t1")
    BY <1>1, <1>12 DEF MissRoom, Miss
  <2> QED BY <1>1, <1>2, <2>1, InsertNodeAges
<1> QED BY <1>5, <1>6, <1>7, <1>8, <1>9, <1>10, <1>11, <1>12 DEF Visit

\* remove(hit) keeps the order.
LEMMA RemoveKeyAges ==
  ASSUME IInv, RecencyOrder, NEW k \in Keys, RemoveKey(k)
  PROVE  RecencyOrder'
<1> DEFINE b == Begin(m)
<1>1. Sound(b, Queues) /\ b.q = m.q BY Start
<1>2. m' = Removed(b, k) /\ older' = older BY DEF RemoveKey
<1>3. Aged(older, b.q) BY <1>1 DEF RecencyOrder
<1> HIDE DEF b
<1>4. /\ b.loc[k] = NoQueue => m'.q = b.q
      /\ b.loc[k] # NoQueue => b.loc[k] \in Queues /\ m'.q = Taken(b.q, b.loc[k], k)
  BY <1>1, <1>2, RemovedEffect
<1>5. Indexed(Queues, b.q, b.loc) BY <1>1 DEF Sound
<1>6. Aged(older, m'.q) BY <1>3, <1>4, <1>5, AgedTaken
<1> QED BY <1>2, <1>6 DEF RecencyOrder, Aged, InOrder, AllBefore

\* clear() leaves nothing to order.
LEMMA ClearAges ==
  ASSUME IInv, Clear
  PROVE  RecencyOrder'
<1> DEFINE q0 == [n \in DOMAIN Begin(m).q |-> << >>]
           loc0 == [k \in Keys |-> NoQueue]
           r == Reindex(Begin(m), q0, loc0)
<1>1. Sound(Begin(m), Queues) BY Start
<1>2. q0 = [n \in Queues |-> << >>] BY <1>1, FieldTypes DEF Sound
<1>3. m' = [r EXCEPT !.resident = {}] BY DEF Clear, EmptyManager
<1>4. Indexed(Queues, q0, loc0) BY <1>2, EmptyIndexed
<1>5. r \in Managers(Queues) /\ r.q = q0 BY <1>1, <1>4, ReindexSound DEF Sound
<1> HIDE DEF q0, loc0, r
<1>6. m'.q = q0 BY <1>3, <1>5 DEF Managers
<1>7. m'.q["t1"] = << >> /\ m'.q["t2"] = << >> /\ m'.q["b1"] = << >> /\ m'.q["b2"] = << >>
  BY <1>2, <1>6 DEF Queues
<1> QED BY <1>7 DEF RecencyOrder, Aged, InOrder, AllBefore

\* Every queue of ARC runs from its least to its most recently used key, ghosts
\* before the cached keys of their side, whatever is visited, removed and
\* cleared, and also when the listener calls remove from within an eviction.
THEOREM RecencyKept == Spec => []RecencyOrder
<1>1. Init => RecencyOrder
  BY DEF Init, NewManager, RecencyOrder, Aged, InOrder, AllBefore, Queues
<1>2. IInv /\ RecencyOrder /\ [Next]_vars => RecencyOrder'
  <2> SUFFICES ASSUME IInv, RecencyOrder, [Next]_vars PROVE RecencyOrder' OBVIOUS
  <2>1. ASSUME NEW k \in Keys, Visit(k) PROVE RecencyOrder' BY <2>1, VisitAgesStep
  <2>2. ASSUME NEW k \in Keys, RemoveKey(k) PROVE RecencyOrder' BY <2>2, RemoveKeyAges
  <2>3. CASE Clear BY <2>3, ClearAges
  <2>4. CASE UNCHANGED vars
    BY <2>4, ZenonT(60) DEF vars, RecencyOrder, Aged, InOrder, AllBefore
  <2> QED BY <2>1, <2>2, <2>3, <2>4 DEF Next
<1> QED BY <1>1, <1>2, Invariant, PTL DEF Spec
=============================================================================
