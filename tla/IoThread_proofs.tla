------------------------------ MODULE IoThread_proofs ------------------------------
(***************************************************************************)
(* The I/O thread, whatever its objects and descriptors, the threads that  *)
(* send it commands and the poller the build selects: the signaler carries *)
(* one signal, the poller watches what was asked for, and an event goes to *)
(* the object it was reported for.  Before that, what the five pollers     *)
(* promise the I/O thread, whatever the number of descriptors and the      *)
(* order of the calls.                                                     *)
(***************************************************************************)
EXTENDS IoThread, FiniteSetTheorems, WellFoundedInduction, TLAPS

\* The least-number principle, from the well-foundedness of inclusion among finite
\* sets: every non-empty set of naturals has a least element.
LEMMA LeastNumber ==
  ASSUME NEW A, A \subseteq Nat, A # {}
  PROVE  \E m \in A : \A k \in A : m <= k
<1> DEFINE Below(n) == 0..(n - 1)
           T == {Below(n) : n \in A}
<1>1. T \subseteq FiniteSubsetsOf(Nat)
  <2> SUFFICES ASSUME NEW n \in A PROVE Below(n) \in FiniteSubsetsOf(Nat) OBVIOUS
  <2>1. n \in Nat OBVIOUS
  <2>2. IsFiniteSet(Below(n)) BY <2>1, FS_Interval
  <2> QED BY <2>1, <2>2 DEF FiniteSubsetsOf
<1>2. T # {} OBVIOUS
<1>3. IsWellFoundedOn(StrictSubsetOrdering(Nat), FiniteSubsetsOf(Nat))
  BY FS_StrictSubsetOrderingWellFounded
<1>4. PICK x \in T : \A y \in T : ~(<<y, x>> \in StrictSubsetOrdering(Nat))
  <2> HIDE DEF T
  <2> QED BY <1>1, <1>2, <1>3, WFMin
<1>5. PICK m \in A : x = Below(m) OBVIOUS
<1>6. ASSUME NEW k \in A PROVE m <= k
  <2>1. k \in Nat /\ m \in Nat OBVIOUS
  <2>2. SUFFICES ASSUME k < m PROVE FALSE BY <2>1
  <2>3. Below(k) \in T OBVIOUS
  <2>4. Below(k) \in SUBSET Nat /\ Below(m) \in SUBSET Nat /\ Below(k) \subseteq Below(m)
    BY <2>1, <2>2
  <2>5. k \in Below(m) /\ k \notin Below(k) BY <2>1, <2>2
  <2>6. <<Below(k), Below(m)>> \in StrictSubsetOrdering(Nat)
    BY <2>4, <2>5 DEF StrictSubsetOrdering
  <2> QED BY <2>3, <2>6, <1>4, <1>5
<1> QED BY <1>6

\* Erasing the retired entries of a vector keeps every other entry, once each.
LEMMA Erased ==
  ASSUME NEW v, NEW n \in Nat, DOMAIN v = 1..n
  PROVE  /\ Cardinality(Staying(v)) \in Nat
         /\ DOMAIN Erase(v) = 1..Cardinality(Staying(v))
         /\ \A i \in Staying(v) : Place(v, i) \in DOMAIN Erase(v) /\ Erase(v)[Place(v, i)] = v[i]
         /\ \A k \in DOMAIN Erase(v) : \E i \in Staying(v) : Place(v, i) = k /\ Erase(v)[k] = v[i]
         /\ \A i, j \in Staying(v) : Place(v, i) = Place(v, j) => i = j
<1> DEFINE K == Staying(v)
           c == Cardinality(K)
           Up(i) == {j \in K : j <= i}
           f == [i \in K |-> Place(v, i)]
<1>1. K \subseteq 1..n /\ IsFiniteSet(1..n) /\ IsFiniteSet(K) /\ c \in Nat
  <2>1. K \subseteq 1..n BY DEF Staying
  <2>2. IsFiniteSet(1..n) BY FS_Interval
  <2> QED BY <2>1, <2>2, FS_Subset, FS_CardinalityType
<1>2. \A i \in K : Place(v, i) = Cardinality(Up(i)) BY DEF Place
<1>3. \A i \in K : Place(v, i) \in 1..c
  <2> TAKE i \in K
  <2>1. Up(i) \subseteq K /\ i \in Up(i) BY <1>1
  <2>2. IsFiniteSet(Up(i)) /\ Cardinality(Up(i)) \in Nat /\ Cardinality(Up(i)) <= c
    BY <1>1, <2>1, FS_Subset, FS_CardinalityType
  <2>3. Cardinality(Up(i)) # 0 BY <2>1, <2>2, FS_EmptySet
  <2> QED BY <1>1, <1>2, <2>2, <2>3
<1>4. \A i, j \in K : i < j => Place(v, i) # Place(v, j)
  <2> SUFFICES ASSUME NEW i \in K, NEW j \in K, i < j PROVE Place(v, i) # Place(v, j) OBVIOUS
  <2>1. Up(i) \subseteq Up(j) /\ j \in Up(j) /\ j \notin Up(i) /\ Up(j) \subseteq K BY <1>1
  <2>2. IsFiniteSet(Up(j)) BY <1>1, <2>1, FS_Subset
  <2>3. Cardinality(Up(i)) # Cardinality(Up(j)) BY <2>1, <2>2, FS_Subset
  <2> QED BY <1>2, <2>3
<1>5. \A i, j \in K : Place(v, i) = Place(v, j) => i = j BY <1>1, <1>4
<1>6. \A k \in 1..c : \E i \in K : Place(v, i) = k
  <2>1. f \in [K -> 1..c] BY <1>3
  <2>2. f \in Injection(K, 1..c) BY <1>5, <2>1 DEF Injection, IsInjective
  <2>3. IsFiniteSet(1..c) /\ Cardinality(1..c) = c BY <1>1, FS_Interval
  <2>4. f \in Surjection(K, 1..c) BY <2>2, <2>3, FS_Injection
  <2> QED BY <2>4 DEF Surjection
<1>7. DOMAIN Erase(v) = 1..c /\ \A k \in 1..c : Erase(v)[k] = v[CHOOSE i \in K : Place(v, i) = k]
  BY DEF Erase
<1> QED BY <1>1, <1>3, <1>5, <1>6, <1>7
-----------------------------------------------------------------------------
(* The promise.  A poller serves a descriptor for a sink, under a handle,  *)
(* with the events that were asked for; a position of its loop is heard    *)
(* when it is not skipped and there is an event to deliver to its sink.    *)

Evs == {"in", "out"}
AllEvs == {"err", "out", "in"}

EpollGood(p) ==
    /\ DOMAIN p = {"pe", "retired", "ev_buf"}
    /\ IsFiniteSet(DOMAIN p.pe)
    /\ \A h \in DOMAIN p.pe : /\ DOMAIN p.pe[h] = {"fd", "events", "sink"}
                              /\ p.pe[h].fd \in Fds \cup {RetiredFd}
                              /\ p.pe[h].events \subseteq Evs
    /\ p.retired = {h \in DOMAIN p.pe : p.pe[h].fd = RetiredFd}
    /\ \A g, h \in DOMAIN p.pe \ p.retired : p.pe[g].fd = p.pe[h].fd => g = h
    /\ DOMAIN p.ev_buf \subseteq DOMAIN p.pe

KqueueGood(p) ==
    /\ DOMAIN p = {"pe", "retired", "ev_buf"}
    /\ IsFiniteSet(DOMAIN p.pe)
    /\ \A h \in DOMAIN p.pe : /\ DOMAIN p.pe[h] = {"fd", "flags", "sink"}
                              /\ p.pe[h].fd \in Fds \cup {RetiredFd}
                              /\ p.pe[h].flags \subseteq Evs
    /\ p.retired = {h \in DOMAIN p.pe : p.pe[h].fd = RetiredFd}
    /\ \A h \in p.retired : p.pe[h].flags = {}
    /\ \A g, h \in DOMAIN p.pe \ p.retired : p.pe[g].fd = p.pe[h].fd => g = h
    /\ \A e \in p.ev_buf : e.h \in DOMAIN p.pe

\* the vector and the table point to each other
PollGood(p) ==
    /\ DOMAIN p = {"pollset", "retired", "fd_table"}
    /\ p.pollset \in Seq([fd : Fds \cup {RetiredFd}, events : SUBSET Evs, revents : SUBSET AllEvs])
    /\ DOMAIN p.fd_table = Fds
    /\ \A fd \in Fds : DOMAIN p.fd_table[fd] = {"index", "sink"}
    /\ \A fd \in Fds : p.fd_table[fd].index # RetiredFd =>
          p.fd_table[fd].index \in DOMAIN p.pollset /\ p.pollset[p.fd_table[fd].index].fd = fd
    /\ \A i \in DOMAIN p.pollset :
          p.pollset[i].fd # RetiredFd => p.fd_table[p.pollset[i].fd].index = i
    /\ ~p.retired => \A i \in DOMAIN p.pollset : p.pollset[i].fd # RetiredFd

\* the sets hold descriptors of the vector, none beyond maxfd
SelectGood(p) ==
    /\ DOMAIN p = {"fds", "source", "ready", "maxfd", "retired"}
    /\ p.fds \in Seq({p.fds[i] : i \in DOMAIN p.fds})
    /\ \A i \in DOMAIN p.fds : /\ DOMAIN p.fds[i] = {"fd", "sink"}
                               /\ p.fds[i].fd \in Fds \cup {RetiredFd}
    /\ \A i, j \in DOMAIN p.fds : p.fds[i].fd = p.fds[j].fd => i = j \/ p.fds[i].fd = RetiredFd
    /\ DOMAIN p.source = AllEvs /\ DOMAIN p.ready = AllEvs
    /\ \A ev \in AllEvs : \A fd \in p.source[ev] \cup p.ready[ev] :
          fd # RetiredFd /\ \E i \in DOMAIN p.fds : p.fds[i].fd = fd
    /\ \A i \in DOMAIN p.fds : p.fds[i].fd # RetiredFd => p.fds[i].fd \in p.source.err
    /\ p.maxfd \in Fds \cup {RetiredFd}
    /\ \A i \in DOMAIN p.fds : p.fds[i].fd <= p.maxfd

DevpollFields == {"pending", "ev_buf", "fd_table", "size", "dangling"}

DevpollGood(p) ==
    /\ DOMAIN p = DevpollFields
    /\ DOMAIN p.fd_table = Fds
    /\ \A fd \in Fds : /\ DOMAIN p.fd_table[fd] = {"events", "sink", "valid", "accepted"}
                       /\ p.fd_table[fd].events \subseteq Evs
                       /\ p.fd_table[fd].valid \in BOOLEAN /\ p.fd_table[fd].accepted \in BOOLEAN
    /\ \A x \in p.ev_buf : x[1] \in Fds

Good(backend, p) ==
    CASE backend = "epoll" -> EpollGood(p)
      [] backend = "poll" -> PollGood(p)
      [] backend = "select" -> SelectGood(p)
      [] backend = "kqueue" -> KqueueGood(p)
      [] backend = "devpoll" -> DevpollGood(p)

Serves(backend, p, h, fd, sink, events) ==
    CASE backend = "epoll" ->
           /\ h \in DOMAIN p.pe /\ p.pe[h].fd = fd /\ fd # RetiredFd
           /\ p.pe[h].sink = sink /\ p.pe[h].events = events
      [] backend = "poll" ->
           /\ h = fd /\ fd \in Fds /\ p.fd_table[fd].index # RetiredFd
           /\ p.fd_table[fd].sink = sink /\ p.pollset[p.fd_table[fd].index].events = events
      [] backend = "select" ->
           /\ h = fd /\ fd # RetiredFd
           /\ \E i \in DOMAIN p.fds : p.fds[i].fd = fd /\ p.fds[i].sink = sink
           /\ events = {ev \in Evs : fd \in p.source[ev]}
      [] backend = "kqueue" ->
           /\ h \in DOMAIN p.pe /\ p.pe[h].fd = fd /\ fd # RetiredFd
           /\ p.pe[h].sink = sink /\ p.pe[h].flags = events
      [] backend = "devpoll" ->
           /\ h = fd /\ fd \in Fds /\ p.fd_table[fd].valid
           /\ p.fd_table[fd].sink = sink /\ p.fd_table[fd].events = events

Positions(backend, p) ==
    CASE backend = "epoll" -> DOMAIN p.ev_buf
      [] backend = "poll" -> DOMAIN p.pollset
      [] backend = "select" -> DOMAIN p.fds
      [] backend = "kqueue" -> p.ev_buf
      [] backend = "devpoll" -> {x[1] : x \in p.ev_buf}

Heard(backend, p, e) ==
    /\ e \in Positions(backend, p)
    /\ ~Skip(backend, p, e)
    /\ \E ev \in AllEvs : Has(backend, p, e, ev)

\* q hears nothing that p did not, and its sinks are those of p
Quieter(backend, p, q) ==
    /\ Positions(backend, p) \subseteq Positions(backend, q)
    /\ \A e : Heard(backend, q, e) => Heard(backend, p, e) /\ Sink(backend, q, e) = Sink(backend, p, e)

Free(backend, p, fd) == \A h, sink, events : ~Serves(backend, p, h, fd, sink, events)

Adds(backend, p, q, new, fd, sink) ==
    /\ Good(backend, q)
    /\ Quieter(backend, p, q)
    /\ \A f, s, E : ~Serves(backend, p, new, f, s, E)
    /\ \A h, f, s, E : Serves(backend, q, h, f, s, E) <=>
          Serves(backend, p, h, f, s, E) \/ (h = new /\ f = fd /\ s = sink /\ E = {})

Removes(backend, p, q, old) ==
    /\ Good(backend, q)
    /\ Quieter(backend, p, q)
    /\ \A h, f, s, E : Serves(backend, q, h, f, s, E) <=> Serves(backend, p, h, f, s, E) /\ h # old

\* the events of the handle g become E1
Turns(backend, p, q, g, E1) ==
    /\ Good(backend, q)
    /\ Quieter(backend, p, q)
    /\ \A h, f, s, E : Serves(backend, q, h, f, s, E) <=>
          \/ h # g /\ Serves(backend, p, h, f, s, E)
          \/ h = g /\ E = E1 /\ \E E0 : Serves(backend, p, h, f, s, E0)

Keeps(backend, p, q) ==
    /\ Good(backend, q)
    /\ \A h, f, s, E : Serves(backend, q, h, f, s, E) <=> Serves(backend, p, h, f, s, E)

\* after the wait, q hears only what was reported
Reports(backend, p, q, reported) ==
    /\ Keeps(backend, p, q)
    /\ \A e : Heard(backend, q, e) =>
          \E h, f, E : Serves(backend, p, h, f, Sink(backend, q, e), E) /\ \E x \in reported : x[1] = f

\* What does not depend on an operation.
Sound(backend, p) ==
    /\ \A h, f, s, E : Serves(backend, p, h, f, s, E) => f \in Fds /\ E \subseteq Evs
    /\ \A h, f, s, E, g, r, D :
          Serves(backend, p, h, f, s, E) /\ Serves(backend, p, g, f, r, D) => h = g
    /\ \A h, f, s, E, g, r, D :
          Serves(backend, p, h, f, s, E) /\ Serves(backend, p, h, g, r, D) => f = g /\ s = r /\ E = D
    /\ \A e : Heard(backend, p, e) => \E h, f, E : Serves(backend, p, h, f, Sink(backend, p, e), E)
    /\ \A f, ev : <<f, ev>> \in Watched(backend, p) =>
          ev \in AllEvs /\ \E h, s, E : Serves(backend, p, h, f, s, E) /\ (ev \in E \/ ev = "err")
    /\ \A h, f, s, E, ev : Serves(backend, p, h, f, s, E) /\ ev \in E => <<f, ev>> \in Watched(backend, p)
    /\ \A x \in Watched(backend, p) : x = <<x[1], x[2]>>
    /\ \A past : Todo(backend, p, past) \subseteq Positions(backend, p)
-----------------------------------------------------------------------------
\* The pollers count as everybody does.
LEMMA Cardinalities ==
  \A S : /\ Epoll!Cardinality(S) = Cardinality(S)
         /\ Kqueue!Cardinality(S) = Cardinality(S)
         /\ Poll!Cardinality(S) = Cardinality(S)
         /\ Select!Cardinality(S) = Cardinality(S)
BY DEF Epoll!Cardinality, Kqueue!Cardinality, Poll!Cardinality, Select!Cardinality, Cardinality

(* epoll_t.                                                                *)

\* The handle of a new entry is not in use: among one more number than there are
\* entries, one is free.
LEMMA FreshHandle ==
  ASSUME NEW S, IsFiniteSet(S)
  PROVE  (CHOOSE h \in 1..(Cardinality(S) + 1) : h \notin S) \notin S
<1>1. Cardinality(S) \in Nat BY FS_CardinalityType
<1> DEFINE n == Cardinality(S) + 1
<1>2. Cardinality(1..n) = n BY <1>1, FS_Interval
<1>3. ~(1..n \subseteq S)
  <2> SUFFICES ASSUME 1..n \subseteq S PROVE FALSE OBVIOUS
  <2>1. Cardinality(1..n) <= Cardinality(S) BY FS_Subset
  <2> QED BY <1>1, <1>2, <2>1
<1>4. \E h \in 1..n : h \notin S BY <1>3
<1> QED BY <1>4

\* The operations of epoll_t, by name.
LEMMA EpollOps ==
  /\ New("epoll") = Epoll!New
  /\ \A p, fd : Fresh("epoll", p, fd) = Epoll!Fresh(p, fd)
  /\ \A p, fd, sink : AddFd("epoll", p, fd, sink) = Epoll!AddFd(p, fd, sink)
  /\ \A p, h : RmFd("epoll", p, h) = Epoll!RmFd(p, h)
  /\ \A p, h, ev : SetPoll("epoll", p, h, ev) = Epoll!SetPoll(p, h, ev)
  /\ \A p, h, ev : ResetPoll("epoll", p, h, ev) = Epoll!ResetPoll(p, h, ev)
  /\ \A p : Watched("epoll", p) = Epoll!Watched(p)
  /\ \A p : LoopTop("epoll", p) = p
  /\ \A p, reported : Waited("epoll", p, reported) = Epoll!Waited(p, reported)
  /\ \A p, past : Todo("epoll", p, past) = DOMAIN p.ev_buf \ past
  /\ \A p, e : Skip("epoll", p, e) <=> p.pe[e].fd = RetiredFd
  /\ \A p, e, ev : Has("epoll", p, e, ev) <=> ev \in p.ev_buf[e]
  /\ \A p, e : Sink("epoll", p, e) = p.pe[e].sink
  /\ \A p : Cleanup("epoll", p) = Epoll!Cleanup(p)
  /\ \A p : Good("epoll", p) <=> EpollGood(p)
  /\ \A p, h, fd, sink, events : Serves("epoll", p, h, fd, sink, events) <=>
        /\ h \in DOMAIN p.pe /\ p.pe[h].fd = fd /\ fd # RetiredFd
        /\ p.pe[h].sink = sink /\ p.pe[h].events = events
  /\ \A p : Positions("epoll", p) = DOMAIN p.ev_buf
  /\ \A p, e : Heard("epoll", p, e) <=>
        /\ e \in DOMAIN p.ev_buf /\ p.pe[e].fd # RetiredFd
        /\ \E ev \in AllEvs : ev \in p.ev_buf[e]
BY DEF New, Fresh, AddFd, RmFd, SetPoll, ResetPoll, Watched, LoopTop, Waited, Todo, Skip, Has, Sink,
       Cleanup, Good, Serves, Positions, Heard, Epoll!LoopTop, Epoll!Todo, Epoll!Skip, Epoll!Has,
       Epoll!Sink, Epoll!RetiredFd, RetiredFd

\* epoll_t::add_fd puts an entry on the heap that no event of the batch is about.
LEMMA EpollAdds ==
  ASSUME NEW p, NEW fd \in Fds, NEW sink, Good("epoll", p), Free("epoll", p, fd)
  PROVE  Adds("epoll", p, AddFd("epoll", p, fd, sink), Fresh("epoll", p, fd), fd, sink)
<1> DEFINE new == Fresh("epoll", p, fd)
           q == AddFd("epoll", p, fd, sink)
           x == [fd |-> fd, events |-> {}, sink |-> sink]
<1>g. EpollGood(p) BY EpollOps
<1>f. fd \in Nat /\ fd # RetiredFd BY PollerAssumption DEF RetiredFd
<1>1. new \notin DOMAIN p.pe
  <2>1. IsFiniteSet(DOMAIN p.pe) BY <1>g DEF EpollGood
  <2>2. new = CHOOSE h \in 1..(Cardinality(DOMAIN p.pe) + 1) : h \notin DOMAIN p.pe
    <3>1. new = Epoll!Fresh(p, fd) BY EpollOps
    <3> HIDE DEF new
    <3> QED BY <3>1, Cardinalities DEF Epoll!Fresh
  <2> HIDE DEF new
  <2> QED BY <2>1, <2>2, FreshHandle
<1>e. Epoll!Fresh(p, fd) = new /\ q = Epoll!AddFd(p, fd, sink) BY EpollOps
<1> HIDE DEF new, q
<1>2. q = [p EXCEPT !.pe = [h \in DOMAIN p.pe \cup {new} |-> IF h = new THEN x ELSE p.pe[h]]]
  BY <1>e DEF Epoll!AddFd
<1>3. /\ DOMAIN q = {"pe", "retired", "ev_buf"} /\ q.retired = p.retired /\ q.ev_buf = p.ev_buf
      /\ DOMAIN q.pe = DOMAIN p.pe \cup {new} /\ q.pe[new] = x
      /\ \A h \in DOMAIN p.pe : q.pe[h] = p.pe[h]
  <2> DEFINE pe == [h \in DOMAIN p.pe \cup {new} |-> IF h = new THEN x ELSE p.pe[h]]
  <2>1. /\ DOMAIN pe = DOMAIN p.pe \cup {new} /\ pe[new] = x
        /\ \A h \in DOMAIN p.pe : pe[h] = p.pe[h]
    BY <1>1
  <2>2. q = [p EXCEPT !.pe = pe] BY <1>2
  <2> HIDE DEF pe, x
  <2> QED BY <1>g, <2>1, <2>2 DEF EpollGood
<1>4. \A h \in DOMAIN p.pe : p.pe[h].fd # fd
  <2> SUFFICES ASSUME NEW h \in DOMAIN p.pe, p.pe[h].fd = fd PROVE FALSE OBVIOUS
  <2>1. Serves("epoll", p, h, fd, p.pe[h].sink, p.pe[h].events) BY <1>f, EpollOps
  <2> QED BY <2>1 DEF Free
<1>5. EpollGood(q)
  <2>1. IsFiniteSet(DOMAIN q.pe) BY <1>g, <1>3, FS_AddElement DEF EpollGood
  <2> QED BY <1>g, <1>f, <1>1, <1>3, <1>4, <2>1 DEF EpollGood
<1>6. Quieter("epoll", p, q) BY <1>g, <1>3, EpollOps DEF Quieter, EpollGood
<1>7. \A f, s, E : ~Serves("epoll", p, new, f, s, E) BY <1>1, EpollOps
<1>8. \A h, f, s, E : Serves("epoll", q, h, f, s, E) <=>
         Serves("epoll", p, h, f, s, E) \/ (h = new /\ f = fd /\ s = sink /\ E = {})
  <2> TAKE h, f, s, E
  <2>1. Serves("epoll", q, h, f, s, E) <=>
          h \in DOMAIN q.pe /\ q.pe[h].fd = f /\ f # RetiredFd /\ q.pe[h].sink = s /\ q.pe[h].events = E
    BY EpollOps
  <2>2. Serves("epoll", p, h, f, s, E) <=>
          h \in DOMAIN p.pe /\ p.pe[h].fd = f /\ f # RetiredFd /\ p.pe[h].sink = s /\ p.pe[h].events = E
    BY EpollOps
  <2> QED BY <1>f, <1>1, <1>3, <2>1, <2>2
<1> QED BY <1>5, <1>6, <1>7, <1>8, EpollOps DEF Adds, new, q

\* epoll_t::rm_fd marks the entry, which the loop then skips.
LEMMA EpollRemoves ==
  ASSUME NEW p, NEW h, NEW f, NEW s, NEW E, Good("epoll", p), Serves("epoll", p, h, f, s, E)
  PROVE  Removes("epoll", p, RmFd("epoll", p, h), h)
<1> DEFINE q == RmFd("epoll", p, h)
<1>g. EpollGood(p) BY EpollOps
<1>1. q = [p EXCEPT !.pe[h].fd = RetiredFd, !.retired = @ \cup {h}]
  BY EpollOps DEF Epoll!RmFd, Epoll!RetiredFd, RetiredFd
<1>2. /\ DOMAIN q = {"pe", "retired", "ev_buf"} /\ q.retired = p.retired \cup {h}
      /\ q.ev_buf = p.ev_buf /\ DOMAIN q.pe = DOMAIN p.pe
      /\ \A g \in DOMAIN p.pe \ {h} : q.pe[g] = p.pe[g]
      /\ DOMAIN q.pe[h] = {"fd", "events", "sink"} /\ q.pe[h].fd = RetiredFd
      /\ q.pe[h].events = p.pe[h].events
  <2>1. h \in DOMAIN p.pe BY EpollOps
  <2> DEFINE x == [p.pe[h] EXCEPT !.fd = RetiredFd]
             pe == [p.pe EXCEPT ![h] = x]
  <2>2. DOMAIN x = {"fd", "events", "sink"} /\ x.fd = RetiredFd /\ x.events = p.pe[h].events
    BY <1>g, <2>1 DEF EpollGood
  <2>3. q = [p EXCEPT !.pe = pe, !.retired = p.retired \cup {h}] BY <1>1
  <2> HIDE DEF x, q
  <2>4. DOMAIN pe = DOMAIN p.pe /\ pe[h] = x /\ \A g \in DOMAIN p.pe \ {h} : pe[g] = p.pe[g] BY <2>1
  <2> HIDE DEF pe
  <2> QED BY <1>g, <2>2, <2>3, <2>4 DEF EpollGood
<1>3. h \in DOMAIN p.pe BY EpollOps
<1> HIDE DEF q
<1>4. EpollGood(q) BY <1>g, <1>2, <1>3 DEF EpollGood
<1>5. Quieter("epoll", p, q) BY <1>g, <1>2, EpollOps DEF Quieter, EpollGood
<1>6. \A k, fd, r, D : Serves("epoll", q, k, fd, r, D) <=> Serves("epoll", p, k, fd, r, D) /\ k # h
  BY <1>2, <1>3, EpollOps
<1> QED BY <1>4, <1>5, <1>6, EpollOps DEF Removes, q

\* set_pollin, set_pollout, reset_pollin and reset_pollout of epoll_t change the events
\* of the entry and nothing else.
LEMMA EpollTurns ==
  ASSUME NEW p, NEW h, NEW f, NEW s, NEW E, NEW ev \in Evs,
         Good("epoll", p), Serves("epoll", p, h, f, s, E)
  PROVE  /\ Turns("epoll", p, SetPoll("epoll", p, h, ev), h, E \cup {ev})
         /\ Turns("epoll", p, ResetPoll("epoll", p, h, ev), h, E \ {ev})
<1>g. EpollGood(p) BY EpollOps
<1>h. h \in DOMAIN p.pe /\ p.pe[h].fd = f /\ p.pe[h].sink = s /\ p.pe[h].events = E BY EpollOps
<1>1. ASSUME NEW D, D \subseteq Evs, NEW q, q = [p EXCEPT !.pe[h].events = D]
      PROVE  Turns("epoll", p, q, h, D)
  <2>1. /\ DOMAIN q = {"pe", "retired", "ev_buf"} /\ q.retired = p.retired
        /\ q.ev_buf = p.ev_buf /\ DOMAIN q.pe = DOMAIN p.pe
        /\ \A g \in DOMAIN p.pe \ {h} : q.pe[g] = p.pe[g]
        /\ DOMAIN q.pe[h] = {"fd", "events", "sink"} /\ q.pe[h].fd = p.pe[h].fd
        /\ q.pe[h].events = D /\ q.pe[h].sink = p.pe[h].sink
    BY <1>g, <1>1, <1>h DEF EpollGood
  <2>2. \A g \in DOMAIN p.pe : q.pe[g].fd = p.pe[g].fd /\ q.pe[g].sink = p.pe[g].sink BY <2>1
  <2>3. EpollGood(q) BY <1>g, <1>1, <1>h, <2>1, <2>2 DEF EpollGood
  <2>4. Quieter("epoll", p, q) BY <1>g, <2>1, <2>2, EpollOps DEF Quieter, EpollGood
  <2>5. \A k, fd, r, C : Serves("epoll", q, k, fd, r, C) <=>
          \/ k # h /\ Serves("epoll", p, k, fd, r, C)
          \/ k = h /\ C = D /\ \E E0 : Serves("epoll", p, k, fd, r, E0)
    BY <2>1, <2>2, <1>h, EpollOps
  <2> QED BY <2>3, <2>4, <2>5, EpollOps DEF Turns
<1>2. E \subseteq Evs BY <1>g, <1>h DEF EpollGood
<1>3. SetPoll("epoll", p, h, ev) = [p EXCEPT !.pe[h].events = E \cup {ev}]
  BY <1>g, <1>h, EpollOps DEF Epoll!SetPoll, EpollGood
<1>4. ResetPoll("epoll", p, h, ev) = [p EXCEPT !.pe[h].events = E \ {ev}]
  BY <1>g, <1>h, EpollOps DEF Epoll!ResetPoll, EpollGood
<1> QED BY <1>1, <1>2, <1>3, <1>4

\* epoll_t::loop: what epoll_wait reports is for the entry of the descriptor.
LEMMA EpollReports ==
  ASSUME NEW p, NEW reported, Good("epoll", p), reported \subseteq Watched("epoll", p)
  PROVE  Reports("epoll", p, Waited("epoll", p, reported), reported)
<1> DEFINE q == Waited("epoll", p, reported)
           Of(h) == {ev \in {"err", "out", "in"} : <<p.pe[h].fd, ev>> \in reported}
<1>g. EpollGood(p) BY EpollOps
<1>1. q = [p EXCEPT !.ev_buf = [h \in {h \in DOMAIN p.pe : Of(h) # {}} |-> Of(h)]]
  <2>1. q = Epoll!Waited(p, reported) BY EpollOps
  <2> HIDE DEF q
  <2> QED BY <2>1 DEF Epoll!Waited
<1>2. /\ DOMAIN q = {"pe", "retired", "ev_buf"} /\ q.pe = p.pe /\ q.retired = p.retired
      /\ DOMAIN q.ev_buf \subseteq DOMAIN p.pe
      /\ \A h \in DOMAIN q.ev_buf : \A ev \in q.ev_buf[h] : <<p.pe[h].fd, ev>> \in reported
  <2> DEFINE buf == [h \in {h \in DOMAIN p.pe : Of(h) # {}} |-> Of(h)]
  <2>1. /\ DOMAIN buf \subseteq DOMAIN p.pe
        /\ \A h \in DOMAIN buf : \A ev \in buf[h] : <<p.pe[h].fd, ev>> \in reported
    OBVIOUS
  <2>2. q = [p EXCEPT !.ev_buf = buf] BY <1>1
  <2> HIDE DEF buf, q
  <2> QED BY <1>g, <2>1, <2>2 DEF EpollGood
<1> HIDE DEF q
<1>3. EpollGood(q) BY <1>g, <1>2 DEF EpollGood
<1>4. \A h, f, s, E : Serves("epoll", q, h, f, s, E) <=> Serves("epoll", p, h, f, s, E)
  BY <1>2, EpollOps
<1>5. ASSUME NEW e, Heard("epoll", q, e)
      PROVE  \E h, f, E : /\ Serves("epoll", p, h, f, Sink("epoll", q, e), E)
                          /\ \E x \in reported : x[1] = f
  <2>1. /\ e \in DOMAIN q.ev_buf /\ q.pe[e].fd # RetiredFd
        /\ Sink("epoll", q, e) = p.pe[e].sink
    BY <1>2, <1>5, EpollOps
  <2>2. PICK ev : ev \in q.ev_buf[e] BY <1>5, EpollOps
  <2>3. <<p.pe[e].fd, ev>> \in reported BY <1>2, <2>1, <2>2
  <2>4. Serves("epoll", p, e, p.pe[e].fd, p.pe[e].sink, p.pe[e].events) BY <1>2, <2>1, EpollOps
  <2> QED BY <2>1, <2>3, <2>4
<1> QED BY <1>3, <1>4, <1>5, EpollOps DEF Reports, Keeps, q

\* The end of the loop of epoll_t deletes the retired entries and no other.
LEMMA EpollKeeps ==
  ASSUME NEW p, Good("epoll", p)
  PROVE  Keeps("epoll", p, LoopTop("epoll", p)) /\ Keeps("epoll", p, Cleanup("epoll", p))
<1> DEFINE q == Cleanup("epoll", p)
<1>g. EpollGood(p) BY EpollOps
<1>1. q = [p EXCEPT !.pe = Restrict(@, DOMAIN @ \ p.retired), !.retired = {}, !.ev_buf = << >>]
  BY EpollOps DEF Epoll!Cleanup, Epoll!Restrict, Restrict
<1>2. /\ DOMAIN q = {"pe", "retired", "ev_buf"} /\ q.retired = {} /\ q.ev_buf = << >>
      /\ DOMAIN q.pe = DOMAIN p.pe \ p.retired /\ \A h \in DOMAIN q.pe : q.pe[h] = p.pe[h]
  <2> DEFINE pe == [h \in DOMAIN p.pe \ p.retired |-> p.pe[h]]
  <2>1. DOMAIN pe = DOMAIN p.pe \ p.retired /\ \A h \in DOMAIN pe : pe[h] = p.pe[h] OBVIOUS
  <2>2. q = [p EXCEPT !.pe = pe, !.retired = {}, !.ev_buf = << >>] BY <1>1 DEF Restrict
  <2> HIDE DEF pe, q
  <2> QED BY <1>g, <2>1, <2>2 DEF EpollGood
<1> HIDE DEF q
<1>3. EpollGood(q)
  <2>1. IsFiniteSet(DOMAIN q.pe) BY <1>g, <1>2, FS_Subset DEF EpollGood
  <2>2. DOMAIN q.ev_buf = {} BY <1>2
  <2> QED BY <1>g, <1>2, <2>1, <2>2 DEF EpollGood
<1>4. \A h, f, s, E : Serves("epoll", q, h, f, s, E) <=> Serves("epoll", p, h, f, s, E)
  <2> TAKE h, f, s, E
  <2>1. h \in p.retired <=> h \in DOMAIN p.pe /\ p.pe[h].fd = RetiredFd BY <1>g DEF EpollGood
  <2> QED BY <1>2, <2>1, EpollOps
<1> QED BY <1>3, <1>4, EpollOps DEF Keeps, q

\* What epoll_t watches is what it serves, and what it hears it serves.
LEMMA EpollSound ==
  ASSUME NEW p, Good("epoll", p)
  PROVE  Sound("epoll", p)
<1>g. EpollGood(p) BY EpollOps
<1>1. \A h, f, s, E : Serves("epoll", p, h, f, s, E) => f \in Fds /\ E \subseteq Evs
  BY <1>g, EpollOps DEF EpollGood
<1>2. \A h, f, s, E, g, r, D :
          Serves("epoll", p, h, f, s, E) /\ Serves("epoll", p, g, f, r, D) => h = g
  BY <1>g, EpollOps DEF EpollGood
<1>3. \A h, f, s, E, g, r, D :
          Serves("epoll", p, h, f, s, E) /\ Serves("epoll", p, h, g, r, D) => f = g /\ s = r /\ E = D
  BY EpollOps
<1>4. \A e : Heard("epoll", p, e) => \E h, f, E : Serves("epoll", p, h, f, Sink("epoll", p, e), E)
  <2> SUFFICES ASSUME NEW e, Heard("epoll", p, e)
               PROVE  Serves("epoll", p, e, p.pe[e].fd, Sink("epoll", p, e), p.pe[e].events)
    OBVIOUS
  <2> QED BY <1>g, EpollOps DEF EpollGood
<1>w. Watched("epoll", p) =
        UNION {{p.pe[h].fd} \X (p.pe[h].events \cup {"err"}) : h \in DOMAIN p.pe \ p.retired}
  BY EpollOps DEF Epoll!Watched
<1>5. ASSUME NEW x \in Watched("epoll", p)
      PROVE  /\ x = <<x[1], x[2]>> /\ x[2] \in AllEvs
             /\ \E h, s, E : Serves("epoll", p, h, x[1], s, E) /\ (x[2] \in E \/ x[2] = "err")
  <2>1. PICK h \in DOMAIN p.pe \ p.retired : x \in {p.pe[h].fd} \X (p.pe[h].events \cup {"err"})
    BY <1>w, <1>5
  <2>2. x = <<x[1], x[2]>> /\ x[1] = p.pe[h].fd /\ x[2] \in p.pe[h].events \cup {"err"} BY <2>1
  <2>3. Serves("epoll", p, h, x[1], p.pe[h].sink, p.pe[h].events)
    BY <1>g, <2>1, <2>2, EpollOps DEF EpollGood
  <2> QED BY <1>g, <2>2, <2>3 DEF EpollGood, Evs, AllEvs
<1>6. ASSUME NEW h, NEW f, NEW s, NEW E, NEW ev, Serves("epoll", p, h, f, s, E), ev \in E
      PROVE  <<f, ev>> \in Watched("epoll", p)
  <2>1. h \in DOMAIN p.pe \ p.retired /\ f = p.pe[h].fd /\ E = p.pe[h].events
    BY <1>g, <1>6, EpollOps DEF EpollGood
  <2>2. <<f, ev>> \in {p.pe[h].fd} \X (p.pe[h].events \cup {"err"}) BY <1>6, <2>1
  <2> QED BY <1>w, <2>1, <2>2
<1>7. \A past : Todo("epoll", p, past) \subseteq Positions("epoll", p) BY EpollOps
<1>8. \A f, ev : <<f, ev>> \in Watched("epoll", p) =>
         ev \in AllEvs /\ \E h, s, E : Serves("epoll", p, h, f, s, E) /\ (ev \in E \/ ev = "err")
  BY <1>5
<1> QED BY <1>1, <1>2, <1>3, <1>4, <1>5, <1>6, <1>7, <1>8 DEF Sound

\* A new epoll_t serves nothing.
LEMMA EpollStarts ==
  Good("epoll", New("epoll")) /\ \A h, f, s, E : ~Serves("epoll", New("epoll"), h, f, s, E)
<1> DEFINE p == New("epoll")
<1>1. p = [pe |-> << >>, retired |-> {}, ev_buf |-> << >>] BY EpollOps DEF Epoll!New
<1>2. DOMAIN p.pe = {} /\ DOMAIN p.ev_buf = {} /\ p.retired = {} BY <1>1
<1>3. DOMAIN p = {"pe", "retired", "ev_buf"} BY <1>1
<1>4. IsFiniteSet(DOMAIN p.pe) BY <1>2, FS_EmptySet
<1> HIDE DEF p
<1>5. EpollGood(p) BY <1>2, <1>3, <1>4 DEF EpollGood
<1> QED BY <1>2, <1>5, EpollOps DEF p
-----------------------------------------------------------------------------
(* kqueue_t.                                                               *)

\* The operations of kqueue_t, by name.
LEMMA KqueueOps ==
  /\ New("kqueue") = Kqueue!New
  /\ \A p, fd : Fresh("kqueue", p, fd) = Kqueue!Fresh(p, fd)
  /\ \A p, fd, sink : AddFd("kqueue", p, fd, sink) = Kqueue!AddFd(p, fd, sink)
  /\ \A p, h : RmFd("kqueue", p, h) = Kqueue!RmFd(p, h)
  /\ \A p, h, ev : SetPoll("kqueue", p, h, ev) = Kqueue!SetPoll(p, h, ev)
  /\ \A p, h, ev : ResetPoll("kqueue", p, h, ev) = Kqueue!ResetPoll(p, h, ev)
  /\ \A p : Watched("kqueue", p) = Kqueue!Watched(p)
  /\ \A p : LoopTop("kqueue", p) = p
  /\ \A p, reported : Waited("kqueue", p, reported) = Kqueue!Waited(p, reported)
  /\ \A p, past : Todo("kqueue", p, past) = p.ev_buf \ past
  /\ \A p, e : Skip("kqueue", p, e) <=> p.pe[e.h].fd = RetiredFd
  /\ \A p, e, ev : Has("kqueue", p, e, ev) <=> IF ev = "err" THEN e.eof ELSE e.filter = ev
  /\ \A p, e : Sink("kqueue", p, e) = p.pe[e.h].sink
  /\ \A p : Cleanup("kqueue", p) = Kqueue!Cleanup(p)
  /\ \A p : Good("kqueue", p) <=> KqueueGood(p)
  /\ \A p, h, fd, sink, events : Serves("kqueue", p, h, fd, sink, events) <=>
        /\ h \in DOMAIN p.pe /\ p.pe[h].fd = fd /\ fd # RetiredFd
        /\ p.pe[h].sink = sink /\ p.pe[h].flags = events
  /\ \A p : Positions("kqueue", p) = p.ev_buf
  /\ \A p, e : Heard("kqueue", p, e) <=>
        /\ e \in p.ev_buf /\ p.pe[e.h].fd # RetiredFd
        /\ \E ev \in AllEvs : Has("kqueue", p, e, ev)
BY DEF New, Fresh, AddFd, RmFd, SetPoll, ResetPoll, Watched, LoopTop, Waited, Todo, Skip, Has, Sink,
       Cleanup, Good, Serves, Positions, Heard, Kqueue!LoopTop, Kqueue!Todo, Kqueue!Skip, Kqueue!Has,
       Kqueue!Sink, Kqueue!RetiredFd, RetiredFd

\* kqueue_t::add_fd puts an entry on the heap that no event of the batch is about.
LEMMA KqueueAdds ==
  ASSUME NEW p, NEW fd \in Fds, NEW sink, Good("kqueue", p), Free("kqueue", p, fd)
  PROVE  Adds("kqueue", p, AddFd("kqueue", p, fd, sink), Fresh("kqueue", p, fd), fd, sink)
<1> DEFINE new == Fresh("kqueue", p, fd)
           q == AddFd("kqueue", p, fd, sink)
           x == [fd |-> fd, flags |-> {}, sink |-> sink]
<1>g. KqueueGood(p) BY KqueueOps
<1>f. fd \in Nat /\ fd # RetiredFd BY PollerAssumption DEF RetiredFd
<1>1. new \notin DOMAIN p.pe
  <2>1. IsFiniteSet(DOMAIN p.pe) BY <1>g DEF KqueueGood
  <2>2. new = CHOOSE h \in 1..(Cardinality(DOMAIN p.pe) + 1) : h \notin DOMAIN p.pe
    <3>1. new = Kqueue!Fresh(p, fd) BY KqueueOps
    <3> HIDE DEF new
    <3> QED BY <3>1, Cardinalities DEF Kqueue!Fresh
  <2> HIDE DEF new
  <2> QED BY <2>1, <2>2, FreshHandle
<1>e. Kqueue!Fresh(p, fd) = new /\ q = Kqueue!AddFd(p, fd, sink) BY KqueueOps
<1> HIDE DEF new, q
<1>2. q = [p EXCEPT !.pe = [h \in DOMAIN p.pe \cup {new} |-> IF h = new THEN x ELSE p.pe[h]]]
  BY <1>e DEF Kqueue!AddFd
<1>3. /\ DOMAIN q = {"pe", "retired", "ev_buf"} /\ q.retired = p.retired /\ q.ev_buf = p.ev_buf
      /\ DOMAIN q.pe = DOMAIN p.pe \cup {new} /\ q.pe[new] = x
      /\ \A h \in DOMAIN p.pe : q.pe[h] = p.pe[h]
  <2> DEFINE pe == [h \in DOMAIN p.pe \cup {new} |-> IF h = new THEN x ELSE p.pe[h]]
  <2>1. /\ DOMAIN pe = DOMAIN p.pe \cup {new} /\ pe[new] = x
        /\ \A h \in DOMAIN p.pe : pe[h] = p.pe[h]
    BY <1>1
  <2>2. q = [p EXCEPT !.pe = pe] BY <1>2
  <2> HIDE DEF pe, x
  <2> QED BY <1>g, <2>1, <2>2 DEF KqueueGood
<1>4. \A h \in DOMAIN p.pe : p.pe[h].fd # fd
  <2> SUFFICES ASSUME NEW h \in DOMAIN p.pe, p.pe[h].fd = fd PROVE FALSE OBVIOUS
  <2>1. Serves("kqueue", p, h, fd, p.pe[h].sink, p.pe[h].flags) BY <1>f, KqueueOps
  <2> QED BY <2>1 DEF Free
<1>5. KqueueGood(q)
  <2>1. IsFiniteSet(DOMAIN q.pe) BY <1>g, <1>3, FS_AddElement DEF KqueueGood
  <2> QED BY <1>g, <1>f, <1>1, <1>3, <1>4, <2>1 DEF KqueueGood
<1>6. Quieter("kqueue", p, q) BY <1>g, <1>3, KqueueOps DEF Quieter, KqueueGood
<1>7. \A f, s, E : ~Serves("kqueue", p, new, f, s, E) BY <1>1, KqueueOps
<1>8. \A h, f, s, E : Serves("kqueue", q, h, f, s, E) <=>
         Serves("kqueue", p, h, f, s, E) \/ (h = new /\ f = fd /\ s = sink /\ E = {})
  <2> TAKE h, f, s, E
  <2>1. Serves("kqueue", q, h, f, s, E) <=>
          h \in DOMAIN q.pe /\ q.pe[h].fd = f /\ f # RetiredFd /\ q.pe[h].sink = s /\ q.pe[h].flags = E
    BY KqueueOps
  <2>2. Serves("kqueue", p, h, f, s, E) <=>
          h \in DOMAIN p.pe /\ p.pe[h].fd = f /\ f # RetiredFd /\ p.pe[h].sink = s /\ p.pe[h].flags = E
    BY KqueueOps
  <2> QED BY <1>f, <1>1, <1>3, <2>1, <2>2
<1> QED BY <1>5, <1>6, <1>7, <1>8, KqueueOps DEF Adds, new, q

\* kqueue_t::rm_fd marks the entry, which the loop then skips.
LEMMA KqueueRemoves ==
  ASSUME NEW p, NEW h, NEW f, NEW s, NEW E, Good("kqueue", p), Serves("kqueue", p, h, f, s, E)
  PROVE  Removes("kqueue", p, RmFd("kqueue", p, h), h)
<1> DEFINE q == RmFd("kqueue", p, h)
<1>g. KqueueGood(p) BY KqueueOps
<1>1. q = [p EXCEPT !.pe[h].fd = RetiredFd, !.pe[h].flags = {}, !.retired = @ \cup {h}]
  BY KqueueOps DEF Kqueue!RmFd, Kqueue!RetiredFd, RetiredFd
<1>2. /\ DOMAIN q = {"pe", "retired", "ev_buf"} /\ q.retired = p.retired \cup {h}
      /\ q.ev_buf = p.ev_buf /\ DOMAIN q.pe = DOMAIN p.pe
      /\ \A g \in DOMAIN p.pe \ {h} : q.pe[g] = p.pe[g]
      /\ DOMAIN q.pe[h] = {"fd", "flags", "sink"} /\ q.pe[h].fd = RetiredFd
      /\ q.pe[h].flags = {}
  <2>1. h \in DOMAIN p.pe BY KqueueOps
  <2> DEFINE r == [p EXCEPT !.pe[h].fd = RetiredFd]
             t == [r EXCEPT !.pe[h].flags = {}]
  <2>2. /\ DOMAIN r = DOMAIN p /\ r.retired = p.retired /\ r.ev_buf = p.ev_buf
        /\ DOMAIN r.pe = DOMAIN p.pe /\ \A g \in DOMAIN p.pe \ {h} : r.pe[g] = p.pe[g]
        /\ DOMAIN r.pe[h] = {"fd", "flags", "sink"} /\ r.pe[h].fd = RetiredFd
    BY <1>g, <2>1 DEF KqueueGood
  <2>3. q = [t EXCEPT !.retired = @ \cup {h}] BY <1>1
  <2> HIDE DEF r, q
  <2>4. /\ DOMAIN t = DOMAIN p /\ t.retired = p.retired /\ t.ev_buf = p.ev_buf
        /\ DOMAIN t.pe = DOMAIN p.pe /\ \A g \in DOMAIN p.pe \ {h} : t.pe[g] = p.pe[g]
        /\ DOMAIN t.pe[h] = {"fd", "flags", "sink"} /\ t.pe[h].fd = RetiredFd
        /\ t.pe[h].flags = {}
    BY <1>g, <2>1, <2>2 DEF KqueueGood
  <2> HIDE DEF t
  <2> QED BY <1>g, <2>3, <2>4 DEF KqueueGood
<1>3. h \in DOMAIN p.pe BY KqueueOps
<1> HIDE DEF q
<1>4. KqueueGood(q) BY <1>g, <1>2, <1>3 DEF KqueueGood
<1>5. Quieter("kqueue", p, q) BY <1>g, <1>2, KqueueOps DEF Quieter, KqueueGood
<1>6. \A k, fd, r, D : Serves("kqueue", q, k, fd, r, D) <=> Serves("kqueue", p, k, fd, r, D) /\ k # h
  BY <1>2, <1>3, KqueueOps
<1> QED BY <1>4, <1>5, <1>6, KqueueOps DEF Removes, q

\* set_pollin, set_pollout, reset_pollin and reset_pollout of kqueue_t change the events
\* of the entry and nothing else.
LEMMA KqueueTurns ==
  ASSUME NEW p, NEW h, NEW f, NEW s, NEW E, NEW ev \in Evs,
         Good("kqueue", p), Serves("kqueue", p, h, f, s, E)
  PROVE  /\ Turns("kqueue", p, SetPoll("kqueue", p, h, ev), h, E \cup {ev})
         /\ Turns("kqueue", p, ResetPoll("kqueue", p, h, ev), h, E \ {ev})
<1>g. KqueueGood(p) BY KqueueOps
<1>h. /\ h \in DOMAIN p.pe /\ p.pe[h].fd = f /\ f # RetiredFd
      /\ p.pe[h].sink = s /\ p.pe[h].flags = E
  BY KqueueOps
<1>1. ASSUME NEW D, D \subseteq Evs, NEW q, q = [p EXCEPT !.pe[h].flags = D]
      PROVE  Turns("kqueue", p, q, h, D)
  <2>1. /\ DOMAIN q = {"pe", "retired", "ev_buf"} /\ q.retired = p.retired
        /\ q.ev_buf = p.ev_buf /\ DOMAIN q.pe = DOMAIN p.pe
        /\ \A g \in DOMAIN p.pe \ {h} : q.pe[g] = p.pe[g]
        /\ DOMAIN q.pe[h] = {"fd", "flags", "sink"} /\ q.pe[h].fd = p.pe[h].fd
        /\ q.pe[h].flags = D /\ q.pe[h].sink = p.pe[h].sink
    BY <1>g, <1>1, <1>h DEF KqueueGood
  <2>2. \A g \in DOMAIN p.pe : q.pe[g].fd = p.pe[g].fd /\ q.pe[g].sink = p.pe[g].sink BY <2>1
  <2>3. KqueueGood(q) BY <1>g, <1>1, <1>h, <2>1, <2>2 DEF KqueueGood
  <2>4. Quieter("kqueue", p, q) BY <1>g, <2>1, <2>2, KqueueOps DEF Quieter, KqueueGood
  <2>5. \A k, fd, r, C : Serves("kqueue", q, k, fd, r, C) <=>
          \/ k # h /\ Serves("kqueue", p, k, fd, r, C)
          \/ k = h /\ C = D /\ \E E0 : Serves("kqueue", p, k, fd, r, E0)
    BY <2>1, <2>2, <1>h, KqueueOps
  <2> QED BY <2>3, <2>4, <2>5, KqueueOps DEF Turns
<1>2. E \subseteq Evs BY <1>g, <1>h DEF KqueueGood
<1>3. SetPoll("kqueue", p, h, ev) = [p EXCEPT !.pe[h].flags = E \cup {ev}]
  BY <1>g, <1>h, KqueueOps DEF Kqueue!SetPoll, KqueueGood
<1>4. ResetPoll("kqueue", p, h, ev) = [p EXCEPT !.pe[h].flags = E \ {ev}]
  BY <1>g, <1>h, KqueueOps DEF Kqueue!ResetPoll, KqueueGood
<1> QED BY <1>1, <1>2, <1>3, <1>4

\* kqueue_t::loop: what kevent reports is for the entry of the descriptor.
LEMMA KqueueReports ==
  ASSUME NEW p, NEW reported, Good("kqueue", p), reported \subseteq Watched("kqueue", p)
  PROVE  Reports("kqueue", p, Waited("kqueue", p, reported), reported)
<1> DEFINE q == Waited("kqueue", p, reported)
           Filters == UNION {{h} \X p.pe[h].flags : h \in DOMAIN p.pe}
           About(x) == reported \cap {<<p.pe[x[1]].fd, x[2]>>, <<p.pe[x[1]].fd, "err">>}
           Event(x) == [h |-> x[1], filter |-> x[2], eof |-> <<p.pe[x[1]].fd, "err">> \in reported]
           Buf == {Event(x) : x \in {x \in Filters : About(x) # {}}}
<1>g. KqueueGood(p) BY KqueueOps
<1>1. q = [p EXCEPT !.ev_buf = Buf]
  <2>1. q = Kqueue!Waited(p, reported) BY KqueueOps
  <2> HIDE DEF q
  <2> QED BY <2>1 DEF Kqueue!Waited
<1>2. \A e \in Buf : e.h \in DOMAIN p.pe /\ \E x \in reported : x[1] = p.pe[e.h].fd
  <2> SUFFICES ASSUME NEW y \in Filters, About(y) # {}
               PROVE  /\ Event(y).h \in DOMAIN p.pe
                      /\ \E x \in reported : x[1] = p.pe[Event(y).h].fd
    OBVIOUS
  <2>1. PICK h \in DOMAIN p.pe : y \in {h} \X p.pe[h].flags OBVIOUS
  <2>2. y[1] = h BY <2>1
  <2>3. PICK x \in reported : x \in {<<p.pe[y[1]].fd, y[2]>>, <<p.pe[y[1]].fd, "err">>} OBVIOUS
  <2>4. x[1] = p.pe[y[1]].fd BY <2>3
  <2>5. Event(y).h = y[1] OBVIOUS
  <2> QED BY <2>2, <2>4, <2>5
<1> HIDE DEF Buf
<1>3. /\ DOMAIN q = {"pe", "retired", "ev_buf"} /\ q.pe = p.pe /\ q.retired = p.retired
      /\ q.ev_buf = Buf
  <2> HIDE DEF q
  <2> QED BY <1>g, <1>1 DEF KqueueGood
<1> HIDE DEF q
<1>4. KqueueGood(q) BY <1>g, <1>2, <1>3 DEF KqueueGood
<1>5. \A h, f, s, E : Serves("kqueue", q, h, f, s, E) <=> Serves("kqueue", p, h, f, s, E)
  BY <1>3, KqueueOps
<1>6. ASSUME NEW e, Heard("kqueue", q, e)
      PROVE  \E h, f, E : /\ Serves("kqueue", p, h, f, Sink("kqueue", q, e), E)
                          /\ \E x \in reported : x[1] = f
  <2>1. /\ e \in Buf /\ p.pe[e.h].fd # RetiredFd
        /\ Sink("kqueue", q, e) = p.pe[e.h].sink
    BY <1>3, <1>6, KqueueOps
  <2>2. Serves("kqueue", p, e.h, p.pe[e.h].fd, p.pe[e.h].sink, p.pe[e.h].flags)
    BY <1>2, <2>1, KqueueOps
  <2> QED BY <1>2, <2>1, <2>2
<1> QED BY <1>4, <1>5, <1>6, KqueueOps DEF Reports, Keeps, q

\* The end of the loop of kqueue_t deletes the retired entries and no other.
LEMMA KqueueKeeps ==
  ASSUME NEW p, Good("kqueue", p)
  PROVE  Keeps("kqueue", p, LoopTop("kqueue", p)) /\ Keeps("kqueue", p, Cleanup("kqueue", p))
<1> DEFINE q == Cleanup("kqueue", p)
<1>g. KqueueGood(p) BY KqueueOps
<1>1. q = [p EXCEPT !.pe = Restrict(@, DOMAIN @ \ p.retired), !.retired = {}, !.ev_buf = {}]
  BY KqueueOps DEF Kqueue!Cleanup, Kqueue!Restrict, Restrict
<1>2. /\ DOMAIN q = {"pe", "retired", "ev_buf"} /\ q.retired = {} /\ q.ev_buf = {}
      /\ DOMAIN q.pe = DOMAIN p.pe \ p.retired /\ \A h \in DOMAIN q.pe : q.pe[h] = p.pe[h]
  <2> DEFINE pe == [h \in DOMAIN p.pe \ p.retired |-> p.pe[h]]
  <2>1. DOMAIN pe = DOMAIN p.pe \ p.retired /\ \A h \in DOMAIN pe : pe[h] = p.pe[h] OBVIOUS
  <2>2. q = [p EXCEPT !.pe = pe, !.retired = {}, !.ev_buf = {}] BY <1>1 DEF Restrict
  <2> HIDE DEF pe, q
  <2> QED BY <1>g, <2>1, <2>2 DEF KqueueGood
<1> HIDE DEF q
<1>3. KqueueGood(q)
  <2>1. IsFiniteSet(DOMAIN q.pe) BY <1>g, <1>2, FS_Subset DEF KqueueGood
  <2> QED BY <1>g, <1>2, <2>1 DEF KqueueGood
<1>4. \A h, f, s, E : Serves("kqueue", q, h, f, s, E) <=> Serves("kqueue", p, h, f, s, E)
  <2> TAKE h, f, s, E
  <2>1. h \in p.retired <=> h \in DOMAIN p.pe /\ p.pe[h].fd = RetiredFd BY <1>g DEF KqueueGood
  <2> QED BY <1>2, <2>1, KqueueOps
<1> QED BY <1>3, <1>4, KqueueOps DEF Keeps, q

\* What kqueue_t watches is what it serves, and what it hears it serves.
LEMMA KqueueSound ==
  ASSUME NEW p, Good("kqueue", p)
  PROVE  Sound("kqueue", p)
<1>g. KqueueGood(p) BY KqueueOps
<1>1. \A h, f, s, E : Serves("kqueue", p, h, f, s, E) => f \in Fds /\ E \subseteq Evs
  BY <1>g, KqueueOps DEF KqueueGood
<1>2. \A h, f, s, E, g, r, D :
          Serves("kqueue", p, h, f, s, E) /\ Serves("kqueue", p, g, f, r, D) => h = g
  BY <1>g, KqueueOps DEF KqueueGood
<1>3. \A h, f, s, E, g, r, D :
          Serves("kqueue", p, h, f, s, E) /\ Serves("kqueue", p, h, g, r, D) => f = g /\ s = r /\ E = D
  BY KqueueOps
<1>4. \A e : Heard("kqueue", p, e) => \E h, f, E : Serves("kqueue", p, h, f, Sink("kqueue", p, e), E)
  <2> SUFFICES ASSUME NEW e, Heard("kqueue", p, e)
               PROVE  Serves("kqueue", p, e.h, p.pe[e.h].fd, Sink("kqueue", p, e), p.pe[e.h].flags)
    OBVIOUS
  <2> QED BY <1>g, KqueueOps DEF KqueueGood
<1>w. Watched("kqueue", p) =
        UNION {{p.pe[h].fd} \X (IF p.pe[h].flags = {} THEN {} ELSE p.pe[h].flags \cup {"err"}) :
                 h \in DOMAIN p.pe \ p.retired}
  BY KqueueOps DEF Kqueue!Watched
<1>5. ASSUME NEW x \in Watched("kqueue", p)
      PROVE  /\ x = <<x[1], x[2]>> /\ x[2] \in AllEvs
             /\ \E h, s, E : Serves("kqueue", p, h, x[1], s, E) /\ (x[2] \in E \/ x[2] = "err")
  <2>1. PICK h \in DOMAIN p.pe \ p.retired : x \in {p.pe[h].fd} \X (IF p.pe[h].flags = {} THEN {} ELSE p.pe[h].flags \cup {"err"})
    BY <1>w, <1>5
  <2>2. x = <<x[1], x[2]>> /\ x[1] = p.pe[h].fd /\ x[2] \in p.pe[h].flags \cup {"err"} BY <2>1
  <2>3. Serves("kqueue", p, h, x[1], p.pe[h].sink, p.pe[h].flags)
    BY <1>g, <2>1, <2>2, KqueueOps DEF KqueueGood
  <2> QED BY <1>g, <2>2, <2>3 DEF KqueueGood, Evs, AllEvs
<1>6. ASSUME NEW h, NEW f, NEW s, NEW E, NEW ev, Serves("kqueue", p, h, f, s, E), ev \in E
      PROVE  <<f, ev>> \in Watched("kqueue", p)
  <2>1. h \in DOMAIN p.pe \ p.retired /\ f = p.pe[h].fd /\ E = p.pe[h].flags
    BY <1>g, <1>6, KqueueOps DEF KqueueGood
  <2>2. <<f, ev>> \in {p.pe[h].fd} \X (IF p.pe[h].flags = {} THEN {} ELSE p.pe[h].flags \cup {"err"}) BY <1>6, <2>1
  <2> QED BY <1>w, <2>1, <2>2
<1>7. \A past : Todo("kqueue", p, past) \subseteq Positions("kqueue", p) BY KqueueOps
<1>8. \A f, ev : <<f, ev>> \in Watched("kqueue", p) =>
         ev \in AllEvs /\ \E h, s, E : Serves("kqueue", p, h, f, s, E) /\ (ev \in E \/ ev = "err")
  BY <1>5
<1> QED BY <1>1, <1>2, <1>3, <1>4, <1>5, <1>6, <1>7, <1>8 DEF Sound

\* A new kqueue_t serves nothing.
LEMMA KqueueStarts ==
  Good("kqueue", New("kqueue")) /\ \A h, f, s, E : ~Serves("kqueue", New("kqueue"), h, f, s, E)
<1> DEFINE p == New("kqueue")
<1>1. p = [pe |-> << >>, retired |-> {}, ev_buf |-> {}] BY KqueueOps DEF Kqueue!New
<1>2. DOMAIN p.pe = {} /\ p.ev_buf = {} /\ p.retired = {} BY <1>1
<1>3. DOMAIN p = {"pe", "retired", "ev_buf"} BY <1>1
<1>4. IsFiniteSet(DOMAIN p.pe) BY <1>2, FS_EmptySet
<1> HIDE DEF p
<1>5. KqueueGood(p) BY <1>2, <1>3, <1>4 DEF KqueueGood
<1> QED BY <1>2, <1>5, KqueueOps DEF p
-----------------------------------------------------------------------------
(* devpoll_t.                                                              *)

\* The operations of devpoll_t, by name.
LEMMA DevpollOps ==
  /\ New("devpoll") = Devpoll!New
  /\ \A p, fd : Fresh("devpoll", p, fd) = fd
  /\ \A p, fd, sink : AddFd("devpoll", p, fd, sink) = Devpoll!AddFd(p, fd, sink)
  /\ \A p, h : RmFd("devpoll", p, h) = Devpoll!RmFd(p, h)
  /\ \A p, h, ev : SetPoll("devpoll", p, h, ev) = Devpoll!SetPoll(p, h, ev)
  /\ \A p, h, ev : ResetPoll("devpoll", p, h, ev) = Devpoll!ResetPoll(p, h, ev)
  /\ \A p : Watched("devpoll", p) = Devpoll!Watched(p)
  /\ \A p : LoopTop("devpoll", p) = Devpoll!LoopTop(p)
  /\ \A p, reported : Waited("devpoll", p, reported) = Devpoll!Waited(p, reported)
  /\ \A p, past : Todo("devpoll", p, past) = {x[1] : x \in p.ev_buf} \ past
  /\ \A p, fd : Skip("devpoll", p, fd) <=> ~(p.fd_table[fd].valid /\ p.fd_table[fd].accepted)
  /\ \A p, fd, ev : Has("devpoll", p, fd, ev) <=> <<fd, ev>> \in p.ev_buf
  /\ \A p, fd : Sink("devpoll", p, fd) = p.fd_table[fd].sink
  /\ \A p : Cleanup("devpoll", p) = Devpoll!Cleanup(p)
  /\ \A p : Good("devpoll", p) <=> DevpollGood(p)
  /\ \A p, h, fd, sink, events : Serves("devpoll", p, h, fd, sink, events) <=>
        /\ h = fd /\ fd \in Fds /\ p.fd_table[fd].valid
        /\ p.fd_table[fd].sink = sink /\ p.fd_table[fd].events = events
  /\ \A p : Positions("devpoll", p) = {x[1] : x \in p.ev_buf}
  /\ \A p, fd : Heard("devpoll", p, fd) <=>
        /\ fd \in Positions("devpoll", p) /\ p.fd_table[fd].valid /\ p.fd_table[fd].accepted
        /\ \E ev \in AllEvs : <<fd, ev>> \in p.ev_buf
BY SMTT(30) DEF New, Fresh, AddFd, RmFd, SetPoll, ResetPoll, Watched, LoopTop, Waited, Todo, Skip, Has, Sink,
       Cleanup, Good, Serves, Positions, Heard, Devpoll!Fresh, Devpoll!Todo, Devpoll!Skip,
       Devpoll!Has, Devpoll!Sink

\* The table after the row of one descriptor was changed.
LEMMA DevpollRow ==
  ASSUME NEW p, DevpollGood(p), NEW fd \in Fds, NEW x, NEW q,
         DOMAIN x = {"events", "sink", "valid", "accepted"}, x.events \subseteq Evs,
         x.valid \in BOOLEAN, x.accepted \in BOOLEAN, x.accepted => p.fd_table[fd].accepted,
         x.valid /\ x.accepted => p.fd_table[fd].valid /\ x.sink = p.fd_table[fd].sink,
         DOMAIN q = DevpollFields, q.ev_buf = p.ev_buf,
         q.fd_table = [p.fd_table EXCEPT ![fd] = x]
  PROVE  /\ Good("devpoll", q) /\ Quieter("devpoll", p, q)
         /\ \A h, f, s, E : Serves("devpoll", q, h, f, s, E) <=>
               \/ f # fd /\ Serves("devpoll", p, h, f, s, E)
               \/ h = fd /\ f = fd /\ x.valid /\ s = x.sink /\ E = x.events
<1>1. /\ DOMAIN q.fd_table = Fds /\ q.fd_table[fd] = x
      /\ \A f \in Fds \ {fd} : q.fd_table[f] = p.fd_table[f]
  BY DEF DevpollGood
<1>2. DevpollGood(q) BY <1>1 DEF DevpollGood
<1>3. Positions("devpoll", q) = Positions("devpoll", p)
  <2>1. Positions("devpoll", q) = {y[1] : y \in q.ev_buf} BY DevpollOps
  <2>2. Positions("devpoll", p) = {y[1] : y \in p.ev_buf} BY DevpollOps
  <2> QED BY <2>1, <2>2
<1>4. \A f \in Positions("devpoll", p) : f \in Fds BY DevpollOps DEF DevpollGood
<1>5. ASSUME NEW f, Heard("devpoll", q, f)
      PROVE  Heard("devpoll", p, f) /\ Sink("devpoll", q, f) = Sink("devpoll", p, f)
  <2>1. /\ f \in Positions("devpoll", p) /\ q.fd_table[f].valid /\ q.fd_table[f].accepted
        /\ \E ev \in AllEvs : <<f, ev>> \in p.ev_buf
    BY <1>3, <1>5, DevpollOps
  <2>2. f \in Fds BY <1>4, <2>1
  <2>3. p.fd_table[f].valid /\ p.fd_table[f].accepted /\ q.fd_table[f].sink = p.fd_table[f].sink
    BY <1>1, <2>1, <2>2
  <2>4. Heard("devpoll", p, f) <=>
          /\ f \in Positions("devpoll", p) /\ p.fd_table[f].valid /\ p.fd_table[f].accepted
          /\ \E ev \in AllEvs : <<f, ev>> \in p.ev_buf
    BY DevpollOps
  <2>5. Sink("devpoll", q, f) = q.fd_table[f].sink /\ Sink("devpoll", p, f) = p.fd_table[f].sink
    BY DEF Sink, Devpoll!Sink
  <2> QED BY <2>1, <2>3, <2>4, <2>5
<1>6. Quieter("devpoll", p, q) BY <1>3, <1>5 DEF Quieter
<1>7. \A h, f, s, E : Serves("devpoll", q, h, f, s, E) <=>
               \/ f # fd /\ Serves("devpoll", p, h, f, s, E)
               \/ h = fd /\ f = fd /\ x.valid /\ s = x.sink /\ E = x.events
  BY <1>1, DevpollOps
<1> QED BY <1>2, <1>6, <1>7, DevpollOps

\* devpoll_t::add_fd: the row is not accepted before the next pass, whatever the batch
\* says of the earlier owner of the number.
LEMMA DevpollAdds ==
  ASSUME NEW p, NEW fd \in Fds, NEW sink, Good("devpoll", p), Free("devpoll", p, fd)
  PROVE  Adds("devpoll", p, AddFd("devpoll", p, fd, sink), Fresh("devpoll", p, fd), fd, sink)
<1> DEFINE q == AddFd("devpoll", p, fd, sink)
           x == [events |-> {}, sink |-> sink, valid |-> TRUE, accepted |-> FALSE]
<1>g. DevpollGood(p) BY DevpollOps
<1>1. q = [p EXCEPT !.fd_table[fd] = x, !.pending = @ \cup {fd},
                    !.size = IF @ <= fd THEN fd + 1 ELSE @, !.dangling = @ \/ p.size <= fd]
  <2>1. q = Devpoll!AddFd(p, fd, sink) BY DevpollOps
  <2> HIDE DEF q
  <2> QED BY <2>1 DEF Devpoll!AddFd
<1>2. /\ DOMAIN q = DevpollFields /\ q.ev_buf = p.ev_buf
      /\ q.fd_table = [p.fd_table EXCEPT ![fd] = x]
  <2> HIDE DEF x, q
  <2> QED BY <1>g, <1>1 DEF DevpollGood, DevpollFields
<1>3. /\ DOMAIN x = {"events", "sink", "valid", "accepted"} /\ x.events = {} /\ x.valid = TRUE
      /\ x.accepted = FALSE /\ x.sink = sink
  OBVIOUS
<1> HIDE DEF x, q
<1>4. /\ Good("devpoll", q) /\ Quieter("devpoll", p, q)
      /\ \A h, f, s, E : Serves("devpoll", q, h, f, s, E) <=>
               \/ f # fd /\ Serves("devpoll", p, h, f, s, E)
               \/ h = fd /\ f = fd /\ x.valid /\ s = x.sink /\ E = x.events
  <2>1. x.events \subseteq Evs /\ x.valid \in BOOLEAN /\ x.accepted \in BOOLEAN
    BY <1>3
  <2>2. /\ x.accepted => p.fd_table[fd].accepted
        /\ x.valid /\ x.accepted => p.fd_table[fd].valid /\ x.sink = p.fd_table[fd].sink
    BY <1>3
  <2>3. DOMAIN x = {"events", "sink", "valid", "accepted"} BY <1>3
  <2> QED BY <1>g, <1>2, <2>1, <2>2, <2>3, DevpollRow
<1>5. \A h, f, s, E : Serves("devpoll", p, h, f, s, E) => h = f /\ f # fd
  BY DevpollOps DEF Free
<1>6. Fresh("devpoll", p, fd) = fd BY DevpollOps
<1> QED BY <1>3, <1>4, <1>5, <1>6 DEF Adds, q

\* devpoll_t::rm_fd.
LEMMA DevpollRemoves ==
  ASSUME NEW p, NEW h, NEW f, NEW s, NEW E, Good("devpoll", p), Serves("devpoll", p, h, f, s, E)
  PROVE  Removes("devpoll", p, RmFd("devpoll", p, h), h)
<1> DEFINE q == RmFd("devpoll", p, h)
           x == [p.fd_table[h] EXCEPT !.valid = FALSE]
<1>g. DevpollGood(p) BY DevpollOps
<1>h. h \in Fds BY DevpollOps
<1>1. q = [p EXCEPT !.fd_table[h].valid = FALSE] BY DevpollOps DEF Devpoll!RmFd
<1>2. /\ DOMAIN q = DevpollFields /\ q.ev_buf = p.ev_buf
      /\ q.fd_table = [p.fd_table EXCEPT ![h] = x]
  <2> HIDE DEF q
  <2> QED BY <1>g, <1>1 DEF DevpollGood, DevpollFields
<1>3. /\ DOMAIN x = {"events", "sink", "valid", "accepted"} /\ x.events = p.fd_table[h].events
      /\ x.valid = FALSE /\ x.accepted = p.fd_table[h].accepted /\ x.sink = p.fd_table[h].sink
  BY <1>g, <1>h DEF DevpollGood
<1>b. x.accepted \in BOOLEAN /\ x.events \subseteq Evs BY <1>g, <1>h, <1>3 DEF DevpollGood
<1> HIDE DEF x, q
<1>4. /\ Good("devpoll", q) /\ Quieter("devpoll", p, q)
      /\ \A k, fd, r, D : Serves("devpoll", q, k, fd, r, D) <=>
               \/ fd # h /\ Serves("devpoll", p, k, fd, r, D)
               \/ k = h /\ fd = h /\ x.valid /\ r = x.sink /\ D = x.events
  <2>1. x.events \subseteq Evs /\ x.valid \in BOOLEAN /\ x.accepted \in BOOLEAN
    BY <1>b, <1>3
  <2>2. /\ x.accepted => p.fd_table[h].accepted
        /\ x.valid /\ x.accepted => p.fd_table[h].valid /\ x.sink = p.fd_table[h].sink
    BY <1>3
  <2> QED BY <1>g, <1>h, <1>2, <1>3, <2>1, <2>2, DevpollRow
<1>5. \A k, fd, r, D : Serves("devpoll", p, k, fd, r, D) => k = fd BY DevpollOps
<1> QED BY <1>3, <1>4, <1>5 DEF Removes, q

\* set_pollin, set_pollout, reset_pollin and reset_pollout of devpoll_t.
LEMMA DevpollTurns ==
  ASSUME NEW p, NEW h, NEW f, NEW s, NEW E, NEW ev \in Evs,
         Good("devpoll", p), Serves("devpoll", p, h, f, s, E)
  PROVE  /\ Turns("devpoll", p, SetPoll("devpoll", p, h, ev), h, E \cup {ev})
         /\ Turns("devpoll", p, ResetPoll("devpoll", p, h, ev), h, E \ {ev})
<1>g. DevpollGood(p) BY DevpollOps
<1>h. /\ h = f /\ h \in Fds /\ p.fd_table[h].valid /\ p.fd_table[h].events = E
      /\ p.fd_table[h].sink = s
  BY DevpollOps
<1>1. ASSUME NEW D, D \subseteq Evs, NEW q, q = [p EXCEPT !.fd_table[h].events = D]
      PROVE  Turns("devpoll", p, q, h, D)
  <2> DEFINE x == [p.fd_table[h] EXCEPT !.events = D]
  <2>2. /\ DOMAIN q = DevpollFields /\ q.ev_buf = p.ev_buf
        /\ q.fd_table = [p.fd_table EXCEPT ![h] = x]
    BY <1>g, <1>1 DEF DevpollGood, DevpollFields
  <2>3. /\ DOMAIN x = {"events", "sink", "valid", "accepted"} /\ x.events = D
        /\ x.valid = p.fd_table[h].valid /\ x.accepted = p.fd_table[h].accepted
        /\ x.sink = p.fd_table[h].sink
    BY <1>g, <1>h DEF DevpollGood
  <2>b. x.accepted \in BOOLEAN /\ x.valid \in BOOLEAN BY <1>g, <1>h, <2>3 DEF DevpollGood
  <2> HIDE DEF x
  <2>4. /\ Good("devpoll", q) /\ Quieter("devpoll", p, q)
        /\ \A k, fd, r, C : Serves("devpoll", q, k, fd, r, C) <=>
               \/ fd # h /\ Serves("devpoll", p, k, fd, r, C)
               \/ k = h /\ fd = h /\ x.valid /\ r = x.sink /\ C = x.events
    <3>1. x.events \subseteq Evs BY <1>1, <2>3
    <3>2. /\ x.accepted => p.fd_table[h].accepted
          /\ x.valid /\ x.accepted => p.fd_table[h].valid /\ x.sink = p.fd_table[h].sink
      BY <2>3
    <3>3. DOMAIN x = {"events", "sink", "valid", "accepted"} /\ h \in Fds BY <1>h, <2>3
    <3> QED BY <1>g, <2>b, <2>2, <3>1, <3>2, <3>3, DevpollRow
  <2>5. \A k, fd, r, C : Serves("devpoll", p, k, fd, r, C) =>
           k = fd /\ (fd = h => r = p.fd_table[h].sink)
    BY DevpollOps
  <2>6. \A k, fd, r, C : Serves("devpoll", q, k, fd, r, C) <=>
          \/ k # h /\ Serves("devpoll", p, k, fd, r, C)
          \/ k = h /\ C = D /\ \E E0 : Serves("devpoll", p, k, fd, r, E0)
    BY <1>h, <2>3, <2>4, <2>5
  <2> QED BY <2>4, <2>6 DEF Turns
<1>2. E \subseteq Evs BY <1>g, <1>h DEF DevpollGood
<1>3. SetPoll("devpoll", p, h, ev) = [p EXCEPT !.fd_table[h].events = E \cup {ev}]
  BY <1>g, <1>h, DevpollOps DEF Devpoll!SetPoll, DevpollGood
<1>4. ResetPoll("devpoll", p, h, ev) = [p EXCEPT !.fd_table[h].events = E \ {ev}]
  BY <1>g, <1>h, DevpollOps DEF Devpoll!ResetPoll, DevpollGood
<1> QED BY <1>1, <1>2, <1>3, <1>4

\* What devpoll_t watches is what it serves, and what it hears it serves.
LEMMA DevpollSound ==
  ASSUME NEW p, Good("devpoll", p)
  PROVE  Sound("devpoll", p)
<1>g. DevpollGood(p) BY DevpollOps
<1>1. \A h, f, s, E : Serves("devpoll", p, h, f, s, E) => f \in Fds /\ E \subseteq Evs
  BY <1>g, DevpollOps DEF DevpollGood
<1>2. \A h, f, s, E, g, r, D :
          Serves("devpoll", p, h, f, s, E) /\ Serves("devpoll", p, g, f, r, D) => h = g
  BY DevpollOps
<1>3. \A h, f, s, E, g, r, D :
          Serves("devpoll", p, h, f, s, E) /\ Serves("devpoll", p, h, g, r, D) => f = g /\ s = r /\ E = D
  BY DevpollOps
<1>4. \A e : Heard("devpoll", p, e) => \E h, f, E : Serves("devpoll", p, h, f, Sink("devpoll", p, e), E)
  <2> SUFFICES ASSUME NEW e, Heard("devpoll", p, e)
               PROVE  Serves("devpoll", p, e, e, Sink("devpoll", p, e), p.fd_table[e].events)
    OBVIOUS
  <2>1. e \in Fds BY <1>g, DevpollOps DEF DevpollGood
  <2> QED BY <2>1, DevpollOps
<1>w. Watched("devpoll", p) =
        UNION {{fd} \X (p.fd_table[fd].events \cup {"err"}) : fd \in {fd \in Fds : p.fd_table[fd].valid}}
  BY DevpollOps DEF Devpoll!Watched
<1>5. ASSUME NEW x \in Watched("devpoll", p)
      PROVE  /\ x = <<x[1], x[2]>> /\ x[2] \in AllEvs
             /\ \E h, s, E : Serves("devpoll", p, h, x[1], s, E) /\ (x[2] \in E \/ x[2] = "err")
  <2>1. PICK fd \in Fds : /\ p.fd_table[fd].valid
                          /\ x \in {fd} \X (p.fd_table[fd].events \cup {"err"})
    BY <1>w, <1>5
  <2>2. x = <<x[1], x[2]>> /\ x[1] = fd /\ x[2] \in p.fd_table[fd].events \cup {"err"} BY <2>1
  <2>3. Serves("devpoll", p, fd, x[1], p.fd_table[fd].sink, p.fd_table[fd].events)
    BY <2>1, <2>2, DevpollOps
  <2> QED BY <1>g, <2>2, <2>3 DEF DevpollGood, Evs, AllEvs
<1>6. ASSUME NEW h, NEW f, NEW s, NEW E, NEW ev, Serves("devpoll", p, h, f, s, E), ev \in E
      PROVE  <<f, ev>> \in Watched("devpoll", p)
  <2>1. f \in {fd \in Fds : p.fd_table[fd].valid} /\ E = p.fd_table[f].events
    BY <1>6, DevpollOps
  <2>2. <<f, ev>> \in {f} \X (p.fd_table[f].events \cup {"err"}) BY <1>6, <2>1
  <2> QED BY <1>w, <2>1, <2>2
<1>7. \A past : Todo("devpoll", p, past) \subseteq Positions("devpoll", p) BY DevpollOps
<1>8. \A f, ev : <<f, ev>> \in Watched("devpoll", p) =>
         ev \in AllEvs /\ \E h, s, E : Serves("devpoll", p, h, f, s, E) /\ (ev \in E \/ ev = "err")
  BY <1>5
<1> QED BY <1>1, <1>2, <1>3, <1>4, <1>5, <1>6, <1>7, <1>8 DEF Sound

\* devpoll_t::loop: what DP_POLL reports is for the owner of the descriptor.
LEMMA DevpollReports ==
  ASSUME NEW p, NEW reported, Good("devpoll", p), reported \subseteq Watched("devpoll", p)
  PROVE  Reports("devpoll", p, Waited("devpoll", p, reported), reported)
<1> DEFINE q == Waited("devpoll", p, reported)
<1>g. DevpollGood(p) BY DevpollOps
<1>1. q = [p EXCEPT !.ev_buf = reported] BY DevpollOps DEF Devpoll!Waited
<1>2. DOMAIN q = DevpollFields /\ q.fd_table = p.fd_table /\ q.ev_buf = reported
  BY <1>g, <1>1 DEF DevpollGood, DevpollFields
<1> HIDE DEF q
<1>3. \A x \in reported : x[1] \in Fds
  <2> TAKE x \in reported
  <2>1. Sound("devpoll", p) BY DevpollSound
  <2>2. x = <<x[1], x[2]>> /\ x \in Watched("devpoll", p) BY <2>1 DEF Sound
  <2>3. PICK h, s, E : Serves("devpoll", p, h, x[1], s, E) BY <2>1, <2>2 DEF Sound
  <2> QED BY <2>3, DevpollOps
<1>4. DevpollGood(q) BY <1>g, <1>2, <1>3 DEF DevpollGood
<1>5. \A h, f, s, E : Serves("devpoll", q, h, f, s, E) <=> Serves("devpoll", p, h, f, s, E)
  BY <1>2, DevpollOps
<1>6. ASSUME NEW e, Heard("devpoll", q, e)
      PROVE  \E h, f, E : /\ Serves("devpoll", p, h, f, Sink("devpoll", q, e), E)
                          /\ \E x \in reported : x[1] = f
  <2>1. /\ e \in Positions("devpoll", q) /\ p.fd_table[e].valid
        /\ Sink("devpoll", q, e) = p.fd_table[e].sink
    BY <1>2, <1>6, DevpollOps
  <2>2. PICK x \in reported : x[1] = e BY <1>2, <2>1, DevpollOps
  <2>3. Serves("devpoll", p, e, e, p.fd_table[e].sink, p.fd_table[e].events)
    BY <1>3, <2>1, <2>2, DevpollOps
  <2> QED BY <2>1, <2>2, <2>3
<1> QED BY <1>4, <1>5, <1>6, DevpollOps DEF Reports, Keeps, q

\* The top of the loop of devpoll_t accepts the pending rows; the end changes none.
LEMMA DevpollKeeps ==
  ASSUME NEW p, Good("devpoll", p)
  PROVE  Keeps("devpoll", p, LoopTop("devpoll", p)) /\ Keeps("devpoll", p, Cleanup("devpoll", p))
<1>g. DevpollGood(p) BY DevpollOps
<1>1. Keeps("devpoll", p, Cleanup("devpoll", p))
  <2> DEFINE q == Cleanup("devpoll", p)
  <2>1. q = [p EXCEPT !.ev_buf = {}] BY DevpollOps DEF Devpoll!Cleanup
  <2>2. DOMAIN q = DevpollFields /\ q.fd_table = p.fd_table /\ q.ev_buf = {}
    BY <1>g, <2>1 DEF DevpollGood, DevpollFields
  <2> HIDE DEF q
  <2>3. DevpollGood(q) BY <1>g, <2>2 DEF DevpollGood
  <2>4. \A h, f, s, E : Serves("devpoll", q, h, f, s, E) <=> Serves("devpoll", p, h, f, s, E)
    BY <2>2, DevpollOps
  <2> QED BY <2>3, <2>4, DevpollOps DEF Keeps, q
<1>2. Keeps("devpoll", p, LoopTop("devpoll", p))
  <2> DEFINE q == LoopTop("devpoll", p)
             Row(fd) == [p.fd_table[fd] EXCEPT !.accepted = @ \/ fd \in p.pending]
  <2>1. q = [p EXCEPT !.pending = {}, !.fd_table = [fd \in Fds |-> Row(fd)]]
    <3>1. q = Devpoll!LoopTop(p) BY DevpollOps
    <3> HIDE DEF q
    <3> QED BY <3>1 DEF Devpoll!LoopTop
  <2>2. \A fd \in Fds : /\ DOMAIN Row(fd) = {"events", "sink", "valid", "accepted"}
                        /\ Row(fd).events = p.fd_table[fd].events
                        /\ Row(fd).sink = p.fd_table[fd].sink
                        /\ Row(fd).valid = p.fd_table[fd].valid
                        /\ Row(fd).accepted \in BOOLEAN
    BY <1>g DEF DevpollGood
  <2> HIDE DEF Row, q
  <2>3. /\ DOMAIN q = DevpollFields /\ q.ev_buf = p.ev_buf
        /\ DOMAIN q.fd_table = Fds /\ \A fd \in Fds : q.fd_table[fd] = Row(fd)
    BY <1>g, <2>1 DEF DevpollGood, DevpollFields
  <2>4. DevpollGood(q) BY <1>g, <2>2, <2>3 DEF DevpollGood
  <2>5. \A h, f, s, E : Serves("devpoll", q, h, f, s, E) <=> Serves("devpoll", p, h, f, s, E)
    BY <2>2, <2>3, DevpollOps
  <2> QED BY <2>4, <2>5, DevpollOps DEF Keeps, q
<1> QED BY <1>1, <1>2

\* A new devpoll_t serves nothing.
LEMMA DevpollStarts ==
  Good("devpoll", New("devpoll")) /\ \A h, f, s, E : ~Serves("devpoll", New("devpoll"), h, f, s, E)
<1> DEFINE p == New("devpoll")
           x == [events |-> {}, sink |-> "none", valid |-> FALSE, accepted |-> FALSE]
<1>1. p = [pending |-> {}, ev_buf |-> {}, size |-> 0, dangling |-> FALSE,
           fd_table |-> [fd \in Fds |-> x]]
  BY DevpollOps DEF Devpoll!New
<1>2. DOMAIN p = DevpollFields /\ p.ev_buf = {} BY <1>1 DEF DevpollFields
<1>3. DOMAIN p.fd_table = Fds /\ \A fd \in Fds : p.fd_table[fd] = x
  <2> HIDE DEF p, x
  <2>1. p.fd_table = [fd \in Fds |-> x] BY <1>1
  <2> QED BY <2>1
<1>4. /\ DOMAIN x = {"events", "sink", "valid", "accepted"} /\ x.events = {} /\ x.valid = FALSE
      /\ x.accepted = FALSE
  OBVIOUS
<1> HIDE DEF p, x
<1>5. DevpollGood(p) BY <1>2, <1>3, <1>4 DEF DevpollGood
<1> QED BY <1>3, <1>4, <1>5, DevpollOps DEF p
\* The pointer of the loop of devpoll_t: taking it changes no registration.
LEMMA DevpollPoints ==
  ASSUME NEW p, Good("devpoll", p)
  PROVE  /\ Keeps("devpoll", p, Point("devpoll", p)) /\ Quieter("devpoll", p, Point("devpoll", p))
         /\ Point("devpoll", p).ev_buf = p.ev_buf /\ Point("devpoll", p).dangling = FALSE
<1> DEFINE q == Point("devpoll", p)
<1>g. DevpollGood(p) BY DevpollOps
<1>1. q = [p EXCEPT !.dangling = FALSE] BY DEF Point, Devpoll!Point
<1>2. DOMAIN q = DevpollFields /\ q.fd_table = p.fd_table /\ q.ev_buf = p.ev_buf /\ q.dangling = FALSE
  BY <1>g, <1>1 DEF DevpollGood, DevpollFields
<1> HIDE DEF q
<1>3. DevpollGood(q) BY <1>g, <1>2 DEF DevpollGood
<1>4. \A h, f, s, E : Serves("devpoll", q, h, f, s, E) <=> Serves("devpoll", p, h, f, s, E)
  BY <1>2, DevpollOps
<1>5. Positions("devpoll", q) = Positions("devpoll", p)
  <2>1. Positions("devpoll", q) = {y[1] : y \in q.ev_buf} BY DevpollOps
  <2>2. Positions("devpoll", p) = {y[1] : y \in p.ev_buf} BY DevpollOps
  <2> QED BY <1>2, <2>1, <2>2
<1>6. \A e : Heard("devpoll", q, e) => Heard("devpoll", p, e) BY <1>2, <1>5, DevpollOps
<1>7. \A e : Sink("devpoll", q, e) = Sink("devpoll", p, e) BY <1>2, DevpollOps
<1> QED BY <1>2, <1>3, <1>4, <1>5, <1>6, <1>7, DevpollOps DEF Keeps, Quieter, q

\* Only the wait of devpoll_t and the end of its loop write the batch, and of the
\* operations on a descriptor only add_fd may move the table.
LEMMA DevpollBatch ==
  ASSUME NEW p, Good("devpoll", p)
  PROVE  /\ LoopTop("devpoll", p).ev_buf = p.ev_buf /\ Cleanup("devpoll", p).ev_buf = {}
         /\ \A reported : Waited("devpoll", p, reported).ev_buf = reported
         /\ \A fd, sink : AddFd("devpoll", p, fd, sink).ev_buf = p.ev_buf
         /\ \A h : RmFd("devpoll", p, h).ev_buf = p.ev_buf /\ RmFd("devpoll", p, h).dangling = p.dangling
         /\ \A h, ev : /\ SetPoll("devpoll", p, h, ev).ev_buf = p.ev_buf
                       /\ SetPoll("devpoll", p, h, ev).dangling = p.dangling
                       /\ ResetPoll("devpoll", p, h, ev).ev_buf = p.ev_buf
                       /\ ResetPoll("devpoll", p, h, ev).dangling = p.dangling
<1>f. DOMAIN p = DevpollFields BY DevpollOps DEF DevpollGood
<1>1. LoopTop("devpoll", p).ev_buf = p.ev_buf
  <2>1. Devpoll!LoopTop(p).ev_buf = p.ev_buf BY <1>f DEF Devpoll!LoopTop, DevpollFields
  <2> QED BY <2>1, DevpollOps
<1>2. Cleanup("devpoll", p).ev_buf = {}
  <2>1. Devpoll!Cleanup(p).ev_buf = {} BY <1>f DEF Devpoll!Cleanup, DevpollFields
  <2> QED BY <2>1, DevpollOps
<1>3. ASSUME NEW reported PROVE Waited("devpoll", p, reported).ev_buf = reported
  <2>1. Devpoll!Waited(p, reported).ev_buf = reported BY <1>f DEF Devpoll!Waited, DevpollFields
  <2> QED BY <2>1, DevpollOps
<1>4. ASSUME NEW fd, NEW sink PROVE AddFd("devpoll", p, fd, sink).ev_buf = p.ev_buf
  <2>1. Devpoll!AddFd(p, fd, sink).ev_buf = p.ev_buf BY <1>f DEF Devpoll!AddFd, DevpollFields
  <2> QED BY <2>1, DevpollOps
<1>5. \A h : RmFd("devpoll", p, h).ev_buf = p.ev_buf /\ RmFd("devpoll", p, h).dangling = p.dangling
  BY <1>f, DevpollOps DEF Devpoll!RmFd, DevpollFields
<1>6. \A h, ev : /\ SetPoll("devpoll", p, h, ev).ev_buf = p.ev_buf
                /\ SetPoll("devpoll", p, h, ev).dangling = p.dangling
                /\ ResetPoll("devpoll", p, h, ev).ev_buf = p.ev_buf
                /\ ResetPoll("devpoll", p, h, ev).dangling = p.dangling
  BY <1>f, DevpollOps DEF Devpoll!SetPoll, Devpoll!ResetPoll, DevpollFields
<1> QED BY <1>1, <1>2, <1>3, <1>4, <1>5, <1>6
-----------------------------------------------------------------------------
(* poll_t.                                                                 *)

\* The operations of poll_t, by name.
LEMMA PollOps ==
  /\ New("poll") = Poll!New
  /\ \A p, fd : Fresh("poll", p, fd) = fd
  /\ \A p, fd, sink : AddFd("poll", p, fd, sink) = Poll!AddFd(p, fd, sink)
  /\ \A p, h : RmFd("poll", p, h) = Poll!RmFd(p, h)
  /\ \A p, h, ev : SetPoll("poll", p, h, ev) = Poll!SetPoll(p, h, ev)
  /\ \A p, h, ev : ResetPoll("poll", p, h, ev) = Poll!ResetPoll(p, h, ev)
  /\ \A p : Watched("poll", p) = Poll!Watched(p)
  /\ \A p : LoopTop("poll", p) = p
  /\ \A p, reported : Waited("poll", p, reported) = Poll!Waited(p, reported)
  /\ \A p, past : Todo("poll", p, past) = Poll!Todo(p, past)
  /\ \A p, i : Skip("poll", p, i) <=> p.pollset[i].fd = RetiredFd
  /\ \A p, i, ev : Has("poll", p, i, ev) <=> ev \in p.pollset[i].revents
  /\ \A p, i : Sink("poll", p, i) = p.fd_table[p.pollset[i].fd].sink
  /\ \A p : Cleanup("poll", p) = Poll!Cleanup(p)
  /\ \A p : Good("poll", p) <=> PollGood(p)
  /\ \A p, h, fd, sink, events : Serves("poll", p, h, fd, sink, events) <=>
        /\ h = fd /\ fd \in Fds /\ p.fd_table[fd].index # RetiredFd
        /\ p.fd_table[fd].sink = sink /\ p.pollset[p.fd_table[fd].index].events = events
  /\ \A p : Positions("poll", p) = DOMAIN p.pollset
  /\ \A p, i : Heard("poll", p, i) <=>
        /\ i \in DOMAIN p.pollset /\ p.pollset[i].fd # RetiredFd
        /\ \E ev \in AllEvs : ev \in p.pollset[i].revents
BY DEF New, Fresh, AddFd, RmFd, SetPoll, ResetPoll, Watched, LoopTop, Waited, Todo, Skip, Has, Sink,
       Cleanup, Good, Serves, Positions, Heard, Poll!Fresh, Poll!LoopTop, Poll!Skip,
       Poll!Has, Poll!Sink, Poll!RetiredFd, RetiredFd

PollEntry == [fd : Fds \cup {RetiredFd}, events : SUBSET Evs, revents : SUBSET AllEvs]

\* What the table of poll_t says of the vector.
LEMMA PollTable ==
  ASSUME NEW p, PollGood(p)
  PROVE  /\ p.pollset \in Seq(PollEntry) /\ DOMAIN p.pollset = 1..Len(p.pollset)
         /\ Len(p.pollset) \in Nat
         /\ \A i \in DOMAIN p.pollset : p.pollset[i] \in PollEntry
         /\ \A i \in DOMAIN p.pollset : p.pollset[i].fd # RetiredFd =>
              p.pollset[i].fd \in Fds /\ p.fd_table[p.pollset[i].fd].index = i /\ i # RetiredFd
<1>1. p.pollset \in Seq(PollEntry) BY DEF PollGood, PollEntry
<1>2. /\ DOMAIN p.pollset = 1..Len(p.pollset) /\ Len(p.pollset) \in Nat
      /\ \A i \in DOMAIN p.pollset : p.pollset[i] \in PollEntry
  BY <1>1
<1>3. \A i \in DOMAIN p.pollset : i # RetiredFd BY <1>2 DEF RetiredFd
<1>4. \A i \in DOMAIN p.pollset : p.pollset[i].fd \in Fds \cup {RetiredFd} BY <1>2 DEF PollEntry
<1>5. \A i \in DOMAIN p.pollset :
         p.pollset[i].fd # RetiredFd => p.fd_table[p.pollset[i].fd].index = i
  BY DEF PollGood
<1> QED BY <1>1, <1>2, <1>3, <1>4, <1>5

\* poll_t::add_fd appends an entry in which nothing is reported.
LEMMA PollAdds ==
  ASSUME NEW p, NEW fd \in Fds, NEW sink, Good("poll", p), Free("poll", p, fd)
  PROVE  Adds("poll", p, AddFd("poll", p, fd, sink), Fresh("poll", p, fd), fd, sink)
<1> DEFINE q == AddFd("poll", p, fd, sink)
           n == Len(p.pollset)
           x == [fd |-> fd, events |-> {}, revents |-> {}]
           row == [index |-> n + 1, sink |-> sink]
<1>g. PollGood(p) BY PollOps
<1>f. fd # RetiredFd BY PollerAssumption DEF RetiredFd
<1>n. n \in Nat /\ DOMAIN p.pollset = 1..n /\ p.pollset \in Seq(PollEntry) BY <1>g, PollTable
<1>1. q = [p EXCEPT !.pollset = Append(@, x), !.fd_table[fd] = row]
  <2>1. q = Poll!AddFd(p, fd, sink) BY PollOps
  <2> HIDE DEF q
  <2> QED BY <2>1 DEF Poll!AddFd
<1>2. /\ DOMAIN q = {"pollset", "retired", "fd_table"} /\ q.retired = p.retired
      /\ q.pollset = Append(p.pollset, x) /\ q.fd_table = [p.fd_table EXCEPT ![fd] = row]
  <2> HIDE DEF q, x, row
  <2> QED BY <1>g, <1>1 DEF PollGood
<1>x. x \in PollEntry /\ x.fd = fd /\ x.events = {} /\ x.revents = {} BY DEF PollEntry
<1>r. DOMAIN row = {"index", "sink"} /\ row.index = n + 1 /\ row.sink = sink OBVIOUS
<1> HIDE DEF q, x, row
<1>3. /\ q.pollset \in Seq(PollEntry) /\ DOMAIN q.pollset = 1..(n + 1) /\ q.pollset[n + 1] = x
      /\ \A i \in 1..n : q.pollset[i] = p.pollset[i]
  BY <1>n, <1>2, <1>x
<1>4. /\ DOMAIN q.fd_table = Fds /\ q.fd_table[fd] = row
      /\ \A f \in Fds \ {fd} : q.fd_table[f] = p.fd_table[f]
  BY <1>g, <1>2 DEF PollGood
<1>5. p.fd_table[fd].index = RetiredFd
  <2>1. ~Serves("poll", p, fd, fd, p.fd_table[fd].sink, p.pollset[p.fd_table[fd].index].events)
    BY DEF Free
  <2> QED BY <2>1, PollOps
<1>6. \A i \in 1..n : p.pollset[i].fd # fd
  BY <1>f, <1>n, <1>g, <1>5, PollTable
<1> HIDE DEF n
<1>7. n + 1 # RetiredFd BY <1>n DEF RetiredFd
<1>8. PollGood(q)
  <2>1. \A f \in Fds : DOMAIN q.fd_table[f] = {"index", "sink"} BY <1>g, <1>4, <1>r DEF PollGood
  <2>2. \A f \in Fds : q.fd_table[f].index # RetiredFd =>
          q.fd_table[f].index \in DOMAIN q.pollset /\ q.pollset[q.fd_table[f].index].fd = f
    <3> SUFFICES ASSUME NEW f \in Fds, q.fd_table[f].index # RetiredFd
                 PROVE  q.fd_table[f].index \in DOMAIN q.pollset /\ q.pollset[q.fd_table[f].index].fd = f
      OBVIOUS
    <3>1. CASE f = fd BY <1>n, <1>3, <1>4, <1>r, <1>x, <3>1
    <3>2. CASE f # fd
      <4>1. q.fd_table[f] = p.fd_table[f] BY <1>4, <3>2
      <4>2. p.fd_table[f].index \in 1..n /\ p.pollset[p.fd_table[f].index].fd = f
        BY <1>g, <1>n, <4>1 DEF PollGood
      <4> QED BY <1>n, <1>3, <4>1, <4>2
    <3> QED BY <3>1, <3>2
  <2>3. \A i \in DOMAIN q.pollset :
          q.pollset[i].fd # RetiredFd => q.fd_table[q.pollset[i].fd].index = i
    <3> SUFFICES ASSUME NEW i \in 1..(n + 1), q.pollset[i].fd # RetiredFd
                 PROVE  q.fd_table[q.pollset[i].fd].index = i
      BY <1>3
    <3>1. CASE i = n + 1 BY <1>3, <1>4, <1>r, <1>x, <3>1
    <3>2. CASE i # n + 1
      <4>1. i \in 1..n /\ q.pollset[i] = p.pollset[i] BY <1>n, <1>3, <3>2
      <4>2. p.pollset[i].fd \in Fds \ {fd} /\ p.fd_table[p.pollset[i].fd].index = i
        BY <1>g, <1>n, <1>6, <4>1, PollTable
      <4> QED BY <1>4, <4>1, <4>2
    <3> QED BY <3>1, <3>2
  <2>4. ~q.retired => \A i \in DOMAIN q.pollset : q.pollset[i].fd # RetiredFd
    BY <1>g, <1>f, <1>n, <1>2, <1>3, <1>x DEF PollGood
  <2> QED BY <1>2, <1>3, <1>4, <2>1, <2>2, <2>3, <2>4 DEF PollGood, PollEntry
<1>9. Quieter("poll", p, q)
  <2>1. Positions("poll", p) \subseteq Positions("poll", q) BY <1>n, <1>3, PollOps
  <2>2. ASSUME NEW i, Heard("poll", q, i)
        PROVE  Heard("poll", p, i) /\ Sink("poll", q, i) = Sink("poll", p, i)
    <3>1. /\ i \in 1..(n + 1) /\ q.pollset[i].fd # RetiredFd
          /\ \E ev \in AllEvs : ev \in q.pollset[i].revents
      BY <1>3, <2>2, PollOps
    <3>2. i # n + 1 BY <1>3, <1>x, <3>1
    <3>3. i \in 1..n /\ q.pollset[i] = p.pollset[i] BY <1>n, <1>3, <3>1, <3>2
    <3>4. p.pollset[i].fd \in Fds \ {fd} BY <1>g, <1>n, <1>6, <3>1, <3>3, PollTable
    <3>5. Heard("poll", p, i) BY <1>n, <3>1, <3>3, PollOps
    <3>6. Sink("poll", q, i) = q.fd_table[q.pollset[i].fd].sink BY PollOps
    <3>7. Sink("poll", p, i) = p.fd_table[p.pollset[i].fd].sink BY PollOps
    <3> QED BY <1>4, <3>3, <3>4, <3>5, <3>6, <3>7
  <2> QED BY <2>1, <2>2 DEF Quieter
<1>10. \A f, s, E : ~Serves("poll", p, fd, f, s, E) BY <1>5, PollOps
<1>11. \A h, f, s, E : Serves("poll", q, h, f, s, E) <=>
         Serves("poll", p, h, f, s, E) \/ (h = fd /\ f = fd /\ s = sink /\ E = {})
  <2> TAKE h, f, s, E
  <2>1. CASE f \notin Fds BY <2>1, PollOps
  <2>2. CASE f = fd
    <3>1. q.fd_table[fd].index = n + 1 /\ q.fd_table[fd].sink = sink /\ q.pollset[n + 1].events = {}
      BY <1>3, <1>4, <1>r, <1>x
    <3>2. Serves("poll", q, h, fd, s, E) <=>
            /\ h = fd /\ fd \in Fds /\ q.fd_table[fd].index # RetiredFd
            /\ q.fd_table[fd].sink = s /\ q.pollset[q.fd_table[fd].index].events = E
      BY PollOps
    <3>3. ~Serves("poll", p, h, fd, s, E) BY DEF Free
    <3> QED BY <1>7, <2>2, <3>1, <3>2, <3>3
  <2>3. CASE f \in Fds \ {fd}
    <3>1. q.fd_table[f] = p.fd_table[f] BY <1>4, <2>3
    <3>2. p.fd_table[f].index # RetiredFd => p.fd_table[f].index \in 1..n
      BY <1>g, <1>n, <2>3 DEF PollGood
    <3>3. p.fd_table[f].index # RetiredFd =>
            q.pollset[p.fd_table[f].index] = p.pollset[p.fd_table[f].index]
      BY <1>3, <3>2
    <3> QED BY <2>3, <3>1, <3>3, PollOps, SMTT(30)
  <2> QED BY <2>1, <2>2, <2>3
<1> QED BY <1>8, <1>9, <1>10, <1>11, PollOps DEF Adds, q

\* poll_t::rm_fd marks the entry and forgets its place.
LEMMA PollRemoves ==
  ASSUME NEW p, NEW h, NEW fd0, NEW s0, NEW E0, Good("poll", p), Serves("poll", p, h, fd0, s0, E0)
  PROVE  Removes("poll", p, RmFd("poll", p, h), h)
<1> DEFINE q == RmFd("poll", p, h)
           at == p.fd_table[h].index
           x == [p.pollset[at] EXCEPT !.fd = RetiredFd]
           row == [p.fd_table[h] EXCEPT !.index = RetiredFd]
<1>g. PollGood(p) BY PollOps
<1>h. h \in Fds /\ at # RetiredFd /\ h # RetiredFd
  BY PollOps, PollerAssumption DEF RetiredFd
<1>a. at \in DOMAIN p.pollset /\ p.pollset[at].fd = h BY <1>g, <1>h DEF PollGood
<1>n. p.pollset \in Seq(PollEntry) /\ \A i \in DOMAIN p.pollset : p.pollset[i] \in PollEntry
  BY <1>g, PollTable, SMTT(30)
<1>x. x \in PollEntry /\ x.fd = RetiredFd
  <2>1. p.pollset[at] \in PollEntry BY <1>a, <1>n
  <2> QED BY <2>1 DEF PollEntry
<1>r. DOMAIN row = {"index", "sink"} /\ row.index = RetiredFd BY <1>g, <1>h DEF PollGood
<1>1. q = [p EXCEPT !.pollset[at].fd = RetiredFd, !.fd_table[h].index = RetiredFd, !.retired = TRUE]
  <2>1. q = Poll!RmFd(p, h) BY PollOps
  <2> HIDE DEF q
  <2> QED BY <2>1 DEF Poll!RmFd, Poll!RetiredFd, RetiredFd
<1>2. /\ DOMAIN q = {"pollset", "retired", "fd_table"} /\ q.retired = TRUE
      /\ q.pollset = [p.pollset EXCEPT ![at] = x] /\ q.fd_table = [p.fd_table EXCEPT ![h] = row]
  <2> HIDE DEF q, at
  <2> QED BY <1>g, <1>1 DEF PollGood
<1> HIDE DEF q, x, row, at
<1>3. /\ q.pollset \in Seq(PollEntry) /\ DOMAIN q.pollset = DOMAIN p.pollset
      /\ q.pollset[at] = x /\ \A i \in DOMAIN p.pollset \ {at} : q.pollset[i] = p.pollset[i]
  BY <1>n, <1>2, <1>a, <1>x
<1>4. /\ DOMAIN q.fd_table = Fds /\ q.fd_table[h] = row
      /\ \A f \in Fds \ {h} : q.fd_table[f] = p.fd_table[f]
  BY <1>g, <1>2, <1>h DEF PollGood
<1>5. \A i \in DOMAIN p.pollset \ {at} : p.pollset[i].fd # RetiredFd => p.pollset[i].fd \in Fds \ {h}
  <2> SUFFICES ASSUME NEW i \in DOMAIN p.pollset, i # at, p.pollset[i].fd # RetiredFd
               PROVE  p.pollset[i].fd \in Fds \ {h}
    OBVIOUS
  <2>1. p.pollset[i].fd \in Fds /\ p.fd_table[p.pollset[i].fd].index = i BY <1>g, PollTable
  <2> QED BY <2>1 DEF at
<1>6. \A f \in Fds \ {h} : p.fd_table[f].index # RetiredFd =>
         /\ p.fd_table[f].index \in DOMAIN p.pollset \ {at}
         /\ p.pollset[p.fd_table[f].index].fd = f
  BY <1>g, <1>a DEF PollGood
<1>7. PollGood(q)
  <2>1. \A f \in Fds : DOMAIN q.fd_table[f] = {"index", "sink"} BY <1>g, <1>4, <1>r DEF PollGood
  <2>2. \A f \in Fds : q.fd_table[f].index # RetiredFd =>
          q.fd_table[f].index \in DOMAIN q.pollset /\ q.pollset[q.fd_table[f].index].fd = f
    BY <1>3, <1>4, <1>6, <1>r
  <2>3. \A i \in DOMAIN q.pollset :
          q.pollset[i].fd # RetiredFd => q.fd_table[q.pollset[i].fd].index = i
    <3> SUFFICES ASSUME NEW i \in DOMAIN p.pollset, q.pollset[i].fd # RetiredFd
                 PROVE  q.fd_table[q.pollset[i].fd].index = i
      BY <1>3
    <3>1. i # at /\ q.pollset[i] = p.pollset[i] BY <1>3, <1>x
    <3>2. p.fd_table[p.pollset[i].fd].index = i BY <1>g, <3>1, PollTable
    <3> QED BY <1>4, <1>5, <3>1, <3>2
  <2> QED BY <1>2, <1>3, <1>4, <2>1, <2>2, <2>3 DEF PollGood, PollEntry
<1>8. Quieter("poll", p, q)
  <2>1. Positions("poll", p) \subseteq Positions("poll", q) BY <1>3, PollOps
  <2>2. ASSUME NEW i, Heard("poll", q, i)
        PROVE  Heard("poll", p, i) /\ Sink("poll", q, i) = Sink("poll", p, i)
    <3>1. /\ i \in DOMAIN p.pollset /\ q.pollset[i].fd # RetiredFd
          /\ \E ev \in AllEvs : ev \in q.pollset[i].revents
      BY <1>3, <2>2, PollOps
    <3>2. i # at /\ q.pollset[i] = p.pollset[i] BY <1>3, <1>x, <3>1
    <3>3. q.fd_table[p.pollset[i].fd] = p.fd_table[p.pollset[i].fd] BY <1>4, <1>5, <3>1, <3>2
    <3>4. Heard("poll", p, i) BY <3>1, <3>2, PollOps
    <3>5. Sink("poll", q, i) = q.fd_table[q.pollset[i].fd].sink BY PollOps
    <3>6. Sink("poll", p, i) = p.fd_table[p.pollset[i].fd].sink BY PollOps
    <3> QED BY <3>2, <3>3, <3>4, <3>5, <3>6
  <2> QED BY <2>1, <2>2 DEF Quieter
<1>9. \A k, f, s, E : Serves("poll", q, k, f, s, E) <=> Serves("poll", p, k, f, s, E) /\ k # h
  <2> TAKE k, f, s, E
  <2>1. CASE f \notin Fds \/ k # f BY <2>1, PollOps
  <2>2. CASE f = h /\ k = f BY <1>4, <1>r, <2>2, PollOps
  <2>3. CASE f \in Fds \ {h} /\ k = f
    <3>1. q.fd_table[f] = p.fd_table[f] BY <1>4, <2>3
    <3>2. p.fd_table[f].index # RetiredFd =>
            q.pollset[p.fd_table[f].index] = p.pollset[p.fd_table[f].index]
      BY <1>3, <1>6, <2>3
    <3> QED BY <2>3, <3>1, <3>2, PollOps, SMTT(30)
  <2> QED BY <2>1, <2>2, <2>3
<1> QED BY <1>7, <1>8, <1>9, PollOps DEF Removes, q

\* set_pollin, set_pollout, reset_pollin and reset_pollout of poll_t find the entry
\* through the table.
LEMMA PollTurns ==
  ASSUME NEW p, NEW h, NEW f, NEW s, NEW E, NEW ev \in Evs,
         Good("poll", p), Serves("poll", p, h, f, s, E)
  PROVE  /\ Turns("poll", p, SetPoll("poll", p, h, ev), h, E \cup {ev})
         /\ Turns("poll", p, ResetPoll("poll", p, h, ev), h, E \ {ev})
<1> DEFINE at == p.fd_table[h].index
<1>g. PollGood(p) BY PollOps
<1>h. /\ h = f /\ h \in Fds /\ at # RetiredFd /\ p.pollset[at].events = E /\ p.fd_table[h].sink = s
  BY PollOps
<1>a. at \in DOMAIN p.pollset /\ p.pollset[at].fd = h BY <1>g, <1>h DEF PollGood
<1>n. p.pollset \in Seq(PollEntry) /\ p.pollset[at] \in PollEntry BY <1>g, <1>a, PollTable
<1>1. ASSUME NEW D, D \subseteq Evs, NEW q, q = [p EXCEPT !.pollset[at].events = D]
      PROVE  Turns("poll", p, q, h, D)
  <2> DEFINE x == [p.pollset[at] EXCEPT !.events = D]
  <2> HIDE DEF at
  <2>1. x \in PollEntry /\ x.fd = h /\ x.events = D /\ x.revents = p.pollset[at].revents
    BY <1>n, <1>a, <1>1 DEF PollEntry
  <2>2. /\ DOMAIN q = {"pollset", "retired", "fd_table"} /\ q.retired = p.retired
        /\ q.pollset = [p.pollset EXCEPT ![at] = x] /\ q.fd_table = p.fd_table
    BY <1>g, <1>1 DEF PollGood
  <2> HIDE DEF x
  <2>3. /\ q.pollset \in Seq(PollEntry) /\ DOMAIN q.pollset = DOMAIN p.pollset
        /\ q.pollset[at] = x /\ \A i \in DOMAIN p.pollset \ {at} : q.pollset[i] = p.pollset[i]
    BY <1>n, <1>a, <2>1, <2>2
  <2>4. \A i \in DOMAIN p.pollset : /\ q.pollset[i].fd = p.pollset[i].fd
                                    /\ q.pollset[i].revents = p.pollset[i].revents
    BY <1>a, <2>1, <2>3
  <2>5. PollGood(q) BY <1>g, <2>2, <2>3, <2>4 DEF PollGood, PollEntry
  <2>6. Quieter("poll", p, q)
    <3>1. Positions("poll", p) \subseteq Positions("poll", q) BY <2>3, PollOps
    <3>2. ASSUME NEW i, Heard("poll", q, i)
          PROVE  Heard("poll", p, i) /\ Sink("poll", q, i) = Sink("poll", p, i)
      <4>1. i \in DOMAIN p.pollset BY <2>3, <3>2, PollOps
      <4>2. Heard("poll", p, i) BY <2>4, <3>2, <4>1, PollOps
      <4>3. Sink("poll", q, i) = q.fd_table[q.pollset[i].fd].sink BY PollOps
      <4>4. Sink("poll", p, i) = p.fd_table[p.pollset[i].fd].sink BY PollOps
      <4> QED BY <2>2, <2>4, <4>1, <4>2, <4>3, <4>4
    <3> QED BY <3>1, <3>2 DEF Quieter
  <2>7. \A k, fd, r, C : Serves("poll", q, k, fd, r, C) <=>
          \/ k # h /\ Serves("poll", p, k, fd, r, C)
          \/ k = h /\ C = D /\ \E E0 : Serves("poll", p, k, fd, r, E0)
    <3> TAKE k, fd, r, C
    <3>1. CASE fd \notin Fds \/ k # fd BY <3>1, PollOps
    <3>2. CASE fd = h /\ k = h
      <4>1. Serves("poll", q, h, h, r, C) <=> s = r /\ D = C
        <5>1. Serves("poll", q, h, h, r, C) <=>
                /\ h \in Fds /\ q.fd_table[h].index # RetiredFd
                /\ q.fd_table[h].sink = r /\ q.pollset[q.fd_table[h].index].events = C
          BY PollOps
        <5> QED BY <1>h, <2>1, <2>2, <2>3, <5>1 DEF at
      <4>2. \A B : Serves("poll", p, h, h, r, B) => s = r BY <1>h, PollOps
      <4> QED BY <1>h, <3>2, <4>1, <4>2
    <3>3. CASE fd \in Fds \ {h} /\ k = fd
      <4>1. p.fd_table[fd].index # RetiredFd => p.fd_table[fd].index \in DOMAIN p.pollset \ {at}
        BY <1>g, <1>a, <3>3 DEF PollGood
      <4> QED BY <2>2, <2>3, <3>3, <4>1, PollOps
    <3> QED BY <3>1, <3>2, <3>3
  <2> QED BY <2>5, <2>6, <2>7, PollOps DEF Turns
<1>2. E \subseteq Evs BY <1>n, <1>h DEF PollEntry
<1>3. SetPoll("poll", p, h, ev) = [p EXCEPT !.pollset[at].events = E \cup {ev}]
  <2>1. SetPoll("poll", p, h, ev) = [p EXCEPT !.pollset[at].events = @ \cup {ev}]
    BY PollOps DEF Poll!SetPoll
  <2> HIDE DEF at
  <2> QED BY <1>g, <1>h, <1>a, <1>n, <2>1, SMTT(30) DEF PollGood, PollEntry
<1>4. ResetPoll("poll", p, h, ev) = [p EXCEPT !.pollset[at].events = E \ {ev}]
  <2>1. ResetPoll("poll", p, h, ev) = [p EXCEPT !.pollset[at].events = @ \ {ev}]
    BY PollOps DEF Poll!ResetPoll
  <2> HIDE DEF at
  <2> QED BY <1>g, <1>h, <1>a, <1>n, <2>1 DEF PollGood, PollEntry
<1> QED BY <1>1, <1>2, <1>3, <1>4

\* The operators of poll_t's module on sequences and on sets are the usual ones.
LEMMA PollOperators ==
  /\ \A v : Poll!ToSet(v) = {v[i] : i \in DOMAIN v}
  /\ \A v : Poll!Erase(v) = Erase(v)
  /\ \A S \in SUBSET Nat : S # {} => Poll!Min(S) \in S
<1>1. \A v : Poll!ToSet(v) = {v[i] : i \in DOMAIN v} BY DEF Poll!ToSet
<1>2. \A v : Poll!Erase(v) = Erase(v)
  <2> TAKE v
  <2>1. Poll!Staying(v) = Staying(v) BY DEF Poll!Staying, Poll!RetiredFd, Staying, RetiredFd
  <2>2. \A i : Poll!Place(v, i) = Place(v, i) BY <2>1, Cardinalities DEF Poll!Place, Place
  <2>3. Poll!Cardinality(Staying(v)) = Cardinality(Staying(v)) BY Cardinalities
  <2>4. \A n : (CHOOSE i \in Poll!Staying(v) : Poll!Place(v, i) = n) =
                (CHOOSE i \in Staying(v) : Place(v, i) = n)
    <3> TAKE n
    <3>1. \A i : (i \in Poll!Staying(v) /\ Poll!Place(v, i) = n) <=> (i \in Staying(v) /\ Place(v, i) = n)
      BY <2>1, <2>2
    <3> QED BY <3>1
  <2> DEFINE C(n) == CHOOSE i \in Staying(v) : Place(v, i) = n
             D(n) == CHOOSE i \in Poll!Staying(v) : Poll!Place(v, i) = n
  <2>5. Erase(v) = [n \in 1..Cardinality(Staying(v)) |-> v[C(n)]] BY DEF Erase
  <2>6. Poll!Erase(v) = [n \in 1..Poll!Cardinality(Poll!Staying(v)) |-> v[D(n)]] BY DEF Poll!Erase
  <2>7. \A n : D(n) = C(n) BY <2>4
  <2> HIDE DEF C, D
  <2> QED BY <2>1, <2>3, <2>5, <2>6, <2>7
<1>3. ASSUME NEW S \in SUBSET Nat, S # {} PROVE Poll!Min(S) \in S
  <2>1. \E m \in S : \A k \in S : m <= k BY <1>3, LeastNumber
  <2> QED BY <2>1 DEF Poll!Min
<1> QED BY <1>1, <1>2, <1>3

\* A new poll_t serves nothing.
LEMMA PollStarts ==
  Good("poll", New("poll")) /\ \A h, f, s, E : ~Serves("poll", New("poll"), h, f, s, E)
<1> DEFINE p == New("poll")
           x == [index |-> RetiredFd, sink |-> "none"]
<1>1. p = [pollset |-> << >>, retired |-> FALSE, fd_table |-> [fd \in Fds |-> x]]
  BY PollOps DEF Poll!New, Poll!RetiredFd, RetiredFd
<1>2. DOMAIN p = {"pollset", "retired", "fd_table"} /\ p.pollset = << >> BY <1>1
<1>3. DOMAIN p.fd_table = Fds /\ \A fd \in Fds : p.fd_table[fd] = x
  <2> HIDE DEF p, x
  <2>1. p.fd_table = [fd \in Fds |-> x] BY <1>1
  <2> QED BY <2>1
<1>4. DOMAIN x = {"index", "sink"} /\ x.index = RetiredFd OBVIOUS
<1> HIDE DEF p, x
<1>5. p.pollset \in Seq(PollEntry) /\ DOMAIN p.pollset = {} BY <1>2
<1>6. PollGood(p) BY <1>2, <1>3, <1>4, <1>5 DEF PollGood, PollEntry
<1> QED BY <1>3, <1>4, <1>6, PollOps DEF p

\* What poll_t watches is what it serves, and what it hears it serves.
LEMMA PollSound ==
  ASSUME NEW p, Good("poll", p)
  PROVE  Sound("poll", p)
<1>g. PollGood(p) BY PollOps
<1>t. /\ DOMAIN p.pollset = 1..Len(p.pollset) /\ Len(p.pollset) \in Nat
      /\ \A i \in DOMAIN p.pollset : p.pollset[i] \in PollEntry
      /\ \A i \in DOMAIN p.pollset : p.pollset[i].fd # RetiredFd =>
              p.pollset[i].fd \in Fds /\ p.fd_table[p.pollset[i].fd].index = i /\ i # RetiredFd
  BY <1>g, PollTable
<1>e. \A i \in DOMAIN p.pollset : p.pollset[i].events \subseteq Evs BY <1>t DEF PollEntry
<1>i. \A f \in Fds : p.fd_table[f].index # RetiredFd =>
         p.fd_table[f].index \in DOMAIN p.pollset /\ p.pollset[p.fd_table[f].index].fd = f
  BY <1>g DEF PollGood
<1>1. \A h, f, s, E : Serves("poll", p, h, f, s, E) => f \in Fds /\ E \subseteq Evs
  BY <1>e, <1>i, PollOps
<1>2. \A h, f, s, E, g, r, D :
          Serves("poll", p, h, f, s, E) /\ Serves("poll", p, g, f, r, D) => h = g
  BY PollOps
<1>3. \A h, f, s, E, g, r, D :
          Serves("poll", p, h, f, s, E) /\ Serves("poll", p, h, g, r, D) => f = g /\ s = r /\ E = D
  BY PollOps
<1>v. \A i \in DOMAIN p.pollset : p.pollset[i].fd # RetiredFd =>
         Serves("poll", p, p.pollset[i].fd, p.pollset[i].fd, p.fd_table[p.pollset[i].fd].sink,
                p.pollset[i].events)
  BY <1>t, PollOps
<1>4. \A e : Heard("poll", p, e) => \E h, f, E : Serves("poll", p, h, f, Sink("poll", p, e), E)
  <2> SUFFICES ASSUME NEW e, Heard("poll", p, e)
               PROVE  \E h, f, E : Serves("poll", p, h, f, Sink("poll", p, e), E)
    OBVIOUS
  <2>1. e \in DOMAIN p.pollset /\ p.pollset[e].fd # RetiredFd BY PollOps
  <2>2. Sink("poll", p, e) = p.fd_table[p.pollset[e].fd].sink BY PollOps
  <2> QED BY <1>v, <2>1, <2>2
<1> DEFINE Live == {x \in {p.pollset[i] : i \in DOMAIN p.pollset} : x.fd # RetiredFd}
<1>w. Watched("poll", p) = UNION {{x.fd} \X (x.events \cup {"err"}) : x \in Live}
  BY PollOps, PollOperators DEF Poll!Watched, Poll!RetiredFd, RetiredFd
<1> HIDE DEF Live
<1>5. ASSUME NEW x \in Watched("poll", p)
      PROVE  /\ x = <<x[1], x[2]>> /\ x[2] \in AllEvs
             /\ \E h, s, E : Serves("poll", p, h, x[1], s, E) /\ (x[2] \in E \/ x[2] = "err")
  <2>1. PICK y \in Live : x \in {y.fd} \X (y.events \cup {"err"}) BY <1>w, <1>5
  <2>2. PICK i \in DOMAIN p.pollset : y = p.pollset[i] /\ y.fd # RetiredFd BY <2>1 DEF Live
  <2>3. x = <<x[1], x[2]>> /\ x[1] = y.fd /\ x[2] \in y.events \cup {"err"} BY <2>1
  <2>4. Serves("poll", p, x[1], x[1], p.fd_table[x[1]].sink, y.events) BY <1>v, <2>2, <2>3
  <2>5. y.events \subseteq Evs BY <1>e, <2>2
  <2> QED BY <2>3, <2>4, <2>5 DEF Evs, AllEvs
<1>6. ASSUME NEW h, NEW f, NEW s, NEW E, NEW ev, Serves("poll", p, h, f, s, E), ev \in E
      PROVE  <<f, ev>> \in Watched("poll", p)
  <2> DEFINE y == p.pollset[p.fd_table[f].index]
  <2>1. /\ f \in Fds /\ p.fd_table[f].index # RetiredFd /\ E = y.events
    BY <1>6, PollOps
  <2>2. y \in Live /\ y.fd = f BY <1>i, <2>1, PollerAssumption, SMTT(30) DEF Live, RetiredFd
  <2>3. <<f, ev>> \in {y.fd} \X (y.events \cup {"err"}) BY <1>6, <2>1, <2>2
  <2> HIDE DEF y
  <2> QED BY <1>w, <2>2, <2>3
<1>7. ASSUME NEW past PROVE Todo("poll", p, past) \subseteq Positions("poll", p)
  <2> DEFINE left == DOMAIN p.pollset \ past
  <2>1. Todo("poll", p, past) = IF left = {} THEN {} ELSE {Poll!Min(left)} BY PollOps DEF Poll!Todo
  <2>2. left \in SUBSET Nat BY <1>t
  <2>3. left # {} => Poll!Min(left) \in left
    <3> HIDE DEF left
    <3> QED BY <2>2, PollOperators
  <2> QED BY <2>1, <2>3, PollOps
<1>8. \A f, ev : <<f, ev>> \in Watched("poll", p) =>
         ev \in AllEvs /\ \E h, s, E : Serves("poll", p, h, f, s, E) /\ (ev \in E \/ ev = "err")
  BY <1>5
<1> QED BY <1>1, <1>2, <1>3, <1>4, <1>5, <1>6, <1>7, <1>8 DEF Sound

\* poll_t::loop: poll () fills in the entries it was given, by place.
LEMMA PollReports ==
  ASSUME NEW p, NEW reported, Good("poll", p), reported \subseteq Watched("poll", p)
  PROVE  Reports("poll", p, Waited("poll", p, reported), reported)
<1> DEFINE q == Waited("poll", p, reported)
           Rev(i) == {ev \in AllEvs : <<p.pollset[i].fd, ev>> \in reported}
           x(i) == [p.pollset[i] EXCEPT !.revents = Rev(i)]
<1>g. PollGood(p) BY PollOps
<1>t. /\ DOMAIN p.pollset = 1..Len(p.pollset) /\ Len(p.pollset) \in Nat
      /\ \A i \in DOMAIN p.pollset : p.pollset[i] \in PollEntry
      /\ \A i \in DOMAIN p.pollset : p.pollset[i].fd # RetiredFd =>
              p.pollset[i].fd \in Fds /\ p.fd_table[p.pollset[i].fd].index = i
  BY <1>g, PollTable
<1>1. q = [p EXCEPT !.pollset = [i \in DOMAIN p.pollset |-> x(i)]]
  <2>1. q = Poll!Waited(p, reported) BY PollOps
  <2> HIDE DEF q
  <2> QED BY <2>1 DEF Poll!Waited, AllEvs
<1>x. \A i \in DOMAIN p.pollset : /\ x(i) \in PollEntry /\ x(i).fd = p.pollset[i].fd
                                  /\ x(i).events = p.pollset[i].events /\ x(i).revents = Rev(i)
  <2> TAKE i \in DOMAIN p.pollset
  <2>1. p.pollset[i] \in PollEntry BY <1>t
  <2>2. Rev(i) \subseteq AllEvs OBVIOUS
  <2> HIDE DEF Rev
  <2> QED BY <2>1, <2>2 DEF PollEntry
<1> HIDE DEF x, q
<1>2. /\ DOMAIN q = {"pollset", "retired", "fd_table"} /\ q.retired = p.retired
      /\ q.fd_table = p.fd_table /\ q.pollset = [i \in DOMAIN p.pollset |-> x(i)]
  BY <1>g, <1>1 DEF PollGood
<1>3. DOMAIN q.pollset = DOMAIN p.pollset /\ \A i \in DOMAIN p.pollset : q.pollset[i] = x(i) BY <1>2
<1>s. q.pollset \in Seq(PollEntry) BY <1>t, <1>2, <1>x
<1>4. \A i \in DOMAIN p.pollset : /\ q.pollset[i].fd = p.pollset[i].fd
                                  /\ q.pollset[i].events = p.pollset[i].events
                                  /\ q.pollset[i].revents = Rev(i)
  BY <1>3, <1>x
<1>5. PollGood(q)
  <2>1. \A f \in Fds : q.fd_table[f].index # RetiredFd =>
          q.fd_table[f].index \in DOMAIN q.pollset /\ q.pollset[q.fd_table[f].index].fd = f
    BY <1>g, <1>2, <1>3, <1>4 DEF PollGood
  <2>2. /\ \A i \in DOMAIN q.pollset :
             q.pollset[i].fd # RetiredFd => q.fd_table[q.pollset[i].fd].index = i
        /\ ~q.retired => \A i \in DOMAIN q.pollset : q.pollset[i].fd # RetiredFd
    BY <1>g, <1>2, <1>3, <1>4 DEF PollGood
  <2>3. DOMAIN q.fd_table = Fds /\ \A f \in Fds : DOMAIN q.fd_table[f] = {"index", "sink"}
    BY <1>g, <1>2 DEF PollGood
  <2> QED BY <1>2, <1>s, <2>1, <2>2, <2>3 DEF PollGood, PollEntry
<1>6. \A h, f, s, E : Serves("poll", q, h, f, s, E) <=> Serves("poll", p, h, f, s, E)
  <2> TAKE h, f, s, E
  <2>1. CASE f \notin Fds BY <2>1, PollOps
  <2>2. CASE f \in Fds
    <3>1. p.fd_table[f].index # RetiredFd => p.fd_table[f].index \in DOMAIN p.pollset
      BY <1>g, <2>2 DEF PollGood
    <3>2. Serves("poll", q, h, f, s, E) <=>
            /\ h = f /\ f \in Fds /\ q.fd_table[f].index # RetiredFd
            /\ q.fd_table[f].sink = s /\ q.pollset[q.fd_table[f].index].events = E
      BY PollOps
    <3>3. Serves("poll", p, h, f, s, E) <=>
            /\ h = f /\ f \in Fds /\ p.fd_table[f].index # RetiredFd
            /\ p.fd_table[f].sink = s /\ p.pollset[p.fd_table[f].index].events = E
      BY PollOps
    <3> QED BY <1>2, <1>4, <3>1, <3>2, <3>3
  <2> QED BY <2>1, <2>2
<1>7. ASSUME NEW e, Heard("poll", q, e)
      PROVE  \E h, f, E : /\ Serves("poll", p, h, f, Sink("poll", q, e), E)
                          /\ \E y \in reported : y[1] = f
  <2>1. /\ e \in DOMAIN p.pollset /\ q.pollset[e].fd # RetiredFd
        /\ \E ev \in AllEvs : ev \in q.pollset[e].revents
    BY <1>3, <1>7, PollOps
  <2>2. p.pollset[e].fd \in Fds /\ p.fd_table[p.pollset[e].fd].index = e BY <1>t, <1>4, <2>1
  <2>3. PICK ev \in AllEvs : <<p.pollset[e].fd, ev>> \in reported BY <1>4, <2>1
  <2>4. Sink("poll", q, e) = p.fd_table[p.pollset[e].fd].sink
    <3>1. Sink("poll", q, e) = q.fd_table[q.pollset[e].fd].sink BY PollOps
    <3> QED BY <1>2, <1>4, <2>1, <3>1
  <2>5. Serves("poll", p, p.pollset[e].fd, p.pollset[e].fd, p.fd_table[p.pollset[e].fd].sink,
               p.pollset[e].events)
    <3>1. e # RetiredFd BY <1>t, <2>1 DEF RetiredFd
    <3> QED BY <2>2, <3>1, PollOps
  <2>6. <<p.pollset[e].fd, ev>>[1] = p.pollset[e].fd OBVIOUS
  <2> QED BY <2>3, <2>4, <2>5, <2>6
<1> QED BY <1>5, <1>6, <1>7, PollOps DEF Reports, Keeps, q

\* The clean-up at the end of the loop of poll_t: every entry that stays is found
\* through the table at its new place.
LEMMA PollKeeps ==
  ASSUME NEW p, Good("poll", p)
  PROVE  Keeps("poll", p, LoopTop("poll", p)) /\ Keeps("poll", p, Cleanup("poll", p))
<1> DEFINE q == Cleanup("poll", p)
           v == p.pollset
           n == Len(p.pollset)
           left == Erase(p.pollset)
           At(fd) == CHOOSE i \in DOMAIN left : left[i].fd = fd
           In(fd) == \E i \in DOMAIN left : left[i].fd = fd
           Row(fd) == IF In(fd) THEN [p.fd_table[fd] EXCEPT !.index = At(fd)] ELSE p.fd_table[fd]
<1>g. PollGood(p) BY PollOps
<1>k. Keeps("poll", p, p) BY DEF Keeps
<1>l. Keeps("poll", p, LoopTop("poll", p)) BY <1>k, PollOps
<1>e. q = Poll!Cleanup(p) BY PollOps
<1>1. CASE ~p.retired
  <2> HIDE DEF q
  <2>1. q = p BY <1>e, <1>1 DEF Poll!Cleanup
  <2> QED BY <1>k, <1>l, <2>1 DEF q
<1>2. CASE p.retired
  <2>t. /\ DOMAIN v = 1..n /\ n \in Nat
        /\ \A i \in DOMAIN v : v[i] \in PollEntry
        /\ \A i \in DOMAIN v : v[i].fd # RetiredFd =>
              v[i].fd \in Fds /\ p.fd_table[v[i].fd].index = i /\ i # RetiredFd
    BY <1>g, PollTable
  <2>1. q = [p EXCEPT !.pollset = left, !.retired = FALSE, !.fd_table = [fd \in Fds |-> Row(fd)]]
    <3>1. Poll!Erase(p.pollset) = left BY PollOperators
    <3> HIDE DEF left, q
    <3> QED BY <1>e, <1>2, <3>1 DEF Poll!Cleanup
  <2>2. /\ Cardinality(Staying(v)) \in Nat
        /\ DOMAIN left = 1..Cardinality(Staying(v))
        /\ \A i \in Staying(v) : Place(v, i) \in DOMAIN left /\ left[Place(v, i)] = v[i]
        /\ \A k \in DOMAIN left : \E i \in Staying(v) : Place(v, i) = k /\ left[k] = v[i]
        /\ \A i, j \in Staying(v) : Place(v, i) = Place(v, j) => i = j
    <3> HIDE DEF n
    <3> QED BY <2>t, Erased
  <2> HIDE DEF left, q, v, n
  <2>3. \A i : i \in Staying(v) <=> i \in DOMAIN v /\ v[i].fd # RetiredFd BY DEF Staying
  <2>4. \A k \in DOMAIN left : left[k] \in PollEntry /\ left[k].fd \in Fds
    BY <2>t, <2>2, <2>3
  <2>5. \A k, l \in DOMAIN left : left[k].fd = left[l].fd => k = l
    <3> SUFFICES ASSUME NEW k \in DOMAIN left, NEW l \in DOMAIN left, left[k].fd = left[l].fd
                 PROVE  k = l
      OBVIOUS
    <3>1. PICK i \in Staying(v) : Place(v, i) = k /\ left[k] = v[i] BY <2>2
    <3>2. PICK j \in Staying(v) : Place(v, j) = l /\ left[l] = v[j] BY <2>2
    <3>3. i = j BY <2>t, <2>3, <3>1, <3>2
    <3> QED BY <3>1, <3>2, <3>3
  <2>6. \A fd \in Fds : In(fd) <=> p.fd_table[fd].index # RetiredFd
    <3> TAKE fd \in Fds
    <3>1. ASSUME p.fd_table[fd].index # RetiredFd PROVE In(fd)
      <4>1. p.fd_table[fd].index \in DOMAIN v /\ v[p.fd_table[fd].index].fd = fd
        BY <1>g, <3>1 DEF PollGood, v
      <4>2. fd # RetiredFd BY PollerAssumption DEF RetiredFd
      <4>3. p.fd_table[fd].index \in Staying(v) BY <2>3, <4>1, <4>2
      <4> QED BY <2>2, <4>1, <4>3
    <3>2. ASSUME In(fd) PROVE p.fd_table[fd].index # RetiredFd
      <4>1. PICK k \in DOMAIN left : left[k].fd = fd BY <3>2
      <4>2. PICK i \in Staying(v) : left[k] = v[i] BY <2>2
      <4> QED BY <2>t, <2>3, <4>1, <4>2
    <3> QED BY <3>1, <3>2
  <2>7. \A fd \in Fds : In(fd) => At(fd) \in DOMAIN left /\ left[At(fd)].fd = fd OBVIOUS
  <2>8. \A fd \in Fds : In(fd) => left[At(fd)] = v[p.fd_table[fd].index]
    <3> SUFFICES ASSUME NEW fd \in Fds, In(fd) PROVE left[At(fd)] = v[p.fd_table[fd].index]
      OBVIOUS
    <3>1. At(fd) \in DOMAIN left /\ left[At(fd)].fd = fd BY <2>7
    <3> HIDE DEF At
    <3>2. PICK i \in Staying(v) : left[At(fd)] = v[i] BY <2>2, <3>1
    <3> QED BY <2>t, <2>3, <3>1, <3>2
  <2>9. \A k \in DOMAIN left : In(left[k].fd) /\ At(left[k].fd) = k
    <3> TAKE k \in DOMAIN left
    <3>1. In(left[k].fd) OBVIOUS
    <3>2. At(left[k].fd) \in DOMAIN left /\ left[At(left[k].fd)].fd = left[k].fd BY <2>4, <2>7, <3>1
    <3> HIDE DEF At, In
    <3> QED BY <2>5, <3>1, <3>2
  <2>10. \A fd \in Fds : /\ DOMAIN Row(fd) = {"index", "sink"} /\ Row(fd).sink = p.fd_table[fd].sink
                         /\ Row(fd).index = IF In(fd) THEN At(fd) ELSE RetiredFd
    <3> TAKE fd \in Fds
    <3>1. DOMAIN p.fd_table[fd] = {"index", "sink"} BY <1>g DEF PollGood
    <3>2. ~In(fd) => p.fd_table[fd].index = RetiredFd BY <2>6
    <3> HIDE DEF In, At
    <3> QED BY <3>1, <3>2
  <2> HIDE DEF At, In, Row
  <2>11. /\ DOMAIN q = {"pollset", "retired", "fd_table"} /\ q.pollset = left /\ q.retired = FALSE
         /\ DOMAIN q.fd_table = Fds /\ \A fd \in Fds : q.fd_table[fd] = Row(fd)
    BY <1>g, <2>1 DEF PollGood
  <2>12. \A k \in DOMAIN left : k # RetiredFd BY <2>2 DEF RetiredFd
  <2>13. PollGood(q)
    <3>1. left \in Seq(PollEntry)
      <4> DEFINE c == Cardinality(Staying(v))
      <4>1. c \in Nat /\ DOMAIN left = 1..c BY <2>2
      <4> HIDE DEF c
      <4>2. left = [k \in 1..c |-> left[k]]
        <5>1. \E w : left = [k \in 1..w |-> v[CHOOSE i \in Staying(v) : Place(v, i) = k]]
          BY DEF left, Erase, v
        <5> QED BY <4>1, <5>1
      <4>3. \A k \in 1..c : left[k] \in PollEntry BY <2>4, <4>1
      <4> QED BY <4>1, <4>2, <4>3
    <3>2. \A fd \in Fds : q.fd_table[fd].index # RetiredFd =>
            q.fd_table[fd].index \in DOMAIN left /\ left[q.fd_table[fd].index].fd = fd
      BY <2>7, <2>10, <2>11
    <3>3. \A k \in DOMAIN left : q.fd_table[left[k].fd].index = k
      BY <2>4, <2>9, <2>10, <2>11
    <3>4. \A k \in DOMAIN left : left[k].fd # RetiredFd BY <2>2, <2>3
    <3> QED BY <2>10, <2>11, <3>1, <3>2, <3>3, <3>4 DEF PollGood, PollEntry
  <2>14. \A h, f, s, E : Serves("poll", q, h, f, s, E) <=> Serves("poll", p, h, f, s, E)
    <3> TAKE h, f, s, E
    <3>1. CASE f \notin Fds BY <3>1, PollOps
    <3>2. CASE f \in Fds
      <4>1. Serves("poll", q, h, f, s, E) <=>
              /\ h = f /\ f \in Fds /\ q.fd_table[f].index # RetiredFd
              /\ q.fd_table[f].sink = s /\ q.pollset[q.fd_table[f].index].events = E
        BY PollOps
      <4>2. Serves("poll", p, h, f, s, E) <=>
              /\ h = f /\ f \in Fds /\ p.fd_table[f].index # RetiredFd
              /\ p.fd_table[f].sink = s /\ v[p.fd_table[f].index].events = E
        BY PollOps DEF v
      <4>3. q.fd_table[f].sink = p.fd_table[f].sink BY <2>10, <2>11, <3>2
      <4>4. CASE In(f)
        <5>1. q.fd_table[f].index = At(f) /\ At(f) \in DOMAIN left BY <2>7, <2>10, <2>11, <3>2, <4>4
        <5>2. q.fd_table[f].index # RetiredFd /\ p.fd_table[f].index # RetiredFd
          BY <2>6, <2>12, <3>2, <4>4, <5>1
        <5> QED BY <2>8, <2>11, <3>2, <4>1, <4>2, <4>3, <4>4, <5>1, <5>2
      <4>5. CASE ~In(f)
        <5>1. q.fd_table[f].index = RetiredFd /\ p.fd_table[f].index = RetiredFd
          BY <2>6, <2>10, <2>11, <3>2, <4>5
        <5> QED BY <4>1, <4>2, <5>1
      <4> QED BY <4>4, <4>5
    <3> QED BY <3>1, <3>2
  <2> QED BY <1>l, <2>13, <2>14, PollOps DEF Keeps, q
<1> QED BY <1>1, <1>2
-----------------------------------------------------------------------------
(* select_t.                                                               *)

\* The operations of select_t, by name.
LEMMA SelectOps ==
  /\ New("select") = Select!New
  /\ \A p, fd : Fresh("select", p, fd) = fd
  /\ \A p, fd, sink : AddFd("select", p, fd, sink) = Select!AddFd(p, fd, sink)
  /\ \A p, h : RmFd("select", p, h) = Select!RmFd(p, h)
  /\ \A p, h, ev : SetPoll("select", p, h, ev) = Select!SetPoll(p, h, ev)
  /\ \A p, h, ev : ResetPoll("select", p, h, ev) = Select!ResetPoll(p, h, ev)
  /\ \A p : Watched("select", p) = Select!Watched(p)
  /\ \A p : LoopTop("select", p) = p
  /\ \A p, reported : Waited("select", p, reported) = Select!Waited(p, reported)
  /\ \A p, past : Todo("select", p, past) = Select!Todo(p, past)
  /\ \A p, i : Sink("select", p, i) = p.fds[i].sink
  /\ \A p : Cleanup("select", p) = Select!Cleanup(p)
  /\ \A p : Good("select", p) <=> SelectGood(p)
  /\ \A p, h, fd, sink, events : Serves("select", p, h, fd, sink, events) <=>
        /\ h = fd /\ fd # RetiredFd
        /\ \E i \in DOMAIN p.fds : p.fds[i].fd = fd /\ p.fds[i].sink = sink
        /\ events = {ev \in Evs : fd \in p.source[ev]}
  /\ \A p : Positions("select", p) = DOMAIN p.fds
  /\ \A p, i : Heard("select", p, i) <=>
        /\ i \in DOMAIN p.fds /\ p.fds[i].fd # RetiredFd
        /\ \E ev \in AllEvs : p.fds[i].fd \in p.ready[ev]
BY DEF New, Fresh, AddFd, RmFd, SetPoll, ResetPoll, Watched, LoopTop, Waited, Todo, Skip, Has, Sink,
       Cleanup, Good, Serves, Positions, Heard, Select!Fresh, Select!LoopTop, Select!Skip,
       Select!Has, Select!Sink, Select!RetiredFd, RetiredFd

\* The operators of select_t's module on sequences and on sets are the usual ones; a
\* bounded set of naturals has a greatest element.
LEMMA SelectOperators ==
  /\ \A v : Select!ToSet(v) = {v[i] : i \in DOMAIN v}
  /\ \A v : Select!Erase(v) = Erase(v)
  /\ \A S \in SUBSET Nat : S # {} => Select!Min(S) \in S
  /\ \A S \in SUBSET Nat, b \in Nat : S # {} /\ (\A k \in S : k <= b) =>
        Select!Max(S) \in S /\ \A k \in S : k <= Select!Max(S)
<1>1. \A v : Select!ToSet(v) = {v[i] : i \in DOMAIN v} BY DEF Select!ToSet
<1>2. \A v : Select!Erase(v) = Erase(v)
  <2> TAKE v
  <2>1. Select!Staying(v) = Staying(v) BY DEF Select!Staying, Select!RetiredFd, Staying, RetiredFd
  <2>2. \A i : Select!Place(v, i) = Place(v, i) BY <2>1, Cardinalities DEF Select!Place, Place
  <2>3. Select!Cardinality(Staying(v)) = Cardinality(Staying(v)) BY Cardinalities
  <2>4. \A n : (CHOOSE i \in Select!Staying(v) : Select!Place(v, i) = n) =
                (CHOOSE i \in Staying(v) : Place(v, i) = n)
    <3> TAKE n
    <3>1. \A i : (i \in Select!Staying(v) /\ Select!Place(v, i) = n) <=> (i \in Staying(v) /\ Place(v, i) = n)
      BY <2>1, <2>2
    <3> QED BY <3>1
  <2> DEFINE C(n) == CHOOSE i \in Staying(v) : Place(v, i) = n
             D(n) == CHOOSE i \in Select!Staying(v) : Select!Place(v, i) = n
  <2>5. Erase(v) = [n \in 1..Cardinality(Staying(v)) |-> v[C(n)]] BY DEF Erase
  <2>6. Select!Erase(v) = [n \in 1..Select!Cardinality(Select!Staying(v)) |-> v[D(n)]] BY DEF Select!Erase
  <2>7. \A n : D(n) = C(n) BY <2>4
  <2> HIDE DEF C, D
  <2> QED BY <2>1, <2>3, <2>5, <2>6, <2>7
<1>3. ASSUME NEW S \in SUBSET Nat, S # {} PROVE Select!Min(S) \in S
  <2>1. \E m \in S : \A k \in S : m <= k BY <1>3, LeastNumber
  <2> QED BY <2>1 DEF Select!Min
<1>4. ASSUME NEW S \in SUBSET Nat, NEW b \in Nat, S # {}, \A k \in S : k <= b
      PROVE  Select!Max(S) \in S /\ \A k \in S : k <= Select!Max(S)
  <2> DEFINE B == {n \in Nat : \A k \in S : k <= n}
  <2>1. B \subseteq Nat /\ b \in B BY <1>4
  <2>2. PICK m \in B : \A n \in B : m <= n
    <3> HIDE DEF B
    <3> QED BY <2>1, LeastNumber
  <2>3. m \in S
    <3> SUFFICES ASSUME m \notin S PROVE FALSE OBVIOUS
    <3>1. PICK k \in S : k \in Nat BY <1>4
    <3>2. \A j \in S : j \in Nat /\ j <= m /\ j # m BY <2>2
    <3>3. m \in Nat /\ m # 0 BY <3>1, <3>2, <2>2
    <3>4. m - 1 \in B BY <3>2, <3>3
    <3> QED BY <2>2, <3>3, <3>4
  <2>4. \E x \in S : \A y \in S : x >= y BY <2>2, <2>3
  <2>5. Select!Max(S) \in S /\ \A y \in S : Select!Max(S) >= y BY <2>4 DEF Select!Max
  <2> HIDE DEF B
  <2> QED BY <2>5
<1> QED BY <1>1, <1>2, <1>3, <1>4

\* What the vector of select_t holds.
LEMMA SelectTable ==
  ASSUME NEW p, SelectGood(p)
  PROVE  /\ Len(p.fds) \in Nat /\ DOMAIN p.fds = 1..Len(p.fds)
         /\ \A i \in DOMAIN p.fds : p.fds[i].fd # RetiredFd => p.fds[i].fd \in Fds /\ p.fds[i].fd \in Nat
         /\ \A i, j \in DOMAIN p.fds :
               p.fds[i].fd # RetiredFd /\ p.fds[i].fd = p.fds[j].fd => i = j
         /\ \A i \in DOMAIN p.fds : p.fds[i].fd # RetiredFd =>
               Serves("select", p, p.fds[i].fd, p.fds[i].fd, p.fds[i].sink,
                      {ev \in Evs : p.fds[i].fd \in p.source[ev]})
<1> DEFINE S == {p.fds[i] : i \in DOMAIN p.fds}
<1>1. p.fds \in Seq(S) BY DEF SelectGood
<1> HIDE DEF S
<1>2. Len(p.fds) \in Nat /\ DOMAIN p.fds = 1..Len(p.fds) BY <1>1
<1>3. \A i \in DOMAIN p.fds : p.fds[i].fd # RetiredFd => p.fds[i].fd \in Fds /\ p.fds[i].fd \in Nat
  BY PollerAssumption DEF SelectGood
<1>4. \A i, j \in DOMAIN p.fds : p.fds[i].fd # RetiredFd /\ p.fds[i].fd = p.fds[j].fd => i = j
  BY DEF SelectGood
<1>5. ASSUME NEW i \in DOMAIN p.fds, p.fds[i].fd # RetiredFd
      PROVE  Serves("select", p, p.fds[i].fd, p.fds[i].fd, p.fds[i].sink,
                    {ev \in Evs : p.fds[i].fd \in p.source[ev]})
  BY <1>5 DEF Serves
<1> QED BY <1>2, <1>3, <1>4, <1>5

\* A new select_t serves nothing.
LEMMA SelectStarts ==
  Good("select", New("select")) /\ \A h, f, s, E : ~Serves("select", New("select"), h, f, s, E)
<1> DEFINE p == New("select")
           no == [err |-> {}, out |-> {}, in |-> {}]
<1>1. p = [fds |-> << >>, source |-> no, ready |-> no, maxfd |-> RetiredFd, retired |-> FALSE]
  BY SelectOps DEF Select!New, Select!NoFds, Select!RetiredFd, RetiredFd
<1>2. /\ DOMAIN p = {"fds", "source", "ready", "maxfd", "retired"} /\ p.fds = << >>
      /\ p.maxfd = RetiredFd /\ p.source = no /\ p.ready = no
  <2> HIDE DEF p, no
  <2> QED BY <1>1
<1>3. DOMAIN no = AllEvs /\ \A ev \in AllEvs : no[ev] = {} BY DEF AllEvs
<1> HIDE DEF p, no
<1>4. DOMAIN p.fds = {} /\ p.fds \in Seq({p.fds[i] : i \in DOMAIN p.fds}) BY <1>2
<1>5. SelectGood(p) BY <1>2, <1>3, <1>4 DEF SelectGood
<1> QED BY <1>4, <1>5, SelectOps DEF p

\* select_t::add_fd: the descriptor is in none of the sets of events reported.
LEMMA SelectAdds ==
  ASSUME NEW p, NEW fd \in Fds, NEW sink, Good("select", p), Free("select", p, fd)
  PROVE  Adds("select", p, AddFd("select", p, fd, sink), Fresh("select", p, fd), fd, sink)
<1> DEFINE q == AddFd("select", p, fd, sink)
           n == Len(p.fds)
           x == [fd |-> fd, sink |-> sink]
           m == IF p.maxfd = RetiredFd \/ fd > p.maxfd THEN fd ELSE p.maxfd
<1>g. SelectGood(p) BY SelectOps
<1>f. fd \in Nat /\ fd # RetiredFd BY PollerAssumption DEF RetiredFd
<1>n. /\ n \in Nat /\ DOMAIN p.fds = 1..n
      /\ \A i, j \in DOMAIN p.fds : p.fds[i].fd # RetiredFd /\ p.fds[i].fd = p.fds[j].fd => i = j
  BY <1>g, SelectTable
<1>1. q = [p EXCEPT !.fds = Append(@, x), !.source.err = p.source.err \cup {fd}, !.maxfd = m]
  <2>1. q = Select!AddFd(p, fd, sink) BY SelectOps
  <2> HIDE DEF q
  <2> QED BY <2>1 DEF Select!AddFd, Select!RetiredFd, RetiredFd
<1>x. DOMAIN x = {"fd", "sink"} /\ x.fd = fd /\ x.sink = sink OBVIOUS
<1> HIDE DEF q, x, m
<1>2. /\ DOMAIN q = {"fds", "source", "ready", "maxfd", "retired"} /\ q.retired = p.retired
      /\ q.fds = Append(p.fds, x) /\ q.ready = p.ready /\ q.maxfd = m
      /\ q.source = [p.source EXCEPT !.err = p.source.err \cup {fd}]
  BY <1>g, <1>1 DEF SelectGood
<1>3. /\ DOMAIN q.fds = 1..(n + 1) /\ q.fds[n + 1] = x
      /\ \A i \in 1..n : q.fds[i] = p.fds[i]
      /\ q.fds \in Seq({q.fds[i] : i \in DOMAIN q.fds})
  <2> DEFINE S == {p.fds[i] : i \in DOMAIN p.fds}
             T == S \cup {x}
  <2>1. p.fds \in Seq(S) BY <1>g DEF SelectGood
  <2> HIDE DEF S
  <2>2. p.fds \in Seq(T) BY <2>1
  <2>3. q.fds \in Seq(T) BY <1>2, <2>2
  <2>4. DOMAIN q.fds = 1..(n + 1) /\ q.fds[n + 1] = x /\ \A i \in 1..n : q.fds[i] = p.fds[i]
    BY <1>2, <1>n, <2>2
  <2> HIDE DEF T
  <2>5. q.fds \in Seq({q.fds[i] : i \in DOMAIN q.fds}) BY <2>3
  <2> QED BY <2>4, <2>5
<1>4. /\ DOMAIN q.source = AllEvs /\ q.source["err"] = p.source["err"] \cup {fd}
      /\ \A ev \in Evs : q.source[ev] = p.source[ev]
  BY <1>g, <1>2 DEF SelectGood, AllEvs, Evs
<1>5. \A i \in 1..n : p.fds[i].fd # fd
  <2> SUFFICES ASSUME NEW i \in 1..n, p.fds[i].fd = fd PROVE FALSE OBVIOUS
  <2>1. \E E : Serves("select", p, fd, fd, p.fds[i].sink, E) BY <1>g, <1>f, <1>n, SelectTable
  <2> QED BY <2>1 DEF Free
<1>6. \A ev \in AllEvs : fd \notin p.source[ev] /\ fd \notin p.ready[ev]
  BY <1>g, <1>n, <1>5 DEF SelectGood
<1>v. \A i \in 1..n : /\ DOMAIN p.fds[i] = {"fd", "sink"} /\ p.fds[i].fd \in Fds \cup {RetiredFd}
                      /\ p.fds[i].fd <= p.maxfd
  BY <1>g, <1>n DEF SelectGood
<1> HIDE DEF n
<1>7. m \in Fds /\ fd <= m /\ p.maxfd <= m /\ m \in Int /\ p.maxfd \in Int
  <2>1. p.maxfd \in Fds \cup {RetiredFd} /\ p.maxfd \in Int
    <3>1. p.maxfd \in Fds \cup {RetiredFd} BY <1>g DEF SelectGood
    <3>2. Fds \cup {RetiredFd} \subseteq Int BY PollerAssumption DEF RetiredFd
    <3> QED BY <3>1, <3>2
  <2> QED BY <1>f, <2>1, PollerAssumption DEF m, RetiredFd
<1>8. SelectGood(q)
  <2>1. \A i \in DOMAIN q.fds : DOMAIN q.fds[i] = {"fd", "sink"} /\ q.fds[i].fd \in Fds \cup {RetiredFd}
    <3> SUFFICES ASSUME NEW i \in 1..(n + 1)
                 PROVE  DOMAIN q.fds[i] = {"fd", "sink"} /\ q.fds[i].fd \in Fds \cup {RetiredFd}
      BY <1>3
    <3>1. i = n + 1 \/ i \in 1..n BY <1>n
    <3>2. CASE i = n + 1 BY <1>3, <1>x, <3>2
    <3>3. CASE i \in 1..n BY <1>3, <1>v, <3>3
    <3> QED BY <3>1, <3>2, <3>3
  <2>2. \A i, j \in DOMAIN q.fds : q.fds[i].fd = q.fds[j].fd => i = j \/ q.fds[i].fd = RetiredFd
    <3> SUFFICES ASSUME NEW i \in 1..(n + 1), NEW j \in 1..(n + 1), q.fds[i].fd = q.fds[j].fd, i # j
                 PROVE  q.fds[i].fd = RetiredFd
      BY <1>3
    <3>1. (i = n + 1 \/ i \in 1..n) /\ (j = n + 1 \/ j \in 1..n) BY <1>n
    <3>2. i \in 1..n /\ j \in 1..n BY <1>3, <1>5, <1>x, <3>1
    <3> QED BY <1>n, <1>3, <3>2
  <2>3. \A ev \in AllEvs : \A k \in q.source[ev] \cup q.ready[ev] :
          k # RetiredFd /\ \E i \in DOMAIN q.fds : q.fds[i].fd = k
    <3> SUFFICES ASSUME NEW ev \in AllEvs, NEW k \in q.source[ev] \cup q.ready[ev]
                 PROVE  k # RetiredFd /\ \E i \in DOMAIN q.fds : q.fds[i].fd = k
      OBVIOUS
    <3>1. k = fd \/ k \in p.source[ev] \cup p.ready[ev] BY <1>2, <1>4 DEF AllEvs, Evs
    <3>2. CASE k = fd
      <4>1. n + 1 \in DOMAIN q.fds BY <1>n, <1>3
      <4> QED BY <1>f, <1>3, <1>x, <3>2, <4>1
    <3>3. CASE k \in p.source[ev] \cup p.ready[ev]
      <4>1. k # RetiredFd /\ \E i \in 1..n : p.fds[i].fd = k BY <1>g, <1>n, <3>3 DEF SelectGood
      <4>2. PICK i \in 1..n : p.fds[i].fd = k BY <4>1
      <4>3. i \in DOMAIN q.fds BY <1>n, <1>3
      <4> QED BY <1>3, <4>1, <4>2, <4>3
    <3> QED BY <3>1, <3>2, <3>3
  <2>4. \A i \in DOMAIN q.fds : q.fds[i].fd # RetiredFd => q.fds[i].fd \in q.source["err"]
    <3> SUFFICES ASSUME NEW i \in 1..(n + 1), q.fds[i].fd # RetiredFd PROVE q.fds[i].fd \in q.source["err"]
      BY <1>3
    <3>1. i = n + 1 \/ i \in 1..n BY <1>n
    <3> QED BY <1>g, <1>n, <1>3, <1>4, <1>x, <3>1, ZenonT(60) DEF SelectGood
  <2>5. \A i \in DOMAIN q.fds : q.fds[i].fd <= q.maxfd
    <3> SUFFICES ASSUME NEW i \in 1..(n + 1) PROVE q.fds[i].fd <= m
      BY <1>2, <1>3
    <3>1. i = n + 1 \/ i \in 1..n BY <1>n
    <3>2. CASE i = n + 1 BY <1>3, <1>x, <1>7, <3>2
    <3>3. CASE i \in 1..n
      <4>1. p.fds[i].fd <= p.maxfd /\ p.fds[i].fd \in Int
        <5>1. Fds \cup {RetiredFd} \subseteq Int BY PollerAssumption DEF RetiredFd
        <5> QED BY <1>v, <3>3, <5>1
      <4> QED BY <1>3, <1>7, <3>3, <4>1
    <3> QED BY <3>1, <3>2, <3>3
  <2>6. DOMAIN q.ready = AllEvs BY <1>g, <1>2 DEF SelectGood
  <2> QED BY <1>2, <1>3, <1>4, <1>7, <2>1, <2>2, <2>3, <2>4, <2>5, <2>6 DEF SelectGood
<1>9. Quieter("select", p, q)
  <2>1. Positions("select", p) \subseteq Positions("select", q) BY <1>n, <1>3, SelectOps
  <2>2. ASSUME NEW i, Heard("select", q, i)
        PROVE  Heard("select", p, i) /\ Sink("select", q, i) = Sink("select", p, i)
    <3>1. /\ i \in 1..(n + 1) /\ q.fds[i].fd # RetiredFd
          /\ \E ev \in AllEvs : q.fds[i].fd \in p.ready[ev]
      BY <1>2, <1>3, <2>2, SelectOps, ZenonT(60)
    <3>2. i # n + 1 BY <1>3, <1>x, <1>6, <3>1
    <3>3. i \in 1..n /\ q.fds[i] = p.fds[i] BY <1>n, <1>3, <3>1, <3>2
    <3>4. Heard("select", p, i) BY <1>n, <3>1, <3>3, SelectOps
    <3>5. Sink("select", q, i) = q.fds[i].sink BY SelectOps
    <3>6. Sink("select", p, i) = p.fds[i].sink BY SelectOps
    <3> QED BY <3>3, <3>4, <3>5, <3>6
  <2> QED BY <2>1, <2>2 DEF Quieter
<1>10. \A f, s, E : ~Serves("select", p, fd, f, s, E) BY SelectOps DEF Free
<1>11. \A h, f, s, E : Serves("select", q, h, f, s, E) <=>
         Serves("select", p, h, f, s, E) \/ (h = fd /\ f = fd /\ s = sink /\ E = {})
  <2> TAKE h, f, s, E
  <2> DEFINE Ask(r) == {ev \in Evs : f \in r.source[ev]}
             At(r) == \E i \in DOMAIN r.fds : r.fds[i].fd = f /\ r.fds[i].sink = s
  <2>1. Serves("select", q, h, f, s, E) <=> h = f /\ f # RetiredFd /\ At(q) /\ E = Ask(q)
    BY SelectOps
  <2>2. Serves("select", p, h, f, s, E) <=> h = f /\ f # RetiredFd /\ At(p) /\ E = Ask(p)
    BY SelectOps
  <2>3. Ask(q) = Ask(p) BY <1>4
  <2>4. CASE f = fd
    <3>1. Ask(p) = {} BY <1>6, <2>4 DEF AllEvs, Evs
    <3>2. At(q) <=> s = sink
      <4>1. At(q) <=> \E i \in 1..(n + 1) : q.fds[i].fd = f /\ q.fds[i].sink = s BY <1>3
      <4>2. n + 1 \in 1..(n + 1) /\ \A i \in 1..(n + 1) : i # n + 1 => i \in 1..n BY <1>n
      <4>3. \A i \in 1..(n + 1) : q.fds[i].fd = f => i = n + 1 BY <1>3, <1>5, <2>4, <4>2
      <4> HIDE DEF At
      <4> QED BY <1>3, <1>x, <2>4, <4>1, <4>2, <4>3
    <3>3. ~Serves("select", p, h, f, s, E) BY <2>4 DEF Free
    <3> HIDE DEF Ask, At
    <3> QED BY <1>f, <2>1, <2>3, <2>4, <3>1, <3>2, <3>3
  <2>5. CASE f # fd
    <3>1. At(q) <=> At(p)
      <4>1. At(q) <=> \E i \in 1..(n + 1) : q.fds[i].fd = f /\ q.fds[i].sink = s BY <1>3
      <4>2. At(p) <=> \E i \in 1..n : p.fds[i].fd = f /\ p.fds[i].sink = s BY <1>n
      <4>3. \A i \in 1..(n + 1) : q.fds[i].fd = f => i \in 1..n
        <5> SUFFICES ASSUME NEW i \in 1..(n + 1), q.fds[i].fd = f PROVE i \in 1..n OBVIOUS
        <5>1. i # n + 1 BY <1>3, <1>x, <2>5
        <5> QED BY <1>n, <5>1
      <4>4. \A i \in 1..n : i \in 1..(n + 1) BY <1>n
      <4> HIDE DEF At
      <4> QED BY <1>3, <4>1, <4>2, <4>3, <4>4
    <3> HIDE DEF Ask, At
    <3> QED BY <2>1, <2>2, <2>3, <2>5, <3>1
  <2> QED BY <2>4, <2>5
<1> QED BY <1>8, <1>9, <1>10, <1>11, SelectOps DEF Adds, q

\* select_t::rm_fd takes the descriptor out of every set, of the events already reported
\* too, and finds the greatest of those that remain.
LEMMA SelectRemoves ==
  ASSUME NEW p, NEW fd, NEW f0, NEW s0, NEW E0, Good("select", p), Serves("select", p, fd, f0, s0, E0)
  PROVE  Removes("select", p, RmFd("select", p, fd), fd)
<1> DEFINE q == RmFd("select", p, fd)
           at == CHOOSE i \in DOMAIN p.fds : p.fds[i].fd = fd
           left == {y.fd : y \in {p.fds[i] : i \in DOMAIN p.fds}} \ {fd, RetiredFd}
           m == IF fd # p.maxfd THEN p.maxfd ELSE IF left = {} THEN RetiredFd ELSE Select!Max(left)
           Less(sets) == [ev \in DOMAIN sets |-> sets[ev] \ {fd}]
           x == [p.fds[at] EXCEPT !.fd = RetiredFd]
<1>g. SelectGood(p) BY SelectOps
<1>f. fd # RetiredFd /\ \E i \in DOMAIN p.fds : p.fds[i].fd = fd BY SelectOps
<1>a. at \in DOMAIN p.fds /\ p.fds[at].fd = fd BY <1>f
<1>1. q = [p EXCEPT !.fds[at].fd = RetiredFd, !.retired = TRUE,
                    !.source = Less(p.source), !.ready = Less(p.ready), !.maxfd = m]
  <2>1. q = Select!RmFd(p, fd) BY SelectOps
  <2> HIDE DEF q
  <2> QED BY <2>1, SelectOperators DEF Select!RmFd, Select!Cleared, Select!RetiredFd, RetiredFd
<1> HIDE DEF q, m, Less, at
<1>2. /\ DOMAIN q = {"fds", "source", "ready", "maxfd", "retired"}
      /\ q.fds = [p.fds EXCEPT ![at] = x] /\ q.source = Less(p.source) /\ q.ready = Less(p.ready)
      /\ q.maxfd = m
  BY <1>g, <1>1 DEF SelectGood
<1>t. /\ Len(p.fds) \in Nat /\ DOMAIN p.fds = 1..Len(p.fds)
      /\ \A i \in DOMAIN p.fds : p.fds[i].fd # RetiredFd => p.fds[i].fd \in Fds /\ p.fds[i].fd \in Nat
      /\ \A i, j \in DOMAIN p.fds : p.fds[i].fd # RetiredFd /\ p.fds[i].fd = p.fds[j].fd => i = j
  BY <1>g, SelectTable
<1>x. DOMAIN x = {"fd", "sink"} /\ x.fd = RetiredFd BY <1>g, <1>a DEF SelectGood
<1> HIDE DEF x
<1>3. /\ DOMAIN q.fds = DOMAIN p.fds /\ q.fds[at] = x
      /\ \A i \in DOMAIN p.fds \ {at} : q.fds[i] = p.fds[i]
      /\ q.fds \in Seq({q.fds[i] : i \in DOMAIN q.fds})
  <2> DEFINE S == {p.fds[i] : i \in DOMAIN p.fds}
             T == S \cup {x}
  <2>1. p.fds \in Seq(S) BY <1>g DEF SelectGood
  <2> HIDE DEF S
  <2>2. p.fds \in Seq(T) /\ x \in T BY <2>1
  <2> HIDE DEF T
  <2>3. q.fds \in Seq(T) BY <1>2, <1>a, <2>2
  <2>4. q.fds \in Seq({q.fds[i] : i \in DOMAIN q.fds}) BY <2>3
  <2> QED BY <1>2, <1>a, <2>4
<1>4. \A i \in DOMAIN p.fds : i # at => p.fds[i].fd # fd BY <1>a, <1>f, <1>t
<1>5. /\ DOMAIN q.source = AllEvs /\ \A ev \in AllEvs : q.source[ev] = p.source[ev] \ {fd}
      /\ DOMAIN q.ready = AllEvs /\ \A ev \in AllEvs : q.ready[ev] = p.ready[ev] \ {fd}
  <2>1. DOMAIN p.source = AllEvs /\ DOMAIN p.ready = AllEvs BY <1>g DEF SelectGood
  <2> QED BY <1>2, <2>1 DEF Less
<1>6. m \in Fds \cup {RetiredFd} /\ \A i \in DOMAIN p.fds \ {at} : p.fds[i].fd <= m
  <2>1. p.maxfd \in Fds \cup {RetiredFd} /\ \A i \in DOMAIN p.fds : p.fds[i].fd <= p.maxfd
    BY <1>g DEF SelectGood
  <2>2. CASE fd # p.maxfd BY <2>1, <2>2 DEF m
  <2>3. CASE fd = p.maxfd
    <3>1. \A k : k \in left <=> k # fd /\ k # RetiredFd /\ \E i \in DOMAIN p.fds : p.fds[i].fd = k
      OBVIOUS
    <3> HIDE DEF left
    <3>2. left \in SUBSET Nat /\ left \subseteq Fds BY <1>t, <3>1
    <3>3. p.maxfd \in Nat /\ \A k \in left : k <= p.maxfd BY <1>a, <1>f, <1>t, <2>1, <2>3, <3>1
    <3>4. CASE left = {}
      <4>1. m = RetiredFd BY <2>3, <3>4 DEF m
      <4>2. \A i \in DOMAIN p.fds \ {at} : p.fds[i].fd = RetiredFd BY <1>4, <3>1, <3>4
      <4> QED BY <4>1, <4>2 DEF RetiredFd
    <3>5. CASE left # {}
      <4>1. m = Select!Max(left) BY <2>3, <3>5 DEF m
      <4>2. m \in left /\ \A k \in left : k <= m BY <3>2, <3>3, <3>5, <4>1, SelectOperators
      <4>3. \A i \in DOMAIN p.fds \ {at} : p.fds[i].fd = RetiredFd \/ p.fds[i].fd \in left
        BY <1>4, <3>1
      <4>4. RetiredFd <= m BY <3>2, <4>2 DEF RetiredFd
      <4> QED BY <3>2, <4>2, <4>3, <4>4
    <3> QED BY <3>4, <3>5
  <2> QED BY <2>2, <2>3
<1> HIDE DEF left
<1>7. SelectGood(q)
  <2>1. \A i \in DOMAIN q.fds : DOMAIN q.fds[i] = {"fd", "sink"} /\ q.fds[i].fd \in Fds \cup {RetiredFd}
    <3>1. \A i \in DOMAIN p.fds : DOMAIN p.fds[i] = {"fd", "sink"} /\ p.fds[i].fd \in Fds \cup {RetiredFd}
      BY <1>g DEF SelectGood
    <3> QED BY <1>3, <1>x, <3>1
  <2>2. \A i, j \in DOMAIN q.fds : q.fds[i].fd = q.fds[j].fd => i = j \/ q.fds[i].fd = RetiredFd
    BY <1>3, <1>t, <1>x
  <2>3. \A ev \in AllEvs : \A k \in q.source[ev] \cup q.ready[ev] :
          k # RetiredFd /\ \E i \in DOMAIN q.fds : q.fds[i].fd = k
    <3> SUFFICES ASSUME NEW ev \in AllEvs, NEW k \in q.source[ev] \cup q.ready[ev]
                 PROVE  k # RetiredFd /\ \E i \in DOMAIN q.fds : q.fds[i].fd = k
      OBVIOUS
    <3>1. k # fd /\ k \in p.source[ev] \cup p.ready[ev] BY <1>5
    <3>2. k # RetiredFd /\ \E i \in DOMAIN p.fds : p.fds[i].fd = k BY <1>g, <3>1 DEF SelectGood
    <3>3. PICK i \in DOMAIN p.fds : p.fds[i].fd = k BY <3>2
    <3> QED BY <1>3, <1>a, <3>1, <3>2, <3>3
  <2>4. \A i \in DOMAIN q.fds : q.fds[i].fd # RetiredFd => q.fds[i].fd \in q.source["err"]
    <3> SUFFICES ASSUME NEW i \in DOMAIN p.fds, q.fds[i].fd # RetiredFd PROVE q.fds[i].fd \in q.source["err"]
      BY <1>3
    <3>1. i # at /\ q.fds[i] = p.fds[i] BY <1>3, <1>x
    <3>2. p.fds[i].fd \in p.source["err"] BY <1>g, <3>1 DEF SelectGood
    <3>3. "err" \in AllEvs BY DEF AllEvs
    <3> QED BY <1>4, <1>5, <3>1, <3>2, <3>3
  <2>5. \A i \in DOMAIN q.fds : q.fds[i].fd <= m
    <3> SUFFICES ASSUME NEW i \in DOMAIN p.fds PROVE q.fds[i].fd <= m
      BY <1>3
    <3>1. CASE i = at
      <4>1. q.fds[i].fd = RetiredFd BY <1>3, <1>x, <3>1
      <4>2. RetiredFd <= m BY <1>6, PollerAssumption DEF RetiredFd
      <4> QED BY <4>1, <4>2
    <3>2. CASE i # at BY <1>3, <1>6, <3>2
    <3> QED BY <3>1, <3>2
  <2> QED BY <1>2, <1>3, <1>5, <1>6, <2>1, <2>2, <2>3, <2>4, <2>5 DEF SelectGood
<1>8. Quieter("select", p, q)
  <2>1. Positions("select", p) \subseteq Positions("select", q) BY <1>3, SelectOps
  <2>2. ASSUME NEW i, Heard("select", q, i)
        PROVE  Heard("select", p, i) /\ Sink("select", q, i) = Sink("select", p, i)
    <3>1. /\ i \in DOMAIN p.fds /\ q.fds[i].fd # RetiredFd
          /\ \E ev \in AllEvs : q.fds[i].fd \in q.ready[ev]
      BY <1>3, <2>2, SelectOps
    <3>2. i # at /\ q.fds[i] = p.fds[i] BY <1>3, <1>x, <3>1
    <3>3. \E ev \in AllEvs : p.fds[i].fd \in p.ready[ev] BY <1>5, <3>1, <3>2
    <3>4. Heard("select", p, i) BY <3>1, <3>2, <3>3, SelectOps
    <3>5. Sink("select", q, i) = q.fds[i].sink BY SelectOps
    <3>6. Sink("select", p, i) = p.fds[i].sink BY SelectOps
    <3> QED BY <3>2, <3>4, <3>5, <3>6
  <2> QED BY <2>1, <2>2 DEF Quieter
<1>9. \A h, f, s, E : Serves("select", q, h, f, s, E) <=> Serves("select", p, h, f, s, E) /\ h # fd
  <2> TAKE h, f, s, E
  <2> DEFINE Ask(r) == {ev \in Evs : f \in r.source[ev]}
             At(r) == \E i \in DOMAIN r.fds : r.fds[i].fd = f /\ r.fds[i].sink = s
  <2>1. Serves("select", q, h, f, s, E) <=> h = f /\ f # RetiredFd /\ At(q) /\ E = Ask(q)
    BY SelectOps
  <2>2. Serves("select", p, h, f, s, E) <=> h = f /\ f # RetiredFd /\ At(p) /\ E = Ask(p)
    BY SelectOps
  <2>3. f # fd => Ask(q) = Ask(p) BY <1>5 DEF AllEvs, Evs
  <2>4. f = fd => ~At(q) BY <1>3, <1>4, <1>x, <1>f
  <2>5. f # fd /\ f # RetiredFd => (At(q) <=> At(p))
    <3> SUFFICES ASSUME f # fd, f # RetiredFd PROVE At(q) <=> At(p) OBVIOUS
    <3>1. \A i \in DOMAIN p.fds : q.fds[i].fd = f => i # at BY <1>3, <1>x
    <3>2. \A i \in DOMAIN p.fds : p.fds[i].fd = f => i # at BY <1>a
    <3> QED BY <1>3, <3>1, <3>2
  <2> HIDE DEF Ask, At
  <2> QED BY <2>1, <2>2, <2>3, <2>4, <2>5
<1> QED BY <1>7, <1>8, <1>9, SelectOps DEF Removes, q

\* set_pollin, set_pollout, reset_pollin and reset_pollout of select_t change the set
\* of one event by one descriptor.
LEMMA SelectTurns ==
  ASSUME NEW p, NEW h, NEW f, NEW s, NEW E, NEW ev \in Evs,
         Good("select", p), Serves("select", p, h, f, s, E)
  PROVE  /\ Turns("select", p, SetPoll("select", p, h, ev), h, E \cup {ev})
         /\ Turns("select", p, ResetPoll("select", p, h, ev), h, E \ {ev})
<1>g. SelectGood(p) BY SelectOps
<1>h. /\ h = f /\ h # RetiredFd /\ \E i \in DOMAIN p.fds : p.fds[i].fd = h
      /\ E = {e \in Evs : h \in p.source[e]}
  BY SelectOps
<1>1. ASSUME NEW D, NEW A, NEW q, q = [p EXCEPT !.source[ev] = A],
             \A k : k # h => (k \in A <=> k \in p.source[ev]),
             \A e \in Evs : e \in D <=> IF e = ev THEN h \in A ELSE h \in p.source[e],
             D \subseteq Evs
      PROVE  Turns("select", p, q, h, D)
  <2>1. /\ DOMAIN q = {"fds", "source", "ready", "maxfd", "retired"}
        /\ q.fds = p.fds /\ q.ready = p.ready /\ q.maxfd = p.maxfd
        /\ q.source = [p.source EXCEPT ![ev] = A]
    BY <1>g, <1>1 DEF SelectGood
  <2>2. /\ DOMAIN q.source = AllEvs /\ q.source["err"] = p.source["err"]
        /\ \A e \in AllEvs : q.source[e] = IF e = ev THEN A ELSE p.source[e]
    BY <1>g, <2>1 DEF SelectGood, Evs, AllEvs
  <2>3. \A e \in AllEvs : \A k \in q.source[e] \cup q.ready[e] :
          k # RetiredFd /\ \E i \in DOMAIN q.fds : q.fds[i].fd = k
    <3> SUFFICES ASSUME NEW e \in AllEvs, NEW k \in q.source[e] \cup q.ready[e]
                 PROVE  k # RetiredFd /\ \E i \in DOMAIN p.fds : p.fds[i].fd = k
      BY <2>1
    <3>1. CASE k = h BY <1>h, <3>1
    <3>2. CASE k # h
      <4>1. k \in p.source[e] \cup p.ready[e] BY <1>1, <2>1, <2>2, <3>2
      <4> QED BY <1>g, <4>1 DEF SelectGood
    <3> QED BY <3>1, <3>2
  <2>4. SelectGood(q)
    <3>1. /\ q.fds \in Seq({q.fds[i] : i \in DOMAIN q.fds})
          /\ \A i \in DOMAIN q.fds : /\ DOMAIN q.fds[i] = {"fd", "sink"}
                                     /\ q.fds[i].fd \in Fds \cup {RetiredFd}
          /\ \A i, j \in DOMAIN q.fds : q.fds[i].fd = q.fds[j].fd => i = j \/ q.fds[i].fd = RetiredFd
          /\ DOMAIN q.ready = AllEvs
          /\ q.maxfd \in Fds \cup {RetiredFd}
          /\ \A i \in DOMAIN q.fds : q.fds[i].fd <= q.maxfd
      BY <1>g, <2>1 DEF SelectGood
    <3>2. \A i \in DOMAIN q.fds : q.fds[i].fd # RetiredFd => q.fds[i].fd \in q.source["err"]
      BY <1>g, <2>1, <2>2 DEF SelectGood
    <3> QED BY <2>1, <2>2, <2>3, <3>1, <3>2 DEF SelectGood
  <2>5. Quieter("select", p, q)
    <3>1. Positions("select", p) \subseteq Positions("select", q) BY <2>1, SelectOps
    <3>2. ASSUME NEW i, Heard("select", q, i)
          PROVE  Heard("select", p, i) /\ Sink("select", q, i) = Sink("select", p, i)
      <4>1. Heard("select", p, i) BY <2>1, <3>2, SelectOps
      <4>2. Sink("select", q, i) = q.fds[i].sink BY SelectOps
      <4>3. Sink("select", p, i) = p.fds[i].sink BY SelectOps
      <4> QED BY <2>1, <4>1, <4>2, <4>3
    <3> QED BY <3>1, <3>2 DEF Quieter
  <2>6. \A k, fd, r, C : Serves("select", q, k, fd, r, C) <=>
          \/ k # h /\ Serves("select", p, k, fd, r, C)
          \/ k = h /\ C = D /\ \E B : Serves("select", p, k, fd, r, B)
    <3> TAKE k, fd, r, C
    <3> DEFINE Ask(w) == {e \in Evs : fd \in w.source[e]}
               At == \E i \in DOMAIN p.fds : p.fds[i].fd = fd /\ p.fds[i].sink = r
    <3>1. Serves("select", q, k, fd, r, C) <=> k = fd /\ fd # RetiredFd /\ At /\ C = Ask(q)
      <4>1. Serves("select", q, k, fd, r, C) <=>
              /\ k = fd /\ fd # RetiredFd
              /\ \E i \in DOMAIN q.fds : q.fds[i].fd = fd /\ q.fds[i].sink = r
              /\ C = Ask(q)
        BY SelectOps
      <4> HIDE DEF Ask
      <4> QED BY <2>1, <4>1
    <3>2. \A B : Serves("select", p, k, fd, r, B) <=> k = fd /\ fd # RetiredFd /\ At /\ B = Ask(p)
      BY SelectOps
    <3>3. fd # h => Ask(q) = Ask(p) BY <1>1, <2>2 DEF Evs, AllEvs
    <3>4. fd = h => Ask(q) = D
      <4> SUFFICES ASSUME fd = h PROVE \A e : e \in Ask(q) <=> e \in D OBVIOUS
      <4>1. \A e \in Evs : h \in q.source[e] <=> e \in D
        <5> TAKE e \in Evs
        <5>1. q.source[e] = IF e = ev THEN A ELSE p.source[e] BY <2>2 DEF Evs, AllEvs
        <5> QED BY <1>1, <5>1
      <4> QED BY <1>1, <4>1
    <3> HIDE DEF Ask, At
    <3> QED BY <3>1, <3>2, <3>3, <3>4
  <2> QED BY <2>4, <2>5, <2>6, SelectOps DEF Turns
<1>2. DOMAIN p.source = AllEvs /\ ev \in AllEvs BY <1>g DEF SelectGood, Evs, AllEvs
<1>3. Turns("select", p, SetPoll("select", p, h, ev), h, E \cup {ev})
  <2> DEFINE A == p.source[ev] \cup {h}
             q == SetPoll("select", p, h, ev)
  <2>1. q = Select!SetPoll(p, h, ev) BY SelectOps
  <2> HIDE DEF q
  <2>2. q = [p EXCEPT !.source[ev] = A] BY <1>g, <1>2, <2>1 DEF Select!SetPoll, SelectGood
  <2>3. \A k : k # h => (k \in A <=> k \in p.source[ev]) OBVIOUS
  <2>4. \A e \in Evs : e \in E \cup {ev} <=> IF e = ev THEN h \in A ELSE h \in p.source[e] BY <1>h
  <2>5. E \cup {ev} \subseteq Evs BY <1>h
  <2> HIDE DEF A
  <2> QED BY <1>1, <2>2, <2>3, <2>4, <2>5 DEF q
<1>4. Turns("select", p, ResetPoll("select", p, h, ev), h, E \ {ev})
  <2> DEFINE A == p.source[ev] \ {h}
             q == ResetPoll("select", p, h, ev)
  <2>1. q = Select!ResetPoll(p, h, ev) BY SelectOps
  <2> HIDE DEF q
  <2>2. q = [p EXCEPT !.source[ev] = A] BY <1>g, <1>2, <2>1 DEF Select!ResetPoll, SelectGood
  <2>3. \A k : k # h => (k \in A <=> k \in p.source[ev]) OBVIOUS
  <2>4. \A e \in Evs : e \in E \ {ev} <=> IF e = ev THEN h \in A ELSE h \in p.source[e] BY <1>h
  <2>5. E \ {ev} \subseteq Evs BY <1>h
  <2> HIDE DEF A
  <2> QED BY <1>1, <2>2, <2>3, <2>4, <2>5 DEF q
<1> QED BY <1>3, <1>4

\* What select_t watches is what it serves: maxfd leaves nothing out.
LEMMA SelectSound ==
  ASSUME NEW p, Good("select", p)
  PROVE  Sound("select", p)
<1>g. SelectGood(p) BY SelectOps
<1>t. /\ Len(p.fds) \in Nat /\ DOMAIN p.fds = 1..Len(p.fds)
      /\ \A i \in DOMAIN p.fds : p.fds[i].fd # RetiredFd => p.fds[i].fd \in Fds /\ p.fds[i].fd \in Nat
      /\ \A i, j \in DOMAIN p.fds : p.fds[i].fd # RetiredFd /\ p.fds[i].fd = p.fds[j].fd => i = j
      /\ \A i \in DOMAIN p.fds : p.fds[i].fd # RetiredFd =>
            Serves("select", p, p.fds[i].fd, p.fds[i].fd, p.fds[i].sink,
                   {ev \in Evs : p.fds[i].fd \in p.source[ev]})
  BY <1>g, SelectTable
<1>1. \A h, f, s, E : Serves("select", p, h, f, s, E) => f \in Fds /\ E \subseteq Evs
  BY <1>t, SelectOps
<1>2. \A h, f, s, E, g, r, D :
          Serves("select", p, h, f, s, E) /\ Serves("select", p, g, f, r, D) => h = g
  BY SelectOps
<1>3. ASSUME NEW h, NEW f, NEW s, NEW E, NEW g, NEW r, NEW D,
             Serves("select", p, h, f, s, E), Serves("select", p, h, g, r, D)
      PROVE  f = g /\ s = r /\ E = D
  <2>1. f = g /\ f # RetiredFd /\ E = D
    <3>1. h = f /\ f # RetiredFd /\ E = {ev \in Evs : f \in p.source[ev]} BY <1>3, SelectOps
    <3>2. h = g /\ D = {ev \in Evs : g \in p.source[ev]} BY <1>3, SelectOps
    <3> QED BY <3>1, <3>2
  <2>2. PICK i \in DOMAIN p.fds : p.fds[i].fd = f /\ p.fds[i].sink = s BY <1>3, SelectOps
  <2>3. PICK j \in DOMAIN p.fds : p.fds[j].fd = g /\ p.fds[j].sink = r BY <1>3, SelectOps
  <2> QED BY <1>t, <2>1, <2>2, <2>3
<1>4. ASSUME NEW e, Heard("select", p, e)
      PROVE  \E h, f, E : Serves("select", p, h, f, Sink("select", p, e), E)
  <2>1. e \in DOMAIN p.fds /\ p.fds[e].fd # RetiredFd BY <1>4, SelectOps
  <2>2. Sink("select", p, e) = p.fds[e].sink BY SelectOps
  <2> DEFINE E == {ev \in Evs : p.fds[e].fd \in p.source[ev]}
  <2>3. Serves("select", p, p.fds[e].fd, p.fds[e].fd, p.fds[e].sink, E) BY <1>t, <2>1
  <2> HIDE DEF E
  <2> QED BY <2>2, <2>3
<1> DEFINE Low(ev) == {fd \in p.source[ev] : p.maxfd # RetiredFd /\ fd <= p.maxfd}
<1>w. Watched("select", p) = UNION {Low(ev) \X {ev} : ev \in AllEvs}
  BY SelectOps DEF Select!Watched, Select!RetiredFd, RetiredFd, AllEvs
<1>5. ASSUME NEW x \in Watched("select", p)
      PROVE  /\ x = <<x[1], x[2]>> /\ x[2] \in AllEvs
             /\ \E h, s, E : Serves("select", p, h, x[1], s, E) /\ (x[2] \in E \/ x[2] = "err")
  <2>1. PICK ev \in AllEvs : x \in Low(ev) \X {ev} BY <1>w, <1>5
  <2>2. x = <<x[1], x[2]>> /\ x[1] \in p.source[ev] /\ x[2] = ev BY <2>1
  <2>3. x[1] # RetiredFd /\ \E i \in DOMAIN p.fds : p.fds[i].fd = x[1] BY <1>g, <2>2 DEF SelectGood
  <2>4. PICK i \in DOMAIN p.fds : p.fds[i].fd = x[1] BY <2>3
  <2> DEFINE E == {e \in Evs : x[1] \in p.source[e]}
  <2>5. Serves("select", p, x[1], x[1], p.fds[i].sink, E) BY <1>t, <2>3, <2>4
  <2>6. x[2] \in E \/ x[2] = "err" BY <2>2 DEF Evs, AllEvs
  <2> HIDE DEF E
  <2> QED BY <2>2, <2>5, <2>6
<1>6. ASSUME NEW h, NEW f, NEW s, NEW E, NEW ev, Serves("select", p, h, f, s, E), ev \in E
      PROVE  <<f, ev>> \in Watched("select", p)
  <2>1. f # RetiredFd /\ ev \in AllEvs /\ f \in p.source[ev] BY <1>6, SelectOps DEF Evs, AllEvs
  <2>2. PICK i \in DOMAIN p.fds : p.fds[i].fd = f BY <1>6, SelectOps
  <2>3. f \in Nat /\ f <= p.maxfd BY <1>g, <1>t, <2>1, <2>2 DEF SelectGood
  <2>4. p.maxfd # RetiredFd BY <2>3 DEF RetiredFd
  <2>5. <<f, ev>> \in Low(ev) \X {ev} BY <2>1, <2>3, <2>4
  <2> HIDE DEF Low
  <2> QED BY <1>w, <2>1, <2>5
<1>7. ASSUME NEW past PROVE Todo("select", p, past) \subseteq Positions("select", p)
  <2> DEFINE left == DOMAIN p.fds \ past
  <2>1. Todo("select", p, past) = IF left = {} THEN {} ELSE {Select!Min(left)} BY SelectOps DEF Select!Todo
  <2>2. left \in SUBSET Nat BY <1>t
  <2>3. left # {} => Select!Min(left) \in left
    <3> HIDE DEF left
    <3> QED BY <2>2, SelectOperators
  <2> QED BY <2>1, <2>3, SelectOps
<1>8. \A f, ev : <<f, ev>> \in Watched("select", p) =>
         ev \in AllEvs /\ \E h, s, E : Serves("select", p, h, f, s, E) /\ (ev \in E \/ ev = "err")
  BY <1>5
<1> QED BY <1>1, <1>2, <1>3, <1>4, <1>5, <1>6, <1>7, <1>8 DEF Sound

\* select_t::loop: select () leaves in its sets the descriptors that have the event.
LEMMA SelectReports ==
  ASSUME NEW p, NEW reported, Good("select", p), reported \subseteq Watched("select", p)
  PROVE  Reports("select", p, Waited("select", p, reported), reported)
<1> DEFINE q == Waited("select", p, reported)
           Those(ev) == {x[1] : x \in {x \in reported : x[2] = ev}}
<1>g. SelectGood(p) BY SelectOps
<1>d. DOMAIN p.ready = AllEvs BY <1>g DEF SelectGood
<1>1. q = [p EXCEPT !.ready = [ev \in AllEvs |-> Those(ev)]]
  <2>1. q = Select!Waited(p, reported) BY SelectOps
  <2> HIDE DEF q
  <2> QED BY <1>d, <2>1 DEF Select!Waited
<1>t. \A ev, k : k \in Those(ev) => \E x \in reported : x[1] = k OBVIOUS
<1> HIDE DEF q, Those
<1>2. /\ DOMAIN q = {"fds", "source", "ready", "maxfd", "retired"} /\ q.fds = p.fds
      /\ q.source = p.source /\ q.maxfd = p.maxfd
      /\ DOMAIN q.ready = AllEvs /\ \A ev \in AllEvs : q.ready[ev] = Those(ev)
  BY <1>g, <1>1 DEF SelectGood
<1>3. \A x \in reported : x[1] # RetiredFd /\ \E i \in DOMAIN p.fds : p.fds[i].fd = x[1]
  <2> TAKE x \in reported
  <2>1. Sound("select", p) BY SelectSound
  <2>2. x = <<x[1], x[2]>> /\ x \in Watched("select", p) BY <2>1 DEF Sound
  <2>3. PICK h, s, E : Serves("select", p, h, x[1], s, E) BY <2>1, <2>2 DEF Sound
  <2> QED BY <2>3, SelectOps
<1>4. SelectGood(q)
  <2>1. \A e \in AllEvs : \A k \in q.source[e] \cup q.ready[e] :
          k # RetiredFd /\ \E i \in DOMAIN q.fds : q.fds[i].fd = k
    <3> SUFFICES ASSUME NEW e \in AllEvs, NEW k \in q.source[e] \cup q.ready[e]
                 PROVE  k # RetiredFd /\ \E i \in DOMAIN p.fds : p.fds[i].fd = k
      BY <1>2
    <3>1. CASE k \in p.source[e] BY <1>g, <3>1 DEF SelectGood
    <3>2. CASE k \in Those(e) BY <1>3, <1>t, <3>2
    <3> QED BY <1>2, <3>1, <3>2
  <2>2. /\ q.fds \in Seq({q.fds[i] : i \in DOMAIN q.fds})
        /\ \A i \in DOMAIN q.fds : /\ DOMAIN q.fds[i] = {"fd", "sink"}
                                   /\ q.fds[i].fd \in Fds \cup {RetiredFd}
        /\ \A i, j \in DOMAIN q.fds : q.fds[i].fd = q.fds[j].fd => i = j \/ q.fds[i].fd = RetiredFd
        /\ DOMAIN q.source = AllEvs
        /\ q.maxfd \in Fds \cup {RetiredFd}
        /\ \A i \in DOMAIN q.fds : q.fds[i].fd <= q.maxfd
        /\ \A i \in DOMAIN q.fds : q.fds[i].fd # RetiredFd => q.fds[i].fd \in q.source["err"]
    BY <1>g, <1>2 DEF SelectGood
  <2> QED BY <1>2, <2>1, <2>2 DEF SelectGood
<1>5. \A h, f, s, E : Serves("select", q, h, f, s, E) <=> Serves("select", p, h, f, s, E)
  BY <1>2 DEF Serves
<1>6. ASSUME NEW e, Heard("select", q, e)
      PROVE  \E h, f, E : /\ Serves("select", p, h, f, Sink("select", q, e), E)
                          /\ \E x \in reported : x[1] = f
  <2>1. /\ e \in DOMAIN p.fds /\ p.fds[e].fd # RetiredFd
        /\ \E ev \in AllEvs : p.fds[e].fd \in q.ready[ev]
    BY <1>2, <1>6, SelectOps
  <2>2. \E x \in reported : x[1] = p.fds[e].fd BY <1>2, <1>t, <2>1
  <2>3. Sink("select", q, e) = p.fds[e].sink
    <3>1. Sink("select", q, e) = q.fds[e].sink BY SelectOps
    <3> QED BY <1>2, <3>1
  <2> DEFINE E == {ev \in Evs : p.fds[e].fd \in p.source[ev]}
  <2>4. Serves("select", p, p.fds[e].fd, p.fds[e].fd, p.fds[e].sink, E) BY <1>g, <2>1, SelectTable
  <2> HIDE DEF E
  <2> QED BY <2>2, <2>3, <2>4
<1> QED BY <1>4, <1>5, <1>6, SelectOps DEF Reports, Keeps, q

\* The clean-up at the end of the loop of select_t erases the retired entries and no other.
LEMMA SelectKeeps ==
  ASSUME NEW p, Good("select", p)
  PROVE  Keeps("select", p, LoopTop("select", p)) /\ Keeps("select", p, Cleanup("select", p))
<1> DEFINE q == Cleanup("select", p)
           v == p.fds
           n == Len(p.fds)
           left == Erase(p.fds)
<1>g. SelectGood(p) BY SelectOps
<1>k. Keeps("select", p, p) BY DEF Keeps
<1>l. Keeps("select", p, LoopTop("select", p)) BY <1>k, SelectOps
<1>e. q = Select!Cleanup(p) BY SelectOps
<1>1. CASE ~p.retired
  <2> HIDE DEF q
  <2>1. q = p BY <1>e, <1>1 DEF Select!Cleanup
  <2> QED BY <1>k, <1>l, <2>1 DEF q
<1>2. CASE p.retired
  <2>t. /\ n \in Nat /\ DOMAIN v = 1..n
        /\ \A i, j \in DOMAIN v : v[i].fd # RetiredFd /\ v[i].fd = v[j].fd => i = j
    BY <1>g, SelectTable
  <2>1. q = [p EXCEPT !.fds = left, !.retired = FALSE]
    <3>1. Select!Erase(p.fds) = left BY SelectOperators
    <3> HIDE DEF left, q
    <3> QED BY <1>e, <1>2, <3>1 DEF Select!Cleanup
  <2>2. /\ Cardinality(Staying(v)) \in Nat
        /\ DOMAIN left = 1..Cardinality(Staying(v))
        /\ \A i \in Staying(v) : Place(v, i) \in DOMAIN left /\ left[Place(v, i)] = v[i]
        /\ \A k \in DOMAIN left : \E i \in Staying(v) : Place(v, i) = k /\ left[k] = v[i]
    <3> HIDE DEF n
    <3> QED BY <2>t, Erased
  <2> HIDE DEF left, q, n, v
  <2>3. \A i : i \in Staying(v) <=> i \in DOMAIN v /\ v[i].fd # RetiredFd BY DEF Staying
  <2>4. \A k \in DOMAIN left : \E i \in DOMAIN v : left[k] = v[i] /\ v[i].fd # RetiredFd
    BY <2>2, <2>3
  <2>5. \A i \in DOMAIN v : v[i].fd # RetiredFd => \E k \in DOMAIN left : left[k] = v[i]
    BY <2>2, <2>3
  <2>6. \A k, l \in DOMAIN left : left[k].fd = left[l].fd => k = l
    <3> SUFFICES ASSUME NEW k \in DOMAIN left, NEW l \in DOMAIN left, left[k].fd = left[l].fd
                 PROVE  k = l
      OBVIOUS
    <3>1. PICK i \in Staying(v) : Place(v, i) = k /\ left[k] = v[i] BY <2>2
    <3>2. PICK j \in Staying(v) : Place(v, j) = l /\ left[l] = v[j] BY <2>2
    <3>3. i = j BY <2>t, <2>3, <3>1, <3>2
    <3> QED BY <3>1, <3>2, <3>3
  <2>7. left \in Seq({left[k] : k \in DOMAIN left})
    <3> DEFINE c == Cardinality(Staying(v))
               T == {left[k] : k \in DOMAIN left}
    <3>1. c \in Nat /\ DOMAIN left = 1..c BY <2>2
    <3> HIDE DEF c
    <3>2. left = [k \in 1..c |-> left[k]]
      <4>1. \E w : left = [k \in 1..w |-> v[CHOOSE i \in Staying(v) : Place(v, i) = k]]
        BY DEF left, Erase, v
      <4> QED BY <3>1, <4>1
    <3>3. \A k \in 1..c : left[k] \in T BY <3>1
    <3> HIDE DEF T
    <3> QED BY <3>1, <3>2, <3>3 DEF T
  <2>8. /\ DOMAIN q = {"fds", "source", "ready", "maxfd", "retired"} /\ q.fds = left
        /\ q.source = p.source /\ q.ready = p.ready /\ q.maxfd = p.maxfd
    BY <1>g, <2>1 DEF SelectGood
  <2>9. SelectGood(q)
    <3>v. \A i \in DOMAIN v : /\ DOMAIN v[i] = {"fd", "sink"} /\ v[i].fd \in Fds \cup {RetiredFd}
                              /\ v[i].fd <= p.maxfd
                              /\ v[i].fd # RetiredFd => v[i].fd \in p.source["err"]
      BY <1>g DEF SelectGood, v
    <3>1. \A k \in DOMAIN left : /\ DOMAIN left[k] = {"fd", "sink"}
                                 /\ left[k].fd \in Fds \cup {RetiredFd}
                                 /\ left[k].fd <= p.maxfd /\ left[k].fd \in p.source["err"]
      BY <2>4, <3>v
    <3>2. \A e \in AllEvs : \A k \in p.source[e] \cup p.ready[e] :
            k # RetiredFd /\ \E i \in DOMAIN left : left[i].fd = k
      <4> SUFFICES ASSUME NEW e \in AllEvs, NEW k \in p.source[e] \cup p.ready[e]
                   PROVE  k # RetiredFd /\ \E i \in DOMAIN left : left[i].fd = k
        OBVIOUS
      <4>1. k # RetiredFd /\ \E i \in DOMAIN v : v[i].fd = k BY <1>g DEF SelectGood, v
      <4> QED BY <2>5, <4>1
    <3>3. /\ DOMAIN q.source = AllEvs /\ DOMAIN q.ready = AllEvs /\ q.maxfd \in Fds \cup {RetiredFd}
      BY <1>g, <2>8 DEF SelectGood
    <3> QED BY <2>6, <2>7, <2>8, <3>1, <3>2, <3>3 DEF SelectGood
  <2>10. \A h, f, s, E : Serves("select", q, h, f, s, E) <=> Serves("select", p, h, f, s, E)
    <3> TAKE h, f, s, E
    <3> DEFINE Ask == {ev \in Evs : f \in p.source[ev]}
    <3>1. Serves("select", q, h, f, s, E) <=>
            /\ h = f /\ f # RetiredFd /\ E = Ask
            /\ \E k \in DOMAIN left : left[k].fd = f /\ left[k].sink = s
      BY <2>8 DEF Serves
    <3>2. Serves("select", p, h, f, s, E) <=>
            /\ h = f /\ f # RetiredFd /\ E = Ask
            /\ \E i \in DOMAIN v : v[i].fd = f /\ v[i].sink = s
      BY DEF Serves, v
    <3> HIDE DEF Ask
    <3> QED BY <2>4, <2>5, <3>1, <3>2
  <2> QED BY <1>l, <2>9, <2>10, SelectOps DEF Keeps, q
<1> QED BY <1>1, <1>2
-----------------------------------------------------------------------------
(* What every poller promises.                                             *)

\* A new poller serves no descriptor.
LEMMA PollerStarts ==
  ASSUME NEW backend \in Kinds
  PROVE  Good(backend, New(backend)) /\ \A h, f, s, E : ~Serves(backend, New(backend), h, f, s, E)
BY EpollStarts, PollStarts, SelectStarts, KqueueStarts, DevpollStarts DEF Kinds

\* add_fd: one more descriptor is served, and no event of the running batch is for it.
LEMMA PollerAdds ==
  ASSUME NEW backend \in Kinds, NEW p, NEW fd \in Fds, NEW sink, Good(backend, p), Free(backend, p, fd)
  PROVE  Adds(backend, p, AddFd(backend, p, fd, sink), Fresh(backend, p, fd), fd, sink)
<1>1. CASE backend = "epoll" BY <1>1, EpollAdds
<1>2. CASE backend = "poll" BY <1>2, PollAdds
<1>3. CASE backend = "select" BY <1>3, SelectAdds
<1>4. CASE backend = "kqueue" BY <1>4, KqueueAdds
<1>5. CASE backend = "devpoll" BY <1>5, DevpollAdds
<1> QED BY <1>1, <1>2, <1>3, <1>4, <1>5 DEF Kinds

\* rm_fd: one descriptor fewer is served, and no event of the batch comes to another sink.
LEMMA PollerRemoves ==
  ASSUME NEW backend \in Kinds, NEW p, NEW h, NEW f, NEW s, NEW E, Good(backend, p),
         Serves(backend, p, h, f, s, E)
  PROVE  Removes(backend, p, RmFd(backend, p, h), h)
<1>1. CASE backend = "epoll" BY <1>1, EpollRemoves
<1>2. CASE backend = "poll" BY <1>2, PollRemoves
<1>3. CASE backend = "select" BY <1>3, SelectRemoves
<1>4. CASE backend = "kqueue" BY <1>4, KqueueRemoves
<1>5. CASE backend = "devpoll" BY <1>5, DevpollRemoves
<1> QED BY <1>1, <1>2, <1>3, <1>4, <1>5 DEF Kinds

\* set_pollin and its like change the events of the one descriptor.
LEMMA PollerTurns ==
  ASSUME NEW backend \in Kinds, NEW p, NEW h, NEW f, NEW s, NEW E, NEW ev \in Evs, Good(backend, p),
         Serves(backend, p, h, f, s, E)
  PROVE  /\ Turns(backend, p, SetPoll(backend, p, h, ev), h, E \cup {ev})
         /\ Turns(backend, p, ResetPoll(backend, p, h, ev), h, E \ {ev})
<1>1. CASE backend = "epoll" BY <1>1, EpollTurns
<1>2. CASE backend = "poll" BY <1>2, PollTurns
<1>3. CASE backend = "select" BY <1>3, SelectTurns
<1>4. CASE backend = "kqueue" BY <1>4, KqueueTurns
<1>5. CASE backend = "devpoll" BY <1>5, DevpollTurns
<1> QED BY <1>1, <1>2, <1>3, <1>4, <1>5 DEF Kinds

\* The wait changes no registration, and the batch it fills in is for the sinks of the
\* descriptors that were reported.
LEMMA PollerReports ==
  ASSUME NEW backend \in Kinds, NEW p, NEW reported, Good(backend, p), reported \subseteq Watched(backend, p)
  PROVE  Reports(backend, p, Waited(backend, p, reported), reported)
<1>1. CASE backend = "epoll" BY <1>1, EpollReports
<1>2. CASE backend = "poll" BY <1>2, PollReports
<1>3. CASE backend = "select" BY <1>3, SelectReports
<1>4. CASE backend = "kqueue" BY <1>4, KqueueReports
<1>5. CASE backend = "devpoll" BY <1>5, DevpollReports
<1> QED BY <1>1, <1>2, <1>3, <1>4, <1>5 DEF Kinds

\* The top and the clean-up of the loop change no registration.
LEMMA PollerKeeps ==
  ASSUME NEW backend \in Kinds, NEW p, Good(backend, p)
  PROVE  Keeps(backend, p, LoopTop(backend, p)) /\ Keeps(backend, p, Cleanup(backend, p))
<1>1. CASE backend = "epoll" BY <1>1, EpollKeeps
<1>2. CASE backend = "poll" BY <1>2, PollKeeps
<1>3. CASE backend = "select" BY <1>3, SelectKeeps
<1>4. CASE backend = "kqueue" BY <1>4, KqueueKeeps
<1>5. CASE backend = "devpoll" BY <1>5, DevpollKeeps
<1> QED BY <1>1, <1>2, <1>3, <1>4, <1>5 DEF Kinds

\* The pointer the loop takes to an entry changes no registration and no batch.
LEMMA PollerPoints ==
  ASSUME NEW backend \in Kinds, NEW p, Good(backend, p)
  PROVE  Keeps(backend, p, Point(backend, p)) /\ Quieter(backend, p, Point(backend, p))
<1>1. CASE backend = "devpoll" BY <1>1, DevpollPoints
<1>2. CASE backend # "devpoll"
  <2>1. Point(backend, p) = p BY <1>2 DEF Point
  <2> QED BY <2>1 DEF Keeps, Quieter
<1> QED BY <1>1, <1>2

\* What a poller watches is what it serves, and what it hears is for a sink it serves.
LEMMA PollerSound ==
  ASSUME NEW backend \in Kinds, NEW p, Good(backend, p)
  PROVE  Sound(backend, p)
<1>1. CASE backend = "epoll" BY <1>1, EpollSound
<1>2. CASE backend = "poll" BY <1>2, PollSound
<1>3. CASE backend = "select" BY <1>3, SelectSound
<1>4. CASE backend = "kqueue" BY <1>4, KqueueSound
<1>5. CASE backend = "devpoll" BY <1>5, DevpollSound
<1> QED BY <1>1, <1>2, <1>3, <1>4, <1>5 DEF Kinds
-----------------------------------------------------------------------------
(* The mailbox.                                                            *)

\* The reader sleeps only when there is nothing to read, and while it is awake either the
\* mailbox is active or exactly one signal is on its way.
MailInv ==
    /\ cpipe \in Seq({"work", "stop"})
    /\ asleep => cpipe = << >> /\ ~active /\ signals = 0 /\ signalling = {}
    /\ ~asleep => \/ active /\ signals = 0 /\ signalling = {}
                  \/ ~active /\ cpipe # << >> /\ signals = 1 /\ signalling = {}
                  \/ ~active /\ cpipe # << >> /\ signals = 0 /\ \E s \in Senders : signalling = {s}
    /\ ~failed

\* A stop is the last command: nothing is before it in the mailbox and nothing follows it.
StopInv ==
    /\ ~stopSent => ~stopping /\ \A i \in DOMAIN cpipe : cpipe[i] = "work"
    /\ stopSent => \/ cpipe = <<"stop">> /\ ~stopping
                   \/ cpipe = << >> /\ stopping

\* The mailbox and its signaler stay in step with the sleeping reader of the pipe.
LEMMA MailStep ==
  ASSUME MailInv, [Next]_vars
  PROVE  MailInv'
<1> USE DEF MailInv
<1>1. CASE UNCHANGED vars BY <1>1 DEF vars, mailVars
<1>2. CASE Recv
  <2>1. CASE active /\ cpipe # << >> /\ cpipe' = Tail(cpipe) /\ UNCHANGED <<asleep, active>>
    BY <1>2, <2>1 DEF Recv
  <2>2. CASE active /\ cpipe = << >> /\ asleep' = TRUE /\ active' = FALSE /\ UNCHANGED cpipe
    BY <1>2, <2>2 DEF Recv
  <2>3. CASE UNCHANGED <<cpipe, asleep, active>> BY <1>2, <2>3 DEF Recv
  <2> QED BY <1>2, <2>1, <2>2, <2>3 DEF Recv
<1>3. CASE RecvWait
  <2>1. CASE signals = 0 BY <1>3, <2>1 DEF RecvWait
  <2>2. CASE signals # 0
    <3>1. ~asleep /\ ~active /\ cpipe # << >> /\ signals = 1 /\ signalling = {} BY <2>2
    <3>2. /\ signals' = signals - 1 /\ active' = TRUE /\ cpipe' = Tail(cpipe)
          /\ failed' = (cpipe = << >> \/ signals > 2)
      BY <1>3, <2>2, <3>1, Zenon DEF RecvWait
    <3>3. asleep' = asleep /\ signalling' = signalling BY <1>3 DEF RecvWait
    <3>4. ~(cpipe = << >> \/ signals > 2) /\ signals - 1 = 0 BY <3>1
    <3>5. ~failed' /\ signals' = 0
      <4> HIDE DEF MailInv
      <4> QED BY <3>2, <3>4, Zenon
    <3>6. Tail(cpipe) \in Seq({"work", "stop"}) BY <3>1
    <3> QED BY <3>1, <3>2, <3>3, <3>5, <3>6
  <2> QED BY <2>1, <2>2
<1>4. ASSUME NEW s \in Senders, Signal(s) PROVE MailInv'
  <2>1. ~asleep /\ ~active /\ cpipe # << >> /\ signals = 0 /\ signalling = {s}
    BY <1>4 DEF Signal
  <2> QED BY <1>4, <2>1 DEF Signal
<1>5. ASSUME NEW s \in Senders, NEW cmd \in {"work", "stop"}, Send(s, cmd) PROVE MailInv'
  <2>1. /\ cpipe' = Append(cpipe, cmd) /\ cpipe' \in Seq({"work", "stop"}) /\ cpipe' # << >>
        /\ active' = active /\ signals' = signals /\ failed' = failed /\ asleep' = FALSE
    BY <1>5 DEF Send
  <2>2. CASE asleep
    <3>1. signalling' = {s} BY <1>5, <2>2 DEF Send
    <3> QED BY <2>1, <2>2, <3>1
  <2>3. CASE ~asleep
    <3>1. signalling' = signalling BY <1>5, <2>3 DEF Send
    <3> QED BY <2>1, <2>3, <3>1
  <2> QED BY <2>2, <2>3
<1>6. CASE Top \/ FireTimer \/ Interrupted \/ Pick \/ Deliver \/ EndOfBatch
           \/ \E reported \in SUBSET Watched(kind, poller) : Wait(reported)
  <2>1. UNCHANGED mailVars
    BY <1>6 DEF Top, FireTimer, Interrupted, Pick, Deliver, EndOfBatch, Wait
  <2> QED BY <2>1 DEF mailVars
<1>7. CASE Return
  <2>1. UNCHANGED mailVars BY <1>7 DEF Return
  <2> QED BY <2>1 DEF mailVars
<1>8. CASE Callee
  <2>1. UNCHANGED mailVars
    BY <1>8 DEF Callee, Plug, Unplug, AddTimer, CancelTimer, SetPollEvent, ResetPollEvent, calleeVars
  <2> QED BY <2>1 DEF mailVars
<1>9. CASE Exited BY <1>9 DEF Exited, vars, mailVars
<1> QED BY <1>1, <1>2, <1>3, <1>4, <1>5, <1>6, <1>7, <1>8, <1>9 DEF Next, Loop

\* The mailbox as ypipe_t and mailbox_t leave it at the start.
LEMMA MailInit == Init => MailInv
BY DEF Init, MailInv

\* mailbox_t: the signaler never holds two signals, and the read after a signal finds a
\* command.
THEOREM IoThreadOneSignal == Spec => []OneSignal
<1>1. MailInv => OneSignal
  <2> SUFFICES ASSUME MailInv PROVE OneSignal OBVIOUS
  <2>1. CASE signalling = {}
    <3>1. Cardinality(signalling) = 0 BY <2>1, FS_EmptySet
    <3> QED BY <3>1 DEF MailInv, OneSignal
  <2>2. CASE \E s : signalling = {s}
    <3>1. Cardinality(signalling) = 1 BY <2>2, FS_Singleton
    <3>2. signals = 0 BY <2>2 DEF MailInv
    <3> QED BY <3>1, <3>2 DEF MailInv, OneSignal
  <2> QED BY <2>1, <2>2 DEF MailInv
<1>2. MailInv /\ [Next]_vars => MailInv' BY MailStep
<1> QED BY <1>1, <1>2, MailInit, PTL DEF Spec
-----------------------------------------------------------------------------
(* The registrations.                                                      *)

On(obj) == {o \in Objects : obj[o] # Unplugged}

\* what an object asked for, and the mailbox as long as the thread does not stop
Asked(k, obj, stop, h, f, s, E) ==
    \/ s \in On(obj) /\ obj[s].handle = h /\ obj[s].fd = f /\ obj[s].events = E
    \/ ~stop /\ s = Self /\ h = Fresh(k, New(k), MailboxFd) /\ f = MailboxFd /\ E = {"in"}

Entries(obj) ==
    /\ DOMAIN obj = Objects
    /\ \A o \in On(obj) : /\ DOMAIN obj[o] = {"fd", "handle", "events"}
                          /\ obj[o].fd \in Fds \ {MailboxFd} /\ obj[o].events \subseteq Evs
    /\ \A o, r \in On(obj) : obj[o].fd = obj[r].fd => o = r

\* The poller serves what was asked for, under the handles that were given out, and
\* nothing else.
Registered(k, p, obj, stop) ==
    /\ k \in Kinds /\ Good(k, p) /\ Entries(obj)
    /\ \A h, f, s, E : Serves(k, p, h, f, s, E) <=> Asked(k, obj, stop, h, f, s, E)

\* every event left in the batch is for one of the objects it is about
Owned(k, p, d) == \A e : Heard(k, p, e) => Sink(k, p, e) \in d \cup {Self}

\* A handle is the handle of one registration.
LEMMA OneHandle ==
  ASSUME NEW k, NEW p, NEW obj, NEW stop, Registered(k, p, obj, stop),
         NEW h, NEW f, NEW s, NEW E, NEW g, NEW r, NEW D,
         Asked(k, obj, stop, h, f, s, E), Asked(k, obj, stop, h, g, r, D)
  PROVE  f = g /\ s = r /\ E = D
<1>1. Serves(k, p, h, f, s, E) /\ Serves(k, p, h, g, r, D) BY DEF Registered
<1>2. Sound(k, p) BY PollerSound DEF Registered
<1> QED BY <1>1, <1>2 DEF Sound

\* io_object_t::add_fd with a descriptor nobody has.
LEMMA PlugRegisters ==
  ASSUME NEW k, NEW p, NEW obj, NEW stop, NEW d, Registered(k, p, obj, stop),
         NEW o \in Objects \ On(obj), NEW fd \in Fds \ {MailboxFd},
         \A r \in On(obj) : obj[r].fd # fd,
         NEW q, q = AddFd(k, p, fd, o), NEW new,
         new = [obj EXCEPT ![o] = [fd |-> fd, handle |-> Fresh(k, p, fd), events |-> {}]]
  PROVE  Registered(k, q, new, stop) /\ Quieter(k, p, q)
<1> DEFINE x == [fd |-> fd, handle |-> Fresh(k, p, fd), events |-> {}]
<1>k. k \in Kinds /\ Good(k, p) /\ Entries(obj) BY DEF Registered
<1>1. Free(k, p, fd)
  <2> SUFFICES ASSUME NEW h, NEW s, NEW E, Serves(k, p, h, fd, s, E) PROVE FALSE BY DEF Free
  <2>1. Asked(k, obj, stop, h, fd, s, E) BY DEF Registered
  <2> QED BY <2>1 DEF Asked
<1>2. Adds(k, p, q, Fresh(k, p, fd), fd, o) BY <1>k, <1>1, PollerAdds
<1>3. x.fd = fd /\ x.handle = Fresh(k, p, fd) /\ x.events = {} /\ DOMAIN x = {"fd", "handle", "events"}
  OBVIOUS
<1>4. x # Unplugged
  <2>1. Unplugged.fd = NoHandle BY DEF Unplugged
  <2>2. fd # NoHandle BY PollerAssumption DEF NoHandle
  <2> QED BY <1>3, <2>1, <2>2
<1> HIDE DEF x
<1>5. DOMAIN new = Objects /\ new[o] = x /\ \A r \in Objects \ {o} : new[r] = obj[r]
  BY <1>k DEF Entries, x
<1>6. On(new) = On(obj) \cup {o} BY <1>4, <1>5 DEF On
<1>7. Entries(new)
  <2>1. \A r \in On(obj) : r \in Objects \ {o} BY DEF On
  <2>2. \A r \in On(new) : /\ DOMAIN new[r] = {"fd", "handle", "events"}
                           /\ new[r].fd \in Fds \ {MailboxFd} /\ new[r].events \subseteq Evs
    BY <1>k, <1>3, <1>5, <1>6, <2>1 DEF Entries
  <2>3. \A r, w \in On(new) : new[r].fd = new[w].fd => r = w
    BY <1>k, <1>3, <1>5, <1>6, <2>1 DEF Entries
  <2> QED BY <1>5, <2>2, <2>3 DEF Entries
<1>8. ASSUME NEW h, NEW f, NEW s, NEW E
      PROVE  Serves(k, q, h, f, s, E) <=> Asked(k, new, stop, h, f, s, E)
  <2>1. Serves(k, q, h, f, s, E) <=>
          Asked(k, obj, stop, h, f, s, E) \/ (h = Fresh(k, p, fd) /\ f = fd /\ s = o /\ E = {})
    BY <1>2 DEF Adds, Registered
  <2>2. o # Self BY IoThreadAssumption DEF Self
  <2>3. CASE s = o
    <3>1. Asked(k, new, stop, h, f, s, E) <=> h = Fresh(k, p, fd) /\ f = fd /\ E = {}
      BY <1>3, <1>5, <1>6, <2>2, <2>3 DEF Asked
    <3>2. ~Asked(k, obj, stop, h, f, s, E) BY <2>2, <2>3 DEF Asked
    <3> QED BY <2>1, <2>3, <3>1, <3>2
  <2>4. CASE s # o
    <3>1. s \in On(new) <=> s \in On(obj) BY <1>6, <2>4
    <3>2. s \in On(obj) => new[s] = obj[s] BY <1>5, <2>4 DEF On
    <3> QED BY <2>1, <2>4, <3>1, <3>2 DEF Asked
  <2> QED BY <2>3, <2>4
<1> QED BY <1>k, <1>2, <1>7, <1>8 DEF Adds, Registered

\* io_object_t::rm_fd of an object that is plugged.
LEMMA UnplugRegisters ==
  ASSUME NEW k, NEW p, NEW obj, NEW stop, Registered(k, p, obj, stop), NEW o \in On(obj),
         NEW q, q = RmFd(k, p, obj[o].handle), NEW new, new = [obj EXCEPT ![o] = Unplugged]
  PROVE  Registered(k, q, new, stop) /\ Quieter(k, p, q)
<1> DEFINE g == obj[o].handle
<1>k. k \in Kinds /\ Good(k, p) /\ Entries(obj) BY DEF Registered
<1>o. o \in Objects /\ o # Self BY IoThreadAssumption DEF On, Self
<1>a. Asked(k, obj, stop, g, obj[o].fd, o, obj[o].events) BY DEF Asked
<1>b. Serves(k, p, g, obj[o].fd, o, obj[o].events) BY <1>a DEF Registered
<1>2. Removes(k, p, q, g) BY <1>k, <1>b, PollerRemoves
<1>5. DOMAIN new = Objects /\ new[o] = Unplugged /\ \A r \in Objects \ {o} : new[r] = obj[r]
  BY <1>k, <1>o DEF Entries
<1>6. On(new) = On(obj) \ {o} BY <1>5 DEF On
<1>7. Entries(new)
  <2>1. \A r \in On(new) : r \in On(obj) /\ new[r] = obj[r] BY <1>5, <1>6 DEF On
  <2>2. \A r \in On(new) : /\ DOMAIN new[r] = {"fd", "handle", "events"}
                           /\ new[r].fd \in Fds \ {MailboxFd} /\ new[r].events \subseteq Evs
    BY <1>k, <2>1 DEF Entries
  <2>3. \A r, w \in On(new) : new[r].fd = new[w].fd => r = w BY <1>k, <2>1 DEF Entries
  <2> QED BY <1>5, <2>2, <2>3 DEF Entries
<1>8. ASSUME NEW h, NEW f, NEW s, NEW E
      PROVE  Serves(k, q, h, f, s, E) <=> Asked(k, new, stop, h, f, s, E)
  <2>1. Serves(k, q, h, f, s, E) <=> Asked(k, obj, stop, h, f, s, E) /\ h # g
    BY <1>2 DEF Removes, Registered
  <2>2. Asked(k, obj, stop, h, f, s, E) => (h = g <=> s = o)
    <3> SUFFICES ASSUME Asked(k, obj, stop, h, f, s, E) PROVE h = g <=> s = o OBVIOUS
    <3>1. h = g => s = o BY <1>a, OneHandle
    <3>2. s = o => h = g BY <1>o DEF Asked
    <3> QED BY <3>1, <3>2
  <2>3. Asked(k, new, stop, h, f, s, E) <=> Asked(k, obj, stop, h, f, s, E) /\ s # o
    <3>1. s # o => (s \in On(new) <=> s \in On(obj)) BY <1>6
    <3>2. s \in On(obj) /\ s # o => new[s] = obj[s] BY <1>5 DEF On
    <3>3. o \notin On(new) BY <1>6
    <3> QED BY <1>o, <3>1, <3>2, <3>3 DEF Asked
  <2> QED BY <2>1, <2>2, <2>3
<1> QED BY <1>k, <1>2, <1>7, <1>8 DEF Removes, Registered

\* set_pollin and its like, by an object that is plugged.
LEMMA TurnRegisters ==
  ASSUME NEW k, NEW p, NEW obj, NEW stop, Registered(k, p, obj, stop), NEW o \in On(obj),
         NEW D, D \subseteq Evs, NEW q, Turns(k, p, q, obj[o].handle, D),
         NEW new, new = [obj EXCEPT ![o].events = D]
  PROVE  Registered(k, q, new, stop) /\ Quieter(k, p, q)
<1> DEFINE g == obj[o].handle
           x == [obj[o] EXCEPT !.events = D]
<1>k. k \in Kinds /\ Good(k, p) /\ Entries(obj) BY DEF Registered
<1>o. o \in Objects /\ o # Self BY IoThreadAssumption DEF On, Self
<1>a. Asked(k, obj, stop, g, obj[o].fd, o, obj[o].events) BY DEF Asked
<1>3. /\ DOMAIN x = {"fd", "handle", "events"} /\ x.fd = obj[o].fd /\ x.handle = g /\ x.events = D
  BY <1>k DEF Entries
<1>4. x # Unplugged
  <2>1. Unplugged.fd = NoHandle BY DEF Unplugged
  <2>2. obj[o].fd # NoHandle BY <1>k, PollerAssumption DEF NoHandle, Entries
  <2> QED BY <1>3, <2>1, <2>2
<1>5. DOMAIN new = Objects /\ new[o] = x /\ \A r \in Objects \ {o} : new[r] = obj[r]
  BY <1>k, <1>o DEF Entries
<1> HIDE DEF x
<1>6. On(new) = On(obj) BY <1>4, <1>5 DEF On
<1>7. Entries(new)
  <2>1. \A r \in On(obj) : r \in Objects /\ (r # o => new[r] = obj[r]) BY <1>5 DEF On
  <2>2. \A r \in On(obj) : /\ DOMAIN new[r] = {"fd", "handle", "events"} /\ new[r].fd = obj[r].fd
                           /\ new[r].events \subseteq Evs
    BY <1>k, <1>3, <1>5, <2>1 DEF Entries
  <2> QED BY <1>k, <1>5, <1>6, <2>2, ZenonT(60) DEF Entries
<1>8. ASSUME NEW h, NEW f, NEW s, NEW E
      PROVE  Serves(k, q, h, f, s, E) <=> Asked(k, new, stop, h, f, s, E)
  <2>1. Serves(k, q, h, f, s, E) <=>
          \/ h # g /\ Asked(k, obj, stop, h, f, s, E)
          \/ h = g /\ E = D /\ \E E0 : Asked(k, obj, stop, h, f, s, E0)
    BY DEF Turns, Registered
  <2>2. \A E0 : Asked(k, obj, stop, h, f, s, E0) => (h = g <=> s = o)
    <3> SUFFICES ASSUME NEW E0, Asked(k, obj, stop, h, f, s, E0) PROVE h = g <=> s = o OBVIOUS
    <3>1. h = g => s = o BY <1>a, OneHandle
    <3>2. s = o => h = g BY <1>o DEF Asked
    <3> QED BY <3>1, <3>2
  <2>3. CASE s = o
    <3>1. Asked(k, new, stop, h, f, s, E) <=> h = g /\ f = obj[o].fd /\ E = D
      BY <1>o, <1>3, <1>5, <1>6, <2>3 DEF Asked
    <3>2. \A E0 : Asked(k, obj, stop, h, f, s, E0) <=> h = g /\ f = obj[o].fd /\ E0 = obj[o].events
      BY <1>o, <2>3 DEF Asked
    <3> QED BY <2>1, <3>1, <3>2
  <2>4. CASE s # o
    <3>1. Asked(k, new, stop, h, f, s, E) <=> Asked(k, obj, stop, h, f, s, E)
      <4>1. s \in On(obj) => new[s] = obj[s] BY <1>5, <2>4 DEF On
      <4> QED BY <1>6, <4>1 DEF Asked
    <3> QED BY <2>1, <2>2, <2>4, <3>1
  <2> QED BY <2>3, <2>4
<1> QED BY <1>k, <1>7, <1>8 DEF Turns, Registered

\* io_thread_t::process_stop takes the mailbox out of the poller.
LEMMA StopRegisters ==
  ASSUME NEW k, NEW p, NEW obj, NEW stop, Registered(k, p, obj, stop), NEW halt,
         Asked(k, obj, stop, Fresh(k, New(k), MailboxFd), MailboxFd, Self, {"in"}),
         \A h, f, E : ~Asked(k, obj, halt, h, f, Self, E),
         NEW q, q = RmFd(k, p, Fresh(k, New(k), MailboxFd))
  PROVE  Registered(k, q, obj, halt) /\ Quieter(k, p, q)
<1> DEFINE g == Fresh(k, New(k), MailboxFd)
<1>k. k \in Kinds /\ Good(k, p) /\ Entries(obj) BY DEF Registered
<1>a. Asked(k, obj, stop, g, MailboxFd, Self, {"in"}) OBVIOUS
<1>b. Serves(k, p, g, MailboxFd, Self, {"in"}) BY <1>a DEF Registered
<1>2. Removes(k, p, q, g) BY <1>k, <1>b, PollerRemoves
<1>3. Self \notin On(obj) BY IoThreadAssumption DEF On, Self
<1>8. ASSUME NEW h, NEW f, NEW s, NEW E
      PROVE  Serves(k, q, h, f, s, E) <=> Asked(k, obj, halt, h, f, s, E)
  <2>1. Serves(k, q, h, f, s, E) <=> Asked(k, obj, stop, h, f, s, E) /\ h # g
    BY <1>2 DEF Removes, Registered
  <2>2. Asked(k, obj, stop, h, f, s, E) => (h = g <=> s = Self)
    <3> SUFFICES ASSUME Asked(k, obj, stop, h, f, s, E) PROVE h = g <=> s = Self OBVIOUS
    <3>1. h = g => s = Self BY <1>a, OneHandle
    <3>2. s = Self => h = g BY <1>3 DEF Asked
    <3> QED BY <3>1, <3>2
  <2>3. Asked(k, obj, halt, h, f, s, E) <=> Asked(k, obj, stop, h, f, s, E) /\ s # Self
    BY <1>3 DEF Asked
  <2> QED BY <2>1, <2>2, <2>3
<1> QED BY <1>k, <1>2, <1>8 DEF Removes, Registered

\* A step of the poller's loop that keeps its registrations.
LEMMA KeepRegisters ==
  ASSUME NEW k, NEW p, NEW obj, NEW stop, Registered(k, p, obj, stop), NEW q, Keeps(k, p, q)
  PROVE  Registered(k, q, obj, stop)
BY DEF Registered, Keeps

\* The wait: the batch is for the objects whose descriptors were reported.
LEMMA WaitRegisters ==
  ASSUME NEW k, NEW p, NEW obj, NEW stop, Registered(k, p, obj, stop),
         NEW reported, reported \subseteq Watched(k, p), NEW q, q = Waited(k, p, reported)
  PROVE  /\ Registered(k, q, obj, stop)
         /\ Owned(k, q, {o \in On(obj) : \E x \in reported : x[1] = obj[o].fd})
<1>k. k \in Kinds /\ Good(k, p) BY DEF Registered
<1>1. Reports(k, p, q, reported) BY <1>k, PollerReports
<1>2. Registered(k, q, obj, stop) BY <1>1, KeepRegisters DEF Reports
<1>3. ASSUME NEW e, Heard(k, q, e)
      PROVE  Sink(k, q, e) \in {o \in On(obj) : \E x \in reported : x[1] = obj[o].fd} \cup {Self}
  <2>1. PICK h, f, E : Serves(k, p, h, f, Sink(k, q, e), E) /\ \E x \in reported : x[1] = f
    BY <1>1, <1>3 DEF Reports
  <2>2. Asked(k, obj, stop, h, f, Sink(k, q, e), E) BY <2>1 DEF Registered
  <2> QED BY <2>1, <2>2 DEF Asked
<1> QED BY <1>2, <1>3 DEF Owned

\* What an object does with its registration brings no event to another object, and none
\* to itself once it is unplugged.
LEMMA QuieterOwned ==
  ASSUME NEW k, NEW p, NEW q, NEW d, Owned(k, p, d), Quieter(k, p, q)
  PROVE  /\ Owned(k, q, d)
         /\ \A obj, stop : \A o \in Objects \ On(obj) :
               Registered(k, q, obj, stop) => Owned(k, q, d \ {o})
<1>1. Owned(k, q, d) BY DEF Owned, Quieter
<1>2. ASSUME NEW obj, NEW stop, NEW o \in Objects \ On(obj), Registered(k, q, obj, stop)
      PROVE  Owned(k, q, d \ {o})
  <2> SUFFICES ASSUME NEW e, Heard(k, q, e) PROVE Sink(k, q, e) # o
    BY <1>1 DEF Owned
  <2>1. Sound(k, q) BY <1>2, PollerSound DEF Registered
  <2>2. PICK h, f, E : Serves(k, q, h, f, Sink(k, q, e), E) BY <2>1 DEF Sound
  <2>3. Asked(k, obj, stop, h, f, Sink(k, q, e), E) BY <1>2, <2>2 DEF Registered
  <2> QED BY <2>3, IoThreadAssumption DEF Asked, Self
<1> QED BY <1>1, <1>2

\* The start: io_thread_t's constructor registers the mailbox.
LEMMA InitRegisters ==
  ASSUME NEW k \in Kinds, NEW p,
         p = SetPoll(k, AddFd(k, New(k), MailboxFd, Self), Fresh(k, New(k), MailboxFd), "in")
  PROVE  Registered(k, p, [o \in Objects |-> Unplugged], FALSE)
<1> DEFINE g == Fresh(k, New(k), MailboxFd)
           p1 == AddFd(k, New(k), MailboxFd, Self)
           obj == [o \in Objects |-> Unplugged]
<1>1. Good(k, New(k)) /\ \A h, f, s, E : ~Serves(k, New(k), h, f, s, E) BY PollerStarts
<1>2. MailboxFd \in Fds BY IoThreadAssumption DEF MailboxFd
<1>3. Adds(k, New(k), p1, g, MailboxFd, Self) BY <1>1, <1>2, PollerAdds DEF Free
<1>4. Serves(k, p1, g, MailboxFd, Self, {}) /\ Good(k, p1) BY <1>3 DEF Adds
<1>5. "in" \in Evs /\ {} \cup {"in"} = {"in"} BY DEF Evs
<1> HIDE DEF p1, g
<1>6. Turns(k, p1, p, g, {"in"})
  <2>1. Turns(k, p1, SetPoll(k, p1, g, "in"), g, {} \cup {"in"}) BY <1>4, <1>5, PollerTurns
  <2> QED BY <1>5, <2>1 DEF p1, g
<1>7. On(obj) = {} /\ Entries(obj) BY DEF On, Entries
<1>8. ASSUME NEW h, NEW f, NEW s, NEW E
      PROVE  Serves(k, p, h, f, s, E) <=> Asked(k, obj, FALSE, h, f, s, E)
  <2>1. \A E0 : Serves(k, p1, h, f, s, E0) <=> h = g /\ f = MailboxFd /\ s = Self /\ E0 = {}
    BY <1>1, <1>3 DEF Adds
  <2>2. Serves(k, p, h, f, s, E) <=> h = g /\ f = MailboxFd /\ s = Self /\ E = {"in"}
    BY <1>6, <2>1 DEF Turns
  <2>3. Asked(k, obj, FALSE, h, f, s, E) <=> s = Self /\ h = g /\ f = MailboxFd /\ E = {"in"}
    BY <1>7 DEF Asked, g
  <2> QED BY <2>2, <2>3
<1>9. Good(k, p) BY <1>6 DEF Turns
<1> QED BY <1>7, <1>8, <1>9 DEF Registered
-----------------------------------------------------------------------------
(* The loop.                                                               *)

Batch == {"dispatch", "callback", "recv", "recv wait", "command"}
Between == {"top", "timers", "timer callback"}

PollerInv == Registered(kind, poller, objects, stopping)
BatchInv == phase \in Batch => Owned(kind, poller, due)
PosInv ==
    /\ phase \in Between => pos = NoPos
    /\ pos # NoPos => pos[1] \in Positions(kind, poller)
StageInv == stage \in Nat

IInv == MailInv /\ StopInv /\ StageInv /\ PollerInv /\ BatchInv /\ PosInv /\ EventsToTheirOwner

\* mailbox_t::recv hands on a command: work, or the one stop.
LEMMA TakeCommand ==
  ASSUME MailInv, StopInv, cpipe # << >>, Process(Head(cpipe)), cpipe' = Tail(cpipe),
         stopSent' = stopSent
  PROVE  /\ StopInv'
         /\ \/ phase' = "command" /\ poller' = poller /\ stopping' = stopping
            \/ /\ phase' = "recv" /\ ~stopping /\ stopping' = TRUE
               /\ poller' = RmFd(kind, poller, Fresh(kind, New(kind), MailboxFd))
<1>1. cpipe \in Seq({"work", "stop"}) BY DEF MailInv
<1>2. CASE ~stopSent
  <2>1. Head(cpipe) = "work" /\ ~stopping BY <1>1, <1>2 DEF StopInv
  <2>2. phase' = "command" /\ poller' = poller /\ stopping' = stopping BY <2>1 DEF Process
  <2>3. \A i \in DOMAIN Tail(cpipe) : Tail(cpipe)[i] = "work" BY <1>1, <1>2 DEF StopInv
  <2>4. ~stopSent' /\ ~stopping' /\ \A i \in DOMAIN cpipe' : cpipe'[i] = "work"
    BY <1>2, <2>1, <2>2, <2>3
  <2> QED BY <2>2, <2>4 DEF StopInv
<1>3. CASE stopSent
  <2>1. cpipe = <<"stop">> /\ ~stopping BY <1>3 DEF StopInv
  <2>2. Head(cpipe) = "stop" /\ Tail(cpipe) = << >> BY <2>1
  <2>3. /\ phase' = "recv" /\ stopping' = TRUE
        /\ poller' = RmFd(kind, poller, Fresh(kind, New(kind), MailboxFd))
    BY <2>2 DEF Process
  <2>4. stopSent' /\ stopping' /\ cpipe' = << >> BY <1>3, <2>2, <2>3
  <2> QED BY <2>1, <2>3, <2>4 DEF StopInv
<1> QED BY <1>2, <1>3

\* Nothing is sent after the stop, and the stop is sent to an empty mailbox.
LEMMA StopStep ==
  ASSUME MailInv, StopInv, [Next]_vars
  PROVE  StopInv'
<1>1. CASE UNCHANGED vars BY <1>1 DEF vars, mailVars, StopInv
<1>2. CASE Recv
  <2>1. CASE cpipe # << >> /\ cpipe' = Tail(cpipe) /\ Process(Head(cpipe))
    <3>1. stopSent' = stopSent BY <1>2 DEF Recv
    <3> QED BY <2>1, <3>1, TakeCommand
  <2>2. CASE UNCHANGED <<stopping, cpipe>> BY <1>2, <2>2 DEF Recv, StopInv
  <2> QED BY <1>2, <2>1, <2>2 DEF Recv
<1>3. CASE RecvWait
  <2>1. stopSent' = stopSent BY <1>3 DEF RecvWait
  <2>2. CASE cpipe # << >> /\ cpipe' = Tail(cpipe) /\ Process(Head(cpipe)) BY <2>1, <2>2, TakeCommand
  <2>3. CASE UNCHANGED <<stopping, cpipe>> BY <2>1, <2>3 DEF StopInv
  <2> QED BY <1>3, <2>2, <2>3 DEF RecvWait
<1>4. ASSUME NEW s \in Senders, Signal(s) PROVE StopInv' BY <1>4 DEF Signal, StopInv
<1>5. ASSUME NEW s \in Senders, NEW cmd \in {"work", "stop"}, Send(s, cmd) PROVE StopInv'
  <2>1. ~stopSent /\ ~stopping /\ \A i \in DOMAIN cpipe : cpipe[i] = "work" BY <1>5 DEF Send, StopInv
  <2>2. cpipe' = Append(cpipe, cmd) /\ stopping' = stopping /\ stopSent' = (cmd = "stop")
    BY <1>5 DEF Send
  <2>3. cpipe \in Seq({"work", "stop"}) BY DEF MailInv
  <2>4. CASE cmd = "stop"
    <3>1. cpipe = << >> BY <1>5, <2>4 DEF Send
    <3>2. cpipe' = <<"stop">> BY <2>2, <2>4, <3>1
    <3> QED BY <2>1, <2>2, <2>4, <3>2 DEF StopInv
  <2>5. CASE cmd = "work"
    <3>1. \A i \in DOMAIN Append(cpipe, cmd) : Append(cpipe, cmd)[i] = "work" BY <2>1, <2>3, <2>5
    <3>2. \A i \in DOMAIN cpipe' : cpipe'[i] = "work" BY <2>2, <3>1
    <3>3. stopSent' = FALSE /\ ~stopping' BY <2>1, <2>2, <2>5
    <3> QED BY <3>2, <3>3 DEF StopInv
  <2> QED BY <2>4, <2>5
<1>6. CASE Top \/ FireTimer \/ Interrupted \/ Pick \/ Deliver \/ EndOfBatch
           \/ \E reported \in SUBSET Watched(kind, poller) : Wait(reported)
  <2>1. UNCHANGED mailVars /\ stopping' = stopping
    BY <1>6 DEF Top, FireTimer, Interrupted, Pick, Deliver, EndOfBatch, Wait
  <2> QED BY <2>1 DEF mailVars, StopInv
<1>7. CASE Return
  <2>1. UNCHANGED mailVars /\ stopping' = stopping BY <1>7 DEF Return
  <2> QED BY <2>1 DEF mailVars, StopInv
<1>8. CASE Callee
  <2>1. UNCHANGED mailVars /\ stopping' = stopping
    BY <1>8 DEF Callee, Plug, Unplug, AddTimer, CancelTimer, SetPollEvent, ResetPollEvent, calleeVars
  <2> QED BY <2>1 DEF mailVars, StopInv
<1>9. CASE Exited BY <1>9 DEF Exited, vars, mailVars, StopInv
<1> QED BY <1>1, <1>2, <1>3, <1>4, <1>5, <1>6, <1>7, <1>8, <1>9 DEF Next, Loop

\* What an object does in a callback, during a batch or between two, keeps the
\* registrations and the batch sound.
LEMMA CalleeStep ==
  ASSUME IInv, Callee
  PROVE  PollerInv' /\ BatchInv' /\ PosInv' /\ EventsToTheirOwner'
<1>i. /\ Registered(kind, poller, objects, stopping)
      /\ phase \in Batch => Owned(kind, poller, due)
      /\ phase \in Between => pos = NoPos
      /\ pos # NoPos => pos[1] \in Positions(kind, poller)
      /\ ~stray
  BY DEF IInv, PollerInv, BatchInv, PosInv, EventsToTheirOwner
<1>p. Plugged = On(objects) BY DEF Plugged, On
<1>c. kind' = kind /\ phase' = phase /\ pos' = pos /\ stopping' = stopping /\ stray' = stray
  BY DEF Callee, Plug, Unplug, AddTimer, CancelTimer, SetPollEvent, ResetPollEvent, calleeVars
<1>q. ASSUME Quieter(kind, poller, poller'), Registered(kind, poller', objects', stopping),
             \/ due' = due
             \/ \E o \in Objects \ On(objects') : due' = due \ {o}
      PROVE  PollerInv' /\ BatchInv' /\ PosInv' /\ EventsToTheirOwner'
  <2>1. Registered(kind', poller', objects', stopping') BY <1>c, <1>q
  <2>2. phase \in Batch => Owned(kind, poller', due') BY <1>i, <1>q, QuieterOwned
  <2>3. pos # NoPos => pos[1] \in Positions(kind, poller') BY <1>i, <1>q DEF Quieter
  <2>4. PollerInv' BY <2>1 DEF PollerInv
  <2>5. BatchInv' BY <1>c, <2>2 DEF BatchInv
  <2>6. PosInv' BY <1>c, <1>i, <2>3 DEF PosInv
  <2> QED BY <1>c, <1>i, <2>4, <2>5, <2>6 DEF EventsToTheirOwner
<1>1. ASSUME NEW o \in Objects, NEW fd \in Fds \ {MailboxFd}, Plug(o, fd)
      PROVE  PollerInv' /\ BatchInv' /\ PosInv' /\ EventsToTheirOwner'
  <2>1. /\ o \in Objects \ On(objects) /\ \A r \in On(objects) : objects[r].fd # fd
        /\ objects' = [objects EXCEPT ![o] = [fd |-> fd, handle |-> Fresh(kind, poller, fd), events |-> {}]]
        /\ poller' = AddFd(kind, poller, fd, o) /\ due' = due
    BY <1>1, <1>p DEF Plug
  <2>2. Registered(kind, poller', objects', stopping) /\ Quieter(kind, poller, poller')
    BY <1>i, <2>1, PlugRegisters
  <2> QED BY <1>q, <2>1, <2>2
<1>2. ASSUME NEW o \in Objects, Unplug(o)
      PROVE  PollerInv' /\ BatchInv' /\ PosInv' /\ EventsToTheirOwner'
  <2>1. /\ o \in On(objects) /\ objects' = [objects EXCEPT ![o] = Unplugged]
        /\ poller' = RmFd(kind, poller, objects[o].handle) /\ due' = due \ {o}
    BY <1>2, <1>p DEF Unplug
  <2>2. Registered(kind, poller', objects', stopping) /\ Quieter(kind, poller, poller')
    BY <1>i, <2>1, UnplugRegisters
  <2>3. o \in Objects \ On(objects')
    <3>1. DOMAIN objects = Objects BY <1>i DEF Registered, Entries
    <3>2. objects'[o] = Unplugged BY <2>1, <3>1
    <3> QED BY <3>2 DEF On
  <2> QED BY <1>q, <2>1, <2>2, <2>3
<1>3. ASSUME NEW o \in Objects, NEW ev \in {"in", "out"}, SetPollEvent(o, ev)
      PROVE  PollerInv' /\ BatchInv' /\ PosInv' /\ EventsToTheirOwner'
  <2> DEFINE D == objects[o].events \cup {ev}
  <2>1. /\ o \in On(objects) /\ objects' = [objects EXCEPT ![o].events = D]
        /\ poller' = SetPoll(kind, poller, objects[o].handle, ev) /\ due' = due
    BY <1>3, <1>p DEF SetPollEvent
  <2>2. ev \in Evs /\ D \subseteq Evs BY <1>i, <2>1 DEF Registered, Entries, Evs
  <2>3. Asked(kind, objects, stopping, objects[o].handle, objects[o].fd, o, objects[o].events)
    BY <2>1 DEF Asked
  <2>4. Serves(kind, poller, objects[o].handle, objects[o].fd, o, objects[o].events)
    BY <1>i, <2>3 DEF Registered
  <2>5. Turns(kind, poller, poller', objects[o].handle, D)
    BY <1>i, <2>1, <2>2, <2>4, PollerTurns DEF Registered
  <2> HIDE DEF D
  <2>6. Registered(kind, poller', objects', stopping) /\ Quieter(kind, poller, poller')
    BY <1>i, <2>1, <2>2, <2>5, TurnRegisters
  <2> QED BY <1>q, <2>1, <2>6
<1>4. ASSUME NEW o \in Objects, NEW ev \in {"in", "out"}, ResetPollEvent(o, ev)
      PROVE  PollerInv' /\ BatchInv' /\ PosInv' /\ EventsToTheirOwner'
  <2> DEFINE D == objects[o].events \ {ev}
  <2>1. /\ o \in On(objects) /\ objects' = [objects EXCEPT ![o].events = D]
        /\ poller' = ResetPoll(kind, poller, objects[o].handle, ev) /\ due' = due
    BY <1>4, <1>p DEF ResetPollEvent
  <2>2. ev \in Evs /\ D \subseteq Evs BY <1>i, <2>1 DEF Registered, Entries, Evs
  <2>3. Asked(kind, objects, stopping, objects[o].handle, objects[o].fd, o, objects[o].events)
    BY <2>1 DEF Asked
  <2>4. Serves(kind, poller, objects[o].handle, objects[o].fd, o, objects[o].events)
    BY <1>i, <2>3 DEF Registered
  <2>5. Turns(kind, poller, poller', objects[o].handle, D)
    BY <1>i, <2>1, <2>2, <2>4, PollerTurns DEF Registered
  <2> HIDE DEF D
  <2>6. Registered(kind, poller', objects', stopping) /\ Quieter(kind, poller, poller')
    BY <1>i, <2>1, <2>2, <2>5, TurnRegisters
  <2> QED BY <1>q, <2>1, <2>6
<1>5. ASSUME NEW o \in Objects, AddTimer(o) \/ CancelTimer(o)
      PROVE  PollerInv' /\ BatchInv' /\ PosInv' /\ EventsToTheirOwner'
  <2>1. poller' = poller /\ objects' = objects /\ due' = due BY <1>5 DEF AddTimer, CancelTimer
  <2>2. Quieter(kind, poller, poller') BY <2>1 DEF Quieter
  <2> QED BY <1>i, <1>q, <2>1, <2>2
<1> QED BY <1>1, <1>2, <1>3, <1>4, <1>5 DEF Callee

\* A step of the loop: a batch is for its owners from the wait to the clean-up.
LEMMA LoopStep ==
  ASSUME IInv, Loop
  PROVE  PollerInv' /\ BatchInv' /\ PosInv' /\ EventsToTheirOwner'
<1>i. /\ Registered(kind, poller, objects, stopping)
      /\ phase \in Batch => Owned(kind, poller, due)
      /\ phase \in Between => pos = NoPos
      /\ pos # NoPos => pos[1] \in Positions(kind, poller)
      /\ ~stray
  BY DEF IInv, PollerInv, BatchInv, PosInv, EventsToTheirOwner
<1>k. kind \in Kinds /\ Good(kind, poller) BY <1>i DEF Registered
<1>p. Plugged = On(objects) BY DEF Plugged, On
<1>q. ASSUME Registered(kind', poller', objects', stopping'),
             phase' \in Batch => Owned(kind', poller', due'),
             phase' \in Between => pos' = NoPos,
             pos' # NoPos => pos'[1] \in Positions(kind', poller'),
             ~stray'
      PROVE  PollerInv' /\ BatchInv' /\ PosInv' /\ EventsToTheirOwner'
  BY <1>q DEF PollerInv, BatchInv, PosInv, EventsToTheirOwner
<1>1. CASE Top
  <2>1. /\ phase = "top" /\ phase' \in {"exited", "timers"} /\ kind' = kind /\ objects' = objects
        /\ stopping' = stopping /\ pos' = pos /\ stray' = stray
        /\ poller' = poller \/ poller' = LoopTop(kind, poller)
    BY <1>1 DEF Top, loopVars
  <2>2. Registered(kind, poller', objects, stopping)
    BY <1>i, <1>k, <2>1, PollerKeeps, KeepRegisters
  <2>3. pos = NoPos BY <1>i, <2>1 DEF Between
  <2>4. phase' \notin Batch BY <2>1 DEF Batch
  <2> QED BY <1>i, <1>q, <2>1, <2>2, <2>3, <2>4
<1>2. CASE FireTimer \/ Interrupted
  <2>1. /\ phase = "timers" /\ phase' \in {"timer callback", "top"} /\ kind' = kind /\ objects' = objects
        /\ stopping' = stopping /\ pos' = pos /\ stray' = stray /\ poller' = poller
    BY <1>2 DEF FireTimer, Interrupted, loopVars
  <2>2. pos = NoPos BY <1>i, <2>1 DEF Between
  <2>3. phase' \notin Batch BY <2>1 DEF Batch
  <2> QED BY <1>i, <1>q, <2>1, <2>2, <2>3
<1>3. ASSUME NEW reported \in SUBSET Watched(kind, poller), Wait(reported)
      PROVE  PollerInv' /\ BatchInv' /\ PosInv' /\ EventsToTheirOwner'
  <2>1. /\ phase = "timers" /\ kind' = kind /\ objects' = objects /\ stopping' = stopping /\ pos' = pos
        /\ stray' = stray /\ poller' = Waited(kind, poller, reported)
        /\ due' = {o \in On(objects) : \E x \in reported : x[1] = objects[o].fd}
    BY <1>3, <1>p DEF Wait
  <2>2. Registered(kind, poller', objects, stopping) /\ Owned(kind, poller', due')
    BY <1>i, <2>1, WaitRegisters
  <2>3. pos = NoPos BY <1>i, <2>1 DEF Between
  <2> QED BY <1>i, <1>q, <2>1, <2>2, <2>3
<1>4. CASE Pick
  <2>1. /\ phase = "dispatch" /\ phase' = phase /\ kind' = kind /\ objects' = objects
        /\ stopping' = stopping /\ stray' = stray /\ poller' = Point(kind, poller) /\ due' = due
    BY <1>4 DEF Pick
  <2>k. Keeps(kind, poller, poller') /\ Quieter(kind, poller, poller') BY <1>k, <2>1, PollerPoints
  <2>r. Registered(kind, poller', objects, stopping) BY <1>i, <2>k, KeepRegisters
  <2>2. PICK e \in Todo(kind, poller, done) : pos' = <<e>> BY <1>4 DEF Pick
  <2>3. e \in Positions(kind, poller) BY <1>k, PollerSound DEF Sound
  <2>4. pos'[1] = e BY <2>2
  <2>5. phase' \notin Between BY <2>1 DEF Between
  <2>6. pos'[1] \in Positions(kind, poller') BY <2>k, <2>3, <2>4 DEF Quieter
  <2>7. Owned(kind, poller', due) BY <1>i, <2>1, <2>k, QuieterOwned DEF Batch
  <2> QED BY <1>q, <1>i, <2>1, <2>r, <2>5, <2>6, <2>7
<1>5. CASE Deliver
  <2> DEFINE e == pos[1]
             sink == Sink(kind, poller, e)
             left == {i \in (stage + 1)..3 : Has(kind, poller, e, Stages[i])}
  <2>1. /\ phase = "dispatch" /\ pos # NoPos /\ kind' = kind /\ objects' = objects
        /\ stopping' = stopping /\ poller' = poller /\ due' = due
    BY <1>5 DEF Deliver
  <2>2. phase \in Batch BY <2>1 DEF Batch
  <2>3. CASE Skip(kind, poller, e) \/ left = {}
    <3>1. pos' = NoPos /\ phase' = phase /\ stray' = stray BY <1>5, <2>3 DEF Deliver
    <3> QED BY <1>i, <1>q, <2>1, <2>2, <3>1
  <2>4. CASE ~Skip(kind, poller, e) /\ left # {}
    <3>1. /\ phase' = (IF sink = Self THEN "recv" ELSE "callback") /\ pos' = pos
          /\ stray' = (stray \/ sink \notin due \cup {Self})
      BY <1>5, <2>4, Zenon DEF Deliver
    <3>2. PICK i \in (stage + 1)..3 : Has(kind, poller, e, Stages[i]) BY <2>4
    <3>3. \E ev \in AllEvs : Has(kind, poller, e, ev)
      <4>1. Stages[i] \in AllEvs
        <5>1. stage \in Nat BY DEF IInv, StageInv
        <5>2. i \in 1..3 BY <5>1
        <5> QED BY <5>2 DEF Stages, AllEvs
      <4> QED BY <3>2, <4>1
    <3>4. Heard(kind, poller, e) BY <1>i, <2>1, <2>4, <3>3 DEF Heard
    <3>5. sink \in due \cup {Self} BY <1>i, <2>2, <3>4 DEF Owned
    <3> HIDE DEF sink
    <3>6. ~stray' BY <1>i, <3>1, <3>5, Zenon
    <3>7. phase' \notin Between BY <3>1 DEF Between
    <3> QED BY <1>i, <1>q, <2>1, <2>2, <3>1, <3>6, <3>7
  <2> QED BY <2>3, <2>4
<1>6. CASE EndOfBatch
  <2>1. /\ pos = NoPos /\ kind' = kind /\ objects' = objects /\ stopping' = stopping /\ pos' = pos
        /\ stray' = stray /\ poller' = Cleanup(kind, poller) /\ phase' = "top"
    BY <1>6 DEF EndOfBatch
  <2>2. Registered(kind, poller', objects, stopping) BY <1>i, <1>k, <2>1, PollerKeeps, KeepRegisters
  <2>3. phase' \notin Batch BY <2>1 DEF Batch
  <2> QED BY <1>i, <1>q, <2>1, <2>2, <2>3
<1>t. ASSUME phase \in Batch, cpipe # << >>, cpipe' = Tail(cpipe), Process(Head(cpipe)),
             stopSent' = stopSent, kind' = kind, objects' = objects, due' = due, pos' = pos,
             stray' = stray
      PROVE  PollerInv' /\ BatchInv' /\ PosInv' /\ EventsToTheirOwner'
  <2>1. \/ phase' = "command" /\ poller' = poller /\ stopping' = stopping
        \/ /\ phase' = "recv" /\ ~stopping /\ stopping' = TRUE
           /\ poller' = RmFd(kind, poller, Fresh(kind, New(kind), MailboxFd))
    BY <1>t, TakeCommand DEF IInv
  <2>2. phase' \notin Between BY <2>1 DEF Between
  <2>3. CASE poller' = poller /\ stopping' = stopping BY <1>i, <1>q, <1>t, <2>2, <2>3
  <2>4. CASE /\ ~stopping /\ stopping' = TRUE
             /\ poller' = RmFd(kind, poller, Fresh(kind, New(kind), MailboxFd))
    <3>1. Registered(kind, poller', objects, stopping') /\ Quieter(kind, poller, poller')
      <4>1. Asked(kind, objects, stopping, Fresh(kind, New(kind), MailboxFd), MailboxFd, Self, {"in"})
        BY <2>4 DEF Asked
      <4>2. poller' = RmFd(kind, poller, Fresh(kind, New(kind), MailboxFd)) BY <2>4
      <4>3. \A h, f, E : ~Asked(kind, objects, stopping', h, f, Self, E)
        BY <2>4, IoThreadAssumption DEF Asked, On, Self
      <4> QED BY <1>i, <4>1, <4>2, <4>3, StopRegisters
    <3>2. Owned(kind, poller', due) BY <1>i, <1>t, <3>1, QuieterOwned
    <3>3. pos # NoPos => pos[1] \in Positions(kind, poller') BY <1>i, <3>1 DEF Quieter
    <3> QED BY <1>i, <1>q, <1>t, <2>2, <2>4, <3>1, <3>2, <3>3
  <2> QED BY <2>1, <2>3, <2>4
<1>7. CASE Recv
  <2>1. /\ phase = "recv" /\ kind' = kind /\ objects' = objects /\ pos' = pos /\ stray' = stray
        /\ due' = due /\ stopSent' = stopSent
    BY <1>7 DEF Recv, loopVars
  <2>2. phase \in Batch BY <2>1 DEF Batch
  <2>3. CASE cpipe # << >> /\ cpipe' = Tail(cpipe) /\ Process(Head(cpipe)) BY <1>t, <2>1, <2>2, <2>3
  <2>4. CASE phase' = "recv wait" /\ poller' = poller /\ stopping' = stopping
    <3>1. phase' \notin Between BY <2>4 DEF Between
    <3> QED BY <1>i, <1>q, <2>1, <2>2, <2>4, <3>1
  <2> QED BY <1>7, <2>3, <2>4 DEF Recv
<1>8. CASE RecvWait
  <2>1. /\ phase = "recv wait" /\ kind' = kind /\ objects' = objects /\ pos' = pos /\ stray' = stray
        /\ due' = due /\ stopSent' = stopSent
    BY <1>8 DEF RecvWait, loopVars
  <2>2. phase \in Batch BY <2>1 DEF Batch
  <2>3. CASE cpipe # << >> /\ cpipe' = Tail(cpipe) /\ Process(Head(cpipe)) BY <1>t, <2>1, <2>2, <2>3
  <2>4. CASE phase' \in {"dispatch", "exited"} /\ poller' = poller /\ stopping' = stopping
    <3>1. phase' \notin Between BY <2>4 DEF Between
    <3> QED BY <1>i, <1>q, <2>1, <2>2, <2>4, <3>1
  <2> QED BY <1>8, <2>3, <2>4 DEF RecvWait
<1> QED BY <1>1, <1>2, <1>3, <1>4, <1>5, <1>6, <1>7, <1>8 DEF Loop

\* The stage of an entry, its next event, is a natural number.
LEMMA StageStep ==
  ASSUME StageInv, [Next]_vars
  PROVE  StageInv'
<1>1. CASE Deliver
  <2> DEFINE e == pos[1]
             left == {i \in (stage + 1)..3 : Has(kind, poller, e, Stages[i])}
  <2>1. CASE stage' = 0 BY <2>1 DEF StageInv
  <2>2. CASE left # {} /\ stage' = CHOOSE i \in left : \A j \in left : i <= j
    <3>1. left \subseteq Nat BY DEF StageInv
    <3> HIDE DEF left
    <3>2. \E i \in left : \A j \in left : i <= j BY <2>2, <3>1, LeastNumber
    <3>3. stage' \in left BY <2>2, <3>2
    <3> QED BY <3>1, <3>3 DEF StageInv
  <2> QED BY <1>1, <2>1, <2>2 DEF Deliver
<1>2. CASE ~Deliver
  <2>1. stage' = stage
    BY <1>2 DEF Next, Loop, Top, FireTimer, Interrupted, Pick, EndOfBatch, Wait, Recv, RecvWait, Return,
        Callee, Plug, Unplug, AddTimer, CancelTimer, SetPollEvent, ResetPollEvent, calleeVars, Exited,
        Signal, Send, loopVars, vars
  <2> QED BY <2>1, SMTT(30) DEF StageInv
<1> QED BY <1>1, <1>2

\* Every step keeps the invariant.
LEMMA IInvStep ==
  ASSUME IInv, [Next]_vars
  PROVE  IInv'
<1>1. MailInv' /\ StopInv' /\ StageInv' BY MailStep, StopStep, StageStep DEF IInv
<1>i. /\ Registered(kind, poller, objects, stopping)
      /\ phase \in Batch => Owned(kind, poller, due)
      /\ phase \in Between => pos = NoPos
      /\ pos # NoPos => pos[1] \in Positions(kind, poller)
      /\ ~stray
  BY DEF IInv, PollerInv, BatchInv, PosInv, EventsToTheirOwner
<1>q. ASSUME kind' = kind, poller' = poller, objects' = objects, stopping' = stopping, due' = due,
             pos' = pos, stray' = stray, phase' \in Batch => phase \in Batch,
             phase' \in Between => phase \in Between
      PROVE  PollerInv' /\ BatchInv' /\ PosInv' /\ EventsToTheirOwner'
  BY <1>i, <1>q DEF PollerInv, BatchInv, PosInv, EventsToTheirOwner
<1>2. CASE Loop BY <1>1, <1>2, LoopStep DEF IInv
<1>3. CASE Callee BY <1>1, <1>3, CalleeStep DEF IInv
<1>4. CASE Return
  <2>1. UNCHANGED <<kind, poller, objects, stopping, due, pos, stray>> BY <1>4 DEF Return, loopVars
  <2>2. \/ phase = "callback" /\ phase' = "dispatch"
        \/ phase = "command" /\ phase' = "recv"
        \/ phase = "timer callback" /\ phase' = "timers"
    BY <1>4 DEF Return
  <2>3. (phase' \in Batch => phase \in Batch) /\ (phase' \in Between => phase \in Between)
    BY <2>2 DEF Batch, Between
  <2> QED BY <1>1, <1>q, <2>1, <2>3 DEF IInv
<1>5. CASE \/ Exited \/ UNCHANGED vars
           \/ \E s \in Senders : Signal(s) \/ \E cmd \in {"work", "stop"} : Send(s, cmd)
  <2>1. UNCHANGED <<kind, poller, objects, stopping, due, pos, stray, phase>>
    BY <1>5 DEF Exited, Signal, Send, vars, loopVars
  <2> QED BY <1>1, <1>q, <2>1 DEF IInv
<1> QED BY <1>2, <1>3, <1>4, <1>5 DEF Next

\* The invariant holds when the thread starts.
LEMMA IInvInit == Init => IInv
<1> SUFFICES ASSUME Init PROVE IInv OBVIOUS
<1>1. MailInv BY MailInit
<1>2. StopInv /\ StageInv BY DEF Init, StopInv, StageInv
<1>3. Registered(kind, poller, objects, stopping) BY InitRegisters DEF Init
<1>4. BatchInv /\ PosInv /\ EventsToTheirOwner
  BY DEF Init, BatchInv, PosInv, EventsToTheirOwner, Batch, Between, NoPos
<1> QED BY <1>1, <1>2, <1>3, <1>4 DEF IInv, PollerInv

\* The invariant of the I/O thread: mailbox, registrations and batch.
THEOREM IoThreadInvariant == Spec => []IInv
<1>1. IInv /\ [Next]_vars => IInv' BY IInvStep
<1> QED BY <1>1, IInvInit, PTL DEF Spec

\* A callback is made to the object its event was reported for, whatever the callbacks
\* before it in the batch did to the registrations: io_thread_t over each of the pollers.
THEOREM IoThreadEventsToTheirOwner == Spec => []EventsToTheirOwner
<1>1. IInv => EventsToTheirOwner BY DEF IInv
<1> QED BY <1>1, IoThreadInvariant, PTL

\* The poller watches what the objects asked for and, until it stops, the mailbox: none of
\* add_fd, rm_fd, set_pollin and their like, nor the compaction, loses or invents a
\* registration.
THEOREM IoThreadWatchesWhatWasAsked == Spec => []WatchesWhatWasAsked
<1>1. IInv => WatchesWhatWasAsked
  <2> SUFFICES ASSUME IInv PROVE WatchesWhatWasAsked OBVIOUS
  <2> DEFINE W == Watched(kind, poller)
             A == UNION {{objects[o].fd} \X objects[o].events : o \in Plugged}
  <2>i. Registered(kind, poller, objects, stopping) BY DEF IInv, PollerInv
  <2>s. Sound(kind, poller) BY <2>i, PollerSound DEF Registered
  <2>p. Plugged = On(objects) BY DEF Plugged, On
  <2>e. \A o \in On(objects) : objects[o].fd # MailboxFd /\ objects[o].events \subseteq Evs
    BY <2>i DEF Registered, Entries
  <2>1. ASSUME NEW x \in W, x[2] # "err", x[1] # MailboxFd PROVE x \in A
    <3>1. x = <<x[1], x[2]>> BY <2>s, <2>1 DEF Sound
    <3>2. PICK h, s, E : Serves(kind, poller, h, x[1], s, E) /\ x[2] \in E
      BY <2>s, <2>1, <3>1 DEF Sound
    <3>3. Asked(kind, objects, stopping, h, x[1], s, E) BY <2>i, <3>2 DEF Registered
    <3>4. s \in Plugged /\ objects[s].fd = x[1] /\ objects[s].events = E BY <2>1, <2>p, <3>3 DEF Asked
    <3>5. <<x[1], x[2]>> \in {objects[s].fd} \X objects[s].events BY <3>2, <3>4
    <3> QED BY <3>1, <3>4, <3>5
  <2>2. ASSUME NEW x \in A PROVE x \in W /\ x[2] # "err" /\ x[1] # MailboxFd
    <3>1. PICK o \in Plugged : x \in {objects[o].fd} \X objects[o].events BY <2>2
    <3>2. x = <<objects[o].fd, x[2]>> /\ x[1] = objects[o].fd /\ x[2] \in objects[o].events BY <3>1
    <3>3. Asked(kind, objects, stopping, objects[o].handle, objects[o].fd, o, objects[o].events)
      BY <2>p DEF Asked
    <3>4. Serves(kind, poller, objects[o].handle, objects[o].fd, o, objects[o].events)
      BY <2>i, <3>3 DEF Registered
    <3>5. <<objects[o].fd, x[2]>> \in W BY <2>s, <3>2, <3>4 DEF Sound
    <3> QED BY <2>e, <2>p, <3>2, <3>5 DEF Evs
  <2>3. {x \in W : x[2] # "err" /\ x[1] # MailboxFd} = A
    <3> HIDE DEF W, A
    <3> QED BY <2>1, <2>2
  <2>4. ASSUME ~stopping PROVE <<MailboxFd, "in">> \in W
    <3> DEFINE g == Fresh(kind, New(kind), MailboxFd)
    <3>1. Asked(kind, objects, stopping, g, MailboxFd, Self, {"in"}) BY <2>4 DEF Asked
    <3>2. Serves(kind, poller, g, MailboxFd, Self, {"in"}) BY <2>i, <3>1 DEF Registered
    <3> QED BY <2>s, <3>2 DEF Sound
  <2>5. ASSUME <<MailboxFd, "in">> \in W PROVE ~stopping
    <3>1. PICK h, s, E : Serves(kind, poller, h, MailboxFd, s, E) BY <2>s, <2>5 DEF Sound
    <3>2. Asked(kind, objects, stopping, h, MailboxFd, s, E) BY <2>i, <3>1 DEF Registered
    <3> QED BY <2>e, <3>2 DEF Asked
  <2> HIDE DEF W, A
  <2>6. ~stopping <=> <<MailboxFd, "in">> \in W BY <2>4, <2>5
  <2> QED BY <2>3, <2>6 DEF WatchesWhatWasAsked, W, A
<1> QED BY <1>1, IoThreadInvariant, PTL
-----------------------------------------------------------------------------
(* The pointer of devpoll's loop.                                          *)

\* A batch says of the mailbox only that it can be read, which is the last event of an
\* entry: while commands are processed, and may plug objects, the loop is done with its
\* pointer; and no other callback of a batch makes the table longer.
PointerInv ==
    kind = "devpoll" =>
       /\ \A ev : <<MailboxFd, ev>> \in poller.ev_buf => ev = "in"
       /\ phase \in {"recv", "recv wait", "command"} => stage = 3
       /\ phase \in {"dispatch", "callback"} /\ pos # NoPos /\ stage < 3 => ~poller.dangling

\* Which event the loop delivers next, and to whom.
LEMMA DeliverPointer ==
  ASSUME IInv, PointerInv, kind = "devpoll", Deliver
  PROVE  PointerInv'
<1> DEFINE e == pos[1]
           sink == Sink(kind, poller, e)
           left == {i \in (stage + 1)..3 : Has(kind, poller, e, Stages[i])}
<1>1. /\ phase = "dispatch" /\ pos # NoPos /\ kind' = kind /\ poller' = poller
  BY DEF Deliver
<1>2. /\ \A ev : <<MailboxFd, ev>> \in poller.ev_buf => ev = "in"
      /\ stage < 3 => ~poller.dangling
  BY <1>1 DEF PointerInv
<1>s. stage \in Nat BY DEF IInv, StageInv
<1>3. CASE Skip(kind, poller, e) \/ left = {}
  <2>1. pos' = NoPos /\ phase' = phase BY <1>3 DEF Deliver
  <2> QED BY <1>1, <1>2, <2>1 DEF PointerInv
<1>4. CASE ~Skip(kind, poller, e) /\ left # {}
  <2>1. /\ phase' = (IF sink = Self THEN "recv" ELSE "callback")
        /\ stage' = CHOOSE i \in left : \A j \in left : i <= j
    BY <1>4, Zenon DEF Deliver
  <2>2. stage' \in left
    <3>1. left \subseteq Nat BY <1>s
    <3> HIDE DEF left
    <3>2. \E i \in left : \A j \in left : i <= j BY <1>4, <3>1, LeastNumber
    <3> QED BY <2>1, <3>2
  <2>3. stage' \in 1..3 /\ stage < 3 /\ <<e, Stages[stage']>> \in poller.ev_buf
    <3>1. Has(kind, poller, e, Stages[stage']) <=> <<e, Stages[stage']>> \in poller.ev_buf
      BY DevpollOps
    <3> QED BY <1>s, <2>2, <3>1
  <2>4. ~poller.dangling BY <1>2, <2>3
  <2>5. CASE sink = Self
    <3>1. Stages[stage'] \in AllEvs BY <2>3 DEF Stages, AllEvs
    <3>2. e \in Positions(kind, poller)
      <4>1. e = <<e, Stages[stage']>>[1] OBVIOUS
      <4>2. Positions(kind, poller) = {x[1] : x \in poller.ev_buf} BY DevpollOps
      <4> QED BY <2>3, <4>1, <4>2
    <3>3. Heard(kind, poller, e)
      <4>1. Has(kind, poller, e, Stages[stage']) BY <2>2
      <4> QED BY <1>4, <3>1, <3>2, <4>1 DEF Heard
    <3>4. Registered(kind, poller, objects, stopping) BY DEF IInv, PollerInv
    <3>5. Serves(kind, poller, e, e, sink, poller.fd_table[e].events)
      <4>1. DevpollGood(poller) BY <3>4, DevpollOps DEF Registered
      <4>2. e \in Fds BY <2>3, <4>1 DEF DevpollGood
      <4>3. poller.fd_table[e].valid /\ sink = poller.fd_table[e].sink BY <3>3, DevpollOps
      <4> QED BY <4>2, <4>3, DevpollOps
    <3>6. Asked(kind, objects, stopping, e, e, sink, poller.fd_table[e].events)
      BY <3>4, <3>5 DEF Registered
    <3>7. e = MailboxFd BY <2>5, <3>6, IoThreadAssumption DEF Asked, On, Self
    <3>8. Stages[stage'] = "in" BY <1>2, <2>3, <3>7
    <3>9. stage' = 3 BY <2>3, <3>8 DEF Stages
    <3>10. phase' = "recv" BY <2>1, <2>5
    <3> QED BY <1>1, <1>2, <3>9, <3>10 DEF PointerInv
  <2>6. CASE sink # Self
    <3>1. phase' = "callback" BY <2>1, <2>6
    <3> QED BY <1>1, <1>2, <2>4, <3>1 DEF PointerInv
  <2> QED BY <2>5, <2>6
<1> QED BY <1>3, <1>4

\* What is watched of the mailbox is that it can be read.
LEMMA MailboxWatched ==
  ASSUME IInv, NEW reported \in SUBSET Watched(kind, poller), Wait(reported), NEW ev,
         <<MailboxFd, ev>> \in reported
  PROVE  ev = "in"
<1>1. Registered(kind, poller, objects, stopping) BY DEF IInv, PollerInv
<1>2. Sound(kind, poller) BY <1>1, PollerSound DEF Registered
<1>3. PICK h, s, E : Serves(kind, poller, h, MailboxFd, s, E) /\ (ev \in E \/ ev = "err")
  BY <1>2 DEF Sound
<1>4. Asked(kind, objects, stopping, h, MailboxFd, s, E) BY <1>1, <1>3 DEF Registered
<1>5. E = {"in"} BY <1>1, <1>4 DEF Asked, Registered, Entries
<1>6. ev # "err" BY DEF Wait
<1> QED BY <1>3, <1>5, <1>6

\* Every step keeps what is known of the pointer.
LEMMA PointerStep ==
  ASSUME IInv, PointerInv, [Next]_vars
  PROVE  PointerInv'
<1> SUFFICES ASSUME kind = "devpoll" PROVE PointerInv'
  <2>1. kind' = kind
    BY DEF Next, Loop, Top, FireTimer, Interrupted, Pick, Deliver, EndOfBatch, Wait, Recv, RecvWait,
        Return, Callee, Plug, Unplug, AddTimer, CancelTimer, SetPollEvent, ResetPollEvent, calleeVars,
        Exited, Signal, Send, vars
  <2> QED BY <2>1 DEF PointerInv
<1>g. Good("devpoll", poller) BY DEF IInv, PollerInv, Registered
<1>i. /\ \A ev : <<MailboxFd, ev>> \in poller.ev_buf => ev = "in"
      /\ phase \in {"recv", "recv wait", "command"} => stage = 3
      /\ phase \in {"dispatch", "callback"} /\ pos # NoPos /\ stage < 3 => ~poller.dangling
      /\ phase \in Between => pos = NoPos
  BY DEF PointerInv, IInv, PosInv
<1>b. /\ LoopTop("devpoll", poller).ev_buf = poller.ev_buf /\ Cleanup("devpoll", poller).ev_buf = {}
      /\ \A reported : Waited("devpoll", poller, reported).ev_buf = reported
      /\ \A fd, sink : AddFd("devpoll", poller, fd, sink).ev_buf = poller.ev_buf
      /\ \A h : /\ RmFd("devpoll", poller, h).ev_buf = poller.ev_buf
                /\ RmFd("devpoll", poller, h).dangling = poller.dangling
      /\ \A h, ev : /\ SetPoll("devpoll", poller, h, ev).ev_buf = poller.ev_buf
                    /\ SetPoll("devpoll", poller, h, ev).dangling = poller.dangling
                    /\ ResetPoll("devpoll", poller, h, ev).ev_buf = poller.ev_buf
                    /\ ResetPoll("devpoll", poller, h, ev).dangling = poller.dangling
  BY <1>g, DevpollBatch
<1>1. CASE Top
  <2>1. /\ phase = "top" /\ phase' \in {"exited", "timers"}
        /\ poller' = poller \/ poller' = LoopTop("devpoll", poller)
    BY <1>1 DEF Top
  <2>2. poller'.ev_buf = poller.ev_buf BY <1>b, <2>1
  <2> QED BY <1>i, <2>1, <2>2 DEF PointerInv
<1>2. CASE FireTimer \/ Interrupted
  <2>1. phase' \in {"timer callback", "top"} /\ poller' = poller BY <1>2 DEF FireTimer, Interrupted
  <2> QED BY <1>i, <2>1 DEF PointerInv
<1>3. ASSUME NEW reported \in SUBSET Watched(kind, poller), Wait(reported) PROVE PointerInv'
  <2>1. /\ phase = "timers" /\ phase' \in {"dispatch", "top"} /\ pos' = pos
        /\ poller' = Waited("devpoll", poller, reported)
    BY <1>3 DEF Wait
  <2>2. pos' = NoPos BY <1>i, <2>1 DEF Between
  <2>3. poller'.ev_buf = reported BY <1>b, <2>1
  <2>4. \A ev : <<MailboxFd, ev>> \in poller'.ev_buf => ev = "in" BY <1>3, <2>3, MailboxWatched
  <2> QED BY <2>1, <2>2, <2>4 DEF PointerInv
<1>4. CASE Pick
  <2>1. phase' = "dispatch" /\ poller' = Point("devpoll", poller) BY <1>4 DEF Pick
  <2>2. poller'.ev_buf = poller.ev_buf /\ poller'.dangling = FALSE BY <1>g, <2>1, DevpollPoints
  <2> QED BY <1>i, <2>1, <2>2 DEF PointerInv
<1>5. CASE Deliver BY <1>5, DeliverPointer
<1>6. CASE EndOfBatch
  <2>1. phase' = "top" /\ poller' = Cleanup("devpoll", poller) BY <1>6 DEF EndOfBatch
  <2>2. poller'.ev_buf = {} BY <1>b, <2>1
  <2> QED BY <2>1, <2>2 DEF PointerInv
<1>t. ASSUME phase \in {"recv", "recv wait"}, stage' = stage, NEW cmd, Process(cmd) PROVE PointerInv'
  <2>1. /\ phase' \in {"command", "recv"}
        /\ poller' = poller \/ \E h : poller' = RmFd("devpoll", poller, h)
    BY <1>t DEF Process
  <2>2. poller'.ev_buf = poller.ev_buf BY <1>b, <2>1
  <2> QED BY <1>i, <1>t, <2>1, <2>2 DEF PointerInv
<1>7. CASE Recv \/ RecvWait
  <2>1. phase \in {"recv", "recv wait"} /\ stage' = stage BY <1>7 DEF Recv, RecvWait, loopVars
  <2>2. CASE \E cmd : Process(cmd) BY <1>t, <2>1, <2>2
  <2>3. CASE phase' \in {"recv wait", "dispatch", "exited"} /\ poller' = poller
    <3>1. stage = 3 /\ stage' = stage BY <1>i, <2>1
    <3>2. stage' = 3 BY <3>1
    <3>3. ~(stage' < 3) BY <3>2
    <3>4. \A ev : <<MailboxFd, ev>> \in poller'.ev_buf => ev = "in" BY <1>i, <2>3
    <3> QED BY <3>2, <3>3, <3>4 DEF PointerInv
  <2> QED BY <1>7, <2>2, <2>3 DEF Recv, RecvWait
<1>8. CASE Return
  <2>1. /\ UNCHANGED <<poller, pos, stage>>
        /\ \/ phase = "callback" /\ phase' = "dispatch"
           \/ phase = "command" /\ phase' = "recv"
           \/ phase = "timer callback" /\ phase' = "timers"
    BY <1>8 DEF Return, loopVars
  <2> QED BY <1>i, <2>1 DEF PointerInv
<1>9. CASE Callee
  <2>1. UNCHANGED <<phase, pos, stage>>
    BY <1>9 DEF Callee, Plug, Unplug, AddTimer, CancelTimer, SetPollEvent, ResetPollEvent, calleeVars
  <2>2. CASE \E o \in Objects, fd \in Fds \ {MailboxFd} : Plug(o, fd)
    <3>1. PICK o \in Objects, fd \in Fds \ {MailboxFd} : Plug(o, fd) BY <2>2
    <3>p. /\ phase \in {"command", "timer callback"}
          /\ poller' = AddFd("devpoll", poller, fd, o)
      BY <3>1 DEF Plug
    <3>2. poller'.ev_buf = poller.ev_buf BY <1>b, <3>p
    <3> QED BY <1>i, <2>1, <3>p, <3>2 DEF PointerInv
  <2>3. CASE ~\E o \in Objects, fd \in Fds \ {MailboxFd} : Plug(o, fd)
    <3>1. \/ poller' = poller
          \/ \E h, ev : \/ poller' = RmFd("devpoll", poller, h)
                        \/ poller' = SetPoll("devpoll", poller, h, ev)
                        \/ poller' = ResetPoll("devpoll", poller, h, ev)
      BY <1>9, <2>3 DEF Callee, Unplug, AddTimer, CancelTimer, SetPollEvent, ResetPollEvent
    <3>2. poller'.ev_buf = poller.ev_buf /\ poller'.dangling = poller.dangling
      BY <1>b, <3>1
    <3> QED BY <1>i, <2>1, <3>2 DEF PointerInv
  <2> QED BY <2>2, <2>3
<1>10. CASE \/ Exited \/ UNCHANGED vars
            \/ \E s \in Senders : Signal(s) \/ \E cmd \in {"work", "stop"} : Send(s, cmd)
  <2>1. UNCHANGED <<poller, pos, stage, phase>> BY <1>10 DEF Exited, Signal, Send, vars, loopVars
  <2> QED BY <1>i, <2>1 DEF PointerInv
<1> QED BY <1>1, <1>2, <1>3, <1>4, <1>5, <1>6, <1>7, <1>8, <1>9, <1>10 DEF Next, Loop

\* devpoll_t::loop never looks at an entry through a pointer to where the table was before
\* add_fd made it longer: the callbacks that add descriptors are those of commands and of
\* timers, and no event of an entry follows the one that has commands processed.
THEOREM IoThreadEntryInPlace == Spec => []EntryInPlace
<1>1. Init => PointerInv
  <2> SUFFICES ASSUME Init, kind = "devpoll" PROVE PointerInv BY DEF PointerInv
  <2> DEFINE p == New("devpoll")
             q == AddFd("devpoll", p, MailboxFd, Self)
  <2>1. Good("devpoll", p) /\ p.ev_buf = {}
    BY DevpollStarts, DevpollOps DEF Devpoll!New
  <2>2. q.ev_buf = {} BY <2>1, DevpollBatch
  <2>3. Registered(kind, poller, objects, stopping) BY InitRegisters DEF Init
  <2>4. poller = SetPoll("devpoll", q, Fresh("devpoll", p, MailboxFd), "in") BY DEF Init
  <2>5. Good("devpoll", q)
    <3>1. Free("devpoll", p, MailboxFd) BY DevpollStarts DEF Free
    <3> QED BY <2>1, <3>1, DevpollAdds, IoThreadAssumption DEF Adds, MailboxFd
  <2> HIDE DEF p, q
  <2>6. poller.ev_buf = {} BY <2>2, <2>4, <2>5, DevpollBatch
  <2>7. phase = "top" BY DEF Init
  <2> QED BY <2>6, <2>7 DEF PointerInv
<1>2. IInv /\ PointerInv /\ [Next]_vars => IInv' /\ PointerInv' BY IInvStep, PointerStep
<1>3. IInv /\ PointerInv => EntryInPlace
  <2> SUFFICES ASSUME IInv, PointerInv, phase = "dispatch", pos # NoPos, stage < Len(Stages),
                      Dangles(kind, poller)
               PROVE  FALSE
    BY DEF EntryInPlace
  <2>1. kind = "devpoll" /\ poller.dangling BY DEF Dangles, Devpoll!Dangles
  <2>2. Len(Stages) = 3 BY DEF Stages
  <2> QED BY <2>1, <2>2 DEF PointerInv
<1> QED BY <1>1, <1>2, <1>3, IInvInit, PTL DEF Spec
=============================================================================
